-------------------------------- MODULE Tftp --------------------------------
(***************************************************************************)
(* The TFTP client (tftp.c, main.c), the daemons that inetd starts for its *)
(* requests (in.tftpd.c), and the datagrams between them.                  *)
(*                                                                         *)
(* An endpoint is a record: pc says which loop it is in ("send": sendfile, *)
(* "recv": recvfile, "last": the receive after the final acknowledgement), *)
(* pkt is the packet it sends again when its timer expires, b its buffers  *)
(* (TftpSubs).  block is an int; on the wire it has 16 bits.  What stdio   *)
(* still holds counts as written: fclose, which precedes every final       *)
(* acknowledgement, and exit write it out.  nr is history: the number of   *)
(* the command that a request or an endpoint works for.                    *)
(***************************************************************************)
EXTENDS TftpSubs, Bags, FiniteSets

CONSTANTS
    Scenarios,     \* what may happen: see ScenarioType
    BLOCKS,        \* number of values of th_block (2^16)
    TRIES,         \* maxtimeout / rexmtval
    MaxDaemons     \* bound: daemons started

ASSUME TftpAssumption ==
    /\ BLOCKS \in Nat \ {0, 1}
    /\ TRIES \in Nat \ {0}
    /\ MaxDaemons \in Nat \ {0}

VARIABLES
    scenario,      \* the scenario of this behaviour
    cl,            \* the client's transfer
    given,         \* commands given so far
    srv,           \* the daemons
    net,           \* bag of the datagrams under way
    alarms,        \* the endpoints whose alarm runs, in the order it was set
    disk,          \* the server's files
    faults         \* faults so far

vars == <<scenario, cl, given, srv, net, alarms, disk, faults>>

Char == {"a", "b", "CR", "LF", "NUL"}
Command == [op : {"get", "put"}, name : STRING, convert : BOOLEAN, data : Seq(Char)]

\* commands: what the user types; files: what the server has, name by name;
\* kinds, most: the faults that may happen, and how many.
ScenarioType(s) ==
    /\ s.commands \in Seq(Command)
    /\ \A n \in DOMAIN s.files : s.files[n] \in Seq(Char)
    /\ s.kinds \subseteq {"lose", "dup", "early"}
    /\ s.most \in Nat

ASSUME ScenarioAssumption == \A s \in Scenarios : ScenarioType(s)

Daemons == 1..MaxDaemons
inetd == 0          \* the port requests are sent to
client == -1        \* the port of the client

Endpoint(pc, block, pkt, b, convert, peer, name, nr) ==
    [pc |-> pc, block |-> block, timeout |-> 0, pkt |-> pkt, b |-> b,
     convert |-> convert, peer |-> peer, name |-> name, nr |-> nr]

Idle(pc) == Endpoint(pc, 0, NoPacket, rw_init(0, <<>>), FALSE, inetd, "none", 0)

Wire(block) == block % BLOCKS
Ack(block) == Packet("ACK", Wire(block), <<>>)
Error == Packet("ERROR", 0, <<>>)

\* A datagram: who sent it, who gets it (client, inetd, a daemon).
To(dst, src, pkt) == [dst |-> dst, src |-> src, pkt |-> pkt]

\* What a handler does: the endpoint after it, the packets it sends, and
\* whether it threw away its input queue (synchnet).
Does(e, pkts, synch) == [e |-> e, pkts |-> pkts, synch |-> synch]

-----------------------------------------------------------------------------
(***************************************************************************)
(* sendfile, of both programs                                              *)
(***************************************************************************)

\* From the top of the loop to the receive, for the block.
SendBlock(e, block) ==
    LET b == readit(e.b, e.convert)
        pkt == Packet("DATA", Wire(block), Current(b).data)
    IN  Does([e EXCEPT !.block = block, !.pkt = pkt, !.timeout = 0,
                       !.b = read_ahead(b, e.convert)], <<pkt>>, FALSE)

\* The label send_data.
send_data(e) == [e EXCEPT !.b = read_ahead(@, e.convert)]

\* Mutant: an acknowledgement of the block before passes for the current one.
sendfile_Early(e, m, end) ==
    IF m.op = "ACK" /\ m.blk \in {e.block, e.block - 1}
    THEN IF e.block > 0 /\ Len(e.pkt.data) # SEGSIZE THEN Does([e EXCEPT !.pc = end], <<>>, FALSE)
         ELSE SendBlock(e, e.block + 1)
    ELSE Does(e, <<>>, FALSE)

\* A packet m is received; end is where the loop ends.
sendfile(e, m, end) ==
    IF m.op = "ERROR" THEN Does([e EXCEPT !.pc = "error"], <<>>, FALSE)
    ELSE IF m.op # "ACK" THEN Does(e, <<>>, FALSE)
    ELSE IF m.blk = e.block
    THEN IF e.block > 0 /\ Len(e.pkt.data) # SEGSIZE
         THEN Does([e EXCEPT !.pc = end], <<>>, FALSE)
         ELSE SendBlock(e, e.block + 1)
    ELSE IF m.blk = e.block - 1 THEN Does(send_data(e), <<e.pkt>>, TRUE)
    ELSE Does(e, <<>>, TRUE)

-----------------------------------------------------------------------------
(***************************************************************************)
(* recvfile, of both programs                                              *)
(***************************************************************************)

\* The label send_ack.
send_ack(e) == [e EXCEPT !.b = write_behind(@, e.convert)]

\* Mutant: a packet that was had before is not acknowledged again.
recvfile_Silent(e, m, end) ==
    LET more == Len(m.data) = SEGSIZE
    IN  IF m.op = "DATA" /\ m.blk = e.block
        THEN Does([e EXCEPT !.pc = IF more THEN @ ELSE end, !.pkt = Ack(e.block), !.timeout = 0,
                            !.block = IF more THEN @ + 1 ELSE @,
                            !.b = write_behind(writeit(Received(@, m), e.convert), e.convert)],
                  <<Ack(e.block)>>, FALSE)
        ELSE Does(e, <<>>, FALSE)

\* A packet m is received; end is where the loop ends.  After an error the
\* client acknowledges (the user has seen the message), the daemon does not.
recvfile(e, m, end) ==
    LET got == [e EXCEPT !.b = Received(@, m)]
        b == writeit(got.b, e.convert)
        pkt == Ack(e.block)
        more == Len(m.data) = SEGSIZE
    IN  IF m.op = "ERROR"
        THEN Does([got EXCEPT !.pc = "error", !.b = write_behind(@, e.convert)],
                  IF end = "last" THEN <<>> ELSE <<pkt>>, FALSE)
        ELSE IF m.op # "DATA" THEN Does(got, <<>>, FALSE)
        ELSE IF m.blk = e.block
        THEN Does([e EXCEPT !.pc = IF more THEN @ ELSE end, !.b = write_behind(b, e.convert),
                            !.block = IF more THEN @ + 1 ELSE @, !.pkt = pkt, !.timeout = 0],
                  <<pkt>>, FALSE)
        ELSE IF m.blk = e.block - 1 THEN Does(send_ack(got), <<e.pkt>>, TRUE)
        ELSE Does(got, <<>>, TRUE)

\* Mutants: one try too many; the tries are not counted.
TimesOut_Late(e) == e.timeout >= TRIES
SendAgain_Uncounted(e) == IF e.pc = "send" THEN send_data(e) ELSE send_ack(e)

\* timer: gives up, or sends again.
TimesOut(e) == e.timeout + 1 >= TRIES
SendAgain(e) ==
    [IF e.pc = "send" THEN send_data(e) ELSE send_ack(e) EXCEPT !.timeout = @ + 1]

-----------------------------------------------------------------------------
(***************************************************************************)
(* The network.                                                            *)
(***************************************************************************)

Sent(dst, src, pkts) ==
    IF pkts = <<>> THEN EmptyBag ELSE SetToBag({To(dst, src, pkts[1])})

\* The bags that may be left of bag n when whoever is dst flushes its socket:
\* some of what is under way to it has arrived.
Flushed(n, dst, synch) ==
    IF synch
    THEN {n (-) lost : lost \in SubBag([d \in {x \in BagToSet(n) : x.dst = dst} |-> n[d]])}
    ELSE {n}

\* Someone will receive the datagram.
Live(d) ==
    \/ d.dst = client /\ cl.pc \in {"send", "recv"}
    \/ d.dst = inetd /\ \E s \in Daemons : srv[s].pc = "free"
    \/ d.dst \in Daemons /\ srv[d.dst].pc \in {"send", "recv", "last"}

\* The endpoint x sets its alarm (anew), or has ended and none runs.
SetsAlarm(x, e) ==
    alarms' = LET others == SelectSeq(alarms, LAMBDA y : y # x)
              IN  IF e.pc \in {"send", "recv", "last"} THEN Append(others, x) ELSE others

Quiet == \A d \in BagToSet(net) : ~Live(d)

-----------------------------------------------------------------------------
(***************************************************************************)
(* The client.                                                             *)
(***************************************************************************)

cmd == scenario.commands[given]

\* get and put of main.c, and their calls of recvfile and sendfile up to the
\* first receive.
GiveCommand ==
    /\ cl.pc \notin {"send", "recv"}
    /\ given < Len(scenario.commands)
    /\ given' = given + 1
    /\ LET c == scenario.commands[given + 1]
           req == [op |-> IF c.op = "get" THEN "RRQ" ELSE "WRQ", name |-> c.name,
                   convert |-> c.convert, nr |-> given + 1]
       IN  /\ cl' = IF c.op = "get"
                    THEN Endpoint("recv", 1, req, rw_init(0, <<>>), c.convert, inetd, c.name,
                                  given + 1)
                    ELSE send_data(Endpoint("send", 0, req, rw_init(1, c.data), c.convert,
                                            inetd, c.name, given + 1))
           /\ net' = net (+) Sent(inetd, client, <<req>>)
           /\ SetsAlarm(client, cl')
    /\ UNCHANGED <<scenario, srv, disk, faults>>

\* A datagram reaches the client: whoever sent it is its peer from now on.
ClientReceive ==
    \E d \in BagToSet(net) :
        /\ d.dst = client
        /\ cl.pc \in {"send", "recv"}
        /\ \E r \in {IF cl.pc = "send"
                    THEN sendfile([cl EXCEPT !.peer = d.src], d.pkt, "ok")
                    ELSE recvfile([cl EXCEPT !.peer = d.src], d.pkt, "ok")} :
              /\ cl' = r.e
              /\ SetsAlarm(client, r.e)
              /\ \E n \in Flushed(net (-) SetToBag({d}), client, r.synch) :
                     net' = n (+) Sent(d.src, client, r.pkts)
        /\ UNCHANGED <<scenario, given, srv, disk, faults>>

ClientTimer ==
    /\ cl.pc \in {"send", "recv"}
    /\ cl' = IF TimesOut(cl) THEN [cl EXCEPT !.pc = "timed out"] ELSE SendAgain(cl)
    /\ SetsAlarm(client, cl')
    /\ net' = net (+) Sent(cl.peer, client, IF TimesOut(cl) THEN <<>> ELSE <<cl.pkt>>)
    /\ UNCHANGED <<scenario, given, srv, disk>>

-----------------------------------------------------------------------------
(***************************************************************************)
(* The daemons.                                                            *)
(***************************************************************************)

Gone == Idle("gone")

\* A daemon at the end of its work exits.
Exits(e) == IF e.pc \in {"error", "done"} THEN Gone ELSE e

\* validate_access: the file must be there and be open to everyone.
validate_access(name) == name \in DOMAIN disk

\* tftp, up to the first receive of the loop it calls.
tftp(req, peer) ==
    LET e == Endpoint("send", 1, NoPacket, rw_init(1, disk[req.name]), req.convert, peer,
                      req.name, req.nr)
    IN  IF ~validate_access(req.name) THEN Does(Gone, <<Error>>, FALSE)
        ELSE IF req.op = "RRQ" THEN SendBlock(e, 1)
        ELSE Does([e EXCEPT !.pc = "recv", !.pkt = Ack(0), !.b = rw_init(0, <<>>)], <<Ack(0)>>, FALSE)

\* main: a request is taken from the socket and a daemon forked for it.
StartDaemon ==
    \E d \in BagToSet(net), s \in Daemons :
        /\ d.dst = inetd
        /\ srv[s].pc = "free"
        /\ \A t \in Daemons : srv[t].pc = "free" => s <= t
        /\ \E r \in {tftp(d.pkt, d.src)} :
              /\ srv' = [srv EXCEPT ![s] = r.e]
              /\ SetsAlarm(s, r.e)
              /\ net' = net (-) SetToBag({d}) (+) Sent(d.src, s, r.pkts)
        /\ UNCHANGED <<scenario, cl, given, disk, faults>>

\* What the file holds when a writer's output has grown from old to new.
Overlay(file, old, new) ==
    [i \in 1..(IF Len(new) > Len(file) THEN Len(new) ELSE Len(file)) |->
        IF i \in DOMAIN new /\ (i \notin DOMAIN old \/ old[i] # new[i]) THEN new[i] ELSE file[i]]

Writes(s, e) ==
    disk' = IF srv[s].pc = "recv"
            THEN [disk EXCEPT ![srv[s].name] = Overlay(@, srv[s].b.file, e.b.file)]
            ELSE disk

\* After the final acknowledgement one datagram is received, into buf; the
\* test that follows is on dp, the other buffer, which holds an earlier block:
\* the acknowledgement is not sent again.
LastReceive(e, m) ==
    LET dp == Current(e.b)
    IN  Does([e EXCEPT !.pc = "done"],
             IF dp.op = "DATA" /\ dp.blk = e.block THEN <<e.pkt>> ELSE <<>>, FALSE)

DaemonReceive ==
    \E d \in BagToSet(net), s \in Daemons :
        /\ d.dst = s
        /\ srv[s].pc \in {"send", "recv", "last"}
        /\ \E r \in {CASE srv[s].pc = "send" -> sendfile(srv[s], d.pkt, "done")
                       [] srv[s].pc = "recv" -> recvfile(srv[s], d.pkt, "last")
                       [] srv[s].pc = "last" -> LastReceive(srv[s], d.pkt)} :
              /\ srv' = [srv EXCEPT ![s] = Exits(r.e)]
              /\ SetsAlarm(s, r.e)
              /\ Writes(s, r.e)
              /\ \E n \in Flushed(net (-) SetToBag({d}), s, r.synch) :
                     net' = n (+) Sent(client, s, r.pkts)
        /\ UNCHANGED <<scenario, cl, given, faults>>

\* timer; justquit in the last receive.
DaemonTimer(s) ==
    LET ends == srv[s].pc = "last" \/ TimesOut(srv[s])
    IN  /\ srv[s].pc \in {"send", "recv", "last"}
        /\ srv' = [srv EXCEPT ![s] = IF ends THEN Gone ELSE SendAgain(@)]
        /\ SetsAlarm(s, srv'[s])
        /\ net' = net (+) Sent(client, s, IF ends THEN <<>> ELSE <<srv[s].pkt>>)
        /\ UNCHANGED <<scenario, cl, given, disk>>

-----------------------------------------------------------------------------
(***************************************************************************)
(* The environment: datagrams are lost and duplicated, and arrive in any   *)
(* order.  All alarms are of rexmtval seconds (TIMEOUT in both programs),  *)
(* much longer than a datagram is under way: the one set first expires     *)
(* when nothing is.  That another one does, or one before, is a fault.     *)
(***************************************************************************)

Fault(kind) ==
    /\ kind \in scenario.kinds
    /\ faults < scenario.most
    /\ faults' = faults + 1

\* The i-th alarm expires.
Timer(i) ==
    \/ alarms[i] = client /\ ClientTimer
    \/ \E s \in Daemons : alarms[i] = s /\ DaemonTimer(s)

TimerExpires ==
    /\ Quiet
    /\ alarms # <<>>
    /\ Timer(1)
    /\ UNCHANGED faults

TimerOutOfTurn ==
    /\ \E i \in DOMAIN alarms : (~Quiet \/ i > 1) /\ Timer(i)
    /\ Fault("early")

Lose ==
    /\ \E d \in BagToSet(net) : net' = net (-) SetToBag({d})
    /\ Fault("lose")
    /\ UNCHANGED <<scenario, cl, given, srv, alarms, disk>>

Duplicate ==
    /\ \E d \in BagToSet(net) : net' = net (+) SetToBag({d})
    /\ Fault("dup")
    /\ UNCHANGED <<scenario, cl, given, srv, alarms, disk>>

-----------------------------------------------------------------------------
Init ==
    /\ scenario \in Scenarios
    /\ cl = Idle("idle")
    /\ given = 0
    /\ srv = [s \in Daemons |-> Idle("free")]
    /\ net = EmptyBag
    /\ alarms = <<>>
    /\ disk = scenario.files
    /\ faults = 0

\* Everything has ended; what is still under way goes to nobody.
Finished ==
    /\ given = Len(scenario.commands)
    /\ cl.pc \notin {"send", "recv"}
    /\ \A s \in Daemons : srv[s].pc \in {"free", "gone"}
    /\ Quiet
    /\ UNCHANGED vars

Progress == GiveCommand \/ ClientReceive \/ StartDaemon \/ DaemonReceive \/ TimerExpires

Next == Progress \/ TimerOutOfTurn \/ Lose \/ Duplicate \/ Finished

\* When Progress is enabled.
CanProgress ==
    \/ given < Len(scenario.commands) /\ cl.pc \notin {"send", "recv"}
    \/ ~Quiet
    \/ alarms # <<>>

\* Weak fairness of Progress, with ENABLED Progress written out: the programs
\* run, what is not lost arrives, and the alarm comes.  Faults need not happen.
Fairness == []<>~CanProgress \/ []<><<Progress>>_vars

Spec == Init /\ [][Next]_vars /\ Fairness

-----------------------------------------------------------------------------
(***************************************************************************)
(* Properties.                                                             *)
(***************************************************************************)

EndpointType(e) ==
    /\ e.block \in Nat
    /\ e.timeout \in 0..(TRIES - 1)
    /\ e.b.current \in 0..1
    /\ e.b.nextone \in 0..1
    /\ \A i \in 0..1 : e.b.bfs[i].counter \in (BF_ALLOC..SEGSIZE) \ {-1}
    /\ e.b.file \in Seq(Char)

\* The variables have their types; no buffer counts more than a block, and no
\* transfer outlives its timeout (tftp.c and in.tftpd.c, timer).
TypeOK ==
    /\ scenario \in Scenarios
    /\ EndpointType(cl)
    /\ cl.pc \in {"idle", "send", "recv", "ok", "error", "timed out"}
    /\ given \in 0..Len(scenario.commands)
    /\ \A s \in Daemons :
          EndpointType(srv[s]) /\ srv[s].pc \in {"free", "send", "recv", "last", "gone"}
    /\ IsABag(net)
    /\ \A n \in DOMAIN disk : disk[n] \in Seq(Char)
    /\ faults \in 0..scenario.most

Busy == cl.pc \in {"send", "recv"}

\* Lock step: no daemon of the running command works on a block the client has
\* not reached, however often requests and packets were repeated (the tests
\* of th_block in sendfile and recvfile).
NeverAhead ==
    \A s \in Daemons :
        Busy /\ srv[s].nr = given
        => /\ srv[s].pc = "send" => srv[s].block <= cl.block
           /\ srv[s].pc = "recv" => srv[s].block <= cl.block + 1

\* What NeverAhead rests on.  An endpoint is a record with a block and the number
\* of a command that was given.
IsEndpoint(e) ==
    /\ DOMAIN e = {"pc", "block", "timeout", "pkt", "b", "convert", "peer", "name", "nr"}
    /\ e.block \in Nat
    /\ e.nr \in Nat

Endpoints ==
    /\ given \in Nat
    /\ IsEndpoint(cl)
    /\ srv = [s \in Daemons |-> srv[s]]
    /\ \A s \in Daemons : IsEndpoint(srv[s]) /\ srv[s].nr <= given

\* A request of a command that was given; of the running one, the right one.
Request(p) ==
    /\ p.op \in {"RRQ", "WRQ"}
    /\ p.nr \in 1..given
    /\ Busy /\ p.nr = given => (p.op = "RRQ" <=> cl.pc = "recv")

\* inetd gets requests only, and nothing is under way to or from a daemon that
\* was not started: what is left of a command never reaches a later daemon.
Addressed ==
    /\ \A d \in BagToSet(net) :
          /\ d.dst = inetd => d.src = client /\ Request(d.pkt)
          /\ d.dst = client => d.src \in Daemons /\ srv[d.src].pc # "free"
          /\ d.dst \in Daemons => srv[d.dst].pc # "free"
    /\ cl.peer = inetd \/ (cl.peer \in Daemons /\ srv[cl.peer].pc # "free")
    /\ Busy /\ cl.peer = inetd => Request(cl.pkt)

\* What the client sends is of a block that it has reached.
Reached(p) ==
    /\ cl.pc = "recv" /\ p.op = "ACK" => p.blk \in Nat /\ p.blk < cl.block
    /\ cl.pc = "send" /\ p.op = "DATA" => p.blk \in Nat /\ p.blk <= cl.block

\* The running command: the daemons started for it do what it asked for, and
\* what the client sent them, or will send again, is of a block it has reached.
LockStep ==
    Busy =>
        /\ given > 0
        /\ cl.pc = "recv" => cl.block > 0
        /\ Reached(cl.pkt)
        /\ \A d \in BagToSet(net) : d.dst \in Daemons /\ srv[d.dst].nr = given => Reached(d.pkt)
        /\ \A s \in Daemons : srv[s].nr = given =>
              /\ srv[s].pc = "send" => cl.pc = "recv"
              /\ srv[s].pc = "recv" => cl.pc = "send"

\* The inductive invariant (TftpProofs).
AheadInv == Endpoints /\ Addressed /\ LockStep /\ NeverAhead

\* Without its last character when that is a CR whose LF may still come.
Settled(file) == IF file # <<>> /\ Last(file) = "CR" THEN Front(file) ELSE file

Source ==
    IF given = 0 THEN <<>>
    ELSE IF cmd.op = "put" THEN cmd.data
    ELSE IF cmd.name \in DOMAIN disk THEN disk[cmd.name]
    ELSE <<>>

Target ==
    IF given = 0 THEN <<>>
    ELSE IF cmd.op = "get" THEN cl.b.file
    ELSE IF cmd.name \in DOMAIN disk THEN disk[cmd.name]
    ELSE <<>>

Copy == INSTANCE FileCopy WITH
            source <- Source,
            copy <- IF cl.pc = "ok" THEN Target ELSE Settled(Target),
            status <- IF Busy THEN "busy" ELSE cl.pc

\* Client, daemons and network together copy files: what was written is always
\* the beginning of the file, through retransmission, duplication, the two
\* buffers and the conversion to netascii and back, and a command that ends
\* without a message has copied the whole file.
CopiesFile == Copy!Spec

\* The file has too many blocks for th_block.
TooLong == Len(Source) >= (BLOCKS - 1) * SEGSIZE

\* A get goes on through any few losses, duplicates and early timers: the
\* user is told "Transfer timed out." only when faults are as many as the
\* tries, or the block number does not fit th_block.
GetSurvives ==
    cl.pc = "timed out" /\ cmd.op = "get" => TooLong \/ faults >= TRIES - 1

\* Every command ends and every daemon exits (timer, justquit): no client
\* waits forever and no daemon is left behind.
AllEnd == <>[](given = Len(scenario.commands) /\ ~Busy
               /\ \A s \in Daemons : srv[s].pc \in {"free", "gone"})
=============================================================================
