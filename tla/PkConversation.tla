--------------------------- MODULE PkConversation ---------------------------
(***************************************************************************)
(* Two uucicos, each with the packet driver of module Pk, talking over a   *)
(* serial line: gturnon (pkopen), the reads and writes of gio.c, gturnoff  *)
(* (pkclose), and pkgetpack, in which each of them waits for the other.    *)
(*                                                                         *)
(* The two ends run in parallel.  An end is one thread, so between two     *)
(* waits in pkgetpack everything it does is one step: other than through   *)
(* the line nobody sees it half done.  The line is a FIFO in each          *)
(* direction; what it does to a frame is decided when the frame is read.   *)
(*                                                                         *)
(* uucico uses the driver half duplex: the ends write in turns, and the    *)
(* one that does not write reads until the turn is over.  A scenario has   *)
(* the sequence of those turns, each by one end and of n packets; the last *)
(* packet of a turn is the zero-length one that ends a file.               *)
(***************************************************************************)
EXTENDS Pk

CONSTANTS
    Scenarios,   \* the conversations: see ScenarioType
    GETRIES, CONNODATA, NTIMEOUT, PKMAXSTMSG   \* the limits of pk1.c

Ends == {"m", "s"}

\* The turns; the window and packet sizes an end may be configured with; the
\* buffer a pkread is given, in packets; what the line may do wrong, and how
\* often.
ScenarioType ==
    [script : Seq([by : Ends, n : Nat \ {0}]),
     windows : (SUBSET (1..7)) \ {{}},
     sizes : (SUBSET (32..4096)) \ {{}},
     icount : Nat \ {0},
     kinds : SUBSET {"delay", "lose", "header", "body", "noise", "cut", "hangup"},
     most : Nat]

ASSUME ConversationAssumption ==
    /\ Scenarios # {} /\ \A c \in Scenarios : c \in ScenarioType
    /\ {GETRIES, CONNODATA, NTIMEOUT, PKMAXSTMSG} \subseteq Nat \ {0}

VARIABLES
    scenario, \* the conversation, chosen at the start
    pk,       \* the struct pack of each end
    line,     \* line[e]: the frames on their way to e
    pc,       \* where each end is
    tries,    \* tries of the pkgetpack the end is in
    opens,    \* i of pkopen
    turn,     \* the turn the end is in
    left,     \* packets of that turn the end has not yet written or read
    sent,     \* number of packets the end has given to pkwrite
    rcvd,     \* numbers of the packets pkread has given to the end
    faults    \* faults of the line so far

vars == <<scenario, pk, line, pc, tries, opens, turn, left, sent, rcvd, faults>>

Script == scenario.script
ICount == scenario.icount
FaultKinds == scenario.kinds
MaxFaults == scenario.most

Peer(e) == IF e = "m" THEN "s" ELSE "m"

(***************************************************************************)
(* Where an end is: in pkopen, in the data phase outside pkwrite's wait    *)
(* ("run"), in the wait of pkwrite for window space, on its way to pkclose *)
(* after the script or after pkfail, out of pkclose, or back from a        *)
(* gturnon that failed.                                                    *)
(***************************************************************************)
Places == {"open", "run", "full", "done", "failed", "closed", "noopen"}

Gone(e) == pc[e] \in {"closed", "noopen"}

Finished(e) == turn[e] > Len(Script)
Writes(e) == ~Finished(e) /\ Script[turn[e]].by = e
Reads(e) == ~Finished(e) /\ Script[turn[e]].by # e

TurnLength(t) == IF t \in DOMAIN Script THEN Script[t].n ELSE 0

HasInput(p) == p.imap # {} \/ p.rcount > 0

\* The end is in pkgetpack.
Waits(e) ==
    \/ pc[e] \in {"open", "full"}
    \/ pc[e] = "run" /\ Reads(e) /\ ~HasInput(pk[e])

\* pkgetpack's test on entry.
GivesUp(p) == "DOWN" \in p.state \/ p.connodata > CONNODATA \/ p.ntimeout > NTIMEOUT

\* The end is in pkgetpack, past the test.
Listens(e) == Waits(e) /\ (tries[e] > 0 \/ ~GivesUp(pk[e]))

\* A frame written to an end that is no longer there goes nowhere.
Carry(l, e, out) == IF Gone(e) THEN l ELSE [l EXCEPT ![e] = @ \o out]

-----------------------------------------------------------------------------
Init ==
    /\ scenario \in Scenarios
    /\ pk \in [Ends -> {pkoutput(pknew(w, z)) : w \in scenario.windows, z \in scenario.sizes}]
    /\ line = [e \in Ends |-> <<[type |-> "INITA", val |-> pk[Peer(e)].rwindow]>>]
    /\ pc = [e \in Ends |-> "open"]
    /\ tries = [e \in Ends |-> 0]
    /\ opens = [e \in Ends |-> 0]
    /\ turn = [e \in Ends |-> 1]
    /\ left = [e \in Ends |-> TurnLength(1)]
    /\ sent = [e \in Ends |-> 0]
    /\ rcvd = [e \in Ends |-> <<>>]
    /\ faults = 0

-----------------------------------------------------------------------------
(***************************************************************************)
(* pkgetpack                                                               *)
(***************************************************************************)

\* pkgetpack returns and leaves the driver as p: pkopen counts it and goes
\* on once the line is live, pkwrite looks at its window again, pkread at
\* its input.
Returned(e, p) ==
    /\ tries' = [tries EXCEPT ![e] = 0]
    /\ IF pc[e] # "open"
       THEN /\ pk' = [pk EXCEPT ![e] = p]
            /\ pc' = [pc EXCEPT ![e] = "run"]
            /\ UNCHANGED opens
       ELSE IF "LIVE" \in p.state
       THEN /\ pk' = [pk EXCEPT ![e] = pkreset(p)]
            /\ pc' = [pc EXCEPT ![e] = "run"]
            /\ UNCHANGED opens
       ELSE /\ pk' = [pk EXCEPT ![e] = p]
            /\ opens' = [opens EXCEPT ![e] = @ + 1]
            /\ pc' = [pc EXCEPT ![e] = IF opens[e] + 1 < PKMAXSTMSG THEN "open" ELSE "noopen"]
    /\ UNCHANGED <<turn, left, sent, rcvd>>

\* pkfail: the longjmp ends gturnon or the read or write of the message or
\* file, whose caller turns the protocol off.
Failed(e) ==
    /\ pc' = [pc EXCEPT ![e] = IF @ = "open" THEN "noopen" ELSE "failed"]
    /\ tries' = [tries EXCEPT ![e] = 0]
    /\ UNCHANGED <<opens, turn, left, sent, rcvd>>

\* Mutant: frames are not counted.
Counted_Not(p) == p

\* Connodata++.
Counted(p) == [p EXCEPT !.connodata = @ + 1]

\* The lines after the label retransmit; the frames in rest are still to
\* be read.  GETRIES of them in one pkgetpack are pkfail.
Retransmit(e, p, rest) ==
    LET q == RequestRetransmit(p)
    IN  /\ pk' = [pk EXCEPT ![e] = pkoutput(q)]
        /\ line' = Carry([line EXCEPT ![e] = rest], Peer(e), Transmitted(q))
        /\ IF tries[e] + 1 < GETRIES
           THEN /\ tries' = [tries EXCEPT ![e] = @ + 1]
                /\ UNCHANGED <<pc, opens, turn, left, sent, rcvd>>
           ELSE Failed(e)

\* A data frame whose size agrees, up to the taking of a buffer.
Acknowledge(p, f) == pksack([Counted(p) EXCEPT !.rpr = f.ack])

RightSize(p, f) == f.k = 0 \/ pksizes(f.k) = p.rsize

\* pkgetpack reads the control frame f: pkcntl.
ReceiveControl(e) ==
    /\ Listens(e) /\ line[e] # <<>> /\ Head(line[e]).type # "DATA"
    /\ LET f == Head(line[e])
           p == Counted(pk[e])
           q == ApplyControl(p, f)
           rest == [line EXCEPT ![e] = Tail(@)]
       IN  IF ControlReplies(p, f)
           THEN Returned(e, pkoutput(q)) /\ line' = Carry(rest, Peer(e), Transmitted(q))
           ELSE Returned(e, q) /\ line' = rest
    /\ UNCHANGED faults

\* pkgetpack reads the data frame f, with a body that is good or was
\* damaged on the line: pksack, then, given a buffer, pkdata.
ReceiveData(e, good) ==
    /\ Listens(e) /\ line[e] # <<>> /\ Head(line[e]).type = "DATA"
    /\ LET f == Head(line[e])
           p == Acknowledge(pk[e], f)
           r == [p EXCEPT !.msg = @ \cup p.rmsg]
           rest == [line EXCEPT ![e] = Tail(@)]
       IN  CASE ~RightSize(pk[e], f) -> Returned(e, Counted(pk[e])) /\ line' = rest
             [] RightSize(pk[e], f) /\ p.ipool = 0 -> Returned(e, p) /\ line' = rest
             [] RightSize(pk[e], f) /\ p.ipool > 0 /\ IgnoresData(p) ->
                  /\ Returned(e, [pkoutput(r) EXCEPT !.ntimeout = 0])
                  /\ line' = Carry(rest, Peer(e), Transmitted(r))
             [] OTHER ->
                  /\ Returned(e, [StoreFrame([p EXCEPT !.ipool = @ - 1], f, good)
                                      EXCEPT !.ntimeout = 0])
                  /\ line' = rest

Fault(kind) == kind \in FaultKinds /\ faults < MaxFaults /\ faults' = faults + 1

Late == \E e \in Ends : ~Gone(e) /\ line[e] # <<>>

\* pkcget's alarm before a header came.  With frames still under way it is
\* a delay of the line and counts as a fault.
Timeout(e) ==
    /\ Listens(e)
    /\ IF Late THEN Fault("delay") ELSE UNCHANGED faults
    /\ Retransmit(e, [pk[e] EXCEPT !.ntimeout = @ + 1], line[e])

\* The test on entry of pkgetpack fails.
GiveUp(e) ==
    /\ Waits(e) /\ tries[e] = 0 /\ GivesUp(pk[e])
    /\ Failed(e)
    /\ UNCHANGED <<pk, line, faults>>

(***************************************************************************)
(* What the line does wrong                                                *)
(***************************************************************************)

\* A frame is lost.
Lose(e) ==
    /\ Listens(e) /\ line[e] # <<>> /\ Fault("lose")
    /\ line' = [line EXCEPT ![e] = Tail(@)]
    /\ UNCHANGED <<pk, pc, tries, opens, turn, left, sent, rcvd>>

\* The header is damaged: pkgetpack's test of it fails.
GarbleHeader(e) ==
    /\ Listens(e) /\ line[e] # <<>> /\ Fault("header")
    /\ line' = [line EXCEPT ![e] = Tail(@)]
    /\ Returned(e, Counted(pk[e]))

\* The body is damaged: pkaccept will find its checksum wrong.
GarbleBody(e) == Fault("body") /\ ReceiveData(e, FALSE)

\* The SYN is damaged: the frame passes as noise, too much of it.
Noise(e) ==
    /\ Listens(e) /\ line[e] # <<>> /\ Fault("noise")
    /\ Retransmit(e, pk[e], Tail(line[e]))

\* The frame stops inside its body: the alarm interrupts pkcget, which has
\* the buffer.
CutBody(e) ==
    /\ Listens(e) /\ line[e] # <<>> /\ Head(line[e]).type = "DATA" /\ Fault("cut")
    /\ LET f == Head(line[e])
           p == Acknowledge(pk[e], f)
       IN  /\ RightSize(pk[e], f) /\ p.ipool > 0
           /\ Retransmit(e, [p EXCEPT !.ipool = @ - 1, !.ntimeout = @ + 1], Tail(line[e]))

\* The device reports end of file or an error to pkcget.
Hangup(e) ==
    /\ Listens(e) /\ Fault("hangup")
    /\ Failed(e)
    /\ UNCHANGED <<pk, line>>

-----------------------------------------------------------------------------
(***************************************************************************)
(* pkwrite, pkread and pkclose                                             *)
(***************************************************************************)

\* The end has dealt with k packets of its turn.
Advance(e, k) ==
    IF left[e] > k
    THEN /\ left' = [left EXCEPT ![e] = @ - k]
         /\ UNCHANGED <<turn, pc>>
    ELSE /\ turn' = [turn EXCEPT ![e] = @ + 1]
         /\ left' = [left EXCEPT ![e] = TurnLength(turn[e] + 1)]
         /\ pc' = [pc EXCEPT ![e] = IF turn[e] = Len(Script) THEN "done" ELSE "run"]

\* pkwrite with no room in the window: pkoutput, then pkgetpack.
WaitForWindow(e) ==
    /\ pc[e] = "run" /\ Writes(e) /\ pk[e].xcount >= pk[e].swindow
    /\ pk' = [pk EXCEPT ![e] = pkoutput(@)]
    /\ line' = Carry(line, Peer(e), Transmitted(pk[e]))
    /\ pc' = [pc EXCEPT ![e] = "full"]
    /\ UNCHANGED <<tries, opens, turn, left, sent, rcvd, faults>>

\* pkwrite of one packet.  Its return of -1 on a line that is down and its
\* wait for an output buffer are guards only: that the program is never
\* there is checked (OutputBuffers).
CanWrite(p) == "DOWN" \notin p.state /\ p.os[next(p.pscopy)] = {}

WritePacket(e) ==
    /\ pc[e] = "run" /\ Writes(e) /\ pk[e].xcount < pk[e].swindow
    /\ CanWrite(pk[e])
    /\ LET p == QueuePacket(pk[e], [n |-> sent[e] + 1, len |-> IF left[e] = 1 THEN 0 ELSE 1])
       IN  /\ pk' = [pk EXCEPT ![e] = pkoutput(p)]
           /\ line' = Carry(line, Peer(e), Transmitted(p))
    /\ sent' = [sent EXCEPT ![e] = @ + 1]
    /\ Advance(e, 1)
    /\ UNCHANGED <<tries, opens, rcvd, faults>>

\* pkread with input: pkaccept, and unless that accepts nothing, the rest.
Read(e) ==
    /\ pc[e] = "run" /\ Reads(e) /\ HasInput(pk[e])
    /\ LET p == pkaccept(pk[e])
           bodies == ReadBodies(p, ICount)
           q == Consume(p, ICount)
       IN  IF p.rcount = 0
           THEN /\ pk' = [pk EXCEPT ![e] = p]
                /\ UNCHANGED <<line, pc, turn, left, rcvd>>
           ELSE /\ pk' = [pk EXCEPT ![e] = pkoutput(q)]
                /\ line' = Carry(line, Peer(e), Transmitted(q))
                /\ rcvd' = [rcvd EXCEPT ![e] = @ \o [i \in DOMAIN bodies |-> bodies[i].n]]
                /\ Advance(e, Len(bodies))
    /\ UNCHANGED <<tries, opens, sent, faults>>

\* pkclose waits for output that is pending: pkoutput.  a has the driver and
\* what it has put on the line.
Flush(a) ==
    IF /\ a.p.xcount > 0 /\ "LIVE" \in a.p.state
       /\ a.p.state \cap {"RCLOSE", "DOWN"} = {}
    THEN [p |-> pkoutput(a.p), out |-> a.out \o Transmitted(a.p)]
    ELSE a

\* It says CLOSE, unless the other end was faster.
Farewell(a) ==
    LET q == [a.p EXCEPT !.msg = {"CLOSE"}]
    IN  IF "RCLOSE" \in a.p.state
        THEN a
        ELSE [p |-> pkoutput(q), out |-> a.out \o Transmitted(q)]

\* Each of the two up to twice.
Drained(p) ==
    LET flushed == Flush(Flush([p |-> [p EXCEPT !.state = @ \cup {"DRAINO"}], out |-> <<>>]))
    IN  Farewell(Farewell([flushed EXCEPT !.p.state = @ \cup {"DOWN"}]))

pkclose(e) ==
    /\ pc[e] \in {"done", "failed"}
    /\ pk' = [pk EXCEPT ![e] = Drained(pk[e]).p]
    /\ line' = Carry([line EXCEPT ![e] = <<>>], Peer(e), Drained(pk[e]).out)
    /\ pc' = [pc EXCEPT ![e] = "closed"]
    /\ UNCHANGED <<tries, opens, turn, left, sent, rcvd, faults>>

-----------------------------------------------------------------------------
\* Both ends are through: the line is hung up.
Over ==
    /\ \A e \in Ends : Gone(e)
    /\ UNCHANGED vars

Step(e) ==
    \/ ReceiveControl(e)
    \/ ReceiveData(e, TRUE) /\ UNCHANGED faults
    \/ Timeout(e) \/ GiveUp(e)
    \/ WaitForWindow(e) \/ WritePacket(e)
    \/ Read(e) \/ pkclose(e)

LineFault(e) ==
    Lose(e) \/ GarbleHeader(e) \/ GarbleBody(e) \/ Noise(e) \/ CutBody(e) \/ Hangup(e)

Next == ((\E e \in Ends : Step(e) \/ LineFault(e)) /\ UNCHANGED scenario) \/ Over

Spec == Init /\ [][Next]_vars

\* An end can always go on, except while it waits for a frame that is
\* still on its way to the other end.
CanStep(e) ==
    \/ Waits(e) /\ ~Listens(e)
    \/ Listens(e) /\ (line[e] # <<>> \/ ~Late \/ ("delay" \in FaultKinds /\ faults < MaxFaults))
    \/ pc[e] = "run" /\ ~Waits(e)
    \/ pc[e] \in {"done", "failed"}

\* Weak fairness of Step(e) for each end, with its guard spelled out: a
\* uucico keeps running, and SIGALRM ends a wait that nothing else ends.
FairSpec == Spec /\ \A e \in Ends : []<>(~CanStep(e)) \/ []<><<Step(e)>>_vars

-----------------------------------------------------------------------------
(***************************************************************************)
(* Properties                                                              *)
(***************************************************************************)
\* Types: sequence numbers stay below MOD8, states are sets of the pk.p.h
\* flags, and pkgetpack's tries stay below GETRIES.
TypeOK ==
    /\ \A e \in Ends :
        /\ pk[e].state \subseteq {"INITa", "INITb", "LIVE", "RXMIT", "DRAINO", "DOWN", "RCLOSE"}
        /\ {pk[e].ps, pk[e].pr, pk[e].rpr, pk[e].nxtps, pk[e].pscopy} \subseteq Seq8
        /\ {pk[e].ipool, pk[e].rcount, pk[e].xcount} \subseteq 0..7
        /\ {pk[e].rwindow, pk[e].swindow} \subseteq 1..7
        /\ pk[e].imap \subseteq {x \in Seq8 : pk[e].in[x].st = "raw"}
    /\ pc \in [Ends -> Places]
    /\ tries \in [Ends -> 0..GETRIES-1]
    /\ faults \in 0..MaxFaults

\* p_xcount counts the output buffers in use, they are the ones after p_ps
\* up to p_pscopy, and there are never more than the other end has buffers:
\* with room in the window pkwrite neither finds the line down nor has to
\* wait for the buffer (its second while loop).
OutputBuffers ==
    \A e \in Ends :
        LET used == {x \in Seq8 : pk[e].os[x] # {}}
        IN  /\ Cardinality(used) = pk[e].xcount
            /\ used = Range(PathTo(pk[e].ps, pk[e].pscopy))
            /\ pk[e].xcount <= pk[Peer(e)].rwindow
            /\ pc[e] = "run" /\ Writes(e) /\ pk[e].xcount < pk[e].swindow
                  => CanWrite(pk[e])

\* An end whose line is live sends with the window that the other end was
\* configured to receive, and with the largest of the sizes of pksizes[] that
\* its buffers hold (INITA, INITB, INITC in pkcntl).  pkopen takes any size:
\* one that is not in pksizes[] cannot be said in an INITB.
Negotiated ==
    \A e \in Ends : "LIVE" \in pk[e].state =>
        /\ pk[e].swindow = pk[Peer(e)].rwindow
        /\ pksizes(pk[e].lpsize) <= pk[Peer(e)].rsize
        /\ pk[Peer(e)].rsize < 2 * pksizes(pk[e].lpsize)

\* The check pkclose makes: all p_rwindow input buffers are accounted for,
\* on a line that cuts no frame inside its body.
BuffersAccounted ==
    "cut" \notin FaultKinds =>
        \A e \in Ends : pc[e] = "closed" =>
            pk[e].ipool + Cardinality({x \in Seq8 : pk[e].in[x].st # "null"}) = pk[e].rwindow

\* Whatever the line does, both uucicos get out of the conversation: the
\* limits GETRIES, CONNODATA, NTIMEOUT and PKMAXSTMSG leave no way to wait
\* for each other for ever.
Termination == <>(\A e \in Ends : Gone(e))

\* Damage to the bodies of data frames delays a conversation but does not
\* end it: RJ and the time-outs repair it, and all turns but the last,
\* after which pkclose may come first, are read to their end.  The sizes must
\* be some of pksizes[]: an end with another one drops every data frame.
TurnsComplete ==
    FaultKinds \subseteq {"body"} /\ scenario.sizes \subseteq {pksizes(k) : k \in 1..8}
        => <>(\A e \in Ends : turn[e] >= Len(Script))

(***************************************************************************)
(* In each direction the driver keeps the promise of PacketLink: packets   *)
(* come out of pkread in the order pkwrite took them, none missing, none   *)
(* twice, and pksack frees one only when pkread has handed it out.         *)
(***************************************************************************)
LargestWindow == Max(UNION {c.windows : c \in Scenarios})

ToSlave == INSTANCE PacketLink WITH
    W <- LargestWindow, written <- sent["m"], read <- rcvd["s"],
    released <- sent["m"] - pk["m"].xcount

ToMaster == INSTANCE PacketLink WITH
    W <- LargestWindow, written <- sent["s"], read <- rcvd["m"],
    released <- sent["s"] - pk["s"].xcount

KeepsPromise == ToSlave!Spec /\ ToMaster!Spec

(***************************************************************************)
(* What a comment in the code says, and a run refutes                      *)
(***************************************************************************)
=============================================================================
