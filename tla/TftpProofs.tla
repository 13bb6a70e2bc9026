----------------------------- MODULE TftpProofs -----------------------------
(***************************************************************************)
(* Proofs about module Tftp: client and daemons move in lock step, for any *)
(* commands, files and faults, any number of tries and of daemons, and any *)
(* number of values of th_block.                                           *)
(*                                                                         *)
(* What the buffers hold does not matter to these proofs, and neither does *)
(* when the alarms expire: AheadInv is preserved by every step of the      *)
(* client and the daemons, whichever datagram they take.                   *)
(***************************************************************************)
EXTENDS Tftp, TLAPS

\* The ports are different.
LEMMA Ports == inetd # client /\ inetd \notin Daemons /\ client \notin Daemons
BY TftpAssumption DEF inetd, client, Daemons

\* A block number is not smaller than what is left of it on the wire: an
\* acknowledgement or a packet never seems to be of a later block than it is.
LEMMA WireBelow ==
    ASSUME NEW n \in Nat
    PROVE  Wire(n) \in Nat /\ Wire(n) <= n
BY TftpAssumption DEF Wire

-----------------------------------------------------------------------------
(***************************************************************************)
(* Bags of datagrams, as sets.                                             *)
(***************************************************************************)

\* The packets of a sequence of at most one.
Packets(pkts) == IF pkts = <<>> THEN {} ELSE {pkts[1]}

\* What is sent is what is added.
LEMMA SentIs ==
    ASSUME NEW n, NEW dst, NEW src, NEW pkts
    PROVE  \A d \in BagToSet(n (+) Sent(dst, src, pkts)) :
              d \in BagToSet(n) \/ \E p \in Packets(pkts) : d = To(dst, src, p)
BY DEF BagToSet, (+), Sent, EmptyBag, SetToBag, Packets

\* Taking datagrams away adds none.
LEMMA LessIs ==
    ASSUME NEW n, NEW x
    PROVE  BagToSet(n (-) x) \subseteq BagToSet(n)
BY DEF BagToSet, (-)

LEMMA FlushedIs ==
    ASSUME NEW n, NEW dst, NEW synch, NEW f \in Flushed(n, dst, synch)
    PROVE  BagToSet(f) \subseteq BagToSet(n)
BY LessIs DEF Flushed

-----------------------------------------------------------------------------
(***************************************************************************)
(* The handlers.                                                           *)
(***************************************************************************)

\* The sender e that received m does r: it goes on to the next block for an
\* acknowledgement of its own only.
SenderDoes(e, m, end, r) ==
    /\ IsEndpoint(r.e) /\ r.e.nr = e.nr /\ r.e.peer = e.peer
    /\ r.e.pc \in {e.pc, end, "error"}
    /\ \/ r.e.block = e.block /\ r.e.pkt = e.pkt /\ Packets(r.pkts) \subseteq {e.pkt}
       \/ /\ r.e.block = e.block + 1 /\ m.op = "ACK" /\ m.blk = e.block
          /\ r.e.pkt.op = "DATA" /\ r.e.pkt.blk = Wire(e.block + 1)
          /\ Packets(r.pkts) = {r.e.pkt}

\* The receiver e that received m does r: it ends, or goes on to the next block
\* when it has received the one it expects.
ReceiverDoes(e, m, end, r) ==
    /\ IsEndpoint(r.e) /\ r.e.nr = e.nr /\ r.e.peer = e.peer
    /\ \/ /\ r.e.block = e.block /\ r.e.pkt = e.pkt /\ r.e.pc = e.pc
          /\ Packets(r.pkts) \subseteq {e.pkt}
       \/ r.e.pc \in {"error", end}
       \/ /\ r.e.block = e.block + 1 /\ m.op = "DATA" /\ m.blk = e.block
          /\ r.e.pkt = Ack(e.block) /\ r.e.pc = e.pc
          /\ Packets(r.pkts) = {r.e.pkt}

LEMMA SendfileIs ==
    ASSUME NEW e, IsEndpoint(e), NEW m, NEW end
    PROVE  SenderDoes(e, m, end, sendfile(e, m, end))
<1> DEFINE r == sendfile(e, m, end)
<1> SUFFICES SenderDoes(e, m, end, r)
  OBVIOUS
<1> USE DEF SenderDoes
<1>1. CASE m.op = "ERROR" \/ m.op # "ACK"
  BY <1>1 DEF sendfile, Does, IsEndpoint, Packets
<1>2. CASE m.op = "ACK" /\ m.blk = e.block /\ e.block > 0 /\ Len(e.pkt.data) # SEGSIZE
  BY <1>2 DEF sendfile, Does, IsEndpoint, Packets
<1>3. CASE m.op = "ACK" /\ m.blk = e.block /\ ~(e.block > 0 /\ Len(e.pkt.data) # SEGSIZE)
  <2> DEFINE b == readit(e.b, e.convert)
             pkt == Packet("DATA", Wire(e.block + 1), Current(b).data)
             ahead == read_ahead(b, e.convert)
             f == [e EXCEPT !.block = e.block + 1, !.pkt = pkt, !.timeout = 0, !.b = ahead]
  <2>1. r = [e |-> f, pkts |-> <<pkt>>, synch |-> FALSE]
    BY <1>3 DEF sendfile, SendBlock, Does
  <2>2. pkt.op = "DATA" /\ pkt.blk = Wire(e.block + 1)
    BY DEF Packet
  <2> HIDE DEF b, pkt, ahead
  <2>3. IsEndpoint(f) /\ f.nr = e.nr /\ f.peer = e.peer /\ f.pc = e.pc
        /\ f.block = e.block + 1 /\ f.pkt = pkt
    BY DEF IsEndpoint
  <2>4. Packets(<<pkt>>) = {pkt}
    BY DEF Packets
  <2> HIDE DEF f
  <2> QED  BY <1>3, <2>1, <2>2, <2>3, <2>4
<1>4. CASE m.op = "ACK" /\ m.blk # e.block
  BY <1>4 DEF sendfile, send_data, Does, IsEndpoint, Packets
<1> QED  BY <1>1, <1>2, <1>3, <1>4

LEMMA RecvfileIs ==
    ASSUME NEW e, IsEndpoint(e), NEW m, NEW end
    PROVE  ReceiverDoes(e, m, end, recvfile(e, m, end))
<1> DEFINE r == recvfile(e, m, end)
<1> SUFFICES ReceiverDoes(e, m, end, r)
  OBVIOUS
<1> USE DEF ReceiverDoes
<1>1. CASE m.op = "ERROR"
  BY <1>1 DEF recvfile, Does, IsEndpoint
<1>2. CASE m.op # "ERROR" /\ m.op # "DATA"
  BY <1>2 DEF recvfile, Does, IsEndpoint, Packets
<1>3. CASE m.op = "DATA" /\ m.blk = e.block
  <2> DEFINE got == [e EXCEPT !.b = Received(@, m)]
             b == write_behind(writeit(got.b, e.convert), e.convert)
             more == Len(m.data) = SEGSIZE
             f == [e EXCEPT !.pc = IF more THEN @ ELSE end, !.b = b,
                            !.block = IF more THEN @ + 1 ELSE @, !.pkt = Ack(e.block), !.timeout = 0]
  <2>1. r = [e |-> f, pkts |-> <<Ack(e.block)>>, synch |-> FALSE]
    BY <1>3 DEF recvfile, Does
  <2> HIDE DEF b, more
  <2>2. /\ IsEndpoint(f) /\ f.nr = e.nr /\ f.peer = e.peer /\ f.pkt = Ack(e.block)
        /\ f.pc = end \/ (f.pc = e.pc /\ f.block = e.block + 1)
    BY DEF IsEndpoint
  <2>3. Packets(<<Ack(e.block)>>) = {Ack(e.block)}
    BY DEF Packets
  <2> HIDE DEF f
  <2> QED  BY <1>3, <2>1, <2>2, <2>3
<1>4. CASE m.op = "DATA" /\ m.blk # e.block
  BY <1>4 DEF recvfile, send_ack, Does, IsEndpoint, Packets
<1> QED  BY <1>1, <1>2, <1>3, <1>4

\* The timer sends again and changes nothing that matters here.
LEMMA SendAgainIs ==
    ASSUME NEW e, IsEndpoint(e), NEW f, f = SendAgain(e)
    PROVE  /\ IsEndpoint(f) /\ f.nr = e.nr /\ f.peer = e.peer /\ f.pc = e.pc
           /\ f.block = e.block /\ f.pkt = e.pkt
BY DEF SendAgain, send_data, send_ack, IsEndpoint

-----------------------------------------------------------------------------
(***************************************************************************)
(* Steps of the network, of the client and of the daemons.                 *)
(***************************************************************************)

\* Datagrams are lost or duplicated.
LEMMA NetStep ==
    ASSUME AheadInv, UNCHANGED <<cl, given, srv>>, BagToSet(net') \subseteq BagToSet(net)
    PROVE  AheadInv'
<1>1. Endpoints' /\ NeverAhead'
  BY DEF AheadInv, Endpoints, NeverAhead, Busy
<1>2. \A p : (Request(p) => Request(p)') /\ (Reached(p) => Reached(p)')
  BY DEF Request, Reached, Busy
<1>3. Addressed'
  BY <1>2 DEF AheadInv, Addressed, Busy
<1>4. LockStep'
  BY <1>2 DEF AheadInv, LockStep, Busy
<1> QED  BY <1>1, <1>3, <1>4 DEF AheadInv

\* What the client had sent is still of a block that it has reached.
LEMMA StillReached ==
    ASSUME cl.block \in Nat, cl'.block \in Nat, cl.block <= cl'.block, cl'.pc = cl.pc,
           NEW p, Reached(p)
    PROVE  Reached(p)'
BY DEF Reached

LEMMA StillRequest ==
    ASSUME given' = given, Busy' => cl'.pc = cl.pc, NEW p, Request(p)
    PROVE  Request(p)'
BY DEF Request, Busy

\* The client takes a step: it ends, or stays in its loop and does not go back.
\* What it sends are the packets P, and they go to x.
Moves(x, P) ==
    /\ Busy
    /\ UNCHANGED <<given, srv>>
    /\ IsEndpoint(cl')
    /\ Busy' =>
         /\ cl'.pc = cl.pc
         /\ cl.block <= cl'.block
         /\ Reached(cl.pkt)'
         /\ cl'.pkt = cl.pkt \/ cl'.peer # inetd
         /\ \A p \in P : Reached(p)'
    /\ x = inetd \/ (x \in Daemons /\ srv[x].pc # "free")
    /\ cl'.peer = cl.peer \/ (cl'.peer \in Daemons /\ srv[cl'.peer].pc # "free")
    /\ x = inetd => cl.peer = inetd /\ P \subseteq {cl.pkt}
    /\ \A d \in BagToSet(net') : d \in BagToSet(net) \/ \E p \in P : d = To(x, client, p)

LEMMA ClientStep ==
    ASSUME AheadInv, NEW x, NEW P, Moves(x, P)
    PROVE  AheadInv'
<1>0. Endpoints /\ Addressed /\ LockStep /\ NeverAhead /\ given \in Nat /\ cl.block \in Nat
  BY DEF AheadInv, Endpoints, IsEndpoint
<1>1. UNCHANGED <<given, srv>> /\ IsEndpoint(cl') /\ cl'.block \in Nat /\ Busy
  BY DEF Moves, IsEndpoint
<1>2. Busy' => cl'.pc = cl.pc /\ cl.block <= cl'.block
  BY DEF Moves
<1>3. ASSUME NEW p, Request(p) PROVE Request(p)'
  BY <1>1, <1>2, <1>3, StillRequest
<1>4. ASSUME NEW p, Reached(p), Busy' PROVE Reached(p)'
  BY <1>0, <1>1, <1>2, <1>4, StillReached
<1>5. ASSUME NEW d \in BagToSet(net')
      PROVE  d \in BagToSet(net) \/ (d.dst = x /\ d.src = client /\ d.pkt \in P)
  BY <1>5 DEF Moves, To
<1>6. Endpoints'
  BY <1>0, <1>1 DEF Endpoints
<1>7. NeverAhead'
  <2> SUFFICES ASSUME Busy', NEW s \in Daemons, srv'[s].nr = given'
               PROVE  /\ srv'[s].pc = "send" => srv'[s].block <= cl'.block
                      /\ srv'[s].pc = "recv" => srv'[s].block <= cl'.block + 1
    BY DEF NeverAhead
  <2>1. srv[s].block \in Nat
    BY <1>0 DEF Endpoints, IsEndpoint
  <2>2. /\ srv[s].pc = "send" => srv[s].block <= cl.block
        /\ srv[s].pc = "recv" => srv[s].block <= cl.block + 1
    BY <1>0, <1>1 DEF NeverAhead
  <2> QED  BY <1>0, <1>1, <1>2, <2>1, <2>2
<1>8. Addressed'
  <2>1. ASSUME NEW d \in BagToSet(net')
        PROVE  /\ d.dst = inetd => d.src = client /\ Request(d.pkt)'
               /\ d.dst = client => d.src \in Daemons /\ srv'[d.src].pc # "free"
               /\ d.dst \in Daemons => srv'[d.dst].pc # "free"
    <3>1. CASE d \in BagToSet(net)
      BY <1>0, <1>1, <1>3, <3>1 DEF Addressed
    <3>2. CASE d.dst = x /\ d.src = client /\ d.pkt \in P
      <4>1. x = inetd \/ (x \in Daemons /\ srv[x].pc # "free")
        BY DEF Moves
      <4>2. ASSUME x = inetd PROVE Request(d.pkt)
        <5>1. d.pkt = cl.pkt /\ cl.peer = inetd
          BY <3>2, <4>2 DEF Moves
        <5> QED  BY <1>0, <1>1, <5>1 DEF Addressed
      <4> QED  BY <1>1, <1>3, <3>2, <4>1, <4>2, Ports
    <3> QED  BY <1>5, <2>1, <3>1, <3>2
  <2>2. cl'.peer = inetd \/ (cl'.peer \in Daemons /\ srv'[cl'.peer].pc # "free")
    BY <1>0, <1>1 DEF Addressed, Moves
  <2>3. ASSUME Busy', cl'.peer = inetd PROVE Request(cl.pkt)'
    <3>1. cl'.pkt = cl.pkt /\ cl.peer = inetd
      BY <2>3, Ports DEF Moves
    <3>2. Request(cl.pkt)
      BY <1>0, <1>1, <3>1 DEF Addressed
    <3> QED  BY <1>1, <1>2, <3>1, <3>2 DEF Request, Busy
  <2> QED  BY <2>1, <2>2, <2>3 DEF Addressed
<1>9. LockStep'
  <2> SUFFICES ASSUME Busy' PROVE LockStep'
    BY DEF LockStep
  <2>1. given' > 0 /\ (cl'.pc = "recv" => cl'.block > 0)
    BY <1>0, <1>1, <1>2 DEF LockStep
  <2>2. \A s \in Daemons : srv'[s].nr = given' =>
              /\ srv'[s].pc = "send" => cl'.pc = "recv"
              /\ srv'[s].pc = "recv" => cl'.pc = "send"
    BY <1>0, <1>1, <1>2 DEF LockStep
  <2>3. Reached(cl.pkt)'
    BY DEF Moves
  <2>4. ASSUME NEW d \in BagToSet(net'), d.dst \in Daemons, srv'[d.dst].nr = given'
        PROVE  Reached(d.pkt)'
    <3>1. CASE d \in BagToSet(net)
      BY <1>0, <1>1, <1>4, <2>4, <3>1 DEF LockStep
    <3>2. CASE d.pkt \in P
      BY <3>2 DEF Moves
    <3> QED  BY <1>5, <2>4, <3>1, <3>2
  <2> QED  BY <2>1, <2>2, <2>3, <2>4 DEF LockStep
<1> QED  BY <1>6, <1>7, <1>8, <1>9 DEF AheadInv

\* A daemon takes a step, or is started: it is e now.  What it sends goes to the
\* client.
LEMMA DaemonStep ==
    ASSUME AheadInv, UNCHANGED <<cl, given>>, NEW s \in Daemons, NEW e, IsEndpoint(e),
           srv' = [srv EXCEPT ![s] = e], e.pc # "free", e.nr <= given,
           srv[s].pc = "free" \/ e.nr \in {0, srv[s].nr},
           Busy /\ e.nr = given =>
             /\ e.pc = "send" => cl.pc = "recv" /\ e.block <= cl.block
             /\ e.pc = "recv" => cl.pc = "send" /\ e.block <= cl.block + 1,
           \A d \in BagToSet(net') : d \in BagToSet(net) \/ (d.dst = client /\ d.src = s)
    PROVE  AheadInv'
<1>0. Endpoints /\ Addressed /\ LockStep /\ NeverAhead
  BY DEF AheadInv
<1>1. srv'[s] = e /\ \A t \in Daemons : t # s => srv'[t] = srv[t]
  BY <1>0 DEF Endpoints
<1>2. Endpoints'
  <2>1. srv' = [t \in Daemons |-> srv'[t]]
    BY <1>0 DEF Endpoints
  <2> QED  BY <1>0, <1>1, <2>1 DEF Endpoints
<1>3. \A p : (Request(p) => Request(p)') /\ (Reached(p) => Reached(p)')
  BY DEF Request, Reached, Busy
<1>4. \A t \in Daemons : srv[t].pc # "free" => srv'[t].pc # "free"
  BY <1>1
<1>5. Addressed'
  <2>1. ASSUME NEW d \in BagToSet(net')
        PROVE  /\ d.dst = inetd => d.src = client /\ Request(d.pkt)'
               /\ d.dst = client => d.src \in Daemons /\ srv'[d.src].pc # "free"
               /\ d.dst \in Daemons => srv'[d.dst].pc # "free"
    <3>1. CASE d \in BagToSet(net)
      BY <1>0, <1>3, <1>4, <3>1 DEF Addressed
    <3>2. CASE d.dst = client /\ d.src = s
      BY <1>1, <3>2, Ports
    <3> QED  BY <2>1, <3>1, <3>2
  <2> QED  BY <1>0, <1>3, <1>4, <2>1 DEF Addressed, Busy
<1>6. LockStep'
  <2> SUFFICES ASSUME Busy PROVE LockStep'
    BY DEF LockStep, Busy
  <2>1. ASSUME NEW d \in BagToSet(net'), d.dst \in Daemons, srv'[d.dst].nr = given
        PROVE  Reached(d.pkt)'
    <3>1. d \in BagToSet(net) /\ srv[d.dst].pc # "free"
      BY <1>0, <2>1, Ports DEF Addressed
    <3>2. srv[d.dst].nr = given
      BY <1>0, <1>1, <2>1, <3>1 DEF LockStep
    <3> QED  BY <1>0, <1>3, <2>1, <3>1, <3>2 DEF LockStep
  <2>2. ASSUME NEW t \in Daemons, srv'[t].nr = given
        PROVE  /\ srv'[t].pc = "send" => cl.pc = "recv"
               /\ srv'[t].pc = "recv" => cl.pc = "send"
    BY <1>0, <1>1, <2>2 DEF LockStep
  <2> QED  BY <1>0, <1>3, <2>1, <2>2 DEF LockStep, Busy
<1>7. NeverAhead'
  BY <1>0, <1>1 DEF NeverAhead, Busy
<1> QED  BY <1>2, <1>5, <1>6, <1>7 DEF AheadInv

-----------------------------------------------------------------------------
(***************************************************************************)
(* The actions.                                                            *)
(***************************************************************************)

\* A command has a number of its own: nothing is under way for it, and no daemon
\* works for it.
LEMMA GiveCommandStep ==
    ASSUME AheadInv, GiveCommand
    PROVE  AheadInv'
<1> DEFINE c == scenario.commands[given + 1]
           req == [op |-> IF c.op = "get" THEN "RRQ" ELSE "WRQ", name |-> c.name,
                   convert |-> c.convert, nr |-> given + 1]
<1>0. Endpoints /\ Addressed /\ given \in Nat
  BY DEF AheadInv, Endpoints
<1>1. given' = given + 1 /\ srv' = srv /\ net' = net (+) Sent(inetd, client, <<req>>)
  BY DEF GiveCommand
<1>2. /\ IsEndpoint(cl') /\ cl'.pkt = req /\ cl'.peer = inetd
      /\ \/ cl'.pc = "recv" /\ cl'.block = 1 /\ req.op = "RRQ"
         \/ cl'.pc = "send" /\ cl'.block = 0 /\ req.op = "WRQ"
  <2>1. CASE c.op = "get"
    <3>1. cl' = Endpoint("recv", 1, req, rw_init(0, <<>>), c.convert, inetd, c.name, given + 1)
      BY <2>1 DEF GiveCommand
    <3>2. req.op = "RRQ"
      BY <2>1
    <3> HIDE DEF c, req
    <3> QED  BY <1>0, <3>1, <3>2 DEF Endpoint, IsEndpoint
  <2>2. CASE c.op # "get"
    <3> DEFINE e == Endpoint("send", 0, req, rw_init(1, c.data), c.convert, inetd, c.name,
                             given + 1)
    <3>1. cl' = send_data(e)
      BY <2>2 DEF GiveCommand
    <3>2. req.op = "WRQ"
      BY <2>2
    <3> HIDE DEF c, req
    <3>3. IsEndpoint(e) /\ e.pkt = req /\ e.peer = inetd /\ e.pc = "send" /\ e.block = 0
      BY <1>0 DEF Endpoint, IsEndpoint
    <3> HIDE DEF e
    <3> QED  BY <3>1, <3>2, <3>3 DEF send_data, IsEndpoint
  <2> QED  BY <2>1, <2>2
<1>3. req.nr = given + 1 /\ req.op \notin {"ACK", "DATA"}
  OBVIOUS
<1> HIDE DEF c, req
<1>4. \A s \in Daemons : srv'[s].nr # given'
  BY <1>0, <1>1 DEF Endpoints, IsEndpoint
<1>5. Endpoints'
  BY <1>0, <1>1, <1>2 DEF Endpoints, IsEndpoint
<1>6. NeverAhead'
  BY <1>4 DEF NeverAhead
<1>7. \A d \in BagToSet(net') : d \in BagToSet(net) \/ d = To(inetd, client, req)
  <2>1. Packets(<<req>>) = {req}
    BY DEF Packets
  <2> QED  BY <1>1, <2>1, SentIs
<1>8. ASSUME NEW p, Request(p) PROVE Request(p)'
  BY <1>0, <1>1, <1>8 DEF Request
<1>9. Request(cl.pkt)'
  BY <1>0, <1>1, <1>2, <1>3 DEF Request, Busy
<1>10. Addressed'
  <2>1. ASSUME NEW d \in BagToSet(net')
        PROVE  /\ d.dst = inetd => d.src = client /\ Request(d.pkt)'
               /\ d.dst = client => d.src \in Daemons /\ srv'[d.src].pc # "free"
               /\ d.dst \in Daemons => srv'[d.dst].pc # "free"
    <3>1. CASE d \in BagToSet(net)
      BY <1>0, <1>1, <1>8, <3>1 DEF Addressed
    <3>2. CASE d = To(inetd, client, req)
      <4>1. d.dst = inetd /\ d.src = client /\ d.pkt = cl'.pkt
        BY <1>2, <3>2 DEF To
      <4>2. Request(d.pkt)'
        BY <1>9, <4>1 DEF Request
      <4> QED  BY <4>1, <4>2, Ports
    <3> QED  BY <1>7, <2>1, <3>1, <3>2
  <2> QED  BY <1>2, <1>9, <2>1 DEF Addressed
<1>11. LockStep'
  <2>1. given' > 0 /\ (cl'.pc = "recv" => cl'.block > 0)
    BY <1>0, <1>1, <1>2
  <2>2. Reached(cl.pkt)'
    BY <1>2, <1>3 DEF Reached
  <2> QED  BY <1>4, <2>1, <2>2 DEF LockStep
<1> QED  BY <1>5, <1>6, <1>10, <1>11 DEF AheadInv

\* A datagram reaches the client.
LEMMA ClientReceiveStep ==
    ASSUME AheadInv, ClientReceive
    PROVE  AheadInv'
<1>0. Endpoints /\ Addressed /\ LockStep /\ IsEndpoint(cl)
  BY DEF AheadInv, Endpoints
<1>1. PICK d \in BagToSet(net) :
        /\ d.dst = client
        /\ cl.pc \in {"send", "recv"}
        /\ \E r \in {IF cl.pc = "send"
                     THEN sendfile([cl EXCEPT !.peer = d.src], d.pkt, "ok")
                     ELSE recvfile([cl EXCEPT !.peer = d.src], d.pkt, "ok")} :
              /\ cl' = r.e
              /\ \E n \in Flushed(net (-) SetToBag({d}), client, r.synch) :
                     net' = n (+) Sent(d.src, client, r.pkts)
        /\ UNCHANGED <<given, srv>>
  BY DEF ClientReceive
<1> DEFINE e == [cl EXCEPT !.peer = d.src]
           r == IF cl.pc = "send" THEN sendfile(e, d.pkt, "ok") ELSE recvfile(e, d.pkt, "ok")
<1>2. /\ IsEndpoint(e) /\ e.pc = cl.pc /\ e.block = cl.block /\ e.pkt = cl.pkt
      /\ e.nr = cl.nr /\ e.peer = d.src
  BY <1>0 DEF IsEndpoint
<1>3. /\ cl' = r.e
      /\ \E n \in Flushed(net (-) SetToBag({d}), client, r.synch) :
             net' = n (+) Sent(d.src, client, r.pkts)
  BY <1>1
<1> HIDE DEF e
<1>4. Busy /\ UNCHANGED <<given, srv>> /\ d.src \in Daemons /\ srv[d.src].pc # "free"
  BY <1>0, <1>1 DEF Busy, Addressed
<1>5. Reached(cl.pkt) /\ cl.block \in Nat
  BY <1>0, <1>4 DEF LockStep, IsEndpoint
<1>6. \A x \in BagToSet(net') :
        x \in BagToSet(net) \/ \E p \in Packets(r.pkts) : x = To(d.src, client, p)
  <2>1. PICK n \in Flushed(net (-) SetToBag({d}), client, r.synch) :
               net' = n (+) Sent(d.src, client, r.pkts)
    BY <1>3
  <2> HIDE DEF r
  <2>2. BagToSet(n) \subseteq BagToSet(net)
    BY <2>1, FlushedIs, LessIs
  <2> QED  BY <2>1, <2>2, SentIs
<1>7. /\ IsEndpoint(cl') /\ cl'.peer = d.src
      /\ Busy' =>
           /\ cl'.pc = cl.pc
           /\ cl.block <= cl'.block
           /\ Reached(cl.pkt)'
           /\ \A p \in Packets(r.pkts) : Reached(p)'
  <2>1. CASE cl.pc = "send"
    <3>1. r = sendfile(e, d.pkt, "ok")
      BY <2>1
    <3> HIDE DEF r
    <3>2. SenderDoes(e, d.pkt, "ok", r)
      BY <1>2, <3>1, SendfileIs
    <3>3. Busy' => cl'.pc = "send"
      BY <1>2, <1>3, <2>1, <3>2 DEF Busy, SenderDoes
    <3>4. CASE r.e.block = e.block /\ r.e.pkt = e.pkt /\ Packets(r.pkts) \subseteq {e.pkt}
      BY <1>2, <1>3, <1>5, <2>1, <3>2, <3>3, <3>4 DEF Reached, SenderDoes
    <3>5. CASE /\ r.e.block = e.block + 1
               /\ r.e.pkt.op = "DATA" /\ r.e.pkt.blk = Wire(e.block + 1)
               /\ Packets(r.pkts) = {r.e.pkt}
      <4>1. Wire(e.block + 1) \in Nat /\ Wire(e.block + 1) <= e.block + 1
        BY <1>2, <1>5, WireBelow
      <4> QED  BY <1>2, <1>3, <1>5, <2>1, <3>2, <3>3, <3>5, <4>1 DEF Reached, SenderDoes
    <3> QED  BY <3>2, <3>4, <3>5 DEF SenderDoes
  <2>2. CASE cl.pc = "recv"
    <3>1. r = recvfile(e, d.pkt, "ok")
      BY <2>2
    <3> HIDE DEF r
    <3>2. ReceiverDoes(e, d.pkt, "ok", r)
      BY <1>2, <3>1, RecvfileIs
    <3>3. CASE /\ r.e.block = e.block /\ r.e.pkt = e.pkt /\ r.e.pc = e.pc
               /\ Packets(r.pkts) \subseteq {e.pkt}
      BY <1>2, <1>3, <1>5, <2>2, <3>2, <3>3 DEF Reached, ReceiverDoes
    <3>4. CASE r.e.pc \in {"error", "ok"}
      BY <1>2, <1>3, <3>2, <3>4 DEF Busy, ReceiverDoes
    <3>5. CASE /\ r.e.block = e.block + 1 /\ r.e.pkt = Ack(e.block) /\ r.e.pc = e.pc
               /\ Packets(r.pkts) = {r.e.pkt}
      <4>1. Wire(e.block) \in Nat /\ Wire(e.block) < e.block + 1
        BY <1>2, <1>5, WireBelow
      <4>2. r.e.pkt.op = "ACK" /\ r.e.pkt.blk = Wire(e.block)
        BY <3>5 DEF Ack, Packet
      <4> QED  BY <1>2, <1>3, <1>5, <2>2, <3>2, <3>5, <4>1, <4>2 DEF Reached, ReceiverDoes
    <3> QED  BY <3>2, <3>3, <3>4, <3>5 DEF ReceiverDoes
  <2> QED  BY <1>1, <2>1, <2>2
<1> HIDE DEF r
<1>8. Moves(d.src, Packets(r.pkts))
  BY <1>4, <1>6, <1>7, Ports DEF Moves
<1> QED  BY <1>8, ClientStep

\* The client's timer expires.
LEMMA ClientTimerStep ==
    ASSUME AheadInv, ClientTimer
    PROVE  AheadInv'
<1> DEFINE pkts == IF TimesOut(cl) THEN <<>> ELSE <<cl.pkt>>
<1>0. Endpoints /\ Addressed /\ LockStep /\ IsEndpoint(cl) /\ Busy
  BY DEF AheadInv, Endpoints, ClientTimer, Busy
<1>1. UNCHANGED <<given, srv>> /\ net' = net (+) Sent(cl.peer, client, pkts)
  BY DEF ClientTimer
<1>2. Packets(pkts) \subseteq {cl.pkt}
  BY DEF Packets
<1> HIDE DEF pkts
<1>3. Reached(cl.pkt) /\ cl.block \in Nat
  BY <1>0 DEF LockStep, IsEndpoint
<1>4. /\ IsEndpoint(cl') /\ cl'.peer = cl.peer /\ cl'.pkt = cl.pkt /\ cl'.block = cl.block
      /\ cl'.pc \in {cl.pc, "timed out"}
  <2>1. CASE TimesOut(cl)
    <3>1. cl' = [cl EXCEPT !.pc = "timed out"]
      BY <2>1 DEF ClientTimer
    <3> QED  BY <1>0, <3>1 DEF IsEndpoint
  <2>2. CASE ~TimesOut(cl)
    <3>1. cl' = SendAgain(cl)
      BY <2>2 DEF ClientTimer
    <3> QED  BY <1>0, <3>1, SendAgainIs
  <2> QED  BY <2>1, <2>2
<1>5. Busy' => cl'.pc = cl.pc
  BY <1>4 DEF Busy
<1>6. Busy' => Reached(cl.pkt)' /\ \A p \in Packets(pkts) : Reached(p)'
  BY <1>2, <1>3, <1>4, <1>5 DEF Reached
<1>7. cl.peer = inetd \/ (cl.peer \in Daemons /\ srv[cl.peer].pc # "free")
  BY <1>0 DEF Addressed
<1>8. \A d \in BagToSet(net') :
        d \in BagToSet(net) \/ \E p \in Packets(pkts) : d = To(cl.peer, client, p)
  BY <1>1, SentIs
<1>9. cl.block <= cl'.block
  <2>1. cl.block \in Nat /\ cl'.block \in Nat /\ cl'.block = cl.block
    BY <1>3, <1>4 DEF IsEndpoint
  <2> QED  BY <2>1
<1> DEFINE x == cl.peer
           P == Packets(pkts)
<1>10. Moves(x, P)
  <2>1. cl'.peer = cl.peer \/ (cl'.peer \in Daemons /\ srv[cl'.peer].pc # "free")
    BY <1>4
  <2>2. x = inetd => cl.peer = inetd /\ P \subseteq {cl.pkt}
    BY <1>2
  <2>3. Busy' => /\ cl'.pc = cl.pc
                 /\ cl.block <= cl'.block
                 /\ Reached(cl.pkt)'
                 /\ cl'.pkt = cl.pkt \/ cl'.peer # inetd
                 /\ \A p \in P : Reached(p)'
    BY <1>4, <1>5, <1>6, <1>9
  <2> QED  BY <1>0, <1>1, <1>4, <1>7, <1>8, <2>1, <2>2, <2>3 DEF Moves
<1> QED  BY <1>10, ClientStep

\* A daemon exits, or does not come up.
LEMMA DaemonGone ==
    ASSUME AheadInv, UNCHANGED <<cl, given>>, NEW s \in Daemons,
           srv' = [srv EXCEPT ![s] = Gone],
           \A d \in BagToSet(net') : d \in BagToSet(net) \/ (d.dst = client /\ d.src = s)
    PROVE  AheadInv'
<1> DEFINE f == Gone
<1>1. IsEndpoint(f) /\ f.pc = "gone" /\ f.nr = 0
  BY DEF Gone, Idle, Endpoint, IsEndpoint
<1>2. srv' = [srv EXCEPT ![s] = f]
  OBVIOUS
<1> HIDE DEF f
<1>3. f.pc # "free" /\ f.nr <= given
  BY <1>1 DEF AheadInv, Endpoints
<1>4. Busy /\ f.nr = given =>
           /\ f.pc = "send" => cl.pc = "recv" /\ f.block <= cl.block
           /\ f.pc = "recv" => cl.pc = "send" /\ f.block <= cl.block + 1
  BY <1>1
<1> QED  BY <1>1, <1>2, <1>3, <1>4, DaemonStep

\* inetd starts a daemon for a request.
LEMMA StartDaemonStep ==
    ASSUME AheadInv, StartDaemon
    PROVE  AheadInv'
<1>0. Endpoints /\ Addressed /\ LockStep /\ given \in Nat
  BY DEF AheadInv, Endpoints
<1>1. PICK d \in BagToSet(net), s \in Daemons :
        /\ d.dst = inetd
        /\ srv[s].pc = "free"
        /\ srv' = [srv EXCEPT ![s] = tftp(d.pkt, d.src).e]
        /\ net' = net (-) SetToBag({d}) (+) Sent(d.src, s, tftp(d.pkt, d.src).pkts)
        /\ UNCHANGED <<cl, given>>
  BY DEF StartDaemon
<1>2. d.src = client /\ Request(d.pkt)
  BY <1>0, <1>1 DEF Addressed
<1> DEFINE req == d.pkt
           r == tftp(req, d.src)
           e == Endpoint("send", 1, NoPacket, rw_init(1, disk[req.name]), req.convert, d.src,
                         req.name, req.nr)
<1>3. IsEndpoint(e) /\ e.nr = req.nr /\ e.pc = "send" /\ e.block = 1
  BY <1>2 DEF Endpoint, IsEndpoint, Request
<1>4. \/ r.e = Gone
      \/ req.op = "RRQ" /\ r = SendBlock(e, 1)
      \/ req.op # "RRQ" /\ r.e = [e EXCEPT !.pc = "recv", !.pkt = Ack(0), !.b = rw_init(0, <<>>)]
  BY DEF tftp, Does
<1> HIDE DEF e, r
<1>5. \/ r.e = Gone
      \/ /\ IsEndpoint(r.e) /\ r.e.nr = req.nr /\ r.e.block = 1
         /\ \/ req.op = "RRQ" /\ r.e.pc = "send"
            \/ req.op # "RRQ" /\ r.e.pc = "recv"
  <2>1. CASE req.op = "RRQ" /\ r = SendBlock(e, 1)
    <3> DEFINE b == readit(e.b, e.convert)
               pkt == Packet("DATA", Wire(1), Current(b).data)
               ahead == read_ahead(b, e.convert)
    <3>1. r.e = [e EXCEPT !.block = 1, !.pkt = pkt, !.timeout = 0, !.b = ahead]
      BY <2>1 DEF SendBlock, Does
    <3> HIDE DEF b, pkt, ahead
    <3> QED  BY <1>3, <2>1, <3>1 DEF IsEndpoint
  <2>2. CASE req.op # "RRQ" /\ r.e = [e EXCEPT !.pc = "recv", !.pkt = Ack(0), !.b = rw_init(0, <<>>)]
    <3> DEFINE b == rw_init(0, <<>>)
    <3>1. r.e = [e EXCEPT !.pc = "recv", !.pkt = Ack(0), !.b = b]
      BY <2>2
    <3> HIDE DEF b
    <3> QED  BY <1>3, <2>2, <3>1 DEF IsEndpoint
  <2> QED  BY <1>4, <2>1, <2>2
<1>6. \A x \in BagToSet(net') : x \in BagToSet(net) \/ (x.dst = client /\ x.src = s)
  <2>1. net' = (net (-) SetToBag({d})) (+) Sent(client, s, r.pkts)
    BY <1>1, <1>2 DEF r
  <2>2. \A p : To(client, s, p).dst = client /\ To(client, s, p).src = s
    BY DEF To
  <2> QED  BY <2>1, <2>2, SentIs, LessIs
<1>7. srv' = [srv EXCEPT ![s] = r.e]
  BY <1>1 DEF r
<1>8. CASE r.e = Gone
  BY <1>1, <1>6, <1>7, <1>8, DaemonGone
<1>9. CASE /\ IsEndpoint(r.e) /\ r.e.nr = req.nr /\ r.e.block = 1
           /\ \/ req.op = "RRQ" /\ r.e.pc = "send"
              \/ req.op # "RRQ" /\ r.e.pc = "recv"
  <2>1. req.nr \in 1..given /\ (Busy /\ req.nr = given => (req.op = "RRQ" <=> cl.pc = "recv"))
    BY <1>2 DEF Request
  <2>2. Busy => cl.pc \in {"send", "recv"} /\ cl.block \in Nat /\ (cl.pc = "recv" => 1 <= cl.block)
    BY <1>0 DEF LockStep, Endpoints, IsEndpoint, Busy
  <2>3. Busy /\ r.e.nr = given =>
             /\ r.e.pc = "send" => cl.pc = "recv" /\ r.e.block <= cl.block
             /\ r.e.pc = "recv" => cl.pc = "send" /\ r.e.block <= cl.block + 1
    BY <1>9, <2>1, <2>2
  <2>4. r.e.pc # "free" /\ r.e.nr <= given
    BY <1>0, <1>9, <2>1
  <2> QED  BY <1>1, <1>6, <1>7, <1>9, <2>3, <2>4, DaemonStep
<1> QED  BY <1>5, <1>8, <1>9

\* A datagram reaches a daemon.
LEMMA DaemonReceiveStep ==
    ASSUME AheadInv, DaemonReceive
    PROVE  AheadInv'
<1>0. Endpoints /\ LockStep /\ NeverAhead
  BY DEF AheadInv
<1>1. PICK d \in BagToSet(net), s \in Daemons :
        /\ d.dst = s
        /\ srv[s].pc \in {"send", "recv", "last"}
        /\ \E r \in {CASE srv[s].pc = "send" -> sendfile(srv[s], d.pkt, "done")
                       [] srv[s].pc = "recv" -> recvfile(srv[s], d.pkt, "last")
                       [] srv[s].pc = "last" -> LastReceive(srv[s], d.pkt)} :
              /\ srv' = [srv EXCEPT ![s] = Exits(r.e)]
              /\ \E n \in Flushed(net (-) SetToBag({d}), s, r.synch) :
                     net' = n (+) Sent(client, s, r.pkts)
        /\ UNCHANGED <<cl, given>>
  BY DEF DaemonReceive
<1> DEFINE e == srv[s]
           r == CASE e.pc = "send" -> sendfile(e, d.pkt, "done")
                  [] e.pc = "recv" -> recvfile(e, d.pkt, "last")
                  [] e.pc = "last" -> LastReceive(e, d.pkt)
<1>2. /\ srv' = [srv EXCEPT ![s] = Exits(r.e)]
      /\ \E n \in Flushed(net (-) SetToBag({d}), s, r.synch) :
             net' = n (+) Sent(client, s, r.pkts)
  BY <1>1
<1>3. \/ e.pc = "send" /\ r = sendfile(e, d.pkt, "done")
      \/ e.pc = "recv" /\ r = recvfile(e, d.pkt, "last")
      \/ e.pc = "last" /\ r = LastReceive(e, d.pkt)
  BY <1>1
<1> HIDE DEF r
<1>4. \A x \in BagToSet(net') : x \in BagToSet(net) \/ (x.dst = client /\ x.src = s)
  <2>1. PICK n \in Flushed(net (-) SetToBag({d}), s, r.synch) :
               net' = n (+) Sent(client, s, r.pkts)
    BY <1>2
  <2>2. BagToSet(n) \subseteq BagToSet(net)
    BY <2>1, FlushedIs, LessIs
  <2>3. \A p : To(client, s, p).dst = client /\ To(client, s, p).src = s
    BY DEF To
  <2> QED  BY <2>1, <2>2, <2>3, SentIs
<1>5. /\ IsEndpoint(e) /\ e.nr <= given /\ e.block \in Nat /\ given \in Nat
      /\ cl.block \in Nat /\ e.pc # "free"
  BY <1>0, <1>1 DEF Endpoints, IsEndpoint
<1>6. ASSUME Busy, e.nr = given
      PROVE  /\ Reached(d.pkt)
             /\ e.pc = "send" => cl.pc = "recv" /\ e.block <= cl.block
             /\ e.pc = "recv" => cl.pc = "send" /\ e.block <= cl.block + 1
  BY <1>0, <1>1, <1>6 DEF LockStep, NeverAhead
<1> HIDE DEF e
<1>7. CASE r.e.pc \in {"error", "done"}
  <2>1. srv' = [srv EXCEPT ![s] = Gone]
    BY <1>2, <1>7 DEF Exits
  <2> QED  BY <1>1, <1>4, <2>1, DaemonGone
<1>8. CASE r.e.pc \notin {"error", "done"}
  <2>1. srv' = [srv EXCEPT ![s] = r.e]
    BY <1>2, <1>8 DEF Exits
  <2>2. /\ IsEndpoint(r.e) /\ r.e.nr = e.nr /\ r.e.pc # "free"
        /\ Busy /\ r.e.nr = given =>
             /\ r.e.pc = "send" => cl.pc = "recv" /\ r.e.block <= cl.block
             /\ r.e.pc = "recv" => cl.pc = "send" /\ r.e.block <= cl.block + 1
    <3>1. CASE e.pc = "send" /\ r = sendfile(e, d.pkt, "done")
      <4>1. SenderDoes(e, d.pkt, "done", r)
        BY <1>5, <3>1, SendfileIs
      <4>2. IsEndpoint(r.e) /\ r.e.nr = e.nr /\ r.e.pc = "send"
        BY <1>8, <3>1, <4>1 DEF SenderDoes
      <4>3. ASSUME Busy, r.e.nr = given PROVE cl.pc = "recv" /\ r.e.block <= cl.block
        <5>1. cl.pc = "recv" /\ e.block <= cl.block /\ Reached(d.pkt)
          BY <1>6, <3>1, <4>2, <4>3
        <5>2. CASE r.e.block = e.block
          BY <5>1, <5>2
        <5>3. CASE r.e.block = e.block + 1 /\ d.pkt.op = "ACK" /\ d.pkt.blk = e.block
          <6>1. e.block < cl.block
            BY <5>1, <5>3 DEF Reached
          <6> QED  BY <1>5, <5>1, <5>3, <6>1
        <5> QED  BY <4>1, <5>2, <5>3 DEF SenderDoes
      <4> QED  BY <4>2, <4>3
    <3>2. CASE e.pc = "recv" /\ r = recvfile(e, d.pkt, "last")
      <4>1. ReceiverDoes(e, d.pkt, "last", r)
        BY <1>5, <3>2, RecvfileIs
      <4>2. IsEndpoint(r.e) /\ r.e.nr = e.nr /\ r.e.pc \in {"recv", "last"}
        BY <1>8, <3>2, <4>1 DEF ReceiverDoes
      <4>3. ASSUME Busy, r.e.nr = given, r.e.pc = "recv"
            PROVE  cl.pc = "send" /\ r.e.block <= cl.block + 1
        <5>1. cl.pc = "send" /\ e.block <= cl.block + 1 /\ Reached(d.pkt)
          BY <1>6, <3>2, <4>2, <4>3
        <5>2. CASE r.e.block = e.block
          BY <5>1, <5>2
        <5>3. CASE r.e.block = e.block + 1 /\ d.pkt.op = "DATA" /\ d.pkt.blk = e.block
          <6>1. e.block <= cl.block
            BY <5>1, <5>3 DEF Reached
          <6> QED  BY <1>5, <5>1, <5>3, <6>1
        <5> QED  BY <4>1, <4>3, <5>2, <5>3 DEF ReceiverDoes
      <4> QED  BY <4>2, <4>3
    <3>3. CASE e.pc = "last" /\ r = LastReceive(e, d.pkt)
      <4>1. r.e = [e EXCEPT !.pc = "done"]
        BY <3>3 DEF LastReceive, Does
      <4> QED  BY <1>5, <1>8, <4>1 DEF IsEndpoint
    <3> QED  BY <1>3, <3>1, <3>2, <3>3
  <2>3. r.e.nr <= given /\ r.e.nr \in {0, srv[s].nr}
    BY <1>5, <2>2 DEF e
  <2> QED  BY <1>1, <1>4, <2>1, <2>2, <2>3, DaemonStep
<1> QED  BY <1>7, <1>8

\* A daemon's timer expires.
LEMMA DaemonTimerStep ==
    ASSUME AheadInv, NEW s \in Daemons, DaemonTimer(s)
    PROVE  AheadInv'
<1> DEFINE e == srv[s]
           ends == e.pc = "last" \/ TimesOut(e)
           pkts == IF ends THEN <<>> ELSE <<e.pkt>>
<1>0. Endpoints /\ LockStep /\ NeverAhead
  BY DEF AheadInv
<1>1. /\ UNCHANGED <<cl, given>> /\ e.pc \in {"send", "recv", "last"}
      /\ srv' = [srv EXCEPT ![s] = IF ends THEN Gone ELSE SendAgain(e)]
      /\ net' = net (+) Sent(client, s, pkts)
  BY <1>0 DEF DaemonTimer, Endpoints
<1> HIDE DEF pkts
<1>2. \A x \in BagToSet(net') : x \in BagToSet(net) \/ (x.dst = client /\ x.src = s)
  <2>1. \A p : To(client, s, p).dst = client /\ To(client, s, p).src = s
    BY DEF To
  <2> QED  BY <1>1, <2>1, SentIs
<1>3. CASE ends
  <2>1. srv' = [srv EXCEPT ![s] = Gone]
    BY <1>1, <1>3
  <2> QED  BY <1>1, <1>2, <2>1, DaemonGone
<1>4. CASE ~ends
  <2> DEFINE f == SendAgain(e)
  <2>1. srv' = [srv EXCEPT ![s] = f]
    BY <1>1, <1>4
  <2>2. IsEndpoint(e) /\ e.nr <= given
    BY <1>0 DEF Endpoints
  <2>3. IsEndpoint(f) /\ f.nr = e.nr /\ f.pc = e.pc /\ f.block = e.block
    BY <2>2, SendAgainIs
  <2> HIDE DEF f
  <2>4. Busy /\ f.nr = given =>
             /\ f.pc = "send" => cl.pc = "recv" /\ f.block <= cl.block
             /\ f.pc = "recv" => cl.pc = "send" /\ f.block <= cl.block + 1
    BY <1>0, <2>3 DEF LockStep, NeverAhead
  <2>5. f.pc # "free" /\ f.nr <= given /\ f.nr \in {0, srv[s].nr}
    BY <1>1, <2>2, <2>3
  <2> QED  BY <1>1, <1>2, <2>1, <2>3, <2>4, <2>5, DaemonStep
<1> QED  BY <1>3, <1>4

-----------------------------------------------------------------------------
(***************************************************************************)
(* The theorems.                                                           *)
(***************************************************************************)

\* Init: nothing was asked for yet (main of both programs).
LEMMA AheadInit ==
    ASSUME Init
    PROVE  AheadInv
<1>1. given = 0 /\ cl = Idle("idle") /\ srv = [s \in Daemons |-> Idle("free")] /\ net = EmptyBag
  BY DEF Init
<1>2. /\ IsEndpoint(Idle("idle")) /\ Idle("idle").pc = "idle" /\ Idle("idle").peer = inetd
      /\ IsEndpoint(Idle("free")) /\ Idle("free").nr = 0
  BY DEF Idle, Endpoint, IsEndpoint
<1>3. ~Busy
  BY <1>1, <1>2 DEF Busy
<1>4. BagToSet(net) = {}
  BY <1>1 DEF BagToSet, EmptyBag, SetToBag
<1>5. Endpoints
  BY <1>1, <1>2 DEF Endpoints
<1>6. Addressed
  BY <1>1, <1>2, <1>3, <1>4 DEF Addressed
<1>7. LockStep /\ NeverAhead
  BY <1>3 DEF LockStep, NeverAhead
<1> QED  BY <1>5, <1>6, <1>7 DEF AheadInv

\* AheadInv holds in every state, whatever is lost, repeated or comes late.
THEOREM AheadInvariance == Spec => []AheadInv
<1>1. Init => AheadInv
  BY AheadInit
<1>2. AheadInv /\ [Next]_vars => AheadInv'
  <2> SUFFICES ASSUME AheadInv, [Next]_vars PROVE AheadInv'
    OBVIOUS
  <2>1. CASE GiveCommand
    BY <2>1, GiveCommandStep
  <2>2. CASE ClientReceive
    BY <2>2, ClientReceiveStep
  <2>3. CASE StartDaemon
    BY <2>3, StartDaemonStep
  <2>4. CASE DaemonReceive
    BY <2>4, DaemonReceiveStep
  <2>5. CASE TimerExpires \/ TimerOutOfTurn
    <3>1. ClientTimer \/ \E s \in Daemons : DaemonTimer(s)
      BY <2>5 DEF TimerExpires, TimerOutOfTurn, Timer
    <3> QED  BY <3>1, ClientTimerStep, DaemonTimerStep
  <2>6. CASE Lose
    <3>1. PICK d \in BagToSet(net) : net' = net (-) SetToBag({d})
      BY <2>6 DEF Lose
    <3>2. BagToSet(net') \subseteq BagToSet(net)
      BY <3>1, LessIs
    <3> QED  BY <2>6, <3>2, NetStep DEF Lose
  <2>7. CASE Duplicate
    <3>1. PICK d \in BagToSet(net) : net' = net (+) SetToBag({d})
      BY <2>7 DEF Duplicate
    <3>2. BagToSet(net') \subseteq BagToSet(net)
      BY <3>1 DEF BagToSet, (+), SetToBag
    <3> QED  BY <2>7, <3>2, NetStep DEF Duplicate
  <2>8. CASE Finished \/ UNCHANGED vars
    <3>1. UNCHANGED <<cl, given, srv, net>>
      BY <2>8 DEF Finished, vars
    <3> QED  BY <3>1, NetStep
  <2> QED  BY <2>1, <2>2, <2>3, <2>4, <2>5, <2>6, <2>7, <2>8 DEF Next, Progress
<1> QED  BY <1>1, <1>2, PTL DEF Spec

\* No daemon of the running command works on a block the client has not
\* reached (the tests of th_block in sendfile and recvfile), for any commands,
\* files, faults and daemons: repeated requests and packets of earlier commands
\* do not confuse them, even when the block number has come round.
THEOREM StaysBehind == Spec => []NeverAhead
<1>1. AheadInv => NeverAhead
  BY DEF AheadInv
<1> QED  BY <1>1, AheadInvariance, PTL
=============================================================================
