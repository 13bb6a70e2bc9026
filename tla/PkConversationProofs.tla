------------------------ MODULE PkConversationProofs ------------------------
(***************************************************************************)
(* The g protocol between two ends (pk0.c, pk1.c, gio.c), for any script,  *)
(* windows, packet sizes, limits and faults of the line.                   *)
(*                                                                         *)
(* Inv, which is inductive, says three things.  Of an end by itself: where *)
(* it is in its script, and that its input buffers are all accounted for.  *)
(* Of what it knows of the other end: the window and the packet size.  Of  *)
(* each direction (Link): which packets are in the output buffers of the   *)
(* writer, which of their frames may still be on the line or in the slots  *)
(* of the reader, and which acknowledgements may be on their way back.     *)
(* Sequence numbers are modulo 8; the counts sent[e] and Len(rcvd[e]) say  *)
(* which packet a number stands for.                                       *)
(*                                                                         *)
(* The lemmas come in that order: what each function of the driver does to *)
(* struct pack, how the link changes with it, what an action must leave    *)
(* behind, one lemma for each action, and the theorems.                    *)
(***************************************************************************)
EXTENDS PkConversation, FoldProofs, SequenceTheorems

-----------------------------------------------------------------------------
(***************************************************************************)
(* The driver: what the operators of module Pk return                      *)
(***************************************************************************)
Flags == {"INITa", "INITb", "LIVE", "RXMIT", "DRAINO", "DOWN", "RCLOSE"}

Messages == {"CLOSE", "RJ", "RR", "INITC", "INITB", "INITA"}

PacketSizes == 32..4096

\* A struct pack whose counters may have any value.
Structs ==
    [state : SUBSET Flags, msg : SUBSET Messages, rmsg : SUBSET Messages,
     ps : Seq8, pr : Seq8, rpr : Seq8, nxtps : Seq8, pscopy : Seq8,
     os : [Seq8 -> SUBSET {"READY", "SENT"}], ob : [Seq8 -> Bodies],
     in : [Seq8 -> Slots], imap : SUBSET Seq8, ipool : Int,
     rcount : Nat, xcount : Int, rwindow : 1..7, swindow : 1..7,
     rsize : PacketSizes, lpsize : Nat, connodata : Nat, ntimeout : Nat]

\* The frames an end may find on the line.
LineFrames ==
    [type : Messages, val : Seq8] \cup
    [type : {"DATA"}, k : Nat, seq : Seq8, ack : Seq8, body : Bodies]

\* next[] stays within the sequence numbers.
LEMMA NextIn == \A x \in Seq8 : next(x) \in Seq8
  BY DEF next, Seq8

\* The code of a size stands for the largest of pksizes[] that it holds.
LEMMA SizeCode ==
    \A n \in PacketSizes :
        /\ pksize(n) \in 0..7
        /\ pksizes(pksize(n) + 1) <= n /\ n < 2 * pksizes(pksize(n) + 1)
<1> DEFINE pow == [k \in 0..8 |-> 2^k]
<1>1. /\ pow[0] = 1 /\ pow[1] = 2 /\ pow[2] = 4 /\ pow[3] = 8 /\ pow[4] = 16 /\ pow[5] = 32
      /\ pow[6] = 64 /\ pow[7] = 128 /\ pow[8] = 256
  OBVIOUS
<1>2. \A k \in 0..8 : 2^k = pow[k]
  OBVIOUS
<1> HIDE DEF pow
<1>3. ASSUME NEW n \in PacketSizes, NEW c \in 0..7, 32 * pow[c] <= n, n < 64 * pow[c]
      PROVE  pksize(n) = c
  <2> DEFINE T == {k \in 0..7 : 2^k <= n \div 32}
  <2>1. c \in {0, 1, 2, 3, 4, 5, 6, 7}
    OBVIOUS
  <2>2. pow[c] \in Nat
    BY <1>1, <2>1
  <2> DEFINE d == n \div 32
  <2>3. d \in Nat /\ pow[c] <= d /\ d < 2 * pow[c]
    BY <1>3, <2>2 DEF PacketSizes
  <2> HIDE DEF d
  <2>4. \A k \in {0, 1, 2, 3, 4, 5, 6, 7} : pow[k] <= d <=> k <= c
    BY <1>1, <2>1, <2>3
  <2>5. \A k \in 0..7 : k \in {0, 1, 2, 3, 4, 5, 6, 7} /\ k \in 0..8
    OBVIOUS
  <2>6. \A k : k \in T <=> k \in 0..7 /\ k <= c
    BY <1>2, <2>4, <2>5 DEF d
  <2> HIDE DEF T
  <2>7. c \in T /\ \A y \in T : c >= y
    BY <2>6
  <2>8. \A x \in T : (\A y \in T : x >= y) => x = c
    BY <2>6
  <2>9. Max(T) = c
    BY <2>7, <2>8 DEF Max
  <2> QED  BY <2>9 DEF T, pksize
<1>4. \A n \in PacketSizes : \E c \in 0..7 :
          32 * pow[c] <= n /\ n < 64 * pow[c] /\ pow[c + 1] = 2 * pow[c]
  <2> SUFFICES ASSUME NEW n \in PacketSizes
               PROVE  \E c \in 0..7 :
                          32 * pow[c] <= n /\ n < 64 * pow[c] /\ pow[c + 1] = 2 * pow[c]
    OBVIOUS
  <2>1. n \in Nat /\ 32 <= n /\ n <= 4096
    BY DEF PacketSizes
  <2>2. \/ n < 64
        \/ 64 <= n /\ n < 128
        \/ 128 <= n /\ n < 256
        \/ 256 <= n /\ n < 512
        \/ 512 <= n /\ n < 1024
        \/ 1024 <= n /\ n < 2048
        \/ 2048 <= n /\ n < 4096
        \/ n = 4096
    BY <2>1
  <2>3. CASE n < 64
    <3> WITNESS 0 \in 0..7
    <3> QED  BY <1>1, <2>1, <2>3
  <2>4. CASE 64 <= n /\ n < 128
    <3> WITNESS 1 \in 0..7
    <3> QED  BY <1>1, <2>1, <2>4
  <2>5. CASE 128 <= n /\ n < 256
    <3> WITNESS 2 \in 0..7
    <3> QED  BY <1>1, <2>1, <2>5
  <2>6. CASE 256 <= n /\ n < 512
    <3> WITNESS 3 \in 0..7
    <3> QED  BY <1>1, <2>1, <2>6
  <2>7. CASE 512 <= n /\ n < 1024
    <3> WITNESS 4 \in 0..7
    <3> QED  BY <1>1, <2>1, <2>7
  <2>8. CASE 1024 <= n /\ n < 2048
    <3> WITNESS 5 \in 0..7
    <3> QED  BY <1>1, <2>1, <2>8
  <2>9. CASE 2048 <= n /\ n < 4096
    <3> WITNESS 6 \in 0..7
    <3> QED  BY <1>1, <2>1, <2>9
  <2>10. CASE n = 4096
    <3> WITNESS 7 \in 0..7
    <3> QED  BY <1>1, <2>1, <2>10
  <2> QED  BY <2>2, <2>3, <2>4, <2>5, <2>6, <2>7, <2>8, <2>9, <2>10
<1>5. ASSUME NEW n \in PacketSizes
      PROVE  /\ pksize(n) \in 0..7
             /\ pksizes(pksize(n) + 1) <= n /\ n < 2 * pksizes(pksize(n) + 1)
  <2>1. PICK c \in 0..7 : 32 * pow[c] <= n /\ n < 64 * pow[c] /\ pow[c + 1] = 2 * pow[c]
    BY <1>4
  <2>2. pksize(n) = c
    BY <1>3, <2>1
  <2>3. c + 1 \in 1..8 /\ c + 1 \in 0..8
    BY <2>1
  <2>4. 2^(c + 1) = pow[c + 1]
    BY <1>2, <2>3
  <2>5. pow[c] \in Nat
    <3>1. c \in {0, 1, 2, 3, 4, 5, 6, 7}
      OBVIOUS
    <3> QED  BY <1>1, <3>1
  <2>6. pksizes(c + 1) = 16 * pow[c + 1]
    BY <2>3, <2>4 DEF pksizes
  <2>7. pksizes(c + 1) = 32 * pow[c]
    BY <2>1, <2>5, <2>6
  <2>8. pksizes(c + 1) <= n /\ n < 2 * pksizes(c + 1)
    BY <2>1, <2>5, <2>7
  <2> QED  BY <2>2, <2>8
<1> QED  BY <1>5

\* The messages of p_msg are numbered, and one of them has the lowest bit.
LEMMA LowestIs ==
    ASSUME NEW p \in Structs, p.msg # {}
    PROVE  LowestControl(p) \in p.msg
<1> DEFINE idx(c) == CHOOSE i \in 1..6 : Controls[i] = c
           T == {idx(c) : c \in p.msg}
<1>1. p.msg \subseteq Messages
  BY DEF Structs
<1>2. \A c \in Messages : \E i \in 1..6 : Controls[i] = c
  <2>1. /\ Controls[1] = "CLOSE" /\ Controls[2] = "RJ" /\ Controls[3] = "RR"
        /\ Controls[4] = "INITC" /\ Controls[5] = "INITB" /\ Controls[6] = "INITA"
    BY DEF Controls
  <2> QED  BY <2>1 DEF Messages
<1>3. \A c \in p.msg : idx(c) \in 1..6
  BY <1>1, <1>2
<1> HIDE DEF idx
<1>4. T \subseteq Nat /\ T # {}
  BY <1>3
<1>5. PICK i \in T : \A j \in T : i <= j
  BY <1>4, LeastNat
<1>6. \E c \in p.msg : \A d \in p.msg : idx(c) <= idx(d)
  BY <1>5
<1> QED  BY <1>6 DEF LowestControl, idx

\* p and q differ in what pkoutput, the acknowledgement timers and the
\* opening may change: the windows and the buffers are the same.
Alike(p, q) ==
    /\ q.ps = p.ps /\ q.pr = p.pr /\ q.pscopy = p.pscopy /\ q.ob = p.ob
    /\ q.in = p.in /\ q.imap = p.imap /\ q.ipool = p.ipool
    /\ q.rcount = p.rcount /\ q.xcount = p.xcount
    /\ q.rwindow = p.rwindow /\ q.rsize = p.rsize
    /\ \A x \in Seq8 : p.os[x] \subseteq q.os[x] /\ (q.os[x] = {} <=> p.os[x] = {})

\* The three ways out of pkoutput.
LEMMA OutputCases ==
    ASSUME NEW p
    PROVE  /\ ControlFirst(p) =>
                 pkoutput(p) = [p EXCEPT !.nxtps = Candidate(p), !.msg = @ \ {LowestControl(p)}]
           /\ ~ControlFirst(p) /\ SendsData(p) =>
                 pkoutput(p) = [p EXCEPT !.nxtps = next(Candidate(p)),
                                         !.os[Candidate(p)] = @ \cup {"SENT"},
                                         !.state = @ \ {"RXMIT"}, !.connodata = 0]
           /\ ~ControlFirst(p) /\ ~SendsData(p) =>
                 pkoutput(p) = [p EXCEPT !.nxtps = Candidate(p)]
<1>1. ASSUME ControlFirst(p)
      PROVE  pkoutput(p) = [p EXCEPT !.nxtps = Candidate(p), !.msg = @ \ {LowestControl(p)}]
  BY <1>1 DEF pkoutput
<1>2. ASSUME ~ControlFirst(p), SendsData(p)
      PROVE  pkoutput(p) = [p EXCEPT !.nxtps = next(Candidate(p)),
                                     !.os[Candidate(p)] = @ \cup {"SENT"},
                                     !.state = @ \ {"RXMIT"}, !.connodata = 0]
  BY <1>2 DEF pkoutput
<1>3. ASSUME ~ControlFirst(p), ~SendsData(p)
      PROVE  pkoutput(p) = [p EXCEPT !.nxtps = Candidate(p)]
  BY <1>3 DEF pkoutput
<1> QED  BY <1>1, <1>2, <1>3, Zenon

\* And what is on the line then.
LEMMA TransmittedCases ==
    ASSUME NEW p
    PROVE  /\ ControlFirst(p) =>
                 Transmitted(p) = <<[type |-> LowestControl(p),
                                     val |-> ControlValue(p, LowestControl(p))]>>
           /\ ~ControlFirst(p) /\ SendsData(p) =>
                 Transmitted(p) = <<[type |-> "DATA", k |-> p.lpsize, seq |-> Candidate(p),
                                     ack |-> p.pr, body |-> p.ob[Candidate(p)]]>>
           /\ ~ControlFirst(p) /\ ~SendsData(p) => Transmitted(p) = <<>>
<1>1. ASSUME ControlFirst(p)
      PROVE  Transmitted(p) = <<[type |-> LowestControl(p),
                                 val |-> ControlValue(p, LowestControl(p))]>>
  BY <1>1 DEF Transmitted
<1>2. ASSUME ~ControlFirst(p), SendsData(p)
      PROVE  Transmitted(p) = <<[type |-> "DATA", k |-> p.lpsize, seq |-> Candidate(p),
                                 ack |-> p.pr, body |-> p.ob[Candidate(p)]]>>
  BY <1>2 DEF Transmitted
<1>3. ASSUME ~ControlFirst(p), ~SendsData(p) PROVE Transmitted(p) = <<>>
  BY <1>3 DEF Transmitted
<1> QED  BY <1>1, <1>2, <1>3, Zenon

\* What pkoutput leaves behind.
LEMMA OutputIs ==
    ASSUME NEW p \in Structs
    PROVE  /\ pkoutput(p) \in Structs /\ Alike(p, pkoutput(p))
           /\ pkoutput(p).swindow = p.swindow /\ pkoutput(p).lpsize = p.lpsize
           /\ pkoutput(p).rpr = p.rpr /\ pkoutput(p).rmsg = p.rmsg
           /\ pkoutput(p).state \in {p.state, p.state \ {"RXMIT"}}
<1> DEFINE x == Candidate(p)
           Good(q) == /\ q \in Structs /\ Alike(p, q)
                      /\ q.swindow = p.swindow /\ q.lpsize = p.lpsize
                      /\ q.rpr = p.rpr /\ q.rmsg = p.rmsg
                      /\ q.state \in {p.state, p.state \ {"RXMIT"}}
<1>1. x \in Seq8
  BY NextIn DEF Candidate, Structs
<1>2. /\ ControlFirst(p) =>
            pkoutput(p) = [p EXCEPT !.nxtps = x, !.msg = @ \ {LowestControl(p)}]
      /\ ~ControlFirst(p) /\ SendsData(p) =>
            pkoutput(p) = [p EXCEPT !.nxtps = next(x), !.os[x] = @ \cup {"SENT"},
                                    !.state = @ \ {"RXMIT"}, !.connodata = 0]
      /\ ~ControlFirst(p) /\ ~SendsData(p) => pkoutput(p) = [p EXCEPT !.nxtps = x]
  BY OutputCases, Zenon
<1> HIDE DEF x
<1>3. ASSUME ControlFirst(p) PROVE Good(pkoutput(p))
  <2> DEFINE m == p.msg \ {LowestControl(p)}
             q == [p EXCEPT !.nxtps = x, !.msg = m]
  <2>1. m \in SUBSET Messages
    BY DEF Structs
  <2>2. pkoutput(p) = q
    BY <1>2, <1>3, Zenon
  <2> HIDE DEF m
  <2>3. Good(q)
    BY <1>1, <2>1 DEF Structs, Alike
  <2> HIDE DEF Good, q
  <2> QED  BY <2>2, <2>3
<1>4. ASSUME ~ControlFirst(p) /\ SendsData(p) PROVE Good(pkoutput(p))
  <2> DEFINE o == [p.os EXCEPT ![x] = @ \cup {"SENT"}]
             y == next(x)
             s == p.state \ {"RXMIT"}
             q == [p EXCEPT !.nxtps = y, !.os = o, !.state = s, !.connodata = 0]
  <2>1. p.os[x] # {} /\ y \in Seq8 /\ s \in SUBSET Flags
    BY <1>1, <1>4, NextIn DEF SendsData, Structs, x
  <2>2. p.os \in [Seq8 -> SUBSET {"READY", "SENT"}]
    BY DEF Structs
  <2>3. /\ o \in [Seq8 -> SUBSET {"READY", "SENT"}]
        /\ \A z \in Seq8 : p.os[z] \subseteq o[z] /\ (o[z] = {} <=> p.os[z] = {})
    BY <1>1, <2>1, <2>2
  <2>4. pkoutput(p) = q
    BY <1>2, <1>4
  <2> HIDE DEF o, y, s
  <2>5. /\ q \in Structs /\ q.os = o /\ q.swindow = p.swindow /\ q.lpsize = p.lpsize
        /\ q.rpr = p.rpr /\ q.rmsg = p.rmsg /\ q.state = s
    BY <2>1, <2>3 DEF Structs
  <2>6. /\ q.ps = p.ps /\ q.pr = p.pr /\ q.pscopy = p.pscopy /\ q.ob = p.ob
        /\ q.in = p.in /\ q.imap = p.imap /\ q.ipool = p.ipool
        /\ q.rcount = p.rcount /\ q.xcount = p.xcount
        /\ q.rwindow = p.rwindow /\ q.rsize = p.rsize
    BY DEF Structs
  <2> HIDE DEF q
  <2>7. Alike(p, q)
    BY <2>3, <2>5, <2>6 DEF Alike
  <2> QED  BY <2>4, <2>5, <2>7 DEF s
<1>5. ASSUME ~ControlFirst(p) /\ ~SendsData(p) PROVE Good(pkoutput(p))
  <2> DEFINE q == [p EXCEPT !.nxtps = x]
  <2>1. pkoutput(p) = q
    BY <1>2, <1>5, Zenon
  <2>2. Good(q)
    BY <1>1 DEF Structs, Alike
  <2> HIDE DEF Good, q
  <2> QED  BY <2>1, <2>2
<1> QED  BY <1>3, <1>4, <1>5

\* What pkoutput of p may put on the line: a control message that names what
\* it is about, or a packet in an output buffer, which counts as sent now.
Sendable(p, g) ==
    \/ g.type \in Messages /\ g.val = ControlValue(p, g.type)
    \/ /\ g.type = "DATA" /\ g.ack = p.pr
       /\ "SENT" \in pkoutput(p).os[g.seq] /\ p.os[g.seq] # {} /\ g.body = p.ob[g.seq]

\* The value of a control message fits in its three bits.
LEMMA ValueIn ==
    ASSUME NEW p \in Structs, NEW c \in Messages
    PROVE  ControlValue(p, c) \in Seq8
<1>1. pksize(p.rsize) \in Seq8 /\ p.pr \in Seq8 /\ p.rwindow \in Seq8 /\ 0 \in Seq8
  BY SizeCode DEF Structs, Seq8
<1> QED  BY <1>1 DEF ControlValue, Messages

\* pkoutput puts at most one frame on the line.
LEMMA TransmittedIs ==
    ASSUME NEW p \in Structs
    PROVE  \/ Transmitted(p) = <<>>
           \/ \E g \in LineFrames : Transmitted(p) = <<g>> /\ Sendable(p, g)
<1>1. Candidate(p) \in Seq8
  BY NextIn DEF Candidate, Structs
<1>2. CASE ControlFirst(p)
  <2> DEFINE c == LowestControl(p)
             g == [type |-> c, val |-> ControlValue(p, c)]
  <2>1. c \in Messages
    <3>1. c \in p.msg
      BY <1>2, LowestIs DEF ControlFirst
    <3>2. p.msg \subseteq Messages
      BY DEF Structs
    <3> QED  BY <3>1, <3>2
  <2>2. Transmitted(p) = <<g>>
    BY <1>2, TransmittedCases, Zenon
  <2>3. ControlValue(p, c) \in Seq8
    BY <2>1, ValueIn
  <2> HIDE DEF c
  <2>4. g \in LineFrames /\ Sendable(p, g)
    BY <2>1, <2>3 DEF LineFrames, Sendable
  <2> QED  BY <2>2, <2>4
<1>3. CASE ~ControlFirst(p) /\ SendsData(p)
  <2> DEFINE x == Candidate(p)
             g == [type |-> "DATA", k |-> p.lpsize, seq |-> x, ack |-> p.pr, body |-> p.ob[x]]
  <2>1. Transmitted(p) = <<g>>
    BY <1>3, TransmittedCases, Zenon
  <2>2. p.os[x] # {} /\ x \in Seq8
    BY <1>1, <1>3 DEF SendsData
  <2>3. p.ob[x] \in Bodies /\ p.pr \in Seq8 /\ p.lpsize \in Nat
    BY <2>2 DEF Structs
  <2>4. pkoutput(p) = [p EXCEPT !.nxtps = next(x), !.os[x] = @ \cup {"SENT"},
                                !.state = @ \ {"RXMIT"}, !.connodata = 0]
    BY <1>3, OutputCases, Zenon
  <2>5. p.os \in [Seq8 -> SUBSET {"READY", "SENT"}]
    BY DEF Structs
  <2> HIDE DEF x
  <2> DEFINE o == [p.os EXCEPT ![x] = @ \cup {"SENT"}]
  <2>6. "SENT" \in pkoutput(p).os[x]
    <3>1. "SENT" \in o[x]
      BY <2>2, <2>5
    <3>2. pkoutput(p).os = o
      BY <2>4 DEF Structs
    <3> QED  BY <3>1, <3>2
  <2>7. /\ g.type = "DATA" /\ g.seq = x /\ g.ack = p.pr /\ g.body = p.ob[x]
        /\ g \in [type : {"DATA"}, k : Nat, seq : Seq8, ack : Seq8, body : Bodies]
    BY <2>2, <2>3
  <2> HIDE DEF g
  <2>8. g \in LineFrames
    BY <2>7 DEF LineFrames
  <2>9. Sendable(p, g)
    BY <2>2, <2>6, <2>7 DEF Sendable
  <2> QED  BY <2>1, <2>8, <2>9
<1>4. CASE ~ControlFirst(p) /\ ~SendsData(p)
  BY <1>4, TransmittedCases, Zenon
<1> QED  BY <1>2, <1>3, <1>4

-----------------------------------------------------------------------------
(***************************************************************************)
(* pksack                                                                  *)
(***************************************************************************)
\* Numbers less than 8 apart are told apart modulo 8.
LEMMA Apart ==
    ASSUME NEW a \in Nat, NEW b \in Nat, a < b, b < a + 8
    PROVE  a % 8 # b % 8
  OBVIOUS

\* How many packets an acknowledgement frees.
Frees(p, a) == (a + 8 - p.ps) % 8

\* What a turn of pksack's loop does.
Release(q, x) ==
    IF "SENT" \in q.os[x]
    THEN [q EXCEPT !.os[x] = {}, !.ob[x] = NoBody, !.ps = x, !.xcount = @ - 1, !.connodata = 0]
    ELSE q

\* q is p after the first j of those turns, all of packets that were sent.
Released(p, j, q) ==
    /\ q.ps = (p.ps + j) % 8 /\ q.xcount = p.xcount - j
    /\ \A x \in Seq8 : IF \E i \in 1..j : x = (p.ps + i) % 8
                       THEN q.os[x] = {}
                       ELSE q.os[x] = p.os[x] /\ q.ob[x] = p.ob[x]
    /\ q.state = p.state /\ q.msg = p.msg /\ q.rmsg = p.rmsg /\ q.pr = p.pr /\ q.rpr = p.rpr
    /\ q.nxtps = p.nxtps /\ q.pscopy = p.pscopy /\ q.in = p.in /\ q.imap = p.imap
    /\ q.ipool = p.ipool /\ q.rcount = p.rcount /\ q.rwindow = p.rwindow
    /\ q.swindow = p.swindow /\ q.rsize = p.rsize /\ q.lpsize = p.lpsize
    /\ q.ntimeout = p.ntimeout

\* A turn of pksack's loop leaves a struct pack.
LEMMA ReleaseIn ==
    ASSUME NEW q \in Structs, NEW x \in Seq8
    PROVE  Release(q, x) \in Structs
<1>1. NoBody \in Bodies
  BY DEF NoBody, Bodies
<1>2. CASE "SENT" \in q.os[x]
  <2> DEFINE o == [q.os EXCEPT ![x] = {}]
             b == [q.ob EXCEPT ![x] = NoBody]
  <2>1. o \in [Seq8 -> SUBSET {"READY", "SENT"}] /\ b \in [Seq8 -> Bodies]
    BY <1>1 DEF Structs
  <2>2. Release(q, x) = [q EXCEPT !.os = o, !.ob = b, !.ps = x, !.xcount = @ - 1, !.connodata = 0]
    BY <1>2 DEF Release
  <2> HIDE DEF o, b
  <2>3. q.xcount - 1 \in Int /\ 0 \in Nat
    BY DEF Structs
  <2>4. [q EXCEPT !.os = o, !.ob = b, !.ps = x, !.xcount = @ - 1, !.connodata = 0] \in Structs
    BY <2>1, <2>3 DEF Structs
  <2> QED  BY <2>2, <2>4
<1> QED  BY <1>2 DEF Release

\* It frees the next packet, if that was sent.
LEMMA ReleaseNext ==
    ASSUME NEW p \in Structs, NEW q \in Structs, NEW j \in 1..7, Released(p, j - 1, q),
           "SENT" \in p.os[(p.ps + j) % 8]
    PROVE  Released(p, j, Release(q, (p.ps + j) % 8))
<1> DEFINE x == (p.ps + j) % 8
           v == [q EXCEPT !.os[x] = {}, !.ob[x] = NoBody, !.ps = x, !.xcount = @ - 1, !.connodata = 0]
<1>1. p.ps \in 0..7 /\ x \in Seq8
  BY DEF Structs, Seq8
<1>2. \A i \in 1..j-1 : (p.ps + i) % 8 # x
  <2> TAKE i \in 1..j-1
  <2>1. p.ps + i \in Nat /\ p.ps + j \in Nat /\ p.ps + i < p.ps + j /\ p.ps + j < p.ps + i + 8
    BY <1>1
  <2> QED  BY <2>1, Apart
<1>3. q.os[x] = p.os[x]
  BY <1>1, <1>2 DEF Released
<1>4. Release(q, x) = v
  BY <1>3 DEF Release
<1>5. q.os \in [Seq8 -> SUBSET {"READY", "SENT"}] /\ q.ob \in [Seq8 -> Bodies] /\ q.xcount \in Int
  BY DEF Structs
<1>6. \A y : (\E i \in 1..j : y = (p.ps + i) % 8) <=> (y = x \/ \E i \in 1..j-1 : y = (p.ps + i) % 8)
  <2>1. \A i \in 1..j : i = j \/ i \in 1..j-1
    OBVIOUS
  <2>2. j \in 1..j /\ \A i \in 1..j-1 : i \in 1..j
    OBVIOUS
  <2> QED  BY <2>1, <2>2
<1> HIDE DEF x
<1>7. v.os = [q.os EXCEPT ![x] = {}] /\ v.ob = [q.ob EXCEPT ![x] = NoBody]
      /\ v.ps = x /\ v.xcount = q.xcount - 1
  BY DEF Structs
<1>8. /\ v.state = q.state /\ v.msg = q.msg /\ v.rmsg = q.rmsg /\ v.pr = q.pr /\ v.rpr = q.rpr
      /\ v.nxtps = q.nxtps /\ v.pscopy = q.pscopy /\ v.in = q.in /\ v.imap = q.imap
      /\ v.ipool = q.ipool /\ v.rcount = q.rcount /\ v.rwindow = q.rwindow
      /\ v.swindow = q.swindow /\ v.rsize = q.rsize /\ v.lpsize = q.lpsize
      /\ v.ntimeout = q.ntimeout
  BY DEF Structs
<1> HIDE DEF v
<1>9. v.xcount = p.xcount - j
  <2>1. q.xcount = p.xcount - (j - 1) /\ p.xcount \in Int
    BY DEF Released, Structs
  <2> QED  BY <1>7, <2>1
<1>10. \A y \in Seq8 : IF \E i \in 1..j : y = (p.ps + i) % 8
                       THEN v.os[y] = {}
                       ELSE v.os[y] = p.os[y] /\ v.ob[y] = p.ob[y]
  <2> TAKE y \in Seq8
  <2>1. CASE y = x
    <3>1. v.os[y] = {}
      BY <1>1, <1>5, <1>7, <2>1
    <3> QED  BY <1>6, <2>1, <3>1
  <2>2. CASE y # x
    <3>1. v.os[y] = q.os[y] /\ v.ob[y] = q.ob[y]
      BY <1>5, <1>7, <2>2
    <3> QED  BY <1>6, <2>2, <3>1 DEF Released
  <2> QED  BY <2>1, <2>2
<1>11. Released(p, j, v)
  BY <1>7, <1>8, <1>9, <1>10 DEF Released, x
<1> QED  BY <1>4, <1>11 DEF x

\* The loop of pksack, turn by turn.
Turns(h, n, p, path) ==
    /\ h \in [0..n -> Structs] /\ h[0] = p
    /\ \A k \in 1..n : h[k] = Release(h[k-1], path[k])

\* The loop of pksack is its turns, one after another.
LEMMA ReleaseTurns ==
    ASSUME NEW p \in Structs, NEW n \in Nat, NEW path, DOMAIN path = 1..n,
           \A k \in 1..n : path[k] \in Seq8
    PROVE  \E h : Turns(h, n, p, path) /\ h[n] = FoldLeft(Release, p, path)
<1> DEFINE step == [k \in 1..n |-> [q \in Structs |-> Release(q, path[k])]]
           Eq(g) == g = [s \in SUBSET DOMAIN path |->
                           IF s = {} THEN p ELSE Release(g[s \ {Max(s)}], path[Max(s)])]
           iter == CHOOSE g : Eq(g)
<1>4. step \in [1..n -> [Structs -> Structs]]
  BY ReleaseIn
<1>5. FoldLeft(Release, p, path) = iter[DOMAIN path]
  BY DEF FoldLeft, MapThenFoldSet
<1>6. \A k \in 1..n, q \in Structs : step[k][q] = Release(q, path[k])
  OBVIOUS
<1> HIDE DEF step
<1>8. \A s \in SUBSET (1..n) : s # {} => Max(s) \in 1..n
  <2> TAKE s \in SUBSET (1..n)
  <2>1. HAVE s # {}
  <2> QED  BY <2>1, MaxIs
<1>9. \E g : Eq(g)
  <2>1. PICK g : FoldEq(g, n, p, step)
    BY FoldHas
  <2>2. \A s \in SUBSET (1..n) : g[s] \in Structs
    BY <1>4, <2>1, FoldOf
  <2>3. \A s \in SUBSET (1..n) : s # {} =>
           step[Max(s)][g[s \ {Max(s)}]] = Release(g[s \ {Max(s)}], path[Max(s)])
    <3> TAKE s \in SUBSET (1..n)
    <3>1. HAVE s # {}
    <3>2. Max(s) \in 1..n /\ s \ {Max(s)} \in SUBSET (1..n)
      BY <1>8, <3>1
    <3> QED  BY <1>6, <2>2, <3>2
  <2>4. Eq(g)
    BY <2>1, <2>3 DEF FoldEq
  <2> QED  BY <2>4
<1>10. Eq(iter)
  BY <1>9
<1> HIDE DEF iter
<1>11. FoldEq(iter, n, p, step)
  <2>1. iter[{}] = p /\ iter = [s \in SUBSET (1..n) |-> iter[s]]
    BY <1>10
  <2>2. \A s \in SUBSET (1..n) : s # {} /\ iter[s \ {Max(s)}] \in Structs =>
           iter[s] = step[Max(s)][iter[s \ {Max(s)}]]
    BY <1>6, <1>8, <1>10
  <2> QED  BY <1>4, <2>1, <2>2, FoldMeets
<1>12. PICK h : Trace(h, n, Structs, p, step) /\ h[n] = iter[1..n]
  BY <1>4, <1>11, FoldOf
<1>13. \A k \in 1..n : h[k] = Release(h[k-1], path[k])
  BY <1>6, <1>12 DEF Trace
<1>14. Turns(h, n, p, path)
  BY <1>12, <1>13 DEF Trace, Turns
<1> QED  BY <1>5, <1>12, <1>14

\* pksack frees the packets after p_ps up to p_rpr, if they were all sent.
LEMMA SackIs ==
    ASSUME NEW p \in Structs,
           \A i \in 1..Frees(p, p.rpr) : "SENT" \in p.os[(p.ps + i) % 8]
    PROVE  /\ pksack(p) \in Structs
           /\ Released(p, Frees(p, p.rpr), pksack(p))
           /\ pksack(p).ps = p.rpr
<1> DEFINE n == Frees(p, p.rpr)
<1>1. n \in 0..7 /\ p.ps \in 0..7 /\ p.rpr \in 0..7
  BY DEF Frees, Structs, Seq8
<1>2. \A i \in 1..n : "SENT" \in p.os[(p.ps + i) % 8]
  OBVIOUS
<1>3. n \in Nat /\ (p.ps + n) % 8 = p.rpr
  BY <1>1 DEF Frees
<1> DEFINE path == PathTo(p.ps, p.rpr)
<1>4. path = [i \in 1..n |-> (p.ps + i) % 8] /\ pksack(p) = FoldLeft(Release, p, path)
  BY DEF PathTo, Frees, pksack, Release
<1> HIDE DEF n, path
<1>5. DOMAIN path = 1..n /\ \A k \in 1..n : path[k] = (p.ps + k) % 8 /\ path[k] \in Seq8
  <2>1. \A k \in 1..n : (p.ps + k) % 8 \in Seq8
    BY <1>1 DEF Seq8
  <2> QED  BY <1>4, <2>1
<1>6. PICK h : Turns(h, n, p, path) /\ h[n] = FoldLeft(Release, p, path)
  BY <1>3, <1>5, ReleaseTurns
<1>7. h \in [0..n -> Structs] /\ h[0] = p /\ \A k \in 1..n : h[k] = Release(h[k-1], path[k])
  BY <1>6 DEF Turns
<1> DEFINE P == {k \in 0..n : Released(p, k, h[k])}
<1>13. 0 \in P
  <2>1. (p.ps + 0) % 8 = p.ps /\ p.xcount - 0 = p.xcount
    <3>1. p.xcount \in Int
      BY DEF Structs
    <3> QED  BY <1>1, <3>1
  <2>2. \A x : ~ \E i \in 1..0 : x = (p.ps + i) % 8
    OBVIOUS
  <2> QED  BY <1>3, <1>7, <2>1, <2>2 DEF Released
<1>14. \A k \in 1..n : k - 1 \in P => k \in P
  <2> TAKE k \in 1..n
  <2>1. HAVE k - 1 \in P
  <2>2. k \in 1..7 /\ k - 1 \in 0..n /\ k \in 0..n
    BY <1>1
  <2>3. h[k-1] \in Structs /\ h[k] = Release(h[k-1], (p.ps + k) % 8)
    BY <1>5, <1>7, <2>2
  <2>4. "SENT" \in p.os[(p.ps + k) % 8]
    BY <1>2
  <2> QED  BY <2>1, <2>2, <2>3, <2>4, ReleaseNext
<1> HIDE DEF P
<1>15. n \in P
  <2>1. \A k \in 0..n : k \in P
    BY <1>3, <1>13, <1>14, Climb
  <2> QED  BY <1>3, <2>1
<1>17. h[n] \in Structs /\ Released(p, n, h[n])
  BY <1>1, <1>7, <1>15 DEF P
<1>18. pksack(p) = h[n] /\ h[n].ps = p.rpr
  BY <1>3, <1>4, <1>6, <1>17 DEF Released
<1> QED  BY <1>17, <1>18 DEF n

-----------------------------------------------------------------------------
(***************************************************************************)
(* pkaccept.  What its loops carry, and what a slot can hold between two   *)
(* reads other than a frame in p_imap: a frame numbered 0 or 1 may be left *)
(* in a slot out of which the first loop pushed it.                        *)
(***************************************************************************)
Tallies == [p : Structs, bad : Nat, skip : Nat, gap : BOOLEAN, accept : Nat]

Quiet(s) == s.st = "null" \/ (s.st = "raw" /\ s.seq \in {0, 1})

Busy(p) == {x \in Seq8 : p.in[x].st # "null"}

\* The input buffers p has, in the pool and in the slots.
Buffers(p) == p.ipool + Cardinality(Busy(p))

\* On the way from p to q buffers only went back to the pool.
NoneLost(p, q) == Buffers(q) = Buffers(p) /\ q.ipool >= p.ipool

\* p and q are the same outside the input.
SameOutside(p, q) ==
    /\ q.state = p.state /\ q.rmsg = p.rmsg /\ q.ps = p.ps /\ q.pr = p.pr
    /\ q.rpr = p.rpr /\ q.nxtps = p.nxtps /\ q.pscopy = p.pscopy /\ q.os = p.os
    /\ q.ob = p.ob /\ q.xcount = p.xcount /\ q.rwindow = p.rwindow
    /\ q.swindow = p.swindow /\ q.rsize = p.rsize /\ q.lpsize = p.lpsize
    /\ q.ntimeout = p.ntimeout

\* What two steps leave alone, both of them leave alone.
LEMMA SameTransitive ==
    ASSUME NEW p, NEW q, NEW r, SameOutside(p, q), SameOutside(q, r)
    PROVE  SameOutside(p, r)
  BY DEF SameOutside

\* Slots can be counted.
LEMMA BusyFinite ==
    ASSUME NEW p PROVE IsFiniteSet(Busy(p)) /\ Cardinality(Busy(p)) \in Nat
<1>1. IsFiniteSet(Seq8)
  <2>1. 0 \in Int /\ 7 \in Int
    OBVIOUS
  <2> QED  BY <2>1, FS_Interval DEF Seq8
<1> QED  BY <1>1, FS_Subset, FS_CardinalityType DEF Busy

\* A slot changes.
LEMMA BusySame ==
    ASSUME NEW p \in Structs, NEW q \in Structs, NEW x \in Seq8,
           \A y \in Seq8 \ {x} : q.in[y] = p.in[y],
           p.in[x].st # "null", q.in[x].st # "null"
    PROVE  Busy(q) = Busy(p)
  BY DEF Busy

\* A slot is emptied.
LEMMA BusyLess ==
    ASSUME NEW p \in Structs, NEW q \in Structs, NEW x \in Seq8,
           \A y \in Seq8 \ {x} : q.in[y] = p.in[y],
           p.in[x].st # "null", q.in[x].st = "null"
    PROVE  Cardinality(Busy(q)) = Cardinality(Busy(p)) - 1
<1>1. Busy(q) = Busy(p) \ {x} /\ x \in Busy(p)
  BY DEF Busy
<1> QED  BY <1>1, BusyFinite, FS_RemoveElement

\* A slot is filled.
LEMMA BusyMore ==
    ASSUME NEW p \in Structs, NEW q \in Structs, NEW x \in Seq8,
           \A y \in Seq8 \ {x} : q.in[y] = p.in[y],
           p.in[x].st = "null", q.in[x].st # "null"
    PROVE  Cardinality(Busy(q)) = Cardinality(Busy(p)) + 1
<1>1. Busy(q) = Busy(p) \cup {x} /\ x \notin Busy(p)
  BY DEF Busy
<1> QED  BY <1>1, BusyFinite, FS_AddElement

\* The slots of x and y are exchanged.
LEMMA BusySwap ==
    ASSUME NEW p \in Structs, NEW q \in Structs, NEW x \in Seq8, NEW y \in Seq8, x # y,
           \A z \in Seq8 \ {x, y} : q.in[z] = p.in[z],
           p.in[x].st # "null", q.in[x] = p.in[y], q.in[y].st # "null"
    PROVE  Cardinality(Busy(q)) = Cardinality(Busy(p))
<1>1. CASE p.in[y].st # "null"
  <2>1. Busy(q) = Busy(p)
    BY <1>1 DEF Busy
  <2> QED  BY <2>1
<1>2. CASE p.in[y].st = "null"
  <2>1. Busy(q) = (Busy(p) \ {x}) \cup {y} /\ x \in Busy(p) /\ y \notin Busy(p) \ {x}
    BY <1>2 DEF Busy
  <2>2. IsFiniteSet(Busy(p) \ {x}) /\ Cardinality(Busy(p) \ {x}) = Cardinality(Busy(p)) - 1
    BY <2>1, BusyFinite, FS_RemoveElement
  <2>3. Cardinality(Busy(q)) = Cardinality(Busy(p) \ {x}) + 1
    BY <2>1, <2>2, FS_AddElement
  <2> QED  BY <2>2, <2>3, BusyFinite
<1> QED  BY <1>1, <1>2

\* The empty slot.
LEMMA NullSlotIn == NullSlot \in Slots /\ NullSlot.st = "null" /\ Quiet(NullSlot)
  BY DEF NullSlot, Slots, NoBody, Bodies, Seq8, Quiet

\* b is a with another input in its driver.
InputOf(a, b, in, ipool) ==
    /\ b \in Tallies /\ b.p.in = in /\ b.p.ipool = ipool
    /\ b.p.imap = a.p.imap /\ b.p.rcount = a.p.rcount /\ b.p.msg = a.p.msg
    /\ b.p.connodata = a.p.connodata
    /\ SameOutside(a.p, b.p)

\* FREE_AND_CLR empties the slot and gives the buffer back to the pool.
LEMMA FreeSlotIs ==
    ASSUME NEW a \in Tallies, NEW x \in Seq8
    PROVE  LET b == FreeSlot(a, x)
           IN  /\ InputOf(a, b, [a.p.in EXCEPT ![x] = NullSlot], a.p.ipool + 1)
               /\ b.gap = a.gap /\ b.accept = a.accept /\ b.bad = a.bad /\ b.skip = a.skip
<1> DEFINE i == [a.p.in EXCEPT ![x] = NullSlot]
           q == [a.p EXCEPT !.in = i, !.ipool = @ + 1]
           b == [a EXCEPT !.p = q]
<1>1. FreeSlot(a, x) = b
  BY DEF FreeSlot, Tallies, Structs
<1>2. a.p \in Structs
  BY DEF Tallies
<1>3. i \in [Seq8 -> Slots] /\ a.p.ipool + 1 \in Int
  BY <1>2, NullSlotIn DEF Structs
<1> HIDE DEF i
<1>4. q \in Structs /\ q.in = i /\ q.ipool = a.p.ipool + 1
  BY <1>2, <1>3 DEF Structs
<1>5. /\ q.imap = a.p.imap /\ q.rcount = a.p.rcount /\ q.msg = a.p.msg
      /\ q.connodata = a.p.connodata /\ SameOutside(a.p, q)
  BY <1>2 DEF Structs, SameOutside
<1> HIDE DEF q
<1>6. b \in Tallies /\ b.p = q /\ b.gap = a.gap /\ b.accept = a.accept
      /\ b.bad = a.bad /\ b.skip = a.skip
  BY <1>4 DEF Tallies
<1> HIDE DEF b
<1> QED  BY <1>1, <1>4, <1>5, <1>6 DEF InputOf, i

\* The first loop, when it has been through the slots below k.
Marking(p, k, a) ==
    /\ a \in Tallies /\ a.gap = FALSE /\ a.accept = 0
    /\ SameOutside(p, a.p) /\ a.p.imap = {} /\ a.p.msg = p.msg
    /\ NoneLost(p, a.p)
    /\ \A x \in Seq8 : \/ a.p.in[x].st = "mark"
                       \/ (x < k \/ x \notin p.imap) /\ Quiet(a.p.in[x])
                       \/ x >= k /\ x \in p.imap /\ a.p.in[x] = p.in[x]
    /\ \A y \in Seq8 : a.p.in[y].st = "mark" =>
          y \in InWindow(p) /\ \E x \in p.imap : p.in[x].seq = y /\ a.p.in[y].body = p.in[x].body

\* The window is the p_rwindow numbers after p_pr.
LEMMA InWindowIs ==
    ASSUME NEW p \in Structs
    PROVE  \A y : y \in InWindow(p) <=> \E j \in 1..p.rwindow : y = (p.pr + j) % 8
  BY DEF InWindow, RunAfter, Range

\* A turn of the first loop.
LEMMA MarkSlotKeeps ==
    ASSUME NEW p \in Structs, NEW a, NEW x \in Seq8, Marking(p, x, a), x \in p.imap,
           p.in[x].st = "raw"
    PROVE  Marking(p, x + 1, MarkSlot(a, x))
<1>1. a \in Tallies /\ a.p \in Structs /\ a.p.in \in [Seq8 -> Slots] /\ x \in 0..7
      /\ a.p.ipool \in Int /\ p.ipool \in Int
  BY DEF Marking, Tallies, Structs, Seq8
<1> DEFINE s == a.p.in[x]
           y == s.seq
<1>2. s.st = "mark" \/ (s = p.in[x] /\ s.st = "raw")
  BY <1>1 DEF Marking
<1>3. y \in Seq8 /\ s \in Slots
  BY <1>1 DEF Slots
<1>4. ASSUME NEW bad \in Nat, NEW skip \in Nat,
             MarkSlot(a, x) = FreeSlot([a EXCEPT !.bad = bad, !.skip = skip], x)
      PROVE  Marking(p, x + 1, MarkSlot(a, x))
  <2> DEFINE c == [a EXCEPT !.bad = bad, !.skip = skip]
             b == FreeSlot(c, x)
  <2>1. c \in Tallies /\ c.p = a.p /\ c.gap = FALSE /\ c.accept = 0
    BY <1>1 DEF Tallies, Marking
  <2> HIDE DEF c
  <2>2. /\ InputOf(c, b, [c.p.in EXCEPT ![x] = NullSlot], c.p.ipool + 1)
        /\ b.gap = FALSE /\ b.accept = 0
    BY <2>1, FreeSlotIs
  <2> HIDE DEF b
  <2>3. /\ b \in Tallies /\ b.p \in Structs /\ b.p.in = [a.p.in EXCEPT ![x] = NullSlot]
        /\ b.p.ipool = a.p.ipool + 1 /\ b.p.imap = {} /\ b.p.msg = p.msg
        /\ SameOutside(a.p, b.p)
    BY <2>1, <2>2 DEF InputOf, Tallies, Marking
  <2>4. b.p.in[x] = NullSlot /\ \A z \in Seq8 \ {x} : b.p.in[z] = a.p.in[z]
    BY <1>1, <2>3
  <2>5. NoneLost(p, b.p)
    <3>1. Cardinality(Busy(b.p)) = Cardinality(Busy(a.p)) - 1
      BY <1>1, <1>2, <2>3, <2>4, BusyLess, NullSlotIn, SMTT(30)
    <3>2. Cardinality(Busy(a.p)) \in Nat
      BY BusyFinite
    <3> QED  BY <1>1, <2>3, <3>1, <3>2 DEF Buffers, NoneLost, Marking
  <2>6. SameOutside(p, b.p)
    BY <2>3, SameTransitive DEF Marking
  <2>7. \A z \in Seq8 : \/ b.p.in[z].st = "mark"
                        \/ (z < x + 1 \/ z \notin p.imap) /\ Quiet(b.p.in[z])
                        \/ z >= x + 1 /\ z \in p.imap /\ b.p.in[z] = p.in[z]
    <3> TAKE z \in Seq8
    <3>1. CASE z = x
      BY <1>1, <2>4, <3>1, NullSlotIn
    <3>2. CASE z # x
      <4>1. b.p.in[z] = a.p.in[z]
        BY <2>4, <3>2
      <4>2. z \in 0..7 /\ (z < x => z < x + 1) /\ (z >= x => z >= x + 1)
        BY <1>1, <3>2 DEF Seq8
      <4> QED  BY <4>1, <4>2 DEF Marking
    <3> QED  BY <3>1, <3>2
  <2>8. \A z \in Seq8 : b.p.in[z].st = "mark" =>
          z \in InWindow(p) /\ \E u \in p.imap : p.in[u].seq = z /\ b.p.in[z].body = p.in[u].body
    <3> TAKE z \in Seq8
    <3>1. HAVE b.p.in[z].st = "mark"
    <3>2. z # x
      BY <2>4, <3>1, NullSlotIn
    <3>3. b.p.in[z] = a.p.in[z]
      BY <2>4, <3>2
    <3> QED  BY <3>1, <3>3 DEF Marking
  <2>9. Marking(p, x + 1, b)
    BY <2>2, <2>3, <2>5, <2>6, <2>7, <2>8 DEF Marking
  <2> QED  BY <1>4, <2>9 DEF b, c
<1>5. CASE s.st # "raw" \/ ~s.good
  <2>1. MarkSlot(a, x) = FreeSlot([a EXCEPT !.bad = a.bad + 1, !.skip = a.skip], x)
    <3>1. MarkSlot(a, x) = FreeSlot([a EXCEPT !.bad = @ + 1], x)
      BY <1>5 DEF MarkSlot
    <3>2. [a EXCEPT !.bad = @ + 1] = [a EXCEPT !.bad = a.bad + 1, !.skip = a.skip]
      BY <1>1 DEF Tallies
    <3> QED  BY <3>1, <3>2
  <2>2. a.bad + 1 \in Nat /\ a.skip \in Nat
    BY <1>1 DEF Tallies
  <2> QED  BY <1>4, <2>1, <2>2
<1>6. CASE ~(s.st # "raw" \/ ~s.good) /\ (y \notin InWindow(a.p) \/ (y # x /\ Marked(a.p.in[y])))
  <2>1. MarkSlot(a, x) = FreeSlot([a EXCEPT !.bad = a.bad, !.skip = a.skip + 1], x)
    <3>1. MarkSlot(a, x) = FreeSlot([a EXCEPT !.skip = @ + 1], x)
      BY <1>6 DEF MarkSlot
    <3>2. [a EXCEPT !.skip = @ + 1] = [a EXCEPT !.bad = a.bad, !.skip = a.skip + 1]
      BY <1>1 DEF Tallies
    <3> QED  BY <3>1, <3>2
  <2>2. a.bad \in Nat /\ a.skip + 1 \in Nat
    BY <1>1 DEF Tallies
  <2> QED  BY <1>4, <2>1, <2>2
<1>7. CASE /\ ~(s.st # "raw" \/ ~s.good)
           /\ ~(y \notin InWindow(a.p) \/ (y # x /\ Marked(a.p.in[y])))
  <2> DEFINE m == [s EXCEPT !.st = "mark"]
             i == [[a.p.in EXCEPT ![x] = a.p.in[y]] EXCEPT ![y] = m]
             q == [a.p EXCEPT !.in = i]
             b == [a EXCEPT !.p = q]
  <2>1. MarkSlot(a, x) = b
    <3>1. MarkSlot(a, x) = [a EXCEPT !.p.in[x] = a.p.in[y], !.p.in[y] = m]
      BY <1>7 DEF MarkSlot
    <3> QED  BY <1>1, <3>1 DEF Tallies, Structs
  <2>2. m \in Slots /\ m.st = "mark" /\ m.body = s.body
    BY <1>3 DEF Slots
  <2> HIDE DEF m
  <2>3. i \in [Seq8 -> Slots] /\ i[y] = m /\ (x # y => i[x] = a.p.in[y])
        /\ \A z \in Seq8 \ {x, y} : i[z] = a.p.in[z]
    BY <1>1, <1>3, <2>2
  <2> HIDE DEF i
  <2>4. q \in Structs /\ q.in = i /\ q.ipool = a.p.ipool /\ q.imap = a.p.imap
        /\ q.msg = a.p.msg /\ SameOutside(a.p, q)
    BY <1>1, <2>3 DEF Structs, SameOutside
  <2> HIDE DEF q
  <2>5. b \in Tallies /\ b.p = q /\ b.gap = FALSE /\ b.accept = 0
    BY <1>1, <2>4 DEF Tallies, Marking
  <2> HIDE DEF b
  <2>6. s = p.in[x] /\ s.st = "raw" /\ y \in InWindow(p)
    <3>1. a.p.pr = p.pr /\ a.p.rwindow = p.rwindow
      BY DEF Marking, SameOutside
    <3>2. InWindow(a.p) = InWindow(p)
      BY <3>1 DEF InWindow
    <3> QED  BY <1>2, <1>7, <3>2
  <2>7. x # y => Quiet(a.p.in[y])
    <3>1. HAVE x # y
    <3>2. a.p.in[y].st # "mark" /\ (a.p.in[y].st = "raw" => a.p.in[y].seq \in {0, 1})
      BY <1>7, <3>1 DEF Marked
    <3>3. a.p.in[y].st = "raw" \/ Quiet(a.p.in[y])
      <4>1. CASE y \in p.imap /\ y >= x /\ a.p.in[y] = p.in[y]
        <5>1. a.p.in[y].st \in {"null", "raw", "mark", "copy"}
          BY <1>1, <1>3 DEF Slots
        <5>2. a.p.in[y].st # "copy"
          BY <1>7, <3>1 DEF Marked
        <5> QED  BY <3>2, <5>1, <5>2 DEF Quiet
      <4> QED  BY <1>3, <3>2, <4>1 DEF Marking
    <3> QED  BY <3>2, <3>3 DEF Quiet
  <2>8. NoneLost(p, q)
    <3>1. Cardinality(Busy(q)) = Cardinality(Busy(a.p))
      <4>1. CASE x = y
        <5>1. \A z \in Seq8 \ {x} : q.in[z] = a.p.in[z]
          BY <2>3, <2>4, <4>1
        <5>2. a.p.in[x].st # "null" /\ q.in[x].st # "null"
          BY <2>2, <2>3, <2>4, <2>6, <4>1
        <5>3. Busy(q) = Busy(a.p)
          BY <1>1, <2>4, <5>1, <5>2, BusySame
        <5> QED  BY <5>3
      <4>2. CASE x # y
        <5>1. \A z \in Seq8 \ {x, y} : q.in[z] = a.p.in[z]
          BY <2>3, <2>4
        <5>2. a.p.in[x].st # "null" /\ q.in[x] = a.p.in[y] /\ q.in[y].st # "null"
          BY <2>2, <2>3, <2>4, <2>6, <4>2
        <5>3. y \in Seq8 /\ a.p \in Structs /\ q \in Structs /\ a.p.in[x].st # "null"
          BY <1>1, <1>3, <2>4, <5>2
        <5> HIDE DEF y, s
        <5> QED  BY <4>2, <5>1, <5>2, <5>3, BusySwap
      <4> QED  BY <4>1, <4>2
    <3>2. q.ipool = a.p.ipool
      BY <2>4
    <3> QED  BY <1>1, <3>1, <3>2 DEF Buffers, NoneLost, Marking
  <2>9. \A z \in Seq8 : \/ i[z].st = "mark"
                        \/ (z < x + 1 \/ z \notin p.imap) /\ Quiet(i[z])
                        \/ z >= x + 1 /\ z \in p.imap /\ i[z] = p.in[z]
    <3> TAKE z \in Seq8
    <3>1. CASE z = y
      BY <2>2, <2>3, <3>1
    <3>2. CASE z = x /\ x # y
      BY <1>1, <2>3, <2>7, <3>2
    <3>3. CASE z # x /\ z # y
      <4>1. i[z] = a.p.in[z]
        BY <2>3, <3>3
      <4>2. z \in 0..7 /\ (z < x => z < x + 1) /\ (z >= x => z >= x + 1)
        BY <1>1, <3>3 DEF Seq8
      <4> QED  BY <4>1, <4>2 DEF Marking
    <3> QED  BY <3>1, <3>2, <3>3
  <2>10. \A z \in Seq8 : i[z].st = "mark" =>
          z \in InWindow(p) /\ \E u \in p.imap : p.in[u].seq = z /\ i[z].body = p.in[u].body
    <3> TAKE z \in Seq8
    <3>1. HAVE i[z].st = "mark"
    <3>2. CASE z = y
      BY <2>2, <2>3, <2>6, <3>2
    <3>3. CASE z # y /\ z = x
      BY <2>3, <2>7, <3>1, <3>3 DEF Quiet
    <3>4. CASE z # y /\ z # x
      <4>1. i[z] = a.p.in[z]
        BY <2>3, <3>4
      <4> QED  BY <3>1, <4>1 DEF Marking
    <3> QED  BY <3>2, <3>3, <3>4
  <2>11. SameOutside(p, q) /\ q.imap = {} /\ q.msg = p.msg
    BY <2>4, SameTransitive DEF Marking
  <2>12. Marking(p, x + 1, b)
    BY <2>4, <2>5, <2>8, <2>9, <2>10, <2>11 DEF Marking
  <2> QED  BY <2>1, <2>12
<1> QED  BY <1>5, <1>6, <1>7

\* What a turn of the first loop leaves.
LEMMA MarkSlotIn ==
    ASSUME NEW a \in Tallies, NEW x \in Seq8
    PROVE  MarkSlot(a, x) \in Tallies
<1>1. a.p \in Structs /\ a.p.in \in [Seq8 -> Slots] /\ a.bad \in Nat /\ a.skip \in Nat
  BY DEF Tallies, Structs
<1>2. a.p.in[x] \in Slots /\ a.p.in[x].seq \in Seq8
  BY <1>1 DEF Slots
<1> DEFINE s == a.p.in[x]
           y == s.seq
<1>3. [a EXCEPT !.bad = @ + 1] \in Tallies /\ [a EXCEPT !.skip = @ + 1] \in Tallies
  BY <1>1 DEF Tallies
<1>4. /\ FreeSlot([a EXCEPT !.bad = @ + 1], x) \in Tallies
      /\ FreeSlot([a EXCEPT !.skip = @ + 1], x) \in Tallies
  BY <1>3, FreeSlotIs DEF InputOf
<1> DEFINE m == [s EXCEPT !.st = "mark"]
           i == [[a.p.in EXCEPT ![x] = a.p.in[y]] EXCEPT ![y] = m]
           q == [a.p EXCEPT !.in = i]
           b == [a EXCEPT !.p = q]
<1>5. [a EXCEPT !.p.in[x] = a.p.in[y], !.p.in[y] = m] = b
  BY <1>1 DEF Tallies, Structs
<1>6. m \in Slots
  BY <1>2 DEF Slots
<1> HIDE DEF m
<1>7. i \in [Seq8 -> Slots]
  BY <1>1, <1>2, <1>6
<1> HIDE DEF i
<1>8. q \in Structs
  BY <1>1, <1>7 DEF Structs
<1> HIDE DEF q
<1>9. b \in Tallies
  BY <1>8 DEF Tallies
<1> HIDE DEF b
<1>10. \/ MarkSlot(a, x) = FreeSlot([a EXCEPT !.bad = @ + 1], x)
       \/ MarkSlot(a, x) = FreeSlot([a EXCEPT !.skip = @ + 1], x)
       \/ MarkSlot(a, x) = [a EXCEPT !.p.in[x] = a.p.in[y], !.p.in[y] = m]
  BY DEF MarkSlot, m
<1> QED  BY <1>4, <1>5, <1>9, <1>10

\* The second loop accepts a slot.
LEMMA CopySlotIs ==
    ASSUME NEW a \in Tallies, NEW x \in Seq8
    PROVE  LET b == [a EXCEPT !.p.in[x].st = "copy", !.accept = @ + 1]
               c == [a.p.in[x] EXCEPT !.st = "copy"]
           IN  /\ InputOf(a, b, [a.p.in EXCEPT ![x] = c], a.p.ipool)
               /\ c.st = "copy" /\ c.body = a.p.in[x].body
               /\ b.gap = a.gap /\ b.accept = a.accept + 1
<1> DEFINE c == [a.p.in[x] EXCEPT !.st = "copy"]
           i == [a.p.in EXCEPT ![x] = c]
           q == [a.p EXCEPT !.in = i]
           n == a.accept + 1
           b == [a EXCEPT !.p = q, !.accept = n]
<1>1. a.p \in Structs /\ a.p.in \in [Seq8 -> Slots] /\ a.accept \in Nat
  BY DEF Tallies, Structs
<1>2. [a EXCEPT !.p.in[x].st = "copy", !.accept = @ + 1] = b
  BY <1>1 DEF Tallies, Structs
<1>3. c \in Slots /\ c.st = "copy" /\ c.body = a.p.in[x].body
  BY <1>1 DEF Slots
<1> HIDE DEF c
<1>4. i \in [Seq8 -> Slots]
  BY <1>1, <1>3
<1> HIDE DEF i
<1>5. q \in Structs /\ q.in = i /\ q.ipool = a.p.ipool
  BY <1>1, <1>4 DEF Structs
<1>6. /\ q.imap = a.p.imap /\ q.rcount = a.p.rcount /\ q.msg = a.p.msg
      /\ q.connodata = a.p.connodata /\ SameOutside(a.p, q)
  BY <1>1 DEF Structs, SameOutside
<1> HIDE DEF q
<1>9. n \in Nat
  BY <1>1
<1> HIDE DEF n
<1>7. b \in Tallies /\ b.p = q /\ b.gap = a.gap /\ b.accept = n
  BY <1>5, <1>9 DEF Tallies
<1> HIDE DEF b
<1>8. InputOf(a, b, i, a.p.ipool)
  BY <1>5, <1>6, <1>7 DEF InputOf
<1> QED  BY <1>2, <1>3, <1>7, <1>8 DEF c, i, n

\* What a turn of the second loop leaves.
LEMMA ScanSlotIn ==
    ASSUME NEW a \in Tallies, NEW x \in Seq8
    PROVE  ScanSlot(a, x) \in Tallies
<1>1. a.skip + 1 \in Nat
  BY DEF Tallies
<1>5. [a EXCEPT !.gap = TRUE] \in Tallies
  BY DEF Tallies
<1>6. [a EXCEPT !.skip = @ + 1] \in Tallies
  BY <1>1 DEF Tallies
<1>2. [a EXCEPT !.gap = TRUE] \in Tallies /\ [a EXCEPT !.skip = @ + 1] \in Tallies
  BY <1>5, <1>6
<1>3. FreeSlot([a EXCEPT !.skip = @ + 1], x) \in Tallies
  BY <1>2, FreeSlotIs DEF InputOf
<1>4. [a EXCEPT !.p.in[x].st = "copy", !.accept = @ + 1] \in Tallies
  BY CopySlotIs DEF InputOf
<1> QED  BY <1>2, <1>3, <1>4 DEF ScanSlot

\* The input of a driver between two reads.
StoredOK(p) ==
    /\ p.rcount = 0
    /\ \A x \in p.imap : p.in[x].st = "raw"
    /\ \A x \in Seq8 \ p.imap : Quiet(p.in[x])

\* A first loop over n slots, turn by turn.
MarkTurns(h, n, p, a) ==
    /\ h \in [0..n -> Tallies] /\ h[0] = a
    /\ \A k \in 1..n : h[k] = IF k - 1 \in p.imap THEN MarkSlot(h[k-1], k - 1) ELSE h[k-1]

NoTallies(p) ==
    [p |-> [p EXCEPT !.imap = {}], bad |-> 0, skip |-> 0, gap |-> FALSE, accept |-> 0]

\* Where the first loop starts.
LEMMA NoTalliesIn ==
    ASSUME NEW p \in Structs, StoredOK(p)
    PROVE  NoTallies(p) \in Tallies /\ Marking(p, 0, NoTallies(p))
<1> DEFINE q == [p EXCEPT !.imap = {}]
<1>1. q \in Structs /\ q.in = p.in /\ q.imap = {} /\ q.msg = p.msg /\ q.ipool = p.ipool
      /\ SameOutside(p, q)
  BY DEF Structs, SameOutside
<1> HIDE DEF q
<1> DEFINE a == [p |-> q, bad |-> 0, skip |-> 0, gap |-> FALSE, accept |-> 0]
<1>2. a \in Tallies /\ a.p = q /\ a.gap = FALSE /\ a.accept = 0
  BY <1>1 DEF Tallies
<1> HIDE DEF a
<1>3. NoneLost(p, q)
  <2>1. Busy(q) = Busy(p) /\ p.ipool \in Int
    BY <1>1 DEF Busy, Structs
  <2> QED  BY <1>1, <2>1 DEF Buffers, NoneLost
<1>4. \A x \in Seq8 : \/ (x < 0 \/ x \notin p.imap) /\ Quiet(q.in[x])
                      \/ x >= 0 /\ x \in p.imap /\ q.in[x] = p.in[x]
  <2> TAKE x \in Seq8
  <2>1. x >= 0
    BY DEF Seq8
  <2> QED  BY <1>1, <2>1 DEF StoredOK
<1>5. \A x \in Seq8 : q.in[x].st # "mark"
  BY <1>1 DEF StoredOK, Quiet
<1>6. Marking(p, 0, a)
  BY <1>1, <1>2, <1>3, <1>4, <1>5 DEF Marking
<1> QED  BY <1>2, <1>6 DEF NoTallies, a, q

MarkFirst(n, p) ==
    LET Mark(a, x) == IF x \in p.imap THEN MarkSlot(a, x) ELSE a
    IN  FoldLeft(Mark, NoTallies(p), [i \in 1..n |-> i - 1])

\* The first loop is its turns, one after another.
LEMMA MarkFramesTurns ==
    ASSUME NEW p \in Structs, NoTallies(p) \in Tallies,
           NEW n \in Nat, \A k \in 1..n : k - 1 \in Seq8
    PROVE  \E h : MarkTurns(h, n, p, NoTallies(p)) /\ h[n] = MarkFirst(n, p)
<1> DEFINE path == [i \in 1..n |-> i - 1]
           Mark(a, x) == IF x \in p.imap THEN MarkSlot(a, x) ELSE a
           base == NoTallies(p)
           step == [k \in 1..n |-> [a \in Tallies |-> Mark(a, path[k])]]
           Eq(g) == g = [s \in SUBSET DOMAIN path |->
                           IF s = {} THEN base ELSE Mark(g[s \ {Max(s)}], path[Max(s)])]
           iter == CHOOSE g : Eq(g)
<1>1. MarkFirst(n, p) = iter[DOMAIN path]
  BY DEF MarkFirst, FoldLeft, MapThenFoldSet
<1>2. DOMAIN path = 1..n /\ \A k \in 1..n : path[k] = k - 1 /\ path[k] \in Seq8
  OBVIOUS
<1> HIDE DEF path
<1>3. \A a \in Tallies, x \in Seq8 : Mark(a, x) \in Tallies
  BY MarkSlotIn
<1> HIDE DEF Mark
<1>4. step \in [1..n -> [Tallies -> Tallies]]
  BY <1>2, <1>3
<1>6. \A k \in 1..n, q \in Tallies : step[k][q] = Mark(q, path[k])
  OBVIOUS
<1> HIDE DEF step
<1>7. base \in Tallies
  OBVIOUS
<1> HIDE DEF base
<1>8. \A s \in SUBSET (1..n) : s # {} => Max(s) \in 1..n
  <2> TAKE s \in SUBSET (1..n)
  <2>1. HAVE s # {}
  <2> QED  BY <2>1, MaxIs
<1>9. \E g : Eq(g)
  <2>1. PICK g : FoldEq(g, n, base, step)
    BY FoldHas
  <2>2. \A s \in SUBSET (1..n) : g[s] \in Tallies
    BY <1>4, <1>7, <2>1, FoldOf
  <2>3. \A s \in SUBSET (1..n) : s # {} =>
           step[Max(s)][g[s \ {Max(s)}]] = Mark(g[s \ {Max(s)}], path[Max(s)])
    <3> TAKE s \in SUBSET (1..n)
    <3>1. HAVE s # {}
    <3>2. Max(s) \in 1..n /\ s \ {Max(s)} \in SUBSET (1..n)
      BY <1>8, <3>1
    <3> QED  BY <1>6, <2>2, <3>2
  <2>4. Eq(g)
    BY <1>2, <2>1, <2>3 DEF FoldEq
  <2> QED  BY <2>4
<1>10. Eq(iter)
  BY <1>9
<1> HIDE DEF iter
<1>11. FoldEq(iter, n, base, step)
  <2>1. iter[{}] = base /\ iter = [s \in SUBSET (1..n) |-> iter[s]]
    BY <1>2, <1>10
  <2>2. \A s \in SUBSET (1..n) : s # {} /\ iter[s \ {Max(s)}] \in Tallies =>
           iter[s] = step[Max(s)][iter[s \ {Max(s)}]]
    BY <1>2, <1>6, <1>8, <1>10, ZenonT(60)
  <2> QED  BY <1>4, <1>7, <2>1, <2>2, FoldMeets
<1>12. PICK h : Trace(h, n, Tallies, base, step) /\ h[n] = iter[1..n]
  BY <1>4, <1>7, <1>11, FoldOf
<1>13. \A k \in 1..n : h[k] = Mark(h[k-1], k - 1)
  <2> TAKE k \in 1..n
  <2>1. h[k-1] \in Tallies /\ h[k] = step[k][h[k-1]]
    BY <1>12 DEF Trace
  <2> QED  BY <1>2, <1>6, <2>1
<1>14. MarkTurns(h, n, p, base)
  BY <1>12, <1>13 DEF Trace, MarkTurns, Mark
<1> QED  BY <1>1, <1>2, <1>12, <1>14 DEF base

\* What the first loop leaves: marked slots, each with a stored frame of the
\* window in the slot of its number, and slots that no test looks at.
LEMMA MarkFramesIs ==
    ASSUME NEW p \in Structs, StoredOK(p)
    PROVE  Marking(p, 8, MarkFrames(p))
<1>1. NoTallies(p) \in Tallies /\ Marking(p, 0, NoTallies(p))
  BY NoTalliesIn
<1>2. PICK h : MarkTurns(h, 8, p, NoTallies(p)) /\ h[8] = MarkFrames(p)
  <2>1. 8 \in Nat /\ \A k \in 1..8 : k - 1 \in Seq8
    BY DEF Seq8
  <2>2. MarkFrames(p) = MarkFirst(8, p)
    BY DEF MarkFrames, MarkFirst, NoTallies
  <2> QED  BY <1>1, <2>1, <2>2, MarkFramesTurns
<1> DEFINE P == {k \in 0..8 : Marking(p, k, h[k])}
<1>3. 0 \in P
  BY <1>1, <1>2 DEF MarkTurns
<1>4. ASSUME NEW k \in 1..8, k - 1 \in P PROVE k \in P
  <2>1. k - 1 \in Seq8 /\ k - 1 \in 0..8 /\ (k - 1) + 1 = k
    BY DEF Seq8
  <2>2. Marking(p, k - 1, h[k-1])
    BY <1>4
  <2>3. CASE k - 1 \in p.imap
    <3>1. h[k] = MarkSlot(h[k-1], k - 1)
      BY <1>2, <2>3 DEF MarkTurns
    <3>2. p.in[k-1].st = "raw"
      BY <2>3 DEF StoredOK
    <3>3. Marking(p, (k - 1) + 1, MarkSlot(h[k-1], k - 1))
      BY <2>1, <2>2, <2>3, <3>2, MarkSlotKeeps
    <3> QED  BY <2>1, <3>1, <3>3
  <2>4. CASE k - 1 \notin p.imap
    <3>1. h[k] = h[k-1]
      BY <1>2, <2>4 DEF MarkTurns
    <3>2. \A x \in Seq8 : x < k - 1 => x < k
      BY DEF Seq8
    <3>3. \A x \in Seq8 : x >= k - 1 /\ x \in p.imap => x >= k
      BY <2>4 DEF Seq8
    <3>4. Marking(p, k, h[k-1])
      BY <2>2, <3>2, <3>3 DEF Marking
    <3> QED  BY <3>1, <3>4
  <2> QED  BY <2>3, <2>4
<1> HIDE DEF P
<1>5. 8 \in P
  <2>1. \A k \in 0..8 : k \in P
    BY <1>3, <1>4, Climb
  <2> QED  BY <2>1
<1> QED  BY <1>2, <1>5 DEF P

\* A second loop, turn by turn.
ScanTurns(h, n, a, path) ==
    /\ h \in [0..n -> Tallies] /\ h[0] = a
    /\ \A k \in 1..n : h[k] = ScanSlot(h[k-1], path[k])

\* The second loop is its turns, one after another.
LEMMA ScanWindowTurns ==
    ASSUME NEW p \in Tallies, NEW n \in Nat, NEW path, DOMAIN path = 1..n,
           \A k \in 1..n : path[k] \in Seq8
    PROVE  \E h : ScanTurns(h, n, p, path) /\ h[n] = FoldLeft(ScanSlot, p, path)
<1> DEFINE step == [k \in 1..n |-> [q \in Tallies |-> ScanSlot(q, path[k])]]
           Eq(g) == g = [s \in SUBSET DOMAIN path |->
                           IF s = {} THEN p ELSE ScanSlot(g[s \ {Max(s)}], path[Max(s)])]
           iter == CHOOSE g : Eq(g)
<1>4. step \in [1..n -> [Tallies -> Tallies]]
  BY ScanSlotIn
<1>5. FoldLeft(ScanSlot, p, path) = iter[DOMAIN path]
  BY DEF FoldLeft, MapThenFoldSet
<1>6. \A k \in 1..n, q \in Tallies : step[k][q] = ScanSlot(q, path[k])
  OBVIOUS
<1> HIDE DEF step
<1>8. \A s \in SUBSET (1..n) : s # {} => Max(s) \in 1..n
  <2> TAKE s \in SUBSET (1..n)
  <2>1. HAVE s # {}
  <2> QED  BY <2>1, MaxIs
<1>9. \E g : Eq(g)
  <2>1. PICK g : FoldEq(g, n, p, step)
    BY FoldHas
  <2>2. \A s \in SUBSET (1..n) : g[s] \in Tallies
    BY <1>4, <2>1, FoldOf
  <2>3. \A s \in SUBSET (1..n) : s # {} =>
           step[Max(s)][g[s \ {Max(s)}]] = ScanSlot(g[s \ {Max(s)}], path[Max(s)])
    <3> TAKE s \in SUBSET (1..n)
    <3>1. HAVE s # {}
    <3>2. Max(s) \in 1..n /\ s \ {Max(s)} \in SUBSET (1..n)
      BY <1>8, <3>1
    <3> QED  BY <1>6, <2>2, <3>2
  <2>4. Eq(g)
    BY <2>1, <2>3 DEF FoldEq
  <2> QED  BY <2>4
<1>10. Eq(iter)
  BY <1>9
<1> HIDE DEF iter
<1>11. FoldEq(iter, n, p, step)
  <2>1. iter[{}] = p /\ iter = [s \in SUBSET (1..n) |-> iter[s]]
    BY <1>10
  <2>2. \A s \in SUBSET (1..n) : s # {} /\ iter[s \ {Max(s)}] \in Tallies =>
           iter[s] = step[Max(s)][iter[s \ {Max(s)}]]
    BY <1>6, <1>8, <1>10
  <2> QED  BY <1>4, <2>1, <2>2, FoldMeets
<1>12. PICK h : Trace(h, n, Tallies, p, step) /\ h[n] = iter[1..n]
  BY <1>4, <1>11, FoldOf
<1>13. \A k \in 1..n : h[k] = ScanSlot(h[k-1], path[k])
  BY <1>6, <1>12 DEF Trace
<1>14. ScanTurns(h, n, p, path)
  BY <1>12, <1>13 DEF Trace, ScanTurns
<1> QED  BY <1>5, <1>12, <1>14

\* The slots of the window, in order.
SlotAt(p, j) == (p.pr + j) % 8

\* A stored frame with the number the end reads next is alone.
NextAlone(p) == \A x \in p.imap : p.in[x].seq = SlotAt(p, 1) => p.imap = {x}

\* The second loop, when it has been through k slots of the window.
Scanning(p, k, a) ==
    /\ a \in Tallies /\ SameOutside(p, a.p) /\ a.p.imap = {} /\ a.p.msg = p.msg
    /\ NoneLost(p, a.p)
    /\ a.accept = IF a.p.in[SlotAt(p, 1)].st = "copy" THEN 1 ELSE 0
    /\ k = 0 => a.accept = 0 /\ a.gap = FALSE
    /\ k > 0 /\ a.accept = 0 => a.gap = TRUE
    /\ a.accept = 1 => \E x \in p.imap : /\ p.in[x].seq = SlotAt(p, 1)
                                         /\ a.p.in[SlotAt(p, 1)].body = p.in[x].body
    /\ \A x \in Seq8 :
          \/ Quiet(a.p.in[x])
          \/ x = SlotAt(p, 1) /\ a.p.in[x].st = "copy"
          \/ /\ a.p.in[x].st = "mark" /\ a.accept = 0
             /\ \E j \in 1..p.rwindow : k < j /\ x = SlotAt(p, j)
             /\ \E y \in p.imap : p.in[y].seq = x /\ a.p.in[x].body = p.in[y].body
             /\ k > 0 => x # SlotAt(p, 1)

\* The second loop starts where the first one ended.
LEMMA ScanStart ==
    ASSUME NEW p \in Structs, NEW a, Marking(p, 8, a)
    PROVE  Scanning(p, 0, a)
<1>1. SlotAt(p, 1) \in Seq8 /\ p.pr \in 0..7 /\ p.rwindow \in 1..7
  BY DEF SlotAt, Seq8, Structs
<1>2. \A x \in Seq8 : Quiet(a.p.in[x]) \/ a.p.in[x].st = "mark"
  <2>1. \A x \in Seq8 : ~ (x >= 8)
    BY DEF Seq8
  <2> QED  BY <2>1 DEF Marking
<1>3. \A x \in Seq8 : a.p.in[x].st # "copy"
  BY <1>2 DEF Quiet
<1>4. a.accept = 0 /\ a.gap = FALSE
  BY DEF Marking
<1>5. \A x \in InWindow(p) : \E j \in 1..p.rwindow : 0 < j /\ x = SlotAt(p, j)
  BY InWindowIs DEF SlotAt
<1>6. \A x \in Seq8 : a.p.in[x].st = "mark" =>
          /\ \E j \in 1..p.rwindow : 0 < j /\ x = SlotAt(p, j)
          /\ \E y \in p.imap : p.in[y].seq = x /\ a.p.in[x].body = p.in[y].body
  BY <1>5 DEF Marking
<1>7. a \in Tallies /\ SameOutside(p, a.p) /\ a.p.imap = {} /\ a.p.msg = p.msg
      /\ NoneLost(p, a.p)
  BY DEF Marking
<1> QED  BY <1>1, <1>2, <1>3, <1>4, <1>6, <1>7 DEF Scanning

\* The numbers of a window differ.
LEMMA SlotsApart ==
    ASSUME NEW p \in Structs, NEW i \in 1..7, NEW j \in 1..7, i < j
    PROVE  SlotAt(p, i) # SlotAt(p, j)
<1>1. p.pr \in 0..7
  BY DEF Structs, Seq8
<1>2. p.pr + i \in Nat /\ p.pr + j \in Nat /\ p.pr + i < p.pr + j /\ p.pr + j < p.pr + i + 8
  BY <1>1
<1> QED  BY <1>2, Apart DEF SlotAt

\* A turn of the second loop.
LEMMA ScanKeeps ==
    ASSUME NEW p \in Structs, NextAlone(p), NEW k \in 1..p.rwindow, NEW a, Scanning(p, k - 1, a)
    PROVE  Scanning(p, k, ScanSlot(a, SlotAt(p, k)))
<1> DEFINE x == SlotAt(p, k)
           z == SlotAt(p, 1)
<1>1. /\ a \in Tallies /\ a.p \in Structs /\ a.p.in \in [Seq8 -> Slots] /\ a.p.ipool \in Int /\ p.ipool \in Int
      /\ a.skip \in Nat /\ a.skip + 1 \in Nat
  BY DEF Scanning, Tallies, Structs
<1>2. p.pr \in 0..7 /\ p.rwindow \in 1..7 /\ k \in 1..7
  BY DEF Structs, Seq8
<1>3. x \in Seq8 /\ z \in Seq8
  BY <1>2 DEF SlotAt, Seq8
<1>4. k > 1 => x # z
  <2>1. 1 \in 1..7 /\ (k > 1 => 1 < k)
    OBVIOUS
  <2> QED  BY <1>2, <2>1, SlotsApart
<1>5. k = 1 => x = z
  OBVIOUS
<1>6. \A j \in 1..p.rwindow : k < j => SlotAt(p, j) # x
  <2> TAKE j \in 1..p.rwindow
  <2>1. j \in 1..7
    BY <1>2
  <2> QED  BY <1>2, <2>1, SlotsApart
<1>7. a.p.in[x] \in Slots
  BY <1>1, <1>3
<1> HIDE DEF x
<1> HIDE DEF z
<1>8. \A y \in Seq8 :
          \/ Quiet(a.p.in[y])
          \/ y = z /\ a.p.in[y].st = "copy"
          \/ /\ a.p.in[y].st = "mark" /\ a.accept = 0
             /\ \E j \in 1..p.rwindow : k - 1 < j /\ y = SlotAt(p, j)
             /\ \E w \in p.imap : p.in[w].seq = y /\ a.p.in[y].body = p.in[w].body
             /\ k - 1 > 0 => y # z
  BY DEF Scanning, z
<1>9. \A s : Quiet(s) => ~Marked(s)
  BY DEF Quiet, Marked
<1>10. /\ SameOutside(p, a.p) /\ a.p.imap = {} /\ a.p.msg = p.msg
       /\ NoneLost(p, a.p)
       /\ a.accept = IF a.p.in[z].st = "copy" THEN 1 ELSE 0
       /\ k = 1 => a.accept = 0 /\ a.gap = FALSE
       /\ k > 1 /\ a.accept = 0 => a.gap = TRUE
       /\ a.accept = 1 => \E w \in p.imap : p.in[w].seq = z /\ a.p.in[z].body = p.in[w].body
  <2>1. (k = 1 => k - 1 = 0) /\ (k > 1 => k - 1 > 0)
    BY <1>2
  <2> QED  BY <2>1 DEF Scanning, z
<1>11. a.p.in[z].st = "copy" => k > 1
  <2>1. k = 1 \/ k > 1
    BY <1>2
  <2> QED  BY <1>10, <2>1
<1>12. CASE ~Marked(a.p.in[x])
  <2> DEFINE b == [a EXCEPT !.gap = TRUE]
  <2>1. ScanSlot(a, x) = b
    BY <1>12 DEF ScanSlot
  <2>2. b \in Tallies /\ b.p = a.p /\ b.gap = TRUE /\ b.accept = a.accept
    BY <1>1 DEF Tallies
  <2> HIDE DEF b
  <2>3. ASSUME NEW y \in Seq8, a.p.in[y].st = "mark",
               \E j \in 1..p.rwindow : k - 1 < j /\ y = SlotAt(p, j), k - 1 > 0 => y # z
        PROVE  (\E j \in 1..p.rwindow : k < j /\ y = SlotAt(p, j)) /\ y # z
    <3>1. y # x
      BY <1>12, <2>3 DEF Marked
    <3>2. PICK j \in 1..p.rwindow : k - 1 < j /\ y = SlotAt(p, j)
      BY <2>3
    <3>3. j # k
      BY <3>1, <3>2 DEF x
    <3>4. k < j
      BY <1>2, <3>2, <3>3
    <3>5. y # z
      <4>1. k = 1 \/ k - 1 > 0
        BY <1>2
      <4> QED  BY <1>5, <2>3, <3>1, <4>1
    <3> QED  BY <3>2, <3>4, <3>5
  <2>4. \A y \in Seq8 :
          \/ Quiet(b.p.in[y])
          \/ y = z /\ b.p.in[y].st = "copy"
          \/ /\ b.p.in[y].st = "mark" /\ b.accept = 0
             /\ \E j \in 1..p.rwindow : k < j /\ y = SlotAt(p, j)
             /\ \E w \in p.imap : p.in[w].seq = y /\ b.p.in[y].body = p.in[w].body
             /\ k > 0 => y # z
    BY <1>8, <2>2, <2>3
  <2>5. k # 0
    BY <1>2
  <2>6. Scanning(p, k, b)
    BY <1>10, <2>2, <2>4, <2>5 DEF Scanning, z
  <2> QED  BY <2>1, <2>6 DEF x
<1>13. CASE Marked(a.p.in[x]) /\ a.gap
  <2> DEFINE c == [a EXCEPT !.skip = @ + 1]
             b == FreeSlot(c, x)
  <2>1. ScanSlot(a, x) = b
    BY <1>13 DEF ScanSlot
  <2>2. c \in Tallies /\ c.p = a.p /\ c.gap = a.gap /\ c.accept = a.accept
    BY <1>1 DEF Tallies
  <2> HIDE DEF c
  <2>3. /\ InputOf(c, b, [c.p.in EXCEPT ![x] = NullSlot], c.p.ipool + 1)
        /\ b.gap = a.gap /\ b.accept = a.accept
    BY <1>3, <2>2, FreeSlotIs
  <2> HIDE DEF b
  <2>4. /\ b \in Tallies /\ b.p \in Structs /\ b.p.in = [a.p.in EXCEPT ![x] = NullSlot]
        /\ b.p.ipool = a.p.ipool + 1 /\ b.p.imap = {} /\ b.p.msg = p.msg
        /\ SameOutside(a.p, b.p)
    BY <1>10, <2>2, <2>3 DEF InputOf, Tallies
  <2>5. b.p.in[x] = NullSlot /\ \A y \in Seq8 \ {x} : b.p.in[y] = a.p.in[y]
    BY <1>1, <1>3, <2>4
  <2>6. a.p.in[x].st = "mark"
    <3>1. a.gap = TRUE
      BY <1>1, <1>13 DEF Tallies
    <3>2. k > 1
      <4>1. k = 1 \/ k > 1
        BY <1>2
      <4> QED  BY <1>10, <3>1, <4>1
    <3> QED  BY <1>3, <1>4, <1>8, <1>9, <1>13, <3>2
  <2>7. NoneLost(p, b.p)
    <3>1. Cardinality(Busy(b.p)) = Cardinality(Busy(a.p)) - 1
      <4>1. a.p.in[x].st # "null" /\ b.p.in[x].st = "null"
        BY <2>5, <2>6, NullSlotIn
      <4> QED  BY <1>1, <1>3, <2>4, <2>5, <4>1, BusyLess
    <3>2. Cardinality(Busy(a.p)) \in Nat
      BY BusyFinite
    <3> QED  BY <1>1, <1>10, <2>4, <3>1, <3>2 DEF Buffers, NoneLost
  <2>8. SameOutside(p, b.p)
    BY <1>10, <2>4, SameTransitive
  <2>9. k > 1 /\ x # z
    <3>1. k = 1 \/ k > 1
      BY <1>2
    <3>2. a.gap = TRUE
      BY <1>1, <1>13 DEF Tallies
    <3> QED  BY <1>4, <1>10, <3>1, <3>2
  <2>10. b.p.in[z] = a.p.in[z]
    BY <1>3, <2>5, <2>9
  <2>11. \A y \in Seq8 :
          \/ Quiet(b.p.in[y])
          \/ y = z /\ b.p.in[y].st = "copy"
          \/ /\ b.p.in[y].st = "mark" /\ b.accept = 0
             /\ \E j \in 1..p.rwindow : k < j /\ y = SlotAt(p, j)
             /\ \E w \in p.imap : p.in[w].seq = y /\ b.p.in[y].body = p.in[w].body
             /\ k > 0 => y # z
    <3> TAKE y \in Seq8
    <3>1. CASE y = x
      BY <2>5, <3>1, NullSlotIn
    <3>2. CASE y # x
      <4>1. b.p.in[y] = a.p.in[y]
        BY <2>5, <3>2
      <4>2. k - 1 > 0
        BY <1>2, <2>9
      <4>3. \A j \in 1..p.rwindow : k - 1 < j /\ y = SlotAt(p, j) => k < j
        <5> TAKE j \in 1..p.rwindow
        <5>1. HAVE k - 1 < j /\ y = SlotAt(p, j)
        <5>2. j # k
          BY <3>2, <5>1 DEF x
        <5> QED  BY <1>2, <5>1, <5>2
      <4> QED  BY <1>8, <2>3, <4>1, <4>2, <4>3
    <3> QED  BY <3>1, <3>2
  <2>12. k # 0 /\ a.gap = TRUE
    BY <1>1, <1>2, <1>13 DEF Tallies
  <2>13. Scanning(p, k, b)
    <3>1. /\ b \in Tallies /\ SameOutside(p, b.p) /\ b.p.imap = {} /\ b.p.msg = p.msg
          /\ NoneLost(p, b.p)
      BY <2>4, <2>7, <2>8
    <3>2. b.gap = TRUE
      BY <2>3, <2>12
    <3>3. b.accept = IF b.p.in[z].st = "copy" THEN 1 ELSE 0
      BY <1>10, <2>3, <2>10
    <3>4. b.accept = 1 => \E w \in p.imap : p.in[w].seq = z /\ b.p.in[z].body = p.in[w].body
      BY <1>10, <2>3, <2>10
    <3> HIDE DEF b
    <3> QED  BY <2>11, <2>12, <3>1, <3>2, <3>3, <3>4 DEF Scanning, z
  <2> QED  BY <2>1, <2>13 DEF x
<1>14. CASE Marked(a.p.in[x]) /\ ~a.gap
  <2> DEFINE b == [a EXCEPT !.p.in[x].st = "copy", !.accept = @ + 1]
             c == [a.p.in[x] EXCEPT !.st = "copy"]
  <2>1. ScanSlot(a, x) = b
    BY <1>14 DEF ScanSlot
  <2>2. /\ InputOf(a, b, [a.p.in EXCEPT ![x] = c], a.p.ipool)
        /\ c.st = "copy" /\ c.body = a.p.in[x].body
        /\ b.gap = a.gap /\ b.accept = a.accept + 1
    BY <1>1, <1>3, CopySlotIs
  <2> HIDE DEF b
  <2> HIDE DEF c
  <2>3. /\ b \in Tallies /\ b.p \in Structs /\ b.p.in = [a.p.in EXCEPT ![x] = c]
        /\ b.p.ipool = a.p.ipool /\ b.p.imap = {} /\ b.p.msg = p.msg
        /\ SameOutside(a.p, b.p)
    BY <1>10, <2>2 DEF InputOf, Tallies
  <2>4. b.p.in[x] = c /\ \A y \in Seq8 \ {x} : b.p.in[y] = a.p.in[y]
    BY <1>1, <1>3, <2>3
  <2>5. k = 1 /\ a.accept = 0 /\ a.gap = FALSE
    <3>1. a.gap = FALSE
      BY <1>1, <1>14 DEF Tallies
    <3>2. k = 1 \/ k > 1
      BY <1>2
    <3>3. ASSUME k > 1 PROVE FALSE
      <4>1. a.accept # 0
        BY <1>10, <3>1, <3>3
      <4>2. ~Marked(a.p.in[x])
        BY <1>3, <1>4, <1>8, <1>9, <3>3, <4>1
      <4> QED  BY <1>14, <4>2
    <3> QED  BY <1>10, <3>1, <3>2, <3>3
  <2>6. x = z /\ a.p.in[z].st # "copy"
    BY <1>5, <1>11, <2>5
  <2>7. a.p.in[z].st = "mark" /\ \E w \in p.imap : p.in[w].seq = z /\ a.p.in[z].body = p.in[w].body
    BY <1>3, <1>8, <1>9, <1>14, <2>6
  <2>8. PICK w \in p.imap : p.in[w].seq = z /\ a.p.in[z].body = p.in[w].body
    BY <2>7
  <2>9. p.imap = {w}
    BY <2>8 DEF NextAlone, z
  <2>10. b.accept = 1 /\ b.gap = FALSE
    BY <2>2, <2>5
  <2>11. NoneLost(p, b.p)
    <3>1. Busy(b.p) = Busy(a.p)
      <4>1. a.p.in[x].st # "null" /\ b.p.in[x].st # "null"
        BY <2>2, <2>4, <2>6, <2>7
      <4> QED  BY <1>1, <1>3, <2>3, <2>4, <4>1, BusySame
    <3> QED  BY <1>1, <1>10, <2>3, <3>1 DEF Buffers, NoneLost
  <2>12. SameOutside(p, b.p)
    BY <1>10, <2>3, SameTransitive
  <2>13. \A y \in Seq8 : Quiet(b.p.in[y]) \/ (y = z /\ b.p.in[y].st = "copy")
    <3> TAKE y \in Seq8
    <3>1. CASE y = x
      BY <2>2, <2>4, <2>6, <3>1
    <3>2. CASE y # x
      <4>1. b.p.in[y] = a.p.in[y]
        BY <2>4, <3>2
      <4>2. \A u \in p.imap : p.in[u].seq = z
        BY <2>8, <2>9
      <4>3. a.p.in[y].st # "mark" \/ Quiet(a.p.in[y])
        BY <1>8, <2>6, <3>2, <4>2
      <4> QED  BY <1>8, <2>6, <3>2, <4>1, <4>3
    <3> QED  BY <3>1, <3>2
  <2>14. b.p.in[z].st = "copy" /\ b.p.in[z].body = p.in[w].body
    BY <2>2, <2>4, <2>6, <2>8
  <2>15. \E u \in p.imap : p.in[u].seq = z /\ b.p.in[z].body = p.in[u].body
    BY <2>8, <2>14
  <2>16. k # 0
    BY <2>5
  <2>17. Scanning(p, k, b)
    BY <2>3, <2>10, <2>11, <2>12, <2>13, <2>14, <2>15, <2>16 DEF Scanning, z
  <2> QED  BY <2>1, <2>17 DEF x
<1> QED  BY <1>12, <1>13, <1>14

\* Both loops, one after the other.
LEMMA ScanWindowIs ==
    ASSUME NEW p \in Structs, StoredOK(p), NextAlone(p)
    PROVE  Scanning(p, p.rwindow, ScanWindow(MarkFrames(p)))
<1> DEFINE a == MarkFrames(p)
           n == p.rwindow
           path == [i \in 1..n |-> (p.pr + i) % 8]
<1>1. Marking(p, 8, a)
  BY MarkFramesIs
<1> HIDE DEF a
<1>2. Scanning(p, 0, a)
  BY <1>1, ScanStart
<1>3. a \in Tallies /\ a.p.pr = p.pr /\ a.p.rwindow = p.rwindow
  BY <1>2 DEF Scanning, SameOutside
<1>4. ScanWindow(a) = FoldLeft(ScanSlot, a, path)
  BY <1>3 DEF ScanWindow, RunAfter
<1>5. n \in Nat /\ p.pr \in 0..7
  BY DEF Structs, Seq8
<1>6. DOMAIN path = 1..n /\ \A k \in 1..n : path[k] = SlotAt(p, k) /\ path[k] \in Seq8
  <2>1. \A k \in 1..n : (p.pr + k) % 8 \in Seq8
    BY <1>5 DEF Seq8
  <2> QED  BY <2>1 DEF SlotAt
<1> HIDE DEF path
<1>7. PICK h : ScanTurns(h, n, a, path) /\ h[n] = ScanWindow(a)
  <2> HIDE DEF n
  <2> QED  BY <1>3, <1>4, <1>5, <1>6, ScanWindowTurns
<1> DEFINE P == {k \in 0..n : Scanning(p, k, h[k])}
<1>8. 0 \in P
  BY <1>2, <1>5, <1>7 DEF ScanTurns
<1>9. ASSUME NEW k \in 1..n, k - 1 \in P PROVE k \in P
  <2>1. k \in 0..n /\ Scanning(p, k - 1, h[k-1])
    BY <1>5, <1>9
  <2>2. h[k] = ScanSlot(h[k-1], SlotAt(p, k))
    BY <1>6, <1>7 DEF ScanTurns
  <2>3. Scanning(p, k, ScanSlot(h[k-1], SlotAt(p, k)))
    BY <2>1, ScanKeeps
  <2> QED  BY <2>1, <2>2, <2>3
<1> HIDE DEF P
<1>10. n \in P
  <2>1. \A k \in 0..n : k \in P
    <3> HIDE DEF n
    <3> QED  BY <1>5, <1>8, <1>9, Climb
  <2> QED  BY <1>5, <2>1
<1> QED  BY <1>7, <1>10 DEF P, a

\* pkaccept accepts the next packet if a frame with its number is stored, and
\* nothing else; whatever it does not accept goes back to the pool.
Accepted(p, q) ==
    LET z == SlotAt(p, 1)
    IN  /\ q.in[z].st = "copy"
        /\ \A x \in Seq8 \ {z} : Quiet(q.in[x])
        /\ \E w \in p.imap : p.in[w].seq = z /\ q.in[z].body = p.in[w].body

\* What pkaccept leaves: nothing to read, or the next packet to copy out.
LEMMA AcceptIs ==
    ASSUME NEW p \in Structs, StoredOK(p), NextAlone(p)
    PROVE  LET q == pkaccept(p)
           IN  /\ q \in Structs /\ SameOutside(p, q) /\ q.imap = {} /\ NoneLost(p, q)
               /\ \/ q.rcount = 0 /\ \A x \in Seq8 : Quiet(q.in[x])
                  \/ q.rcount = 1 /\ Accepted(p, q)
<1> DEFINE a == ScanWindow(MarkFrames(p))
           m == (IF a.bad > 0 THEN {"RJ"} ELSE {}) \cup (IF a.skip > 0 THEN {"RR"} ELSE {})
           q == [a.p EXCEPT !.rcount = a.accept, !.msg = @ \cup m]
<1>1. Scanning(p, p.rwindow, a)
  BY ScanWindowIs
<1>2. pkaccept(p) = q
  <2>1. a.p \in Structs
    BY <1>1 DEF Scanning, Tallies
  <2> HIDE DEF a
  <2> QED  BY <2>1 DEF pkaccept, Structs, a
<1> HIDE DEF a
<1>3. a.p \in Structs /\ a.accept \in Nat
  BY <1>1 DEF Scanning, Tallies
<1>4. m \in SUBSET Messages
  BY DEF Messages
<1> HIDE DEF m
<1>5. /\ q \in Structs /\ q.rcount = a.accept /\ q.in = a.p.in /\ q.imap = a.p.imap
      /\ q.ipool = a.p.ipool /\ SameOutside(a.p, q)
  BY <1>3, <1>4 DEF Structs, SameOutside
<1> HIDE DEF q
<1>6. SameOutside(p, q)
  BY <1>1, <1>5, SameTransitive DEF Scanning
<1>7. NoneLost(p, q)
  <2>1. Busy(q) = Busy(a.p) /\ p.ipool \in Int /\ a.p.ipool \in Int
    BY <1>3, <1>5 DEF Busy, Structs
  <2> QED  BY <1>1, <1>5, <2>1 DEF Buffers, NoneLost, Scanning
<1> DEFINE z == SlotAt(p, 1)
<1>8. p.rwindow \in 1..7 /\ p.pr \in 0..7 /\ z \in Seq8
  BY DEF Structs, SlotAt, Seq8
<1>9. \A j \in 1..p.rwindow : ~ (p.rwindow < j)
  BY <1>8
<1>10. \A x \in Seq8 : Quiet(q.in[x]) \/ (x = z /\ q.in[x].st = "copy")
  BY <1>1, <1>5, <1>9 DEF Scanning
<1>11. CASE q.in[z].st = "copy"
  <2>1. q.rcount = 1 /\ \E w \in p.imap : p.in[w].seq = z /\ q.in[z].body = p.in[w].body
    BY <1>1, <1>5, <1>11 DEF Scanning
  <2> QED  BY <1>1, <1>2, <1>5, <1>6, <1>7, <1>10, <1>11, <2>1 DEF Scanning, Accepted
<1>12. CASE q.in[z].st # "copy"
  <2>1. q.rcount = 0
    BY <1>1, <1>5, <1>12 DEF Scanning
  <2> QED  BY <1>1, <1>2, <1>5, <1>6, <1>7, <1>8, <1>10, <1>12, <2>1 DEF Scanning
<1> QED  BY <1>11, <1>12

\* What is left of the driver when pkread has copied the packet out.
Consumed(q, r) ==
    /\ r \in Structs /\ r.pr = SlotAt(q, 1) /\ r.rcount = 0 /\ r.imap = q.imap
    /\ Buffers(r) = Buffers(q) /\ r.ipool >= q.ipool /\ \A x \in Seq8 : Quiet(r.in[x])
    /\ r.state = q.state /\ r.rmsg = q.rmsg /\ r.ps = q.ps
    /\ r.rpr = q.rpr /\ r.nxtps = q.nxtps /\ r.pscopy = q.pscopy /\ r.os = q.os
    /\ r.ob = q.ob /\ r.xcount = q.xcount /\ r.rwindow = q.rwindow
    /\ r.swindow = q.swindow /\ r.rsize = q.rsize /\ r.lpsize = q.lpsize

\* pkread copies that packet out and returns its buffer to the pool.
LEMMA ConsumeIs ==
    ASSUME NEW q \in Structs, NEW ic \in Nat \ {0}, q.rcount = 1,
           q.in[SlotAt(q, 1)].st = "copy",
           \A x \in Seq8 \ {SlotAt(q, 1)} : Quiet(q.in[x])
    PROVE  Consumed(q, Consume(q, ic)) /\ ReadBodies(q, ic) = <<q.in[SlotAt(q, 1)].body>>
<1> DEFINE z == SlotAt(q, 1)
           T == {k \in 0..Min({ic, 7}) :
                   /\ \A i \in 1..k : /\ q.in[(q.pr + i) % 8].st = "copy"
                                      /\ q.in[(q.pr + i) % 8].body.len = 0 => k = 1}
<1>1. q.pr \in 0..7 /\ z \in Seq8 /\ q.in \in [Seq8 -> Slots] /\ q.ipool \in Int
  BY DEF Structs, SlotAt, Seq8
<1>2. Min({ic, 7}) \in 1..7
  <2>1. \E m \in {ic, 7} : \A y \in {ic, 7} : m <= y
    <3>1. ic <= 7 \/ 7 <= ic
      OBVIOUS
    <3> QED  BY <3>1
  <2>2. Min({ic, 7}) \in {ic, 7} /\ \A y \in {ic, 7} : Min({ic, 7}) <= y
    BY <2>1 DEF Min
  <2>3. Min({ic, 7}) <= 7 /\ Min({ic, 7}) \in Nat \ {0}
    BY <2>2
  <2> QED  BY <2>3
<1>3. ReadCount(q, ic) = Max(T)
  BY DEF ReadCount
<1>4. 0 \in T /\ 1 \in T
  <2>1. 0 \in 0..Min({ic, 7}) /\ 1 \in 0..Min({ic, 7})
    BY <1>2
  <2>2. \A i \in 1..0 : FALSE
    OBVIOUS
  <2>3. \A i \in 1..1 : i = 1
    OBVIOUS
  <2> QED  BY <2>1, <2>2, <2>3 DEF SlotAt
<1>5. \A k \in T : k <= 1
  <2>1. SUFFICES ASSUME NEW k \in T, k > 1 PROVE FALSE
    <3>1. \A k \in T : k \in Nat
      BY <1>2
    <3> QED  BY <3>1
  <2>2. 2 \in 1..k
    BY <1>2, <2>1
  <2>3. q.in[(q.pr + 2) % 8].st = "copy"
    BY <2>2
  <2>4. (q.pr + 2) % 8 \in Seq8 /\ (q.pr + 2) % 8 # z
    BY <1>1 DEF SlotAt, Seq8
  <2> QED  BY <2>3, <2>4 DEF Quiet
<1>6. ReadCount(q, ic) = 1
  <2> HIDE DEF T
  <2>1. \A x \in T : (\A y \in T : x >= y) => x = 1
    <3> TAKE x \in T
    <3>1. HAVE \A y \in T : x >= y
    <3>2. T \subseteq Nat
      BY DEF T
    <3>3. x >= 1 /\ x <= 1 /\ x \in Nat
      BY <1>4, <1>5, <3>1, <3>2
    <3> QED  BY <3>3
  <2>2. \A y \in T : 1 >= y
    <3>1. T \subseteq Nat
      BY DEF T
    <3> QED  BY <1>5, <3>1
  <2>3. Max(T) = 1
    BY <1>4, <2>1, <2>2 DEF Max
  <2> QED  BY <1>3, <2>3
<1> HIDE DEF T
<1>7. ReadBodies(q, ic) = <<q.in[z].body>>
  <2>1. ReadBodies(q, ic) = [i \in 1..1 |-> q.in[(q.pr + i) % 8].body]
    BY <1>6 DEF ReadBodies
  <2>2. [i \in 1..1 |-> q.in[(q.pr + i) % 8].body] = <<q.in[(q.pr + 1) % 8].body>>
    OBVIOUS
  <2> QED  BY <2>1, <2>2 DEF SlotAt
<1> DEFINE in == [x \in Seq8 |-> IF x \in {z} THEN NullSlot ELSE q.in[x]]
           r == [q EXCEPT !.pr = z, !.ipool = @ + 1, !.rcount = 0, !.in = in,
                          !.msg = @ \cup {"RR"}, !.connodata = 0]
<1>8. Consume(q, ic) = r
  <2>1. Range(RunAfter(q.pr, 1)) = {z}
    BY DEF Range, RunAfter, SlotAt
  <2>2. (q.pr + 1) % 8 = z /\ q.rcount - 1 = 0
    BY DEF SlotAt
  <2> QED  BY <1>6, <2>1, <2>2 DEF Consume, Structs
<1>9. in \in [Seq8 -> Slots] /\ in[z] = NullSlot /\ \A x \in Seq8 \ {z} : in[x] = q.in[x]
  BY <1>1, NullSlotIn
<1> HIDE DEF in
<1> HIDE DEF z
<1>10. q.ipool + 1 \in Int /\ {"RR"} \subseteq Messages
  BY <1>1 DEF Messages
<1>11. /\ r \in Structs /\ r.pr = z /\ r.rcount = 0 /\ r.imap = q.imap /\ r.in = in
       /\ r.ipool = q.ipool + 1
       /\ r.state = q.state /\ r.rmsg = q.rmsg /\ r.ps = q.ps
       /\ r.rpr = q.rpr /\ r.nxtps = q.nxtps /\ r.pscopy = q.pscopy /\ r.os = q.os
       /\ r.ob = q.ob /\ r.xcount = q.xcount /\ r.rwindow = q.rwindow
       /\ r.swindow = q.swindow /\ r.rsize = q.rsize /\ r.lpsize = q.lpsize
  BY <1>1, <1>9, <1>10 DEF Structs
<1> HIDE DEF r
<1>12. \A x \in Seq8 : Quiet(r.in[x])
  BY <1>9, <1>11, NullSlotIn DEF z
<1>13. Buffers(r) = Buffers(q)
  <2>1. Cardinality(Busy(r)) = Cardinality(Busy(q)) - 1
    <3>1. q.in[z].st # "null" /\ r.in[z].st = "null" /\ \A y \in Seq8 \ {z} : r.in[y] = q.in[y]
      BY <1>9, <1>11, NullSlotIn DEF z
    <3> QED  BY <1>1, <1>11, <3>1, BusyLess
  <2>2. Cardinality(Busy(q)) \in Nat
    BY BusyFinite
  <2> QED  BY <1>1, <1>11, <2>1, <2>2 DEF Buffers
<1>14. r.ipool >= q.ipool
  BY <1>1, <1>11
<1> QED  BY <1>7, <1>8, <1>11, <1>12, <1>13, <1>14 DEF Consumed, z

-----------------------------------------------------------------------------
(***************************************************************************)
(* One direction: p is the driver of the sender, which has written S       *)
(* packets, q that of the receiver, which has read R of them.  The frames  *)
(* of the sender are on the line l, the acknowledgements of the receiver   *)
(* on the line k.  rd: the receiver is in a turn of the sender.            *)
(***************************************************************************)
WindowOK(p, S, q, R) ==
    /\ S \in Nat /\ R \in Nat /\ p.xcount \in Nat
    /\ S - p.xcount <= R /\ R <= S /\ p.xcount <= S /\ p.xcount <= q.rwindow
    /\ p.ps = (S - p.xcount) % 8 /\ p.pscopy = S % 8 /\ q.pr = R % 8

\* The output buffers hold the packets that are not freed, and what the
\* receiver has read was sent.
BuffersOK(p, S, R) ==
    /\ \A n \in S - p.xcount + 1 .. S : p.os[n % 8] # {} /\ p.ob[n % 8].n = n
    /\ \A x \in Seq8 : p.os[x] # {} => \E n \in S - p.xcount + 1 .. S : x = n % 8
    /\ \A n \in S - p.xcount + 1 .. R : "SENT" \in p.os[n % 8]

\* s, a frame or a slot, has a packet that was sent, and not so long ago that
\* its number could be taken for that of a packet still to be read.
Genuine(p, S, R, s) ==
    LET n == s.body.n
    IN  /\ n \in 1..S /\ s.seq = n % 8 /\ R < n + 7
        /\ n <= S - p.xcount \/ "SENT" \in p.os[n % 8]

IsData(g) == g.type = "DATA"

\* A frame that the receiver has read before acknowledges nothing new, one
\* that it has not read acknowledges all it sent.
DataOK(p, S, q, R, l, rd) ==
    /\ \A i \in DOMAIN l : IsData(l[i]) =>
          /\ Genuine(p, S, R, l[i])
          /\ l[i].body.n <= R => l[i].ack = q.ps
          /\ l[i].body.n > R /\ rd => l[i].ack = q.pscopy
    /\ \A i, j \in DOMAIN l : i < j /\ IsData(l[i]) /\ IsData(l[j]) =>
          l[i].body.n < l[j].body.n + 7

\* The frames that the receiver has stored.  A new one is alone.
SlotsOK(p, S, q, R, l) ==
    \A x \in q.imap :
        /\ Genuine(p, S, R, q.in[x])
        /\ q.in[x].body.n <= R \/ (q.imap = {x} /\ q.xcount = 0)
        /\ \A j \in DOMAIN l : IsData(l[j]) => q.in[x].body.n < l[j].body.n + 7

IsAck(g) == g.type \in {"DATA", "RR", "RJ"}
AckOf(g) == IF IsData(g) THEN g.ack ELSE g.val

\* Acknowledgements free only what was read, and a later one no less.
AcksOK(p, S, R, k) ==
    /\ \A i \in DOMAIN k : IsAck(k[i]) => Frees(p, AckOf(k[i])) <= R - (S - p.xcount)
    /\ \A i, j \in DOMAIN k : i < j /\ IsAck(k[i]) /\ IsAck(k[j]) =>
          Frees(p, AckOf(k[i])) <= Frees(p, AckOf(k[j]))

Direction(p, S, q, R, l, k, rd) ==
    /\ WindowOK(p, S, q, R) /\ BuffersOK(p, S, R) /\ DataOK(p, S, q, R, l, rd)
    /\ SlotsOK(p, S, q, R, l) /\ AcksOK(p, S, R, k)

\* Both directions: p is the driver of the end that acts, lp the line to it.
\* The ends take turns: in one direction only can there be packets that were
\* read and are not freed.
Link(p, q, S, R, T, U, lp, lq, rp, rq) ==
    /\ Direction(p, S, q, R, lq, lp, rq) /\ Direction(q, T, p, U, lp, lq, rp)
    /\ S - p.xcount = R \/ T - q.xcount = U

Lines == Seq(LineFrames)

-----------------------------------------------------------------------------
(* Arithmetic *)

\* Numbers less than 8 apart are the same if they are so modulo 8.
LEMMA SameMod ==
    ASSUME NEW a \in Nat, NEW b \in Nat, a % 8 = b % 8, a < b + 8, b < a + 8
    PROVE  a = b
<1>1. CASE a < b
  BY <1>1, Apart
<1>2. CASE b < a
  BY <1>2, Apart
<1> QED  BY <1>1, <1>2

\* Adding modulo 8.
LEMMA ModSum ==
    ASSUME NEW a \in Nat, NEW i \in Nat
    PROVE  ((a % 8) + i) % 8 = (a + i) % 8
  OBVIOUS

\* The distance from f to a, modulo 8.
LEMMA ModGap ==
    ASSUME NEW a \in 0..7, NEW f \in 0..7
    PROVE  \E c \in 0..7 : (a + 8 - f) % 8 = c /\ (f + c) % 8 = a
<1>1. CASE f <= a
  <2>1. a - f \in 0..7 /\ (a + 8 - f) % 8 = a - f /\ (f + (a - f)) % 8 = a
    BY <1>1
  <2> QED  BY <2>1
<1>2. CASE a < f
  <2>1. a + 8 - f \in 0..7 /\ (a + 8 - f) % 8 = a + 8 - f /\ (f + (a + 8 - f)) % 8 = a
    BY <1>2
  <2> QED  BY <2>1
<1> QED  BY <1>1, <1>2

\* An acknowledgement frees the packets up to the one it names.
LEMMA FreesIs ==
    ASSUME NEW p, NEW F \in Nat, p.ps = F % 8, NEW a \in Seq8
    PROVE  Frees(p, a) \in 0..7 /\ (F + Frees(p, a)) % 8 = a
<1>1. a \in 0..7 /\ F % 8 \in 0..7
  BY DEF Seq8
<1>2. PICK c \in 0..7 : (a + 8 - (F % 8)) % 8 = c /\ ((F % 8) + c) % 8 = a
  BY <1>1, ModGap
<1>3. Frees(p, a) = c
  BY <1>2 DEF Frees
<1>4. (F + c) % 8 = ((F % 8) + c) % 8
  BY ModSum
<1> QED  BY <1>2, <1>3, <1>4

\* The acknowledgement of the d-th packet in the window frees d packets.
LEMMA FreesOf ==
    ASSUME NEW p, NEW F \in Nat, p.ps = F % 8, NEW d \in 0..7
    PROVE  Frees(p, (F + d) % 8) = d
<1> DEFINE a == (F + d) % 8
<1>1. a \in Seq8
  BY DEF Seq8
<1>2. Frees(p, a) \in 0..7 /\ (F + Frees(p, a)) % 8 = (F + d) % 8
  BY <1>1, FreesIs
<1> DEFINE c == Frees(p, a)
<1> HIDE DEF a
<1>3. c \in 0..7 /\ (F + c) % 8 = (F + d) % 8
  BY <1>2
<1> HIDE DEF c
<1>4. F + c = F + d
  <2>1. F + c \in Nat /\ F + d \in Nat /\ F + c < F + d + 8 /\ F + d < F + c + 8
    BY <1>3
  <2> QED  BY <1>3, <2>1, SameMod
<1>5. c = d
  BY <1>3, <1>4
<1> QED  BY <1>5 DEF c, a

\* What is left to free after d packets.
LEMMA FreesRest ==
    ASSUME NEW p, NEW q, NEW F \in Nat, p.ps = F % 8, NEW d \in 0..7, q.ps = (F + d) % 8,
           NEW a \in Seq8, d <= Frees(p, a)
    PROVE  Frees(q, a) = Frees(p, a) - d
<1>1. Frees(p, a) \in 0..7 /\ (F + Frees(p, a)) % 8 = a
  BY FreesIs
<1> DEFINE c == Frees(p, a)
           G == F + d
           e == c - d
<1>2. c \in 0..7 /\ (F + c) % 8 = a /\ d <= c
  BY <1>1
<1> HIDE DEF c
<1>3. G \in Nat /\ e \in 0..7 /\ G + e = F + c
  BY <1>2
<1>4. q.ps = G % 8
  OBVIOUS
<1> HIDE DEF G, e
<1>5. Frees(q, (G + e) % 8) = e
  BY <1>3, <1>4, FreesOf
<1> QED  BY <1>2, <1>3, <1>5 DEF c, e

-----------------------------------------------------------------------------
(* Lines *)

\* A frame leaves the line.
LEMMA TailIs ==
    ASSUME NEW l \in Lines, l # <<>>
    PROVE  /\ Head(l) \in LineFrames /\ Head(l) = l[1] /\ 1 \in DOMAIN l
           /\ Tail(l) \in Lines
           /\ \A i \in DOMAIN Tail(l) : i + 1 \in DOMAIN l /\ Tail(l)[i] = l[i + 1] /\ 1 < i + 1
<1>1. Len(l) \in Nat \ {0} /\ DOMAIN l = 1..Len(l)
  BY DEF Lines
<1>2. Len(Tail(l)) = Len(l) - 1 /\ DOMAIN Tail(l) = 1..(Len(l) - 1)
  BY <1>1 DEF Lines
<1>3. \A i \in 1..(Len(l) - 1) : Tail(l)[i] = l[i + 1]
  BY <1>1 DEF Lines
<1>4. Tail(l) \in Lines /\ Head(l) \in LineFrames /\ Head(l) = l[1]
  BY <1>1 DEF Lines
<1>5. \A i \in 1..(Len(l) - 1) : i + 1 \in 1..Len(l) /\ 1 < i + 1
  BY <1>1
<1>6. 1 \in 1..Len(l)
  BY <1>1
<1> QED  BY <1>1, <1>2, <1>3, <1>4, <1>5, <1>6

\* A frame enters the line.
LEMMA AppendIs ==
    ASSUME NEW l \in Lines, NEW g \in LineFrames
    PROVE  /\ l \o <<g>> \in Lines
           /\ \A i \in DOMAIN (l \o <<g>>) :
                 \/ i \in DOMAIN l /\ (l \o <<g>>)[i] = l[i]
                 \/ (l \o <<g>>)[i] = g /\ \A j \in DOMAIN (l \o <<g>>) : ~ (i < j)
<1>1. Len(l) \in Nat /\ DOMAIN l = 1..Len(l)
  BY DEF Lines
<1>2. l \o <<g>> \in Lines /\ Len(l \o <<g>>) = Len(l) + 1 /\ DOMAIN (l \o <<g>>) = 1..(Len(l) + 1)
  BY <1>1 DEF Lines
<1>3. \A i \in 1..(Len(l) + 1) : (l \o <<g>>)[i] = IF i <= Len(l) THEN l[i] ELSE g
  BY <1>1 DEF Lines
<1>4. \A i \in 1..(Len(l) + 1) : i \in 1..Len(l) \/ (i = Len(l) + 1 /\ ~ (i <= Len(l)))
  BY <1>1
<1>5. \A j \in 1..(Len(l) + 1) : ~ (Len(l) + 1 < j)
  BY <1>1
<1>6. \A i \in 1..Len(l) : i <= Len(l)
  OBVIOUS
<1> QED  BY <1>1, <1>2, <1>3, <1>4, <1>5, <1>6

-----------------------------------------------------------------------------
(***************************************************************************)
(* How steps of one end change the link                                    *)
(***************************************************************************)
\* For the packets on their way p1 is as good as p.
LinkSame(p, p1) ==
    /\ p1.ps = p.ps /\ p1.pr = p.pr /\ p1.pscopy = p.pscopy /\ p1.ob = p.ob
    /\ p1.in = p.in /\ p1.imap = p.imap /\ p1.xcount = p.xcount /\ p1.rwindow = p.rwindow
    /\ \A x \in Seq8 : p.os[x] \subseteq p1.os[x] /\ (p1.os[x] = {} <=> p.os[x] = {})

\* What pkoutput leaves alone is all that the link is about.
LEMMA AlikeSame == ASSUME NEW p, NEW q, Alike(p, q) PROVE LinkSame(p, q)
  BY DEF Alike, LinkSame

\* Sequence numbers.
LEMMA ModIn == \A n \in Nat : n % 8 \in Seq8
  BY DEF Seq8

\* The frames of the sender stay genuine.
LEMMA GenuineSame ==
    ASSUME NEW p, NEW p1, LinkSame(p, p1), NEW S, NEW R, NEW s, Genuine(p, S, R, s), S \in Nat
    PROVE  Genuine(p1, S, R, s)
<1>1. s.body.n % 8 \in Seq8
  BY ModIn DEF Genuine
<1> QED  BY <1>1 DEF Genuine, LinkSame

\* The sender changes nothing the link is about.
LEMMA SenderSame ==
    ASSUME NEW p, NEW p1, LinkSame(p, p1), NEW S, NEW q, NEW R, NEW l, NEW k, NEW rd,
           Direction(p, S, q, R, l, k, rd)
    PROVE  Direction(p1, S, q, R, l, k, rd)
<1>1. S \in Nat /\ R \in Nat /\ p.xcount \in Nat /\ p1.xcount = p.xcount /\ p1.ps = p.ps
      /\ S - p.xcount \in Nat
  BY DEF Direction, WindowOK, LinkSame
<1>2. WindowOK(p1, S, q, R)
  BY DEF Direction, WindowOK, LinkSame
<1>3. BuffersOK(p1, S, R)
  <2>1. \A n : (n \in S - p.xcount + 1 .. S \/ n \in S - p.xcount + 1 .. R) => n % 8 \in Seq8
    BY <1>1, ModIn
  <2>2. /\ p1.ob = p.ob
        /\ \A x \in Seq8 : p.os[x] \subseteq p1.os[x] /\ (p1.os[x] = {} <=> p.os[x] = {})
    BY DEF LinkSame
  <2>3. BuffersOK(p, S, R)
    BY DEF Direction
  <2> QED  BY <1>1, <2>1, <2>2, <2>3 DEF BuffersOK
<1>4. DataOK(p1, S, q, R, l, rd)
  BY <1>1, GenuineSame DEF Direction, DataOK
<1>5. SlotsOK(p1, S, q, R, l)
  BY <1>1, GenuineSame DEF Direction, SlotsOK
<1>6. AcksOK(p1, S, R, k)
  BY <1>1 DEF Direction, AcksOK, Frees
<1> QED  BY <1>2, <1>3, <1>4, <1>5, <1>6 DEF Direction

\* The receiver changes nothing the link is about.
LEMMA ReceiverSame ==
    ASSUME NEW p, NEW S, NEW q, NEW q1, LinkSame(q, q1), NEW R, NEW l, NEW k, NEW rd,
           Direction(p, S, q, R, l, k, rd)
    PROVE  Direction(p, S, q1, R, l, k, rd)
  BY DEF Direction, WindowOK, DataOK, SlotsOK, LinkSame

\* One end changes nothing the link is about.
LEMMA LinkAlike ==
    ASSUME NEW p, NEW p1, LinkSame(p, p1), NEW q, NEW S, NEW R, NEW T, NEW U,
           NEW lp, NEW lq, NEW rp, NEW rq, Link(p, q, S, R, T, U, lp, lq, rp, rq)
    PROVE  Link(p1, q, S, R, T, U, lp, lq, rp, rq)
<1>1. p1.xcount = p.xcount
  BY DEF LinkSame
<1> QED  BY <1>1, SenderSame, ReceiverSame DEF Link

\* The end that acts loses the first frame on its line, or all.
Shorter(l, l1) == l1 = <<>> \/ (l # <<>> /\ l1 = Tail(l)) \/ l1 = l

\* A line that has lost frames holds what is left in the same order.
LEMMA ShorterIs ==
    ASSUME NEW l \in Lines, NEW l1, Shorter(l, l1)
    PROVE  /\ l1 \in Lines
           /\ \E c \in Nat : \A i \in DOMAIN l1 : i + c \in DOMAIN l /\ l1[i] = l[i + c]
           /\ DOMAIN l1 \subseteq Nat
<1>1. CASE l1 = <<>>
  <2>1. <<>> \in Lines /\ DOMAIN l1 = {}
    BY <1>1 DEF Lines
  <2> QED  BY <1>1, <2>1
<1>2. CASE l # <<>> /\ l1 = Tail(l)
  <2>1. DOMAIN l1 \subseteq Nat
    BY <1>2, TailIs DEF Lines
  <2> QED  BY <1>2, <2>1, TailIs
<1>3. CASE l1 = l
  <2>1. DOMAIN l \subseteq Nat /\ \A i \in DOMAIN l : i + 0 = i
    BY DEF Lines
  <2> QED  BY <1>3, <2>1
<1> QED  BY <1>1, <1>2, <1>3 DEF Shorter

\* A line loses frames.
LEMMA LinkShorter ==
    ASSUME NEW p, NEW q, NEW S, NEW R, NEW T, NEW U,
           NEW lp \in Lines, NEW lq, NEW rp, NEW rq, Link(p, q, S, R, T, U, lp, lq, rp, rq),
           NEW l1, Shorter(lp, l1)
    PROVE  Link(p, q, S, R, T, U, l1, lq, rp, rq)
<1>1. DOMAIN l1 \subseteq Nat
  BY ShorterIs
<1>2. PICK c \in Nat : \A i \in DOMAIN l1 : i + c \in DOMAIN lp /\ l1[i] = lp[i + c]
  BY ShorterIs
<1>3. \A i, j \in DOMAIN l1 : i < j => i + c < j + c
  BY <1>1
<1>4. AcksOK(p, S, R, lp) /\ DataOK(q, T, p, U, lp, rp) /\ SlotsOK(q, T, p, U, lp)
  BY DEF Link, Direction
<1>5. AcksOK(p, S, R, l1)
  BY <1>2, <1>3, <1>4 DEF AcksOK
<1>6. DataOK(q, T, p, U, l1, rp)
  BY <1>2, <1>3, <1>4 DEF DataOK
<1>7. SlotsOK(q, T, p, U, l1)
  BY <1>2, <1>4 DEF SlotsOK
<1> QED  BY <1>5, <1>6, <1>7 DEF Link, Direction

\* A data frame that is read, as to what p can do with it then.
Storable(p, q, T, U, lp, g) ==
    /\ Genuine(q, T, U, g)
    /\ \A j \in DOMAIN lp : IsData(lp[j]) => g.body.n < lp[j].body.n + 7

\* p reads an acknowledgement and frees what it names.
LEMMA LinkSack ==
    ASSUME NEW p \in Structs, NEW p1 \in Structs, NEW q \in Structs,
           NEW S, NEW R, NEW T, NEW U,
           NEW lp \in Lines, NEW lq, NEW rp, NEW rq, Link(p, q, S, R, T, U, lp, lq, rp, rq),
           lp # <<>>, IsAck(Head(lp)), Released(p, Frees(p, AckOf(Head(lp))), p1)
    PROVE  /\ Link(p1, q, S, R, T, U, Tail(lp), lq, rp, rq)
           /\ IsData(Head(lp)) => Storable(p1, q, T, U, Tail(lp), Head(lp))
           /\ IsData(Head(lp)) /\ Head(lp).body.n <= U => p1.xcount = p.xcount
           /\ IsData(Head(lp)) /\ Head(lp).body.n > U /\ rp => p1.xcount = 0
<1> DEFINE g == Head(lp)
           a == AckOf(g)
           d == Frees(p, a)
           F == S - p.xcount
<1>1. /\ g \in LineFrames /\ g = lp[1] /\ 1 \in DOMAIN lp /\ Tail(lp) \in Lines
      /\ \A i \in DOMAIN Tail(lp) : i + 1 \in DOMAIN lp /\ Tail(lp)[i] = lp[i + 1] /\ 1 < i + 1
  BY TailIs
<1>2. \A h \in LineFrames : IsAck(h) => AckOf(h) \in Seq8
  BY DEF LineFrames, IsAck, AckOf, IsData, Messages
<1>3. WindowOK(p, S, q, R) /\ BuffersOK(p, S, R) /\ AcksOK(p, S, R, lp)
      /\ WindowOK(q, T, p, U) /\ DataOK(q, T, p, U, lp, rp) /\ SlotsOK(q, T, p, U, lp)
      /\ DataOK(p, S, q, R, lq, rq) /\ SlotsOK(p, S, q, R, lq)
  BY DEF Link, Direction
<1>4. F \in Nat /\ p.ps = F % 8 /\ S \in Nat /\ R \in Nat /\ F <= R /\ R <= S /\ p.xcount \in Nat
      /\ p.xcount = S - F /\ F = S - p.xcount
  BY <1>3, SMTT(30) DEF WindowOK
<1>5. a \in Seq8
  BY <1>1, <1>2
<1>6. d \in 0..7 /\ (F + d) % 8 = a /\ d <= R - F
  <2>1. d <= R - F
    BY <1>1, <1>3 DEF AcksOK
  <2> QED  BY <1>4, <1>5, <2>1, FreesIs
<1>7. \A i \in DOMAIN Tail(lp) : IsAck(Tail(lp)[i]) => d <= Frees(p, AckOf(Tail(lp)[i]))
  BY <1>1, <1>3 DEF AcksOK
<1>8. /\ p1.ps = (p.ps + d) % 8 /\ p1.xcount = p.xcount - d
      /\ \A x \in Seq8 : IF \E i \in 1..d : x = (p.ps + i) % 8
                         THEN p1.os[x] = {}
                         ELSE p1.os[x] = p.os[x] /\ p1.ob[x] = p.ob[x]
      /\ p1.pr = p.pr /\ p1.pscopy = p.pscopy /\ p1.in = p.in /\ p1.imap = p.imap
      /\ p1.rwindow = p.rwindow
  BY DEF Released
<1>8a. /\ F \in Nat /\ S \in Nat /\ R \in Nat /\ d \in 0..7 /\ d <= R - F /\ R <= S
       /\ p.xcount \in Nat /\ p.xcount = S - F /\ p1.xcount = p.xcount - d
  BY <1>4, <1>6, <1>8
<1>9. p1.ps = (F + d) % 8
  <2>1. p1.ps = ((F % 8) + d) % 8
    BY <1>4, <1>8
  <2>2. F \in Nat /\ d \in Nat
    BY <1>8a
  <2> HIDE DEF F, d
  <2> QED  BY <2>1, <2>2, ModSum
<1>10. \A i \in 1..d : (p.ps + i) % 8 = (F + i) % 8
  <2> TAKE i \in 1..d
  <2>1. F \in Nat /\ i \in Nat
    BY <1>8a
  <2>2. ((F % 8) + i) % 8 = (F + i) % 8
    BY <2>1, ModSum
  <2> QED  BY <1>4, <2>2
<1>11. \A i \in DOMAIN Tail(lp) : IsData(Tail(lp)[i]) => IsAck(Tail(lp)[i]) /\ AckOf(Tail(lp)[i]) = Tail(lp)[i].ack
  BY DEF IsData, IsAck, AckOf
<1>12. IsData(g) => a = g.ack
  BY DEF AckOf
<1> HIDE DEF g, a
<1>13. \A i \in DOMAIN Tail(lp) : Tail(lp)[i] \in LineFrames
  BY <1>1 DEF Lines
<1>14. \A i \in DOMAIN Tail(lp) : IsAck(Tail(lp)[i]) => AckOf(Tail(lp)[i]) \in Seq8
  BY <1>2, <1>13
<1> HIDE DEF d, F
<1>16. p1.xcount = p.xcount - d
  BY <1>8
<1> DEFINE c0 == p.xcount
           c1 == p1.xcount
<1>17. c1 = c0 - d /\ c0 = S - F /\ c0 \in Nat
  BY <1>4, <1>16
<1> HIDE DEF c0, c1
<1>18. S - c1 = F + d /\ c1 \in Nat /\ F + d <= R /\ c1 <= S /\ c1 <= c0 /\ F + d <= S
  BY <1>4, <1>6, <1>17
<1>15. S - p1.xcount = F + d
  BY <1>18 DEF c1
\* The sender's side.
<1>20. WindowOK(p1, S, q, R)
  <2>1. p1.xcount \in Nat /\ F + d <= R /\ p1.xcount <= S /\ p1.xcount <= p.xcount
    BY <1>18 DEF c0, c1
  <2>2. p1.xcount <= q.rwindow
    <3>1. p.xcount <= q.rwindow
      BY <1>3 DEF WindowOK
    <3>2. q.rwindow \in 1..7
      BY DEF Structs
    <3> QED  BY <1>4, <2>1, <3>1, <3>2
  <2> QED  BY <1>3, <1>8, <1>9, <1>15, <2>1, <2>2 DEF WindowOK
<1>21. ASSUME NEW n \in Nat, n > F, n <= S
       PROVE  IF n <= F + d THEN p1.os[n % 8] = {}
                            ELSE p1.os[n % 8] = p.os[n % 8] /\ p1.ob[n % 8] = p.ob[n % 8]
  <2>1. n % 8 \in Seq8
    BY ModIn
  <2>2. CASE n <= F + d
    <3>1. n - F \in 1..d /\ F + (n - F) = n
      BY <1>4, <1>6, <1>21, <2>2
    <3>2. n % 8 = (p.ps + (n - F)) % 8
      BY <1>10, <3>1
    <3> QED  BY <1>8, <2>1, <2>2, <3>1, <3>2
  <2>3. CASE ~ (n <= F + d)
    <3>1. \A i \in 1..d : n % 8 # (p.ps + i) % 8
      <4> TAKE i \in 1..d
      <4>1. F + i \in Nat /\ F + i < n /\ n < F + i + 8
        <5>1. S <= F + 7
          <6>1. p.xcount <= q.rwindow /\ q.rwindow \in 1..7
            BY <1>3 DEF WindowOK, Structs
          <6> QED  BY <1>4, <6>1
        <5> QED  BY <1>4, <1>6, <1>21, <2>3, <5>1
      <4> QED  BY <1>10, <4>1, Apart
    <3> QED  BY <1>8, <2>1, <2>3, <3>1
  <2> QED  BY <2>2, <2>3
<1>22. BuffersOK(p1, S, R)
  <2>0. /\ \A n \in F + 1 .. S : p.os[n % 8] # {} /\ p.ob[n % 8].n = n
        /\ \A x \in Seq8 : p.os[x] # {} => \E n \in F + 1 .. S : x = n % 8
        /\ \A n \in F + 1 .. R : "SENT" \in p.os[n % 8]
    BY <1>3 DEF BuffersOK, F
  <2>1. \A n \in F + d + 1 .. S : n \in F + 1 .. S /\ n \in Nat /\ n > F /\ n <= S /\ ~ (n <= F + d)
    BY <1>4, <1>6
  <2>2. \A n \in F + d + 1 .. S : p1.os[n % 8] # {} /\ p1.ob[n % 8].n = n
    BY <1>21, <2>0, <2>1
  <2>3. \A n \in F + d + 1 .. R : "SENT" \in p1.os[n % 8]
    <3>1. \A n \in F + d + 1 .. R : n \in F + d + 1 .. S /\ n \in F + 1 .. R
      BY <1>4, <1>6
    <3> QED  BY <1>21, <2>0, <2>1, <3>1
  <2>4. ASSUME NEW x \in Seq8, p1.os[x] # {} PROVE \E n \in F + d + 1 .. S : x = n % 8
    <3>1. p.os[x] # {}
      BY <1>8, <2>4
    <3>2. PICK n \in F + 1 .. S : x = n % 8
      BY <2>0, <3>1
    <3>3. n \in Nat /\ n > F /\ n <= S
      BY <1>4, <3>2
    <3>4. ~ (n <= F + d)
      BY <1>21, <2>4, <3>2, <3>3
    <3>5. n \in F + d + 1 .. S
      BY <1>4, <1>6, <3>3, <3>4
    <3> QED  BY <3>2, <3>5
  <2> QED  BY <1>15, <2>2, <2>3, <2>4 DEF BuffersOK
<1>23. ASSUME NEW s, Genuine(p, S, R, s) PROVE Genuine(p1, S, R, s)
  <2> DEFINE n == s.body.n
  <2>1. n \in 1..S /\ s.seq = n % 8 /\ R < n + 7 /\ (n <= F \/ "SENT" \in p.os[n % 8])
    BY <1>23 DEF Genuine, F
  <2> HIDE DEF n
  <2>2. n <= F + d \/ "SENT" \in p1.os[n % 8]
    <3>1. CASE n <= F
      BY <1>4, <1>6, <2>1, <3>1
    <3>2. CASE n > F /\ ~ (n <= F + d)
      BY <1>4, <1>21, <2>1, <3>2
    <3> QED  BY <1>4, <1>6, <2>1, <3>1, <3>2
  <2> QED  BY <1>15, <2>1, <2>2 DEF Genuine, n
<1>24. DataOK(p1, S, q, R, lq, rq) /\ SlotsOK(p1, S, q, R, lq)
  BY <1>3, <1>23 DEF DataOK, SlotsOK
<1>25. \A i \in DOMAIN Tail(lp) : IsAck(Tail(lp)[i]) =>
          /\ Frees(p1, AckOf(Tail(lp)[i])) = Frees(p, AckOf(Tail(lp)[i])) - d
          /\ Frees(p, AckOf(Tail(lp)[i])) \in 0..7
  <2> TAKE i \in DOMAIN Tail(lp)
  <2>1. HAVE IsAck(Tail(lp)[i])
  <2> DEFINE b == AckOf(Tail(lp)[i])
  <2>2. b \in Seq8 /\ d <= Frees(p, b)
    BY <1>7, <1>14, <2>1
  <2> HIDE DEF b
  <2>3. Frees(p, b) \in 0..7
    BY <1>4, <2>2, FreesIs
  <2>4. Frees(p1, b) = Frees(p, b) - d
    BY <1>4, <1>6, <1>9, <2>2, FreesRest
  <2> QED  BY <2>3, <2>4 DEF b
<1>26. AcksOK(p1, S, R, Tail(lp))
  <2>1. DOMAIN Tail(lp) \subseteq Nat
    BY <1>1 DEF Lines
  <2>2. \A i \in DOMAIN Tail(lp) : IsAck(Tail(lp)[i]) => Frees(p1, AckOf(Tail(lp)[i])) <= R - (F + d)
    <3> TAKE i \in DOMAIN Tail(lp)
    <3>1. HAVE IsAck(Tail(lp)[i])
    <3> DEFINE x == Frees(p, AckOf(Tail(lp)[i]))
               x1 == Frees(p1, AckOf(Tail(lp)[i]))
    <3>2. x <= R - F
      BY <1>1, <1>3, <3>1 DEF AcksOK, F
    <3>3. x \in 0..7 /\ x1 = x - d
      BY <1>25, <3>1
    <3> HIDE DEF x, x1
    <3>4. x1 <= R - (F + d)
      BY <1>8a, <3>2, <3>3
    <3> QED  BY <3>4 DEF x1
  <2>3. \A i, j \in DOMAIN Tail(lp) : i < j /\ IsAck(Tail(lp)[i]) /\ IsAck(Tail(lp)[j]) =>
          Frees(p1, AckOf(Tail(lp)[i])) <= Frees(p1, AckOf(Tail(lp)[j]))
    <3> TAKE i, j \in DOMAIN Tail(lp)
    <3>1. HAVE i < j /\ IsAck(Tail(lp)[i]) /\ IsAck(Tail(lp)[j])
    <3>2. i + 1 < j + 1
      BY <2>1, <3>1
    <3> DEFINE x == Frees(p, AckOf(Tail(lp)[i]))
               x1 == Frees(p1, AckOf(Tail(lp)[i]))
               y == Frees(p, AckOf(Tail(lp)[j]))
               y1 == Frees(p1, AckOf(Tail(lp)[j]))
    <3>3. x <= y
      BY <1>1, <1>3, <3>1, <3>2 DEF AcksOK
    <3>4. x \in 0..7 /\ x1 = x - d /\ y \in 0..7 /\ y1 = y - d
      BY <1>25, <3>1
    <3> HIDE DEF x, x1, y, y1
    <3>5. x1 <= y1
      BY <1>8a, <3>3, <3>4
    <3> QED  BY <3>5 DEF x1, y1
  <2> QED  BY <1>15, <2>2, <2>3 DEF AcksOK
\* The receiver's side: what p frees, no other frame on its line has acknowledged.
<1>30. \A i \in DOMAIN Tail(lp) : IsData(Tail(lp)[i]) /\ Tail(lp)[i].body.n <= U => Tail(lp)[i].ack = p1.ps
  <2> TAKE i \in DOMAIN Tail(lp)
  <2>1. HAVE IsData(Tail(lp)[i]) /\ Tail(lp)[i].body.n <= U
  <2>2. Tail(lp)[i].ack = p.ps
    BY <1>1, <1>3, <2>1 DEF DataOK
  <2>3. d <= Frees(p, p.ps)
    BY <1>7, <1>11, <2>1, <2>2
  <2>4. (F + 0) % 8 = p.ps /\ 0 \in 0..7
    BY <1>4
  <2>5. Frees(p, p.ps) = 0
    BY <1>4, <2>4, FreesOf
  <2>6. d = 0
    BY <1>6, <2>3, <2>5
  <2> QED  BY <1>9, <2>2, <2>4, <2>6
<1>31. DataOK(q, T, p1, U, Tail(lp), rp)
  <2>1. DOMAIN Tail(lp) \subseteq Nat
    BY <1>1 DEF Lines
  <2>2. \A i, j \in DOMAIN Tail(lp) : i < j => i + 1 < j + 1
    BY <2>1
  <2> QED  BY <1>1, <1>3, <1>8, <1>30, <2>2 DEF DataOK
<1>32. SlotsOK(q, T, p1, U, Tail(lp))
  <2>1. p.xcount = 0 => p1.xcount = 0
    BY <1>8a
  <2> QED  BY <1>1, <1>3, <1>8, <2>1 DEF SlotsOK
<1>33. WindowOK(q, T, p1, U)
  BY <1>3, <1>8 DEF WindowOK
<1>34. S - p1.xcount = R \/ T - q.xcount = U
  <2>1. F = R => d = 0
    BY <1>4, <1>6
  <2>2. d = 0 /\ F = R => F + d = R
    BY <1>4
  <2>3. F = R \/ T - q.xcount = U
    BY <1>4 DEF Link
  <2> QED  BY <1>15, <2>1, <2>2, <2>3
<1>35. Link(p1, q, S, R, T, U, Tail(lp), lq, rp, rq)
  BY <1>20, <1>22, <1>24, <1>26, <1>31, <1>32, <1>33, <1>34 DEF Link, Direction
<1>36. ASSUME IsData(g)
       PROVE  /\ Storable(p1, q, T, U, Tail(lp), g)
              /\ g.body.n <= U => p1.xcount = p.xcount
              /\ g.body.n > U /\ rp => p1.xcount = 0
  <2>1. Storable(p1, q, T, U, Tail(lp), g)
    BY <1>1, <1>3, <1>36 DEF DataOK, Storable
  <2>2. g.body.n <= U => d = 0
    <3>1. HAVE g.body.n <= U
    <3>2. a = p.ps
      BY <1>1, <1>3, <1>12, <1>36, <3>1 DEF DataOK
    <3>3. (F + 0) % 8 = p.ps /\ 0 \in 0..7
      BY <1>4
    <3> QED  BY <1>4, <3>2, <3>3, FreesOf DEF d
  <2>3. g.body.n > U /\ rp => d = p.xcount
    <3>1. HAVE g.body.n > U /\ rp
    <3>2. a = p.pscopy
      BY <1>1, <1>3, <1>12, <1>36, <3>1 DEF DataOK
    <3>3. c0 \in 0..7
      <4>1. c0 <= q.rwindow
        BY <1>3 DEF WindowOK, c0
      <4>2. q.rwindow \in 1..7
        BY DEF Structs
      <4> QED  BY <1>17, <4>1, <4>2
    <3>4. F + c0 = S /\ p.pscopy = S % 8
      <4>1. p.pscopy = S % 8
        BY <1>3 DEF WindowOK
      <4> QED  BY <1>4, <1>17, <4>1
    <3>5. Frees(p, (F + c0) % 8) = c0
      BY <1>4, <3>3, FreesOf
    <3>6. a = (F + c0) % 8
      BY <3>2, <3>4
    <3> QED  BY <3>5, <3>6 DEF d, c0
  <2>4. (d = 0 => p1.xcount = p.xcount) /\ (d = p.xcount => p1.xcount = 0)
    BY <1>8a
  <2> QED  BY <2>1, <2>2, <2>3, <2>4
<1> QED  BY <1>35, <1>36 DEF g

\* p writes a frame to the other end.  Packets that end has not read and
\* waits for say that p has read all there is.
LEMMA LinkAppend ==
    ASSUME NEW p \in Structs, NEW q \in Structs,
           NEW S, NEW R, NEW T, NEW U,
           NEW lp \in Lines, NEW lq \in Lines, NEW rp, NEW rq,
           Link(p, q, S, R, T, U, lp, lq, rp, rq), S > R /\ rq => U = T,
           NEW g \in LineFrames,
           IsAck(g) => AckOf(g) = p.pr,
           IsData(g) => p.os[g.seq] # {} /\ "SENT" \in p.os[g.seq] /\ g.body = p.ob[g.seq]
    PROVE  Link(p, q, S, R, T, U, lp, lq \o <<g>>, rp, rq)
<1> DEFINE m == lq \o <<g>>
           F == S - p.xcount
<1>1. /\ DOMAIN lq \subseteq Nat
      /\ \A i \in DOMAIN m : \/ i \in DOMAIN lq /\ m[i] = lq[i]
                             \/ m[i] = g /\ \A j \in DOMAIN m : ~ (i < j)
  BY AppendIs DEF Lines
<1> HIDE DEF m
<1>3. WindowOK(p, S, q, R) /\ BuffersOK(p, S, R) /\ AcksOK(q, T, U, lq)
      /\ WindowOK(q, T, p, U) /\ DataOK(p, S, q, R, lq, rq) /\ SlotsOK(p, S, q, R, lq)
  BY DEF Link, Direction
<1>4. F \in Nat /\ S \in Nat /\ R \in Nat /\ F <= R /\ R <= S /\ S <= F + 7
      /\ T \in Nat /\ U \in Nat /\ q.xcount \in Nat /\ p.pr = U % 8 /\ q.ps = (T - q.xcount) % 8
      /\ q.pscopy = T % 8 /\ T - q.xcount \in Nat /\ T - q.xcount <= U /\ U <= T
      /\ T <= (T - q.xcount) + 7
  <2>1. S \in Nat /\ R \in Nat /\ F \in Nat /\ F <= R /\ R <= S /\ p.xcount \in Nat
        /\ p.xcount <= q.rwindow
    BY <1>3 DEF WindowOK
  <2>2. T \in Nat /\ U \in Nat /\ q.xcount \in Nat /\ p.pr = U % 8 /\ q.ps = (T - q.xcount) % 8
        /\ q.pscopy = T % 8 /\ T - q.xcount \in Nat /\ T - q.xcount <= U /\ U <= T
        /\ q.xcount <= p.rwindow
    BY <1>3 DEF WindowOK
  <2>3. q.rwindow \in 1..7 /\ p.rwindow \in 1..7
    BY DEF Structs
  <2>4. S <= F + 7
    <3>1. p.xcount <= 7
      BY <2>1, <2>3
    <3> QED  BY <2>1, <3>1
  <2>5. T <= (T - q.xcount) + 7
    <3>1. q.xcount <= 7
      BY <2>2, <2>3
    <3> QED  BY <2>2, <3>1
  <2> QED  BY <2>1, <2>2, <2>4, <2>5
<1> HIDE DEF F
\* What it carries.
<1>5. ASSUME IsData(g)
      PROVE  /\ Genuine(p, S, R, g) /\ F < g.body.n
             /\ g.body.n <= R => g.ack = q.ps
             /\ g.body.n > R /\ rq => g.ack = q.pscopy
  <2>1. g.seq \in Seq8
    BY <1>5 DEF LineFrames, IsData, Messages
  <2>2. PICK n \in F + 1 .. S : g.seq = n % 8
    BY <1>3, <1>5, <2>1 DEF BuffersOK, F
  <2>3. g.body.n = n
    BY <1>3, <1>5, <2>2 DEF BuffersOK, F
  <2>4. n \in 1..S /\ R < n + 7 /\ F < n /\ n \in Nat
    BY <1>4, <2>2
  <2>5. Genuine(p, S, R, g)
    BY <1>5, <2>2, <2>3, <2>4 DEF Genuine
  <2>6. g.ack = p.pr
    BY <1>5 DEF IsAck, AckOf, IsData
  <2>7. n <= R => T - q.xcount = U
    <3>1. HAVE n <= R
    <3>2. F # R
      BY <1>4, <2>4, <3>1
    <3> QED  BY <3>2 DEF Link, F
  <2>8. n > R /\ rq => U = T
    <3>1. HAVE n > R /\ rq
    <3>2. S > R
      BY <1>4, <2>4, <3>1
    <3> QED  BY <3>1, <3>2
  <2> QED  BY <1>4, <2>3, <2>4, <2>5, <2>6, <2>7, <2>8
<1>6. DataOK(p, S, q, R, m, rq)
  <2>1. ASSUME NEW i \in DOMAIN m, IsData(m[i])
        PROVE  /\ Genuine(p, S, R, m[i])
               /\ m[i].body.n <= R => m[i].ack = q.ps
               /\ m[i].body.n > R /\ rq => m[i].ack = q.pscopy
    BY <1>1, <1>3, <1>5, <2>1 DEF DataOK
  <2>2. ASSUME NEW i \in DOMAIN m, NEW j \in DOMAIN m, i < j, IsData(m[i]), IsData(m[j])
        PROVE  m[i].body.n < m[j].body.n + 7
    <3>1. i \in DOMAIN lq /\ m[i] = lq[i]
      BY <1>1, <2>2
    <3>2. CASE j \in DOMAIN lq /\ m[j] = lq[j]
      BY <1>3, <2>2, <3>1, <3>2 DEF DataOK
    <3>3. CASE m[j] = g
      <4>1. m[i].body.n \in 1..S
        BY <2>1, <2>2 DEF Genuine
      <4>2. F < g.body.n /\ g.body.n \in 1..S
        BY <1>5, <2>2, <3>3 DEF Genuine
      <4> QED  BY <1>4, <3>3, <4>1, <4>2
    <3> QED  BY <1>1, <3>2, <3>3
  <2> QED  BY <2>1, <2>2 DEF DataOK
<1>7. SlotsOK(p, S, q, R, m)
  <2>1. ASSUME NEW x \in q.imap, NEW j \in DOMAIN m, IsData(m[j])
        PROVE  q.in[x].body.n < m[j].body.n + 7
    <3>1. CASE j \in DOMAIN lq /\ m[j] = lq[j]
      BY <1>3, <2>1, <3>1 DEF SlotsOK
    <3>2. CASE m[j] = g
      <4>1. q.in[x].body.n \in 1..S
        BY <1>3 DEF SlotsOK, Genuine
      <4>2. F < g.body.n /\ g.body.n \in 1..S
        BY <1>5, <2>1, <3>2 DEF Genuine
      <4> QED  BY <1>4, <3>2, <4>1, <4>2
    <3> QED  BY <1>1, <3>1, <3>2
  <2> QED  BY <1>3, <2>1 DEF SlotsOK
\* What it acknowledges.
<1>8. IsAck(g) => Frees(q, AckOf(g)) = U - (T - q.xcount)
  <2>1. HAVE IsAck(g)
  <2> DEFINE G == T - q.xcount
             d == U - G
  <2>2. G \in Nat /\ q.ps = G % 8 /\ U \in Nat /\ G <= U /\ U <= T /\ T <= G + 7 /\ T \in Nat
    BY <1>4
  <2> HIDE DEF G
  <2>3. d \in 0..7 /\ G + d = U
    BY <2>2
  <2> HIDE DEF d
  <2>4. Frees(q, (G + d) % 8) = d
    BY <2>2, <2>3, FreesOf
  <2>5. AckOf(g) = (G + d) % 8
    BY <1>4, <2>1, <2>3
  <2> QED  BY <2>4, <2>5 DEF d, G
<1>9. AcksOK(q, T, U, m)
  <2>1. ASSUME NEW i \in DOMAIN m, IsAck(m[i])
        PROVE  Frees(q, AckOf(m[i])) <= U - (T - q.xcount)
    <3>1. CASE i \in DOMAIN lq /\ m[i] = lq[i]
      BY <1>3, <2>1, <3>1 DEF AcksOK
    <3>2. CASE m[i] = g
      BY <1>4, <1>8, <2>1, <3>2
    <3> QED  BY <1>1, <3>1, <3>2
  <2>2. ASSUME NEW i \in DOMAIN m, NEW j \in DOMAIN m, i < j, IsAck(m[i]), IsAck(m[j])
        PROVE  Frees(q, AckOf(m[i])) <= Frees(q, AckOf(m[j]))
    <3>1. i \in DOMAIN lq /\ m[i] = lq[i]
      BY <1>1, <2>2
    <3>2. CASE j \in DOMAIN lq /\ m[j] = lq[j]
      BY <1>3, <2>2, <3>1, <3>2 DEF AcksOK
    <3>3. CASE m[j] = g
      BY <1>8, <2>1, <2>2, <3>3
    <3> QED  BY <1>1, <3>2, <3>3
  <2> QED  BY <2>1, <2>2 DEF AcksOK
<1> QED  BY <1>6, <1>7, <1>9 DEF Link, Direction, m

\* pkoutput, with the line behind it there or not.
LEMMA LinkOutput ==
    ASSUME NEW p \in Structs, NEW q \in Structs,
           NEW S, NEW R, NEW T, NEW U,
           NEW lp \in Lines, NEW lq \in Lines, NEW rp, NEW rq,
           Link(p, q, S, R, T, U, lp, lq, rp, rq), S > R /\ rq => U = T
    PROVE  /\ Link(pkoutput(p), q, S, R, T, U, lp, lq, rp, rq)
           /\ Link(pkoutput(p), q, S, R, T, U, lp, lq \o Transmitted(p), rp, rq)
           /\ lq \o Transmitted(p) \in Lines
<1>1. pkoutput(p) \in Structs /\ Alike(p, pkoutput(p))
  BY OutputIs
<1>2. Link(pkoutput(p), q, S, R, T, U, lp, lq, rp, rq)
  BY <1>1, AlikeSame, LinkAlike
<1>3. CASE Transmitted(p) = <<>>
  <2>1. lq \o Transmitted(p) = lq
    BY <1>3 DEF Lines
  <2> QED  BY <1>2, <2>1
<1>4. CASE \E g \in LineFrames : Transmitted(p) = <<g>> /\ Sendable(p, g)
  <2>1. PICK g \in LineFrames : Transmitted(p) = <<g>> /\ Sendable(p, g)
    BY <1>4
  <2>2. pkoutput(p).pr = p.pr /\ pkoutput(p).ob = p.ob
    BY <1>1 DEF Alike
  <2>3. IsAck(g) => AckOf(g) = p.pr
    BY <2>1 DEF Sendable, IsAck, AckOf, IsData, ControlValue, Messages
  <2>4. IsData(g) => "SENT" \in pkoutput(p).os[g.seq] /\ g.body = p.ob[g.seq]
    BY <2>1 DEF Sendable, IsData, Messages
  <2>5. lq \o <<g>> \in Lines
    BY AppendIs
  <2>6. Link(pkoutput(p), q, S, R, T, U, lp, lq \o <<g>>, rp, rq)
    BY <1>1, <1>2, <2>2, <2>3, <2>4, LinkAppend
  <2> QED  BY <1>2, <2>1, <2>5, <2>6
<1> QED  BY <1>3, <1>4, TransmittedIs

\* p stores a data frame it has read.
LEMMA LinkStore ==
    ASSUME NEW p \in Structs, NEW p1 \in Structs, NEW q \in Structs,
           NEW S, NEW R, NEW T, NEW U,
           NEW lp \in Lines, NEW lq \in Lines, NEW rp, NEW rq,
           Link(p, q, S, R, T, U, lp, lq, rp, rq),
           NEW g, Storable(p, q, T, U, lp, g), NEW x \in Seq8,
           g.body.n <= U \/ (p.imap = {} /\ p.xcount = 0),
           \A y \in p.imap : p.in[y].body.n <= U,
           p1.in[x].seq = g.seq /\ p1.in[x].body = g.body,
           \A y \in Seq8 \ {x} : p1.in[y] = p.in[y],
           p1.imap = p.imap \cup {x},
           p1.ps = p.ps, p1.pr = p.pr, p1.pscopy = p.pscopy, p1.ob = p.ob, p1.os = p.os,
           p1.xcount = p.xcount, p1.rwindow = p.rwindow
    PROVE  Link(p1, q, S, R, T, U, lp, lq, rp, rq)
<1>1. p.imap \subseteq Seq8
  BY DEF Structs
<1>2. Genuine(q, T, U, p1.in[x])
  BY DEF Storable, Genuine
<1>3. SlotsOK(q, T, p1, U, lp)
  <2>1. SlotsOK(q, T, p, U, lp)
    BY DEF Link, Direction
  <2>2. ASSUME NEW y \in p1.imap
        PROVE  /\ Genuine(q, T, U, p1.in[y])
               /\ p1.in[y].body.n <= U \/ (p1.imap = {y} /\ p1.xcount = 0)
               /\ \A j \in DOMAIN lp : IsData(lp[j]) => p1.in[y].body.n < lp[j].body.n + 7
    <3>1. CASE y = x
      <4>1. p1.in[y].body.n <= U \/ (p1.imap = {y} /\ p1.xcount = 0)
        BY <3>1
      <4> QED  BY <1>2, <3>1, <4>1 DEF Storable
    <3>2. CASE y # x
      <4>1. y \in p.imap /\ p1.in[y] = p.in[y]
        BY <1>1, <3>2
      <4> QED  BY <2>1, <4>1 DEF SlotsOK
    <3> QED  BY <3>1, <3>2
  <2> QED  BY <2>2 DEF SlotsOK
<1>4. Direction(p1, S, q, R, lq, lp, rq)
  <2>1. Direction(p, S, q, R, lq, lp, rq)
    BY DEF Link
  <2> QED  BY <2>1, ZenonT(60) DEF Direction, WindowOK, BuffersOK, DataOK, SlotsOK, AcksOK, Genuine, Frees
<1>5. WindowOK(q, T, p1, U) /\ DataOK(q, T, p1, U, lp, rp) /\ BuffersOK(q, T, U) /\ AcksOK(q, T, U, lq)
  <2>1. Direction(q, T, p, U, lp, lq, rp)
    BY DEF Link
  <2> QED  BY <2>1 DEF Direction, WindowOK, DataOK
<1>6. S - p1.xcount = R \/ T - q.xcount = U
  BY DEF Link
<1> QED  BY <1>3, <1>4, <1>5, <1>6 DEF Link, Direction

-----------------------------------------------------------------------------
(***************************************************************************)
(* The link when an end reads, writes or turns round                       *)
(***************************************************************************)
\* The numbers of both directions.
LEMMA LinkNumbers ==
    ASSUME NEW p \in Structs, NEW q \in Structs,
           NEW S, NEW R, NEW T, NEW U,
           NEW lp, NEW lq, NEW rp, NEW rq, Link(p, q, S, R, T, U, lp, lq, rp, rq)
    PROVE  /\ S \in Nat /\ R \in Nat /\ p.xcount \in Nat /\ S - p.xcount \in Nat
           /\ S - p.xcount <= R /\ R <= S /\ S <= (S - p.xcount) + 7 /\ p.xcount <= q.rwindow
           /\ p.ps = (S - p.xcount) % 8 /\ p.pscopy = S % 8 /\ p.pr = U % 8
           /\ T \in Nat /\ U \in Nat /\ q.xcount \in Nat /\ T - q.xcount \in Nat
           /\ T - q.xcount <= U /\ U <= T /\ T <= (T - q.xcount) + 7
<1>1. WindowOK(p, S, q, R) /\ WindowOK(q, T, p, U)
  BY DEF Link, Direction
<1>2. S \in Nat /\ R \in Nat /\ p.xcount \in Nat /\ S - p.xcount <= R /\ R <= S
      /\ p.xcount <= S /\ p.xcount <= q.rwindow
      /\ p.ps = (S - p.xcount) % 8 /\ p.pscopy = S % 8 /\ p.pr = U % 8
  BY <1>1 DEF WindowOK
<1>3. T \in Nat /\ U \in Nat /\ q.xcount \in Nat /\ T - q.xcount <= U /\ U <= T
      /\ q.xcount <= T /\ q.xcount <= p.rwindow
  BY <1>1 DEF WindowOK
<1>4. q.rwindow \in 1..7 /\ p.rwindow \in 1..7
  BY DEF Structs
<1> DEFINE x == p.xcount
           y == q.xcount
<1>5. x <= 7 /\ x \in Nat /\ x <= S
  BY <1>2, <1>4
<1>6. y <= 7 /\ y \in Nat /\ y <= T
  BY <1>3, <1>4
<1> HIDE DEF x, y
<1>7. S <= (S - x) + 7 /\ S - x \in Nat
  BY <1>2, <1>5
<1>8. T <= (T - y) + 7 /\ T - y \in Nat
  BY <1>3, <1>6
<1> QED  BY <1>2, <1>3, <1>7, <1>8 DEF x, y

\* The stored frame with the number p reads next is the packet it reads next.
LEMMA LinkNext ==
    ASSUME NEW p \in Structs, NEW q \in Structs,
           NEW S, NEW R, NEW T, NEW U,
           NEW lp, NEW lq, NEW rp, NEW rq, Link(p, q, S, R, T, U, lp, lq, rp, rq),
           NEW w \in p.imap, p.in[w].seq = SlotAt(p, 1)
    PROVE  /\ p.in[w].body.n = U + 1 /\ p.imap = {w} /\ p.xcount = 0
           /\ "SENT" \in q.os[(U + 1) % 8]
           /\ \A j \in DOMAIN lp : IsData(lp[j]) => U + 1 < lp[j].body.n + 7
<1>1. T \in Nat /\ U \in Nat /\ T - q.xcount \in Nat
      /\ T - q.xcount <= U /\ U <= T /\ T <= (T - q.xcount) + 7 /\ p.pr = U % 8
  BY LinkNumbers
<1> DEFINE n == p.in[w].body.n
           F == T - q.xcount
<1>2. SlotsOK(q, T, p, U, lp)
  BY DEF Link, Direction
<1>3. n \in 1..T /\ p.in[w].seq = n % 8 /\ U < n + 7 /\ (n <= F \/ "SENT" \in q.os[n % 8])
  BY <1>2 DEF SlotsOK, Genuine
<1>4. SlotAt(p, 1) = (U + 1) % 8
  BY <1>1, ModSum DEF SlotAt
<1> HIDE DEF F
<1> HIDE DEF n
<1>5. n = U + 1
  <2>1. T <= U + 7
    BY <1>1
  <2>2. n \in Nat /\ U + 1 \in Nat /\ n < U + 1 + 8 /\ U + 1 < n + 8
    BY <1>1, <1>3, <2>1
  <2> QED  BY <1>3, <1>4, <2>2, SameMod
<1>6. ~ (n <= U) /\ ~ (n <= F)
  BY <1>1, <1>3, <1>5 DEF F
<1> QED  BY <1>2, <1>3, <1>5, <1>6 DEF SlotsOK, n

\* What NextAlone asks of the input of p holds on a link.
LEMMA LinkNextAlone ==
    ASSUME NEW p \in Structs, NEW q \in Structs,
           NEW S, NEW R, NEW T, NEW U,
           NEW lp, NEW lq, NEW rp, NEW rq, Link(p, q, S, R, T, U, lp, lq, rp, rq)
    PROVE  NextAlone(p)
  BY LinkNext DEF NextAlone

\* A sender's side is in these fields.
LEMMA SenderKeeps ==
    ASSUME NEW p, NEW p1, NEW q, NEW S, NEW R, NEW l, NEW k, NEW rd,
           Direction(p, S, q, R, l, k, rd),
           p1.ps = p.ps, p1.pscopy = p.pscopy, p1.ob = p.ob, p1.os = p.os, p1.xcount = p.xcount
    PROVE  Direction(p1, S, q, R, l, k, rd)
  BY DEF Direction, WindowOK, BuffersOK, DataOK, SlotsOK, AcksOK, Genuine, Frees

\* What an acknowledgement names is a sequence number.
LEMMA AckIn == \A h \in LineFrames : IsAck(h) => AckOf(h) \in Seq8
  BY DEF LineFrames, IsAck, AckOf, IsData, Messages

\* p throws away what it has stored.
LEMMA LinkEmpty ==
    ASSUME NEW p \in Structs, NEW p1 \in Structs, NEW q \in Structs,
           NEW S, NEW R, NEW T, NEW U,
           NEW lp, NEW lq, NEW rp, NEW rq, Link(p, q, S, R, T, U, lp, lq, rp, rq),
           SameOutside(p, p1), p1.imap = {}
    PROVE  Link(p1, q, S, R, T, U, lp, lq, rp, rq)
<1>1. Direction(p1, S, q, R, lq, lp, rq)
  <2>1. Direction(p, S, q, R, lq, lp, rq)
    BY DEF Link
  <2> QED  BY <2>1, SenderKeeps DEF SameOutside
<1>2. Direction(q, T, p1, U, lp, lq, rp)
  <2>1. Direction(q, T, p, U, lp, lq, rp)
    BY DEF Link
  <2> QED  BY <2>1 DEF SameOutside, Direction, WindowOK, DataOK, SlotsOK
<1>3. S - p1.xcount = R \/ T - q.xcount = U
  BY DEF Link, SameOutside
<1> QED  BY <1>1, <1>2, <1>3 DEF Link

\* p reads the next packet.
\* A condition that the provers are to take as a value.
Holds(b) == b

\* p reads the next packet.
LEMMA LinkRead ==
    ASSUME NEW p \in Structs, NEW p1 \in Structs, NEW q \in Structs,
           NEW S, NEW R, NEW T, NEW U,
           NEW lp \in Lines, NEW lq \in Lines, NEW rp, NEW rq,
           Link(p, q, S, R, T, U, lp, lq, rp, rq), Holds(rp),
           NEW w \in p.imap, p.in[w].seq = SlotAt(p, 1),
           p1.ps = p.ps, p1.pscopy = p.pscopy, p1.ob = p.ob, p1.os = p.os,
           p1.xcount = p.xcount, p1.rwindow = p.rwindow,
           p1.pr = SlotAt(p, 1), p1.imap = {}
    PROVE  U + 1 <= T /\ Link(p1, q, S, R, T, U + 1, lp, lq, rp, rq)
<1>1. /\ S \in Nat /\ R \in Nat /\ p.xcount \in Nat /\ S - p.xcount \in Nat
      /\ S - p.xcount <= R /\ R <= S
      /\ p.ps = (S - p.xcount) % 8 /\ p.pscopy = S % 8 /\ p.pr = U % 8
      /\ T \in Nat /\ U \in Nat /\ q.xcount \in Nat /\ T - q.xcount \in Nat
      /\ T - q.xcount <= U /\ U <= T
  BY LinkNumbers
<1>2. /\ p.in[w].body.n = U + 1 /\ p.imap = {w} /\ p.xcount = 0
      /\ "SENT" \in q.os[(U + 1) % 8]
      /\ \A j \in DOMAIN lp : IsData(lp[j]) => U + 1 < lp[j].body.n + 7
  BY LinkNext
<1>3. WindowOK(q, T, p, U) /\ BuffersOK(q, T, U) /\ DataOK(q, T, p, U, lp, rp)
      /\ SlotsOK(q, T, p, U, lp) /\ AcksOK(q, T, U, lq) /\ Direction(p, S, q, R, lq, lp, rq)
  BY DEF Link, Direction
<1>4. U + 1 <= T
  <2>1. p.in[w].body.n \in 1..T
    BY <1>3 DEF SlotsOK, Genuine
  <2> QED  BY <1>1, <1>2, <2>1
<1>5. p1.pr = (U + 1) % 8
  BY <1>1, ModSum DEF SlotAt
<1>6. p.ps = p.pscopy
  BY <1>1, <1>2
<1>7. WindowOK(q, T, p1, U + 1)
  BY <1>1, <1>3, <1>4, <1>5 DEF WindowOK
<1>8. BuffersOK(q, T, U + 1)
  <2>1. \A n \in T - q.xcount + 1 .. U + 1 : n = U + 1 \/ n \in T - q.xcount + 1 .. U
    BY <1>1
  <2> QED  BY <1>2, <1>3, <2>1 DEF BuffersOK
<1>9. DataOK(q, T, p1, U + 1, lp, rp)
  <2>1. ASSUME NEW i \in DOMAIN lp, IsData(lp[i])
        PROVE  /\ Genuine(q, T, U + 1, lp[i])
               /\ lp[i].body.n <= U + 1 => lp[i].ack = p1.ps
               /\ lp[i].body.n > U + 1 /\ rp => lp[i].ack = p1.pscopy
    <3> DEFINE n == lp[i].body.n
    <3>1. Genuine(q, T, U, lp[i]) /\ (n <= U => lp[i].ack = p.ps) /\ (n > U => lp[i].ack = p.pscopy)
      BY <1>3, <2>1 DEF DataOK, Holds
    <3>2. n \in Nat /\ U + 1 < n + 7
      BY <1>1, <1>2, <2>1, <3>1 DEF Genuine
    <3>3. Genuine(q, T, U + 1, lp[i])
      BY <3>1, <3>2 DEF Genuine
    <3>4. n > U \/ n <= U
      BY <1>1, <3>2
    <3> QED  BY <1>6, <3>1, <3>3, <3>4
  <2> QED  BY <1>3, <2>1 DEF DataOK
<1>10. SlotsOK(q, T, p1, U + 1, lp)
  BY DEF SlotsOK
<1>11. AcksOK(q, T, U + 1, lq)
  <2>2. \A i \in DOMAIN lq : IsAck(lq[i]) => Frees(q, AckOf(lq[i])) <= U - (T - q.xcount)
    BY <1>3 DEF AcksOK
  <2>3. \A i \in DOMAIN lq : IsAck(lq[i]) => Frees(q, AckOf(lq[i])) \in Int
    <3> TAKE i \in DOMAIN lq
    <3>1. HAVE IsAck(lq[i])
    <3>2. AckOf(lq[i]) \in Seq8
      BY <3>1, AckIn DEF Lines
    <3>3. q.ps = (T - q.xcount) % 8
      BY <1>3 DEF WindowOK
    <3>4. Frees(q, AckOf(lq[i])) \in 0..7
      BY <1>1, <3>2, <3>3, FreesIs
    <3> QED  BY <3>4
  <2>4. \A i \in DOMAIN lq : IsAck(lq[i]) => Frees(q, AckOf(lq[i])) <= (U + 1) - (T - q.xcount)
    BY <1>1, <2>2, <2>3
  <2> QED  BY <1>3, <2>4 DEF AcksOK
<1>12. Direction(p1, S, q, R, lq, lp, rq)
  BY <1>3, SenderKeeps
<1>13. S - p1.xcount = R
  BY <1>1, <1>2
<1> QED  BY <1>4, <1>7, <1>8, <1>9, <1>10, <1>11, <1>12, <1>13 DEF Link, Direction

\* Whether p waits for packets matters only if there are some.
LEMMA LinkTurn ==
    ASSUME NEW p \in Structs, NEW q \in Structs,
           NEW S, NEW R, NEW T, NEW U,
           NEW lp, NEW lq, NEW rp, NEW rq, Link(p, q, S, R, T, U, lp, lq, rp, rq),
           NEW r1, rp \/ T = U
    PROVE  Link(p, q, S, R, T, U, lp, lq, r1, rq)
<1>1. T \in Nat /\ U \in Nat
  BY LinkNumbers
<1>2. DataOK(q, T, p, U, lp, rp)
  BY DEF Link, Direction
<1>3. DataOK(q, T, p, U, lp, r1)
  <2>1. ASSUME T = U, NEW i \in DOMAIN lp, IsData(lp[i]) PROVE ~ (lp[i].body.n > U)
    <3>1. lp[i].body.n \in 1..T
      BY <1>2, <2>1 DEF DataOK, Genuine
    <3> QED  BY <1>1, <2>1, <3>1
  <2> QED  BY <1>2, <2>1 DEF DataOK
<1> QED  BY <1>3 DEF Link, Direction

\* p takes a packet to send.
LEMMA LinkQueue ==
    ASSUME NEW p \in Structs, NEW p1 \in Structs, NEW q \in Structs,
           NEW S, NEW R, NEW T, NEW U,
           NEW lp, NEW lq, NEW rp, NEW rq, Link(p, q, S, R, T, U, lp, lq, rp, rq),
           T = U, p.xcount < q.rwindow, NEW x \in Seq8, x = next(p.pscopy),
           p1.os[x] # {}, p1.ob[x].n = S + 1,
           \A y \in Seq8 \ {x} : p1.os[y] = p.os[y] /\ p1.ob[y] = p.ob[y],
           p1.ps = p.ps, p1.pr = p.pr, p1.pscopy = x, p1.in = p.in, p1.imap = p.imap,
           p1.xcount = p.xcount + 1, p1.rwindow = p.rwindow
    PROVE  Link(p1, q, S + 1, R, T, U, lp, lq, rp, rq)
<1>1. /\ S \in Nat /\ R \in Nat /\ p.xcount \in Nat /\ S - p.xcount \in Nat
      /\ S - p.xcount <= R /\ R <= S /\ p.pscopy = S % 8
      /\ T \in Nat /\ U \in Nat
  BY LinkNumbers
<1> DEFINE F == S - p.xcount
           c == p.xcount
<1>2. F \in Nat /\ F <= R /\ R <= S /\ c \in Nat /\ F = S - c /\ c < q.rwindow
      /\ p1.xcount = c + 1
  BY <1>1
<1>3. q.rwindow \in 1..7
  BY DEF Structs
<1>4. x = (S + 1) % 8
  BY <1>1, ModSum DEF next
<1>5. WindowOK(p, S, q, R) /\ BuffersOK(p, S, R) /\ DataOK(p, S, q, R, lq, rq)
      /\ SlotsOK(p, S, q, R, lq) /\ AcksOK(p, S, R, lp) /\ Direction(q, T, p, U, lp, lq, rp)
  BY DEF Link, Direction
<1>6. /\ \A n \in F + 1 .. S : p.os[n % 8] # {} /\ p.ob[n % 8].n = n
      /\ \A y \in Seq8 : p.os[y] # {} => \E n \in F + 1 .. S : y = n % 8
      /\ \A n \in F + 1 .. R : "SENT" \in p.os[n % 8]
  BY <1>5 DEF BuffersOK
<1>7. \A s : Genuine(p, S, R, s) <=>
          /\ s.body.n \in 1..S /\ s.seq = s.body.n % 8 /\ R < s.body.n + 7
          /\ s.body.n <= F \/ "SENT" \in p.os[s.body.n % 8]
  BY DEF Genuine
<1>8. (S + 1) - p1.xcount = F
  BY <1>1, <1>2
<1> HIDE DEF F, c
<1>9. S <= F + 6
  BY <1>1, <1>2, <1>3
<1>10. ASSUME NEW n \in Nat, F < n, n <= S PROVE n % 8 \in Seq8 /\ n % 8 # x
  <2>1. n < S + 1 /\ S + 1 < n + 8 /\ S + 1 \in Nat
    BY <1>1, <1>2, <1>9, <1>10
  <2> QED  BY <1>4, <2>1, Apart, ModIn
<1>11. WindowOK(p1, S + 1, q, R)
  <2>1. p1.xcount \in Nat /\ p1.xcount <= S + 1 /\ p1.xcount <= q.rwindow /\ R <= S + 1
    BY <1>1, <1>2, <1>3
  <2> QED  BY <1>1, <1>2, <1>4, <1>5, <1>8, <2>1 DEF WindowOK, F
<1>12. BuffersOK(p1, S + 1, R)
  <2>1. \A n \in F + 1 .. S + 1 : p1.os[n % 8] # {} /\ p1.ob[n % 8].n = n
    <3> TAKE n \in F + 1 .. S + 1
    <3>1. CASE n = S + 1
      BY <1>4, <3>1
    <3>2. CASE n # S + 1
      <4>1. n \in F + 1 .. S /\ n \in Nat /\ F < n /\ n <= S
        BY <1>1, <1>2, <3>2
      <4> QED  BY <1>6, <1>10, <4>1
    <3> QED  BY <3>1, <3>2
  <2>2. \A y \in Seq8 : p1.os[y] # {} => \E n \in F + 1 .. S + 1 : y = n % 8
    <3> TAKE y \in Seq8
    <3>1. HAVE p1.os[y] # {}
    <3>2. CASE y = x
      <4>1. S + 1 \in F + 1 .. S + 1
        BY <1>1, <1>2
      <4> QED  BY <1>4, <3>2, <4>1
    <3>3. CASE y # x
      <4>1. \E n \in F + 1 .. S : y = n % 8
        BY <1>6, <3>1, <3>3
      <4>2. \A n \in F + 1 .. S : n \in F + 1 .. S + 1
        BY <1>1, <1>2
      <4> QED  BY <4>1, <4>2
    <3> QED  BY <3>2, <3>3
  <2>3. \A n \in F + 1 .. R : "SENT" \in p1.os[n % 8]
    <3> TAKE n \in F + 1 .. R
    <3>1. n \in Nat /\ F < n /\ n <= S
      BY <1>1, <1>2
    <3> QED  BY <1>6, <1>10, <3>1
  <2> QED  BY <1>8, <2>1, <2>2, <2>3 DEF BuffersOK
<1>13. ASSUME NEW s, Genuine(p, S, R, s) PROVE Genuine(p1, S + 1, R, s)
  <2> DEFINE n == s.body.n
  <2>1. n \in 1..S /\ s.seq = n % 8 /\ R < n + 7 /\ (n <= F \/ "SENT" \in p.os[n % 8])
    BY <1>7, <1>13
  <2> HIDE DEF n
  <2>2. n <= F \/ "SENT" \in p1.os[n % 8]
    <3>1. CASE n <= F
      BY <3>1
    <3>2. CASE ~ (n <= F)
      <4>1. n \in Nat /\ F < n /\ n <= S
        BY <1>1, <1>2, <2>1, <3>2
      <4> QED  BY <1>10, <2>1, <3>2, <4>1
    <3> QED  BY <3>1, <3>2
  <2>3. n \in 1..S+1
    BY <1>1, <2>1
  <2> QED  BY <1>8, <2>1, <2>2, <2>3 DEF Genuine, n
<1>14. DataOK(p1, S + 1, q, R, lq, rq) /\ SlotsOK(p1, S + 1, q, R, lq)
  BY <1>5, <1>13 DEF DataOK, SlotsOK
<1>15. AcksOK(p1, S + 1, R, lp)
  BY <1>5, <1>8 DEF AcksOK, Frees, F
\* Every packet of the other end was read.
<1>20. DataOK(q, T, p1, U, lp, rp)
  <2>1. DataOK(q, T, p, U, lp, rp)
    BY <1>5 DEF Direction
  <2>2. ASSUME NEW i \in DOMAIN lp, IsData(lp[i]) PROVE ~ (lp[i].body.n > U)
    <3>1. lp[i].body.n \in 1..T
      BY <2>1, <2>2 DEF DataOK, Genuine
    <3> QED  BY <1>1, <3>1
  <2> QED  BY <2>1, <2>2 DEF DataOK
<1>21. SlotsOK(q, T, p1, U, lp)
  <2>1. SlotsOK(q, T, p, U, lp)
    BY <1>5 DEF Direction
  <2>2. ASSUME NEW y \in p.imap PROVE p.in[y].body.n <= U
    <3>1. p.in[y].body.n \in 1..T
      BY <2>1 DEF SlotsOK, Genuine
    <3> QED  BY <1>1, <3>1
  <2> QED  BY <2>1, <2>2 DEF SlotsOK
<1>22. WindowOK(q, T, p1, U) /\ BuffersOK(q, T, U) /\ AcksOK(q, T, U, lq)
  BY <1>5 DEF Direction, WindowOK
<1>23. (S + 1) - p1.xcount = R \/ T - q.xcount = U
  BY <1>8 DEF Link, F
<1> QED  BY <1>11, <1>12, <1>14, <1>15, <1>20, <1>21, <1>22, <1>23 DEF Link, Direction

-----------------------------------------------------------------------------
(***************************************************************************)
(* The input of a driver, and what it does when a frame arrives.  K is     *)
(* what the line may do wrong.                                             *)
(***************************************************************************)
\* Between two reads no slot is marked or accepted.  One that is not in
\* p_imap is free, or holds what a frame with its number pushed out of there.
\* Every buffer is in the pool or in a slot, unless a frame was cut.
InputOK(p, K) ==
    /\ StoredOK(p) /\ p.ipool >= 0 /\ Buffers(p) <= p.rwindow
    /\ "cut" \notin K => Buffers(p) = p.rwindow

\* The input, and what the end was configured with, are the same.
InputSame(p, q) ==
    /\ q.in = p.in /\ q.imap = p.imap /\ q.ipool = p.ipool /\ q.rcount = p.rcount
    /\ q.rwindow = p.rwindow /\ q.rsize = p.rsize

\* The input stays good if the step leaves it alone.
LEMMA InputKept ==
    ASSUME NEW p, NEW q, NEW K, InputOK(p, K), InputSame(p, q)
    PROVE  InputOK(q, K)
<1>1. Busy(q) = Busy(p)
  BY DEF Busy, InputSame
<1> QED  BY <1>1 DEF InputOK, InputSame, StoredOK, Buffers

\* Steps that leave the input alone.
LEMMA InputSameIs ==
    /\ \A p, q : Alike(p, q) => InputSame(p, q)
    /\ \A p, q, j : Released(p, j, q) => InputSame(p, q)
    /\ \A p, q, r : InputSame(p, q) /\ InputSame(q, r) => InputSame(p, r)
  BY DEF Alike, InputSame, Released

\* pkdata finds room for the frame f, or the buffer goes back to the pool.
Stored(p, f, x, p1) ==
    /\ x \in Seq8 /\ x \notin p.imap /\ p.in[x].st = "null"
    /\ p1.in[x].st = "raw" /\ p1.in[x].seq = f.seq /\ p1.in[x].body = f.body
    /\ \A y \in Seq8 \ {x} : p1.in[y] = p.in[y]
    /\ p1.imap = p.imap \cup {x} /\ p1.ipool = p.ipool - 1

StoreFields(p, p1) ==
    /\ p1.ps = p.ps /\ p1.pr = p.pr /\ p1.pscopy = p.pscopy /\ p1.ob = p.ob /\ p1.os = p.os
    /\ p1.xcount = p.xcount /\ p1.rwindow = p.rwindow /\ p1.rsize = p.rsize
    /\ p1.state = p.state /\ p1.swindow = p.swindow /\ p1.lpsize = p.lpsize
    /\ p1.rcount = p.rcount /\ p1.rpr = p.rpr

StoreAll(p, f, good) ==
    [StoreFrame([p EXCEPT !.ipool = @ - 1], f, good) EXCEPT !.ntimeout = 0]

\* A data frame is stored in a slot, or the input stays as it was.
LEMMA StoreIs ==
    ASSUME NEW p \in Structs, StoredOK(p), NEW f \in LineFrames, IsData(f), NEW good \in BOOLEAN
    PROVE  /\ StoreAll(p, f, good) \in Structs /\ StoreFields(p, StoreAll(p, f, good))
           /\ \/ InputSame(p, StoreAll(p, f, good))
              \/ \E x : Stored(p, f, x, StoreAll(p, f, good))
<1> DEFINE p0 == [p EXCEPT !.ipool = @ - 1]
<1>0. p.ipool \in Int /\ p.pr \in 0..7 /\ p.in \in [Seq8 -> Slots]
  BY DEF Structs, Seq8
<1>1. /\ p0 \in Structs /\ p0.ipool = p.ipool - 1 /\ p0.in = p.in /\ p0.imap = p.imap
      /\ p0.rcount = p.rcount /\ StoreFields(p, p0)
  BY DEF Structs, StoreFields
<1> HIDE DEF p0
<1>2. f.seq \in Seq8 /\ f.body \in Bodies
  BY DEF LineFrames, IsData, Messages
<1>3. CASE FreeSlots(p0) = {}
  <2> DEFINE k == p0.ipool + 1
             p1 == [p0 EXCEPT !.ipool = k, !.ntimeout = 0]
  <2>1. StoreAll(p, f, good) = p1
    BY <1>1, <1>3 DEF StoreAll, StoreFrame, p0, Structs
  <2>5. k \in Int /\ k = p.ipool
    BY <1>0, <1>1
  <2> HIDE DEF k
  <2>2. p1 \in Structs /\ p1.ipool = k /\ p1.in = p0.in /\ p1.imap = p0.imap
        /\ p1.rcount = p0.rcount /\ StoreFields(p0, p1)
    BY <1>1, <2>5 DEF Structs, StoreFields
  <2> HIDE DEF p1
  <2>3. StoreFields(p, p1) /\ p1.ipool = p.ipool
    BY <1>1, <2>2, <2>5 DEF StoreFields
  <2>4. InputSame(p, p1)
    BY <1>1, <2>2, <2>3 DEF InputSame, StoreFields
  <2> QED  BY <2>1, <2>2, <2>3, <2>4
<1>4. CASE FreeSlots(p0) # {}
  <2> DEFINE m == Min(FreeSlots(p0))
             x == (p.pr + 8 - m) % 8
             s == [st |-> "raw", seq |-> f.seq, good |-> good, body |-> f.body]
             i == [p.in EXCEPT ![x] = s]
             p1 == [p0 EXCEPT !.imap = @ \cup {x}, !.in = i, !.ntimeout = 0]
  <2>1. p0.pr = p.pr
    BY <1>1 DEF StoreFields
  <2>2. m \in FreeSlots(p0)
    <3>1. FreeSlots(p0) \subseteq Nat
      BY DEF FreeSlots
    <3>2. \E y \in FreeSlots(p0) : \A z \in FreeSlots(p0) : y <= z
      BY <1>4, <3>1, LeastNat
    <3> QED  BY <3>2 DEF Min
  <2>3. m \in 0..6 /\ p.in[x].st = "null"
    BY <1>1, <2>1, <2>2 DEF FreeSlots
  <2>4. StoreAll(p, f, good) = p1
    BY <1>1, <1>4, <2>1 DEF StoreAll, StoreFrame, p0, Structs
  <2>5. x \in Seq8
    BY <1>0, <2>3 DEF Seq8
  <2> HIDE DEF m
  <2>6. s \in Slots /\ s.st = "raw" /\ s.seq = f.seq /\ s.body = f.body
    BY <1>2 DEF Slots
  <2> HIDE DEF x, s
  <2>7. i \in [Seq8 -> Slots] /\ i[x] = s /\ \A y \in Seq8 \ {x} : i[y] = p.in[y]
    BY <1>0, <2>5, <2>6
  <2> HIDE DEF i
  <2>8. p1 \in Structs /\ p1.ipool = p0.ipool /\ p1.in = i /\ p1.imap = p0.imap \cup {x}
        /\ p1.rcount = p0.rcount /\ StoreFields(p0, p1)
    BY <1>1, <2>5, <2>7 DEF Structs, StoreFields
  <2> HIDE DEF p1
  <2>9. StoreFields(p, p1)
    BY <1>1, <2>8 DEF StoreFields
  <2>10. x \notin p.imap
    BY <2>3 DEF StoredOK
  <2>11. Stored(p, f, x, p1)
    BY <1>1, <2>3, <2>5, <2>6, <2>7, <2>8, <2>10 DEF Stored
  <2> QED  BY <2>4, <2>8, <2>9, <2>11
<1> QED  BY <1>3, <1>4

\* The input with the frame stored.
LEMMA InputStored ==
    ASSUME NEW p \in Structs, NEW p1 \in Structs, NEW K, InputOK(p, K), p.ipool > 0,
           NEW f, NEW x, Stored(p, f, x, p1), StoreFields(p, p1)
    PROVE  InputOK(p1, K)
<1>1. p.ipool \in Int /\ Cardinality(Busy(p)) \in Nat /\ p.imap \subseteq Seq8
  BY BusyFinite DEF Structs
<1>2. Cardinality(Busy(p1)) = Cardinality(Busy(p)) + 1
  BY BusyMore DEF Stored
<1>3. Buffers(p1) = Buffers(p) /\ p1.ipool >= 0
  <2>1. p1.ipool = p.ipool - 1
    BY DEF Stored
  <2> QED  BY <1>1, <1>2, <2>1 DEF Buffers
<1>4. StoredOK(p1)
  <2>1. p1.rcount = 0
    BY DEF StoreFields, InputOK, StoredOK
  <2>2. \A y \in p1.imap : p1.in[y].st = "raw"
    BY <1>1 DEF Stored, InputOK, StoredOK
  <2>3. \A y \in Seq8 \ p1.imap : Quiet(p1.in[y])
    BY DEF Stored, InputOK, StoredOK
  <2> QED  BY <2>1, <2>2, <2>3 DEF StoredOK
<1> QED  BY <1>3, <1>4 DEF InputOK, StoreFields

\* A frame stops inside its body, and its buffer is lost.
LEMMA InputCut ==
    ASSUME NEW p \in Structs, NEW p1 \in Structs, NEW K, InputOK(p, K), p.ipool > 0, "cut" \in K,
           p1.in = p.in, p1.imap = p.imap, p1.ipool = p.ipool - 1, p1.rcount = p.rcount,
           p1.rwindow = p.rwindow
    PROVE  InputOK(p1, K)
<1>1. p.ipool \in Int /\ Cardinality(Busy(p)) \in Nat /\ p.rwindow \in 1..7
  BY BusyFinite DEF Structs
<1>2. Busy(p1) = Busy(p)
  BY DEF Busy
<1>3. p.ipool + Cardinality(Busy(p)) <= p.rwindow
  BY DEF InputOK, Buffers
<1>4. p1.ipool >= 0 /\ p1.ipool + Cardinality(Busy(p1)) <= p.rwindow
  BY <1>1, <1>2, <1>3
<1> QED  BY <1>4 DEF InputOK, Buffers, StoredOK

-----------------------------------------------------------------------------
(***************************************************************************)
(* Acknowledgements and sizes                                              *)
(***************************************************************************)
\* pksack, on the acknowledgement that comes first on the line.
LEMMA AckIs ==
    ASSUME NEW p \in Structs, NEW p0 \in Structs, LinkSame(p, p0), NEW q \in Structs,
           NEW S, NEW R, NEW T, NEW U,
           NEW lp \in Lines, NEW lq, NEW rp, NEW rq, Link(p, q, S, R, T, U, lp, lq, rp, rq),
           lp # <<>>, IsAck(Head(lp)), p0.rpr = AckOf(Head(lp))
    PROVE  LET p1 == pksack(p0)
               g == Head(lp)
           IN  /\ p1 \in Structs /\ \E j \in Nat : Released(p0, j, p1)
               /\ Link(p1, q, S, R, T, U, Tail(lp), lq, rp, rq)
               /\ IsData(g) => Storable(p1, q, T, U, Tail(lp), g)
               /\ IsData(g) /\ g.body.n <= U => p1.xcount = p.xcount
               /\ IsData(g) /\ g.body.n > U /\ rp => p1.xcount = 0
<1> DEFINE F == S - p0.xcount
           d == Frees(p0, p0.rpr)
<1>1. Link(p0, q, S, R, T, U, lp, lq, rp, rq)
  BY LinkAlike
<1>2. F \in Nat /\ F <= R /\ p0.ps = F % 8 /\ R \in Nat
  BY <1>1, LinkNumbers
<1>3. AcksOK(p0, S, R, lp) /\ BuffersOK(p0, S, R)
  BY <1>1 DEF Link, Direction
<1>4. Head(lp) = lp[1] /\ 1 \in DOMAIN lp
  BY TailIs
<1>5. d <= R - F
  BY <1>3, <1>4 DEF AcksOK
<1>6. d \in 0..7
  <2>1. p0.rpr \in Seq8
    BY DEF Structs
  <2> QED  BY <1>2, <2>1, FreesIs
<1>7. \A i \in 1..d : "SENT" \in p0.os[(p0.ps + i) % 8]
  <2> TAKE i \in 1..d
  <2> HIDE DEF d
  <2>1. "SENT" \in p0.os[(F + i) % 8]
    <3>1. \A n \in F + 1 .. R : "SENT" \in p0.os[n % 8]
      BY <1>3 DEF BuffersOK
    <3> HIDE DEF F
    <3>2. F + i \in F + 1 .. R
      BY <1>2, <1>5, <1>6
    <3> QED  BY <3>1, <3>2
  <2>2. (p0.ps + i) % 8 = (F + i) % 8
    <3> HIDE DEF F
    <3>1. i \in Nat
      BY <1>6
    <3> QED  BY <1>2, <3>1, ModSum
  <2> QED  BY <2>1, <2>2
<1>8. pksack(p0) \in Structs /\ Released(p0, d, pksack(p0))
  BY <1>7, SackIs
<1>9. p0.xcount = p.xcount
  BY DEF LinkSame
<1>10. /\ Link(pksack(p0), q, S, R, T, U, Tail(lp), lq, rp, rq)
       /\ IsData(Head(lp)) => Storable(pksack(p0), q, T, U, Tail(lp), Head(lp))
       /\ IsData(Head(lp)) /\ Head(lp).body.n <= U => pksack(p0).xcount = p0.xcount
       /\ IsData(Head(lp)) /\ Head(lp).body.n > U /\ rp => pksack(p0).xcount = 0
  BY <1>1, <1>8, LinkSack
<1>11. \E j \in Nat : Released(p0, j, pksack(p0))
  BY <1>6, <1>8
<1> QED  BY <1>8, <1>9, <1>10, <1>11

(***************************************************************************)
(* The sizes: what INITA, INITB and INITC told p about q.  up: the line    *)
(* has been live.                                                          *)
(***************************************************************************)
SizeP(p, q, up) ==
    /\ p.state \cap {"INITa", "LIVE"} # {} \/ up => p.swindow = q.rwindow
    /\ p.state \cap {"INITb", "LIVE"} # {} => p.lpsize = pksize(q.rsize) + 1

\* The frames of q on a line.
SizeOf(g, q) ==
    /\ g.type \in {"INITA", "INITC"} => g.val = q.rwindow
    /\ g.type = "INITB" => g.val = pksize(q.rsize)

SizeL(l, q) == \A i \in DOMAIN l : SizeOf(l[i], q)

\* A step that does not negotiate keeps what p knows of the sizes of q.
LEMMA SizeKept ==
    ASSUME NEW p, NEW p1, NEW q, NEW up, SizeP(p, q, up),
           p1.swindow = p.swindow, p1.lpsize = p.lpsize,
           p1.state \cap {"INITa", "INITb", "LIVE"} \subseteq p.state
    PROVE  SizeP(p1, q, up)
  BY DEF SizeP

\* A driver that is live knows the sizes of the other end for good.
LEMMA SizeLive ==
    ASSUME NEW p, NEW q, NEW up, SizeP(p, q, up), "LIVE" \in p.state, NEW v
    PROVE  SizeP(p, q, v)
  BY DEF SizeP

\* A line that has lost frames tells no other sizes.
LEMMA SizeShorter ==
    ASSUME NEW l \in Lines, NEW l1, Shorter(l, l1), NEW q, SizeL(l, q)
    PROVE  SizeL(l1, q)
<1>1. PICK c \in Nat : \A i \in DOMAIN l1 : i + c \in DOMAIN l /\ l1[i] = l[i + c]
  BY ShorterIs
<1> QED  BY <1>1 DEF SizeL

\* pkoutput tells the sizes p has.
LEMMA SizeOutput ==
    ASSUME NEW l \in Lines, NEW p \in Structs, SizeL(l, p)
    PROVE  SizeL(l \o Transmitted(p), p)
<1>1. CASE Transmitted(p) = <<>>
  <2>1. l \o Transmitted(p) = l
    BY <1>1 DEF Lines
  <2> QED  BY <2>1
<1>2. CASE \E g \in LineFrames : Transmitted(p) = <<g>> /\ Sendable(p, g)
  <2>1. PICK g \in LineFrames : Transmitted(p) = <<g>> /\ Sendable(p, g)
    BY <1>2
  <2>2. SizeOf(g, p)
    BY <2>1 DEF Sendable, SizeOf, ControlValue
  <2> QED  BY <2>1, <2>2, AppendIs DEF SizeL
<1> QED  BY <1>1, <1>2, TransmittedIs

\* The sizes an end tells are those it was opened with.
LEMMA SizeSame ==
    ASSUME NEW l, NEW p, NEW p1, SizeL(l, p), p1.rwindow = p.rwindow, p1.rsize = p.rsize
    PROVE  SizeL(l, p1)
  BY DEF SizeL, SizeOf

\* What a control frame that acknowledges nothing does.
LEMMA ControlIs ==
    ASSUME NEW p \in Structs, NEW q \in Structs, NEW up, SizeP(p, q, up),
           NEW g \in LineFrames, ~IsAck(g), SizeOf(g, q)
    PROVE  LET p1 == ApplyControl(p, g)
           IN  /\ p1 \in Structs /\ LinkSame(p, p1) /\ InputSame(p, p1) /\ p1.rpr = p.rpr
               /\ SizeP(p1, q, up)
               /\ "DOWN" \in p1.state /\ "DOWN" \notin p.state =>
                    g.type = "CLOSE" /\ "LIVE" \notin p1.state /\ p1.swindow = p.swindow
               /\ p1.nxtps = p.nxtps /\ p1.os = p.os
<1> DEFINE p1 == ApplyControl(p, g)
<1>0. g.type \in {"CLOSE", "INITC", "INITB", "INITA"} /\ g.val \in Seq8
  BY DEF LineFrames, IsAck, Messages
<1>1. q.rwindow \in 1..7 /\ pksize(q.rsize) \in 0..7
  BY SizeCode DEF Structs
<1>2. p.state \in SUBSET Flags /\ p.msg \in SUBSET Messages /\ p.rmsg \in SUBSET Messages
      /\ p.swindow \in 1..7 /\ p.lpsize \in Nat
  BY DEF Structs
<1>3. ASSUME NEW s \in SUBSET Flags, NEW m \in SUBSET Messages, NEW r \in SUBSET Messages,
             NEW w \in 1..7, NEW k \in Nat,
             p1 = [p EXCEPT !.state = s, !.msg = m, !.rmsg = r, !.swindow = w, !.lpsize = k]
      PROVE  /\ p1 \in Structs /\ LinkSame(p, p1) /\ InputSame(p, p1) /\ p1.rpr = p.rpr
             /\ p1.state = s /\ p1.swindow = w /\ p1.lpsize = k
             /\ p1.nxtps = p.nxtps /\ p1.os = p.os
  <2> DEFINE r1 == [p EXCEPT !.state = s, !.msg = m, !.rmsg = r, !.swindow = w, !.lpsize = k]
  <2>1. r1 \in Structs
    BY DEF Structs
  <2>2. /\ r1.state = s /\ r1.swindow = w /\ r1.lpsize = k
        /\ r1.rpr = p.rpr /\ r1.nxtps = p.nxtps /\ r1.os = p.os
        /\ r1.ps = p.ps /\ r1.pr = p.pr /\ r1.pscopy = p.pscopy /\ r1.ob = p.ob
        /\ r1.in = p.in /\ r1.imap = p.imap /\ r1.ipool = p.ipool
        /\ r1.rcount = p.rcount /\ r1.xcount = p.xcount
        /\ r1.rwindow = p.rwindow /\ r1.rsize = p.rsize
    BY DEF Structs
  <2> HIDE DEF r1
  <2>3. LinkSame(p, r1) /\ InputSame(p, r1)
    BY <2>2 DEF LinkSame, InputSame
  <2>4. p1 = r1
    BY <1>3 DEF r1
  <2> HIDE DEF p1
  <2> QED  BY <2>1, <2>2, <2>3, <2>4
<1> SUFFICES /\ p1 \in Structs /\ LinkSame(p, p1) /\ InputSame(p, p1) /\ p1.rpr = p.rpr
             /\ SizeP(p1, q, up)
             /\ "DOWN" \in p1.state /\ "DOWN" \notin p.state =>
                  g.type = "CLOSE" /\ "LIVE" \notin p1.state /\ p1.swindow = p.swindow
             /\ p1.nxtps = p.nxtps /\ p1.os = p.os
  OBVIOUS
<1>4. CASE g.type = "INITB"
  <2>1. g.val = pksize(q.rsize)
    BY <1>4 DEF SizeOf
  <2> DEFINE k == g.val + 1
             m == IF "LIVE" \in p.state \/ "INITa" \in p.state THEN p.msg \cup {"INITC"} ELSE p.msg
             s == IF "LIVE" \in p.state THEN p.state ELSE p.state \cup {"INITb"}
             r == IF "LIVE" \notin p.state /\ "INITa" \in p.state THEN p.rmsg \ {"INITA"} ELSE p.rmsg
  <2>2. p1 = [p EXCEPT !.state = s, !.msg = m, !.rmsg = r, !.swindow = p.swindow, !.lpsize = k]
    BY <1>4, ZenonT(60) DEF ApplyControl, Structs
  <2>3. s \in SUBSET Flags /\ m \in SUBSET Messages /\ r \in SUBSET Messages /\ k \in Nat
    BY <1>0, <1>2 DEF Flags, Messages, Seq8
  <2>4. k = pksize(q.rsize) + 1 /\ ("DOWN" \in s => "DOWN" \in p.state)
        /\ s \cap {"INITa", "LIVE"} = p.state \cap {"INITa", "LIVE"}
    BY <2>1
  <2> HIDE DEF k, m, s, r, p1
  <2>5. /\ p1 \in Structs /\ LinkSame(p, p1) /\ InputSame(p, p1) /\ p1.rpr = p.rpr
        /\ p1.state = s /\ p1.swindow = p.swindow /\ p1.lpsize = k
        /\ p1.nxtps = p.nxtps /\ p1.os = p.os
    BY <1>2, <1>3, <2>2, <2>3
  <2> QED  BY <2>4, <2>5 DEF SizeP
<1>5. CASE g.type = "INITC"
  <2>1. g.val = q.rwindow /\ g.val # 0
    BY <1>1, <1>5 DEF SizeOf
  <2> DEFINE b == {"INITa", "INITb"} \subseteq p.state
             m == IF b THEN p.msg ELSE p.msg \cup {"INITB"}
             s == IF b THEN {"LIVE"} ELSE p.state
             r == IF b THEN p.rmsg \ {"INITB"} ELSE p.rmsg
  <2>2. p1 = [p EXCEPT !.state = s, !.msg = m, !.rmsg = r, !.swindow = g.val, !.lpsize = p.lpsize]
    BY <1>5, <2>1, ZenonT(60) DEF ApplyControl, Structs
  <2>3. s \in SUBSET Flags /\ m \in SUBSET Messages /\ r \in SUBSET Messages /\ g.val \in 1..7
    BY <1>1, <1>2, <2>1 DEF Flags, Messages
  <2>4. ("DOWN" \in s => "DOWN" \in p.state)
        /\ (s \cap {"INITb", "LIVE"} # {} => p.state \cap {"INITb", "LIVE"} # {})
    OBVIOUS
  <2> HIDE DEF b, m, s, r, p1
  <2>5. /\ p1 \in Structs /\ LinkSame(p, p1) /\ InputSame(p, p1) /\ p1.rpr = p.rpr
        /\ p1.state = s /\ p1.swindow = g.val /\ p1.lpsize = p.lpsize
        /\ p1.nxtps = p.nxtps /\ p1.os = p.os
    BY <1>2, <1>3, <2>2, <2>3
  <2> QED  BY <2>1, <2>4, <2>5 DEF SizeP
<1>6. CASE g.type = "INITA"
  <2>1. g.val = q.rwindow /\ g.val # 0
    BY <1>1, <1>6 DEF SizeOf
  <2> DEFINE m == p.msg \cup {"INITB"}
             s == p.state \cup {"INITa"}
             r == p.rmsg \cup {"INITB"}
  <2>2. p1 = [p EXCEPT !.state = s, !.msg = m, !.rmsg = r, !.swindow = g.val, !.lpsize = p.lpsize]
    BY <1>6, <2>1 DEF ApplyControl, Structs
  <2>3. s \in SUBSET Flags /\ m \in SUBSET Messages /\ r \in SUBSET Messages /\ g.val \in 1..7
    BY <1>1, <1>2, <2>1 DEF Flags, Messages
  <2>4. ("DOWN" \in s => "DOWN" \in p.state)
        /\ s \cap {"INITb", "LIVE"} = p.state \cap {"INITb", "LIVE"}
    OBVIOUS
  <2> HIDE DEF m, s, r, p1
  <2>5. /\ p1 \in Structs /\ LinkSame(p, p1) /\ InputSame(p, p1) /\ p1.rpr = p.rpr
        /\ p1.state = s /\ p1.swindow = g.val /\ p1.lpsize = p.lpsize
        /\ p1.nxtps = p.nxtps /\ p1.os = p.os
    BY <1>2, <1>3, <2>2, <2>3
  <2> QED  BY <2>1, <2>4, <2>5 DEF SizeP
<1>7. CASE g.type = "CLOSE"
  <2> DEFINE s == {"DOWN", "RCLOSE"}
  <2>2. p1 = [p EXCEPT !.state = s, !.msg = p.msg, !.rmsg = p.rmsg, !.swindow = p.swindow, !.lpsize = p.lpsize]
    BY <1>7 DEF ApplyControl, Structs
  <2>3. s \in SUBSET Flags /\ s \cap {"INITa", "INITb", "LIVE"} = {}
    BY DEF Flags
  <2> HIDE DEF s, p1
  <2>5. /\ p1 \in Structs /\ LinkSame(p, p1) /\ InputSame(p, p1) /\ p1.rpr = p.rpr
        /\ p1.state = s /\ p1.swindow = p.swindow /\ p1.lpsize = p.lpsize
        /\ p1.nxtps = p.nxtps /\ p1.os = p.os
    BY <1>2, <1>3, <2>2, <2>3
  <2>6. "LIVE" \notin p1.state /\ SizeP(p1, q, up)
    BY <2>3, <2>5, SizeKept
  <2> QED  BY <1>7, <2>5, <2>6
<1> QED  BY <1>0, <1>4, <1>5, <1>6, <1>7

-----------------------------------------------------------------------------
(***************************************************************************)
(* What a driver does besides reading frames.                              *)
(***************************************************************************)
\* For the other end, and for the input, p1 is as good as p.
Kin(p, p1) ==
    /\ LinkSame(p, p1) /\ InputSame(p, p1)
    /\ p1.swindow = p.swindow /\ p1.lpsize = p.lpsize
    /\ p1.state \cap {"INITa", "INITb", "LIVE"} \subseteq p.state

\* One such step after another is such a step.
LEMMA KinTransitive ==
    ASSUME NEW p, NEW p1, NEW p2, Kin(p, p1), Kin(p1, p2)
    PROVE  Kin(p, p2)
<1>1. \A x \in Seq8 : p.os[x] \subseteq p2.os[x] /\ (p2.os[x] = {} <=> p.os[x] = {})
  <2> TAKE x \in Seq8
  <2>1. p.os[x] \subseteq p1.os[x] /\ (p1.os[x] = {} <=> p.os[x] = {})
    BY DEF Kin, LinkSame
  <2>2. p1.os[x] \subseteq p2.os[x] /\ (p2.os[x] = {} <=> p1.os[x] = {})
    BY DEF Kin, LinkSame
  <2> QED  BY <2>1, <2>2
<1>2. LinkSame(p, p2)
  BY <1>1 DEF Kin, LinkSame
<1>3. InputSame(p, p2)
  BY DEF Kin, InputSame
<1>4. p2.state \cap {"INITa", "INITb", "LIVE"} \subseteq p.state
  BY DEF Kin
<1> QED  BY <1>2, <1>3, <1>4 DEF Kin

\* pkoutput is such a step.
LEMMA KinOutput ==
    ASSUME NEW p \in Structs
    PROVE  pkoutput(p) \in Structs /\ Kin(p, pkoutput(p))
<1>1. /\ pkoutput(p) \in Structs /\ Alike(p, pkoutput(p))
      /\ pkoutput(p).swindow = p.swindow /\ pkoutput(p).lpsize = p.lpsize
      /\ pkoutput(p).state \in {p.state, p.state \ {"RXMIT"}}
  BY OutputIs
<1>2. pkoutput(p).state \cap {"INITa", "INITb", "LIVE"} \subseteq p.state
  BY <1>1
<1> QED  BY <1>1, <1>2, AlikeSame, InputSameIs DEF Kin

\* The fields that count for none of this.
WithFields(p, s, m, a, b, c, d) ==
    [p EXCEPT !.state = s, !.msg = m, !.rpr = a, !.nxtps = b, !.connodata = c, !.ntimeout = d]

\* So is setting flags, messages, acknowledgements and timers.
LEMMA KinSet ==
    ASSUME NEW p \in Structs, NEW s \in SUBSET Flags, NEW m \in SUBSET Messages, NEW a \in Seq8,
           NEW b \in Seq8, NEW c \in Nat, NEW d \in Nat,
           s \cap {"INITa", "INITb", "LIVE"} \subseteq p.state
    PROVE  LET p1 == WithFields(p, s, m, a, b, c, d)
           IN  /\ p1 \in Structs /\ Kin(p, p1)
               /\ p1.state = s /\ p1.msg = m /\ p1.rpr = a /\ p1.rmsg = p.rmsg
<1> DEFINE p1 == WithFields(p, s, m, a, b, c, d)
<1>1. p1 \in Structs
  BY DEF Structs, WithFields
<1>2. /\ p1.state = s /\ p1.msg = m /\ p1.rpr = a /\ p1.rmsg = p.rmsg
      /\ p1.swindow = p.swindow /\ p1.lpsize = p.lpsize /\ p1.os = p.os
      /\ p1.ps = p.ps /\ p1.pr = p.pr /\ p1.pscopy = p.pscopy /\ p1.ob = p.ob
      /\ p1.in = p.in /\ p1.imap = p.imap /\ p1.ipool = p.ipool
      /\ p1.rcount = p.rcount /\ p1.xcount = p.xcount
      /\ p1.rwindow = p.rwindow /\ p1.rsize = p.rsize
  BY DEF Structs, WithFields
<1> HIDE DEF p1
<1>3. LinkSame(p, p1) /\ InputSame(p, p1)
  BY <1>2 DEF LinkSame, InputSame
<1>4. Kin(p, p1)
  BY <1>2, <1>3 DEF Kin
<1> QED  BY <1>1, <1>2, <1>4 DEF p1

\* What a struct pack has in those fields.
LEMMA KinFields ==
    ASSUME NEW p \in Structs
    PROVE  /\ p.state \in SUBSET Flags /\ p.msg \in SUBSET Messages /\ p.rmsg \in SUBSET Messages
           /\ p.rpr \in Seq8 /\ p.nxtps \in Seq8 /\ p.connodata \in Nat /\ p.ntimeout \in Nat
           /\ p.ps \in Seq8 /\ p.pr \in Seq8 /\ p.pscopy \in Seq8
           /\ p.rwindow \in 1..7 /\ p.swindow \in 1..7 /\ p.rsize \in PacketSizes
           /\ p.xcount \in Int /\ p.ipool \in Int /\ p.imap \in SUBSET Seq8
  BY DEF Structs

\* So is counting a frame without data.
LEMMA CountedIs ==
    ASSUME NEW p \in Structs
    PROVE  Counted(p) \in Structs /\ Kin(p, Counted(p)) /\ Counted(p).state = p.state
<1> DEFINE s == p.state
           m == p.msg
           a == p.rpr
           b == p.nxtps
           c == p.connodata + 1
           d == p.ntimeout
           p1 == WithFields(p, s, m, a, b, c, d)
<1>1. Counted(p) = p1
  BY DEF Counted, WithFields, Structs
<1>2. /\ s \in SUBSET Flags /\ m \in SUBSET Messages /\ a \in Seq8 /\ b \in Seq8
      /\ c \in Nat /\ d \in Nat
  BY KinFields
<1>3. s \cap {"INITa", "INITb", "LIVE"} \subseteq p.state /\ s = p.state
  OBVIOUS
<1> HIDE DEF s, m, a, b, c, d
<1>4. p1 \in Structs /\ Kin(p, p1) /\ p1.state = s
  BY <1>2, <1>3, KinSet
<1> QED  BY <1>1, <1>3, <1>4

\* So is asking for a packet again.
LEMMA RequestIs ==
    ASSUME NEW p \in Structs
    PROVE  /\ RequestRetransmit(p) \in Structs /\ Kin(p, RequestRetransmit(p))
           /\ "DOWN" \in RequestRetransmit(p).state <=> "DOWN" \in p.state
           /\ "LIVE" \in RequestRetransmit(p).state <=> "LIVE" \in p.state
<1> DEFINE s == IF "LIVE" \in p.state THEN p.state \cup {"RXMIT"} ELSE p.state
           m == IF p.msg \cup p.rmsg = {} THEN {"RR"} ELSE p.msg \cup p.rmsg
           a == p.rpr
           b == p.nxtps
           c == p.connodata
           d == p.ntimeout
           p1 == WithFields(p, s, m, a, b, c, d)
<1>1. RequestRetransmit(p) = p1
  BY DEF RequestRetransmit, WithFields, Structs
<1>2. /\ s \in SUBSET Flags /\ m \in SUBSET Messages /\ a \in Seq8 /\ b \in Seq8
      /\ c \in Nat /\ d \in Nat
  BY KinFields DEF Flags, Messages
<1>3. /\ s \cap {"INITa", "INITb", "LIVE"} \subseteq p.state
      /\ "DOWN" \in s <=> "DOWN" \in p.state
      /\ "LIVE" \in s <=> "LIVE" \in p.state
  OBVIOUS
<1> HIDE DEF s, m, a, b, c, d
<1>4. p1 \in Structs /\ Kin(p, p1) /\ p1.state = s
  BY <1>2, <1>3, KinSet
<1> QED  BY <1>1, <1>3, <1>4

\* pkreset, of an end that has written and read nothing.
LEMMA ResetIs ==
    ASSUME NEW p \in Structs, p.ps = 0, p.pr = 0
    PROVE  pkreset(p) \in Structs /\ Kin(p, pkreset(p)) /\ pkreset(p).state = p.state
<1> DEFINE s == p.state
           m == p.msg
           a == 0
           b == 1
           c == p.connodata
           d == p.ntimeout
           p1 == WithFields(p, s, m, a, b, c, d)
<1>1. pkreset(p) = p1
  BY DEF pkreset, WithFields, Structs
<1>2. /\ s \in SUBSET Flags /\ m \in SUBSET Messages /\ a \in Seq8 /\ b \in Seq8
      /\ c \in Nat /\ d \in Nat
  BY KinFields DEF Seq8
<1>3. s \cap {"INITa", "INITb", "LIVE"} \subseteq p.state /\ s = p.state
  OBVIOUS
<1> HIDE DEF s, m, a, b, c, d
<1>4. p1 \in Structs /\ Kin(p, p1) /\ p1.state = s
  BY <1>2, <1>3, KinSet
<1> QED  BY <1>1, <1>3, <1>4

\* pkwrite takes a packet.
LEMMA QueueIs ==
    ASSUME NEW p \in Structs, NEW b \in Bodies
    PROVE  LET p1 == QueuePacket(p, b)
               x == next(p.pscopy)
           IN  /\ p1 \in Structs /\ InputSame(p, p1) /\ x \in Seq8
               /\ p1.os[x] # {} /\ p1.ob[x] = b
               /\ \A y \in Seq8 \ {x} : p1.os[y] = p.os[y] /\ p1.ob[y] = p.ob[y]
               /\ p1.ps = p.ps /\ p1.pr = p.pr /\ p1.pscopy = x /\ p1.in = p.in /\ p1.imap = p.imap
               /\ p1.xcount = p.xcount + 1 /\ p1.rwindow = p.rwindow
               /\ p1.swindow = p.swindow /\ p1.lpsize = p.lpsize /\ p1.state = p.state
<1> DEFINE x == next(p.pscopy)
           o == [p.os EXCEPT ![x] = {"READY"}]
           d == [p.ob EXCEPT ![x] = b]
           k == p.xcount + 1
           p1 == [p EXCEPT !.os = o, !.ob = d, !.pscopy = x, !.xcount = k]
<1>1. QueuePacket(p, b) = p1
  BY DEF QueuePacket, Structs
<1>2. x \in Seq8
  BY KinFields, NextIn
<1> HIDE DEF x
<1>3. /\ o \in [Seq8 -> SUBSET {"READY", "SENT"}] /\ o[x] = {"READY"}
      /\ \A y \in Seq8 \ {x} : o[y] = p.os[y]
  BY <1>2 DEF Structs
<1>4. d \in [Seq8 -> Bodies] /\ d[x] = b /\ \A y \in Seq8 \ {x} : d[y] = p.ob[y]
  BY <1>2 DEF Structs
<1>5. k \in Int
  BY KinFields
<1>6. k = p.xcount + 1
  OBVIOUS
<1> HIDE DEF o, d, k
<1>7. p1 \in Structs
  BY <1>2, <1>3, <1>4, <1>5 DEF Structs
<1>8. /\ p1.os = o /\ p1.ob = d /\ p1.pscopy = x /\ p1.xcount = k
      /\ p1.ps = p.ps /\ p1.pr = p.pr /\ p1.in = p.in /\ p1.imap = p.imap
      /\ p1.ipool = p.ipool /\ p1.rcount = p.rcount /\ p1.rwindow = p.rwindow
      /\ p1.rsize = p.rsize /\ p1.swindow = p.swindow /\ p1.lpsize = p.lpsize
      /\ p1.state = p.state
  BY DEF Structs
<1> HIDE DEF p1
<1>9. InputSame(p, p1)
  BY <1>8 DEF InputSame
<1>10. p1.os[x] # {}
  BY <1>3, <1>8
<1> QED  BY <1>1, <1>2, <1>3, <1>4, <1>6, <1>7, <1>8, <1>9, <1>10 DEF x

-----------------------------------------------------------------------------
(***************************************************************************)
(* pkclose.                                                                *)
(***************************************************************************)
\* On its way through pkclose the driver p has come to a.p and written a.out.
Draining(p, q, S, R, T, U, lp, lq, rp, rq, a) ==
    /\ a = [p |-> a.p, out |-> a.out] /\ a.p \in Structs /\ Kin(p, a.p)
    /\ a.out \in Lines /\ Link(a.p, q, S, R, T, U, lp, lq \o a.out, rp, rq)
    /\ SizeL(lq \o a.out, a.p)

\* Such a step keeps the link.
LEMMA KinLink ==
    ASSUME NEW p, NEW p1, Kin(p, p1), NEW q, NEW S, NEW R, NEW T, NEW U,
           NEW lp, NEW lq, NEW rp, NEW rq, Link(p, q, S, R, T, U, lp, lq, rp, rq)
    PROVE  Link(p1, q, S, R, T, U, lp, lq, rp, rq)
  BY LinkAlike DEF Kin

\* And the sizes.
LEMMA KinSizes ==
    ASSUME NEW p, NEW p1, Kin(p, p1)
    PROVE  /\ \A l : SizeL(l, p) => SizeL(l, p1)
           /\ \A q, up : SizeP(p, q, up) => SizeP(p1, q, up)
           /\ \A q, up : SizeP(q, p, up) => SizeP(q, p1, up)
<1>1. p1.rwindow = p.rwindow /\ p1.rsize = p.rsize
  BY DEF Kin, InputSame
<1>2. ASSUME NEW l, SizeL(l, p) PROVE SizeL(l, p1)
  BY <1>1, <1>2, SizeSame
<1>3. ASSUME NEW q, NEW up, SizeP(p, q, up) PROVE SizeP(p1, q, up)
  BY <1>3, SizeKept DEF Kin
<1>4. ASSUME NEW q, NEW up, SizeP(q, p, up) PROVE SizeP(q, p1, up)
  BY <1>1, <1>4 DEF SizeP
<1> QED  BY <1>2, <1>3, <1>4

\* pkoutput once more.
LEMMA DrainStep ==
    ASSUME NEW p \in Structs, NEW q \in Structs, NEW S, NEW R, NEW T, NEW U,
           NEW lp \in Lines, NEW lq \in Lines, NEW rp, NEW rq, S > R /\ rq => U = T,
           NEW a, Draining(p, q, S, R, T, U, lp, lq, rp, rq, a),
           NEW r \in Structs, Kin(a.p, r)
    PROVE  Draining(p, q, S, R, T, U, lp, lq, rp, rq,
                    [p |-> pkoutput(r), out |-> a.out \o Transmitted(r)])
<1> DEFINE l == lq \o a.out
<1>1. a.p \in Structs /\ Kin(p, a.p) /\ a.out \in Lines /\ SizeL(l, a.p)
      /\ Link(a.p, q, S, R, T, U, lp, l, rp, rq)
  BY DEF Draining
<1>2. l \in Lines
  BY <1>1 DEF Lines
<1>3. Transmitted(r) \in Lines
  <2>1. <<>> \in Lines /\ \A g \in LineFrames : <<g>> \in Lines
    BY DEF Lines
  <2> QED  BY <2>1, TransmittedIs
<1>4. lq \o (a.out \o Transmitted(r)) = l \o Transmitted(r) /\ a.out \o Transmitted(r) \in Lines
  <2> DEFINE t == Transmitted(r)
             o == a.out
  <2>1. t \in Seq(LineFrames) /\ o \in Seq(LineFrames) /\ lq \in Seq(LineFrames)
    BY <1>1, <1>3 DEF Lines
  <2> HIDE DEF t, o
  <2>2. (lq \o o) \o t = lq \o (o \o t)
    BY <2>1, ConcatAssociative
  <2>3. o \o t \in Seq(LineFrames)
    BY <2>1
  <2> QED  BY <2>2, <2>3 DEF t, o, Lines
<1> HIDE DEF l
<1>5. Link(r, q, S, R, T, U, lp, l, rp, rq) /\ SizeL(l, r)
  BY <1>1, KinLink, KinSizes
<1>6. Link(pkoutput(r), q, S, R, T, U, lp, l \o Transmitted(r), rp, rq)
  BY <1>2, <1>5, LinkOutput
<1>7. pkoutput(r) \in Structs /\ Kin(r, pkoutput(r))
  BY KinOutput
<1>8. SizeL(l \o Transmitted(r), pkoutput(r))
  BY <1>2, <1>5, <1>7, SizeOutput, KinSizes
<1>9. Kin(p, pkoutput(r))
  BY <1>1, <1>7, KinTransitive
<1> QED  BY <1>4, <1>6, <1>7, <1>8, <1>9 DEF Draining

\* The loop of pkclose that reads what is left of the line, as a whole.
LEMMA DrainedIs ==
    ASSUME NEW p \in Structs, NEW q \in Structs, NEW S, NEW R, NEW T, NEW U,
           NEW lp \in Lines, NEW lq \in Lines, NEW rp, NEW rq, S > R /\ Holds(rq) => U = T,
           Link(p, q, S, R, T, U, lp, lq, rp, rq), SizeL(lq, p)
    PROVE  Draining(p, q, S, R, T, U, lp, lq, rp, rq, Drained(p))
<1> DEFINE OK(a) == Draining(p, q, S, R, T, U, lp, lq, rp, rq, a)
           Out(a, r) == [p |-> pkoutput(r), out |-> a.out \o Transmitted(r)]
           Down(r) == [r EXCEPT !.state = @ \cup {"DOWN"}]
           Close(r) == [r EXCEPT !.msg = {"CLOSE"}]
           p0 == [p EXCEPT !.state = @ \cup {"DRAINO"}]
           a0 == [p |-> p0, out |-> <<>>]
           a1 == Flush(a0)
           a2 == Flush(a1)
           a3 == [p |-> Down(a2.p), out |-> a2.out]
<1>1. ASSUME NEW r \in Structs, NEW x \in {"DRAINO", "DOWN"}
      PROVE  LET r1 == [r EXCEPT !.state = @ \cup {x}] IN r1 \in Structs /\ Kin(r, r1)
  <2> DEFINE s == r.state \cup {x}
             m == r.msg
             a == r.rpr
             b == r.nxtps
             c == r.connodata
             d == r.ntimeout
  <2>1. [r EXCEPT !.state = @ \cup {x}] = WithFields(r, s, m, a, b, c, d)
    BY DEF WithFields, Structs
  <2>2. /\ s \in SUBSET Flags /\ m \in SUBSET Messages /\ a \in Seq8 /\ b \in Seq8
        /\ c \in Nat /\ d \in Nat
    BY KinFields DEF Flags
  <2>3. s \cap {"INITa", "INITb", "LIVE"} \subseteq r.state
    OBVIOUS
  <2> HIDE DEF s, m, a, b, c, d
  <2> DEFINE w == WithFields(r, s, m, a, b, c, d)
  <2>4. w \in Structs /\ Kin(r, w)
    BY <2>2, <2>3, KinSet
  <2> HIDE DEF w
  <2>5. [r EXCEPT !.state = @ \cup {x}] = w
    BY <2>1 DEF w
  <2> QED  BY <2>4, <2>5
<1>2. ASSUME NEW r \in Structs PROVE Close(r) \in Structs /\ Kin(r, Close(r))
  <2> DEFINE s == r.state
             m == {"CLOSE"}
             a == r.rpr
             b == r.nxtps
             c == r.connodata
             d == r.ntimeout
  <2>1. Close(r) = WithFields(r, s, m, a, b, c, d)
    BY DEF WithFields, Structs
  <2>2. /\ s \in SUBSET Flags /\ m \in SUBSET Messages /\ a \in Seq8 /\ b \in Seq8
        /\ c \in Nat /\ d \in Nat
    BY KinFields DEF Messages
  <2>3. s \cap {"INITa", "INITb", "LIVE"} \subseteq r.state
    OBVIOUS
  <2> HIDE DEF s, m, a, b, c, d, Close
  <2> QED  BY <2>1, <2>2, <2>3, KinSet
<1>3. Drained(p) = Farewell(Farewell([a2 EXCEPT !.p.state = @ \cup {"DOWN"}]))
  BY DEF Drained
<1>4. OK(a0)
  <2>1. p0 \in Structs /\ Kin(p, p0)
    BY <1>1
  <2> HIDE DEF p0
  <2>2. Link(p0, q, S, R, T, U, lp, lq, rp, rq) /\ SizeL(lq, p0)
    BY <2>1, KinLink, KinSizes
  <2>3. lq \o <<>> = lq /\ <<>> \in Lines
    BY DEF Lines
  <2> QED  BY <2>1, <2>2, <2>3 DEF Draining
<1>5. ASSUME NEW a, OK(a) PROVE OK(Flush(a))
  <2>1. a.p \in Structs /\ Kin(a.p, a.p)
    BY <1>5 DEF Draining, Kin, LinkSame, InputSame
  <2>2. OK(Out(a, a.p))
    BY <1>5, <2>1, DrainStep DEF Holds
  <2>3. Flush(a) \in {a, Out(a, a.p)}
    BY DEF Flush
  <2> HIDE DEF OK, Out
  <2> QED  BY <1>5, <2>2, <2>3
<1>6. ASSUME NEW a, OK(a) PROVE OK(Farewell(a))
  <2>1. a.p \in Structs
    BY <1>5, <1>6 DEF Draining
  <2>2. Close(a.p) \in Structs /\ Kin(a.p, Close(a.p))
    BY <1>2, <2>1
  <2>3. Farewell(a) \in {a, Out(a, Close(a.p))}
    BY DEF Farewell
  <2> HIDE DEF Close
  <2>4. OK(Out(a, Close(a.p)))
    BY <1>6, <2>2, DrainStep DEF Holds
  <2> HIDE DEF OK, Out
  <2> QED  BY <1>6, <2>3, <2>4
<1>7. OK(a2)
  <2> HIDE DEF OK, a0
  <2> QED  BY <1>4, <1>5
<1> HIDE DEF a2
<1>8. a2.p \in Structs /\ a2 = [p |-> a2.p, out |-> a2.out]
  BY <1>7 DEF Draining
<1>9. Down(a2.p) \in Structs /\ Kin(a2.p, Down(a2.p))
  BY <1>1, <1>8
<1>10. [a2 EXCEPT !.p.state = @ \cup {"DOWN"}] = a3
  BY <1>8
<1> HIDE DEF Down
<1>11. OK(a3)
  <2>1. /\ Kin(p, a2.p) /\ a2.out \in Lines /\ SizeL(lq \o a2.out, a2.p)
        /\ Link(a2.p, q, S, R, T, U, lp, lq \o a2.out, rp, rq)
    BY <1>7 DEF Draining
  <2>2. Kin(p, Down(a2.p)) /\ SizeL(lq \o a2.out, Down(a2.p))
        /\ Link(Down(a2.p), q, S, R, T, U, lp, lq \o a2.out, rp, rq)
    BY <1>9, <2>1, KinTransitive, KinLink, KinSizes
  <2> QED  BY <1>9, <2>1, <2>2 DEF Draining
<1> HIDE DEF a3, OK
<1>12. OK(Farewell(Farewell(a3)))
  BY <1>6, <1>11
<1>13. OK(Drained(p))
  BY <1>3, <1>10, <1>12
<1> QED  BY <1>13 DEF OK

-----------------------------------------------------------------------------
(***************************************************************************)
(* The script: how many packets each end has written and read when it is   *)
(* in a turn.                                                              *)
(***************************************************************************)
Turns2 == [by : Ends, n : Nat \ {0}]

\* The packets of e in turn t of the script s, and in the first t turns.
Share(s, e, t) == IF s[t].by = e THEN s[t].n ELSE 0

First(s, e) ==
    LET b[t \in 0..Len(s)] == IF t = 0 THEN 0 ELSE b[t-1] + Share(s, e, t)
    IN  b

\* e is in turn t, with w packets of it left, has written S packets and read G.
TurnIs(s, e, t, w, S, G) ==
    /\ t \in 1..Len(s)+1
    /\ IF t > Len(s) THEN w = 0 ELSE w \in 1..s[t].n
    /\ S = First(s, e)[t-1] + IF t <= Len(s) /\ s[t].by = e THEN s[t].n - w ELSE 0
    /\ G = First(s, Peer(e))[t-1] + IF t <= Len(s) /\ s[t].by # e THEN s[t].n - w ELSE 0

\* What an end writes in a turn.
LEMMA ShareIn ==
    ASSUME NEW s \in Seq(Turns2), NEW e, NEW t \in 1..Len(s)
    PROVE  Share(s, e, t) \in Nat
<1>1. s[t] \in Turns2
  OBVIOUS
<1>2. s[t].n \in Nat
  BY <1>1 DEF Turns2
<1> QED  BY <1>2 DEF Share

\* What it has written when a turn starts.
LEMMA FirstIs ==
    ASSUME NEW s \in Seq(Turns2), NEW e
    PROVE  /\ First(s, e) \in [0..Len(s) -> Nat] /\ First(s, e)[0] = 0
           /\ \A t \in 1..Len(s) : First(s, e)[t] = First(s, e)[t-1] + Share(s, e, t)
<1> DEFINE n == Len(s)
           base == 0
           add == [k \in 1..n |-> Share(s, e, k)]
           step == [k \in 1..n |-> [x \in Nat |-> x + add[k]]]
           Eq(b) == b = [t \in 0..n |-> IF t = 0 THEN 0 ELSE b[t-1] + Share(s, e, t)]
<1>1. n \in Nat /\ base \in Nat /\ base = 0
  OBVIOUS
<1>2. add \in [1..n -> Nat]
  BY ShareIn
<1>3. \A k \in 1..n : add[k] = Share(s, e, k)
  OBVIOUS
<1> HIDE DEF n, base, add
<1>4. step \in [1..n -> [Nat -> Nat]]
  BY <1>2
<1>5. \A k \in 1..n, x \in Nat : step[k][x] = x + add[k]
  OBVIOUS
<1> HIDE DEF step
<1>6. PICK g : FoldEq(g, n, base, step)
  BY <1>1, FoldHas
<1>7. PICK h : Trace(h, n, Nat, base, step)
  BY <1>1, <1>4, <1>6, FoldOf
<1>8. h \in [0..n -> Nat] /\ h[0] = 0 /\ \A k \in 1..n : h[k] = h[k-1] + Share(s, e, k)
  <2>1. h \in [0..n -> Nat] /\ h[0] = base /\ \A k \in 1..n : h[k] = step[k][h[k-1]]
    BY <1>7 DEF Trace
  <2> SUFFICES ASSUME NEW k \in 1..n PROVE h[k] = h[k-1] + Share(s, e, k)
    BY <1>1, <2>1
  <2>2. h[k-1] \in Nat
    <3>1. k - 1 \in 0..n
      BY <1>1
    <3> QED  BY <2>1, <3>1
  <2> QED  BY <1>3, <1>5, <2>1, <2>2
<1>9. Eq(h)
  <2>1. \A t \in 0..n : t = 0 \/ t \in 1..n
    BY <1>1
  <2> QED  BY <1>8, <2>1
<1>10. First(s, e) = CHOOSE b : Eq(b)
  BY DEF First, n
<1>11. Eq(First(s, e))
  BY <1>9, <1>10
<1> DEFINE b == First(s, e)
<1>12. b = [t \in 0..n |-> IF t = 0 THEN 0 ELSE b[t-1] + Share(s, e, t)]
  BY <1>11
<1> HIDE DEF b, Eq
<1>13. b[0] = 0 /\ \A t \in 1..n : b[t] = b[t-1] + add[t]
  BY <1>1, <1>3, <1>12
<1>14. \A t \in 0..n : b[t] \in Nat
  <2> DEFINE P == {t \in 0..n : b[t] \in Nat}
  <2>1. 0 \in P
    BY <1>1, <1>13
  <2>2. ASSUME NEW t \in 1..n, t - 1 \in P PROVE t \in P
    <3>1. b[t-1] \in Nat /\ add[t] \in Nat /\ t \in 0..n
      BY <1>1, <1>2, <2>2
    <3>2. b[t] = b[t-1] + add[t]
      BY <1>13
    <3> QED  BY <3>1, <3>2
  <2>3. \A t \in 0..n : t \in P
    <3> HIDE DEF P
    <3> QED  BY <1>1, <2>1, <2>2, Climb
  <2> QED  BY <2>3
<1>15. b \in [0..n -> Nat]
  BY <1>12, <1>14
<1> QED  BY <1>3, <1>13, <1>15 DEF b, n

\* Later turns start with more.
LEMMA FirstClimbs ==
    ASSUME NEW s \in Seq(Turns2), NEW e, NEW i \in 0..Len(s), NEW j \in 0..Len(s), i <= j
    PROVE  First(s, e)[i] <= First(s, e)[j]
<1> DEFINE n == Len(s)
           b == First(s, e)
           P == {k \in 0..n : \A m \in 0..k : b[m] <= b[k]}
<1>1. b \in [0..n -> Nat] /\ b[0] = 0 /\ \A t \in 1..n : b[t] = b[t-1] + Share(s, e, t)
  BY FirstIs
<1>2. n \in Nat
  OBVIOUS
<1>3. \A t \in 1..n : Share(s, e, t) \in Nat
  BY ShareIn
<1> HIDE DEF n, b
<1>4. 0 \in P
  BY <1>1, <1>2
<1>5. ASSUME NEW k \in 1..n, k - 1 \in P PROVE k \in P
  <2>1. k \in 0..n /\ k - 1 \in 0..n
    BY <1>2
  <2>2. b[k] = b[k-1] + Share(s, e, k) /\ b[k-1] \in Nat /\ Share(s, e, k) \in Nat
    BY <1>1, <1>3, <2>1
  <2>3. ASSUME NEW m \in 0..k PROVE b[m] <= b[k]
    <3>1. CASE m = k
      BY <1>1, <2>1, <3>1
    <3>2. CASE m # k
      <4>1. m \in 0..(k-1) /\ m \in 0..n
        BY <1>2, <3>2
      <4>2. b[m] <= b[k-1] /\ b[m] \in Nat
        BY <1>1, <1>5, <4>1
      <4> QED  BY <2>2, <4>2
    <3> QED  BY <3>1, <3>2
  <2> QED  BY <2>1, <2>3
<1>6. j \in P
  <2>1. \A k \in 0..n : k \in P
    <3> HIDE DEF P
    <3> QED  BY <1>2, <1>4, <1>5, Climb
  <2>2. j \in 0..n
    BY DEF n
  <2> QED  BY <2>1, <2>2
<1>7. i \in 0..j
  OBVIOUS
<1> QED  BY <1>6, <1>7 DEF b

\* The numbers of an end in its turn.
LEMMA TurnNumbers ==
    ASSUME NEW s \in Seq(Turns2), NEW e \in Ends, NEW t, NEW w, NEW S, NEW G, TurnIs(s, e, t, w, S, G)
    PROVE  /\ t - 1 \in 0..Len(s) /\ t \in Nat /\ w \in Nat
           /\ First(s, e)[t-1] \in Nat /\ First(s, Peer(e))[t-1] \in Nat
           /\ First(s, e)[t-1] <= S /\ First(s, Peer(e))[t-1] <= G
           /\ S \in Nat /\ G \in Nat
           /\ t <= Len(s) => /\ t \in 0..Len(s) /\ s[t] \in Turns2
                             /\ First(s, e)[t] \in Nat /\ S <= First(s, e)[t]
                             /\ First(s, Peer(e))[t] \in Nat /\ G <= First(s, Peer(e))[t]
                             /\ s[t].by = e => S < First(s, e)[t] /\ G = First(s, Peer(e))[t-1]
                             /\ s[t].by # e => S = First(s, e)[t-1]
           /\ t > Len(s) => S = First(s, e)[t-1] /\ G = First(s, Peer(e))[t-1]
<1> DEFINE n == Len(s)
           b == First(s, e)
           c == First(s, Peer(e))
<1>1. b \in [0..n -> Nat] /\ \A i \in 1..n : b[i] = b[i-1] + Share(s, e, i)
  BY FirstIs
<1>2. c \in [0..n -> Nat] /\ \A i \in 1..n : c[i] = c[i-1] + Share(s, Peer(e), i)
  BY FirstIs
<1>3. /\ t \in 1..n+1
      /\ IF t > n THEN w = 0 ELSE w \in 1..s[t].n
      /\ S = b[t-1] + IF t <= n /\ s[t].by = e THEN s[t].n - w ELSE 0
      /\ G = c[t-1] + IF t <= n /\ s[t].by # e THEN s[t].n - w ELSE 0
  BY DEF TurnIs
<1>4. n \in Nat /\ \A i \in 1..n : s[i] \in Turns2
  OBVIOUS
<1> HIDE DEF n, b, c
<1>5. t - 1 \in 0..n /\ t \in Nat /\ (t <= n => t \in 1..n /\ t \in 0..n) /\ (t <= n \/ t > n)
  BY <1>3, <1>4
<1>6. b[t-1] \in Nat /\ c[t-1] \in Nat
  BY <1>1, <1>2, <1>5
<1>7. CASE t > n
  <2>1. ~(t <= n) /\ w = 0
    BY <1>3, <1>4, <1>5, <1>7
  <2>2. S = b[t-1] + 0 /\ G = c[t-1] + 0
    BY <1>3, <2>1
  <2> QED  BY <1>5, <1>6, <1>7, <2>1, <2>2 DEF n, b, c
<1>8. CASE t <= n
  <2>1. ~(t > n) /\ t \in 1..n /\ t \in 0..n /\ s[t] \in Turns2
    BY <1>4, <1>5, <1>8
  <2>2. s[t].n \in Nat \ {0} /\ s[t].by \in Ends /\ w \in 1..s[t].n
    BY <1>3, <2>1 DEF Turns2
  <2>3. b[t] = b[t-1] + Share(s, e, t) /\ c[t] = c[t-1] + Share(s, Peer(e), t)
    BY <1>1, <1>2, <2>1
  <2>4. b[t] \in Nat /\ c[t] \in Nat
    BY <1>1, <1>2, <2>1
  <2> DEFINE m == s[t].n
  <2>5. m \in Nat \ {0} /\ w \in 1..m
    BY <2>2
  <2>6. CASE s[t].by = e
    <3>1. S = b[t-1] + (m - w) /\ G = c[t-1] + 0 /\ b[t] = b[t-1] + m
      BY <1>3, <1>8, <2>3, <2>6 DEF Share
    <3>2. c[t] = c[t-1] + 0 \/ c[t] = c[t-1] + m
      BY <2>3 DEF Share
    <3> HIDE DEF m
    <3> DEFINE x == b[t-1]
               y == c[t-1]
    <3>3. x <= S /\ y <= G /\ S \in Nat /\ G \in Nat /\ S < b[t] /\ S <= b[t]
          /\ G <= c[t] /\ G = y /\ w \in Nat
      <4>1. x \in Nat /\ y \in Nat
        BY <1>6
      <4>2. /\ S = x + (m - w) /\ G = y + 0 /\ b[t] = x + m
            /\ c[t] = y + 0 \/ c[t] = y + m
        BY <3>1, <3>2
      <4> HIDE DEF x, y
      <4> QED  BY <2>5, <4>1, <4>2
    <3> QED  BY <1>5, <1>6, <2>1, <2>4, <2>6, <3>3 DEF n, b, c
  <2>7. CASE s[t].by # e
    <3>1. S = b[t-1] + 0 /\ G = c[t-1] + (m - w) /\ b[t] = b[t-1] + 0
      BY <1>3, <1>8, <2>3, <2>7 DEF Share
    <3>2. s[t].by = Peer(e)
      BY <2>2, <2>7 DEF Ends, Peer
    <3>3. c[t] = c[t-1] + m
      BY <2>3, <3>2 DEF Share
    <3> HIDE DEF m
    <3> DEFINE x == b[t-1]
               y == c[t-1]
    <3>4. x <= S /\ y <= G /\ S \in Nat /\ G \in Nat /\ S <= b[t]
          /\ G <= c[t] /\ S = x /\ w \in Nat
      <4>1. x \in Nat /\ y \in Nat
        BY <1>6
      <4>2. S = x + 0 /\ G = y + (m - w) /\ b[t] = x + 0 /\ c[t] = y + m
        BY <3>1, <3>3
      <4> HIDE DEF x, y
      <4> QED  BY <2>5, <4>1, <4>2
    <3> QED  BY <1>5, <1>6, <2>1, <2>4, <2>7, <3>4 DEF n, b, c
  <2> QED  BY <2>6, <2>7
<1> QED  BY <1>5, <1>7, <1>8

\* The two ends of a script: an end that writes has read all that was
\* written for it; and so has one with a packet the other is to read now.
LEMMA TurnsMeet ==
    ASSUME NEW s \in Seq(Turns2), NEW e \in Ends,
           NEW t, NEW w, NEW S, NEW U, TurnIs(s, e, t, w, S, U),
           NEW u, NEW v, NEW T, NEW R, TurnIs(s, Peer(e), u, v, T, R),
           R <= S, U <= T
    PROVE  /\ t <= Len(s) /\ s[t].by = e => T = U
           /\ S > R /\ u <= Len(s) /\ s[u].by # Peer(e) => U = T
<1> DEFINE n == Len(s)
           f == Peer(e)
           b == First(s, e)
           c == First(s, f)
<1>0. f \in Ends /\ Peer(f) = e /\ e # f /\ n \in Nat
  BY DEF Ends, Peer
<1>1. /\ t - 1 \in 0..n /\ t \in Nat /\ b[t-1] \in Nat /\ c[t-1] \in Nat
      /\ b[t-1] <= S /\ c[t-1] <= U /\ S \in Nat /\ U \in Nat
      /\ t <= n => /\ t \in 0..n /\ s[t] \in Turns2
                   /\ b[t] \in Nat /\ S <= b[t] /\ c[t] \in Nat /\ U <= c[t]
                   /\ s[t].by = e => S < b[t] /\ U = c[t-1]
                   /\ s[t].by # e => S = b[t-1]
      /\ t > n => S = b[t-1] /\ U = c[t-1]
  BY TurnNumbers
<1>2. /\ u - 1 \in 0..n /\ u \in Nat /\ b[u-1] \in Nat /\ c[u-1] \in Nat
      /\ c[u-1] <= T /\ b[u-1] <= R /\ R \in Nat /\ T \in Nat
      /\ u <= n => /\ u \in 0..n /\ s[u] \in Turns2
                   /\ c[u] \in Nat /\ T <= c[u] /\ b[u] \in Nat /\ R <= b[u]
                   /\ s[u].by = f => T < c[u] /\ R = b[u-1]
                   /\ s[u].by # f => T = c[u-1]
      /\ u > n => T = c[u-1] /\ R = b[u-1]
  BY <1>0, TurnNumbers, SMTT(30)
<1>3. \A i, j \in 0..n : i <= j => b[i] <= b[j] /\ c[i] <= c[j]
  BY FirstClimbs
<1>4. s[t].by = f => s[t].by # e
  BY <1>0
<1> HIDE DEF n, f, b, c
<1>5. ASSUME t <= n, s[t].by = e PROVE T = U
  <2>1. S < b[t] /\ U = c[t-1] /\ t \in 0..n /\ b[t] \in Nat
    BY <1>1, <1>5
  <2>2. CASE u > t
    <3>1. t <= u - 1
      BY <1>1, <1>2, <2>2
    <3>2. b[t] <= b[u-1]
      BY <1>2, <1>3, <2>1, <3>1
    <3>3. FALSE
      BY <1>1, <1>2, <2>1, <3>2
    <3> QED  BY <3>3
  <2>3. CASE u = t
    <3>1. T = c[u-1]
      BY <1>0, <1>2, <1>5, <2>3
    <3> QED  BY <2>1, <2>3, <3>1
  <2>4. CASE u < t
    <3>1. u <= n /\ u <= t - 1
      BY <1>0, <1>1, <1>2, <1>5, <2>4
    <3>2. u \in 0..n /\ T <= c[u] /\ c[u] \in Nat
      BY <1>2, <3>1
    <3>3. c[u] <= c[t-1]
      BY <1>1, <1>3, <3>1, <3>2
    <3>4. T <= U
      BY <1>1, <1>2, <2>1, <3>2, <3>3
    <3> QED  BY <1>1, <1>2, <3>4
  <2> QED  BY <1>1, <1>2, <2>2, <2>3, <2>4
<1>6. ASSUME S > R, u <= n, s[u].by # f PROVE U = T
  <2>1. T = c[u-1] /\ u \in 0..n /\ R <= b[u] /\ b[u] \in Nat /\ s[u] \in Turns2
    BY <1>2, <1>6
  <2>2. s[u].by = e
    <3>1. s[u].by \in Ends
      BY <2>1 DEF Turns2
    <3> QED  BY <1>0, <1>6, <3>1 DEF Ends
  <2>3. CASE t < u
    <3>1. t <= n /\ t <= u - 1
      BY <1>0, <1>1, <1>2, <1>6, <2>3
    <3>2. t \in 0..n /\ S <= b[t] /\ b[t] \in Nat
      BY <1>1, <3>1
    <3>3. b[t] <= b[u-1]
      BY <1>2, <1>3, <3>1, <3>2
    <3>4. FALSE
      BY <1>1, <1>2, <1>6, <3>2, <3>3
    <3> QED  BY <3>4
  <2>4. CASE t = u
    BY <1>5, <1>6, <2>2, <2>4
  <2>5. CASE t > u
    <3>1. u - 1 <= t - 1
      BY <1>1, <1>2, <2>5
    <3>2. c[u-1] <= c[t-1]
      BY <1>1, <1>2, <1>3, <3>1
    <3>3. T <= U
      BY <1>1, <1>2, <2>1, <3>2
    <3> QED  BY <1>1, <1>2, <3>3
  <2> QED  BY <1>1, <1>2, <2>3, <2>4, <2>5
<1> QED  BY <1>5, <1>6 DEF n, f

\* One packet more.
LEMMA TurnAdvances ==
    ASSUME NEW s \in Seq(Turns2), NEW e \in Ends,
           NEW t, NEW w, NEW S, NEW G, TurnIs(s, e, t, w, S, G), t <= Len(s),
           NEW S1, NEW G1,
           IF s[t].by = e THEN S1 = S + 1 /\ G1 = G ELSE S1 = S /\ G1 = G + 1
    PROVE  /\ w > 1 => TurnIs(s, e, t, w - 1, S1, G1)
           /\ ~(w > 1) => TurnIs(s, e, t + 1, IF t + 1 \in DOMAIN s THEN s[t + 1].n ELSE 0, S1, G1)
<1> DEFINE n == Len(s)
           f == Peer(e)
           b == First(s, e)
           c == First(s, f)
           m == s[t].n
<1>1. t \in 1..n /\ n \in Nat /\ t - 1 \in 0..n /\ t \in 0..n
  BY TurnNumbers DEF TurnIs
<1>2. s[t] \in Turns2
  BY <1>1
<1>3. m \in Nat \ {0} /\ s[t].by \in Ends
  BY <1>2 DEF Turns2
<1>4. /\ w \in 1..m
      /\ S = b[t-1] + IF s[t].by = e THEN m - w ELSE 0
      /\ G = c[t-1] + IF s[t].by # e THEN m - w ELSE 0
  BY <1>1 DEF TurnIs
<1>5. /\ b[t] = b[t-1] + IF s[t].by = e THEN m ELSE 0
      /\ c[t] = c[t-1] + IF s[t].by = f THEN m ELSE 0
      /\ b[t-1] \in Nat /\ c[t-1] \in Nat
  <2>1. b \in [0..n -> Nat] /\ \A i \in 1..n : b[i] = b[i-1] + Share(s, e, i)
    BY FirstIs
  <2>2. c \in [0..n -> Nat] /\ \A i \in 1..n : c[i] = c[i-1] + Share(s, f, i)
    BY FirstIs
  <2>3. Share(s, e, t) = (IF s[t].by = e THEN m ELSE 0) /\ Share(s, f, t) = (IF s[t].by = f THEN m ELSE 0)
    BY DEF Share
  <2> HIDE DEF b, c, f, m, n
  <2> QED  BY <1>1, <2>1, <2>2, <2>3
<1>6. s[t].by = f <=> s[t].by # e
  BY <1>3 DEF Ends, Peer
<1>7. DOMAIN s = 1..n
  OBVIOUS
<1>8. \A i \in 1..n : s[i].n \in Nat \ {0}
  <2> SUFFICES ASSUME NEW i \in 1..n PROVE s[i].n \in Nat \ {0}
    OBVIOUS
  <2>1. s[i] \in Turns2
    OBVIOUS
  <2> QED  BY <2>1 DEF Turns2
<1> HIDE DEF b, c, m, f, n
<1>9. ASSUME w > 1 PROVE TurnIs(s, e, t, w - 1, S1, G1)
  <2>1. w - 1 \in 1..m
    BY <1>3, <1>4, <1>9
  <2>2. S1 = b[t-1] + IF s[t].by = e THEN m - (w - 1) ELSE 0
    BY <1>3, <1>4, <1>5, SMTT(30)
  <2>3. G1 = c[t-1] + IF s[t].by # e THEN m - (w - 1) ELSE 0
    BY <1>3, <1>4, <1>5, SMTT(30)
  <2>4. t \in 1..Len(s)+1 /\ t <= Len(s) /\ ~(t > Len(s))
    BY <1>1 DEF n
  <2> QED  BY <2>1, <2>2, <2>3, <2>4 DEF TurnIs, b, c, m, f
<1>10. ASSUME ~(w > 1)
       PROVE  TurnIs(s, e, t + 1, IF t + 1 \in DOMAIN s THEN s[t + 1].n ELSE 0, S1, G1)
  <2>1. w = 1
    BY <1>3, <1>4, <1>10
  <2>2. S1 = b[t] /\ G1 = c[t] /\ S1 \in Nat /\ G1 \in Nat
    <3> DEFINE x == b[t-1]
               y == c[t-1]
               mine == s[t].by = e
    <3>1. /\ S = x + IF mine THEN m - 1 ELSE 0
          /\ G = y + IF mine THEN 0 ELSE m - 1
          /\ b[t] = x + IF mine THEN m ELSE 0
          /\ c[t] = y + IF mine THEN 0 ELSE m
          /\ IF mine THEN S1 = S + 1 /\ G1 = G ELSE S1 = S /\ G1 = G + 1
      BY <1>4, <1>5, <1>6, <2>1
    <3>2. x \in Nat /\ y \in Nat /\ m \in Nat \ {0}
      BY <1>3, <1>5
    <3> HIDE DEF x, y, mine
    <3>3. CASE mine
      BY <3>1, <3>2, <3>3
    <3>4. CASE ~mine
      BY <3>1, <3>2, <3>4
    <3> QED  BY <3>3, <3>4
  <2>3. t + 1 \in 1..n+1 /\ (t + 1) - 1 = t
    BY <1>1
  <2>4. CASE t + 1 <= n
    <3> DEFINE k == s[t + 1].n
    <3>1. t + 1 \in 1..n /\ ~(t + 1 > n)
      BY <1>1, <2>4
    <3>2. k \in 1..k /\ k - k = 0 /\ k \in Nat
      BY <1>8, <3>1
    <3>3. S1 = b[t] + IF s[t+1].by = e THEN k - k ELSE 0
      BY <2>2, <3>2
    <3>4. G1 = c[t] + IF s[t+1].by # e THEN k - k ELSE 0
      BY <2>2, <3>2
    <3> HIDE DEF k
    <3>5. /\ t + 1 \in 1..Len(s)+1 /\ t + 1 <= Len(s) /\ ~(t + 1 > Len(s)) /\ t + 1 \in DOMAIN s
      BY <1>7, <2>3, <2>4, <3>1 DEF n
    <3> QED  BY <2>3, <3>2, <3>3, <3>4, <3>5 DEF TurnIs, b, c, f, k
  <2>5. CASE ~(t + 1 <= n)
    <3>1. t + 1 \notin DOMAIN s /\ t + 1 > n
      BY <1>1, <1>7, <2>5
    <3>2. S1 = b[t] + 0 /\ G1 = c[t] + 0
      BY <2>2
    <3>3. /\ t + 1 \in 1..Len(s)+1 /\ ~(t + 1 <= Len(s)) /\ t + 1 > Len(s)
      BY <2>3, <2>5, <3>1 DEF n
    <3> QED  BY <2>3, <3>1, <3>2, <3>3 DEF TurnIs, b, c, f
  <2> QED  BY <2>4, <2>5
<1> QED  BY <1>9, <1>10

-----------------------------------------------------------------------------
(***************************************************************************)
(* The invariant.                                                          *)
(***************************************************************************)
Got(e) == Len(rcvd[e])

\* Where an end with the driver p can be: c is its place, n its tries, S and
\* G are the packets it has written and read, w and r say that it writes or
\* reads in its turn.
PlaceIs(p, c, n, S, G, w, r) ==
    /\ c \in {"open", "noopen"} => S = 0 /\ G = 0 /\ "LIVE" \notin p.state
    /\ c = "full" => w /\ p.xcount >= p.swindow
    /\ "DOWN" \in p.state /\ c \in {"open", "run", "full"} => n = 0
    /\ "DOWN" \in p.state /\ c = "run" =>
          (w /\ p.xcount >= p.swindow) \/ (r /\ p.imap = {})

TypesOK ==
    /\ scenario \in Scenarios
    /\ pk \in [Ends -> Structs] /\ line \in [Ends -> Lines]
    /\ pc \in [Ends -> Places] /\ tries \in [Ends -> 0..GETRIES-1]
    /\ opens \in [Ends -> Nat] /\ turn \in [Ends -> Nat] /\ left \in [Ends -> Nat]
    /\ sent \in [Ends -> Nat] /\ rcvd \in [Ends -> Seq(Nat)]
    /\ faults \in 0..MaxFaults

Live(c) == c \notin {"open", "noopen"}

EndOK(e) ==
    /\ pk[e].rwindow \in scenario.windows
    /\ InputOK(pk[e], FaultKinds)
    /\ PlaceIs(pk[e], pc[e], tries[e], sent[e], Got(e), Writes(e), Reads(e))
    /\ TurnIs(Script, e, turn[e], left[e], sent[e], Got(e))
    /\ SizeP(pk[e], pk[Peer(e)], Live(pc[e])) /\ SizeL(line[e], pk[Peer(e)])
    /\ rcvd[e] = [i \in 1..Got(e) |-> i]

LinkOK(e) ==
    Link(pk[e], pk[Peer(e)], sent[e], Got(Peer(e)), sent[Peer(e)], Got(e),
         line[e], line[Peer(e)], Reads(e), Reads(Peer(e)))

Inv == TypesOK /\ \A e \in Ends : EndOK(e) /\ LinkOK(e)

-----------------------------------------------------------------------------
(***************************************************************************)
(* What a step has to leave behind for the invariant to hold again         *)
(***************************************************************************)
\* What the assumption says of the scenario.
LEMMA ScenarioIs ==
    ASSUME scenario \in Scenarios
    PROVE  /\ Script \in Seq(Turns2) /\ ICount \in Nat \ {0} /\ MaxFaults \in Nat
           /\ scenario.windows \subseteq 1..7 /\ scenario.windows # {}
           /\ scenario.sizes \subseteq PacketSizes
           /\ GETRIES \in Nat \ {0}
<1>1. scenario \in ScenarioType /\ {GETRIES, CONNODATA, NTIMEOUT, PKMAXSTMSG} \subseteq Nat \ {0}
  BY ConversationAssumption
<1>2. scenario.windows \in (SUBSET (1..7)) \ {{}} /\ scenario.script \in Seq(Turns2)
      /\ scenario.icount \in Nat \ {0} /\ scenario.most \in Nat
  BY <1>1 DEF ScenarioType, Turns2
<1>3. scenario.sizes \subseteq PacketSizes
  <2> DEFINE W == (SUBSET (1..7)) \ {{}}
             Z == (SUBSET (32..4096)) \ {{}}
  <2>1. ScenarioType =
            [script : Seq([by : Ends, n : Nat \ {0}]), windows : W, sizes : Z,
             icount : Nat \ {0},
             kinds : SUBSET {"delay", "lose", "header", "body", "noise", "cut", "hangup"},
             most : Nat]
    BY Zenon DEF ScenarioType
  <2> HIDE DEF W, Z
  <2>2. scenario.sizes \in Z
    BY <1>1, <2>1
  <2> QED  BY <2>2 DEF Z, PacketSizes
<1>4. scenario.windows \subseteq 1..7 /\ scenario.windows # {}
  BY <1>2
<1>5. GETRIES \in Nat \ {0}
  BY <1>1
<1> QED  BY <1>2, <1>3, <1>4, <1>5 DEF Script, ICount, MaxFaults

\* There are two ends.
LEMMA PeerIs ==
    ASSUME NEW e \in Ends
    PROVE  /\ Peer(e) \in Ends /\ Peer(Peer(e)) = e /\ Peer(e) # e
           /\ \A x \in Ends : x = e \/ x = Peer(e)
  BY DEF Ends, Peer

\* A link seen from the other end.
LEMMA LinkTurnRound ==
    ASSUME NEW p, NEW q, NEW S, NEW R, NEW T, NEW U, NEW lp, NEW lq, NEW rp, NEW rq,
           Link(p, q, S, R, T, U, lp, lq, rp, rq)
    PROVE  Link(q, p, T, U, S, R, lq, lp, rq, rp)
  BY DEF Link

\* What a step of e takes and hands out: the other end's own counts stand.
Moves(e) ==
    LET f == Peer(e)
    IN  /\ pk'[f] = pk[f] /\ sent'[f] = sent[f] /\ rcvd'[f] = rcvd[f]
        /\ \/ sent'[e] = sent[e] /\ rcvd'[e] = rcvd[e] /\ pk'[e].xcount <= pk[e].xcount
           \/ /\ sent'[e] = sent[e] + 1 /\ rcvd'[e] = rcvd[e]
              /\ pk'[e].xcount = pk[e].xcount + 1 /\ pk[e].xcount < pk[f].rwindow
           \/ sent'[e] = sent[e] /\ pk'[e].xcount = pk[e].xcount /\ Got(e)' = Got(e) + 1

\* An end takes a step: what it leaves behind makes up the invariant.
LEMMA Rejoin ==
    ASSUME Inv, NEW e \in Ends, NEW f, f = Peer(e), scenario' = scenario, TypesOK',
           NEW p1 \in Structs, pk' = [pk EXCEPT ![e] = p1],
           pc'[f] = pc[f], tries'[f] = tries[f], turn'[f] = turn[f], left'[f] = left[f],
           sent'[f] = sent[f], rcvd'[f] = rcvd[f],
           p1.rwindow = pk[e].rwindow, p1.rsize = pk[e].rsize, InputOK(p1, FaultKinds),
           PlaceIs(p1, pc'[e], tries'[e], sent'[e], Got(e)', Writes(e)', Reads(e)'),
           TurnIs(Script, e, turn'[e], left'[e], sent'[e], Got(e)'),
           SizeP(p1, pk[f], Live(pc'[e])), SizeL(line'[e], pk[f]), SizeL(line'[f], p1),
           rcvd'[e] = [i \in 1..Got(e)' |-> i],
           Link(p1, pk[f], sent'[e], Got(f), sent[f], Got(e)', line'[e], line'[f],
                Reads(e)', Reads(f))
    PROVE  Inv'
<1>1. f \in Ends /\ Peer(f) = e /\ f # e /\ \A x \in Ends : x = e \/ x = f
  BY PeerIs
<1>2. pk'[e] = p1 /\ pk'[f] = pk[f]
  BY <1>1 DEF Inv, TypesOK
<1>3. Script' = Script /\ FaultKinds' = FaultKinds
  BY DEF Script, FaultKinds
<1>4. Writes(f)' = Writes(f) /\ Reads(f)' = Reads(f) /\ Got(f)' = Got(f)
  BY <1>3 DEF Writes, Reads, Finished, Got
<1>5. EndOK(f)
  BY <1>1 DEF Inv
<1>6. EndOK(e)'
  <2>1. pk[e].rwindow \in scenario.windows
    BY DEF Inv, EndOK
  <2> QED  BY <1>2, <1>3, <2>1 DEF EndOK
<1>7. EndOK(f)'
  <2>1. SizeP(pk[f], p1, Live(pc[f]))
    BY <1>1, <1>5 DEF EndOK, SizeP
  <2>2. /\ pk[f].rwindow \in scenario.windows /\ InputOK(pk[f], FaultKinds)
        /\ PlaceIs(pk[f], pc[f], tries[f], sent[f], Got(f), Writes(f), Reads(f))
        /\ TurnIs(Script, f, turn[f], left[f], sent[f], Got(f))
        /\ rcvd[f] = [i \in 1..Got(f) |-> i]
    BY <1>5 DEF EndOK
  <2> QED  BY <1>1, <1>2, <1>3, <1>4, <2>1, <2>2 DEF EndOK
<1>8. LinkOK(e)'
  BY <1>2, <1>4 DEF LinkOK
<1>9. LinkOK(f)'
  <2>1. Link(pk[f], p1, sent[f], Got(e)', sent'[e], Got(f), line'[f], line'[e],
             Reads(f), Reads(e)')
    BY LinkTurnRound
  <2> QED  BY <1>1, <1>2, <1>4, <2>1 DEF LinkOK
<1> QED  BY <1>1, <1>6, <1>7, <1>8, <1>9 DEF Inv

\* The same for a step that takes no packet from its caller and hands out none.
LEMMA RejoinSame ==
    ASSUME Inv, NEW e \in Ends, NEW f, f = Peer(e), scenario' = scenario,
           UNCHANGED <<turn, left, sent, rcvd>>,
           NEW p1 \in Structs, pk' = [pk EXCEPT ![e] = p1], line' \in [Ends -> Lines],
           NEW c \in Places, pc' = [pc EXCEPT ![e] = c],
           NEW n \in 0..GETRIES-1, tries' = [tries EXCEPT ![e] = n],
           opens' \in [Ends -> Nat], faults' \in 0..MaxFaults,
           p1.rwindow = pk[e].rwindow, p1.rsize = pk[e].rsize, InputOK(p1, FaultKinds),
           PlaceIs(p1, c, n, sent[e], Got(e), Writes(e), Reads(e)),
           SizeP(p1, pk[f], Live(c)), SizeL(line'[e], pk[f]), SizeL(line'[f], p1),
           Link(p1, pk[f], sent[e], Got(f), sent[f], Got(e), line'[e], line'[f],
                Reads(e), Reads(f)),
           p1.xcount <= pk[e].xcount
    PROVE  Inv' /\ Moves(e)
<1>1. f \in Ends /\ f # e
  BY PeerIs
<1>2. TypesOK
  BY DEF Inv
<1>3. /\ pk'[e] = p1 /\ pk'[f] = pk[f] /\ pc'[e] = c /\ pc'[f] = pc[f]
      /\ tries'[e] = n /\ tries'[f] = tries[f]
  BY <1>1, <1>2 DEF TypesOK
<1>4. Writes(e)' = Writes(e) /\ Reads(e)' = Reads(e) /\ Got(e)' = Got(e)
  BY DEF Writes, Reads, Finished, Got, Script
<1>5. TypesOK'
  <2>1. pk' \in [Ends -> Structs] /\ pc' \in [Ends -> Places] /\ tries' \in [Ends -> 0..GETRIES-1]
    BY <1>2 DEF TypesOK
  <2> QED  BY <1>2, <2>1 DEF TypesOK, MaxFaults
<1>6. EndOK(e)
  BY DEF Inv
<1>7. Inv'
  <2>1. TurnIs(Script, e, turn[e], left[e], sent[e], Got(e)) /\ rcvd[e] = [i \in 1..Got(e) |-> i]
    BY <1>6 DEF EndOK
  <2> QED  BY <1>1, <1>3, <1>4, <1>5, <2>1, Rejoin
<1>8. Moves(e)
  BY <1>3 DEF Moves
<1> QED  BY <1>7, <1>8

-----------------------------------------------------------------------------
(***************************************************************************)
(* A step that waits for a frame: what it sends and what it returns        *)
(***************************************************************************)
\* What the invariant says of two ends in their turns.
LEMMA EndsMeet ==
    ASSUME Inv, NEW e \in Ends, NEW f, f = Peer(e)
    PROVE  /\ Writes(e) => sent[f] = Got(e)
           /\ sent[e] > Got(f) /\ Reads(f) => Got(e) = sent[f]
<1>1. f \in Ends /\ scenario \in Scenarios /\ pk[e] \in Structs /\ pk[f] \in Structs
  BY PeerIs DEF Inv, TypesOK
<1>2. LinkOK(e) /\ EndOK(e) /\ EndOK(f)
  BY <1>1 DEF Inv
<1>3. Got(f) <= sent[e] /\ Got(e) <= sent[f]
  BY <1>1, <1>2, LinkNumbers DEF LinkOK
<1>4. Script \in Seq(Turns2)
  BY <1>1, ScenarioIs
<1>5. /\ TurnIs(Script, e, turn[e], left[e], sent[e], Got(e))
      /\ TurnIs(Script, Peer(e), turn[f], left[f], sent[f], Got(f))
  BY <1>2 DEF EndOK
<1>6. turn[e] \in Nat /\ turn[f] \in Nat /\ Len(Script) \in Nat
  BY <1>1, <1>4 DEF Inv, TypesOK
<1>7. /\ turn[e] <= Len(Script) /\ Script[turn[e]].by = e => sent[f] = Got(e)
      /\ sent[e] > Got(f) /\ turn[f] <= Len(Script) /\ Script[turn[f]].by # Peer(e) =>
            Got(e) = sent[f]
  BY <1>3, <1>4, <1>5, TurnsMeet
<1>8. (~(turn[e] > Len(Script)) => turn[e] <= Len(Script)) /\ (~(turn[f] > Len(Script)) => turn[f] <= Len(Script))
  BY <1>6
<1> QED  BY <1>7, <1>8 DEF Writes, Reads, Finished

\* An end that is in pkgetpack, past the test on entry.
LEMMA ListensIs ==
    ASSUME Inv, NEW e \in Ends, Listens(e)
    PROVE  /\ pc[e] \in {"open", "run", "full"} /\ "DOWN" \notin pk[e].state
           /\ pc[e] = "run" => Reads(e) /\ pk[e].imap = {}
           /\ pc[e] = "full" => Writes(e) /\ pk[e].xcount >= pk[e].swindow
           /\ pc[e] = "open" => sent[e] = 0 /\ Got(e) = 0 /\ "LIVE" \notin pk[e].state
<1>1. PlaceIs(pk[e], pc[e], tries[e], sent[e], Got(e), Writes(e), Reads(e))
  BY DEF Inv, EndOK
<1>2. pc[e] \in {"open", "run", "full"}
  BY DEF Listens, Waits
<1>3. "DOWN" \notin pk[e].state
  <2>1. SUFFICES ASSUME "DOWN" \in pk[e].state PROVE FALSE
    OBVIOUS
  <2>2. tries[e] = 0
    BY <1>1, <1>2, <2>1 DEF PlaceIs
  <2>3. ~ (tries[e] > 0)
    BY <2>2
  <2> QED  BY <2>1, <2>3 DEF Listens, GivesUp
<1>4. pc[e] = "run" => Reads(e) /\ pk[e].imap = {}
  BY DEF Listens, Waits, HasInput
<1> QED  BY <1>1, <1>2, <1>3, <1>4 DEF PlaceIs

\* What a step transmits arrives behind what is on the line, or nowhere.
LEMMA CarryIs ==
    ASSUME NEW l \in [Ends -> Lines], NEW f \in Ends, NEW out, l[f] \o out \in Lines
    PROVE  /\ Carry(l, f, out) \in [Ends -> Lines]
           /\ Carry(l, f, out)[f] \in {l[f], l[f] \o out}
           /\ \A x \in Ends : x # f => Carry(l, f, out)[x] = l[x]
  BY DEF Carry

\* The end writes what pkoutput gives it, to one that reads or is gone.
LEMMA Sends ==
    ASSUME NEW p \in Structs, NEW q \in Structs, NEW S, NEW R, NEW T, NEW U,
           NEW lp \in Lines, NEW lq \in Lines, NEW rp, NEW rq, S > R /\ Holds(rq) => U = T,
           Link(p, q, S, R, T, U, lp, lq, rp, rq), SizeL(lq, p),
           NEW m, m = lq \/ m = lq \o Transmitted(p)
    PROVE  /\ pkoutput(p) \in Structs /\ Kin(p, pkoutput(p)) /\ m \in Lines
           /\ Link(pkoutput(p), q, S, R, T, U, lp, m, rp, rq) /\ SizeL(m, pkoutput(p))
<1>1. pkoutput(p) \in Structs /\ Kin(p, pkoutput(p))
  BY KinOutput
<1>2. /\ Link(pkoutput(p), q, S, R, T, U, lp, lq, rp, rq)
      /\ Link(pkoutput(p), q, S, R, T, U, lp, lq \o Transmitted(p), rp, rq)
      /\ lq \o Transmitted(p) \in Lines
  BY LinkOutput DEF Holds
<1>3. SizeL(m, p)
  BY SizeOutput
<1>4. SizeL(m, pkoutput(p))
  BY <1>1, <1>3, KinSizes
<1> QED  BY <1>1, <1>2, <1>4

\* pkgetpack returns.
LEMMA ReturnedKeeps ==
    ASSUME Inv, NEW e \in Ends, NEW f, f = Peer(e), scenario' = scenario, Listens(e),
           NEW p1 \in Structs, Returned(e, p1), faults' \in 0..MaxFaults,
           line' \in [Ends -> Lines],
           p1.rwindow = pk[e].rwindow, p1.rsize = pk[e].rsize, InputOK(p1, FaultKinds),
           SizeP(p1, pk[f], Live(pc[e])), SizeL(line'[e], pk[f]), SizeL(line'[f], p1),
           Link(p1, pk[f], sent[e], Got(f), sent[f], Got(e), line'[e], line'[f],
                Reads(e), Reads(f)),
           p1.xcount <= pk[e].xcount,
           "DOWN" \in p1.state => /\ "LIVE" \notin p1.state /\ p1.xcount = pk[e].xcount
                                  /\ p1.swindow = pk[e].swindow /\ p1.imap = pk[e].imap
    PROVE  Inv' /\ Moves(e)
<1>1. TypesOK /\ GETRIES \in Nat \ {0} /\ f \in Ends
  BY ScenarioIs, PeerIs DEF Inv, TypesOK
<1>2. /\ pc[e] \in {"open", "run", "full"} /\ "DOWN" \notin pk[e].state
      /\ pc[e] = "run" => Reads(e) /\ pk[e].imap = {}
      /\ pc[e] = "full" => Writes(e) /\ pk[e].xcount >= pk[e].swindow
      /\ pc[e] = "open" => sent[e] = 0 /\ Got(e) = 0 /\ "LIVE" \notin pk[e].state
  BY ListensIs
<1>3. 0 \in 0..GETRIES-1 /\ tries' = [tries EXCEPT ![e] = 0] /\ UNCHANGED <<turn, left, sent, rcvd>>
  BY <1>1 DEF Returned
<1>4. CASE pc[e] # "open"
  <2>1. pk' = [pk EXCEPT ![e] = p1] /\ pc' = [pc EXCEPT ![e] = "run"] /\ opens' = opens
    BY <1>4 DEF Returned
  <2>2. PlaceIs(p1, "run", 0, sent[e], Got(e), Writes(e), Reads(e))
    BY <1>2, <1>4 DEF PlaceIs
  <2>3. SizeP(p1, pk[f], Live("run"))
    BY <1>2, <1>4 DEF SizeP, Live
  <2>4. "run" \in Places /\ opens' \in [Ends -> Nat]
    BY <1>1, <2>1 DEF Places, TypesOK
  <2> QED  BY <1>3, <2>1, <2>2, <2>3, <2>4, RejoinSame
<1>5. CASE pc[e] = "open" /\ "LIVE" \in p1.state
  <2> DEFINE p2 == pkreset(p1)
  <2>1. pk' = [pk EXCEPT ![e] = p2] /\ pc' = [pc EXCEPT ![e] = "run"] /\ opens' = opens
    BY <1>5 DEF Returned
  <2>2. p1.ps = 0 /\ p1.pr = 0
    <3>1. pk[f] \in Structs
      BY <1>1 DEF TypesOK
    <3>2. /\ sent[e] - p1.xcount \in Nat /\ p1.xcount \in Nat
          /\ p1.ps = (sent[e] - p1.xcount) % 8 /\ p1.pr = Got(e) % 8
      BY <3>1, LinkNumbers
    <3>3. sent[e] - p1.xcount = 0
      BY <1>2, <1>5, <3>2
    <3> QED  BY <1>2, <1>5, <3>2, <3>3
  <2>3. p2 \in Structs /\ Kin(p1, p2) /\ p2.state = p1.state
    BY <2>2, ResetIs
  <2> HIDE DEF p2
  <2>4. PlaceIs(p2, "run", 0, sent[e], Got(e), Writes(e), Reads(e))
    BY <1>5, <2>3 DEF PlaceIs
  <2>5. SizeP(p1, pk[f], Live("run"))
    BY <1>5, SizeLive
  <2>6. SizeP(p2, pk[f], Live("run")) /\ SizeL(line'[f], p2)
    BY <2>3, <2>5, KinSizes
  <2>7. Link(p2, pk[f], sent[e], Got(f), sent[f], Got(e), line'[e], line'[f], Reads(e), Reads(f))
    BY <2>3, KinLink
  <2>8. p2.rwindow = pk[e].rwindow /\ p2.rsize = pk[e].rsize /\ p2.xcount = p1.xcount
        /\ InputOK(p2, FaultKinds)
    BY <2>3, InputKept DEF Kin, InputSame, LinkSame
  <2>9. "run" \in Places /\ opens' \in [Ends -> Nat]
    BY <1>1, <2>1 DEF Places, TypesOK
  <2> QED  BY <1>3, <2>1, <2>3, <2>4, <2>6, <2>7, <2>8, <2>9, RejoinSame
<1>6. CASE pc[e] = "open" /\ "LIVE" \notin p1.state
  <2> DEFINE c == IF opens[e] + 1 < PKMAXSTMSG THEN "open" ELSE "noopen"
  <2>1. /\ pk' = [pk EXCEPT ![e] = p1] /\ pc' = [pc EXCEPT ![e] = c]
        /\ opens' = [opens EXCEPT ![e] = @ + 1]
    BY <1>6 DEF Returned
  <2>2. c \in {"open", "noopen"}
    OBVIOUS
  <2> HIDE DEF c
  <2>3. PlaceIs(p1, c, 0, sent[e], Got(e), Writes(e), Reads(e))
    BY <1>2, <1>6, <2>2 DEF PlaceIs
  <2>4. SizeP(p1, pk[f], Live(c))
    BY <1>6, <2>2 DEF SizeP, Live
  <2>5. c \in Places /\ opens' \in [Ends -> Nat]
    BY <1>1, <2>1, <2>2, SMTT(30) DEF Places, TypesOK
  <2> QED  BY <1>3, <2>1, <2>3, <2>4, <2>5, RejoinSame
<1> QED  BY <1>4, <1>5, <1>6

-----------------------------------------------------------------------------
(***************************************************************************)
(* Failing, retransmitting and giving up                                   *)
(***************************************************************************)
\* pkfail.
LEMMA FailedKeeps ==
    ASSUME Inv, NEW e \in Ends, NEW f, f = Peer(e), scenario' = scenario,
           pc[e] \in {"open", "run", "full"},
           NEW p1 \in Structs, pk' = [pk EXCEPT ![e] = p1], Failed(e), faults' \in 0..MaxFaults,
           line' \in [Ends -> Lines],
           p1.rwindow = pk[e].rwindow, p1.rsize = pk[e].rsize, InputOK(p1, FaultKinds),
           SizeP(p1, pk[f], Live(pc[e])), SizeL(line'[e], pk[f]), SizeL(line'[f], p1),
           Link(p1, pk[f], sent[e], Got(f), sent[f], Got(e), line'[e], line'[f],
                Reads(e), Reads(f)),
           p1.xcount <= pk[e].xcount, pc[e] = "open" => "LIVE" \notin p1.state
    PROVE  Inv' /\ Moves(e)
<1> DEFINE c == IF pc[e] = "open" THEN "noopen" ELSE "failed"
<1>1. TypesOK /\ GETRIES \in Nat \ {0} /\ EndOK(e)
  BY ScenarioIs DEF Inv, TypesOK
<1>2. /\ pc' = [pc EXCEPT ![e] = c] /\ tries' = [tries EXCEPT ![e] = 0] /\ opens' = opens
      /\ UNCHANGED <<turn, left, sent, rcvd>>
  BY <1>1 DEF Failed, TypesOK
<1>3. PlaceIs(p1, c, 0, sent[e], Got(e), Writes(e), Reads(e))
  BY <1>1 DEF EndOK, PlaceIs
<1>4. SizeP(p1, pk[f], Live(c))
  BY DEF SizeP, Live
<1>5. c \in Places /\ opens' \in [Ends -> Nat] /\ 0 \in 0..GETRIES-1
  BY <1>1, <1>2, SMTT(30) DEF Places, TypesOK
<1> QED  BY <1>2, <1>3, <1>4, <1>5, RejoinSame

\* The end asks again for what it misses.
LEMMA RetransmitKeeps ==
    ASSUME Inv, NEW e \in Ends, NEW f, f = Peer(e), scenario' = scenario, Listens(e),
           NEW p1 \in Structs, NEW rest \in Lines, Retransmit(e, p1, rest),
           faults' \in 0..MaxFaults,
           p1.rwindow = pk[e].rwindow, p1.rsize = pk[e].rsize, InputOK(p1, FaultKinds),
           SizeP(p1, pk[f], Live(pc[e])), SizeL(rest, pk[f]), SizeL(line[f], p1),
           Link(p1, pk[f], sent[e], Got(f), sent[f], Got(e), rest, line[f], Reads(e), Reads(f)),
           p1.xcount <= pk[e].xcount, "DOWN" \notin p1.state,
           pc[e] = "full" => p1.xcount >= p1.swindow,
           pc[e] = "open" => "LIVE" \notin p1.state
    PROVE  Inv' /\ Moves(e)
<1> DEFINE q == RequestRetransmit(p1)
           r == pkoutput(q)
           l == [line EXCEPT ![e] = rest]
<1>1. TypesOK /\ GETRIES \in Nat \ {0} /\ f \in Ends /\ e # f
  BY ScenarioIs, PeerIs DEF Inv, TypesOK
<1>2. /\ pk' = [pk EXCEPT ![e] = r] /\ line' = Carry(l, f, Transmitted(q))
      /\ \/ /\ tries[e] + 1 < GETRIES /\ tries' = [tries EXCEPT ![e] = @ + 1]
            /\ UNCHANGED <<pc, opens, turn, left, sent, rcvd>>
         \/ Failed(e)
  BY DEF Retransmit
<1>3. q \in Structs /\ Kin(p1, q) /\ ("DOWN" \notin q.state) /\ ("LIVE" \in q.state <=> "LIVE" \in p1.state)
  BY RequestIs
<1>4. /\ Link(q, pk[f], sent[e], Got(f), sent[f], Got(e), rest, line[f], Reads(e), Reads(f))
      /\ SizeL(line[f], q) /\ SizeP(q, pk[f], Live(pc[e]))
  BY <1>3, KinLink, KinSizes
<1> HIDE DEF q
<1>5. sent[e] > Got(f) /\ Reads(f) => Got(e) = sent[f]
  BY EndsMeet
<1>6. pk[f] \in Structs /\ line[f] \in Lines /\ l \in [Ends -> Lines] /\ l[e] = rest /\ l[f] = line[f]
  BY <1>1 DEF TypesOK
<1>7. line[f] \o Transmitted(q) \in Lines
  BY <1>3, <1>4, <1>5, <1>6, LinkOutput
<1>8. line' \in [Ends -> Lines] /\ line'[e] = rest
      /\ (line'[f] = line[f] \/ line'[f] = line[f] \o Transmitted(q))
  <2>1. line' \in [Ends -> Lines] /\ line'[e] = rest /\ line'[f] \in {line[f], line[f] \o Transmitted(q)}
    <3> DEFINE out == Transmitted(q)
    <3>1. line[f] \o out \in Lines
      BY <1>7
    <3>2. line' = l \/ line' = [l EXCEPT ![f] = @ \o out]
      BY <1>2 DEF Carry
    <3> HIDE DEF out
    <3> QED  BY <1>1, <1>6, <3>1, <3>2 DEF out
  <2> QED  BY <2>1
<1>9. /\ r \in Structs /\ Kin(q, r) /\ SizeL(line'[f], r)
      /\ Link(r, pk[f], sent[e], Got(f), sent[f], Got(e), rest, line'[f], Reads(e), Reads(f))
      /\ r.state \in {q.state, q.state \ {"RXMIT"}}
  <2> DEFINE m == line'[f]
             lq == line[f]
             re == Reads(e)
             rf == Reads(f)
             o == pkoutput(q)
  <2>1. m = lq \/ m = lq \o Transmitted(q)
    BY <1>8
  <2>2. q \in Structs /\ pk[f] \in Structs /\ lq \in Lines
    BY <1>3, <1>6
  <2>3. Link(q, pk[f], sent[e], Got(f), sent[f], Got(e), rest, lq, re, rf) /\ SizeL(lq, q)
    BY <1>4
  <2>4. sent[e] > Got(f) /\ Holds(rf) => Got(e) = sent[f]
    BY <1>5 DEF Holds
  <2> HIDE DEF m, lq, re, rf
  <2>5. /\ o \in Structs /\ Kin(q, o) /\ m \in Lines
        /\ Link(o, pk[f], sent[e], Got(f), sent[f], Got(e), rest, m, re, rf)
        /\ SizeL(m, o)
    BY <2>1, <2>2, <2>3, <2>4, Sends
  <2>6. o.state \in {q.state, q.state \ {"RXMIT"}}
    BY <2>2, OutputIs
  <2> QED  BY <2>5, <2>6 DEF m, re, rf
<1> HIDE DEF r, l
<1>10. Kin(p1, r) /\ "DOWN" \notin r.state /\ ("LIVE" \in r.state => "LIVE" \in p1.state)
  BY <1>3, <1>9, KinTransitive
<1>11. /\ r.rwindow = pk[e].rwindow /\ r.rsize = pk[e].rsize /\ r.xcount = p1.xcount
       /\ r.swindow = p1.swindow
  BY <1>10 DEF Kin, InputSame, LinkSame
<1>12. InputOK(r, FaultKinds)
  BY <1>10, InputKept DEF Kin
<1>13. SizeP(r, pk[f], Live(pc[e]))
  BY <1>10, KinSizes
<1>14. /\ pc[e] \in {"open", "run", "full"}
       /\ pc[e] = "run" => Reads(e) /\ pk[e].imap = {}
       /\ pc[e] = "full" => Writes(e)
       /\ pc[e] = "open" => sent[e] = 0 /\ Got(e) = 0
  BY ListensIs
<1>15. CASE Failed(e)
  BY <1>2, <1>8, <1>9, <1>10, <1>11, <1>12, <1>13, <1>14, <1>15, FailedKeeps
<1>16. CASE /\ tries[e] + 1 < GETRIES /\ tries' = [tries EXCEPT ![e] = @ + 1]
            /\ UNCHANGED <<pc, opens, turn, left, sent, rcvd>>
  <2> DEFINE n == tries[e] + 1
  <2>1. n \in 0..GETRIES-1 /\ tries' = [tries EXCEPT ![e] = n]
    BY <1>1, <1>16, SMTT(30) DEF TypesOK
  <2> HIDE DEF n
  <2>2. PlaceIs(r, pc[e], n, sent[e], Got(e), Writes(e), Reads(e))
    BY <1>10, <1>11, <1>14 DEF PlaceIs
  <2>3. pc' = [pc EXCEPT ![e] = pc[e]] /\ pc[e] \in Places /\ opens' \in [Ends -> Nat]
    BY <1>1, <1>16 DEF TypesOK
  <2> QED  BY <1>2, <1>8, <1>9, <1>11, <1>12, <1>13, <1>16, <2>1, <2>2, <2>3, RejoinSame
<1> QED  BY <1>2, <1>15, <1>16

\* What the invariant says of one end and its line.
LEMMA EndIs ==
    ASSUME Inv, NEW e \in Ends, NEW f, f = Peer(e)
    PROVE  /\ pk[e] \in Structs /\ pk[f] \in Structs /\ line[e] \in Lines /\ line[f] \in Lines
           /\ f \in Ends /\ e # f /\ faults \in 0..MaxFaults
           /\ InputOK(pk[e], FaultKinds) /\ SizeP(pk[e], pk[f], Live(pc[e]))
           /\ SizeL(line[e], pk[f]) /\ SizeL(line[f], pk[e])
           /\ Link(pk[e], pk[f], sent[e], Got(f), sent[f], Got(e), line[e], line[f],
                   Reads(e), Reads(f))
<1>1. f \in Ends /\ Peer(f) = e /\ e # f
  BY PeerIs
<1>2. TypesOK /\ EndOK(e) /\ EndOK(f) /\ LinkOK(e)
  BY <1>1 DEF Inv
<1> QED  BY <1>1, <1>2 DEF TypesOK, EndOK, LinkOK

\* A fault is one of those the line may have.
LEMMA FaultIs ==
    ASSUME Inv, NEW k, Fault(k)
    PROVE  faults' \in 0..MaxFaults /\ k \in FaultKinds
<1>1. faults \in 0..MaxFaults /\ MaxFaults \in Nat
  BY ScenarioIs DEF Inv, TypesOK
<1> QED  BY <1>1 DEF Fault

\* The test on entry of pkgetpack fails, or the device reports an end of file.
LEMMA GiveUpKeeps ==
    ASSUME Inv, NEW e \in Ends, scenario' = scenario, GiveUp(e) \/ Hangup(e)
    PROVE  Inv' /\ Moves(e)
<1> DEFINE f == Peer(e)
<1>1. /\ pk[e] \in Structs /\ line \in [Ends -> Lines] /\ faults \in 0..MaxFaults
      /\ InputOK(pk[e], FaultKinds) /\ SizeP(pk[e], pk[f], Live(pc[e]))
      /\ SizeL(line[e], pk[f]) /\ SizeL(line[f], pk[e])
      /\ Link(pk[e], pk[f], sent[e], Got(f), sent[f], Got(e), line[e], line[f],
              Reads(e), Reads(f))
  BY EndIs DEF Inv, TypesOK
<1>2. Waits(e) /\ Failed(e) /\ pk' = pk /\ line' = line /\ faults' \in 0..MaxFaults
  BY <1>1, FaultIs DEF GiveUp, Hangup, Listens
<1>3. pc[e] \in {"open", "run", "full"} /\ pk' = [pk EXCEPT ![e] = pk[e]]
  BY <1>2 DEF Waits, Inv, TypesOK
<1>4. pc[e] = "open" => "LIVE" \notin pk[e].state
  BY DEF Inv, EndOK, PlaceIs
<1>5. pk[e].xcount <= pk[e].xcount
  BY <1>1, KinFields
<1> HIDE DEF f
<1> QED  BY <1>1, <1>2, <1>3, <1>4, <1>5, FailedKeeps DEF f

\* The first frame on the line, or none of them, is gone.
LEMMA RestIs ==
    ASSUME Inv, NEW e \in Ends, NEW f, f = Peer(e), NEW l, Shorter(line[e], l)
    PROVE  /\ l \in Lines /\ SizeL(l, pk[f])
           /\ Link(pk[e], pk[f], sent[e], Got(f), sent[f], Got(e), l, line[f],
                   Reads(e), Reads(f))
<1>1. /\ line[e] \in Lines /\ SizeL(line[e], pk[f])
      /\ Link(pk[e], pk[f], sent[e], Got(f), sent[f], Got(e), line[e], line[f],
              Reads(e), Reads(f))
  BY EndIs
<1>2. l \in Lines
  BY <1>1, ShorterIs
<1>3. SizeL(l, pk[f])
  BY <1>1, SizeShorter
<1> QED  BY <1>1, <1>2, <1>3, LinkShorter

-----------------------------------------------------------------------------
(***************************************************************************)
(* Losing and damaging a header                                            *)
(***************************************************************************)
\* p1 is as good as the driver of e.
LEMMA KinIs ==
    ASSUME NEW p, NEW p1, Kin(p, p1), NEW K, InputOK(p, K)
    PROVE  /\ p1.rwindow = p.rwindow /\ p1.rsize = p.rsize /\ p1.xcount = p.xcount
           /\ p1.swindow = p.swindow /\ p1.imap = p.imap /\ InputOK(p1, K)
  BY InputKept DEF Kin, InputSame, LinkSame

\* The first frame leaves the line to e.
LEMMA TailKept ==
    ASSUME Inv, NEW e \in Ends, NEW f, f = Peer(e), line[e] # <<>>,
           line' = [line EXCEPT ![e] = Tail(@)]
    PROVE  /\ line' \in [Ends -> Lines] /\ line'[e] = Tail(line[e]) /\ line'[f] = line[f]
           /\ Tail(line[e]) \in Lines /\ SizeL(Tail(line[e]), pk[f])
           /\ Link(pk[e], pk[f], sent[e], Got(f), sent[f], Got(e), Tail(line[e]), line[f],
                   Reads(e), Reads(f))
<1> DEFINE l == Tail(line[e])
<1>1. l \in Lines /\ SizeL(l, pk[f])
      /\ Link(pk[e], pk[f], sent[e], Got(f), sent[f], Got(e), l, line[f], Reads(e), Reads(f))
  BY RestIs DEF Shorter
<1> HIDE DEF l
<1>2. line \in [Ends -> Lines] /\ f \in Ends /\ f # e
  BY PeerIs DEF Inv, TypesOK
<1>3. line' = [line EXCEPT ![e] = l]
  BY <1>2 DEF l
<1>4. line' \in [Ends -> Lines] /\ line'[e] = l /\ line'[f] = line[f]
  BY <1>1, <1>2, <1>3
<1> QED  BY <1>1, <1>4 DEF l

\* A frame is lost.
LEMMA LoseKeeps ==
    ASSUME Inv, NEW e \in Ends, scenario' = scenario, Lose(e)
    PROVE  Inv' /\ Moves(e)
<1> DEFINE f == Peer(e)
           p == pk[e]
<1>1. /\ line[e] # <<>> /\ line' = [line EXCEPT ![e] = Tail(@)] /\ faults' \in 0..MaxFaults
      /\ UNCHANGED <<pk, pc, tries, opens, turn, left, sent, rcvd>>
  BY FaultIs DEF Lose
<1>2. /\ line' \in [Ends -> Lines] /\ line'[e] = Tail(line[e]) /\ line'[f] = line[f]
      /\ SizeL(Tail(line[e]), pk[f])
      /\ Link(p, pk[f], sent[e], Got(f), sent[f], Got(e), Tail(line[e]), line[f],
              Reads(e), Reads(f))
  BY <1>1, TailKept
<1>3. /\ p \in Structs /\ InputOK(p, FaultKinds) /\ SizeP(p, pk[f], Live(pc[e]))
      /\ SizeL(line[f], p)
  BY EndIs
<1>4. PlaceIs(p, pc[e], tries[e], sent[e], Got(e), Writes(e), Reads(e))
  BY DEF Inv, EndOK
<1>5. TypesOK
  BY DEF Inv
<1>6. pk' = [pk EXCEPT ![e] = p]
  BY <1>1, <1>5 DEF TypesOK
<1>7. /\ pc[e] \in Places /\ pc' = [pc EXCEPT ![e] = pc[e]]
      /\ tries[e] \in 0..GETRIES-1 /\ tries' = [tries EXCEPT ![e] = tries[e]]
      /\ opens' \in [Ends -> Nat]
  BY <1>1, <1>5 DEF TypesOK
<1>8. p.xcount <= p.xcount
  BY <1>3, KinFields
<1>9. SizeL(line'[e], pk[f]) /\ SizeL(line'[f], p)
      /\ Link(p, pk[f], sent[e], Got(f), sent[f], Got(e), line'[e], line'[f], Reads(e), Reads(f))
  BY <1>2, <1>3
<1>10. p.rwindow = pk[e].rwindow /\ p.rsize = pk[e].rsize
  OBVIOUS
<1> HIDE DEF f, p
<1> QED  BY <1>1, <1>2, <1>3, <1>4, <1>6, <1>7, <1>8, <1>9, <1>10, RejoinSame DEF f, p

\* The header is damaged.
LEMMA GarbleHeaderKeeps ==
    ASSUME Inv, NEW e \in Ends, scenario' = scenario, GarbleHeader(e)
    PROVE  Inv' /\ Moves(e)
<1> DEFINE f == Peer(e)
           p == pk[e]
           p1 == Counted(p)
<1>1. /\ Listens(e) /\ line[e] # <<>> /\ line' = [line EXCEPT ![e] = Tail(@)]
      /\ faults' \in 0..MaxFaults /\ Returned(e, p1)
  BY FaultIs DEF GarbleHeader
<1>2. /\ line' \in [Ends -> Lines] /\ line'[e] = Tail(line[e]) /\ line'[f] = line[f]
      /\ SizeL(Tail(line[e]), pk[f])
      /\ Link(p, pk[f], sent[e], Got(f), sent[f], Got(e), Tail(line[e]), line[f],
              Reads(e), Reads(f))
  BY <1>1, TailKept
<1>3. /\ p \in Structs /\ InputOK(p, FaultKinds) /\ SizeP(p, pk[f], Live(pc[e]))
      /\ SizeL(line[f], p)
  BY EndIs
<1>4. p1 \in Structs /\ Kin(p, p1) /\ p1.state = p.state
  BY <1>3, CountedIs
<1> HIDE DEF p1
<1>5. "DOWN" \notin p1.state
  BY <1>1, <1>4, ListensIs
<1>6. /\ p1.rwindow = pk[e].rwindow /\ p1.rsize = pk[e].rsize /\ InputOK(p1, FaultKinds)
      /\ p1.xcount = p.xcount
  BY <1>3, <1>4, KinIs
<1>7. SizeP(p1, pk[f], Live(pc[e])) /\ SizeL(line'[e], pk[f]) /\ SizeL(line'[f], p1)
  BY <1>2, <1>3, <1>4, KinSizes
<1>8. Link(p1, pk[f], sent[e], Got(f), sent[f], Got(e), line'[e], line'[f], Reads(e), Reads(f))
  BY <1>2, <1>4, KinLink
<1>9. p1.xcount <= pk[e].xcount
  BY <1>3, <1>6, KinFields
<1> HIDE DEF f
<1> QED  BY <1>1, <1>2, <1>4, <1>5, <1>6, <1>7, <1>8, <1>9, ReturnedKeeps DEF f

\* The end asks again, after an alarm or noise, with no frame read.
LEMMA AskKeeps ==
    ASSUME Inv, NEW e \in Ends, scenario' = scenario, Listens(e), faults' \in 0..MaxFaults,
           NEW p1 \in Structs, Kin(pk[e], p1), p1.state = pk[e].state,
           NEW l, Shorter(line[e], l), Retransmit(e, p1, l)
    PROVE  Inv' /\ Moves(e)
<1> DEFINE f == Peer(e)
           p == pk[e]
<1>1. /\ l \in Lines /\ SizeL(l, pk[f])
      /\ Link(p, pk[f], sent[e], Got(f), sent[f], Got(e), l, line[f], Reads(e), Reads(f))
  BY RestIs
<1>2. /\ p \in Structs /\ InputOK(p, FaultKinds) /\ SizeP(p, pk[f], Live(pc[e]))
      /\ SizeL(line[f], p)
  BY EndIs
<1>3. /\ p1.rwindow = pk[e].rwindow /\ p1.rsize = pk[e].rsize /\ InputOK(p1, FaultKinds)
      /\ p1.xcount = p.xcount /\ p1.swindow = p.swindow
  BY <1>2, KinIs
<1>4. SizeP(p1, pk[f], Live(pc[e])) /\ SizeL(line[f], p1)
  BY <1>2, KinSizes
<1>5. Link(p1, pk[f], sent[e], Got(f), sent[f], Got(e), l, line[f], Reads(e), Reads(f))
  BY <1>1, KinLink
<1>6. /\ "DOWN" \notin p1.state /\ (pc[e] = "full" => p1.xcount >= p1.swindow)
      /\ (pc[e] = "open" => "LIVE" \notin p1.state)
  BY <1>3, ListensIs
<1>7. p1.xcount <= pk[e].xcount
  BY <1>2, <1>3, KinFields
<1> HIDE DEF f
<1> QED  BY <1>1, <1>3, <1>4, <1>5, <1>6, <1>7, RetransmitKeeps DEF f

\* Too much noise.
LEMMA NoiseKeeps ==
    ASSUME Inv, NEW e \in Ends, scenario' = scenario, Noise(e)
    PROVE  Inv' /\ Moves(e)
<1>1. /\ Listens(e) /\ line[e] # <<>> /\ faults' \in 0..MaxFaults
      /\ Retransmit(e, pk[e], Tail(line[e]))
  BY FaultIs DEF Noise
<1>2. pk[e] \in Structs /\ Kin(pk[e], pk[e])
  BY EndIs DEF Kin, LinkSame, InputSame
<1>3. Shorter(line[e], Tail(line[e]))
  BY <1>1 DEF Shorter
<1> QED  BY <1>1, <1>2, <1>3, AskKeeps

\* The alarm before a header came.
LEMMA TimeoutKeeps ==
    ASSUME Inv, NEW e \in Ends, scenario' = scenario, Timeout(e)
    PROVE  Inv' /\ Moves(e)
<1> DEFINE p == pk[e]
           s == p.state
           m == p.msg
           a == p.rpr
           b == p.nxtps
           c == p.connodata
           d == p.ntimeout + 1
           p1 == WithFields(p, s, m, a, b, c, d)
<1>1. p \in Structs /\ faults \in 0..MaxFaults
  BY EndIs
<1>2. [p EXCEPT !.ntimeout = @ + 1] = p1
  BY <1>1 DEF WithFields, Structs
<1>3. /\ s \in SUBSET Flags /\ m \in SUBSET Messages /\ a \in Seq8 /\ b \in Seq8
      /\ c \in Nat /\ d \in Nat /\ s \cap {"INITa", "INITb", "LIVE"} \subseteq p.state
  BY <1>1, KinFields
<1>4. s = pk[e].state
  OBVIOUS
<1> HIDE DEF s, m, a, b, c, d
<1>5. p1 \in Structs /\ Kin(p, p1) /\ p1.state = s
  BY <1>1, <1>3, KinSet
<1>6. Listens(e) /\ Retransmit(e, p1, line[e]) /\ faults' \in 0..MaxFaults
  <2>1. Listens(e) /\ (Fault("delay") \/ faults' = faults)
    BY DEF Timeout
  <2>2. Retransmit(e, p1, line[e])
    BY <1>2 DEF Timeout
  <2> QED  BY <1>1, <2>1, <2>2, FaultIs
<1> HIDE DEF p1
<1>7. Shorter(line[e], line[e])
  BY DEF Shorter
<1> QED  BY <1>4, <1>5, <1>6, <1>7, AskKeeps

-----------------------------------------------------------------------------
(***************************************************************************)
(* Answering a frame                                                       *)
(***************************************************************************)
\* What an end writes to the other.
LEMMA SendsTo ==
    ASSUME Inv, NEW e \in Ends, NEW f, f = Peer(e), NEW p1 \in Structs, NEW rest \in Lines,
           SizeL(line[f], p1), NEW re, NEW rf, Holds(rf) => Reads(f),
           Link(p1, pk[f], sent[e], Got(f), sent[f], Got(e), rest, line[f], re, rf),
           NEW m, m = line[f] \/ m = line[f] \o Transmitted(p1)
    PROVE  /\ line[f] \o Transmitted(p1) \in Lines
           /\ pkoutput(p1) \in Structs /\ Kin(p1, pkoutput(p1)) /\ m \in Lines
           /\ Link(pkoutput(p1), pk[f], sent[e], Got(f), sent[f], Got(e), rest, m, re, rf)
           /\ SizeL(m, pkoutput(p1))
<1> DEFINE lq == line[f]
<1>1. sent[e] > Got(f) /\ Holds(rf) => Got(e) = sent[f]
  BY EndsMeet
<1>2. pk[f] \in Structs /\ lq \in Lines
  BY PeerIs DEF Inv, TypesOK
<1>3. /\ Link(p1, pk[f], sent[e], Got(f), sent[f], Got(e), rest, lq, re, rf) /\ SizeL(lq, p1)
      /\ m = lq \/ m = lq \o Transmitted(p1)
  OBVIOUS
<1> DEFINE q == pk[f]
           S == sent[e]
           R == Got(f)
           T == sent[f]
           U == Got(e)
<1> HIDE DEF lq, q, S, R, T, U
<1>3a. /\ q \in Structs /\ (S > R /\ Holds(rf) => U = T) /\ SizeL(lq, p1)
       /\ Link(p1, q, S, R, T, U, rest, lq, re, rf) /\ (m = lq \/ m = lq \o Transmitted(p1))
  BY <1>1, <1>2, <1>3 DEF q, S, R, T, U
<1>4. lq \o Transmitted(p1) \in Lines
  BY <1>2, <1>3a, LinkOutput DEF Holds
<1>5. /\ pkoutput(p1) \in Structs /\ Kin(p1, pkoutput(p1)) /\ m \in Lines
      /\ Link(pkoutput(p1), q, S, R, T, U, rest, m, re, rf) /\ SizeL(m, pkoutput(p1))
  BY <1>2, <1>3a, Sends
<1> QED  BY <1>4, <1>5 DEF lq, q, S, R, T, U

\* pkgetpack answers and returns.
LEMMA AnswerKeeps ==
    ASSUME Inv, NEW e \in Ends, NEW f, f = Peer(e), scenario' = scenario, Listens(e),
           NEW p1 \in Structs, NEW r \in Structs, Kin(pkoutput(p1), r),
           r.state = pkoutput(p1).state, Returned(e, r), faults' \in 0..MaxFaults,
           NEW rest \in Lines, line' = Carry([line EXCEPT ![e] = rest], f, Transmitted(p1)),
           p1.rwindow = pk[e].rwindow, p1.rsize = pk[e].rsize, InputOK(p1, FaultKinds),
           SizeP(p1, pk[f], Live(pc[e])), SizeL(rest, pk[f]), SizeL(line[f], p1),
           Link(p1, pk[f], sent[e], Got(f), sent[f], Got(e), rest, line[f], Reads(e), Reads(f)),
           p1.xcount <= pk[e].xcount, "DOWN" \notin p1.state
    PROVE  Inv' /\ Moves(e)
<1> DEFINE l == [line EXCEPT ![e] = rest]
           m == line'[f]
           lq == line[f]
           re == Reads(e)
           rf == Reads(f)
           o == pkoutput(p1)
<1>1. TypesOK /\ f \in Ends /\ e # f
  BY PeerIs DEF Inv
<1>2. pk[f] \in Structs /\ lq \in Lines /\ l \in [Ends -> Lines] /\ l[e] = rest /\ l[f] = lq
  BY <1>1 DEF TypesOK
<1>3. Link(p1, pk[f], sent[e], Got(f), sent[f], Got(e), rest, lq, re, rf) /\ SizeL(lq, p1)
  OBVIOUS
<1>4. Holds(rf) => Reads(f)
  BY DEF Holds
<1> HIDE DEF re, rf
<1>5. lq \o Transmitted(p1) \in Lines
  BY <1>3, <1>4, SendsTo
<1>6. line' \in [Ends -> Lines] /\ line'[e] = rest /\ m \in {lq, lq \o Transmitted(p1)}
  <2> DEFINE out == Transmitted(p1)
  <2>1. line[f] \o out \in Lines
    BY <1>5
  <2>2. line' = l \/ line' = [l EXCEPT ![f] = @ \o out]
    BY DEF Carry
  <2> HIDE DEF out
  <2> QED  BY <1>1, <1>2, <2>1, <2>2 DEF out
<1>7. m = lq \/ m = lq \o Transmitted(p1)
  BY <1>6
<1>9. o.state \in {p1.state, p1.state \ {"RXMIT"}}
  BY OutputIs
<1>10. "DOWN" \notin r.state
  BY <1>9
<1> HIDE DEF l, m
<1>11. /\ o \in Structs /\ Kin(p1, o) /\ m \in Lines
       /\ Link(o, pk[f], sent[e], Got(f), sent[f], Got(e), rest, m, re, rf)
       /\ SizeL(m, o)
  BY <1>3, <1>4, <1>7, SendsTo
<1> HIDE DEF o, lq
<1>12. Kin(o, r)
  BY DEF o
<1>13. Kin(p1, r)
  BY <1>11, <1>12, KinTransitive
<1>14. /\ r.rwindow = pk[e].rwindow /\ r.rsize = pk[e].rsize /\ r.xcount = p1.xcount
       /\ InputOK(r, FaultKinds)
  BY <1>13, KinIs
<1>15. SizeP(r, pk[f], Live(pc[e])) /\ SizeL(m, r)
  BY <1>11, <1>12, <1>13, KinSizes
<1>16. Link(r, pk[f], sent[e], Got(f), sent[f], Got(e), rest, m, re, rf)
  BY <1>11, <1>12, KinLink
<1>17. r.xcount <= pk[e].xcount
  BY <1>14
<1> QED
  BY <1>6, <1>10, <1>14, <1>15, <1>16, <1>17, ReturnedKeeps DEF m, re, rf

-----------------------------------------------------------------------------
(***************************************************************************)
(* A control message arrives                                               *)
(***************************************************************************)
\* p1 is as good as the driver of e for its caller, and for what is to be
\* read from its line after the first frame.
Fits(e, p1) ==
    LET p == pk[e]
        f == Peer(e)
        l == Tail(line[e])
    IN  /\ p1 \in Structs /\ p1.rwindow = p.rwindow /\ p1.rsize = p.rsize
        /\ InputOK(p1, FaultKinds) /\ p1.xcount <= p.xcount
        /\ SizeP(p1, pk[f], Live(pc[e])) /\ SizeL(line[f], p1)
        /\ l \in Lines /\ SizeL(l, pk[f])
        /\ Link(p1, pk[f], sent[e], Got(f), sent[f], Got(e), l, line[f], Reads(e), Reads(f))

\* The end reads an acknowledgement.
LEMMA AckedIs ==
    ASSUME Inv, NEW e \in Ends, NEW f, f = Peer(e), line[e] # <<>>, IsAck(Head(line[e])),
           NEW p0 \in Structs, Kin(pk[e], p0), p0.rpr = AckOf(Head(line[e]))
    PROVE  LET p1 == pksack(p0)
               g == Head(line[e])
               l == Tail(line[e])
           IN  /\ Fits(e, p1) /\ p1.state = p0.state /\ p1.swindow = pk[e].swindow
               /\ p1.imap = pk[e].imap
               /\ IsData(g) => Storable(p1, pk[f], sent[f], Got(e), l, g)
               /\ IsData(g) /\ g.body.n <= Got(e) => p1.xcount = pk[e].xcount
               /\ IsData(g) /\ g.body.n > Got(e) /\ Reads(e) => p1.xcount = 0
<1> DEFINE p == pk[e]
           p1 == pksack(p0)
           g == Head(line[e])
           l == Tail(line[e])
           lp == line[e]
           q == pk[f]
           re == Reads(e)
           rf == Reads(f)
<1>1. /\ p \in Structs /\ q \in Structs /\ lp \in Lines
      /\ InputOK(p, FaultKinds) /\ SizeP(p, q, Live(pc[e])) /\ SizeL(lp, q) /\ SizeL(line[f], p)
      /\ Link(p, q, sent[e], Got(f), sent[f], Got(e), lp, line[f], re, rf)
  BY EndIs
<1>2. Shorter(lp, l)
  BY DEF Shorter
<1>3. l \in Lines /\ SizeL(l, q)
  BY <1>1, <1>2, ShorterIs, SizeShorter
<1>4. LinkSame(p, p0)
  BY DEF Kin
<1>5. lp # <<>> /\ IsAck(Head(lp)) /\ p0.rpr = AckOf(Head(lp)) /\ g = Head(lp) /\ l = Tail(lp)
  OBVIOUS
<1> HIDE DEF p, q, l, g, lp, re, rf
<1>6. /\ p1 \in Structs /\ \E j \in Nat : Released(p0, j, p1)
      /\ Link(p1, q, sent[e], Got(f), sent[f], Got(e), l, line[f], re, rf)
      /\ IsData(g) => Storable(p1, q, sent[f], Got(e), l, g)
      /\ IsData(g) /\ g.body.n <= Got(e) => p1.xcount = p.xcount
      /\ IsData(g) /\ g.body.n > Got(e) /\ re => p1.xcount = 0
  BY <1>1, <1>4, <1>5, AckIs
<1> HIDE DEF p1
<1>7. PICK j \in Nat : Released(p0, j, p1)
  BY <1>6
<1>8. /\ p1.state = p0.state /\ p1.swindow = p0.swindow /\ p1.lpsize = p0.lpsize
      /\ p1.xcount = p0.xcount - j /\ InputSame(p0, p1)
  BY <1>7, InputSameIs DEF Released
<1>9. Kin(p, p0)
  BY DEF p
<1>10. /\ p0.swindow = p.swindow /\ p0.lpsize = p.lpsize /\ p0.xcount = p.xcount
       /\ p0.state \cap {"INITa", "INITb", "LIVE"} \subseteq p.state /\ InputSame(p, p0)
  BY <1>9 DEF Kin, LinkSame
<1>11. InputSame(p, p1)
  BY <1>8, <1>10, InputSameIs
<1>12. p1.rwindow = p.rwindow /\ p1.rsize = p.rsize /\ p1.imap = p.imap
  BY <1>11 DEF InputSame
<1>13. InputOK(p1, FaultKinds)
  BY <1>1, <1>11, InputKept
<1>14. p1.xcount <= p.xcount
  <2>1. p.xcount \in Int
    BY <1>1, KinFields
  <2> QED  BY <1>7, <1>8, <1>10, <2>1
<1>15. SizeP(p1, q, Live(pc[e])) /\ SizeL(line[f], p1)
  BY <1>1, <1>8, <1>10, <1>12, SizeKept, SizeSame
<1>16. Fits(e, p1)
  BY <1>3, <1>6, <1>12, <1>13, <1>14, <1>15 DEF Fits, p, q, l, lp, re, rf
<1> QED  BY <1>6, <1>8, <1>10, <1>12, <1>16 DEF p1, p, q, l, g, re

\* The end has read a control frame.
LEMMA ControlFits ==
    ASSUME Inv, NEW e \in Ends, Listens(e), line[e] # <<>>, Head(line[e]).type # "DATA"
    PROVE  LET p1 == ApplyControl(Counted(pk[e]), Head(line[e]))
           IN  /\ Fits(e, p1)
               /\ "DOWN" \in p1.state => /\ Head(line[e]).type = "CLOSE" /\ "LIVE" \notin p1.state
                                         /\ p1.swindow = pk[e].swindow
                                         /\ p1.xcount = pk[e].xcount /\ p1.imap = pk[e].imap
<1> DEFINE f == Peer(e)
           r == pk[e]
           p == Counted(r)
           g == Head(line[e])
           l == Tail(line[e])
           q == pk[f]
           p1 == ApplyControl(p, g)
           re == Reads(e)
           rf == Reads(f)
           up == Live(pc[e])
<1>1. /\ r \in Structs /\ q \in Structs /\ line[e] \in Lines
      /\ InputOK(r, FaultKinds) /\ SizeP(r, q, up) /\ SizeL(line[e], q) /\ SizeL(line[f], r)
      /\ Link(r, q, sent[e], Got(f), sent[f], Got(e), line[e], line[f], re, rf)
  BY EndIs
<1>2. g \in LineFrames /\ SizeOf(g, q)
  BY <1>1, TailIs DEF SizeL
<1>3. "DOWN" \notin r.state
  BY ListensIs
<1>4. p \in Structs /\ Kin(r, p) /\ p.state = r.state
  BY <1>1, CountedIs
<1>5. g.type # "DATA"
  OBVIOUS
<1>6. CASE IsAck(g)
  <2> DEFINE s == IF g.type = "RJ" THEN p.state \cup {"RXMIT"} ELSE p.state
             m == IF g.type = "RJ" THEN p.msg \cup {"RR"} ELSE p.msg
             a == g.val
             b == p.nxtps
             c == p.connodata
             d == p.ntimeout
             p0 == WithFields(p, s, m, a, b, c, d)
  <2>1. g.type \in {"RR", "RJ"} /\ g.val \in Seq8
    BY <1>2, <1>5, <1>6 DEF IsAck, LineFrames
  <2>2. p1 = pksack(p0)
    <3> HIDE DEF p, g
    <3>1. CASE g.type = "RJ"
      BY <1>4, <3>1 DEF ApplyControl, WithFields, Structs
    <3>2. CASE g.type = "RR"
      BY <1>4, <3>2 DEF ApplyControl, WithFields, Structs
    <3> QED  BY <2>1, <3>1, <3>2
  <2> HIDE DEF p, g, p1, r
  <2>3. /\ s \in SUBSET Flags /\ m \in SUBSET Messages /\ a \in Seq8 /\ b \in Seq8
        /\ c \in Nat /\ d \in Nat /\ s \cap {"INITa", "INITb", "LIVE"} \subseteq p.state
    BY <1>4, <2>1, KinFields DEF Flags, Messages
  <2>4. "DOWN" \notin s /\ a = AckOf(g)
    BY <1>3, <1>4, <1>5 DEF AckOf, IsData
  <2> HIDE DEF s, m, a, b, c, d
  <2>5. p0 \in Structs /\ Kin(p, p0) /\ p0.state = s /\ p0.rpr = a
    BY <1>4, <2>3, KinSet
  <2> HIDE DEF p0
  <2>6. Kin(r, p0)
    BY <1>4, <2>5, KinTransitive
  <2>7. Kin(pk[e], p0) /\ IsAck(Head(line[e])) /\ p0.rpr = AckOf(Head(line[e]))
    BY <1>6, <2>4, <2>5, <2>6 DEF r, g
  <2>8. Fits(e, p1) /\ p1.state = p0.state
    BY <2>2, <2>5, <2>7, AckedIs
  <2> QED  BY <2>4, <2>5, <2>8 DEF p1, p, g, r
<1>7. CASE ~IsAck(g)
  <2>1. SizeP(p, q, up)
    BY <1>1, <1>4, KinSizes
  <2> HIDE DEF p, g, q, r, up, l, re, rf
  <2>2. /\ p1 \in Structs /\ LinkSame(p, p1) /\ InputSame(p, p1) /\ SizeP(p1, q, up)
        /\ "DOWN" \in p1.state /\ "DOWN" \notin p.state =>
             g.type = "CLOSE" /\ "LIVE" \notin p1.state /\ p1.swindow = p.swindow
    BY <1>1, <1>2, <1>4, <1>7, <2>1, ControlIs
  <2> HIDE DEF p1
  <2>3. InputSame(r, p) /\ p.swindow = r.swindow /\ p.xcount = r.xcount /\ LinkSame(r, p)
    BY <1>4 DEF Kin, LinkSame
  <2>4. InputSame(r, p1) /\ p1.xcount = r.xcount
    BY <2>2, <2>3, InputSameIs DEF LinkSame
  <2>5. p1.rwindow = r.rwindow /\ p1.rsize = r.rsize /\ p1.imap = r.imap
    BY <2>4 DEF InputSame
  <2>6. InputOK(p1, FaultKinds) /\ SizeL(line[f], p1)
    BY <1>1, <2>4, <2>5, InputKept, SizeSame
  <2>7. /\ l \in Lines /\ SizeL(l, q)
        /\ Link(r, q, sent[e], Got(f), sent[f], Got(e), l, line[f], re, rf)
    <3>1. Shorter(line[e], l)
      BY DEF Shorter, l
    <3> QED  BY <3>1, RestIs DEF q, r, re, rf
  <2>8. Link(p1, q, sent[e], Got(f), sent[f], Got(e), l, line[f], re, rf)
    BY <2>2, <2>3, <2>7, LinkAlike
  <2>9. p1.xcount <= r.xcount
    BY <1>1, <2>4, KinFields
  <2>10. Fits(e, p1)
    BY <2>2, <2>5, <2>6, <2>7, <2>8, <2>9 DEF Fits, q, r, l, re, rf, up
  <2> QED  BY <1>3, <1>4, <2>2, <2>3, <2>4, <2>5, <2>10 DEF p1, p, g, r
<1> QED  BY <1>6, <1>7

\* The driver fits, and pkgetpack returns, or answers and returns.
LEMMA FitsKeeps ==
    ASSUME Inv, NEW e \in Ends, scenario' = scenario, Listens(e), line[e] # <<>>,
           NEW p1, Fits(e, p1), faults' \in 0..MaxFaults,
           \/ /\ Returned(e, p1) /\ line' = [line EXCEPT ![e] = Tail(@)]
              /\ "DOWN" \in p1.state =>
                    /\ "LIVE" \notin p1.state
                    /\ p1.swindow = pk[e].swindow /\ p1.xcount = pk[e].xcount
                    /\ p1.imap = pk[e].imap
           \/ /\ line' = Carry([line EXCEPT ![e] = Tail(@)], Peer(e), Transmitted(p1))
              /\ "DOWN" \notin p1.state
              /\ \E r \in Structs : /\ Returned(e, r) /\ Kin(pkoutput(p1), r)
                                    /\ r.state = pkoutput(p1).state
    PROVE  Inv' /\ Moves(e)
<1> DEFINE f == Peer(e)
           l == Tail(line[e])
<1>1. line \in [Ends -> Lines] /\ f \in Ends /\ f # e
  BY PeerIs DEF Inv, TypesOK
<1>2. [line EXCEPT ![e] = Tail(@)] = [line EXCEPT ![e] = l]
  BY <1>1
<1>3. /\ p1 \in Structs /\ p1.rwindow = pk[e].rwindow /\ p1.rsize = pk[e].rsize
      /\ InputOK(p1, FaultKinds) /\ p1.xcount <= pk[e].xcount
      /\ SizeP(p1, pk[f], Live(pc[e])) /\ SizeL(line[f], p1)
      /\ l \in Lines /\ SizeL(l, pk[f])
      /\ Link(p1, pk[f], sent[e], Got(f), sent[f], Got(e), l, line[f], Reads(e), Reads(f))
  BY DEF Fits
<1>4. CASE /\ Returned(e, p1) /\ line' = [line EXCEPT ![e] = Tail(@)]
           /\ "DOWN" \in p1.state =>
                 /\ "LIVE" \notin p1.state
                 /\ p1.swindow = pk[e].swindow /\ p1.xcount = pk[e].xcount
                 /\ p1.imap = pk[e].imap
  <2> HIDE DEF l
  <2>1. line' \in [Ends -> Lines] /\ line'[e] = l /\ line'[f] = line[f]
    BY <1>1, <1>2, <1>3, <1>4
  <2>2. SizeL(line'[e], pk[f]) /\ SizeL(line'[f], p1)
        /\ Link(p1, pk[f], sent[e], Got(f), sent[f], Got(e), line'[e], line'[f], Reads(e), Reads(f))
    BY <1>3, <2>1
  <2>3. "DOWN" \in p1.state => /\ "LIVE" \notin p1.state /\ p1.xcount = pk[e].xcount
                               /\ p1.swindow = pk[e].swindow /\ p1.imap = pk[e].imap
    BY <1>4
  <2>4. Returned(e, p1) /\ f = Peer(e)
    BY <1>4
  <2> HIDE DEF f
  <2> QED  BY <1>3, <2>1, <2>2, <2>3, <2>4, ReturnedKeeps
<1>5. CASE /\ line' = Carry([line EXCEPT ![e] = Tail(@)], Peer(e), Transmitted(p1))
           /\ "DOWN" \notin p1.state
           /\ \E r \in Structs : /\ Returned(e, r) /\ Kin(pkoutput(p1), r)
                                 /\ r.state = pkoutput(p1).state
  <2>1. PICK r \in Structs : /\ Returned(e, r) /\ Kin(pkoutput(p1), r)
                             /\ r.state = pkoutput(p1).state
    BY <1>5
  <2>2. line' = Carry([line EXCEPT ![e] = l], f, Transmitted(p1)) /\ f = Peer(e)
    BY <1>2, <1>5
  <2> HIDE DEF l, f
  <2> QED  BY <1>3, <1>5, <2>1, <2>2, AnswerKeeps
<1> QED  BY <1>4, <1>5

\* pkgetpack reads a control frame.
LEMMA ReceiveControlKeeps ==
    ASSUME Inv, NEW e \in Ends, scenario' = scenario, ReceiveControl(e)
    PROVE  Inv' /\ Moves(e)
<1> DEFINE g == Head(line[e])
           p == Counted(pk[e])
           p1 == ApplyControl(p, g)
           rest == [line EXCEPT ![e] = Tail(@)]
<1>1. /\ Listens(e) /\ line[e] # <<>> /\ g.type # "DATA" /\ faults' = faults
      /\ \/ /\ ControlReplies(p, g)
            /\ Returned(e, pkoutput(p1)) /\ line' = Carry(rest, Peer(e), Transmitted(p1))
         \/ Returned(e, p1) /\ line' = rest
  BY DEF ReceiveControl
<1>2. /\ Fits(e, p1)
      /\ "DOWN" \in p1.state => /\ g.type = "CLOSE" /\ "LIVE" \notin p1.state
                                /\ p1.swindow = pk[e].swindow
                                /\ p1.xcount = pk[e].xcount /\ p1.imap = pk[e].imap
  BY <1>1, ControlFits
<1>3. faults' \in 0..MaxFaults
  BY <1>1, EndIs
<1> HIDE DEF p1
<1>4. CASE Returned(e, p1) /\ line' = rest
  BY <1>1, <1>2, <1>3, <1>4, FitsKeeps
<1>5. CASE /\ ControlReplies(p, g)
           /\ Returned(e, pkoutput(p1)) /\ line' = Carry(rest, Peer(e), Transmitted(p1))
  <2>1. p1 \in Structs
    BY <1>2 DEF Fits
  <2>2. pkoutput(p1) \in Structs /\ Kin(pkoutput(p1), pkoutput(p1))
    BY <2>1, KinOutput DEF Kin, LinkSame, InputSame
  <2>3. "DOWN" \notin p1.state
    BY <1>2, <1>5 DEF ControlReplies
  <2> QED  BY <1>1, <1>2, <1>3, <1>5, <2>2, <2>3, FitsKeeps
<1> QED  BY <1>1, <1>4, <1>5

-----------------------------------------------------------------------------
(***************************************************************************)
(* A data frame arrives                                                    *)
(***************************************************************************)
\* What fits still fits after a step that leaves link, input and sizes alone.
LEMMA FitsKin ==
    ASSUME NEW e, NEW p, Fits(e, p), NEW p1 \in Structs, Kin(p, p1)
    PROVE  Fits(e, p1)
<1> DEFINE f == Peer(e)
           l == Tail(line[e])
<1>1. /\ p \in Structs /\ p.rwindow = pk[e].rwindow /\ p.rsize = pk[e].rsize
      /\ InputOK(p, FaultKinds) /\ p.xcount <= pk[e].xcount
      /\ SizeP(p, pk[f], Live(pc[e])) /\ SizeL(line[f], p)
      /\ l \in Lines /\ SizeL(l, pk[f])
      /\ Link(p, pk[f], sent[e], Got(f), sent[f], Got(e), l, line[f], Reads(e), Reads(f))
  BY DEF Fits
<1>2. p1.rwindow = p.rwindow /\ p1.rsize = p.rsize /\ p1.xcount = p.xcount /\ InputOK(p1, FaultKinds)
  BY <1>1, KinIs
<1>3. SizeP(p1, pk[f], Live(pc[e])) /\ SizeL(line[f], p1)
  BY <1>1, KinSizes
<1>4. Link(p1, pk[f], sent[e], Got(f), sent[f], Got(e), l, line[f], Reads(e), Reads(f))
  BY <1>1, KinLink
<1> QED  BY <1>1, <1>2, <1>3, <1>4 DEF Fits

\* An end that has read a header and no more of it fits.
LEMMA HeaderFits ==
    ASSUME Inv, NEW e \in Ends, line[e] # <<>>, NEW p1 \in Structs, Kin(pk[e], p1)
    PROVE  Fits(e, p1)
<1> DEFINE f == Peer(e)
           l == Tail(line[e])
           p == pk[e]
<1>1. /\ p \in Structs /\ InputOK(p, FaultKinds) /\ SizeP(p, pk[f], Live(pc[e]))
      /\ SizeL(line[f], p)
  BY EndIs
<1>2. Shorter(line[e], l)
  BY DEF Shorter
<1>3. /\ l \in Lines /\ SizeL(l, pk[f])
      /\ Link(p, pk[f], sent[e], Got(f), sent[f], Got(e), l, line[f], Reads(e), Reads(f))
  BY <1>2, RestIs
<1>4. p.xcount <= p.xcount
  BY <1>1, KinFields
<1>5. Fits(e, p)
  BY <1>1, <1>3, <1>4 DEF Fits
<1> QED  BY <1>5, FitsKin

\* The driver of e has read the header of the data frame and freed what it
\* acknowledges.
LEMMA DataAcked ==
    ASSUME Inv, NEW e \in Ends, Listens(e), line[e] # <<>>, Head(line[e]).type = "DATA"
    PROVE  LET p == Acknowledge(pk[e], Head(line[e]))
               g == Head(line[e])
               f == Peer(e)
           IN  /\ Fits(e, p) /\ p.state = pk[e].state /\ p.swindow = pk[e].swindow
               /\ "DOWN" \notin p.state
               /\ g \in LineFrames /\ IsData(g) /\ g.body.n \in Nat
               /\ Storable(p, pk[f], sent[f], Got(e), Tail(line[e]), g)
               /\ pc[e] \in {"open", "run", "full"}
               /\ pc[e] = "open" => "LIVE" \notin p.state
               /\ pc[e] = "full" => g.body.n <= Got(e) /\ p.xcount = pk[e].xcount
                                    /\ \A y \in p.imap : p.in[y].body.n <= Got(e)
               /\ pc[e] = "run" => /\ p.imap = {}
                                   /\ g.body.n <= Got(e) \/ p.xcount = 0
<1> DEFINE f == Peer(e)
           r == pk[e]
           g == Head(line[e])
           p1 == Counted(r)
           s == p1.state
           m == p1.msg
           a == g.ack
           b == p1.nxtps
           c == p1.connodata
           d == p1.ntimeout
           p0 == WithFields(p1, s, m, a, b, c, d)
           p == pksack(p0)
           l == Tail(line[e])
<1>1. r \in Structs /\ line[e] \in Lines /\ f \in Ends
  BY EndIs
<1>2. g \in LineFrames /\ IsData(g) /\ IsAck(g) /\ a = AckOf(g)
  BY <1>1, TailIs DEF IsData, IsAck, AckOf
<1>3. g.body.n \in Nat /\ a \in Seq8
  BY <1>2 DEF LineFrames, IsData, Messages, Bodies
<1>4. p1 \in Structs /\ Kin(r, p1) /\ p1.state = r.state
  BY <1>1, CountedIs
<1>5. Acknowledge(r, g) = p
  <2> HIDE DEF r, g
  <2>1. p0 = [p1 EXCEPT !.rpr = a]
    <3> HIDE DEF p1
    <3> QED  BY <1>4 DEF WithFields, Structs
  <2> QED  BY <2>1 DEF Acknowledge
<1> HIDE DEF p1
<1>6. /\ s \in SUBSET Flags /\ m \in SUBSET Messages /\ b \in Seq8
      /\ c \in Nat /\ d \in Nat /\ s \cap {"INITa", "INITb", "LIVE"} \subseteq p1.state
  BY <1>4, KinFields
<1>7. s = r.state
  BY <1>4
<1> HIDE DEF s, m, b, c, d, a
<1>8. p0 \in Structs /\ Kin(p1, p0) /\ p0.state = s /\ p0.rpr = a
  BY <1>3, <1>4, <1>6, KinSet
<1> HIDE DEF p0
<1>9. Kin(pk[e], p0)
  BY <1>4, <1>8, KinTransitive
<1>10. /\ Fits(e, p) /\ p.state = p0.state /\ p.swindow = r.swindow /\ p.imap = r.imap
       /\ Storable(p, pk[f], sent[f], Got(e), l, g)
       /\ g.body.n <= Got(e) => p.xcount = r.xcount
       /\ g.body.n > Got(e) /\ Reads(e) => p.xcount = 0
  BY <1>2, <1>8, <1>9, AckedIs
<1> HIDE DEF p
<1>11. /\ pc[e] \in {"open", "run", "full"} /\ "DOWN" \notin r.state
       /\ pc[e] = "run" => Reads(e) /\ r.imap = {}
       /\ pc[e] = "full" => Writes(e)
       /\ pc[e] = "open" => "LIVE" \notin r.state
  BY ListensIs
<1>12. pc[e] = "full" => sent[f] = Got(e)
  BY <1>11, EndsMeet
<1>13. Genuine(pk[f], sent[f], Got(e), g) /\ \A y \in p.imap : Genuine(pk[f], sent[f], Got(e), p.in[y])
  <2>1. Link(p, pk[f], sent[e], Got(f), sent[f], Got(e), l, line[f], Reads(e), Reads(f))
    BY <1>10 DEF Fits
  <2> QED  BY <1>10, <2>1 DEF Storable, Link, Direction, SlotsOK
<1>14. sent[f] \in Nat /\ Got(e) \in Nat
  BY <1>1 DEF Inv, TypesOK, Got
<1>15. g.body.n <= sent[f] /\ \A y \in p.imap : p.in[y].body.n <= sent[f]
  <2>1. ASSUME NEW x, Genuine(pk[f], sent[f], Got(e), x) PROVE x.body.n <= sent[f]
    <3>1. x.body.n \in 1..sent[f]
      BY <2>1 DEF Genuine
    <3> QED  BY <1>14, <3>1
  <2> QED  BY <1>13, <2>1
<1>16. g.body.n <= Got(e) \/ g.body.n > Got(e)
  BY <1>3, <1>14
<1>17. /\ pc[e] = "full" => g.body.n <= Got(e) /\ p.xcount = r.xcount
                            /\ \A y \in p.imap : p.in[y].body.n <= Got(e)
       /\ pc[e] = "run" => /\ p.imap = {} /\ (g.body.n <= Got(e) \/ p.xcount = 0)
  BY <1>10, <1>11, <1>12, <1>15, <1>16
<1>18. p.state = r.state
  BY <1>7, <1>8, <1>10
<1> QED  BY <1>2, <1>3, <1>5, <1>10, <1>11, <1>17, <1>18

\* The end stores the frame.
LEMMA StoreFits ==
    ASSUME NEW e \in Ends, NEW f, f = Peer(e), NEW p, Fits(e, p), pk[f] \in Structs,
           line[f] \in Lines,
           NEW g \in LineFrames, IsData(g), NEW good \in BOOLEAN, p.ipool > 0,
           Storable(p, pk[f], sent[f], Got(e), Tail(line[e]), g),
           g.body.n <= Got(e) \/ (p.imap = {} /\ p.xcount = 0),
           \A y \in p.imap : p.in[y].body.n <= Got(e)
    PROVE  Fits(e, StoreAll(p, g, good)) /\ StoreAll(p, g, good).state = p.state
<1> DEFINE l == Tail(line[e])
           r == StoreAll(p, g, good)
           re == Reads(e)
           rf == Reads(f)
<1>1. /\ p \in Structs /\ p.rwindow = pk[e].rwindow /\ p.rsize = pk[e].rsize
      /\ InputOK(p, FaultKinds) /\ p.xcount <= pk[e].xcount
      /\ SizeP(p, pk[f], Live(pc[e])) /\ SizeL(line[f], p)
      /\ l \in Lines /\ SizeL(l, pk[f])
      /\ Link(p, pk[f], sent[e], Got(f), sent[f], Got(e), l, line[f], re, rf)
  BY DEF Fits
<1>2. StoredOK(p)
  BY <1>1 DEF InputOK
<1>3. /\ r \in Structs /\ StoreFields(p, r)
      /\ InputSame(p, r) \/ \E x : Stored(p, g, x, r)
  BY <1>1, <1>2, StoreIs
<1>4. Storable(p, pk[f], sent[f], Got(e), l, g)
  OBVIOUS
<1> HIDE DEF r, l, re, rf
<1>5. /\ r.ps = p.ps /\ r.pr = p.pr /\ r.pscopy = p.pscopy /\ r.ob = p.ob /\ r.os = p.os
      /\ r.xcount = p.xcount /\ r.rwindow = p.rwindow /\ r.rsize = p.rsize
      /\ r.state = p.state /\ r.swindow = p.swindow /\ r.lpsize = p.lpsize
  BY <1>3 DEF StoreFields
<1>6. InputOK(r, FaultKinds) /\ Link(r, pk[f], sent[e], Got(f), sent[f], Got(e), l, line[f], re, rf)
  <2>1. CASE InputSame(p, r)
    <3>1. LinkSame(p, r)
      BY <1>5, <2>1 DEF LinkSame, InputSame
    <3> QED  BY <1>1, <2>1, <3>1, InputKept, LinkAlike
  <2>2. ASSUME NEW x, Stored(p, g, x, r)
        PROVE  InputOK(r, FaultKinds)
               /\ Link(r, pk[f], sent[e], Got(f), sent[f], Got(e), l, line[f], re, rf)
    <3>1. InputOK(r, FaultKinds)
      BY <1>1, <1>3, <2>2, InputStored
    <3>2. /\ x \in Seq8 /\ r.in[x].seq = g.seq /\ r.in[x].body = g.body
          /\ \A y \in Seq8 \ {x} : r.in[y] = p.in[y]
          /\ r.imap = p.imap \cup {x}
      BY <2>2 DEF Stored
    <3>3. Link(r, pk[f], sent[e], Got(f), sent[f], Got(e), l, line[f], re, rf)
      BY <1>1, <1>3, <1>4, <1>5, <3>2, LinkStore
    <3> QED  BY <3>1, <3>3
  <2> QED  BY <1>3, <2>1, <2>2
<1>7. SizeP(r, pk[f], Live(pc[e])) /\ SizeL(line[f], r)
  BY <1>1, <1>5, SizeKept, SizeSame
<1>8. Fits(e, r)
  BY <1>1, <1>3, <1>5, <1>6, <1>7 DEF Fits, l, re, rf
<1> QED  BY <1>5, <1>8 DEF r

\* pkgetpack reads a data frame.
LEMMA ReceiveDataKeeps ==
    ASSUME Inv, NEW e \in Ends, scenario' = scenario, NEW good \in BOOLEAN,
           ReceiveData(e, good), faults' \in 0..MaxFaults
    PROVE  Inv' /\ Moves(e)
<1> DEFINE f == Peer(e)
           g == Head(line[e])
           p1 == Counted(pk[e])
           p == Acknowledge(pk[e], g)
           r == [p EXCEPT !.msg = @ \cup p.rmsg]
           rest == [line EXCEPT ![e] = Tail(@)]
           o == [pkoutput(r) EXCEPT !.ntimeout = 0]
           a == StoreAll(p, g, good)
<1>1. Listens(e) /\ line[e] # <<>> /\ g.type = "DATA"
  BY DEF ReceiveData
<1>2. \/ Returned(e, p1) /\ line' = rest
      \/ Returned(e, p) /\ line' = rest
      \/ /\ IgnoresData(p) /\ Returned(e, o) /\ line' = Carry(rest, Peer(e), Transmitted(r))
      \/ /\ ~(p.ipool = 0) /\ ~(p.ipool > 0 /\ IgnoresData(p))
         /\ Returned(e, a) /\ line' = rest
  BY DEF ReceiveData, StoreAll
<1>3. /\ Fits(e, p) /\ p.state = pk[e].state /\ p.swindow = pk[e].swindow
      /\ "DOWN" \notin p.state
      /\ g \in LineFrames /\ IsData(g) /\ g.body.n \in Nat
      /\ Storable(p, pk[f], sent[f], Got(e), Tail(line[e]), g)
      /\ pc[e] \in {"open", "run", "full"}
      /\ pc[e] = "open" => "LIVE" \notin p.state
      /\ pc[e] = "full" => g.body.n <= Got(e) /\ p.xcount = pk[e].xcount
                           /\ \A y \in p.imap : p.in[y].body.n <= Got(e)
      /\ pc[e] = "run" => /\ p.imap = {}
                          /\ g.body.n <= Got(e) \/ p.xcount = 0
  BY <1>1, DataAcked
<1>4. p \in Structs /\ p.ipool >= 0 /\ pk[e] \in Structs
  BY <1>3, EndIs DEF Fits, InputOK
<1> HIDE DEF p, a
<1>5. CASE Returned(e, p1) /\ line' = rest
  <2>1. p1 \in Structs /\ Kin(pk[e], p1) /\ p1.state = pk[e].state
    BY <1>4, CountedIs
  <2> HIDE DEF p1
  <2>2. Fits(e, p1) /\ "DOWN" \notin p1.state
    BY <1>1, <1>3, <2>1, HeaderFits
  <2> QED  BY <1>1, <1>5, <2>2, FitsKeeps
<1>6. CASE Returned(e, p) /\ line' = rest
  BY <1>1, <1>3, <1>6, FitsKeeps
<1>7. CASE /\ IgnoresData(p) /\ Returned(e, o) /\ line' = Carry(rest, Peer(e), Transmitted(r))
  <2> DEFINE s == p.state
             m == p.msg \cup p.rmsg
             b == p.rpr
             c == p.nxtps
             d == p.connodata
             n == p.ntimeout
             w == WithFields(p, s, m, b, c, d, n)
  <2>1. r = w
    BY <1>4 DEF WithFields, Structs
  <2>2. /\ s \in SUBSET Flags /\ m \in SUBSET Messages /\ b \in Seq8 /\ c \in Seq8
        /\ d \in Nat /\ n \in Nat /\ s \cap {"INITa", "INITb", "LIVE"} \subseteq p.state
    BY <1>4, KinFields
  <2>3. s = p.state
    OBVIOUS
  <2> HIDE DEF s, m, b, c, d, n
  <2>4. w \in Structs /\ Kin(p, w) /\ w.state = s
    BY <1>4, <2>2, KinSet
  <2>5. r \in Structs /\ Kin(p, r) /\ "DOWN" \notin r.state
    BY <1>3, <2>1, <2>3, <2>4
  <2> HIDE DEF r, w
  <2>6. Fits(e, r)
    BY <1>3, <2>5, FitsKin
  <2>7. o \in Structs /\ Kin(pkoutput(r), o) /\ o.state = pkoutput(r).state
    <3> DEFINE x == pkoutput(r)
               xs == x.state
               xm == x.msg
               xb == x.rpr
               xc == x.nxtps
               xd == x.connodata
               xn == 0
               xw == WithFields(x, xs, xm, xb, xc, xd, xn)
    <3>1. x \in Structs
      BY <2>5, KinOutput
    <3> HIDE DEF x
    <3>2. [x EXCEPT !.ntimeout = 0] = xw
      BY <3>1 DEF WithFields, Structs
    <3>3. /\ xs \in SUBSET Flags /\ xm \in SUBSET Messages /\ xb \in Seq8 /\ xc \in Seq8
          /\ xd \in Nat /\ xn \in Nat /\ xs \cap {"INITa", "INITb", "LIVE"} \subseteq x.state
          /\ xs = x.state
      BY <3>1, KinFields
    <3> HIDE DEF xs, xm, xb, xc, xd, xn
    <3>4. xw \in Structs /\ Kin(x, xw) /\ xw.state = xs
      BY <3>1, <3>3, KinSet
    <3> QED  BY <3>2, <3>3, <3>4 DEF x
  <2> HIDE DEF o
  <2> QED  BY <1>1, <1>7, <2>5, <2>6, <2>7, FitsKeeps
<1>8. CASE /\ ~(p.ipool = 0) /\ ~(p.ipool > 0 /\ IgnoresData(p))
           /\ Returned(e, a) /\ line' = rest
  <2>1. p.ipool > 0 /\ ~IgnoresData(p)
    <3>1. p.ipool \in Int
      BY <1>4, KinFields
    <3> QED  BY <1>4, <1>8, <3>1
  <2>2. pc[e] = "run" \/ pc[e] = "full"
    BY <1>3, <2>1 DEF IgnoresData
  <2>3. /\ g.body.n <= Got(e) \/ (p.imap = {} /\ p.xcount = 0)
        /\ \A y \in p.imap : p.in[y].body.n <= Got(e)
    BY <1>3, <2>2
  <2>4. pk[f] \in Structs /\ line[f] \in Lines
    BY EndIs
  <2>5. Fits(e, a) /\ a.state = p.state
    BY <1>3, <2>1, <2>3, <2>4, StoreFits DEF a
  <2> QED  BY <1>1, <1>3, <1>8, <2>5, FitsKeeps
<1> QED  BY <1>2, <1>5, <1>6, <1>7, <1>8

-----------------------------------------------------------------------------
(***************************************************************************)
(* Damaged bodies, a full window, pkclose                                  *)
(***************************************************************************)
\* The body is damaged.
LEMMA GarbleBodyKeeps ==
    ASSUME Inv, NEW e \in Ends, scenario' = scenario, GarbleBody(e)
    PROVE  Inv' /\ Moves(e)
<1>1. faults' \in 0..MaxFaults /\ ReceiveData(e, FALSE)
  BY FaultIs DEF GarbleBody
<1> QED  BY <1>1, ReceiveDataKeeps

\* The frame stops inside its body: the buffer is lost.
LEMMA CutBodyKeeps ==
    ASSUME Inv, NEW e \in Ends, scenario' = scenario, CutBody(e)
    PROVE  Inv' /\ Moves(e)
<1> DEFINE f == Peer(e)
           g == Head(line[e])
           l == Tail(line[e])
           p == Acknowledge(pk[e], g)
           p1 == [p EXCEPT !.ipool = @ - 1, !.ntimeout = @ + 1]
<1>1. /\ Listens(e) /\ line[e] # <<>> /\ g.type = "DATA" /\ faults' \in 0..MaxFaults
      /\ "cut" \in FaultKinds
      /\ p.ipool > 0 /\ Retransmit(e, p1, l)
  BY FaultIs DEF CutBody
<1>2. /\ Fits(e, p) /\ p.state = pk[e].state /\ p.swindow = pk[e].swindow
      /\ "DOWN" \notin p.state
      /\ pc[e] = "open" => "LIVE" \notin p.state
      /\ pc[e] = "full" => p.xcount = pk[e].xcount
  BY <1>1, DataAcked
<1> HIDE DEF p
<1>3. /\ p \in Structs /\ p.rwindow = pk[e].rwindow /\ p.rsize = pk[e].rsize
      /\ InputOK(p, FaultKinds) /\ p.xcount <= pk[e].xcount
      /\ SizeP(p, pk[f], Live(pc[e])) /\ SizeL(line[f], p)
      /\ l \in Lines /\ SizeL(l, pk[f])
      /\ Link(p, pk[f], sent[e], Got(f), sent[f], Got(e), l, line[f], Reads(e), Reads(f))
  BY <1>2 DEF Fits
<1>4. /\ p1 \in Structs /\ p1.state = p.state /\ p1.swindow = p.swindow /\ p1.lpsize = p.lpsize
      /\ p1.ps = p.ps /\ p1.pr = p.pr /\ p1.pscopy = p.pscopy /\ p1.ob = p.ob /\ p1.os = p.os
      /\ p1.in = p.in /\ p1.imap = p.imap /\ p1.ipool = p.ipool - 1 /\ p1.rcount = p.rcount
      /\ p1.xcount = p.xcount /\ p1.rwindow = p.rwindow /\ p1.rsize = p.rsize
  <2> DEFINE i == p.ipool - 1
             t == p.ntimeout + 1
             p2 == [p EXCEPT !.ipool = i, !.ntimeout = t]
  <2>1. p1 = p2
    BY <1>3 DEF Structs
  <2>2. i \in Int /\ t \in Nat
    BY <1>3, KinFields
  <2>3. i = p.ipool - 1
    OBVIOUS
  <2> HIDE DEF i, t
  <2>4. p2 \in Structs
    BY <1>3, <2>2 DEF Structs
  <2>5. /\ p2.state = p.state /\ p2.swindow = p.swindow /\ p2.lpsize = p.lpsize
        /\ p2.ps = p.ps /\ p2.pr = p.pr /\ p2.pscopy = p.pscopy /\ p2.ob = p.ob /\ p2.os = p.os
        /\ p2.in = p.in /\ p2.imap = p.imap /\ p2.ipool = i /\ p2.rcount = p.rcount
        /\ p2.xcount = p.xcount /\ p2.rwindow = p.rwindow /\ p2.rsize = p.rsize
    BY <1>3 DEF Structs
  <2> QED  BY <2>1, <2>3, <2>4, <2>5
<1> HIDE DEF p1
<1>5. InputOK(p1, FaultKinds)
  BY <1>1, <1>3, <1>4, InputCut
<1>6. LinkSame(p, p1)
  BY <1>4 DEF LinkSame
<1>7. Link(p1, pk[f], sent[e], Got(f), sent[f], Got(e), l, line[f], Reads(e), Reads(f))
  BY <1>3, <1>6, LinkAlike
<1>8. SizeP(p1, pk[f], Live(pc[e])) /\ SizeL(line[f], p1)
  BY <1>3, <1>4, SizeKept, SizeSame
<1>9. pc[e] = "full" => p1.xcount >= p1.swindow
  BY <1>1, <1>2, <1>4, ListensIs
<1>10. /\ p1.rwindow = pk[e].rwindow /\ p1.rsize = pk[e].rsize /\ p1.xcount <= pk[e].xcount
       /\ "DOWN" \notin p1.state /\ (pc[e] = "open" => "LIVE" \notin p1.state)
  BY <1>2, <1>3, <1>4
<1>11. f = Peer(e)
  OBVIOUS
<1> HIDE DEF f, l
<1> QED  BY <1>1, <1>3, <1>4, <1>5, <1>7, <1>8, <1>9, <1>10, <1>11, RetransmitKeeps

\* pkwrite begins to wait for the window.
LEMMA WaitForWindowKeeps ==
    ASSUME Inv, NEW e \in Ends, scenario' = scenario, WaitForWindow(e)
    PROVE  Inv' /\ Moves(e)
<1> DEFINE f == Peer(e)
           p == pk[e]
           o == pkoutput(p)
           m == line'[f]
           lp == line[e]
           re == Reads(e)
           rf == Reads(f)
<1>1. /\ pc[e] = "run" /\ Writes(e) /\ p.xcount >= p.swindow
      /\ line' = Carry(line, f, Transmitted(p))
      /\ pc' = [pc EXCEPT ![e] = "full"]
      /\ UNCHANGED <<tries, opens, turn, left, sent, rcvd, faults>>
  BY DEF WaitForWindow
<1>2. TypesOK /\ f \in Ends /\ e # f
  BY PeerIs DEF Inv
<1>3. pk' = [pk EXCEPT ![e] = o]
  BY <1>2 DEF WaitForWindow, TypesOK
<1>4. /\ p \in Structs /\ lp \in Lines /\ InputOK(p, FaultKinds) /\ SizeP(p, pk[f], Live(pc[e]))
      /\ SizeL(lp, pk[f]) /\ SizeL(line[f], p)
      /\ Link(p, pk[f], sent[e], Got(f), sent[f], Got(e), lp, line[f], re, rf)
  BY EndIs
<1>5. (Holds(rf) => Reads(f)) /\ f = Peer(e)
  BY DEF Holds
<1> HIDE DEF re, rf, f, p, lp
<1>6. line[f] \o Transmitted(p) \in Lines
  BY <1>4, <1>5, SendsTo
<1>7. /\ line' \in [Ends -> Lines] /\ line'[e] = lp /\ m \in {line[f], line[f] \o Transmitted(p)}
  <2> DEFINE out == Transmitted(p)
             n == Carry(line, f, out)
  <2>1. line \in [Ends -> Lines] /\ f \in Ends /\ line[f] \o out \in Lines
    BY <1>2, <1>6 DEF TypesOK
  <2>2. line' = n
    BY <1>1
  <2> HIDE DEF out
  <2>3. /\ n \in [Ends -> Lines] /\ n[f] \in {line[f], line[f] \o out}
        /\ \A x \in Ends : x # f => n[x] = line[x]
    BY <2>1, CarryIs
  <2> QED  BY <1>2, <2>2, <2>3 DEF lp, out
<1>8. m = line[f] \/ m = line[f] \o Transmitted(p)
  BY <1>7
<1> HIDE DEF m
<1>9. /\ o \in Structs /\ Kin(p, o)
      /\ Link(o, pk[f], sent[e], Got(f), sent[f], Got(e), lp, m, re, rf)
      /\ SizeL(m, o)
  BY <1>4, <1>5, <1>8, SendsTo
<1>10. o.state \in {p.state, p.state \ {"RXMIT"}}
  BY <1>4, OutputIs
<1> HIDE DEF o
<1>11. /\ o.rwindow = p.rwindow /\ o.rsize = p.rsize /\ o.xcount = p.xcount /\ o.swindow = p.swindow
       /\ InputOK(o, FaultKinds)
  BY <1>4, <1>9, KinIs
<1>12. SizeP(o, pk[f], Live("full"))
  <2>1. SizeP(o, pk[f], Live(pc[e]))
    BY <1>4, <1>9, KinSizes
  <2> QED  BY <1>1, <2>1 DEF SizeP, Live
<1>13. PlaceIs(o, "full", tries[e], sent[e], Got(e), Writes(e), Reads(e))
  <2>1. PlaceIs(p, pc[e], tries[e], sent[e], Got(e), Writes(e), Reads(e))
    BY DEF Inv, EndOK, p
  <2> QED  BY <1>1, <1>10, <1>11, <2>1 DEF PlaceIs
<1>14. o.xcount <= pk[e].xcount
  BY <1>4, <1>11, KinFields DEF p
<1>15. /\ "full" \in Places /\ tries[e] \in 0..GETRIES-1 /\ tries' = [tries EXCEPT ![e] = tries[e]]
       /\ opens' \in [Ends -> Nat] /\ faults' \in 0..MaxFaults
       /\ UNCHANGED <<turn, left, sent, rcvd>>
  BY <1>1, <1>2 DEF TypesOK, MaxFaults, Places
<1>16. SizeL(line'[e], pk[f]) /\ SizeL(line'[f], o)
       /\ Link(o, pk[f], sent[e], Got(f), sent[f], Got(e), line'[e], line'[f], Reads(e), Reads(f))
  BY <1>4, <1>7, <1>9 DEF m, re, rf
<1>17. o.rwindow = pk[e].rwindow /\ o.rsize = pk[e].rsize
  BY <1>11 DEF p
<1> QED
  BY <1>1, <1>3, <1>5, <1>7, <1>9, <1>11, <1>12, <1>13, <1>14, <1>15, <1>16, <1>17, RejoinSame

\* pkclose.
LEMMA pkcloseKeeps ==
    ASSUME Inv, NEW e \in Ends, scenario' = scenario, pkclose(e)
    PROVE  Inv' /\ Moves(e)
<1> DEFINE f == Peer(e)
           p == pk[e]
           a == Drained(p)
           o == a.p
           m == line'[f]
           lq == line[f]
           nil == <<>>
           re == Reads(e)
           rf == Reads(f)
           l == [line EXCEPT ![e] = nil]
<1>1. /\ pc[e] \in {"done", "failed"}
      /\ pk' = [pk EXCEPT ![e] = o]
      /\ line' = Carry(l, f, a.out)
      /\ pc' = [pc EXCEPT ![e] = "closed"]
      /\ UNCHANGED <<tries, opens, turn, left, sent, rcvd, faults>>
  BY DEF pkclose
<1>2. TypesOK /\ f \in Ends /\ e # f /\ f = Peer(e)
  BY PeerIs DEF Inv
<1>3. /\ p \in Structs /\ pk[f] \in Structs /\ lq \in Lines
      /\ InputOK(p, FaultKinds) /\ SizeP(p, pk[f], Live(pc[e])) /\ SizeL(lq, p)
  BY EndIs
<1>4. /\ nil \in Lines /\ SizeL(nil, pk[f])
      /\ Link(p, pk[f], sent[e], Got(f), sent[f], Got(e), nil, lq, re, rf)
  <2>1. Shorter(line[e], nil)
    BY DEF Shorter
  <2> QED  BY <2>1, RestIs
<1>5. sent[e] > Got(f) /\ Holds(rf) => Got(e) = sent[f]
  BY EndsMeet DEF Holds
<1>6. l \in [Ends -> Lines] /\ l[e] = nil /\ l[f] = lq
  BY <1>2, <1>4 DEF TypesOK
<1> HIDE DEF re, rf, f, p, nil, lq, a
<1>7. Draining(p, pk[f], sent[e], Got(f), sent[f], Got(e), nil, lq, re, rf, a)
  BY <1>3, <1>4, <1>5, DrainedIs DEF a
<1>8. /\ o \in Structs /\ Kin(p, o) /\ a.out \in Lines
      /\ Link(o, pk[f], sent[e], Got(f), sent[f], Got(e), nil, lq \o a.out, re, rf)
      /\ SizeL(lq \o a.out, o)
  BY <1>7 DEF Draining
<1>9. lq \o a.out \in Lines
  BY <1>3, <1>8 DEF Lines
<1> HIDE DEF o, l
<1>10. /\ line' \in [Ends -> Lines] /\ line'[e] = nil /\ m \in {lq, lq \o a.out}
  <2> DEFINE out == a.out
             n == Carry(l, f, out)
  <2>1. l \in [Ends -> Lines] /\ f \in Ends /\ l[f] \o out \in Lines
    BY <1>2, <1>6, <1>9
  <2>2. line' = n
    BY <1>1
  <2> HIDE DEF out
  <2>3. /\ n \in [Ends -> Lines] /\ n[f] \in {l[f], l[f] \o out}
        /\ \A x \in Ends : x # f => n[x] = l[x]
    BY <2>1, CarryIs
  <2> QED  BY <1>2, <1>6, <2>2, <2>3 DEF out
<1>11. Link(o, pk[f], sent[e], Got(f), sent[f], Got(e), nil, lq, re, rf) /\ SizeL(lq, o)
  BY <1>3, <1>4, <1>8, KinLink, KinSizes
<1>12. SizeL(line'[e], pk[f]) /\ SizeL(line'[f], o)
       /\ Link(o, pk[f], sent[e], Got(f), sent[f], Got(e), line'[e], line'[f], Reads(e), Reads(f))
  <2>1. m = lq \/ m = lq \o a.out
    BY <1>10
  <2>2. SizeL(m, o) /\ Link(o, pk[f], sent[e], Got(f), sent[f], Got(e), nil, m, re, rf)
    BY <1>8, <1>11, <2>1
  <2> QED  BY <1>4, <1>10, <2>2 DEF re, rf
<1>13. /\ o.rwindow = p.rwindow /\ o.rsize = p.rsize /\ o.xcount = p.xcount
       /\ InputOK(o, FaultKinds)
  BY <1>3, <1>8, KinIs
<1>14. SizeP(o, pk[f], Live("closed"))
  <2>1. SizeP(o, pk[f], Live(pc[e]))
    BY <1>3, <1>8, KinSizes
  <2> QED  BY <1>1, <2>1 DEF SizeP, Live
<1>15. PlaceIs(o, "closed", tries[e], sent[e], Got(e), Writes(e), Reads(e))
  BY DEF PlaceIs
<1>16. o.xcount <= pk[e].xcount /\ o.rwindow = pk[e].rwindow /\ o.rsize = pk[e].rsize
  BY <1>3, <1>13, KinFields DEF p
<1>17. /\ "closed" \in Places /\ tries[e] \in 0..GETRIES-1
       /\ tries' = [tries EXCEPT ![e] = tries[e]]
       /\ opens' \in [Ends -> Nat] /\ faults' \in 0..MaxFaults
       /\ UNCHANGED <<turn, left, sent, rcvd>>
  BY <1>1, <1>2 DEF TypesOK, MaxFaults, Places
<1> QED
  BY <1>1, <1>2, <1>8, <1>10, <1>12, <1>13, <1>14, <1>15, <1>16, <1>17, RejoinSame

-----------------------------------------------------------------------------
(***************************************************************************)
(* pkwrite                                                                 *)
(***************************************************************************)
\* An end has written or read the next packet of its turn.
LEMMA AdvanceIs ==
    ASSUME Inv, NEW e \in Ends, ~Finished(e), Advance(e, 1), NEW S1, NEW G1,
           IF Script[turn[e]].by = e THEN S1 = sent[e] + 1 /\ G1 = Got(e)
                                     ELSE S1 = sent[e] /\ G1 = Got(e) + 1
    PROVE  /\ TurnIs(Script, e, turn'[e], left'[e], S1, G1)
           /\ turn' \in [Ends -> Nat] /\ left' \in [Ends -> Nat] /\ pc' \in [Ends -> Places]
           /\ pc'[e] \in {pc[e], "run", "done"}
           /\ \A x \in Ends : x # e => turn'[x] = turn[x] /\ left'[x] = left[x] /\ pc'[x] = pc[x]
<1>1. /\ turn \in [Ends -> Nat] /\ left \in [Ends -> Nat] /\ pc \in [Ends -> Places]
      /\ scenario \in Scenarios
  BY DEF Inv, TypesOK
<1>2. Script \in Seq(Turns2) /\ Len(Script) \in Nat
  BY <1>1, ScenarioIs
<1>3. TurnIs(Script, e, turn[e], left[e], sent[e], Got(e))
  BY DEF Inv, EndOK
<1>4. turn[e] <= Len(Script)
  BY <1>1, <1>2 DEF Finished
<1>5. /\ left[e] > 1 => TurnIs(Script, e, turn[e], left[e] - 1, S1, G1)
      /\ ~(left[e] > 1) => TurnIs(Script, e, turn[e] + 1, TurnLength(turn[e] + 1), S1, G1)
  BY <1>2, <1>3, <1>4, TurnAdvances DEF TurnLength
<1>6. CASE left[e] > 1
  <2>1. left' = [left EXCEPT ![e] = @ - 1] /\ turn' = turn /\ pc' = pc
    BY <1>6 DEF Advance
  <2>2. left[e] - 1 \in Nat
    BY <1>1, <1>6
  <2>3. left' \in [Ends -> Nat] /\ left'[e] = left[e] - 1
    BY <1>1, <2>1, <2>2
  <2> QED  BY <1>1, <1>5, <1>6, <2>1, <2>3
<1>7. CASE ~(left[e] > 1)
  <2> DEFINE c == IF turn[e] = Len(Script) THEN "done" ELSE "run"
             w == TurnLength(turn[e] + 1)
             t == turn[e] + 1
  <2>1. /\ turn' = [turn EXCEPT ![e] = t] /\ left' = [left EXCEPT ![e] = w]
        /\ pc' = [pc EXCEPT ![e] = c]
    BY <1>1, <1>7 DEF Advance
  <2>2. c \in {"run", "done"} /\ c \in Places
    BY DEF Places
  <2>3. t \in Nat /\ TurnIs(Script, e, t, w, S1, G1)
    BY <1>1, <1>5, <1>7
  <2> HIDE DEF c, w, t
  <2>4. w \in Nat
    BY <1>2, <2>3, TurnNumbers
  <2> QED  BY <1>1, <2>1, <2>2, <2>3, <2>4
<1> QED  BY <1>6, <1>7

\* pkwrite takes a packet.
LEMMA WritePacketKeeps ==
    ASSUME Inv, NEW e \in Ends, scenario' = scenario, WritePacket(e)
    PROVE  Inv' /\ Moves(e)
<1> DEFINE f == Peer(e)
           p == pk[e]
           q == pk[f]
           S == sent[e]
           R == Got(f)
           T == sent[f]
           U == Got(e)
           lp == line[e]
           lq == line[f]
           b == [n |-> S + 1, len |-> IF left[e] = 1 THEN 0 ELSE 1]
           p1 == QueuePacket(p, b)
           o == pkoutput(p1)
           m == line'[f]
           re == Reads(e)
           rf == Reads(f)
<1>1. /\ pc[e] = "run" /\ Writes(e) /\ p.xcount < p.swindow /\ "DOWN" \notin p.state
      /\ line' = Carry(line, f, Transmitted(p1)) /\ pk' = [pk EXCEPT ![e] = o]
      /\ sent' = [sent EXCEPT ![e] = @ + 1] /\ Advance(e, 1)
      /\ UNCHANGED <<tries, opens, rcvd, faults>>
  BY DEF WritePacket, CanWrite
<1>2. TypesOK /\ f \in Ends /\ e # f /\ f = Peer(e)
  BY PeerIs DEF Inv
<1>3. /\ p \in Structs /\ q \in Structs /\ lp \in Lines /\ lq \in Lines
      /\ InputOK(p, FaultKinds) /\ SizeP(p, q, Live(pc[e]))
      /\ SizeL(lp, q) /\ SizeL(lq, p)
      /\ Link(p, q, S, R, T, U, lp, lq, re, rf)
  BY EndIs
<1>4. S \in Nat /\ U \in Nat
  BY <1>2 DEF TypesOK, Got
<1>5. b \in Bodies /\ b.n = S + 1
  <2> HIDE DEF S
  <2> QED  BY <1>4 DEF Bodies
<1>6. T = U
  BY <1>1, EndsMeet
<1>7. p.swindow = q.rwindow
  BY <1>1, <1>3 DEF SizeP, Live
<1>8. /\ sent' \in [Ends -> Nat] /\ sent'[e] = S + 1 /\ sent'[f] = sent[f]
      /\ Got(e)' = Got(e) /\ rcvd' = rcvd
  BY <1>1, <1>2 DEF TypesOK, Got
<1>9. /\ TurnIs(Script, e, turn'[e], left'[e], sent'[e], Got(e)')
      /\ turn' \in [Ends -> Nat] /\ left' \in [Ends -> Nat] /\ pc' \in [Ends -> Places]
      /\ pc'[e] \in {"run", "done"}
      /\ turn'[f] = turn[f] /\ left'[f] = left[f] /\ pc'[f] = pc[f]
  <2>1. ~Finished(e) /\ Script[turn[e]].by = e
    BY <1>1 DEF Writes
  <2>2. IF Script[turn[e]].by = e THEN sent'[e] = sent[e] + 1 /\ Got(e)' = Got(e)
                                  ELSE sent'[e] = sent[e] /\ Got(e)' = Got(e) + 1
    BY <1>8, <2>1
  <2>3. /\ TurnIs(Script, e, turn'[e], left'[e], sent'[e], Got(e)')
        /\ turn' \in [Ends -> Nat] /\ left' \in [Ends -> Nat] /\ pc' \in [Ends -> Places]
        /\ pc'[e] \in {pc[e], "run", "done"}
        /\ \A x \in Ends : x # e => turn'[x] = turn[x] /\ left'[x] = left[x] /\ pc'[x] = pc[x]
    BY <1>1, <2>1, <2>2, AdvanceIs
  <2> QED  BY <1>1, <1>2, <2>3
<1> HIDE DEF b, f, p, q, S, R, T, U, lp, lq, re, rf
<1> DEFINE x == next(p.pscopy)
<1>10. /\ p1 \in Structs /\ InputSame(p, p1) /\ x \in Seq8
       /\ p1.os[x] # {} /\ p1.ob[x] = b
       /\ \A y \in Seq8 \ {x} : p1.os[y] = p.os[y] /\ p1.ob[y] = p.ob[y]
       /\ p1.ps = p.ps /\ p1.pr = p.pr /\ p1.pscopy = x /\ p1.in = p.in /\ p1.imap = p.imap
       /\ p1.xcount = p.xcount + 1 /\ p1.rwindow = p.rwindow
       /\ p1.swindow = p.swindow /\ p1.lpsize = p.lpsize /\ p1.state = p.state
  BY <1>3, <1>5, QueueIs
<1> HIDE DEF p1
<1>11. x = next(p.pscopy)
  OBVIOUS
<1> HIDE DEF x
<1>12. Link(p1, q, S + 1, R, T, U, lp, lq, re, rf)
  <2>1. p.xcount < q.rwindow /\ p1.ob[x].n = S + 1
    BY <1>1, <1>5, <1>7, <1>10
  <2> QED  BY <1>3, <1>6, <1>10, <1>11, <2>1, LinkQueue
<1>13. p1.rsize = p.rsize
  BY <1>10 DEF InputSame
<1>14. SizeL(lq, p1)
  BY <1>3, <1>10, <1>13, SizeSame
<1>15. lq \o Transmitted(p1) \in Lines
  <2> DEFINE S1 == S + 1
  <2> HIDE DEF S1
  <2>1. Link(p1, q, S1, R, T, U, lp, lq, re, rf)
    BY <1>12 DEF S1
  <2> QED  BY <1>3, <1>6, <1>10, <2>1, LinkOutput
<1>16. line' \in [Ends -> Lines] /\ line'[e] = lp /\ m \in {lq, lq \o Transmitted(p1)}
  <2> DEFINE out == Transmitted(p1)
             n == Carry(line, f, out)
  <2>1. line \in [Ends -> Lines] /\ f \in Ends /\ line[f] \o out \in Lines
    BY <1>2, <1>15 DEF TypesOK, lq
  <2>2. line' = n
    BY <1>1
  <2> HIDE DEF out
  <2>3. /\ n \in [Ends -> Lines] /\ n[f] \in {line[f], line[f] \o out}
        /\ \A y \in Ends : y # f => n[y] = line[y]
    BY <2>1, CarryIs
  <2> QED  BY <1>2, <2>2, <2>3 DEF lp, lq, out
<1>17. m = lq \/ m = lq \o Transmitted(p1)
  BY <1>16
<1> HIDE DEF m, o
<1>18. /\ o \in Structs /\ Kin(p1, o) /\ m \in Lines
       /\ Link(o, q, S + 1, R, T, U, lp, m, re, rf) /\ SizeL(m, o)
  <2> DEFINE S1 == S + 1
  <2> HIDE DEF S1
  <2>1. Link(p1, q, S1, R, T, U, lp, lq, re, rf) /\ (S1 > R /\ Holds(rf) => U = T)
    BY <1>6, <1>12 DEF S1
  <2>2. /\ o \in Structs /\ Kin(p1, o) /\ m \in Lines
        /\ Link(o, q, S1, R, T, U, lp, m, re, rf) /\ SizeL(m, o)
    <3>1. p1 \in Structs /\ q \in Structs /\ lp \in Lines /\ lq \in Lines /\ SizeL(lq, p1)
      BY <1>3, <1>10, <1>14
    <3> QED  BY <1>17, <2>1, <3>1, Sends DEF o
  <2> QED  BY <2>2 DEF S1
<1>19. o.state \in {p1.state, p1.state \ {"RXMIT"}}
  BY <1>10, OutputIs DEF o
<1>20. InputOK(p1, FaultKinds)
  BY <1>3, <1>10, InputKept
<1>21. /\ o.rwindow = p.rwindow /\ o.rsize = p.rsize /\ o.xcount = p.xcount + 1
       /\ InputOK(o, FaultKinds)
  BY <1>10, <1>13, <1>18, <1>20, KinIs
<1>22. SizeP(o, q, Live(pc'[e]))
  <2>1. Live(pc[e]) /\ Live(pc'[e])
    BY <1>1, <1>9 DEF Live
  <2>2. SizeP(p, q, TRUE)
    BY <1>3, <2>1 DEF SizeP
  <2>3. SizeP(p1, q, TRUE)
    BY <1>10, <2>2, SizeKept
  <2>4. SizeP(o, q, TRUE)
    BY <1>18, <2>3, KinSizes
  <2> QED  BY <2>1, <2>4 DEF SizeP
<1>23. "DOWN" \notin o.state
  BY <1>1, <1>10, <1>19
<1>24. PlaceIs(o, pc'[e], tries'[e], sent'[e], Got(e)', Writes(e)', Reads(e)')
  BY <1>9, <1>23 DEF PlaceIs
<1>25. Link(o, q, S + 1, R, T, U, lp, m, Reads(e)', rf)
  <2> DEFINE r1 == Reads(e)'
             S1 == S + 1
  <2> HIDE DEF r1, S1
  <2>1. Link(o, q, S1, R, T, U, lp, m, re, rf)
    BY <1>18 DEF S1
  <2>2. Link(o, q, S1, R, T, U, lp, m, r1, rf)
    BY <1>3, <1>6, <1>18, <2>1, LinkTurn
  <2> QED  BY <2>2 DEF r1, S1
<1>26. TypesOK'
  <2>1. pk' \in [Ends -> Structs]
    BY <1>1, <1>2, <1>18 DEF TypesOK
  <2> QED  BY <1>1, <1>2, <1>8, <1>9, <1>16, <2>1 DEF TypesOK, MaxFaults
<1>27. rcvd'[e] = [i \in 1..Got(e)' |-> i] /\ tries'[f] = tries[f] /\ rcvd'[f] = rcvd[f]
  BY <1>1, <1>8 DEF Inv, EndOK
<1>28. /\ o.rwindow = pk[e].rwindow /\ o.rsize = pk[e].rsize
       /\ SizeP(o, pk[f], Live(pc'[e])) /\ SizeL(line'[e], pk[f]) /\ SizeL(line'[f], o)
       /\ Link(o, pk[f], sent'[e], Got(f), sent[f], Got(e)', line'[e], line'[f],
               Reads(e)', Reads(f))
  BY <1>3, <1>8, <1>16, <1>18, <1>21, <1>22, <1>25 DEF p, q, S, R, T, U, m, rf
<1>29. Inv'
  BY <1>1, <1>2, <1>8, <1>9, <1>18, <1>21, <1>24, <1>26, <1>27, <1>28, Rejoin
<1>30. pk'[e] = o /\ pk'[f] = pk[f]
  BY <1>1, <1>2 DEF TypesOK
<1>31. Moves(e)
  BY <1>1, <1>2, <1>7, <1>8, <1>21, <1>27, <1>30 DEF Moves, p, q, S
<1> QED  BY <1>29, <1>31

-----------------------------------------------------------------------------
(***************************************************************************)
(* pkread                                                                  *)
(***************************************************************************)
\* What pkaccept and pkread leave of the input.
LEMMA InputRead ==
    ASSUME NEW p \in Structs, NEW q, NEW K, InputOK(p, K), q.rcount = 0, q.imap = {},
           \A x \in Seq8 : Quiet(q.in[x]), Buffers(q) = Buffers(p), q.ipool >= p.ipool,
           q.ipool \in Int, q.rwindow = p.rwindow
    PROVE  InputOK(q, K)
<1>1. p.ipool \in Int /\ p.ipool >= 0
  BY KinFields DEF InputOK
<1>2. q.ipool >= 0
  BY <1>1
<1>3. StoredOK(q)
  BY DEF StoredOK
<1> QED  BY <1>2, <1>3 DEF InputOK

\* pkaccept accepts nothing.
LEMMA ReadNothingKeeps ==
    ASSUME Inv, NEW e \in Ends, scenario' = scenario, Read(e), pkaccept(pk[e]).rcount = 0
    PROVE  Inv' /\ Moves(e)
<1> DEFINE f == Peer(e)
           p == pk[e]
           q == pkaccept(p)
           re == Reads(e)
           rf == Reads(f)
<1>1. /\ pc[e] = "run" /\ Reads(e) /\ HasInput(p)
      /\ pk' = [pk EXCEPT ![e] = q]
      /\ UNCHANGED <<line, pc, turn, left, rcvd>>
      /\ UNCHANGED <<tries, opens, sent, faults>>
  BY DEF Read
<1>2. TypesOK /\ f \in Ends /\ e # f /\ f = Peer(e)
  BY PeerIs DEF Inv
<1>3. /\ p \in Structs /\ pk[f] \in Structs /\ InputOK(p, FaultKinds) /\ SizeP(p, pk[f], Live(pc[e]))
      /\ SizeL(line[e], pk[f]) /\ SizeL(line[f], p)
      /\ Link(p, pk[f], sent[e], Got(f), sent[f], Got(e), line[e], line[f], re, rf)
  BY EndIs
<1>4. PlaceIs(p, pc[e], tries[e], sent[e], Got(e), Writes(e), Reads(e))
  BY DEF Inv, EndOK
<1>5. q.rcount = 0
  OBVIOUS
<1> HIDE DEF p, f, re, rf
<1>6. StoredOK(p) /\ NextAlone(p)
  BY <1>3, LinkNextAlone DEF InputOK
<1>7. /\ q \in Structs /\ SameOutside(p, q) /\ q.imap = {} /\ NoneLost(p, q)
      /\ \A x \in Seq8 : Quiet(q.in[x])
  BY <1>3, <1>5, <1>6, AcceptIs
<1> HIDE DEF q
<1>8. /\ q.state = p.state /\ q.swindow = p.swindow /\ q.lpsize = p.lpsize
      /\ q.rwindow = p.rwindow /\ q.rsize = p.rsize /\ q.xcount = p.xcount
      /\ Buffers(q) = Buffers(p) /\ q.ipool >= p.ipool
  BY <1>7 DEF SameOutside, NoneLost
<1>9. InputOK(q, FaultKinds)
  <2>1. q.ipool \in Int
    BY <1>7, KinFields
  <2> QED  BY <1>3, <1>5, <1>7, <1>8, <2>1, InputRead
<1>10. Link(q, pk[f], sent[e], Got(f), sent[f], Got(e), line[e], line[f], re, rf)
  BY <1>3, <1>7, LinkEmpty
<1>11. SizeP(q, pk[f], Live(pc[e])) /\ SizeL(line[f], q)
  <2>1. SizeP(q, pk[f], Live(pc[e]))
    BY <1>3, <1>8, SizeKept
  <2> QED  BY <1>3, <1>8, <2>1, SizeSame
<1>12. PlaceIs(q, pc[e], tries[e], sent[e], Got(e), Writes(e), Reads(e))
  BY <1>1, <1>4, <1>7, <1>8 DEF PlaceIs
<1>13. /\ pc[e] \in Places /\ pc' = [pc EXCEPT ![e] = pc[e]]
       /\ tries[e] \in 0..GETRIES-1 /\ tries' = [tries EXCEPT ![e] = tries[e]]
       /\ opens' \in [Ends -> Nat] /\ faults' \in 0..MaxFaults /\ line' \in [Ends -> Lines]
       /\ UNCHANGED <<turn, left, sent, rcvd>>
  BY <1>1, <1>2 DEF TypesOK, MaxFaults
<1>14. /\ q.xcount <= pk[e].xcount /\ q.rwindow = pk[e].rwindow /\ q.rsize = pk[e].rsize
  BY <1>3, <1>8, KinFields DEF p
<1>15. SizeL(line'[e], pk[f]) /\ SizeL(line'[f], q)
       /\ Link(q, pk[f], sent[e], Got(f), sent[f], Got(e), line'[e], line'[f], Reads(e), Reads(f))
  BY <1>1, <1>3, <1>10, <1>11 DEF re, rf
<1> QED
  BY <1>1, <1>2, <1>7, <1>9, <1>11, <1>12, <1>13, <1>14, <1>15, RejoinSame

\* pkread hands out a packet.
LEMMA ReadPacketKeeps ==
    ASSUME Inv, NEW e \in Ends, scenario' = scenario, Read(e), pkaccept(pk[e]).rcount # 0
    PROVE  Inv' /\ Moves(e)
<1> DEFINE f == Peer(e)
           p == pk[e]
           t == pk[f]
           S == sent[e]
           R == Got(f)
           T == sent[f]
           U == Got(e)
           lp == line[e]
           lq == line[f]
           q == pkaccept(p)
           bodies == ReadBodies(q, ICount)
           r == Consume(q, ICount)
           o == pkoutput(r)
           m == line'[f]
           re == Reads(e)
           rf == Reads(f)
<1>1. /\ pc[e] = "run" /\ Reads(e)
      /\ line' = Carry(line, f, Transmitted(r)) /\ pk' = [pk EXCEPT ![e] = o]
      /\ rcvd' = [rcvd EXCEPT ![e] = @ \o [i \in DOMAIN bodies |-> bodies[i].n]]
      /\ Advance(e, Len(bodies))
      /\ UNCHANGED <<tries, opens, sent, faults>>
  BY DEF Read
<1>2. TypesOK /\ f \in Ends /\ e # f /\ f = Peer(e) /\ ICount \in Nat \ {0}
  BY PeerIs, ScenarioIs DEF Inv, TypesOK
<1>3. /\ p \in Structs /\ t \in Structs /\ lp \in Lines /\ lq \in Lines
      /\ InputOK(p, FaultKinds) /\ SizeP(p, t, Live(pc[e]))
      /\ SizeL(lp, t) /\ SizeL(lq, p)
      /\ Link(p, t, S, R, T, U, lp, lq, re, rf)
  BY EndIs
<1>4. PlaceIs(p, pc[e], tries[e], S, U, Writes(e), Reads(e))
  BY DEF Inv, EndOK
<1>5. S \in Nat /\ U \in Nat /\ T \in Nat /\ rcvd[e] = [i \in 1..U |-> i]
  BY <1>2 DEF TypesOK, Got, Inv, EndOK
<1>6. q.rcount # 0
  OBVIOUS
<1>7. S > R /\ Holds(rf) => U = T
  BY EndsMeet DEF Holds
<1>8. Holds(re)
  BY <1>1 DEF Holds
<1> HIDE DEF f, p, t, S, R, T, U, lp, lq, re, rf
<1>9. StoredOK(p) /\ NextAlone(p)
  BY <1>3, LinkNextAlone DEF InputOK
<1>10. /\ q \in Structs /\ SameOutside(p, q) /\ q.imap = {} /\ NoneLost(p, q)
       /\ q.rcount = 1 /\ Accepted(p, q)
  BY <1>3, <1>6, <1>9, AcceptIs
<1> HIDE DEF q
<1>11. /\ q.state = p.state /\ q.swindow = p.swindow /\ q.lpsize = p.lpsize /\ q.pr = p.pr
       /\ q.rwindow = p.rwindow /\ q.rsize = p.rsize /\ q.xcount = p.xcount
       /\ q.ps = p.ps /\ q.pscopy = p.pscopy /\ q.ob = p.ob /\ q.os = p.os
       /\ Buffers(q) = Buffers(p) /\ q.ipool >= p.ipool
  BY <1>10 DEF SameOutside, NoneLost
<1>12. SlotAt(q, 1) = SlotAt(p, 1)
  BY <1>11 DEF SlotAt
<1> DEFINE z == SlotAt(p, 1)
<1>13. PICK w \in p.imap : p.in[w].seq = z /\ q.in[z].body = p.in[w].body
  BY <1>10 DEF Accepted
<1>14. q.in[z].st = "copy" /\ \A x \in Seq8 \ {z} : Quiet(q.in[x])
  BY <1>10 DEF Accepted
<1>15. Consumed(q, r) /\ bodies = <<q.in[z].body>>
  BY <1>2, <1>10, <1>12, <1>14, ConsumeIs
<1> HIDE DEF r, bodies
<1>16. /\ r \in Structs /\ r.pr = z /\ r.rcount = 0 /\ r.imap = {}
       /\ Buffers(r) = Buffers(p) /\ r.ipool >= q.ipool /\ \A x \in Seq8 : Quiet(r.in[x])
       /\ r.state = p.state /\ r.ps = p.ps /\ r.pscopy = p.pscopy /\ r.os = p.os
       /\ r.ob = p.ob /\ r.xcount = p.xcount /\ r.rwindow = p.rwindow
       /\ r.swindow = p.swindow /\ r.rsize = p.rsize /\ r.lpsize = p.lpsize
  BY <1>10, <1>11, <1>12, <1>15 DEF Consumed
<1>17. z = SlotAt(p, 1)
  OBVIOUS
<1>18. p.in[w].body.n = U + 1
  BY <1>3, <1>13, LinkNext
<1>19. InputOK(r, FaultKinds)
  <2>1. r.ipool \in Int /\ q.ipool \in Int /\ p.ipool \in Int
    BY <1>3, <1>10, <1>16, KinFields
  <2>2. r.ipool >= p.ipool
    BY <1>11, <1>16, <2>1
  <2> QED  BY <1>3, <1>16, <2>1, <2>2, InputRead
<1> HIDE DEF z
<1> DEFINE V == U + 1
<1>20. V = U + 1
  OBVIOUS
<1>21. V <= T /\ Link(r, t, S, R, T, V, lp, lq, re, rf)
  BY <1>3, <1>8, <1>13, <1>16, <1>17, LinkRead
<1>22. S > R /\ Holds(rf) => V = T
  BY <1>5, <1>7, <1>20, <1>21
<1> HIDE DEF V
<1>23. SizeL(lq, r) /\ SizeP(r, t, Live(pc[e]))
  <2>1. SizeL(lq, r)
    BY <1>3, <1>16, SizeSame
  <2>2. r.state \cap {"INITa", "INITb", "LIVE"} \subseteq p.state
    BY <1>16
  <2> QED  BY <1>3, <1>16, <2>1, <2>2, SizeKept
<1>24. lq \o Transmitted(r) \in Lines
  BY <1>3, <1>16, <1>21, <1>22, LinkOutput DEF Holds
<1>25. line' \in [Ends -> Lines] /\ line'[e] = lp /\ m \in {lq, lq \o Transmitted(r)}
  <2> DEFINE out == Transmitted(r)
             n == Carry(line, f, out)
  <2>1. line \in [Ends -> Lines] /\ f \in Ends /\ line[f] \o out \in Lines
    BY <1>2, <1>24 DEF TypesOK, lq
  <2>2. line' = n
    BY <1>1
  <2> HIDE DEF out
  <2>3. /\ n \in [Ends -> Lines] /\ n[f] \in {line[f], line[f] \o out}
        /\ \A y \in Ends : y # f => n[y] = line[y]
    BY <2>1, CarryIs
  <2> QED  BY <1>2, <2>2, <2>3 DEF lp, lq, out
<1>26. m = lq \/ m = lq \o Transmitted(r)
  BY <1>25
<1> HIDE DEF m, o
<1>27. /\ o \in Structs /\ Kin(r, o) /\ m \in Lines
       /\ Link(o, t, S, R, T, V, lp, m, re, rf) /\ SizeL(m, o)
  <2>1. r \in Structs /\ t \in Structs /\ lp \in Lines /\ lq \in Lines /\ SizeL(lq, r)
        /\ Link(r, t, S, R, T, V, lp, lq, re, rf)
    BY <1>3, <1>16, <1>21, <1>23
  <2> QED  BY <1>22, <1>26, <2>1, Sends DEF o
<1>28. o.state \in {r.state, r.state \ {"RXMIT"}}
  BY <1>16, OutputIs DEF o
<1>29. /\ o.rwindow = p.rwindow /\ o.rsize = p.rsize /\ o.xcount = p.xcount
       /\ InputOK(o, FaultKinds)
  BY <1>16, <1>19, <1>27, KinIs
<1>30. Link(o, t, S, R, T, V, lp, m, Reads(e)', rf)
  <2> DEFINE r1 == Reads(e)'
  <2> HIDE DEF r1
  <2>1. re \/ T = V
    BY <1>8 DEF Holds
  <2>2. Link(o, t, S, R, T, V, lp, m, r1, rf)
    BY <1>3, <1>27, <2>1, LinkTurn
  <2> QED  BY <2>2 DEF r1
<1>31. rcvd' \in [Ends -> Seq(Nat)] /\ rcvd'[e] = [i \in 1..V |-> i] /\ Got(e)' = V
       /\ rcvd'[f] = rcvd[f] /\ Len(bodies) = 1
  <2> DEFINE k == q.in[z].body.n
             h == [i \in DOMAIN bodies |-> bodies[i].n]
  <2>1. k = V
    BY <1>13, <1>18, <1>20
  <2>2. h = <<k>> /\ Len(bodies) = 1
    BY <1>15
  <2>3. V \in Nat
    BY <1>5, <1>20
  <2> HIDE DEF k, h
  <2>4. rcvd' = [rcvd EXCEPT ![e] = @ \o <<V>>]
    BY <1>1, <2>1, <2>2 DEF h
  <2>5. rcvd \in [Ends -> Seq(Nat)]
    BY <1>2 DEF TypesOK
  <2>6. rcvd'[e] = [i \in 1..U |-> i] \o <<V>> /\ rcvd'[f] = rcvd[f]
    BY <1>2, <1>5, <2>4, <2>5
  <2>7. [i \in 1..U |-> i] \o <<V>> = [i \in 1..V |-> i]
    BY <1>5, <1>20
  <2>8. rcvd[e] \o <<V>> \in Seq(Nat)
    BY <2>3, <2>5
  <2>9. rcvd' \in [Ends -> Seq(Nat)]
    BY <2>4, <2>5, <2>8
  <2>10. Len(rcvd'[e]) = V
    <3> DEFINE d == rcvd'[e]
    <3>1. d \in Seq(Nat) /\ d = [i \in 1..V |-> i]
      BY <2>6, <2>7, <2>9
    <3> HIDE DEF d
    <3>2. DOMAIN d = 1..V
      BY <3>1
    <3> QED  BY <2>3, <3>1, <3>2 DEF d
  <2> QED  BY <2>2, <2>6, <2>7, <2>9, <2>10 DEF Got
<1>32. /\ TurnIs(Script, e, turn'[e], left'[e], sent'[e], Got(e)')
       /\ turn' \in [Ends -> Nat] /\ left' \in [Ends -> Nat] /\ pc' \in [Ends -> Places]
       /\ pc'[e] \in {"run", "done"}
       /\ turn'[f] = turn[f] /\ left'[f] = left[f] /\ pc'[f] = pc[f]
  <2>1. ~Finished(e) /\ Script[turn[e]].by # e
    BY <1>1 DEF Reads
  <2>2. IF Script[turn[e]].by = e THEN sent'[e] = sent[e] + 1 /\ Got(e)' = Got(e)
                                  ELSE sent'[e] = sent[e] /\ Got(e)' = Got(e) + 1
    BY <1>1, <1>20, <1>31, <2>1 DEF U
  <2>3. /\ TurnIs(Script, e, turn'[e], left'[e], sent'[e], Got(e)')
        /\ turn' \in [Ends -> Nat] /\ left' \in [Ends -> Nat] /\ pc' \in [Ends -> Places]
        /\ pc'[e] \in {pc[e], "run", "done"}
        /\ \A x \in Ends : x # e => turn'[x] = turn[x] /\ left'[x] = left[x] /\ pc'[x] = pc[x]
    BY <1>1, <1>31, <2>1, <2>2, AdvanceIs
  <2> QED  BY <1>1, <1>2, <2>3
<1>33. "DOWN" \notin p.state
  <2>1. ~Writes(e) /\ p.imap # {}
    BY <1>1, <1>13 DEF Writes, Reads
  <2> QED  BY <1>1, <1>4, <2>1 DEF PlaceIs
<1>34. PlaceIs(o, pc'[e], tries'[e], sent'[e], Got(e)', Writes(e)', Reads(e)')
  <2>1. "DOWN" \notin o.state
    BY <1>16, <1>28, <1>33
  <2> QED  BY <1>32, <2>1 DEF PlaceIs
<1>35. SizeP(o, t, Live(pc'[e]))
  <2>1. Live(pc[e]) /\ Live(pc'[e])
    BY <1>1, <1>32 DEF Live
  <2>2. SizeP(o, t, Live(pc[e]))
    BY <1>23, <1>27, KinSizes
  <2> QED  BY <2>1, <2>2 DEF SizeP
<1>36. TypesOK'
  <2>1. pk' \in [Ends -> Structs]
    BY <1>1, <1>2, <1>27 DEF TypesOK
  <2> QED  BY <1>1, <1>2, <1>25, <1>31, <1>32, <2>1 DEF TypesOK, MaxFaults
<1>37. /\ o.rwindow = pk[e].rwindow /\ o.rsize = pk[e].rsize
       /\ SizeP(o, pk[f], Live(pc'[e])) /\ SizeL(line'[e], pk[f]) /\ SizeL(line'[f], o)
       /\ Link(o, pk[f], sent'[e], Got(f), sent[f], Got(e)', line'[e], line'[f],
               Reads(e)', Reads(f))
  BY <1>1, <1>3, <1>25, <1>27, <1>29, <1>30, <1>31, <1>35 DEF p, t, S, R, T, m, rf
<1>38. rcvd'[e] = [i \in 1..Got(e)' |-> i] /\ tries'[f] = tries[f] /\ sent'[f] = sent[f]
  BY <1>1, <1>31
<1>39. Inv'
  BY <1>1, <1>2, <1>27, <1>29, <1>31, <1>32, <1>34, <1>36, <1>37, <1>38, Rejoin
<1>40. pk'[e] = o /\ pk'[f] = pk[f]
  BY <1>1, <1>2 DEF TypesOK
<1>41. Moves(e)
  BY <1>1, <1>2, <1>20, <1>29, <1>31, <1>38, <1>40 DEF Moves, p, U
<1> QED  BY <1>39, <1>41

-----------------------------------------------------------------------------
(***************************************************************************)
(* The first state and every step                                          *)
(***************************************************************************)
\* A driver that pkopen has set up.
LEMMA NewIs ==
    ASSUME NEW w \in 1..7, NEW z \in PacketSizes
    PROVE  LET p == pkoutput(pknew(w, z))
           IN  /\ p \in Structs /\ p.state = {} /\ p.rwindow = w
               /\ p.ps = 0 /\ p.pr = 0 /\ p.pscopy = 0 /\ p.xcount = 0 /\ p.imap = {}
               /\ \A x \in Seq8 : p.os[x] = {}
               /\ \A K : InputOK(p, K)
<1> DEFINE n == pknew(w, z)
           p == pkoutput(n)
<1>1. /\ n.state = {} /\ n.rwindow = w /\ n.ps = 0 /\ n.pr = 0 /\ n.pscopy = 0 /\ n.xcount = 0
      /\ n.imap = {} /\ n.ipool = w /\ n.rcount = 0
      /\ \A x \in Seq8 : n.os[x] = {} /\ n.in[x] = NullSlot
  BY DEF pknew
<1>2. n \in Structs
  <2>1. NoBody \in Bodies /\ NullSlot \in Slots
    BY DEF NoBody, NullSlot, Bodies, Slots, Seq8
  <2>2. 0 \in Seq8 /\ {"INITA"} \in SUBSET Messages /\ {} \in SUBSET Flags
        /\ w \in Int /\ w \in 1..7
    BY DEF Seq8, Messages
  <2> QED  BY <2>1, <2>2 DEF pknew, Structs
<1> HIDE DEF n
<1>3. p \in Structs /\ Kin(n, p) /\ p.state \in {n.state, n.state \ {"RXMIT"}}
  BY <1>2, KinOutput, OutputIs
<1> HIDE DEF p
<1>4. LinkSame(n, p) /\ InputSame(n, p)
  BY <1>3 DEF Kin
<1>5. ASSUME NEW K PROVE InputOK(p, K)
  <2>1. StoredOK(n)
    BY <1>1 DEF StoredOK, Quiet, NullSlot
  <2>2. Busy(n) = {}
    BY <1>1 DEF Busy, NullSlot
  <2>3. Buffers(n) = w
    <3>1. Cardinality({}) = 0
      BY FS_EmptySet
    <3> QED  BY <1>1, <2>2, <3>1 DEF Buffers
  <2>4. InputOK(n, K)
    BY <1>1, <2>1, <2>3 DEF InputOK
  <2> QED  BY <1>4, <2>4, InputKept
<1>6. \A x \in Seq8 : p.os[x] = {}
  BY <1>1, <1>4 DEF LinkSame
<1>7. p.state = {}
  BY <1>1, <1>3
<1>8. p.rwindow = w /\ p.ps = 0 /\ p.pr = 0 /\ p.pscopy = 0 /\ p.xcount = 0 /\ p.imap = {}
  BY <1>1, <1>4 DEF LinkSame
<1> QED  BY <1>3, <1>5, <1>6, <1>7, <1>8 DEF p, n

\* One direction of a line on which there is nothing but INITA.
LEMMA NewDirection ==
    ASSUME NEW p, NEW q, NEW l, NEW k, NEW rd,
           p.xcount = 0, p.ps = 0, p.pscopy = 0, q.pr = 0, q.rwindow \in 1..7, q.imap = {},
           \A x \in Seq8 : p.os[x] = {},
           \A i \in DOMAIN l : l[i].type = "INITA", \A i \in DOMAIN k : k[i].type = "INITA"
    PROVE  Direction(p, 0, q, 0, l, k, rd)
<1>1. WindowOK(p, 0, q, 0)
  BY DEF WindowOK
<1>2. BuffersOK(p, 0, 0)
  BY DEF BuffersOK
<1>3. DataOK(p, 0, q, 0, l, rd)
  BY DEF DataOK, IsData
<1>4. SlotsOK(p, 0, q, 0, l)
  BY DEF SlotsOK
<1>5. AcksOK(p, 0, 0, k)
  BY DEF AcksOK, IsAck
<1> QED  BY <1>1, <1>2, <1>3, <1>4, <1>5 DEF Direction

\* The invariant holds when both ends have called pkopen.
LEMMA InitInv ==
    ASSUME Init
    PROVE  Inv
<1>1. /\ scenario \in Scenarios
      /\ pc = [e \in Ends |-> "open"] /\ tries = [e \in Ends |-> 0]
      /\ opens = [e \in Ends |-> 0] /\ turn = [e \in Ends |-> 1]
      /\ left = [e \in Ends |-> TurnLength(1)] /\ sent = [e \in Ends |-> 0]
      /\ rcvd = [e \in Ends |-> <<>>] /\ faults = 0
      /\ line = [e \in Ends |-> <<[type |-> "INITA", val |-> pk[Peer(e)].rwindow]>>]
  BY DEF Init
<1>2. /\ Script \in Seq(Turns2) /\ MaxFaults \in Nat /\ GETRIES \in Nat \ {0}
      /\ scenario.windows \subseteq 1..7 /\ scenario.sizes \subseteq PacketSizes
  BY <1>1, ScenarioIs
<1>3. DOMAIN pk = Ends /\ pk = [e \in Ends |-> pk[e]]
  BY DEF Init
<1>4. ASSUME NEW e \in Ends
      PROVE  LET p == pk[e]
             IN  /\ p \in Structs /\ p.state = {} /\ p.rwindow \in scenario.windows
                 /\ p.ps = 0 /\ p.pr = 0 /\ p.pscopy = 0 /\ p.xcount = 0 /\ p.imap = {}
                 /\ \A x \in Seq8 : p.os[x] = {}
                 /\ InputOK(p, FaultKinds)
  <2>1. PICK w \in scenario.windows, z \in scenario.sizes : pk[e] = pkoutput(pknew(w, z))
    BY DEF Init
  <2>2. w \in 1..7 /\ z \in PacketSizes
    BY <1>2
  <2> QED  BY <2>1, <2>2, NewIs
<1>5. ASSUME NEW e \in Ends
      PROVE  /\ line[e] \in Lines /\ SizeL(line[e], pk[Peer(e)])
             /\ \A i \in DOMAIN line[e] : line[e][i].type = "INITA"
  <2> DEFINE v == pk[Peer(e)].rwindow
             g == [type |-> "INITA", val |-> v]
  <2>1. v \in Seq8
    BY <1>2, <1>4, PeerIs DEF Seq8
  <2>2. line[e] = <<g>>
    BY <1>1
  <2>3. g \in LineFrames /\ g.type = "INITA" /\ g.val = v
    BY <2>1 DEF LineFrames, Messages
  <2>4. SizeOf(g, pk[Peer(e)])
    BY <2>3 DEF SizeOf
  <2> HIDE DEF g
  <2>5. <<g>> \in Seq(LineFrames) /\ \A i \in DOMAIN <<g>> : <<g>>[i] = g
    BY <2>3
  <2> QED  BY <2>2, <2>3, <2>4, <2>5 DEF Lines, SizeL
<1>6. TurnLength(1) \in Nat /\ \A e \in Ends : TurnIs(Script, e, 1, TurnLength(1), 0, 0)
  <2>1. Len(Script) \in Nat /\ DOMAIN Script = 1..Len(Script)
    BY <1>2
  <2>2. CASE Len(Script) = 0
    <3>1. TurnLength(1) = 0
      BY <2>1, <2>2 DEF TurnLength
    <3>2. ASSUME NEW e \in Ends PROVE TurnIs(Script, e, 1, 0, 0, 0)
      <4>1. First(Script, e)[0] = 0 /\ First(Script, Peer(e))[0] = 0
        BY <1>2, FirstIs
      <4> QED  BY <2>2, <4>1 DEF TurnIs
    <3> QED  BY <3>1, <3>2
  <2>3. CASE Len(Script) # 0
    <3>1. 1 \in DOMAIN Script /\ Script[1] \in Turns2
      BY <1>2, <2>1, <2>3
    <3>2. TurnLength(1) = Script[1].n /\ Script[1].n \in Nat \ {0}
      BY <3>1 DEF TurnLength, Turns2
    <3>3. ASSUME NEW e \in Ends PROVE TurnIs(Script, e, 1, Script[1].n, 0, 0)
      <4>1. First(Script, e)[0] = 0 /\ First(Script, Peer(e))[0] = 0
        BY <1>2, FirstIs
      <4> QED  BY <2>1, <2>3, <3>2, <4>1 DEF TurnIs
    <3> QED  BY <3>2, <3>3
  <2> QED  BY <2>2, <2>3
<1>7. TypesOK
  <2>1. pk \in [Ends -> Structs] /\ line \in [Ends -> Lines]
    BY <1>1, <1>3, <1>4, <1>5
  <2>2. "open" \in Places /\ 0 \in 0..GETRIES-1 /\ 0 \in 0..MaxFaults /\ <<>> \in Seq(Nat)
    BY <1>2 DEF Places
  <2> QED  BY <1>1, <1>6, <2>1, <2>2 DEF TypesOK
<1>8. ASSUME NEW e \in Ends PROVE EndOK(e) /\ LinkOK(e)
  <2> DEFINE f == Peer(e)
  <2>1. f \in Ends /\ Peer(f) = e
    BY PeerIs
  <2>2. sent[e] = 0 /\ sent[f] = 0 /\ Got(e) = 0 /\ Got(f) = 0 /\ rcvd[e] = <<>>
    BY <1>1, <2>1 DEF Got
  <2>3. SizeP(pk[e], pk[f], Live(pc[e]))
    BY <1>1, <1>4 DEF SizeP, Live
  <2>4. PlaceIs(pk[e], pc[e], tries[e], sent[e], Got(e), Writes(e), Reads(e))
    BY <1>1, <1>4, <2>2 DEF PlaceIs
  <2>5. TurnIs(Script, e, turn[e], left[e], sent[e], Got(e))
    BY <1>1, <1>6, <2>2
  <2>6. rcvd[e] = [i \in 1..Got(e) |-> i]
    BY <2>2
  <2>7. EndOK(e)
    BY <1>4, <1>5, <2>3, <2>4, <2>5, <2>6 DEF EndOK
  <2>8. /\ pk[e].xcount = 0 /\ pk[e].ps = 0 /\ pk[e].pscopy = 0 /\ pk[e].pr = 0
        /\ pk[e].rwindow \in 1..7 /\ pk[e].imap = {} /\ \A x \in Seq8 : pk[e].os[x] = {}
        /\ pk[f].xcount = 0 /\ pk[f].ps = 0 /\ pk[f].pscopy = 0 /\ pk[f].pr = 0
        /\ pk[f].rwindow \in 1..7 /\ pk[f].imap = {} /\ \A x \in Seq8 : pk[f].os[x] = {}
    BY <1>2, <1>4, <2>1
  <2> DEFINE p == pk[e]
             q == pk[f]
             l == line[e]
             k == line[f]
             re == Reads(e)
             rf == Reads(f)
  <2>9. (\A i \in DOMAIN l : l[i].type = "INITA") /\ (\A i \in DOMAIN k : k[i].type = "INITA")
    BY <1>5, <2>1
  <2> HIDE DEF p, q, l, k, re, rf
  <2>10. Direction(p, 0, q, 0, k, l, rf) /\ Direction(q, 0, p, 0, l, k, re)
    BY <2>8, <2>9, NewDirection DEF p, q
  <2>11. Link(p, q, 0, 0, 0, 0, l, k, re, rf)
    BY <2>8, <2>10 DEF Link, p
  <2> QED  BY <2>2, <2>7, <2>11 DEF LinkOK, p, q, l, k, re, rf
<1> QED  BY <1>7, <1>8 DEF Inv

\* Every step keeps the invariant, and moves at most one end.
LEMMA StepInv ==
    ASSUME Inv, [Next]_vars
    PROVE  Inv' /\ (UNCHANGED vars \/ \E e \in Ends : Moves(e))
<1>1. CASE UNCHANGED vars
  <2>1. /\ UNCHANGED <<scenario, pk, line, pc, tries, opens, turn, left, sent, rcvd, faults>>
    BY <1>1 DEF vars
  <2>2. TypesOK'
    BY <2>1 DEF Inv, TypesOK, MaxFaults
  <2>3. ASSUME NEW e \in Ends PROVE EndOK(e)' /\ LinkOK(e)'
    <3>1. EndOK(e) /\ LinkOK(e)
      BY DEF Inv
    <3>2. Writes(e)' = Writes(e) /\ Reads(e)' = Reads(e) /\ Got(e)' = Got(e)
          /\ Reads(Peer(e))' = Reads(Peer(e)) /\ Got(Peer(e))' = Got(Peer(e))
          /\ Script' = Script /\ FaultKinds' = FaultKinds
      BY <2>1 DEF Writes, Reads, Finished, Got, Script, FaultKinds
    <3> QED  BY <2>1, <3>1, <3>2 DEF EndOK, LinkOK
  <2> QED  BY <1>1, <2>2, <2>3 DEF Inv
<1>2. CASE Next /\ ~ UNCHANGED vars
  <2>1. PICK e \in Ends : (Step(e) \/ LineFault(e)) /\ scenario' = scenario
    BY <1>2 DEF Next, Over
  <2>2. scenario' = scenario
    BY <2>1
  <2>3. CASE ReceiveControl(e)
    BY <2>2, <2>3, ReceiveControlKeeps
  <2>4. CASE ReceiveData(e, TRUE) /\ UNCHANGED faults
    <3>1. faults' \in 0..MaxFaults
      BY <2>4 DEF Inv, TypesOK
    <3> QED  BY <2>2, <2>4, <3>1, ReceiveDataKeeps
  <2>5. CASE Timeout(e)
    BY <2>2, <2>5, TimeoutKeeps
  <2>6. CASE GiveUp(e) \/ Hangup(e)
    BY <2>2, <2>6, GiveUpKeeps
  <2>7. CASE WaitForWindow(e)
    BY <2>2, <2>7, WaitForWindowKeeps
  <2>8. CASE WritePacket(e)
    BY <2>2, <2>8, WritePacketKeeps
  <2>9. CASE Read(e)
    BY <2>2, <2>9, ReadNothingKeeps, ReadPacketKeeps
  <2>10. CASE pkclose(e)
    BY <2>2, <2>10, pkcloseKeeps
  <2>11. CASE Lose(e)
    BY <2>2, <2>11, LoseKeeps
  <2>12. CASE GarbleHeader(e)
    BY <2>2, <2>12, GarbleHeaderKeeps
  <2>13. CASE GarbleBody(e)
    BY <2>2, <2>13, GarbleBodyKeeps
  <2>14. CASE Noise(e)
    BY <2>2, <2>14, NoiseKeeps
  <2>15. CASE CutBody(e)
    BY <2>2, <2>15, CutBodyKeeps
  <2> QED
    BY <2>1, <2>3, <2>4, <2>5, <2>6, <2>7, <2>8, <2>9, <2>10, <2>11, <2>12, <2>13, <2>14, <2>15
    DEF Step, LineFault
<1> QED  BY <1>1, <1>2

\* Whatever the line loses, delays or damages, whatever times out and however
\* the conversation ends, each direction stays a window of at most p_rwindow
\* packets that both ends number alike, each end's input buffers are all in the
\* pool or in a slot, and what pkread handed out is what pkwrite took (pk0.c,
\* pk1.c).
THEOREM ConversationInvariance == Spec => []Inv
<1>1. Init => Inv
  BY InitInv
<1>2. Inv /\ [Next]_vars => Inv'
  BY StepInv
<1> QED  BY <1>1, <1>2, PTL DEF Spec

-----------------------------------------------------------------------------
(***************************************************************************)
(* What the invariant implies                                              *)
(***************************************************************************)
\* The output buffers in use, when F packets are freed and C more written.
LEMMA UsedIs ==
    ASSUME NEW F \in Nat, NEW C \in 0..7, NEW p, p.ps = F % 8, p.pscopy = (F + C) % 8,
           NEW used, used = {(F + i) % 8 : i \in 1..C}
    PROVE  Cardinality(used) = C /\ used = Range(PathTo(p.ps, p.pscopy))
<1> DEFINE b == [i \in 1..C |-> (F + i) % 8]
<1>1. b \in Bijection(1..C, used)
  <2>1. b \in [1..C -> used] /\ \A t \in used : \E s \in 1..C : b[s] = t
    OBVIOUS
  <2>2. ASSUME NEW i \in 1..C, NEW j \in 1..C, b[i] = b[j] PROVE i = j
    <3>1. F + i \in Nat /\ F + j \in Nat /\ F + i < (F + j) + 8 /\ F + j < (F + i) + 8
      OBVIOUS
    <3>2. (F + i) % 8 = (F + j) % 8
      BY <2>2
    <3>3. F + i = F + j
      BY <3>1, <3>2, SameMod
    <3> QED  BY <3>3
  <2> HIDE DEF b
  <2> QED  BY <2>1, <2>2 DEF Bijection, Injection, Surjection, IsInjective
<1>2. Cardinality(used) = C
  BY <1>1, FS_CountingElements DEF ExistsBijection
<1>3. PathTo(p.ps, p.pscopy) = b
  <2>1. (p.pscopy + 8 - p.ps) % 8 = C
    BY FreesOf DEF Frees
  <2>2. \A i \in 1..C : (p.ps + i) % 8 = (F + i) % 8
    BY ModSum
  <2> QED  BY <2>1, <2>2 DEF PathTo
<1>4. used = Range(b)
  BY DEF Range
<1> QED  BY <1>2, <1>3, <1>4

\* What the invariant says of one end.
LEMMA EndNumbers ==
    ASSUME Inv, NEW e \in Ends, NEW f, f = Peer(e)
    PROVE  /\ pk[e] \in Structs /\ pk[f] \in Structs /\ pk[e].xcount \in 0..7
           /\ sent[e] \in Nat /\ sent[e] - pk[e].xcount \in Nat
           /\ sent[e] - pk[e].xcount <= Got(f) /\ Got(f) <= sent[e]
           /\ pk[e].xcount <= pk[f].rwindow
           /\ pk[e].ps = (sent[e] - pk[e].xcount) % 8 /\ pk[e].pscopy = sent[e] % 8
           /\ BuffersOK(pk[e], sent[e], Got(f))
<1>1. /\ pk[e] \in Structs /\ pk[f] \in Structs
      /\ Link(pk[e], pk[f], sent[e], Got(f), sent[f], Got(e), line[e], line[f],
              Reads(e), Reads(f))
  BY EndIs
<1>2. /\ sent[e] \in Nat /\ pk[e].xcount \in Nat /\ sent[e] - pk[e].xcount \in Nat
      /\ sent[e] - pk[e].xcount <= Got(f) /\ Got(f) <= sent[e]
      /\ sent[e] <= (sent[e] - pk[e].xcount) + 7 /\ pk[e].xcount <= pk[f].rwindow
      /\ pk[e].ps = (sent[e] - pk[e].xcount) % 8 /\ pk[e].pscopy = sent[e] % 8
  BY <1>1, LinkNumbers
<1>3. BuffersOK(pk[e], sent[e], Got(f))
  BY <1>1 DEF Link, Direction
<1>4. pk[e].xcount \in 0..7
  BY <1>2
<1> QED  BY <1>1, <1>2, <1>3, <1>4

\* The invariant implies the type invariant.
LEMMA TypeOf == ASSUME Inv PROVE TypeOK
<1>1. TypesOK
  BY DEF Inv
<1>2. ASSUME NEW e \in Ends
      PROVE  /\ pk[e].state \subseteq {"INITa", "INITb", "LIVE", "RXMIT", "DRAINO", "DOWN", "RCLOSE"}
             /\ {pk[e].ps, pk[e].pr, pk[e].rpr, pk[e].nxtps, pk[e].pscopy} \subseteq Seq8
             /\ {pk[e].ipool, pk[e].rcount, pk[e].xcount} \subseteq 0..7
             /\ {pk[e].rwindow, pk[e].swindow} \subseteq 1..7
             /\ pk[e].imap \subseteq {x \in Seq8 : pk[e].in[x].st = "raw"}
  <2> DEFINE p == pk[e]
  <2>1. p \in Structs /\ p.xcount \in 0..7
    BY EndNumbers
  <2>2. InputOK(p, FaultKinds)
    BY DEF Inv, EndOK
  <2> HIDE DEF p
  <2>3. /\ p.state \in SUBSET Flags /\ p.ps \in Seq8 /\ p.pr \in Seq8 /\ p.rpr \in Seq8
        /\ p.nxtps \in Seq8 /\ p.pscopy \in Seq8 /\ p.rwindow \in 1..7 /\ p.swindow \in 1..7
        /\ p.ipool \in Int /\ p.imap \in SUBSET Seq8
    BY <2>1, KinFields
  <2>4. p.ipool \in 0..7
    <3>1. p.ipool >= 0 /\ p.ipool + Cardinality(Busy(p)) <= p.rwindow
      BY <2>2 DEF InputOK, Buffers
    <3>2. Cardinality(Busy(p)) \in Nat
      BY BusyFinite
    <3> QED  BY <2>3, <3>1, <3>2
  <2>5. p.rcount = 0 /\ \A x \in p.imap : p.in[x].st = "raw"
    BY <2>2 DEF InputOK, StoredOK
  <2> QED  BY <2>1, <2>3, <2>4, <2>5 DEF Flags, p
<1> QED  BY <1>1, <1>2 DEF TypesOK, TypeOK

\* The invariant implies OutputBuffers.
LEMMA OutputBuffersOf == ASSUME Inv PROVE OutputBuffers
<1> SUFFICES ASSUME NEW e \in Ends
             PROVE  LET used == {x \in Seq8 : pk[e].os[x] # {}}
                    IN  /\ Cardinality(used) = pk[e].xcount
                        /\ used = Range(PathTo(pk[e].ps, pk[e].pscopy))
                        /\ pk[e].xcount <= pk[Peer(e)].rwindow
                        /\ pc[e] = "run" /\ Writes(e) /\ pk[e].xcount < pk[e].swindow
                              => CanWrite(pk[e])
  BY DEF OutputBuffers
<1> DEFINE p == pk[e]
           used == {x \in Seq8 : p.os[x] # {}}
           C == p.xcount
           F == sent[e] - C
<1>1. /\ p \in Structs /\ C \in 0..7 /\ sent[e] \in Nat /\ F \in Nat
      /\ C <= pk[Peer(e)].rwindow /\ p.ps = F % 8 /\ p.pscopy = sent[e] % 8
      /\ BuffersOK(p, sent[e], Got(Peer(e)))
  BY EndNumbers
<1>2. sent[e] = F + C
  BY <1>1
<1>3. /\ \A n \in F + 1 .. sent[e] : p.os[n % 8] # {}
      /\ \A x \in Seq8 : p.os[x] # {} => \E n \in F + 1 .. sent[e] : x = n % 8
  BY <1>1 DEF BuffersOK
<1>4. PlaceIs(p, pc[e], tries[e], sent[e], Got(e), Writes(e), Reads(e))
  BY DEF Inv, EndOK
<1>5. Writes(e) => ~Reads(e)
  BY DEF Writes, Reads
<1> HIDE DEF F, C
<1>6. used = {(F + i) % 8 : i \in 1..C}
  <2>1. ASSUME NEW x \in used PROVE \E i \in 1..C : x = (F + i) % 8
    <3>1. PICK n \in F + 1 .. sent[e] : x = n % 8
      BY <1>3
    <3>2. n - F \in 1..C /\ F + (n - F) = n
      BY <1>1, <1>2
    <3> QED  BY <3>1, <3>2
  <2>2. ASSUME NEW i \in 1..C PROVE (F + i) % 8 \in used
    <3>1. F + i \in F + 1 .. sent[e] /\ F + i \in Nat
      BY <1>1, <1>2
    <3> DEFINE n == F + i
    <3> HIDE DEF n
    <3>2. p.os[n % 8] # {} /\ n % 8 \in Seq8
      BY <1>3, <3>1, ModIn DEF n
    <3>3. n % 8 \in used
      BY <3>2
    <3> QED  BY <3>3 DEF n
  <2> QED  BY <2>1, <2>2
<1>7. Cardinality(used) = C /\ used = Range(PathTo(p.ps, p.pscopy))
  <2>1. p.ps = F % 8 /\ p.pscopy = (F + C) % 8 /\ F \in Nat /\ C \in 0..7
    BY <1>1, <1>2
  <2> HIDE DEF p, used
  <2> QED  BY <1>6, <2>1, UsedIs
<1>8. ASSUME pc[e] = "run", Writes(e), C < p.swindow
      PROVE  CanWrite(p)
  <2>1. p.swindow \in 1..7
    BY <1>1, KinFields
  <2>2. "DOWN" \notin p.state
    <3>1. ~ (C >= p.swindow)
      BY <1>1, <1>8, <2>1
    <3> QED  BY <1>4, <1>5, <1>8, <3>1 DEF PlaceIs, C
  <2>3. next(p.pscopy) = (sent[e] + 1) % 8 /\ next(p.pscopy) \in Seq8
    <3>1. ((sent[e] % 8) + 1) % 8 = (sent[e] + 1) % 8
      BY <1>1
    <3> QED  BY <1>1, <3>1, KinFields, NextIn DEF next
  <2>4. SUFFICES ASSUME p.os[next(p.pscopy)] # {} PROVE FALSE
    BY <2>2 DEF CanWrite
  <2>5. PICK n \in F + 1 .. sent[e] : next(p.pscopy) = n % 8
    BY <1>3, <2>3, <2>4
  <2>6. n \in Nat /\ sent[e] + 1 \in Nat /\ n < (sent[e] + 1) + 8 /\ sent[e] + 1 < n + 8
        /\ n # sent[e] + 1
    BY <1>1, <1>2, <1>8, <2>1
  <2>7. n % 8 = (sent[e] + 1) % 8
    BY <2>3, <2>5
  <2> DEFINE s1 == sent[e] + 1
  <2> HIDE DEF s1
  <2>8. n \in Nat /\ s1 \in Nat /\ n < s1 + 8 /\ s1 < n + 8 /\ n # s1 /\ n % 8 = s1 % 8
    BY <2>6, <2>7 DEF s1
  <2> QED  BY <2>8, SameMod
<1> QED  BY <1>1, <1>7, <1>8 DEF C

\* The invariant implies BuffersAccounted.
LEMMA AccountedOf == ASSUME Inv PROVE BuffersAccounted
  BY DEF Inv, EndOK, InputOK, Buffers, Busy, BuffersAccounted

\* The invariant implies Negotiated.
LEMMA NegotiatedOf == ASSUME Inv PROVE Negotiated
<1> SUFFICES ASSUME NEW e \in Ends, "LIVE" \in pk[e].state
             PROVE  /\ pk[e].swindow = pk[Peer(e)].rwindow
                    /\ pksizes(pk[e].lpsize) <= pk[Peer(e)].rsize
                    /\ pk[Peer(e)].rsize < 2 * pksizes(pk[e].lpsize)
  BY DEF Negotiated
<1>1. pk[Peer(e)] \in Structs /\ SizeP(pk[e], pk[Peer(e)], Live(pc[e]))
  BY EndIs
<1>2. pk[Peer(e)].rsize \in PacketSizes
  BY <1>1, KinFields
<1>3. /\ pk[e].swindow = pk[Peer(e)].rwindow
      /\ pk[e].lpsize = pksize(pk[Peer(e)].rsize) + 1
  BY <1>1 DEF SizeP
<1> QED  BY <1>2, <1>3, SizeCode

\* The fields of struct pack stay in their ranges: sequence numbers below 8,
\* counts of at most 7, a frame in every slot p_imap names (pk.h, pk0.c).
THEOREM TypeCorrect == Spec => []TypeOK
<1>1. Inv => TypeOK
  BY TypeOf
<1> QED  BY <1>1, ConversationInvariance, PTL

\* p_xcount counts the output buffers in use, they are those between p_ps and
\* p_pscopy, the other end has room for them, and pkwrite never waits for a
\* buffer while the window is open (pkwrite, pksack).
THEOREM OutputBuffersCounted == Spec => []OutputBuffers
<1>1. Inv => OutputBuffers
  BY OutputBuffersOf
<1> QED  BY <1>1, ConversationInvariance, PTL

\* No input buffer is lost or given back twice by pkdata, pkaccept and pkread:
\* when pkclose counts them, the pool and the slots together hold the p_rwindow
\* buffers of pkopen, on a line that cuts no frame short.
THEOREM InputBuffersAccounted == Spec => []BuffersAccounted
<1>1. Inv => BuffersAccounted
  BY AccountedOf
<1> QED  BY <1>1, ConversationInvariance, PTL

\* An end that is live sends with the window the other end was opened with and
\* with the largest size of pksizes[] that its buffers hold, for every size
\* pkopen takes and whatever INITs were lost, repeated or late (pkcntl).
THEOREM SizesNegotiated == Spec => []Negotiated
<1>1. Inv => Negotiated
  BY NegotiatedOf
<1> QED  BY <1>1, ConversationInvariance, PTL

-----------------------------------------------------------------------------
(***************************************************************************)
(* The two directions implement the link of PacketLink                     *)
(***************************************************************************)
\* No window is larger than the largest an end may be configured with.
LEMMA LargestIs ==
    ASSUME Inv, NEW e \in Ends
    PROVE  LargestWindow \in Nat /\ pk[e].rwindow \in Nat /\ pk[e].rwindow <= LargestWindow
<1> DEFINE S == UNION {c.windows : c \in Scenarios}
           v == pk[e].rwindow
<1>1. ASSUME NEW c \in Scenarios PROVE c.windows \subseteq 1..7
  <2>1. c \in ScenarioType
    BY ConversationAssumption
  <2> QED  BY <2>1 DEF ScenarioType
<1>2. S \in SUBSET (1..7)
  BY <1>1
<1>3. v \in S
  <2>1. scenario \in Scenarios /\ v \in scenario.windows
    BY DEF Inv, TypesOK, EndOK
  <2> QED  BY <2>1
<1> HIDE DEF S, v
<1>4. Max(S) \in S /\ v <= Max(S)
  BY <1>2, <1>3, MaxIs
<1>5. Max(S) \in 1..7 /\ v \in 1..7
  BY <1>2, <1>3, <1>4
<1>6. Max(S) \in Nat /\ v \in Nat
  BY <1>5
<1> QED  BY <1>4, <1>6 DEF LargestWindow, S, v

\* What the invariant says of the counts of a writer a and a reader b.
Counts(a, b) ==
    /\ pk[a].xcount \in 0..7 /\ sent[a] \in Nat /\ sent[a] - pk[a].xcount \in Nat
    /\ sent[a] - pk[a].xcount <= Got(b) /\ Got(b) <= sent[a]

\* The counts in a state.
LEMMA CountsNow == Inv => \A a \in Ends : Counts(a, Peer(a))
  BY EndNumbers DEF Counts

\* The counts in the state after it.
LEMMA CountsNext == Inv' => (\A a \in Ends : Counts(a, Peer(a)))'
  BY CountsNow, PTL

\* One step, seen by the writer a and the reader b: a packet is taken, the
\* next one is handed out, packets that were handed out are forgotten, or
\* none of these.
LEMMA LinkMoves ==
    ASSUME Inv, Inv', UNCHANGED vars \/ \E e \in Ends : Moves(e),
           NEW a \in Ends, NEW b, b = Peer(a)
    PROVE  LET freed  == sent[a] - pk[a].xcount
               freed1 == sent'[a] - pk'[a].xcount
           IN  \/ /\ sent[a] < freed + LargestWindow /\ sent'[a] = sent[a] + 1
                  /\ rcvd'[b] = rcvd[b] /\ freed1 = freed
               \/ /\ \E n \in Len(rcvd[b]) + 1 .. sent[a] : rcvd'[b] = [i \in 1..n |-> i]
                  /\ sent'[a] = sent[a] /\ freed1 = freed
               \/ /\ freed1 \in freed + 1 .. Len(rcvd[b])
                  /\ sent'[a] = sent[a] /\ rcvd'[b] = rcvd[b]
               \/ sent'[a] = sent[a] /\ rcvd'[b] = rcvd[b] /\ freed1 = freed
<1>1. b \in Ends /\ Peer(b) = a /\ a # b /\ \A e \in Ends : e = a \/ e = b
  BY PeerIs
<1>2. /\ pk[a].xcount \in 0..7 /\ sent[a] \in Nat /\ sent[a] - pk[a].xcount \in Nat
      /\ sent[a] - pk[a].xcount <= Got(b) /\ Got(b) <= sent[a]
  BY EndNumbers
<1>3. /\ pk'[a].xcount \in 0..7 /\ sent'[a] \in Nat /\ sent'[a] - pk'[a].xcount \in Nat
      /\ sent'[a] - pk'[a].xcount <= Got(b)' /\ Got(b)' <= sent'[a]
  BY CountsNext DEF Counts
<1>4. Got(b) = Len(rcvd[b]) /\ Got(b)' = Len(rcvd'[b]) /\ Got(b) \in Nat
  BY <1>1 DEF Got, Inv, TypesOK
<1>5. rcvd'[b] = [i \in 1..Got(b)' |-> i]
  BY <1>1 DEF Inv, EndOK
<1>6. LargestWindow \in Nat /\ pk[b].rwindow \in Nat /\ pk[b].rwindow <= LargestWindow
  BY <1>1, LargestIs
<1>7. CASE UNCHANGED vars
  BY <1>7 DEF vars
<1>8. CASE Moves(b)
  <2>1. /\ pk'[a] = pk[a] /\ sent'[a] = sent[a]
        /\ rcvd'[b] = rcvd[b] \/ Got(b)' = Got(b) + 1
    BY <1>1, <1>8 DEF Moves
  <2>2. CASE rcvd'[b] = rcvd[b]
    BY <2>1, <2>2
  <2>3. CASE Got(b)' = Got(b) + 1
    <3>1. Got(b)' \in Len(rcvd[b]) + 1 .. sent[a]
      BY <1>2, <1>3, <1>4, <2>1, <2>3
    <3> QED  BY <1>5, <2>1, <3>1
  <2> QED  BY <2>1, <2>2, <2>3
<1>9. CASE Moves(a)
  <2>1. /\ rcvd'[b] = rcvd[b]
        /\ \/ /\ sent'[a] = sent[a]
              /\ pk'[a].xcount <= pk[a].xcount \/ pk'[a].xcount = pk[a].xcount
           \/ /\ sent'[a] = sent[a] + 1 /\ pk'[a].xcount = pk[a].xcount + 1
              /\ pk[a].xcount < pk[b].rwindow
    BY <1>9 DEF Moves
  <2> DEFINE x == pk[a].xcount
             x1 == pk'[a].xcount
             w == pk[b].rwindow
             s == sent[a]
             s1 == sent'[a]
             g == Len(rcvd[b])
  <2>2. /\ x \in 0..7 /\ x1 \in 0..7 /\ s \in Nat /\ s1 \in Nat /\ g \in Nat /\ w \in Nat
        /\ s1 - x1 <= g /\ s - x \in Nat /\ w <= LargestWindow /\ LargestWindow \in Nat
    BY <1>2, <1>3, <1>4, <1>6, <2>1
  <2>3. (s1 = s /\ (x1 <= x \/ x1 = x)) \/ (s1 = s + 1 /\ x1 = x + 1 /\ x < w)
    BY <2>1
  <2> HIDE DEF x, x1, w, s, s1, g
  <2>4. \/ s < (s - x) + LargestWindow /\ s1 = s + 1 /\ s1 - x1 = s - x
        \/ s1 - x1 \in (s - x) + 1 .. g /\ s1 = s
        \/ s1 = s /\ s1 - x1 = s - x
    <3>1. CASE s1 = s + 1 /\ x1 = x + 1 /\ x < w
      <4>1. s < (s - x) + LargestWindow
        BY <2>2, <3>1
      <4>2. s1 - x1 = s - x
        BY <2>2, <3>1
      <4> QED  BY <3>1, <4>1, <4>2
    <3>2. CASE s1 = s /\ x1 < x
      <4>1. s1 - x1 \in Int /\ (s - x) + 1 <= s1 - x1
        BY <2>2, <3>2
      <4> QED  BY <2>2, <3>2, <4>1
    <3>3. CASE s1 = s /\ x1 = x
      BY <3>3
    <3> QED  BY <2>2, <2>3, <3>1, <3>2, <3>3
  <2> QED  BY <2>1, <2>4 DEF x, x1, s, s1, g
<1> QED  BY <1>1, <1>7, <1>8, <1>9

\* At the start nothing has been written, read or forgotten.
LEMMA LinkInit ==
    ASSUME Init
    PROVE  ToSlave!Init /\ ToMaster!Init
<1>1. ASSUME NEW e \in Ends PROVE sent[e] = 0 /\ rcvd[e] = <<>> /\ sent[e] - pk[e].xcount = 0
  <2>1. sent[e] = 0 /\ rcvd[e] = <<>>
    BY DEF Init
  <2>2. pk[e].xcount \in 0..7 /\ sent[e] - pk[e].xcount \in Nat
    BY InitInv, EndNumbers
  <2> QED  BY <2>1, <2>2
<1>2. "m" \in Ends /\ "s" \in Ends
  BY DEF Ends
<1> QED  BY <1>1, <1>2 DEF ToSlave!Init, ToMaster!Init

\* Every step is one of the link from the master to the slave, or leaves it alone.
LEMMA NextToSlave == Inv /\ [Next]_vars => [ToSlave!Next]_(ToSlave!linkVars)
<1> SUFFICES ASSUME Inv, [Next]_vars PROVE [ToSlave!Next]_(ToSlave!linkVars)
  OBVIOUS
<1> DEFINE freed  == sent["m"] - pk["m"].xcount
           freed1 == sent'["m"] - pk'["m"].xcount
<1>1. Inv' /\ (UNCHANGED vars \/ \E e \in Ends : Moves(e))
  BY StepInv
<1>2. "m" \in Ends /\ Peer("m") = "s"
  BY DEF Ends, Peer
<1>3. \/ /\ sent["m"] < freed + LargestWindow /\ sent'["m"] = sent["m"] + 1
         /\ rcvd'["s"] = rcvd["s"] /\ freed1 = freed
      \/ /\ \E n \in Len(rcvd["s"]) + 1 .. sent["m"] : rcvd'["s"] = [i \in 1..n |-> i]
         /\ sent'["m"] = sent["m"] /\ freed1 = freed
      \/ /\ freed1 \in freed + 1 .. Len(rcvd["s"])
         /\ sent'["m"] = sent["m"] /\ rcvd'["s"] = rcvd["s"]
      \/ sent'["m"] = sent["m"] /\ rcvd'["s"] = rcvd["s"] /\ freed1 = freed
  BY <1>1, <1>2, LinkMoves
<1> QED
  BY <1>3 DEF ToSlave!Next, ToSlave!Write, ToSlave!Deliver, ToSlave!Release, ToSlave!linkVars

\* Every step is one of the link from the slave to the master, or leaves it alone.
LEMMA NextToMaster == Inv /\ [Next]_vars => [ToMaster!Next]_(ToMaster!linkVars)
<1> SUFFICES ASSUME Inv, [Next]_vars PROVE [ToMaster!Next]_(ToMaster!linkVars)
  OBVIOUS
<1> DEFINE freed  == sent["s"] - pk["s"].xcount
           freed1 == sent'["s"] - pk'["s"].xcount
<1>1. Inv' /\ (UNCHANGED vars \/ \E e \in Ends : Moves(e))
  BY StepInv
<1>2. "s" \in Ends /\ Peer("s") = "m"
  BY DEF Ends, Peer
<1>3. \/ /\ sent["s"] < freed + LargestWindow /\ sent'["s"] = sent["s"] + 1
         /\ rcvd'["m"] = rcvd["m"] /\ freed1 = freed
      \/ /\ \E n \in Len(rcvd["m"]) + 1 .. sent["s"] : rcvd'["m"] = [i \in 1..n |-> i]
         /\ sent'["s"] = sent["s"] /\ freed1 = freed
      \/ /\ freed1 \in freed + 1 .. Len(rcvd["m"])
         /\ sent'["s"] = sent["s"] /\ rcvd'["m"] = rcvd["m"]
      \/ sent'["s"] = sent["s"] /\ rcvd'["m"] = rcvd["m"] /\ freed1 = freed
  BY <1>1, <1>2, LinkMoves
<1> QED
  BY <1>3 DEF ToMaster!Next, ToMaster!Write, ToMaster!Deliver, ToMaster!Release, ToMaster!linkVars

\* The g protocol implements the ordered link of PacketLink in both
\* directions: whatever the line does, pkread hands out what pkwrite took, in
\* that order, each packet once, and pksack forgets none before it was read.
THEOREM PromiseKept == Spec => KeepsPromise
  BY ConversationInvariance, LinkInit, NextToSlave, NextToMaster, PTL
  DEF Spec, KeepsPromise, ToSlave!Spec, ToMaster!Spec
=============================================================================
