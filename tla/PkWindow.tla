------------------------------ MODULE PkWindow ------------------------------
(***************************************************************************)
(* The sliding window of the packet driver (pk0.c, pk1.c) in one direction *)
(* of a line that is up, for any number of packets.                        *)
(*                                                                         *)
(* Every packet has a number 1, 2, ... that the program does not have:     *)
(* what goes over the line, and all that either end looks at, is the       *)
(* number modulo 8, Wire(n).  The numbers say which packet it really was.  *)
(*                                                                         *)
(* The ends take turns to write.  While the receiving end reads, pkread    *)
(* looks at every frame as it comes.  While it writes, pkgetpack stores    *)
(* what comes in the input buffers, and the next pkread looks at all of it *)
(* at once.                                                                *)
(***************************************************************************)
EXTENDS Naturals, Sequences

CONSTANT W    \* the window the ends agreed on

ASSUME WindowAssumption == W \in 1..7

Wire(n) == n % 8

\* RR or RJ with p_pr in it.
AckFrames == [rj : BOOLEAN, a : Nat]

VARIABLES
    written,   \* packets given to pkwrite
    base,      \* the last packet pksack freed: p_ps
    rpr,       \* the last acknowledgement that came, as it came: p_rpr
    nxtps,     \* p_nxtps
    rxmit,     \* RXMIT of p_state
    txd,       \* the packets transmitted at least once: B_SENT
    data,      \* the line, data frames
    acks,      \* the line, acknowledgements: RR, RJ and p_pr in data frames
    inq,       \* the packets the receiving end has accepted
    read,      \* how many of those pkread has handed out: p_pr
    stored,    \* frames pkgetpack stored while the receiving end writes
    reading,   \* is it the receiving end's turn to read?
    rej        \* M_RJ of p_msg

vars == <<written, base, rpr, nxtps, rxmit, txd, data, acks, inq, read, stored, reading, rej>>

sender == <<written, base, rpr, nxtps, rxmit, txd>>
receiver == <<inq, read, stored, reading, rej>>

Init ==
    /\ written = 0 /\ base = 0 /\ rpr = 0 /\ nxtps = 1 /\ rxmit = FALSE /\ txd = {}
    /\ data = <<>> /\ acks = <<>>
    /\ inq = <<>> /\ read = 0 /\ stored = {} /\ reading = TRUE /\ rej = FALSE

-----------------------------------------------------------------------------
(***************************************************************************)
(* The sending end                                                         *)
(***************************************************************************)

\* Mutant: a retransmission starts with the packet acknowledged last.
pkoutput_FromAcked(w, b, r, x) ==
    LET slot == IF x THEN r ELSE nxtps
    IN  \/ \E n \in b .. w :
              /\ Wire(n) = slot
              /\ data' = Append(data, n)
              /\ txd' = txd \cup {n}
              /\ nxtps' = (slot + 1) % 8
              /\ rxmit' = FALSE
        \/ /\ \A n \in b .. w : Wire(n) # slot
           /\ nxtps' = slot
           /\ rxmit' = x
           /\ UNCHANGED <<data, txd>>

\* pkoutput in a state with packets up to w, freed up to b, the last
\* acknowledgement r and RXMIT as in x: it sends the packet whose buffer
\* has the number p_nxtps, if there is one.
pkoutput(w, b, r, x) ==
    LET slot == IF x THEN (r + 1) % 8 ELSE nxtps
    IN  \/ \E n \in b+1 .. w :
              /\ Wire(n) = slot
              /\ data' = Append(data, n)
              /\ txd' = txd \cup {n}
              /\ nxtps' = (slot + 1) % 8
              /\ rxmit' = FALSE
        \/ /\ \A n \in b+1 .. w : Wire(n) # slot
           /\ nxtps' = slot
           /\ rxmit' = x
           /\ UNCHANGED <<data, txd>>

\* Mutant: one packet more than the window.
Write_TooMany ==
    /\ reading
    /\ written <= base + W
    /\ written' = written + 1
    /\ pkoutput(written + 1, base, rpr, rxmit)
    /\ UNCHANGED <<base, rpr, acks, receiver>>

\* pkwrite of a packet with room in the window.
Write ==
    /\ reading
    /\ written < base + W
    /\ written' = written + 1
    /\ pkoutput(written + 1, base, rpr, rxmit)
    /\ UNCHANGED <<base, rpr, acks, receiver>>

\* pkwrite without room, pkread's pkoutput, or the alarm of pkgetpack: the
\* last one asks for retransmission.
Output ==
    /\ \E timeout \in BOOLEAN : pkoutput(written, base, rpr, rxmit \/ timeout)
    /\ UNCHANGED <<written, base, rpr, acks, receiver>>

\* Mutant: the loop goes one too far.
Acked_Plus1(a) == base + ((Wire(a) + 9 - Wire(base)) % 8)

\* An acknowledgement comes: pksack frees the packets after p_ps up to it,
\* counting modulo 8, and RJ is answered with pkoutput.  That those packets
\* all carry B_SENT, which pksack tests, is a property (AcksAreForSent).
Acked(a) == base + ((Wire(a) + 8 - Wire(base)) % 8)

ReceiveAck ==
    /\ acks # <<>>
    /\ LET f == Head(acks)
       IN  /\ rpr' = Wire(f.a)
           /\ base' = Acked(f.a)
           /\ IF f.rj
              THEN pkoutput(written, Acked(f.a), Wire(f.a), TRUE)
              ELSE UNCHANGED <<nxtps, rxmit, txd, data>>
    /\ acks' = Tail(acks)
    /\ UNCHANGED <<written, receiver>>

-----------------------------------------------------------------------------
(***************************************************************************)
(* The receiving end                                                       *)
(***************************************************************************)

\* pkaccept when one frame has come since the last pkread: it is accepted
\* if its number follows the last accepted one and is in the window after
\* p_pr, and freed otherwise, as a duplicate or because it follows a gap.
ReceiveData ==
    /\ reading /\ data # <<>>
    /\ LET n == Head(data)
       IN  inq' = IF /\ Wire(n) = Wire(Len(inq) + 1)
                     /\ Len(inq) < read + W
                  THEN Append(inq, n)
                  ELSE inq
    /\ data' = Tail(data)
    /\ UNCHANGED <<sender, acks, read, stored, reading, rej>>

\* A damaged frame: pkaccept frees it and asks for RJ.
ReceiveDamaged ==
    /\ reading /\ data # <<>>
    /\ rej' = TRUE
    /\ data' = Tail(data)
    /\ UNCHANGED <<sender, acks, inq, read, stored, reading>>

\* pkread hands out accepted packets and pkoutput acknowledges them.
Read ==
    /\ reading
    /\ \E n \in read+1 .. Len(inq) :
          /\ read' = n
          /\ acks' = Append(acks, [rj |-> rej, a |-> n])
    /\ rej' = FALSE
    /\ UNCHANGED <<sender, data, inq, stored, reading>>

\* Mutant: packets are acknowledged when accepted, not when read.
Acknowledge_Accepted ==
    /\ acks' = Append(acks, [rj |-> rej, a |-> Len(inq)])
    /\ rej' = FALSE
    /\ UNCHANGED <<sender, data, inq, read, stored, reading>>

\* Any other pkoutput of the receiving end: a data packet of its own, an
\* RR or RJ.  Each carries p_pr.
Acknowledge ==
    /\ acks' = Append(acks, [rj |-> rej, a |-> read])
    /\ rej' = FALSE
    /\ UNCHANGED <<sender, data, inq, read, stored, reading>>

\* The writer's turn is over and the reader has all of it: now it writes.
TurnToWrite ==
    /\ reading /\ read = written
    /\ reading' = FALSE
    /\ UNCHANGED <<sender, data, acks, inq, read, stored, rej>>

\* pkgetpack stores a frame that comes in the meantime.
Store ==
    /\ ~reading /\ data # <<>>
    /\ stored' = stored \cup {Head(data)}
    /\ data' = Tail(data)
    /\ UNCHANGED <<sender, acks, inq, read, reading, rej>>

\* The first pkread of the next turn.  pkaccept puts the stored frames in
\* the slots their numbers name and accepts the run that starts after p_pr.
Stored(i) == {n \in stored : Wire(n) = Wire(Len(inq) + i)}

TurnToRead ==
    /\ ~reading
    /\ \E k \in 0..W :
          /\ \A i \in 1..k : Stored(i) # {}
          /\ k < W => Stored(k + 1) = {}
          /\ \E run \in [1..k -> stored] :
                /\ \A i \in 1..k : run[i] \in Stored(i)
                /\ inq' = inq \o run
    /\ stored' = {}
    /\ reading' = TRUE
    /\ UNCHANGED <<sender, data, acks, read, rej>>

-----------------------------------------------------------------------------
\* The line, or pkgetpack without a free buffer, loses a frame.
Lose ==
    \/ /\ data # <<>>
       /\ data' = Tail(data)
       /\ UNCHANGED <<sender, acks, receiver>>
    \/ /\ acks # <<>>
       /\ acks' = Tail(acks)
       /\ UNCHANGED <<sender, data, receiver>>

Next ==
    \/ Write \/ Output \/ ReceiveAck
    \/ ReceiveData \/ ReceiveDamaged \/ Read \/ Acknowledge
    \/ TurnToWrite \/ Store \/ TurnToRead
    \/ Lose

Spec == Init /\ [][Next]_vars

-----------------------------------------------------------------------------
(***************************************************************************)
(* Properties                                                              *)
(***************************************************************************)
\* Types: packets are counted without wrapping, p_rpr and p_nxtps modulo 8.
TypeOK ==
    /\ written \in Nat /\ base \in Nat /\ rpr \in 0..7 /\ nxtps \in 0..7
    /\ rxmit \in BOOLEAN /\ txd \subseteq Nat
    /\ data \in Seq(Nat) /\ acks \in Seq(AckFrames)
    /\ inq \in Seq(Nat) /\ read \in Nat /\ stored \subseteq Nat
    /\ reading \in BOOLEAN /\ rej \in BOOLEAN

\* What pkaccept accepts, and pkread hands out, is packet 1, 2, 3, ...,
\* although it only ever compares numbers modulo 8.
InOrder == \A i \in 1..Len(inq) : inq[i] = i

\* pksack frees no packet that pkread of the other end has not handed out.
NoEarlyRelease == base <= read

\* pksack finds B_SENT on every packet an acknowledgement covers.
AcksAreForSent == \A i \in 1..Len(acks) : \A n \in base+1 .. Acked(acks[i].a) : n \in txd

(***************************************************************************)
(* The inductive invariant                                                 *)
(***************************************************************************)

\* The counters are in order, and the window is between the first and last.
Window ==
    /\ base <= read /\ read <= Len(inq) /\ Len(inq) <= written
    /\ written <= base + W
    /\ rpr = Wire(base)

\* What was accepted was transmitted.
Transmitted == txd \subseteq 1..written /\ 1..Len(inq) \subseteq txd

\* A frame is less than a window older than what was accepted and than the
\* frames before it.
Frames ==
    /\ \A i \in 1..Len(data) : data[i] \in txd /\ Len(inq) < data[i] + W
    /\ \A i, j \in 1..Len(data) : i < j => data[i] < data[j] + W

\* The acknowledgements on the line are between base and read, and grow.
Acks ==
    /\ \A i \in 1..Len(acks) : base <= acks[i].a /\ acks[i].a <= read
    /\ \A i, j \in 1..Len(acks) : i < j => acks[i].a <= acks[j].a

\* While the receiving end writes, all it gets are duplicates.
Turns ==
    /\ reading => stored = {}
    /\ ~reading => read = written
    /\ \A n \in stored : n <= Len(inq) /\ Len(inq) < n + W

Inv == TypeOK /\ InOrder /\ Window /\ Transmitted /\ Frames /\ Acks /\ Turns

\* The window keeps the promise of PacketLink.
Link == INSTANCE PacketLink WITH
    read <- [i \in 1..read |-> inq[i]], released <- base

LinkSpec == Link!Spec
=============================================================================
