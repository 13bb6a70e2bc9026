--------------------------- MODULE PkWindowProofs ---------------------------
(***************************************************************************)
(* Proofs about PkWindow, for every window of 1 to 7 packets and streams   *)
(* and lines of any length.                                                *)
(***************************************************************************)
EXTENDS PkWindow, TLAPS

-----------------------------------------------------------------------------
(***************************************************************************)
(* Arithmetic modulo 8                                                     *)
(***************************************************************************)

\* next[] and the numbers on the wire: two packets less than 8 apart with
\* the same number on the wire are the same packet.
LEMMA WireInjective ==
    ASSUME NEW m \in Nat, NEW n \in Nat, m < n + 8, n < m + 8, Wire(m) = Wire(n)
    PROVE  m = n
  BY DEF Wire

\* The number on the wire is one of next[]'s.
LEMMA WireType == \A n \in Nat : Wire(n) \in 0..7
  BY DEF Wire

\* The loop of pksack, which counts from p_ps to p_rpr modulo 8, stops at
\* the packet that was meant if it is at most 7 after p_ps.
LEMMA AckedIs ==
    ASSUME base \in Nat, NEW a \in Nat, base <= a, a <= base + 7
    PROVE  Acked(a) = a
  BY DEF Acked, Wire

-----------------------------------------------------------------------------
(***************************************************************************)
(* What the operations do to the line                                      *)
(***************************************************************************)

\* What a pkoutput with packets up to w and freed up to b leaves behind.
OutputOK(w) ==
    /\ data' \in Seq(Nat) /\ nxtps' \in 0..7 /\ rxmit' \in BOOLEAN
    /\ txd \subseteq txd' /\ txd' \subseteq 1..w
    /\ \A i \in 1..Len(data') : data'[i] \in txd' /\ Len(inq) < data'[i] + W
    /\ \A i, j \in 1..Len(data') : i < j => data'[i] < data'[j] + W

\* pkoutput sends a packet that is not freed.  Everything accepted or on
\* the line is at most a window after the last freed one, so less than a
\* window after the packet that is sent.
LEMMA OutputFrames ==
    ASSUME Inv, NEW w \in Nat, NEW b \in Nat, NEW r \in 0..7, NEW x \in BOOLEAN,
           written <= w, w <= b + W, pkoutput(w, b, r, x)
    PROVE  OutputOK(w)
  <1>. DEFINE slot == IF x THEN (r + 1) % 8 ELSE nxtps
  <1>1. slot \in 0..7 /\ (slot + 1) % 8 \in 0..7
    BY DEF Inv, TypeOK
  <1>2. CASE \A n \in b+1 .. w : Wire(n) # slot
    <2>1. nxtps' = slot /\ rxmit' = x /\ data' = data /\ txd' = txd
      BY <1>2 DEF pkoutput
    <2>. QED
      BY <2>1, <1>1 DEF OutputOK, Inv, TypeOK, Frames, Transmitted, Window
  <1>3. CASE \E n \in b+1 .. w : Wire(n) = slot
    <2>1. PICK n \in b+1 .. w :
              data' = Append(data, n) /\ txd' = txd \cup {n}
              /\ nxtps' = (slot + 1) % 8 /\ rxmit' = FALSE
      BY <1>3 DEF pkoutput
    <2>2. n \in 1..w /\ n \in Nat /\ b < n
      OBVIOUS
    <2>3. data \in Seq(Nat) /\ W \in 1..7 /\ Len(inq) \in Nat /\ written \in Nat
      BY WindowAssumption DEF Inv, TypeOK
    <2>4. Len(data') = Len(data) + 1 /\ Len(data) \in Nat
      BY <2>1, <2>2, <2>3
    <2>5. \A i \in 1..Len(data) : data'[i] = data[i] /\ data[i] \in txd /\ data[i] \in 1..written
      <3>1. \A i \in 1..Len(data) : data'[i] = data[i]
        BY <2>1, <2>2, <2>3
      <3>. QED
        BY <3>1 DEF Inv, Frames, Transmitted
    <2>6. data'[Len(data) + 1] = n
      BY <2>1, <2>2, <2>3
    <2>7. Len(inq) < n + W
      BY <2>2, <2>3 DEF Inv, Window
    <2>8. \A i \in 1..Len(data) : data[i] < n + W
      BY <2>2, <2>3, <2>5
    <2>9. \A i \in 1..Len(data') : data'[i] \in txd' /\ Len(inq) < data'[i] + W
      <3>1. \A i \in 1..Len(data) : data'[i] \in txd' /\ Len(inq) < data'[i] + W
        BY <2>1, <2>5 DEF Inv, Frames
      <3>2. data'[Len(data) + 1] \in txd' /\ Len(inq) < data'[Len(data) + 1] + W
        BY <2>1, <2>6, <2>7
      <3>3. \A i \in 1..Len(data') : i \in 1..Len(data) \/ i = Len(data) + 1
        BY <2>4
      <3>. QED
        BY <3>1, <3>2, <3>3
    <2>10. ASSUME NEW i \in 1..Len(data'), NEW j \in 1..Len(data'), i < j
           PROVE  data'[i] < data'[j] + W
      <3>1. i \in 1..Len(data)
        BY <2>4, <2>10
      <3>2. CASE j = Len(data) + 1
        BY <3>1, <3>2, <2>5, <2>6, <2>8
      <3>3. CASE j \in 1..Len(data)
        BY <3>1, <3>3, <2>5, <2>10 DEF Inv, Frames
      <3>. QED
        BY <3>2, <3>3, <2>4
    <2>11. txd \subseteq txd' /\ txd' \subseteq 1..w
      BY <2>1, <2>2, <2>3 DEF Inv, Transmitted
    <2>12. data' \in Seq(Nat) /\ nxtps' \in 0..7
      BY <2>1, <2>2, <2>3, <1>1
    <2>13. rxmit' \in BOOLEAN
      BY <2>1
    <2>. QED
      BY <2>9, <2>10, <2>11, <2>12, <2>13 DEF OutputOK
  <1>. QED
    BY <1>2, <1>3

\* Every acknowledgement on the line carries a packet number.
LEMMA AckType == \A f \in AckFrames : f.a \in Nat /\ f.rj \in BOOLEAN
  BY DEF AckFrames

\* The line without its first data frame is as good as with it.
LEMMA TailFrames ==
    ASSUME Inv, data # <<>>, data' = Tail(data)
    PROVE  /\ data' \in Seq(Nat)
           /\ Head(data) \in txd /\ Head(data) \in 1..written /\ Len(inq) < Head(data) + W
           /\ \A i \in 1..Len(data') : /\ data'[i] \in txd
                                       /\ Len(inq) < data'[i] + W
                                       /\ Head(data) < data'[i] + W
           /\ \A i, j \in 1..Len(data') : i < j => data'[i] < data'[j] + W
  <1>1. data \in Seq(Nat) /\ Len(data) \in Nat /\ Len(data) > 0
    BY DEF Inv, TypeOK
  <1>2. data' \in Seq(Nat) /\ Len(data') = Len(data) - 1 /\ Head(data) = data[1]
    BY <1>1
  <1>3. \A i \in 1..Len(data') : data'[i] = data[i + 1] /\ i + 1 \in 1..Len(data)
    BY <1>1, <1>2
  <1>4. 1 \in 1..Len(data)
    BY <1>1
  <1>5. \A i \in 1..Len(data') : Head(data) < data'[i] + W
    BY <1>2, <1>3, <1>4 DEF Inv, Frames
  <1>6. \A i, j \in 1..Len(data') : i < j => data'[i] < data'[j] + W
    BY <1>1, <1>2, <1>3 DEF Inv, Frames
  <1>. QED
    BY <1>2, <1>3, <1>4, <1>5, <1>6 DEF Inv, Frames, Transmitted

\* The same for the acknowledgements.
LEMMA TailAcks ==
    ASSUME Inv, acks # <<>>, acks' = Tail(acks)
    PROVE  /\ acks' \in Seq(AckFrames)
           /\ Head(acks) \in AckFrames
           /\ base <= Head(acks).a /\ Head(acks).a <= read
           /\ \A i \in 1..Len(acks') : /\ Head(acks).a <= acks'[i].a
                                       /\ base <= acks'[i].a
                                       /\ acks'[i].a <= read
           /\ \A i, j \in 1..Len(acks') : i < j => acks'[i].a <= acks'[j].a
  <1>1. acks \in Seq(AckFrames) /\ Len(acks) \in Nat /\ Len(acks) > 0
    BY DEF Inv, TypeOK
  <1>2. /\ acks' \in Seq(AckFrames)
        /\ Len(acks') = Len(acks) - 1
        /\ Head(acks) = acks[1]
    BY <1>1
  <1>3. \A i \in 1..Len(acks') : acks'[i] = acks[i + 1] /\ i + 1 \in 1..Len(acks)
    BY <1>1, <1>2
  <1>4. 1 \in 1..Len(acks) /\ acks[1] \in AckFrames
    BY <1>1
  <1>5. \A i \in 1..Len(acks') : Head(acks).a <= acks'[i].a
    BY <1>2, <1>3, <1>4 DEF Inv, Acks
  <1>6. \A i, j \in 1..Len(acks') : i < j => acks'[i].a <= acks'[j].a
    BY <1>1, <1>2, <1>3 DEF Inv, Acks
  <1>. QED
    BY <1>2, <1>3, <1>4, <1>5, <1>6 DEF Inv, Acks

\* A new acknowledgement carries p_pr, the largest there is.
LEMMA AppendAck ==
    ASSUME Inv, NEW f \in AckFrames, read <= f.a, acks' = Append(acks, f)
    PROVE  /\ acks' \in Seq(AckFrames)
           /\ \A i \in 1..Len(acks') : base <= acks'[i].a /\ acks'[i].a <= f.a
           /\ \A i, j \in 1..Len(acks') : i < j => acks'[i].a <= acks'[j].a
  <1>1. acks \in Seq(AckFrames) /\ Len(acks) \in Nat /\ read \in Nat /\ base \in Nat
    BY DEF Inv, TypeOK
  <1>2. acks' \in Seq(AckFrames) /\ Len(acks') = Len(acks) + 1
    BY <1>1
  <1>3. \A i \in 1..Len(acks) : acks'[i] = acks[i] /\ acks[i].a \in Nat
    BY <1>1, AckType
  <1>4. acks'[Len(acks) + 1] = f /\ f.a \in Nat
    BY <1>1, AckType
  <1>5. \A i \in 1..Len(acks) : base <= acks[i].a /\ acks[i].a <= f.a
    BY <1>1, <1>3, <1>4 DEF Inv, Acks
  <1>6. base <= f.a
    BY <1>1, <1>4 DEF Inv, Window
  <1>7. \A i \in 1..Len(acks') : base <= acks'[i].a /\ acks'[i].a <= f.a
    BY <1>1, <1>2, <1>3, <1>4, <1>5, <1>6
  <1>8. ASSUME NEW i \in 1..Len(acks'), NEW j \in 1..Len(acks'), i < j
        PROVE  acks'[i].a <= acks'[j].a
    <2>1. i \in 1..Len(acks)
      BY <1>1, <1>2, <1>8
    <2>2. CASE j = Len(acks) + 1
      BY <2>1, <2>2, <1>3, <1>4, <1>5
    <2>3. CASE j \in 1..Len(acks)
      BY <2>1, <2>3, <1>3, <1>8 DEF Inv, Acks
    <2>. QED
      BY <2>2, <2>3, <1>1, <1>2
  <1>. QED
    BY <1>2, <1>7, <1>8

-----------------------------------------------------------------------------
(***************************************************************************)
(* The invariant                                                           *)
(***************************************************************************)

\* The line that pkreset leaves.
LEMMA InitInv == Init => Inv
  <1>. SUFFICES ASSUME Init PROVE Inv
    OBVIOUS
  <1>1. TypeOK
    <2>1. /\ written \in Nat /\ base \in Nat /\ rpr \in 0..7 /\ nxtps \in 0..7
          /\ txd \subseteq Nat /\ read \in Nat /\ stored \subseteq Nat
      BY DEF Init
    <2>2. data \in Seq(Nat) /\ inq \in Seq(Nat) /\ acks \in Seq(AckFrames)
      BY DEF Init
    <2>3. rxmit \in BOOLEAN /\ reading \in BOOLEAN /\ rej \in BOOLEAN
      BY DEF Init
    <2>. QED
      BY <2>1, <2>2, <2>3 DEF TypeOK
  <1>2. InOrder /\ Transmitted /\ Frames /\ Acks /\ Turns
    BY DEF Init, InOrder, Transmitted, Frames, Acks, Turns
  <1>3. Window
    BY WindowAssumption DEF Init, Window, Wire
  <1>. QED
    BY <1>1, <1>2, <1>3 DEF Inv

\* pkwrite and the other pkoutputs of the sending end.
LEMMA SenderInv ==
    ASSUME Inv, Write \/ Output
    PROVE  Inv'
  <1>. USE WindowAssumption
  <1>1. PICK w \in {written, written + 1} :
            /\ written' = w /\ w <= base + W
            /\ OutputOK(w)
            /\ w # written => reading
            /\ UNCHANGED <<base, rpr, acks, receiver>>
    <2>0. /\ written \in Nat /\ base \in Nat /\ rpr \in 0..7
          /\ rxmit \in BOOLEAN /\ written <= base + W
      BY DEF Inv, TypeOK, Window
    <2>1. CASE Write
      <3>1. pkoutput(written + 1, base, rpr, rxmit) /\ written + 1 <= base + W
        BY <2>0, <2>1 DEF Write
      <3>2. OutputOK(written + 1)
        BY <3>1, <2>0, OutputFrames
      <3>. QED
        BY <2>1, <3>1, <3>2 DEF Write
    <2>2. CASE Output
      <3>1. PICK t \in BOOLEAN : pkoutput(written, base, rpr, rxmit \/ t)
        BY <2>2 DEF Output
      <3>2. (rxmit \/ t) \in BOOLEAN
        BY <2>0
      <3>3. OutputOK(written)
        BY <3>1, <3>2, <2>0, OutputFrames
      <3>. QED
        BY <2>0, <2>2, <3>3 DEF Output
    <2>. QED
      BY <2>1, <2>2
  <1>2. /\ written \in Nat /\ base \in Nat /\ Len(inq) \in Nat /\ read \in Nat
        /\ base' = base /\ rpr' = rpr /\ acks' = acks /\ inq' = inq /\ read' = read
        /\ stored' = stored /\ reading' = reading /\ rej' = rej
    BY <1>1 DEF Inv, TypeOK, receiver
  <1>3. TypeOK'
    BY <1>1, <1>2 DEF Inv, TypeOK, OutputOK
  <1>4. InOrder' /\ Acks'
    BY <1>2 DEF Inv, InOrder, Acks
  <1>5. Window'
    BY <1>1, <1>2 DEF Inv, Window
  <1>6. Transmitted' /\ Frames'
    BY <1>1, <1>2 DEF Inv, Transmitted, Frames, OutputOK
  <1>7. Turns'
    BY <1>1, <1>2 DEF Inv, Turns
  <1>. QED
    BY <1>3, <1>4, <1>5, <1>6, <1>7 DEF Inv

\* pksack frees exactly the packets the acknowledgement is for.
LEMMA HeadAck ==
    ASSUME Inv, acks # <<>>
    PROVE  /\ Head(acks) \in AckFrames
           /\ Acked(Head(acks).a) = Head(acks).a
           /\ base <= Head(acks).a /\ Head(acks).a <= read
  <1>1. acks \in Seq(AckFrames) /\ 1 \in 1..Len(acks) /\ Head(acks) = acks[1]
    BY DEF Inv, TypeOK
  <1>2. Head(acks) \in AckFrames
    BY <1>1
  <1>3. base <= Head(acks).a /\ Head(acks).a <= read
    BY <1>1 DEF Inv, Acks
  <1>4. Head(acks).a \in Nat /\ base \in Nat /\ read \in Nat
    BY <1>2, AckType DEF Inv, TypeOK
  <1>5. Head(acks).a <= base + 7
    BY <1>3, <1>4, WindowAssumption DEF Inv, Window, TypeOK
  <1>6. Acked(Head(acks).a) = Head(acks).a
    BY <1>3, <1>4, <1>5, AckedIs
  <1>. QED
    BY <1>2, <1>3, <1>6

\* An acknowledgement comes.
LEMMA ReceiveAckInv ==
    ASSUME Inv, ReceiveAck
    PROVE  Inv'
  <1>. USE WindowAssumption
  <1>. DEFINE a == Head(acks).a
  <1>1. acks # <<>> /\ acks' = Tail(acks) /\ UNCHANGED <<written, receiver>>
    BY DEF ReceiveAck
  <1>2. Head(acks) \in AckFrames /\ Acked(a) = a /\ base <= a /\ a <= read
    BY <1>1, HeadAck
  <1>3. a \in Nat /\ Wire(a) \in 0..7
    BY <1>2, AckType, WireType
  <1>4. base' = a /\ rpr' = Wire(a)
    BY <1>2 DEF ReceiveAck
  <1>5. /\ written \in Nat /\ base \in Nat /\ read \in Nat /\ Len(inq) \in Nat
        /\ written' = written /\ inq' = inq /\ read' = read
        /\ stored' = stored /\ reading' = reading /\ rej' = rej
    BY <1>1 DEF Inv, TypeOK, receiver
  <1>6. written <= a + W
    BY <1>2, <1>3, <1>5 DEF Inv, Window
  <1>7. OutputOK(written)
    <2>1. CASE Head(acks).rj
      <3>1. pkoutput(written, a, Wire(a), TRUE)
        BY <2>1, <1>2 DEF ReceiveAck
      <3>2. written <= written /\ TRUE \in BOOLEAN
        BY <1>5
      <3>. QED
        BY <3>1, <3>2, <1>3, <1>5, <1>6, OutputFrames, Zenon
    <2>2. CASE ~Head(acks).rj
      <3>1. nxtps' = nxtps /\ rxmit' = rxmit /\ txd' = txd /\ data' = data
        BY <2>2 DEF ReceiveAck
      <3>2. data' \in Seq(Nat) /\ nxtps' \in 0..7 /\ rxmit' \in BOOLEAN
        BY <3>1 DEF Inv, TypeOK
      <3>3. txd \subseteq txd' /\ txd' \subseteq 1..written
        BY <3>1 DEF Inv, Transmitted
      <3>4. /\ \A i \in 1..Len(data') : data'[i] \in txd' /\ Len(inq) < data'[i] + W
            /\ \A i, j \in 1..Len(data') : i < j => data'[i] < data'[j] + W
        BY <3>1 DEF Inv, Frames
      <3>. QED
        BY <3>2, <3>3, <3>4 DEF OutputOK
    <2>. QED
      BY <2>1, <2>2
  <1>8. TypeOK'
    BY <1>1, <1>3, <1>4, <1>5, <1>7, TailAcks DEF Inv, TypeOK, OutputOK
  <1>9. InOrder' /\ Turns'
    BY <1>5 DEF Inv, InOrder, Turns
  <1>10. Window'
    BY <1>2, <1>3, <1>4, <1>5, <1>6 DEF Inv, Window
  <1>11. Transmitted' /\ Frames'
    BY <1>5, <1>7 DEF Inv, Transmitted, Frames, OutputOK
  <1>12. Acks'
    BY <1>1, <1>4, <1>5, TailAcks DEF Acks
  <1>. QED
    BY <1>8, <1>9, <1>10, <1>11, <1>12 DEF Inv

\* A frame comes while the receiving end reads.  The one that is accepted is
\* less than 8 from the next one expected, so it is that one.
LEMMA ReceiveDataInv ==
    ASSUME Inv, ReceiveData
    PROVE  Inv'
  <1>. USE WindowAssumption
  <1>. DEFINE n == Head(data)
             next == Len(inq) + 1
  <1>1. /\ data # <<>> /\ data' = Tail(data) /\ reading
        /\ written' = written /\ base' = base /\ rpr' = rpr /\ nxtps' = nxtps
        /\ rxmit' = rxmit /\ txd' = txd /\ acks' = acks /\ read' = read
        /\ stored' = stored /\ reading' = reading /\ rej' = rej
    BY DEF ReceiveData, sender
  <1>2. /\ data' \in Seq(Nat)
        /\ n \in txd /\ n \in 1..written /\ Len(inq) < n + W
        /\ \A i \in 1..Len(data') : data'[i] \in txd /\ Len(inq) < data'[i] + W /\ n < data'[i] + W
        /\ \A i, j \in 1..Len(data') : i < j => data'[i] < data'[j] + W
    BY <1>1, TailFrames
  <1>3. /\ inq \in Seq(Nat) /\ Len(inq) \in Nat /\ written \in Nat /\ base \in Nat
        /\ read \in Nat /\ n \in Nat /\ W \in Nat /\ W < 8
    BY <1>2 DEF Inv, TypeOK
  <1>4. /\ inq' \in Seq(Nat)
        /\ Len(inq) <= Len(inq') /\ Len(inq') <= written
        /\ \A i \in 1..Len(inq') : inq'[i] = i /\ i \in txd
        /\ \A i \in 1..Len(data') : Len(inq') < data'[i] + W
    <2>1. CASE Wire(n) = Wire(next) /\ Len(inq) < read + W
      <3>1. inq' = Append(inq, n)
        BY <2>1 DEF ReceiveData
      <3>2. n < next + 8 /\ next < n + 8
        BY <1>2, <1>3 DEF Inv, Window
      <3>3. n = next
        BY <2>1, <3>2, <1>3, WireInjective
      <3>4. inq' \in Seq(Nat) /\ Len(inq') = next
        BY <3>1, <1>3
      <3>5. \A i \in 1..Len(inq) : inq'[i] = inq[i]
        BY <3>1, <1>3
      <3>6. inq'[next] = n
        BY <3>1, <1>3
      <3>7. \A i \in 1..next : inq'[i] = i
        BY <3>3, <3>5, <3>6, <1>3 DEF Inv, InOrder
      <3>8. \A i \in 1..next : i \in txd
        <4>1. next \in txd
          BY <3>3, <1>2
        <4>2. \A i \in 1..Len(inq) : i \in txd
          BY DEF Inv, Transmitted
        <4>3. \A i \in 1..next : i = next \/ i \in 1..Len(inq)
          BY <1>3
        <4>. QED
          BY <4>1, <4>2, <4>3, Zenon
      <3>9. next <= written
        BY <3>3, <1>2
      <3>10. \A i \in 1..Len(data') : next < data'[i] + W
        BY <3>3, <1>2
      <3>. QED
        BY <3>4, <3>7, <3>8, <3>9, <3>10, <1>3
    <2>2. CASE ~(Wire(n) = Wire(next) /\ Len(inq) < read + W)
      <3>1. inq' = inq
        BY <2>2 DEF ReceiveData
      <3>2. \A i \in 1..Len(inq) : i \in txd
        BY DEF Inv, Transmitted
      <3>3. \A i \in 1..Len(inq) : inq[i] = i
        BY DEF Inv, InOrder
      <3>4. Len(inq) <= Len(inq) /\ Len(inq) <= written
        BY <1>3 DEF Inv, Window
      <3>. QED
        BY <3>1, <3>2, <3>3, <3>4, <1>2, <1>3
    <2>. QED
      BY <2>1, <2>2
  <1>5. TypeOK'
    BY <1>1, <1>2, <1>4 DEF Inv, TypeOK
  <1>6. InOrder'
    BY <1>4 DEF InOrder
  <1>7. Len(inq') \in Nat
    BY <1>4
  <1>8. Window'
    BY <1>1, <1>3, <1>4, <1>7 DEF Inv, Window
  <1>9. Transmitted' /\ Frames'
    BY <1>1, <1>2, <1>4 DEF Inv, Transmitted, Frames
  <1>10. Acks' /\ Turns'
    BY <1>1 DEF Inv, Acks, Turns
  <1>. QED
    BY <1>5, <1>6, <1>8, <1>9, <1>10 DEF Inv

\* A frame goes: lost, damaged, or stored while the receiving end writes.
LEMMA DropFrameInv ==
    ASSUME Inv, data # <<>>, data' = Tail(data),
           UNCHANGED <<written, base, rpr, nxtps, rxmit, txd, acks, inq, read, reading>>,
           rej' \in BOOLEAN,
           stored' = stored \/ (~reading /\ stored' = stored \cup {Head(data)})
    PROVE  Inv'
  <1>1. /\ data' \in Seq(Nat)
        /\ Head(data) \in 1..written /\ Len(inq) < Head(data) + W
        /\ \A i \in 1..Len(data') : data'[i] \in txd /\ Len(inq) < data'[i] + W
        /\ \A i, j \in 1..Len(data') : i < j => data'[i] < data'[j] + W
    BY TailFrames
  <1>2. written \in Nat /\ Len(inq) \in Nat
    BY DEF Inv, TypeOK
  <1>3. ~reading => Len(inq) = written
    BY <1>2 DEF Inv, Turns, Window, TypeOK
  <1>4. TypeOK'
    <2>1. stored \subseteq Nat /\ Head(data) \in Nat
      BY <1>1, <1>2 DEF Inv, TypeOK
    <2>2. stored' \subseteq Nat
      BY <2>1
    <2>. QED
      BY <2>2, <1>1 DEF Inv, TypeOK
  <1>5. InOrder' /\ Window' /\ Acks'
    BY DEF Inv, InOrder, Window, Acks
  <1>6. Transmitted' /\ Frames'
    BY <1>1 DEF Inv, Transmitted, Frames
  <1>7. Turns'
    BY <1>1, <1>2, <1>3 DEF Inv, Turns
  <1>. QED
    BY <1>4, <1>5, <1>6, <1>7 DEF Inv

\* pkread, and the other pkoutputs of the receiving end.
LEMMA AnswerInv ==
    ASSUME Inv, Read \/ Acknowledge
    PROVE  Inv'
  <1>1. PICK n \in read .. Len(inq) :
            read' = n /\ acks' = Append(acks, [rj |-> rej, a |-> n]) /\ (n # read => reading)
    <2>1. CASE Read
      BY <2>1 DEF Read, Inv, TypeOK
    <2>2. CASE Acknowledge
      BY <2>2 DEF Acknowledge, Inv, TypeOK, Window
    <2>. QED
      BY <2>1, <2>2
  <1>2. /\ written' = written /\ base' = base /\ rpr' = rpr /\ nxtps' = nxtps
        /\ rxmit' = rxmit /\ txd' = txd /\ data' = data /\ inq' = inq
        /\ stored' = stored /\ reading' = reading /\ rej' = FALSE
    BY DEF Read, Acknowledge, sender
  <1>3. read \in Nat /\ base \in Nat /\ written \in Nat /\ Len(inq) \in Nat /\ n \in Nat /\ rej \in BOOLEAN
    BY DEF Inv, TypeOK
  <1>. DEFINE f == [rj |-> rej, a |-> n]
  <1>4. f \in AckFrames /\ f.a = n
    BY <1>3 DEF AckFrames
  <1>5. /\ acks' \in Seq(AckFrames)
        /\ \A i \in 1..Len(acks') : base <= acks'[i].a /\ acks'[i].a <= n
        /\ \A i, j \in 1..Len(acks') : i < j => acks'[i].a <= acks'[j].a
    BY <1>1, <1>3, <1>4, AppendAck
  <1>6. TypeOK'
    <2>1. rej' \in BOOLEAN
      BY <1>2
    <2>. QED
      BY <2>1, <1>1, <1>2, <1>3, <1>5 DEF Inv, TypeOK
  <1>7. InOrder' /\ Transmitted' /\ Frames'
    BY <1>2 DEF Inv, InOrder, Transmitted, Frames
  <1>8. Window'
    BY <1>1, <1>2, <1>3 DEF Inv, Window
  <1>9. Acks'
    BY <1>1, <1>2, <1>5 DEF Acks
  <1>10. Turns'
    BY <1>1, <1>2, <1>3 DEF Inv, Turns
  <1>. QED
    BY <1>6, <1>7, <1>8, <1>9, <1>10 DEF Inv

\* The turn passes.  When the receiving end comes back to reading, all the
\* stored frames are duplicates of the last W packets, and none of them has
\* the number of the next packet.
LEMMA TurnInv ==
    ASSUME Inv, TurnToWrite \/ TurnToRead
    PROVE  Inv'
  <1>. USE WindowAssumption
  <1>1. /\ written' = written /\ base' = base /\ rpr' = rpr /\ nxtps' = nxtps
        /\ rxmit' = rxmit /\ txd' = txd /\ data' = data /\ acks' = acks
        /\ read' = read /\ rej' = rej
    BY DEF TurnToWrite, TurnToRead, sender
  <1>2. inq \in Seq(Nat) /\ Len(inq) \in Nat /\ stored \subseteq Nat
    BY DEF Inv, TypeOK
  <1>3. /\ inq' = inq
        /\ reading' \in BOOLEAN
        /\ (stored' = stored /\ ~reading' /\ read = written) \/ (stored' = {} /\ reading')
    <2>1. CASE TurnToWrite
      BY <2>1 DEF TurnToWrite
    <2>2. CASE TurnToRead
      <3>1. Stored(1) = {}
        <4>. SUFFICES ASSUME NEW n \in stored, Wire(n) = Wire(Len(inq) + 1)
                      PROVE  FALSE
          BY DEF Stored
        <4>1. n \in Nat /\ n <= Len(inq) /\ Len(inq) < n + W
          BY <1>2 DEF Inv, Turns
        <4>2. n = Len(inq) + 1
          BY <4>1, <1>2, WireInjective
        <4>. QED
          BY <4>1, <4>2, <1>2
      <3>2. PICK k \in 0..W :
                /\ \A i \in 1..k : Stored(i) # {}
                /\ \E run \in [1..k -> stored] : inq' = inq \o run
        BY <2>2 DEF TurnToRead
      <3>3. k = 0
        BY <3>1, <3>2
      <3>4. PICK run \in [1..0 -> stored] : inq' = inq \o run
        BY <3>2, <3>3
      <3>5. run = <<>>
        BY <3>4
      <3>6. inq' = inq
        BY <3>4, <3>5, <1>2
      <3>. QED
        BY <3>6, <2>2 DEF TurnToRead
    <2>. QED
      BY <2>1, <2>2
  <1>4. TypeOK'
    BY <1>1, <1>3 DEF Inv, TypeOK
  <1>5. InOrder' /\ Window' /\ Transmitted' /\ Frames' /\ Acks'
    BY <1>1, <1>3 DEF Inv, InOrder, Window, Transmitted, Frames, Acks
  <1>6. Turns'
    BY <1>1, <1>3 DEF Inv, Turns
  <1>. QED
    BY <1>4, <1>5, <1>6 DEF Inv

-----------------------------------------------------------------------------
(***************************************************************************)
(* The theorems                                                            *)
(***************************************************************************)

\* Every step of the program and of the line keeps the invariant.
LEMMA NextInv == Inv /\ [Next]_vars => Inv'
  <1>. SUFFICES ASSUME Inv, [Next]_vars PROVE Inv'
    OBVIOUS
  <1>1. CASE Write \/ Output
    BY <1>1, SenderInv
  <1>2. CASE ReceiveAck
    BY <1>2, ReceiveAckInv
  <1>3. CASE ReceiveData
    BY <1>3, ReceiveDataInv
  <1>4. CASE Read \/ Acknowledge
    BY <1>4, AnswerInv
  <1>5. CASE TurnToWrite \/ TurnToRead
    BY <1>5, TurnInv
  <1>6. CASE ReceiveDamaged
    <2>1. rej' \in BOOLEAN
      BY <1>6 DEF ReceiveDamaged
    <2>. QED
      BY <1>6, <2>1, DropFrameInv DEF ReceiveDamaged, sender
  <1>7. CASE Store
    <2>1. rej' \in BOOLEAN
      BY <1>7 DEF Store, Inv, TypeOK
    <2>. QED
      BY <1>7, <2>1, DropFrameInv DEF Store, sender
  <1>8. CASE Lose
    <2>1. CASE data # <<>> /\ data' = Tail(data) /\ UNCHANGED <<sender, acks, receiver>>
      <3>1. rej' \in BOOLEAN
        BY <2>1 DEF receiver, Inv, TypeOK
      <3>. QED
        BY <2>1, <3>1, DropFrameInv DEF sender, receiver
    <2>2. CASE acks # <<>> /\ acks' = Tail(acks) /\ UNCHANGED <<sender, data, receiver>>
      <3>1. TypeOK'
        BY <2>2, TailAcks DEF Inv, TypeOK, sender, receiver
      <3>2. Acks'
        BY <2>2, TailAcks DEF Acks, sender, receiver
      <3>. QED
        BY <2>2, <3>1, <3>2
           DEF Inv, InOrder, Window, Transmitted, Frames, Turns, sender, receiver
    <2>. QED
      BY <1>8, <2>1, <2>2 DEF Lose
  <1>9. CASE UNCHANGED vars
    BY <1>9 DEF Inv, TypeOK, InOrder, Window, Transmitted, Frames, Acks, Turns, vars
  <1>. QED
    BY <1>1, <1>2, <1>3, <1>4, <1>5, <1>6, <1>7, <1>8, <1>9 DEF Next

\* The invariant holds for every window of 1 to 7 packets.
THEOREM Invariance == Spec => []Inv
  BY InitInv, NextInv, PTL DEF Spec

\* Type correctness.
THEOREM TypeCorrect == Spec => []TypeOK
  <1>1. Inv => TypeOK
    BY DEF Inv
  <1>. QED
    BY <1>1, Invariance, PTL

\* pkread hands out the packets in the order they were written, none
\* missing and none twice, on a line that loses and damages frames.
THEOREM OrderedDelivery == Spec => []InOrder
  <1>1. Inv => InOrder
    BY DEF Inv
  <1>. QED
    BY <1>1, Invariance, PTL

\* pksack frees no packet the reader may still need.
THEOREM SafeRelease == Spec => []NoEarlyRelease
  <1>1. Inv => NoEarlyRelease
    BY DEF Inv, Window, NoEarlyRelease
  <1>. QED
    BY <1>1, Invariance, PTL

\* pksack's test of B_SENT never fails.
THEOREM AcksCoverSent == Spec => []AcksAreForSent
  <1>1. ASSUME Inv, NEW i \in 1..Len(acks), NEW n \in base+1 .. Acked(acks[i].a)
        PROVE  n \in txd
    <2>1. acks \in Seq(AckFrames) /\ base \in Nat /\ read \in Nat /\ Len(inq) \in Nat /\ written \in Nat
      BY <1>1 DEF Inv, TypeOK
    <2>2. acks[i] \in AckFrames
      BY <2>1
    <2>3. acks[i].a \in Nat /\ base <= acks[i].a /\ acks[i].a <= read
      BY <1>1, <2>2, AckType DEF Inv, Acks
    <2>4. acks[i].a <= base + 7 /\ acks[i].a <= Len(inq)
      BY <1>1, <2>1, <2>3, WindowAssumption DEF Inv, Window
    <2>5. Acked(acks[i].a) = acks[i].a
      BY <2>1, <2>3, <2>4, AckedIs
    <2>6. n \in 1..Len(inq)
      BY <2>1, <2>3, <2>4, <2>5
    <2>. QED
      BY <1>1, <2>6 DEF Inv, Transmitted
  <1>2. Inv => AcksAreForSent
    BY <1>1 DEF AcksAreForSent
  <1>. QED
    BY <1>2, Invariance, PTL

\* The first state of the window is the first state of the link.
LEMMA LinkInit == Init => Link!Init
  <1>. SUFFICES ASSUME Init PROVE Link!Init
    OBVIOUS
  <1>1. [i \in 1..read |-> inq[i]] = <<>>
    BY DEF Init
  <1>. QED
    BY <1>1 DEF Init, Link!Init

\* Every step of the window is a step of the link or leaves it alone.
LEMMA LinkNext == Inv /\ Inv' /\ [Next]_vars => [Link!Next]_(Link!linkVars)
  <1>. SUFFICES ASSUME Inv, Inv', [Next]_vars PROVE [Link!Next]_(Link!linkVars)
    OBVIOUS
  <1>. DEFINE seq == [i \in 1..read |-> inq[i]]
  <1>1. /\ read \in Nat /\ read' \in Nat /\ base \in Nat /\ base' \in Nat
        /\ Len(inq) \in Nat /\ Len(inq') \in Nat /\ written \in Nat
        /\ read <= Len(inq) /\ read' <= Len(inq') /\ Len(inq') <= written'
    BY DEF Inv, TypeOK, Window
  <1>2. seq = [i \in 1..read |-> i] /\ seq' = [i \in 1..read' |-> i]
    BY <1>1 DEF Inv, InOrder
  <1>3. Len(seq) = read /\ Len(seq') = read'
    BY <1>1, <1>2
  <1>4. CASE Write
    <2>1. read' = read /\ base' = base /\ written' = written + 1 /\ written < base + W
      BY <1>4 DEF Write, receiver
    <2>2. Link!Write
      BY <2>1, <1>2 DEF Link!Write
    <2>. QED
      BY <2>2 DEF Link!Next
  <1>5. CASE Read
    <2>1. read' > read /\ written' = written /\ base' = base
      BY <1>5, <1>1 DEF Read, sender
    <2>2. read' \in Len(seq)+1 .. written /\ seq' = [i \in 1..read' |-> i]
      BY <2>1, <1>1, <1>2, <1>3
    <2>3. Link!Deliver
      BY <2>1, <2>2 DEF Link!Deliver
    <2>. QED
      BY <2>3 DEF Link!Next
  <1>6. CASE ReceiveAck
    <2>1. written' = written /\ read' = read
      BY <1>6 DEF ReceiveAck, receiver
    <2>2. acks # <<>> /\ base' = Acked(Head(acks).a)
      BY <1>6 DEF ReceiveAck
    <2>3. base <= base' /\ base' <= read
      BY <2>2, HeadAck
    <2>4. CASE base' = base
      BY <2>1, <2>4, <1>2 DEF Link!linkVars
    <2>5. CASE base' # base
      <3>1. base' \in base+1 .. Len(seq)
        BY <2>3, <2>5, <1>1, <1>3
      <3>2. Link!Release
        BY <3>1, <2>1, <1>2 DEF Link!Release
      <3>. QED
        BY <3>2 DEF Link!Next
    <2>. QED
      BY <2>4, <2>5
  <1>7. CASE \/ Output \/ ReceiveData \/ ReceiveDamaged \/ Acknowledge \/ TurnToWrite
             \/ Store \/ TurnToRead \/ Lose \/ UNCHANGED vars
    <2>1. written' = written /\ base' = base /\ read' = read
      BY <1>7 DEF Output, ReceiveData, ReceiveDamaged, Acknowledge, TurnToWrite, Store,
                  TurnToRead, Lose, vars, sender, receiver
    <2>. QED
      BY <2>1, <1>2 DEF Link!linkVars
  <1>. QED
    BY <1>4, <1>5, <1>6, <1>7 DEF Next

\* The sliding window implements the ordered link of PacketLink.
THEOREM WindowImplementsLink == Spec => LinkSpec
  BY Invariance, LinkInit, LinkNext, PTL DEF Spec, LinkSpec, Link!Spec
=============================================================================
