--------------------------- MODULE UuCntrlProofs ----------------------------
(***************************************************************************)
(* The two ends of a conversation stay in step (cntrl.c), no job is lost,  *)
(* and no file is put in place that is not whole (anlwrk.c): for any       *)
(* queues, lengths of files, block size and faults.                        *)
(***************************************************************************)
EXTENDS UuCntrl, TLAPS

-----------------------------------------------------------------------------
(***************************************************************************)
(* Machines, numbers, sequences.                                           *)
(***************************************************************************)

LEMMA Peers ==
    ASSUME NEW m \in Machine
    PROVE  /\ Peer(m) \in Machine /\ Peer(m) # m /\ Peer(Peer(m)) = m
           /\ \A k \in Machine : k = m \/ k = Peer(m)
BY DEF Machine, Peer

\* Block boundaries.
LEMMA Multiple ==
    ASSUME NEW B \in Nat \ {0}, NEW k \in Nat
    PROVE  (B * k) % B = 0
OBVIOUS

LEMMA AddMod ==
    ASSUME NEW B \in Nat \ {0}, NEW a \in Nat, a % B = 0
    PROVE  (a + B) % B = 0 /\ a + B \in Nat
<1>1. PICK k \in Nat : a = B * k
  OBVIOUS
<1>2. a + B = B * (k + 1) /\ k + 1 \in Nat
  BY <1>1
<1>3. (B * (k + 1)) % B = 0
  BY <1>2, Multiple
<1> QED  BY <1>2, <1>3

LEMMA SubMod ==
    ASSUME NEW B \in Nat \ {0}, NEW n \in Nat
    PROVE  n - (n % B) \in Nat /\ (n - (n % B)) % B = 0
<1>1. n % B \in 0..n
  OBVIOUS
<1>2. \A r \in Nat : n % B = r => (n - r) % B = 0
  OBVIOUS
<1>3. PICK r \in 0..n : r = n % B
  BY <1>1
<1>4. (n - r) % B = 0 /\ n - r \in Nat
  BY <1>2, <1>3
<1> QED  BY <1>3, <1>4

LEMMA NextBoundary ==
    ASSUME NEW a \in Nat, a % BUFSIZ = 0
    PROVE  (a + BUFSIZ) % BUFSIZ = 0 /\ a + BUFSIZ \in Nat
BY BufAssumption, AddMod

LEMMA Boundary ==
    ASSUME NEW n \in Nat
    PROVE  n - (n % BUFSIZ) \in Nat /\ (n - (n % BUFSIZ)) % BUFSIZ = 0
BY BufAssumption, SubMod

LEMMA NoMessage ==
    ASSUME NEW S, NEW w \in Seq(S)
    PROVE  /\ w = <<>> <=> Len(w) = 0
           /\ Len(w) \in Nat
           /\ <<>> \in Seq(S) /\ Len(<<>>) = 0
OBVIOUS

LEMMA SomeMessage ==
    ASSUME NEW w, Len(w) # 0
    PROVE  w # <<>>
OBVIOUS

\* A message is put behind the others.
LEMMA AppendIs ==
    ASSUME NEW S, NEW w \in Seq(S), NEW x \in S
    PROVE  /\ Append(w, x) \in Seq(S) /\ Append(w, x) # <<>>
           /\ Len(Append(w, x)) = Len(w) + 1
           /\ \A i \in 1..Len(w) : Append(w, x)[i] = w[i]
           /\ Append(w, x)[Len(w) + 1] = x
OBVIOUS

\* The first message is taken.
LEMMA TailIs ==
    ASSUME NEW S, NEW w \in Seq(S), w # <<>>
    PROVE  /\ Head(w) = w[1] /\ w[1] \in S
           /\ Tail(w) \in Seq(S)
           /\ Len(w) > 0 /\ Len(Tail(w)) = Len(w) - 1
           /\ \A i \in 1..(Len(w) - 1) : Tail(w)[i] = w[i + 1]
OBVIOUS

-----------------------------------------------------------------------------
(***************************************************************************)
(* The steps on the line.                                                  *)
(***************************************************************************)

LineType ==
    /\ cico \in [Machine -> Cico] /\ wire \in [Machine -> Seq(Message)] /\ up \in BOOLEAN
    /\ \A m \in Machine :
          /\ cico[m].job \in Jobs \cup {0}
          /\ cico[m].pc \in {"wrdata", "rddata", "stored", "cmpt"} => cico[m].job # 0
          /\ cico[m].pc = "wrdata" => cico[m].at % BUFSIZ = 0

\* What LineType says of the uucico c.
Fits(c) ==
    /\ c \in Cico
    /\ c.job \in Jobs \cup {0}
    /\ c.pc \in {"wrdata", "rddata", "stored", "cmpt"} => c.job # 0
    /\ c.pc = "wrdata" => c.at % BUFSIZ = 0

LEMMA LineTypeIs ==
    LineType <=> /\ \A m \in Machine : Fits(cico[m])
                 /\ cico \in [Machine -> Cico] /\ wire \in [Machine -> Seq(Message)]
                 /\ up \in BOOLEAN
BY DEF LineType, Fits

LEMMA NoneFits == Fits(None) /\ None.pc = "none"
BY DEF Fits, None, Cico

LEMMA SendsIs ==
    ASSUME LineType, NEW m \in Machine, NEW msg \in Message, NEW c \in Cico, Sends(m, msg, c)
    PROVE  /\ up' = up /\ cico' \in [Machine -> Cico] /\ wire' \in [Machine -> Seq(Message)]
           /\ cico'[Peer(m)] = cico[Peer(m)] /\ wire'[m] = wire[m]
           /\ up => cico'[m] = c /\ wire'[Peer(m)] = Append(wire[Peer(m)], msg)
           /\ ~up => cico'[m] = None /\ wire'[Peer(m)] = wire[Peer(m)]
<1>1. /\ cico \in [Machine -> Cico] /\ wire \in [Machine -> Seq(Message)] /\ None \in Cico
  BY NoneFits DEF LineType, Fits
<1>2. wire[Peer(m)] \in Seq(Message) /\ Append(wire[Peer(m)], msg) \in Seq(Message)
  BY <1>1, Peers, AppendIs
<1> QED  BY <1>1, <1>2, Peers DEF Sends

LEMMA AnswersIs ==
    ASSUME LineType, NEW m \in Machine, NEW msg \in Message, NEW c \in Cico, Answers(m, msg, c),
           wire[m] # <<>>
    PROVE  /\ up' = up /\ cico' \in [Machine -> Cico] /\ wire' \in [Machine -> Seq(Message)]
           /\ cico'[Peer(m)] = cico[Peer(m)] /\ wire'[m] = Tail(wire[m])
           /\ up => cico'[m] = c /\ wire'[Peer(m)] = Append(wire[Peer(m)], msg)
           /\ ~up => cico'[m] = None /\ wire'[Peer(m)] = wire[Peer(m)]
<1>1. /\ cico \in [Machine -> Cico] /\ wire \in [Machine -> Seq(Message)] /\ None \in Cico
  BY NoneFits DEF LineType, Fits
<1>2. wire[Peer(m)] \in Seq(Message) /\ Append(wire[Peer(m)], msg) \in Seq(Message)
  BY <1>1, Peers, AppendIs
<1>3. Tail(wire[m]) \in Seq(Message)
  BY <1>1, TailIs
<1> QED  BY <1>1, <1>2, <1>3, Peers DEF Answers

LEMMA TakesIs ==
    ASSUME LineType, NEW m \in Machine, NEW c \in Cico, Takes(m, c), wire[m] # <<>>
    PROVE  /\ up' = up /\ cico' \in [Machine -> Cico] /\ wire' \in [Machine -> Seq(Message)]
           /\ cico'[Peer(m)] = cico[Peer(m)] /\ wire'[Peer(m)] = wire[Peer(m)]
           /\ cico'[m] = c /\ wire'[m] = Tail(wire[m])
<1>1. cico \in [Machine -> Cico] /\ wire \in [Machine -> Seq(Message)]
  BY DEF LineType
<1>2. Tail(wire[m]) \in Seq(Message)
  BY <1>1, TailIs
<1> QED  BY <1>1, <1>2, Peers DEF Takes

LEMMA EndsIs ==
    ASSUME LineType, NEW m \in Machine, Ends(m)
    PROVE  /\ ~up' /\ up' \in BOOLEAN
           /\ cico' \in [Machine -> Cico] /\ wire' \in [Machine -> Seq(Message)]
           /\ cico'[Peer(m)] = cico[Peer(m)] /\ wire'[Peer(m)] = wire[Peer(m)]
           /\ cico'[m] = None /\ wire'[m] = <<>>
<1>1. /\ cico \in [Machine -> Cico] /\ wire \in [Machine -> Seq(Message)] /\ None \in Cico
  BY NoneFits DEF LineType, Fits
<1>2. <<>> \in Seq(Message)
  OBVIOUS
<1> QED  BY <1>1, <1>2, Peers DEF Ends

-----------------------------------------------------------------------------
(***************************************************************************)
(* What has arrived is what is read next.                                  *)
(***************************************************************************)

LEMMA Wires ==
    ASSUME LineType, NEW m \in Machine
    PROVE  /\ wire[m] \in Seq(Message) /\ Len(wire[m]) \in Nat
           /\ wire[m] = <<>> <=> Len(wire[m]) = 0
           /\ Fits(cico[m])
BY NoMessage DEF LineType, Fits

LEMMA TalkReady ==
    ASSUME LineType, NEW a \in Machine, Talk(a)
    PROVE  Ready(a) /\ Ready(Peer(a))
<1> DEFINE b == Peer(a)
<1>0. b \in Machine /\ Peer(b) = a /\ b # a
  BY Peers
<1>1. /\ wire[a] = <<>> <=> Len(wire[a]) = 0
      /\ wire[b] = <<>> <=> Len(wire[b]) = 0
      /\ Len(wire[a]) \in Nat /\ Len(wire[b]) \in Nat
      /\ cico[a].job \in Jobs \cup {0} /\ cico[b].job \in Jobs \cup {0}
  BY <1>0, Wires DEF Fits
<1> HIDE DEF b
<1>2. CASE Asks(a, 0) /\ cico[b].role = "SLAVE" /\ cico[b].pc = "top"
  <2>1. wire[a] = <<>>
    BY <1>2 DEF Asks
  <2>2. wire[b] = <<>> \/ (Len(wire[b]) = 1 /\ Asked(wire[b][1]))
    BY <1>0, <1>1, <1>2 DEF Asks, Asked, b
  <2> QED  BY <1>2, <2>1, <2>2 DEF Ready, b
<1>3. CASE Asks(a, 1) /\ cico[b].role = "SLAVE" /\ cico[b].pc = "cmpt" /\ wire[b][1].t = "C"
  <2>1. wire[a] = <<>>
    BY <1>3 DEF Asks
  <2>2. Len(wire[b]) = 1 \/ (Len(wire[b]) = 2 /\ Asked(wire[b][2]))
    BY <1>0, <1>1, <1>3 DEF Asks, Asked, b
  <2> QED  BY <1>3, <2>1, <2>2 DEF Ready, Done, b
<1>4. CASE Told(a)
  <2>0. cico[a].pc = "reply" /\ wire[a] # <<>>
    BY <1>4 DEF Told
  <2>1. CASE cico[b].pc = "top" /\ cico[b].role = "SLAVE"
    <3>1. /\ wire[b] = <<>> /\ Len(wire[a]) = 1
          /\ Answer(wire[a][1], cico[a].job, {"N2", "N4"})
      BY <1>0, <1>4, <2>1 DEF Told, Asks, b
    <3>2. Reply(a)
      BY <3>1 DEF Reply, Answer
    <3> QED  BY <2>0, <3>1, <3>2 DEF Ready, b
  <2>2. CASE cico[b].pc = "hup" /\ cico[b].role = "SLAVE"
    <3>1. /\ wire[b] = <<>> /\ Len(wire[a]) = 1 /\ cico[a].job = 0
          /\ Answer(wire[a][1], 0, {"Y"})
      BY <1>0, <1>4, <2>2 DEF Told, Asks, b
    <3>2. Reply(a)
      BY <3>1 DEF Reply, Answer
    <3> QED  BY <2>0, <3>1, <3>2 DEF Ready, b
  <2>3. CASE Asks(b, 1) /\ cico[a].job = 0 /\ wire[a][1] = Msg("H", "N", 0, 0)
    <3>1. wire[b] = <<>>
      BY <2>3 DEF Asks
    <3>2. Len(wire[a]) = 1 \/ (Len(wire[a]) = 2 /\ Asked(wire[a][2]))
      BY <1>0, <1>1, <2>3 DEF Asks, Asked
    <3>3. wire[a][1].t = "H" /\ wire[a][1].a = "N" /\ Answer(wire[a][1], 0, {"N"})
      BY <2>3 DEF Msg, Answer, Kind
    <3>4. Reply(a)
      BY <2>3, <3>2, <3>3 DEF Reply, Answer
    <3> QED  BY <2>0, <3>1, <3>4 DEF Ready, b
  <2> QED  BY <1>4, <2>1, <2>2, <2>3 DEF Told, b
<1>5. CASE Sending(a)
  <2>1. \/ wire[a] = <<>>
        \/ cico[a].pc = "reply" /\ Len(wire[a]) = 1 /\ Answer(wire[a][1], cico[a].job, {"Y"})
        \/ cico[a].pc = "cmpt" /\ Len(wire[a]) = 1 /\ wire[a][1].t = "C"
    BY <1>5 DEF Sending
  <2>2. Answer(wire[a][1], cico[a].job, {"Y"}) /\ Len(wire[a]) = 1 => Reply(a)
    BY DEF Reply, Answer
  <2>3. Ready(a)
    BY <2>1, <2>2 DEF Ready, Done
  <2>4. wire[b] = <<>> \/ (cico[b].pc = "rddata" /\ Blocks(wire[b], 1))
    BY <1>5 DEF Sending, Transfer, b
  <2>5. Ready(b)
    BY <2>4 DEF Ready
  <2> QED  BY <2>3, <2>5 DEF b
<1>6. CASE Fetching(a)
  <2>1. wire[b] = <<>>
    BY <1>6 DEF Fetching, b
  <2>2. \/ wire[a] = <<>>
        \/ /\ cico[a].pc = "reply" /\ Answer(wire[a][1], cico[a].job, {"Y"})
           /\ Kind(cico[a].job) = "R" /\ Blocks(wire[a], 2)
        \/ cico[a].pc = "rddata" /\ Blocks(wire[a], 1)
    BY <1>6 DEF Fetching, Transfer
  <2>3. ASSUME Answer(wire[a][1], cico[a].job, {"Y"}), Kind(cico[a].job) = "R",
               Blocks(wire[a], 2)
        PROVE  Reply(a)
    BY <2>3 DEF Reply, Answer
  <2> QED  BY <2>1, <2>2, <2>3 DEF Ready, b
<1> QED  BY <1>2, <1>3, <1>4, <1>5, <1>6 DEF Talk, b

\* A uucico that runs reads what is there for it.
LEMMA Reads ==
    ASSUME LineType, Together, Alone, NEW m \in Machine, cico[m].pc # "none"
    PROVE  Ready(m)
<1>1. CASE up /\ Both
  <2>1. PICK a \in Machine : Talk(a)
    BY <1>1 DEF Together
  <2>2. m = a \/ m = Peer(a)
    BY Peers
  <2> QED  BY <2>1, <2>2, TalkReady
<1>2. CASE ~up \/ ~Both
  BY <1>2 DEF Alone
<1> QED  BY <1>1, <1>2

\* One that has no peer is about to hang up.
LEMMA HasPeer ==
    ASSUME Together, Alone, up, NEW m \in Machine, cico[m].pc \notin {"none", "hup"}
    PROVE  Both /\ \E a \in Machine : Talk(a)
BY DEF Together, Alone

-----------------------------------------------------------------------------
(***************************************************************************)
(* Steps that leave an end alone.                                          *)
(***************************************************************************)

\* The facts of the line that a step has to preserve.
LineInv == LineType /\ Together /\ Alone

\* Nobody but m changes, and what is on the way to the other stays.
LEMMA OthersReady ==
    ASSUME NEW m \in Machine, UNCHANGED scenario, Ready(m),
           cico'[m] = cico[m], wire'[m] = wire[m]
    PROVE  Ready(m)'
BY ZenonT(60) DEF Ready, Reply, Done, Asked, Request, Answer, Kind, Job, Jobs, Blocks, Short

\* A uucico ends while the line is down, or takes the line down with it.
LEMMA EndStep ==
    ASSUME LineInv, NEW m \in Machine, UNCHANGED scenario,
           up' \in BOOLEAN, ~up', cico'[m] = None, cico'[Peer(m)] = cico[Peer(m)],
           wire'[Peer(m)] = wire[Peer(m)],
           cico' \in [Machine -> Cico], wire' \in [Machine -> Seq(Message)]
    PROVE  LineInv'
<1> DEFINE b == Peer(m)
<1>0. b \in Machine /\ \A k \in Machine : k = m \/ k = b
  BY Peers
<1>1. Fits(cico[b])
  BY <1>0, Wires DEF LineInv
<1>2. Fits(cico[m])' /\ Fits(cico[b])'
  BY <1>1, NoneFits DEF Fits, Jobs
<1>3. LineType'
  <2>1. \A k \in Machine : Fits(cico[k])'
    BY <1>0, <1>2
  <2> QED  BY <2>1 DEF LineType, Fits
<1>4. cico[b].pc # "none" => Ready(b)'
  BY <1>0, Reads, OthersReady DEF LineInv
<1>5. cico'[m].pc = "none"
  BY NoneFits
<1>6. Alone'
  BY <1>0, <1>4, <1>5 DEF Alone
<1> QED  BY <1>3, <1>6 DEF LineInv, Together

\* m goes on, and the two ends talk.
LEMMA TalkStep ==
    ASSUME LineInv, NEW m \in Machine, UNCHANGED <<scenario, up>>, up, Both,
           cico' \in [Machine -> Cico], wire' \in [Machine -> Seq(Message)],
           cico'[Peer(m)] = cico[Peer(m)], Fits(cico[m])', cico'[m].pc # "none",
           \E a \in Machine : Talk(a)'
    PROVE  LineInv'
<1> DEFINE b == Peer(m)
<1>0. b \in Machine /\ \A k \in Machine : k = m \/ k = b
  BY Peers
<1>1. Fits(cico[b])'
  BY <1>0, Wires DEF LineInv, Fits, Jobs
<1>2. LineType'
  <2>1. \A k \in Machine : Fits(cico[k])'
    BY <1>0, <1>1
  <2> QED  BY <2>1 DEF LineInv, LineType, Fits
<1>3. Both'
  BY <1>0 DEF Both
<1> QED  BY <1>2, <1>3 DEF LineInv, Together, Alone

\* m takes what is left for it on a line that is down.
LEMMA DownStep ==
    ASSUME LineInv, NEW m \in Machine, UNCHANGED <<scenario, up>>, ~up,
           cico' \in [Machine -> Cico], wire' \in [Machine -> Seq(Message)],
           cico'[Peer(m)] = cico[Peer(m)], wire'[Peer(m)] = wire[Peer(m)],
           Fits(cico[m])', Ready(m)'
    PROVE  LineInv'
<1> DEFINE b == Peer(m)
<1>0. b \in Machine /\ \A k \in Machine : k = m \/ k = b
  BY Peers
<1>1. Fits(cico[b])'
  BY <1>0, Wires DEF LineInv, Fits, Jobs
<1>2. LineType'
  <2>1. \A k \in Machine : Fits(cico[k])'
    BY <1>0, <1>1
  <2> QED  BY <2>1 DEF LineInv, LineType, Fits
<1>3. cico[b].pc # "none" => Ready(b)'
  BY <1>0, Reads, OthersReady DEF LineInv
<1>4. Alone'
  BY <1>0, <1>3 DEF Alone
<1> QED  BY <1>2, <1>4 DEF LineInv, Together

-----------------------------------------------------------------------------
(***************************************************************************)
(* The work queue.                                                         *)
(***************************************************************************)

\* C. files with lines that are jobs, and a bookmark in the first of them.
Queued(q, k) ==
    /\ q \in Seq(Seq(Nat)) /\ k \in Nat
    /\ \A i \in DOMAIN q : q[i] # <<>> /\ \A l \in DOMAIN q[i] : q[i][l] \in Jobs
    /\ q # <<>> => k < Len(q[1])

LEMMA GtwvecIs ==
    ASSUME NEW q, NEW k, Queued(q, k), NEW pos \in Nat \cup {-1}
    PROVE  LET w == gtwvec(q, k, pos)
           IN  /\ Queued(w.queue, w.mark)
               /\ w.pos \in Nat \cup {-1} /\ w.job \in Jobs \cup {0}
<1> DEFINE p == IF pos = -1 THEN k ELSE pos
           rest == IF q # <<>> /\ p >= Len(q[1]) THEN Tail(q) ELSE q
           i == IF rest = q THEN p ELSE 0
           w == gtwvec(q, k, pos)
<1>0. q \in Seq(Seq(Nat)) /\ p \in Nat
  BY DEF Queued
<1>1. /\ rest \in Seq(Seq(Nat))
      /\ \A l \in DOMAIN rest : rest[l] # <<>> /\ \A j \in DOMAIN rest[l] : rest[l][j] \in Jobs
  <2>1. CASE rest = q
    BY <2>1 DEF Queued
  <2>2. CASE q # <<>> /\ rest = Tail(q)
    <3>1. /\ Tail(q) \in Seq(Seq(Nat))
          /\ \A l \in DOMAIN Tail(q) : l + 1 \in DOMAIN q /\ Tail(q)[l] = q[l + 1]
      BY <1>0, <2>2, TailIs
    <3> QED  BY <2>2, <3>1 DEF Queued
  <2> QED  BY <2>1, <2>2
<1>2. ASSUME rest # <<>>
      PROVE  /\ i \in Nat /\ i < Len(rest[1]) /\ rest[1] \in Seq(Nat)
             /\ rest[1][i + 1] \in Jobs
  <2>0. i \in Nat /\ (rest = q => i = p) /\ (rest # q => i = 0)
    BY <1>0
  <2>1. (rest = q /\ q # <<>>) => p < Len(q[1])
    <3>1. ASSUME q # <<>>, p >= Len(q[1]) PROVE rest # q
      BY <1>0, <3>1, TailIs
    <3>2. q # <<>> => q[1] \in Seq(Nat)
      BY <1>0
    <3>3. q # <<>> => Len(q[1]) \in Nat
      BY <3>2
    <3> QED  BY <1>0, <3>1, <3>3
  <2> HIDE DEF rest, i, p
  <2>2. 1 \in DOMAIN rest /\ rest[1] \in Seq(Nat)
    BY <1>1, <1>2
  <2>3. rest[1] # <<>> /\ \A l \in DOMAIN rest[1] : rest[1][l] \in Jobs
    BY <1>1, <2>2
  <2>4. Len(rest[1]) \in Nat /\ Len(rest[1]) > 0 /\ DOMAIN rest[1] = 1..Len(rest[1])
    BY <2>2, <2>3
  <2>5. i < Len(rest[1])
    BY <1>2, <2>0, <2>1, <2>4
  <2> QED  BY <2>0, <2>2, <2>3, <2>4, <2>5
<1>3. CASE rest = <<>>
  <2>1. w = [queue |-> rest, mark |-> 0, pos |-> -1, job |-> 0]
    BY <1>3 DEF gtwvec
  <2> QED  BY <1>1, <1>3, <2>1 DEF Queued
<1>4. CASE rest # <<>>
  <2>1. w = [queue |-> rest, mark |-> i, pos |-> i + 1, job |-> rest[1][i + 1]]
    BY <1>4 DEF gtwvec
  <2> HIDE DEF rest, i, w
  <2>2. Queued(w.queue, w.mark)
    BY <1>1, <1>2, <1>4, <2>1 DEF Queued
  <2> QED  BY <1>2, <1>4, <2>1, <2>2 DEF w
<1> QED  BY <1>3, <1>4

-----------------------------------------------------------------------------
(***************************************************************************)
(* The steps of cntrl.                                                     *)
(***************************************************************************)

LEMMA NoData == <<>> \in Seq(Nat)
OBVIOUS

LEMMA MsgIs ==
    ASSUME NEW t \in {"H", "S", "R", "D", "C"}, NEW a \in {"", "Y", "N", "N2", "N4", "N5", "N10"},
           NEW j \in Nat, NEW n \in Nat
    PROVE  Msg(t, a, j, n) \in Message
BY NoData DEF Msg, Message

\* A job is a line of a scenario.
LEMMA JobIs ==
    ASSUME TypeOK, NEW j \in Jobs
    PROVE  /\ Job(j) \in JobType /\ j \in Nat /\ j # 0
           /\ Kind(j) = Job(j).type /\ Kind(j) \in {"S", "R"}
<1>1. ScenarioType(scenario)
  BY ScenarioAssumption DEF TypeOK
<1>2. scenario.jobs \in Seq(JobType)
  BY <1>1 DEF ScenarioType
<1>3. j \in 1..Len(scenario.jobs) /\ scenario.jobs[j] \in JobType
  BY <1>2 DEF Jobs
<1> QED  BY <1>2, <1>3 DEF Job, JobType, Kind

\* The master sends its request behind what is there.
LEMMA AsksStep ==
    ASSUME LineType, NEW m \in Machine, UNCHANGED scenario, NEW k \in {0, 1}, Asks(m, k),
           cico[m].pc = "top", cico'[m].pc = "reply", cico'[m].role = "MASTER",
           NEW msg \in Message, Request(msg, cico'[m].job), wire'[m] = wire[m],
           wire'[Peer(m)] = Append(wire[Peer(m)], msg)
    PROVE  /\ Asks(m, k)'
           /\ k = 1 => wire'[Peer(m)][1] = wire[Peer(m)][1] /\ wire[Peer(m)] # <<>>
           /\ wire'[Peer(m)] # <<>>
<1> DEFINE v == wire[Peer(m)]
           w == wire'[Peer(m)]
<1>1. v \in Seq(Message)
  BY Peers, Wires
<1>2. Len(w) = Len(v) + 1 /\ w[Len(v) + 1] = msg /\ w # <<>> /\ \A i \in 1..Len(v) : w[i] = v[i]
  BY <1>1, AppendIs
<1>3. Len(v) = k /\ wire[m] = <<>> /\ (k = 1 => v # <<>>)
  BY <1>1, NoMessage DEF Asks
<1>4. Request(w[k + 1], cico'[m].job) /\ Len(w) = k + 1
  BY <1>2, <1>3
<1>5. Request(wire[Peer(m)][k + 1], cico[m].job)'
  BY <1>4 DEF Request, Kind, Job
<1>6. Asks(m, k)'
  BY <1>3, <1>4, <1>5 DEF Asks
<1> QED  BY <1>2, <1>3, <1>6

\* Where the other end is while m is going to ask.
LEMMA TopMaster ==
    ASSUME LineInv, up, NEW m \in Machine, cico[m].pc = "top", cico[m].role = "MASTER"
    PROVE  LET b == Peer(m)
           IN  /\ Both
               /\ \/ Asks(m, 0) /\ cico[b].role = "SLAVE" /\ cico[b].pc = "top"
                  \/ /\ Asks(m, 1) /\ cico[b].role = "SLAVE" /\ cico[b].pc = "cmpt"
                     /\ wire[b][1].t = "C"
                  \/ /\ Asks(m, 1) /\ cico[b].role = "MASTER" /\ cico[b].pc = "reply"
                     /\ cico[b].job = 0 /\ wire[b][1] = Msg("H", "N", 0, 0)
<1> DEFINE b == Peer(m)
<1>0. b \in Machine /\ Peer(b) = m /\ \A k \in Machine : k = m \/ k = b
  BY Peers
<1>1. Both /\ \E a \in Machine : Talk(a)
  BY HasPeer DEF LineInv
<1>2. CASE Talk(m)
  BY <1>1, <1>2 DEF Talk, Told, Sending, Fetching
<1>3. CASE Talk(b)
  BY <1>0, <1>1, <1>3 DEF Talk, Told, Sending, Fetching
<1> QED  BY <1>0, <1>1, <1>2, <1>3

LEMMA TypeParts ==
    ASSUME TypeOK
    PROVE  /\ LineType
           /\ \A m \in Machine : Queued(queue[m], mark[m])
BY DEF TypeOK, LineType, Queued

\* The master asks.
LEMMA AskStep ==
    ASSUME LineInv, NEW m \in Machine, UNCHANGED scenario,
           cico[m].pc = "top", cico[m].role = "MASTER",
           NEW next \in Cico, Fits(next), next.pc = "reply", next.role = "MASTER",
           NEW msg \in Message, Request(msg, next.job), Sends(m, msg, next)
    PROVE  LineInv'
<1> DEFINE b == Peer(m)
<1>0. b \in Machine /\ Peer(b) = m /\ LineType /\ up \in BOOLEAN
  BY Peers DEF LineInv, LineType
<1>1. /\ up' = up /\ cico' \in [Machine -> Cico] /\ wire' \in [Machine -> Seq(Message)]
      /\ cico'[b] = cico[b] /\ wire'[m] = wire[m]
      /\ up => cico'[m] = next /\ wire'[b] = Append(wire[b], msg)
      /\ ~up => cico'[m] = None /\ wire'[b] = wire[b]
  BY <1>0, SendsIs
<1>2. CASE ~up
  BY <1>0, <1>1, <1>2, EndStep
<1>3. CASE up
  <2>1. Fits(cico[m])'
    BY <1>1, <1>3 DEF Fits, Jobs
  <2>2. \A k \in {0, 1} : Asks(m, k) =>
           /\ Asks(m, k)'
           /\ k = 1 => wire'[b][1] = wire[b][1] /\ wire[b] # <<>>
           /\ wire'[b] # <<>>
    BY <1>0, <1>1, <1>3, AsksStep
  <2>3. Talk(m)' \/ Talk(b)'
    <3>1. CASE Asks(m, 0) /\ cico[b].role = "SLAVE" /\ cico[b].pc = "top"
      BY <1>1, <1>3, <2>2, <3>1 DEF Talk
    <3>2. CASE /\ Asks(m, 1) /\ cico[b].role = "SLAVE" /\ cico[b].pc = "cmpt"
               /\ wire[b][1].t = "C"
      BY <1>1, <1>3, <2>2, <3>2 DEF Talk
    <3>3. CASE /\ Asks(m, 1) /\ cico[b].role = "MASTER" /\ cico[b].pc = "reply"
               /\ cico[b].job = 0 /\ wire[b][1] = Msg("H", "N", 0, 0)
      <4>1. Told(b)'
        BY <1>0, <1>1, <2>2, <3>3 DEF Told, Msg
      <4> QED  BY <1>1, <3>3, <4>1 DEF Talk
    <3> QED  BY <1>3, <3>1, <3>2, <3>3, TopMaster
  <2>4. Both
    BY <1>3, TopMaster
  <2> QED  BY <1>0, <1>1, <1>3, <2>1, <2>3, <2>4, TalkStep
<1> QED  BY <1>2, <1>3

\* A transfer starts at a block boundary.
LEMMA StartIs ==
    ASSUME TypeOK, NEW j \in Jobs
    PROVE  StartPoint(j) \in Nat /\ StartPoint(j) % BUFSIZ = 0
<1>1. pfile[j] \in Seq(Nat)
  BY DEF TypeOK
<1>2. Opened(j) \in Seq(Nat)
  BY <1>1, NoData DEF Opened
<1>3. Len(Opened(j)) \in Nat
  BY <1>2
<1> QED  BY <1>3, Boundary DEF StartPoint

LEMMA MasterTopStep ==
    ASSUME TypeOK, LineInv, NEW m \in Machine, MasterTop(m)
    PROVE  LineInv'
<1> DEFINE w == gtwvec(queue[m], mark[m], cico[m].pos)
           j == w.job
           next == [cico[m] EXCEPT !.pc = "reply", !.pos = w.pos, !.job = j]
           b == Peer(m)
<1>0. /\ cico[m].pc = "top" /\ cico[m].role = "MASTER" /\ UNCHANGED scenario
      /\ \/ j = 0 /\ Sends(m, Msg("H", "", 0, 0), next)
         \/ j # 0 /\ cico' = [cico EXCEPT ![m] = [next EXCEPT !.pc = "top"]] /\ UNCHANGED <<wire, up>>
         \/ j # 0 /\ Job(j).type = "S" /\ Sends(m, Msg("S", "", j, Job(j).len), next)
         \/ j # 0 /\ Job(j).type = "R" /\ Sends(m, Msg("R", "", j, StartPoint(j)), next)
  BY DEF MasterTop
<1>1. /\ LineType /\ Fits(cico[m]) /\ cico[m] \in Cico
      /\ w.pos \in Nat \cup {-1} /\ j \in Jobs \cup {0}
  <2>1. LineType /\ Queued(queue[m], mark[m]) /\ Fits(cico[m]) /\ cico[m] \in Cico
    BY TypeParts, Wires DEF Fits
  <2>2. cico[m].pos \in Nat \cup {-1}
    BY <2>1 DEF Cico
  <2> QED  BY <2>1, <2>2, GtwvecIs
<1>2. j \in Nat /\ (j # 0 => Job(j).len \in Nat /\ j \in Jobs)
  BY <1>1, JobIs DEF JobType
<1> HIDE DEF w
<1>3. next \in Cico /\ Fits(next) /\ next.pc = "reply" /\ next.role = "MASTER" /\ next.job = j
  BY <1>0, <1>1, <1>2 DEF Cico, Fits
<1> HIDE DEF next, j
<1>4. CASE j = 0 /\ Sends(m, Msg("H", "", 0, 0), next)
  <2>1. Msg("H", "", 0, 0) \in Message
    BY MsgIs
  <2>2. Request(Msg("H", "", 0, 0), next.job)
    BY <1>3, <1>4 DEF Request, Kind, Msg
  <2> QED  BY <1>0, <1>3, <1>4, <2>1, <2>2, AskStep
<1>5. CASE j # 0 /\ Job(j).type = "S" /\ Sends(m, Msg("S", "", j, Job(j).len), next)
  <2>1. Msg("S", "", j, Job(j).len) \in Message
    BY <1>2, <1>5, MsgIs
  <2>2. Request(Msg("S", "", j, Job(j).len), next.job)
    BY <1>3, <1>5 DEF Request, Kind, Msg
  <2> QED  BY <1>0, <1>3, <1>5, <2>1, <2>2, AskStep
<1>6. CASE j # 0 /\ Job(j).type = "R" /\ Sends(m, Msg("R", "", j, StartPoint(j)), next)
  <2>1. StartPoint(j) \in Nat /\ StartPoint(j) % BUFSIZ = 0
    BY <1>2, <1>6, StartIs
  <2>2. Msg("R", "", j, StartPoint(j)) \in Message
    BY <1>2, <1>6, <2>1, MsgIs
  <2>3. Request(Msg("R", "", j, StartPoint(j)), next.job)
    BY <1>3, <1>6, <2>1 DEF Request, Kind, Msg
  <2> QED  BY <1>0, <1>3, <1>6, <2>2, <2>3, AskStep
<1>7. CASE cico' = [cico EXCEPT ![m] = [next EXCEPT !.pc = "top"]] /\ UNCHANGED <<wire, up>>
  <2> DEFINE c == [next EXCEPT !.pc = "top"]
  <2>1. b \in Machine /\ Peer(b) = m /\ b # m
    BY Peers
  <2>2. c \in Cico /\ Fits(c) /\ c.pc = "top" /\ c.role = "MASTER"
    BY <1>3 DEF Cico, Fits
  <2> HIDE DEF c
  <2>3. /\ cico'[m] = c /\ cico'[b] = cico[b] /\ cico' \in [Machine -> Cico]
        /\ wire' \in [Machine -> Seq(Message)]
    BY <1>1, <1>7, <2>1, <2>2 DEF LineType, c
  <2>4. Fits(cico[m])'
    BY <1>0, <2>2, <2>3 DEF Fits, Jobs
  <2>5. CASE up
    <3>1. Asks(m, 0) => Asks(m, 0)'
      BY <1>0, <1>7, <2>2, <2>3 DEF Asks
    <3>2. Asks(m, 1) => Asks(m, 1)'
      BY <1>0, <1>7, <2>2, <2>3 DEF Asks
    <3>3. Talk(m)' \/ Talk(b)'
      <4>1. CASE Asks(m, 0) /\ cico[b].role = "SLAVE" /\ cico[b].pc = "top"
        BY <1>7, <2>2, <2>3, <3>1, <4>1 DEF Talk
      <4>2. CASE /\ Asks(m, 1) /\ cico[b].role = "SLAVE" /\ cico[b].pc = "cmpt"
                 /\ wire[b][1].t = "C"
        BY <1>7, <2>2, <2>3, <3>2, <4>2 DEF Talk
      <4>3. CASE /\ Asks(m, 1) /\ cico[b].role = "MASTER" /\ cico[b].pc = "reply"
                 /\ cico[b].job = 0 /\ wire[b][1] = Msg("H", "N", 0, 0)
        <5>0. Len(wire[b]) = 1
          BY <1>0, <4>3 DEF Asks
        <5>1. wire[b] # <<>>
          BY <5>0, NoMessage
        <5>2. /\ Asks(m, 1)' /\ cico'[b].pc = "reply" /\ wire'[b] # <<>> /\ cico'[b].job = 0
              /\ wire'[b][1] = Msg("H", "N", 0, 0)
          BY <1>7, <2>3, <3>2, <4>3, <5>1
        <5>3. Told(b)'
          BY <2>1, <5>2 DEF Told, Msg
        <5> QED  BY <2>3, <4>3, <5>3 DEF Talk
      <4> QED  BY <1>0, <2>5, <4>1, <4>2, <4>3, TopMaster
    <3>4. Both
      BY <1>0, <2>5, TopMaster
    <3> QED  BY <1>0, <1>7, <2>1, <2>2, <2>3, <2>4, <2>5, <3>3, <3>4, TalkStep
  <2>6. CASE ~up
    <3>1. wire[m] = <<>>
      BY <1>0, Reads DEF LineInv, Ready
    <3>2. Ready(m)'
      BY <1>7, <3>1 DEF Ready
    <3> QED  BY <1>0, <1>7, <2>1, <2>3, <2>4, <2>6, <3>2, DownStep
  <2> QED  BY <1>1, <2>5, <2>6 DEF LineType
<1> QED  BY <1>0, <1>4, <1>5, <1>6, <1>7

-----------------------------------------------------------------------------
(***************************************************************************)
(* The forms of a step.                                                    *)
(***************************************************************************)

LEMMA EndsStep ==
    ASSUME LineInv, NEW m \in Machine, UNCHANGED scenario, Ends(m)
    PROVE  LineInv'
BY EndsIs, EndStep DEF LineInv

LEMMA SendStep ==
    ASSUME LineInv, NEW m \in Machine, UNCHANGED scenario, NEW msg \in Message, NEW c \in Cico,
           Sends(m, msg, c), Fits(c), c.pc # "none",
           up => Both /\ \E a \in Machine : Talk(a)'
    PROVE  LineInv'
<1>0. LineType /\ up \in BOOLEAN
  BY DEF LineInv, LineType
<1>1. /\ up' = up /\ cico' \in [Machine -> Cico] /\ wire' \in [Machine -> Seq(Message)]
      /\ cico'[Peer(m)] = cico[Peer(m)] /\ wire'[m] = wire[m]
      /\ up => cico'[m] = c
      /\ ~up => cico'[m] = None /\ wire'[Peer(m)] = wire[Peer(m)]
  BY <1>0, SendsIs
<1>2. CASE up
  <2>1. Fits(cico[m])'
    BY <1>1, <1>2 DEF Fits, Jobs
  <2> QED  BY <1>1, <1>2, <2>1, TalkStep
<1>3. CASE ~up
  BY <1>0, <1>1, <1>3, EndStep
<1> QED  BY <1>2, <1>3

LEMMA AnswerStep ==
    ASSUME LineInv, NEW m \in Machine, UNCHANGED scenario, NEW msg \in Message, NEW c \in Cico,
           Answers(m, msg, c), wire[m] # <<>>, Fits(c), c.pc # "none",
           up => Both /\ \E a \in Machine : Talk(a)'
    PROVE  LineInv'
<1>0. LineType /\ up \in BOOLEAN
  BY DEF LineInv, LineType
<1>1. /\ up' = up /\ cico' \in [Machine -> Cico] /\ wire' \in [Machine -> Seq(Message)]
      /\ cico'[Peer(m)] = cico[Peer(m)]
      /\ up => cico'[m] = c
      /\ ~up => cico'[m] = None /\ wire'[Peer(m)] = wire[Peer(m)]
  BY <1>0, AnswersIs
<1>2. CASE up
  <2>1. Fits(cico[m])'
    BY <1>1, <1>2 DEF Fits, Jobs
  <2> QED  BY <1>1, <1>2, <2>1, TalkStep
<1>3. CASE ~up
  BY <1>0, <1>1, <1>3, EndStep
<1> QED  BY <1>2, <1>3

LEMMA TakeStep ==
    ASSUME LineInv, NEW m \in Machine, UNCHANGED scenario, NEW c \in Cico,
           Takes(m, c), wire[m] # <<>>, Fits(c), c.pc # "none",
           up => Both /\ \E a \in Machine : Talk(a)',
           ~up => Ready(m)'
    PROVE  LineInv'
<1>0. LineType /\ up \in BOOLEAN
  BY DEF LineInv, LineType
<1>1. /\ up' = up /\ cico' \in [Machine -> Cico] /\ wire' \in [Machine -> Seq(Message)]
      /\ cico'[Peer(m)] = cico[Peer(m)] /\ wire'[Peer(m)] = wire[Peer(m)]
      /\ cico'[m] = c
  BY <1>0, TakesIs
<1>2. Fits(cico[m])'
  BY <1>1 DEF Fits, Jobs
<1>3. CASE up
  BY <1>1, <1>2, <1>3, TalkStep
<1>4. CASE ~up
  BY <1>0, <1>1, <1>2, <1>4, DownStep
<1> QED  BY <1>3, <1>4

\* Blocks are put on the wire and taken from it.
LEMMA BlockSent ==
    ASSUME NEW w \in Seq(Message), NEW x \in Message, x.t = "D", NEW k \in {1, 2},
           Transfer(w, k, FALSE)
    PROVE  /\ Short(x) => Transfer(Append(w, x), k, TRUE)
           /\ ~Short(x) => Transfer(Append(w, x), k, FALSE)
<1> DEFINE v == Append(w, x)
<1>1. /\ Len(v) = Len(w) + 1 /\ v[Len(w) + 1] = x /\ Len(w) \in Nat
      /\ \A i \in 1..Len(w) : v[i] = w[i]
  BY AppendIs, NoMessage
<1> HIDE DEF v
<1>2. /\ \A i \in k..Len(w) : w[i].t = "D" /\ ~Short(w[i])
      /\ Len(w) + 1 >= k
  BY DEF Transfer, Blocks
<1>3. \A i \in k..Len(v) : v[i].t = "D" /\ (i # Len(v) => ~Short(v[i]))
  BY <1>1, <1>2
<1>4. Blocks(v, k)
  BY <1>3 DEF Blocks
<1>5. Short(x) => Transfer(v, k, TRUE)
  BY <1>1, <1>2, <1>4 DEF Transfer
<1>6. ~Short(x) => Transfer(v, k, FALSE)
  BY <1>1, <1>2, <1>3, <1>4 DEF Transfer
<1> QED  BY <1>5, <1>6 DEF v

LEMMA AnswerTaken ==
    ASSUME NEW w \in Seq(Message), w # <<>>
    PROVE  /\ Blocks(w, 2) => Blocks(Tail(w), 1)
           /\ \A shut \in BOOLEAN : Transfer(w, 2, shut) => Transfer(Tail(w), 1, shut)
BY DEF Transfer, Blocks, Short

LEMMA BlockTaken ==
    ASSUME NEW w \in Seq(Message), w # <<>>, Blocks(w, 1)
    PROVE  /\ w[1].t = "D"
           /\ Short(w[1]) => Len(w) = 1 /\ Tail(w) = <<>>
           /\ Blocks(Tail(w), 1)
           /\ \A shut \in BOOLEAN : Transfer(w, 1, shut) =>
                 /\ Short(w[1]) => shut
                 /\ ~Short(w[1]) => Transfer(Tail(w), 1, shut)
<1>1. 1 \in 1..Len(w)
  OBVIOUS
<1>2. w[1].t = "D"
  BY <1>1 DEF Blocks
<1>3. Short(w[1]) => Len(w) = 1
  BY <1>1 DEF Blocks
<1>4. Short(w[1]) => Tail(w) = <<>>
  BY DEF Blocks, Short
<1>5. Blocks(Tail(w), 1)
  BY DEF Blocks, Short
<1>6. \A shut \in BOOLEAN : Transfer(w, 1, shut) =>
          /\ Short(w[1]) => shut
          /\ ~Short(w[1]) => Transfer(Tail(w), 1, shut)
  BY DEF Transfer, Blocks, Short
<1> QED  BY <1>2, <1>3, <1>4, <1>5, <1>6

-----------------------------------------------------------------------------
(***************************************************************************)
(* Where the other end is.                                                 *)
(***************************************************************************)

\* The slave at m has got a request.
LEMMA SlaveGot ==
    ASSUME LineInv, up, NEW m \in Machine, cico[m].pc = "top", cico[m].role = "SLAVE",
           wire[m] # <<>>
    PROVE  LET a == Peer(m)
           IN  /\ Both /\ cico[a].role = "MASTER" /\ cico[a].pc = "reply" /\ wire[a] = <<>>
               /\ Len(wire[m]) = 1 /\ Request(wire[m][1], cico[a].job)
<1> DEFINE a == Peer(m)
<1>0. a \in Machine /\ Peer(a) = m /\ \A k \in Machine : k = m \/ k = a
  BY Peers
<1>1. Both /\ \E k \in Machine : Talk(k)
  BY HasPeer DEF LineInv
<1>2. ~Talk(m)
  BY DEF Talk
<1>3. Talk(a)
  BY <1>0, <1>1, <1>2
<1>4. Len(wire[m]) # 0
  BY Wires DEF LineInv
<1>5. Asks(a, 0)
  BY <1>0, <1>3 DEF Talk, Told, Asks, Sending, Fetching
<1> QED  BY <1>0, <1>1, <1>4, <1>5 DEF Asks

\* The master at m has got an answer.
LEMMA MasterGot ==
    ASSUME LineInv, up, NEW m \in Machine, cico[m].pc = "reply", wire[m] # <<>>
    PROVE  /\ Both /\ cico[m].role = "MASTER"
           /\ Told(m) \/ Sending(m) \/ Fetching(m)
<1> DEFINE b == Peer(m)
<1>0. b \in Machine /\ Peer(b) = m /\ \A k \in Machine : k = m \/ k = b
  BY Peers
<1>1. Both /\ \E k \in Machine : Talk(k)
  BY HasPeer DEF LineInv
<1>2. ~Talk(b)
  BY <1>0 DEF Talk, Told, Asks, Sending, Fetching
<1>3. Talk(m)
  BY <1>0, <1>1, <1>2
<1> QED  BY <1>1, <1>3 DEF Talk, Asks

\* The uucico at m sends a file.
LEMMA Writing ==
    ASSUME LineInv, up, NEW m \in Machine, cico[m].pc = "wrdata"
    PROVE  /\ Both
           /\ \/ cico[m].role = "MASTER" /\ Sending(m)
              \/ cico[Peer(m)].role = "MASTER" /\ Fetching(Peer(m))
<1> DEFINE b == Peer(m)
<1>0. b \in Machine /\ Peer(b) = m /\ \A k \in Machine : k = m \/ k = b
  BY Peers
<1>1. Both /\ (Talk(m) \/ Talk(b))
  BY <1>0, HasPeer DEF LineInv
<1>2. Talk(m) => cico[m].role = "MASTER" /\ Sending(m)
  BY DEF Talk, Told, Asks, Fetching
<1>3. Talk(b) => cico[b].role = "MASTER" /\ Fetching(b)
  BY <1>0 DEF Talk, Told, Asks, Sending
<1> QED  BY <1>0, <1>1, <1>2, <1>3

\* It receives one, or has received it.
LEMMA Reading ==
    ASSUME LineInv, up, NEW m \in Machine, cico[m].pc \in {"rddata", "stored"}
    PROVE  /\ Both
           /\ \/ cico[m].role = "MASTER" /\ Fetching(m)
              \/ cico[Peer(m)].role = "MASTER" /\ Sending(Peer(m))
<1> DEFINE b == Peer(m)
<1>0. b \in Machine /\ Peer(b) = m /\ \A k \in Machine : k = m \/ k = b
  BY Peers
<1>1. Both /\ (Talk(m) \/ Talk(b))
  BY <1>0, HasPeer DEF LineInv
<1>2. Talk(m) => cico[m].role = "MASTER" /\ Fetching(m)
  BY DEF Talk, Told, Asks, Sending
<1>3. Talk(b) => cico[b].role = "MASTER" /\ Sending(b)
  BY <1>0 DEF Talk, Told, Asks, Fetching
<1> QED  BY <1>0, <1>1, <1>2, <1>3

\* It has sent a file and got the answer.
LEMMA Finishing ==
    ASSUME LineInv, up, NEW m \in Machine, cico[m].pc = "cmpt", wire[m] # <<>>
    PROVE  LET b == Peer(m)
           IN  /\ Both
               /\ \/ /\ cico[m].role = "MASTER" /\ Len(wire[m]) = 1
                     /\ cico[b].role = "SLAVE" /\ cico[b].pc = "top" /\ wire[b] = <<>>
                  \/ cico[m].role = "SLAVE" /\ Asks(b, 1)
<1> DEFINE b == Peer(m)
<1>0. b \in Machine /\ Peer(b) = m /\ \A k \in Machine : k = m \/ k = b
  BY Peers
<1>1. Both /\ (Talk(m) \/ Talk(b))
  BY <1>0, HasPeer DEF LineInv
<1>2. ASSUME Talk(m)
      PROVE  /\ cico[m].role = "MASTER" /\ Len(wire[m]) = 1
             /\ cico[b].role = "SLAVE" /\ cico[b].pc = "top" /\ wire[b] = <<>>
  BY <1>0, <1>2 DEF Talk, Told, Asks, Sending, Fetching
<1>3. ASSUME Talk(b) PROVE cico[m].role = "SLAVE" /\ Asks(b, 1)
  <2>1. ~Told(b) /\ ~Sending(b) /\ ~Fetching(b)
    BY <1>0 DEF Told, Asks, Sending, Fetching
  <2> QED  BY <1>0, <1>3, <2>1 DEF Talk
<1> QED  BY <1>0, <1>1, <1>2, <1>3

-----------------------------------------------------------------------------
(***************************************************************************)
(* The steps of a slave that has got a request.                            *)
(***************************************************************************)

\* The request, whether the line still works or not.
LEMMA GotRequest ==
    ASSUME TypeOK, LineInv, NEW m \in Machine, cico[m].pc = "top", cico[m].role = "SLAVE",
           wire[m] # <<>>
    PROVE  LET x == Head(wire[m])
           IN  /\ x = wire[m][1] /\ x \in Message
               /\ x.job \in Jobs \cup {0} /\ x.t = Kind(x.job)
               /\ x.t = "S" => x.n = Job(x.job).len
               /\ x.t = "R" => x.n % BUFSIZ = 0
               /\ x.t # "H" => x.job \in Jobs /\ x.job # 0
               /\ x.t = "H" => x.job = 0
<1> DEFINE x == wire[m][1]
<1>1. Head(wire[m]) = x /\ x \in Message
  BY Wires, TailIs DEF LineInv
<1>2. Ready(m)
  BY Reads DEF LineInv
<1>3. Asked(x)
  BY <1>2 DEF Ready
<1> HIDE DEF x
<1>4. PICK j \in Jobs \cup {0} : Request(x, j)
  BY <1>3 DEF Asked
<1>5. /\ x.job = j /\ x.t = Kind(j)
      /\ x.t = "S" => x.n = Job(j).len
      /\ x.t = "R" => x.n % BUFSIZ = 0
  BY <1>4 DEF Request
<1>6. j \in Jobs => Kind(j) # "H" /\ j # 0
  BY JobIs
<1>7. j = 0 => Kind(j) = "H"
  BY DEF Kind
<1> QED  BY <1>1, <1>5, <1>6, <1>7 DEF x

LEMMA SlaveAnswers ==
    ASSUME LineInv, up, NEW m \in Machine, cico[m].pc = "top", cico[m].role = "SLAVE",
           wire[m] # <<>>, NEW msg \in Message, NEW c \in Cico, Answers(m, msg, c)
    PROVE  LET a == Peer(m)
           IN  /\ Both /\ cico'[m] = c /\ cico'[a] = cico[a] /\ wire'[m] = <<>>
               /\ wire'[a] # <<>> /\ Len(wire'[a]) = 1 /\ wire'[a][1] = msg
               /\ cico[a].role = "MASTER" /\ cico[a].pc = "reply"
               /\ Request(Head(wire[m]), cico[a].job)
<1> DEFINE a == Peer(m)
<1>0. a \in Machine /\ LineType
  BY Peers DEF LineInv
<1>1. /\ Both /\ cico[a].role = "MASTER" /\ cico[a].pc = "reply" /\ wire[a] = <<>>
      /\ Len(wire[m]) = 1 /\ Request(wire[m][1], cico[a].job)
  BY SlaveGot
<1>2. /\ cico'[a] = cico[a] /\ wire'[m] = Tail(wire[m])
      /\ cico'[m] = c /\ wire'[a] = Append(wire[a], msg)
  BY <1>0, AnswersIs
<1>3. wire[m] \in Seq(Message) /\ wire[a] \in Seq(Message)
  BY <1>0, Wires
<1>4. Head(wire[m]) = wire[m][1] /\ Len(Tail(wire[m])) = 0 /\ Tail(wire[m]) \in Seq(Message)
  BY <1>1, <1>3, TailIs
<1>5. Tail(wire[m]) = <<>>
  BY <1>4, NoMessage
<1>6. Len(wire[a]) = 0
  BY <1>1, NoMessage
<1>7. wire'[a] # <<>> /\ Len(wire'[a]) = 1 /\ wire'[a][1] = msg
  BY <1>2, <1>3, <1>6, AppendIs
<1> QED  BY <1>1, <1>2, <1>4, <1>5, <1>7

LEMMA SlaveHupStep ==
    ASSUME TypeOK, LineInv, NEW m \in Machine, SlaveHup(m)
    PROVE  LineInv'
<1> DEFINE a == Peer(m)
           cN == [cico[m] EXCEPT !.role = "MASTER"]
           cY == [cico[m] EXCEPT !.pc = "hup"]
           N == Msg("H", "N", 0, 0)
           Y == Msg("H", "Y", 0, 0)
<1>0. /\ cico[m].pc = "top" /\ cico[m].role = "SLAVE" /\ wire[m] # <<>> /\ UNCHANGED scenario
      /\ Head(wire[m]).t = "H"
      /\ Answers(m, N, cN) \/ Answers(m, Y, cY)
  BY DEF SlaveHup, Gets
<1>1. a \in Machine /\ Peer(a) = m /\ Fits(cico[m]) /\ cico[m] \in Cico
  BY Peers, Wires DEF LineInv, Fits
<1>2. /\ cN \in Cico /\ Fits(cN) /\ cN.pc = "top" /\ cN.role = "MASTER"
      /\ cY \in Cico /\ Fits(cY) /\ cY.pc = "hup" /\ cY.role = "SLAVE"
  BY <1>0, <1>1 DEF Fits, Cico
<1>3. N \in Message /\ Y \in Message
  BY MsgIs
<1>4. Head(wire[m]).job = 0
  BY <1>0, GotRequest
<1> HIDE DEF cN, cY
<1>5. CASE Answers(m, N, cN)
  <2>1. ASSUME up PROVE Both /\ Talk(a)'
    <3>1. /\ Both /\ cico'[m] = cN /\ cico'[a] = cico[a] /\ wire'[m] = <<>>
          /\ wire'[a] # <<>> /\ Len(wire'[a]) = 1 /\ wire'[a][1] = N
          /\ cico[a].role = "MASTER" /\ cico[a].pc = "reply" /\ cico[a].job = 0
      BY <1>0, <1>2, <1>3, <1>4, <1>5, <2>1, SlaveAnswers DEF Request
    <3> HIDE DEF N
    <3>2. Asks(m, 1)'
      BY <1>1, <1>2, <3>1 DEF Asks
    <3>3. Told(a)'
      BY <1>1, <3>1, <3>2 DEF Told, Msg, N
    <3> QED  BY <3>1, <3>3 DEF Talk
  <2> HIDE DEF N
  <2> QED  BY <1>0, <1>1, <1>2, <1>3, <1>5, <2>1, AnswerStep
<1>6. CASE Answers(m, Y, cY)
  <2>1. ASSUME up PROVE Both /\ Talk(a)'
    <3>1. /\ Both /\ cico'[m] = cY /\ cico'[a] = cico[a] /\ wire'[m] = <<>>
          /\ wire'[a] # <<>> /\ Len(wire'[a]) = 1 /\ wire'[a][1] = Y
          /\ cico[a].role = "MASTER" /\ cico[a].pc = "reply" /\ cico[a].job = 0
      BY <1>0, <1>2, <1>3, <1>4, <1>6, <2>1, SlaveAnswers DEF Request
    <3>2. Answer(wire[a][1], 0, {"Y"})'
      BY <3>1 DEF Answer, Kind, Msg
    <3> HIDE DEF Y
    <3>3. Told(a)'
      BY <1>1, <1>2, <3>1, <3>2 DEF Told
    <3> QED  BY <3>1, <3>3 DEF Talk
  <2> HIDE DEF Y
  <2> QED  BY <1>0, <1>1, <1>2, <1>3, <1>6, <2>1, AnswerStep
<1> QED  BY <1>0, <1>5, <1>6

\* The slave refuses what it is asked for.
LEMMA RefuseStep ==
    ASSUME TypeOK, LineInv, NEW m \in Machine, UNCHANGED scenario,
           cico[m].pc = "top", cico[m].role = "SLAVE", wire[m] # <<>>,
           Head(wire[m]).t # "H", NEW why \in {"N2", "N4"},
           Answers(m, Msg(Head(wire[m]).t, why, Head(wire[m]).job, 0), cico[m])
    PROVE  LineInv'
<1> DEFINE a == Peer(m)
           x == Head(wire[m])
           N == Msg(x.t, why, x.job, 0)
<1>1. a \in Machine /\ Peer(a) = m /\ Fits(cico[m]) /\ cico[m] \in Cico
  BY Peers, Wires DEF LineInv, Fits
<1>2. x \in Message /\ x.job \in Jobs /\ x.job # 0 /\ x.t = Kind(x.job)
  BY GotRequest
<1>3. x.t \in {"H", "S", "R", "D", "C"} /\ x.job \in Nat
      /\ why \in {"", "Y", "N", "N2", "N4", "N5", "N10"}
  BY <1>2 DEF Message
<1> HIDE DEF x
<1>4. N \in Message
  BY <1>3, MsgIs
<1>5. ASSUME up PROVE Both /\ Talk(a)'
  <2>1. /\ Both /\ cico'[m] = cico[m] /\ cico'[a] = cico[a] /\ wire'[m] = <<>>
        /\ wire'[a] # <<>> /\ Len(wire'[a]) = 1 /\ wire'[a][1] = N
        /\ cico[a].role = "MASTER" /\ cico[a].pc = "reply"
        /\ Request(x, cico[a].job)
    BY <1>1, <1>4, <1>5, SlaveAnswers DEF x
  <2>2. cico[a].job = x.job
    BY <2>1 DEF Request
  <2>3. N.t = x.t /\ N.job = x.job /\ N.a = why
    BY DEF Msg
  <2> HIDE DEF N
  <2>4. Answer(wire[a][1], cico[a].job, {"N2", "N4"})'
    <3>1. Kind(cico[a].job)' = x.t
      BY <1>2, <2>1, <2>2 DEF Kind, Job
    <3>2. N.a # "Y" /\ N.a \in {"N2", "N4"}
      BY <2>3
    <3> QED  BY <2>1, <2>2, <2>3, <3>1, <3>2 DEF Answer
  <2>5. Told(a)'
    BY <1>1, <1>2, <2>1, <2>2, <2>4 DEF Told
  <2> QED  BY <2>1, <2>5 DEF Talk
<1> HIDE DEF N
<1> QED  BY <1>1, <1>4, <1>5, AnswerStep DEF x, N

LEMMA SlaveSndfileStep ==
    ASSUME TypeOK, LineInv, NEW m \in Machine, SlaveSndfile(m)
    PROVE  LineInv'
<1> DEFINE a == Peer(m)
           x == Head(wire[m])
           j == x.job
           Y == Msg("S", "Y", j, StartPoint(j))
           c == [cico[m] EXCEPT !.pc = "rddata", !.job = j, !.size = x.n, !.ret = "ok"]
<1>0. /\ cico[m].pc = "top" /\ cico[m].role = "SLAVE" /\ wire[m] # <<>> /\ UNCHANGED scenario
      /\ x.t = "S"
      /\ \/ \E why \in {"N2", "N4"} : Answers(m, Msg("S", why, j, 0), cico[m])
         \/ Answers(m, Y, c)
  BY DEF SlaveSndfile, Gets
<1>1. a \in Machine /\ Peer(a) = m /\ Fits(cico[m]) /\ cico[m] \in Cico
  BY Peers, Wires DEF LineInv, Fits
<1>2. x \in Message /\ j \in Jobs /\ j # 0 /\ x.t = Kind(j)
  BY <1>0, GotRequest
<1>3. j \in Nat /\ x.n \in Nat /\ StartPoint(j) \in Nat /\ StartPoint(j) % BUFSIZ = 0
  BY <1>2, StartIs DEF Message
<1>4. CASE \E why \in {"N2", "N4"} : Answers(m, Msg("S", why, j, 0), cico[m])
  <2>1. PICK why \in {"N2", "N4"} : Answers(m, Msg(x.t, why, j, 0), cico[m])
    BY <1>0, <1>4
  <2> QED  BY <1>0, <2>1, RefuseStep
<1>5. CASE Answers(m, Y, c)
  <2> HIDE DEF x
  <2>1. c \in Cico /\ Fits(c) /\ c.pc = "rddata" /\ c.role = "SLAVE" /\ c.job = j
    BY <1>0, <1>1, <1>2, <1>3 DEF Cico, Fits
  <2>2. Y \in Message
    BY <1>3, MsgIs
  <2>3. Y.t = "S" /\ Y.job = j /\ Y.a = "Y" /\ Y.n = StartPoint(j)
    BY DEF Msg
  <2> HIDE DEF c, Y
  <2>4. ASSUME up PROVE Both /\ Talk(a)'
    <3>1. /\ Both /\ cico'[m] = c /\ cico'[a] = cico[a] /\ wire'[m] = <<>>
          /\ wire'[a] # <<>> /\ Len(wire'[a]) = 1 /\ wire'[a][1] = Y
          /\ cico[a].role = "MASTER" /\ cico[a].pc = "reply"
          /\ Request(x, cico[a].job)
      BY <1>0, <1>5, <2>1, <2>2, <2>4, SlaveAnswers DEF x
    <3>2. cico[a].job = j
      BY <3>1 DEF Request
    <3> HIDE DEF j
    <3>3. Kind(cico[a].job)' = "S"
      BY <1>0, <1>2, <3>1, <3>2 DEF Kind, Job
    <3>4. Answer(wire[a][1], cico[a].job, {"Y"})'
      BY <1>3, <2>3, <3>1, <3>2, <3>3 DEF Answer
    <3>5. Sending(a)'
      BY <1>1, <1>2, <2>1, <3>1, <3>2, <3>3, <3>4 DEF Sending
    <3> QED  BY <3>1, <3>5 DEF Talk
  <2> QED  BY <1>0, <1>1, <1>5, <2>1, <2>2, <2>4, AnswerStep
<1> QED  BY <1>0, <1>4, <1>5

LEMMA SlaveRcvfileStep ==
    ASSUME TypeOK, LineInv, NEW m \in Machine, SlaveRcvfile(m)
    PROVE  LineInv'
<1> DEFINE a == Peer(m)
           x == Head(wire[m])
           j == x.job
           at == IF scenario.restart THEN x.n ELSE 0
           Y == Msg("R", "Y", j, Job(j).len)
           c == [cico[m] EXCEPT !.pc = "wrdata", !.job = j, !.at = at]
<1>0. /\ cico[m].pc = "top" /\ cico[m].role = "SLAVE" /\ wire[m] # <<>> /\ UNCHANGED scenario
      /\ x.t = "R"
      /\ Answers(m, Msg("R", "N2", j, 0), cico[m]) \/ Answers(m, Y, c)
  BY DEF SlaveRcvfile, Gets
<1>1. a \in Machine /\ Peer(a) = m /\ Fits(cico[m]) /\ cico[m] \in Cico
  BY Peers, Wires DEF LineInv, Fits
<1>2. x \in Message /\ j \in Jobs /\ j # 0 /\ x.t = Kind(j) /\ x.n % BUFSIZ = 0
  BY <1>0, GotRequest
<1>3. j \in Nat /\ x.n \in Nat /\ Job(j).len \in Nat
  BY <1>2, JobIs DEF Message, JobType
<1>4. CASE Answers(m, Msg("R", "N2", j, 0), cico[m])
  <2>1. Answers(m, Msg(x.t, "N2", j, 0), cico[m])
    BY <1>0, <1>4
  <2> QED  BY <1>0, <2>1, RefuseStep
<1>5. CASE Answers(m, Y, c)
  <2> HIDE DEF x
  <2>0. at \in Nat /\ at % BUFSIZ = 0
    BY <1>2, <1>3, BufAssumption
  <2> HIDE DEF at
  <2>1. c \in Cico /\ Fits(c) /\ c.pc = "wrdata" /\ c.role = "SLAVE" /\ c.job = j
    BY <1>0, <1>1, <1>2, <1>3, <2>0 DEF Cico, Fits
  <2>2. Y \in Message
    BY <1>3, MsgIs
  <2>3. Y.t = "R" /\ Y.job = j /\ Y.a = "Y" /\ Y.n = Job(j).len
    BY DEF Msg
  <2> HIDE DEF c, Y
  <2>4. ASSUME up PROVE Both /\ Talk(a)'
    <3>1. /\ Both /\ cico'[m] = c /\ cico'[a] = cico[a] /\ wire'[m] = <<>>
          /\ wire'[a] # <<>> /\ Len(wire'[a]) = 1 /\ wire'[a][1] = Y
          /\ cico[a].role = "MASTER" /\ cico[a].pc = "reply"
          /\ Request(x, cico[a].job)
      BY <1>0, <1>5, <2>1, <2>2, <2>4, SlaveAnswers DEF x
    <3>2. cico[a].job = j
      BY <3>1 DEF Request
    <3> HIDE DEF j
    <3>3. Kind(cico[a].job)' = "R"
      BY <1>0, <1>2, <3>1, <3>2 DEF Kind, Job
    <3>4. Answer(wire[a][1], cico[a].job, {"Y"})'
      BY <1>0, <2>3, <3>1, <3>2, <3>3 DEF Answer, Job
    <3>5. Transfer(wire[a], 2, cico[m].pc = "cmpt")'
      BY <2>1, <3>1 DEF Transfer, Blocks
    <3>6. Fetching(a)'
      BY <1>1, <1>2, <2>1, <3>1, <3>2, <3>3, <3>4, <3>5 DEF Fetching
    <3> QED  BY <3>1, <3>6 DEF Talk
  <2> QED  BY <1>0, <1>1, <1>5, <2>1, <2>2, <2>4, AnswerStep
<1> QED  BY <1>0, <1>4, <1>5

-----------------------------------------------------------------------------
(***************************************************************************)
(* The steps of a master that has got an answer.                           *)
(***************************************************************************)

LEMMA GotAnswer ==
    ASSUME TypeOK, LineInv, NEW m \in Machine, cico[m].pc = "reply", wire[m] # <<>>
    PROVE  LET x == Head(wire[m])
               j == cico[m].job
           IN  /\ x = wire[m][1] /\ x \in Message /\ Reply(m)
               /\ x.t = Kind(j) /\ x.job = j /\ j \in Jobs \cup {0}
               /\ x.t = "S" /\ x.a = "Y" => x.n % BUFSIZ = 0
               /\ x.t = "R" /\ x.a = "Y" => x.n = Job(j).len
               /\ x.t # "H" <=> j # 0
<1> DEFINE x == wire[m][1]
           j == cico[m].job
<1>1. Head(wire[m]) = x /\ x \in Message /\ j \in Jobs \cup {0}
  BY Wires, TailIs DEF LineInv, Fits
<1>2. Ready(m)
  BY Reads DEF LineInv
<1>3. Reply(m)
  BY <1>2 DEF Ready
<1>4. Answer(x, j, {"Y", "N", "N2", "N4"})
  BY <1>3 DEF Reply
<1> HIDE DEF x, j
<1>5. j \in Jobs => Kind(j) # "H" /\ j # 0
  BY JobIs
<1>6. j = 0 => Kind(j) = "H"
  BY DEF Kind
<1> QED  BY <1>1, <1>3, <1>4, <1>5, <1>6 DEF Answer, x, j

\* The only message there was has been taken.
LEMMA LastTaken ==
    ASSUME NEW w \in Seq(Message), Len(w) = 1
    PROVE  Tail(w) = <<>> /\ w # <<>>
<1>1. w # <<>>
  BY SomeMessage
<1>2. Tail(w) \in Seq(Message) /\ Len(Tail(w)) = 0
  BY <1>1, TailIs
<1> QED  BY <1>1, <1>2, NoMessage

\* The master goes on to its next job.
LEMMA RefusedStep ==
    ASSUME TypeOK, LineInv, NEW m \in Machine, UNCHANGED scenario,
           cico[m].pc = "reply", wire[m] # <<>>, Head(wire[m]).t # "H", Head(wire[m]).a # "Y",
           Takes(m, [cico[m] EXCEPT !.pc = "top"])
    PROVE  LineInv'
<1> DEFINE b == Peer(m)
           c == [cico[m] EXCEPT !.pc = "top"]
           x == wire[m][1]
<1>1. b \in Machine /\ Peer(b) = m /\ Fits(cico[m]) /\ cico[m] \in Cico /\ LineType
      /\ wire[m] \in Seq(Message)
  BY Peers, Wires DEF LineInv, Fits
<1>2. c \in Cico /\ Fits(c) /\ c.pc = "top" /\ c.role = cico[m].role
  BY <1>1 DEF Cico, Fits
<1>3. Head(wire[m]) = x /\ Reply(m) /\ cico[m].job # 0 /\ x.t # "H" /\ x.a # "Y"
  BY GotAnswer
<1>4. Len(wire[m]) = 1
  BY <1>3 DEF Reply
<1> HIDE DEF c
<1>5. /\ cico'[b] = cico[b] /\ wire'[b] = wire[b] /\ cico'[m] = c /\ wire'[m] = <<>>
  BY <1>1, <1>2, <1>4, TakesIs, LastTaken DEF c
<1>6. ASSUME up PROVE Both /\ Talk(m)'
  <2>1. Both /\ cico[m].role = "MASTER" /\ (Told(m) \/ Sending(m) \/ Fetching(m))
    BY <1>6, MasterGot
  <2>2. ~Sending(m) /\ ~Fetching(m)
    BY <1>3 DEF Sending, Fetching, Answer
  <2>3. cico[b].pc = "top" /\ cico[b].role = "SLAVE" /\ wire[b] = <<>>
    BY <1>3, <2>1, <2>2 DEF Told
  <2>4. Asks(m, 0)'
    BY <1>2, <1>5, <2>1, <2>3 DEF Asks
  <2> QED  BY <1>2, <1>5, <2>1, <2>3, <2>4 DEF Talk
<1>7. Ready(m)'
  BY <1>5 DEF Ready
<1> QED  BY <1>2, <1>6, <1>7, TakeStep DEF c

LEMMA SndfileAnsweredStep ==
    ASSUME TypeOK, LineInv, NEW m \in Machine, SndfileAnswered(m)
    PROVE  LineInv'
<1> DEFINE b == Peer(m)
           x == Head(wire[m])
           c == [cico[m] EXCEPT !.pc = "wrdata", !.at = x.n]
<1>0. /\ cico[m].pc = "reply" /\ wire[m] # <<>> /\ UNCHANGED scenario /\ x.t = "S"
      /\ \/ x.a = "Y" /\ Takes(m, c)
         \/ x.a = "N2" /\ Takes(m, [cico[m] EXCEPT !.pc = "top"])
         \/ x.a = "N4" /\ Ends(m)
  BY DEF SndfileAnswered, Gets
<1>1. CASE x.a = "Y" /\ Takes(m, c)
  <2>1. b \in Machine /\ Peer(b) = m /\ Fits(cico[m]) /\ cico[m] \in Cico /\ LineType
        /\ wire[m] \in Seq(Message)
    BY Peers, Wires DEF LineInv, Fits
  <2>2. /\ x = wire[m][1] /\ Reply(m) /\ cico[m].job # 0 /\ x.n % BUFSIZ = 0 /\ x \in Message
        /\ Kind(cico[m].job) = "S"
    BY <1>0, <1>1, GotAnswer
  <2>3. x.n \in Nat
    BY <2>2 DEF Message
  <2>4. Len(wire[m]) = 1
    BY <1>0, <2>2 DEF Reply
  <2> HIDE DEF x
  <2>5. c \in Cico /\ Fits(c) /\ c.pc = "wrdata" /\ c.role = cico[m].role /\ c.job = cico[m].job
    BY <2>1, <2>2, <2>3 DEF Cico, Fits
  <2> HIDE DEF c
  <2>6. /\ cico'[b] = cico[b] /\ wire'[b] = wire[b] /\ cico'[m] = c /\ wire'[m] = <<>>
    BY <1>1, <2>1, <2>4, <2>5, TakesIs, LastTaken
  <2>7. ASSUME up PROVE Both /\ Talk(m)'
    <3>1. Both /\ cico[m].role = "MASTER" /\ (Told(m) \/ Sending(m) \/ Fetching(m))
      BY <1>0, <2>7, MasterGot
    <3>2. ~Told(m) /\ ~Fetching(m)
      BY <1>0, <1>1, <2>2 DEF Told, Fetching, Answer
    <3>3. /\ cico[b].pc = "rddata" /\ cico[b].role = "SLAVE" /\ wire[b] = <<>>
          /\ cico[b].job = cico[m].job
      BY <1>0, <3>1, <3>2 DEF Sending
    <3>4. Transfer(wire[b], 1, cico[m].pc = "cmpt")'
      BY <2>5, <2>6, <3>3 DEF Transfer, Blocks
    <3>5. Sending(m)'
      BY <2>2, <2>5, <2>6, <3>1, <3>3, <3>4 DEF Sending
    <3> QED  BY <2>5, <2>6, <3>1, <3>5 DEF Talk
  <2>8. Ready(m)'
    BY <2>6 DEF Ready
  <2> QED  BY <1>0, <1>1, <2>5, <2>7, <2>8, TakeStep
<1>2. CASE x.a = "N2" /\ Takes(m, [cico[m] EXCEPT !.pc = "top"])
  BY <1>0, <1>2, RefusedStep
<1>3. CASE Ends(m)
  BY <1>0, <1>3, EndsStep
<1> QED  BY <1>0, <1>1, <1>2, <1>3

LEMMA RcvfileAnsweredStep ==
    ASSUME TypeOK, LineInv, NEW m \in Machine, RcvfileAnswered(m)
    PROVE  LineInv'
<1> DEFINE b == Peer(m)
           x == Head(wire[m])
           c == [cico[m] EXCEPT !.pc = "rddata", !.size = x.n, !.ret = "ok"]
<1>0. /\ cico[m].pc = "reply" /\ wire[m] # <<>> /\ UNCHANGED scenario /\ x.t = "R"
      /\ \/ x.a = "Y" /\ Takes(m, c)
         \/ x.a # "Y" /\ Takes(m, [cico[m] EXCEPT !.pc = "top"])
  BY DEF RcvfileAnswered, Gets
<1>1. CASE x.a = "Y" /\ Takes(m, c)
  <2>1. b \in Machine /\ Peer(b) = m /\ Fits(cico[m]) /\ cico[m] \in Cico /\ LineType
        /\ wire[m] \in Seq(Message)
    BY Peers, Wires DEF LineInv, Fits
  <2>2. /\ x = wire[m][1] /\ Reply(m) /\ cico[m].job # 0 /\ x \in Message
        /\ Kind(cico[m].job) = "R"
    BY <1>0, <1>1, GotAnswer
  <2>3. x.n \in Nat
    BY <2>2 DEF Message
  <2>4. Tail(wire[m]) = <<>> \/ Blocks(Tail(wire[m]), 1)
    <3>1. Len(wire[m]) = 1 \/ Blocks(wire[m], 2)
      BY <1>0, <2>2 DEF Reply
    <3> QED  BY <1>0, <2>1, <3>1, LastTaken, AnswerTaken
  <2> HIDE DEF x
  <2>5. c \in Cico /\ Fits(c) /\ c.pc = "rddata" /\ c.role = cico[m].role /\ c.job = cico[m].job
    BY <2>1, <2>2, <2>3 DEF Cico, Fits
  <2> HIDE DEF c
  <2>6. cico'[b] = cico[b] /\ wire'[b] = wire[b] /\ cico'[m] = c /\ wire'[m] = Tail(wire[m])
    BY <1>0, <1>1, <2>1, <2>5, TakesIs
  <2>7. ASSUME up PROVE Both /\ Talk(m)'
    <3>1. Both /\ cico[m].role = "MASTER" /\ (Told(m) \/ Sending(m) \/ Fetching(m))
      BY <1>0, <2>7, MasterGot
    <3>2. ~Told(m) /\ ~Sending(m)
      BY <1>0, <1>1, <2>2 DEF Told, Sending, Answer
    <3> DEFINE shut == cico[b].pc = "cmpt"
    <3>3. /\ cico[b].pc \in {"wrdata", "cmpt"} /\ cico[b].role = "SLAVE" /\ wire[b] = <<>>
          /\ cico[b].job = cico[m].job /\ Transfer(wire[m], 2, shut)
      BY <1>0, <3>1, <3>2 DEF Fetching
    <3>4. Transfer(wire'[m], 1, shut)
      BY <1>0, <2>1, <2>6, <3>3, AnswerTaken
    <3>5. Transfer(wire[m], 1, cico[b].pc = "cmpt")'
      BY <2>6, <3>4 DEF Transfer, Blocks, Short
    <3>6. Fetching(m)'
      BY <2>2, <2>5, <2>6, <3>1, <3>3, <3>5 DEF Fetching
    <3> QED  BY <2>5, <2>6, <3>1, <3>6 DEF Talk
  <2>8. Ready(m)'
    BY <2>4, <2>5, <2>6 DEF Ready, Blocks, Short
  <2> QED  BY <1>0, <1>1, <2>5, <2>7, <2>8, TakeStep
<1>2. CASE x.a # "Y" /\ Takes(m, [cico[m] EXCEPT !.pc = "top"])
  BY <1>0, <1>2, RefusedStep
<1> QED  BY <1>0, <1>1, <1>2

\* The master that asks at m goes on asking when the slave has taken the
\* message in front.
LEMMA AsksTaken ==
    ASSUME LineType, NEW a \in Machine, UNCHANGED scenario, Asks(a, 1),
           cico'[a] = cico[a], wire'[a] = wire[a], wire'[Peer(a)] = Tail(wire[Peer(a)])
    PROVE  Asks(a, 0)'
<1> DEFINE v == wire[Peer(a)]
           w == wire'[Peer(a)]
<1>1. v \in Seq(Message) /\ Len(v) \in Nat
  BY Peers, Wires
<1>2. v # <<>>
  <2>1. Len(v) = 1 \/ Len(v) = 1 + 1
    BY DEF Asks
  <2> HIDE DEF v
  <2>2. Len(v) # 0
    BY <2>1
  <2> QED  BY <2>2, SomeMessage
<1>3. Len(w) = Len(v) - 1 /\ \A i \in 1..(Len(v) - 1) : w[i] = v[i + 1]
  BY <1>1, <1>2, TailIs
<1>4. CASE cico[a].pc = "top" /\ Len(v) = 1
  BY <1>3, <1>4 DEF Asks
<1>5. CASE cico[a].pc = "reply" /\ Len(v) = 2 /\ Request(v[2], cico[a].job)
  <2>1. Len(w) = 1 /\ w[1] = v[2]
    BY <1>3, <1>5
  <2>2. Request(w[1], cico[a].job)
    BY <1>5, <2>1
  <2>3. Request(wire[Peer(a)][1], cico[a].job)'
    BY <2>2 DEF Request, Kind, Job
  <2> QED  BY <1>5, <2>1, <2>3 DEF Asks
<1> QED  BY <1>4, <1>5 DEF Asks

\* One end answers "HY" and returns.
LEMMA QuitStep ==
    ASSUME TypeOK, LineInv, NEW m \in Machine, UNCHANGED scenario,
           cico[m].pc \in {"reply", "hup"}, wire[m] # <<>>,
           Head(wire[m]).t = "H", Head(wire[m]).a = "Y",
           Answers(m, Msg("H", "Y", 0, 0), None)
    PROVE  LineInv'
<1> DEFINE b == Peer(m)
           Y == Msg("H", "Y", 0, 0)
<1>0. b \in Machine /\ Peer(b) = m /\ LineType /\ (\A k \in Machine : k = m \/ k = b)
      /\ up \in BOOLEAN
  BY Peers DEF LineInv, LineType
<1>1. Y \in Message
  BY MsgIs
<1>2. Y.t = "H" /\ Y.a = "Y"
  BY DEF Msg
<1> HIDE DEF Y
<1>3. /\ up' = up /\ cico' \in [Machine -> Cico] /\ wire' \in [Machine -> Seq(Message)]
      /\ cico'[b] = cico[b] /\ cico'[m] = None
      /\ up => wire'[b] = Append(wire[b], Y)
      /\ ~up => wire'[b] = wire[b]
  <2>1. None \in Cico
    BY NoneFits DEF Fits
  <2> QED  BY <1>0, <1>1, <2>1, AnswersIs DEF Y
<1>4. CASE ~up
  BY <1>0, <1>3, <1>4, EndStep
<1>5. CASE up
  <2>1. LineType'
    <3>1. Fits(cico[m])' /\ Fits(cico[b])'
      BY <1>0, <1>3, NoneFits, Wires DEF Fits, Jobs
    <3>2. \A k \in Machine : Fits(cico[k])'
      BY <1>0, <3>1
    <3> QED  BY <1>0, <1>3, <3>2 DEF LineType, Fits
  <2>2. cico'[m].pc = "none"
    BY <1>3, NoneFits
  <2>3. \/ cico[b].pc = "none"
        \/ cico[b].pc = "hup" /\ wire[b] = <<>>
    <3>1. CASE cico[m].pc = "reply"
      <4>1. Told(m) \/ Sending(m) \/ Fetching(m)
        BY <1>5, <3>1, MasterGot
      <4>2. /\ Head(wire[m]) = wire[m][1] /\ cico[m].job = 0
        BY <3>1, GotAnswer
      <4>3. ~(wire[m][1] = Msg("H", "N", 0, 0))
        BY <4>2 DEF Msg
      <4> QED  BY <4>1, <4>2, <4>3 DEF Told, Sending, Fetching
    <3>2. CASE cico[m].pc = "hup"
      <4>1. ~Talk(m)
        BY <3>2 DEF Talk, Asks, Told, Sending, Fetching
      <4>2. ~Talk(b)
        BY <1>0, <3>2 DEF Talk, Asks, Told, Sending, Fetching
      <4>3. ~Both
        BY <1>0, <1>5, <4>1, <4>2 DEF LineInv, Together
      <4> QED  BY <1>0, <3>2, <4>3 DEF Both
    <3> QED  BY <3>1, <3>2
  <2>4. ASSUME cico[b].pc # "none"
        PROVE  cico'[b].pc = "hup" /\ Ready(b)'
    <3>1. wire[b] = <<>> /\ wire[b] \in Seq(Message) /\ cico[b].pc = "hup"
      BY <1>0, <2>3, <2>4, Wires
    <3>2. Len(wire[b]) = 0
      BY <3>1, NoMessage
    <3>3. /\ Len(Append(wire[b], Y)) = Len(wire[b]) + 1
          /\ Append(wire[b], Y)[Len(wire[b]) + 1] = Y
      BY <1>1, <3>1, AppendIs
    <3>4. Len(wire'[b]) = 1 /\ wire'[b][1] = Y
      <4>1. wire'[b] = Append(wire[b], Y)
        BY <1>3, <1>5
      <4> QED  BY <3>2, <3>3, <4>1
    <3> QED  BY <1>2, <1>3, <3>1, <3>4 DEF Ready
  <2>5. Alone'
    BY <1>0, <1>3, <2>2, <2>4 DEF Alone
  <2>6. Together'
    BY <2>2 DEF Together, Both
  <2> QED  BY <2>1, <2>5, <2>6 DEF LineInv
<1> QED  BY <1>0, <1>4, <1>5

LEMMA HupAnsweredStep ==
    ASSUME TypeOK, LineInv, NEW m \in Machine, HupAnswered(m)
    PROVE  LineInv'
<1> DEFINE b == Peer(m)
           c == [cico[m] EXCEPT !.pc = "top", !.role = "SLAVE"]
<1>0. /\ cico[m].pc \in {"reply", "hup"} /\ wire[m] # <<>> /\ Head(wire[m]).t = "H"
      /\ UNCHANGED scenario
      /\ \/ Head(wire[m]).a = "Y" /\ Answers(m, Msg("H", "Y", 0, 0), None)
         \/ Head(wire[m]).a # "Y" /\ Takes(m, c)
  BY DEF HupAnswered, Gets
<1>1. CASE Head(wire[m]).a = "Y" /\ Answers(m, Msg("H", "Y", 0, 0), None)
  BY <1>0, <1>1, QuitStep
<1>2. CASE Head(wire[m]).a # "Y" /\ Takes(m, c)
  <2>1. /\ b \in Machine /\ Peer(b) = m /\ Fits(cico[m]) /\ cico[m] \in Cico /\ LineType
        /\ wire[m] \in Seq(Message) /\ Head(wire[m]) = wire[m][1]
    BY <1>0, Peers, Wires, TailIs DEF LineInv, Fits
  <2>2. c \in Cico /\ Fits(c) /\ c.pc = "top" /\ c.role = "SLAVE"
    BY <2>1 DEF Cico, Fits
  <2> HIDE DEF c
  <2>3. cico'[b] = cico[b] /\ wire'[b] = wire[b] /\ cico'[m] = c /\ wire'[m] = Tail(wire[m])
    BY <1>0, <1>2, <2>1, <2>2, TakesIs
  <2>4. cico[m].pc = "reply"
    <3>1. Ready(m)
      BY <1>0, Reads DEF LineInv
    <3> QED  BY <1>0, <1>2, <2>1, <3>1 DEF Ready
  <2>5. cico[m].job = 0 /\ Reply(m)
    BY <1>0, <2>4, GotAnswer
  <2>6. ASSUME up PROVE Both /\ Talk(b)'
    <3>1. Both /\ (Told(m) \/ Sending(m) \/ Fetching(m))
      BY <1>0, <2>4, <2>6, MasterGot
    <3>2. Asks(b, 1)
      BY <1>2, <2>1, <2>5, <3>1 DEF Told, Sending, Fetching, Answer
    <3>3. Asks(b, 0)'
      BY <1>0, <2>1, <2>3, <3>2, AsksTaken
    <3> QED  BY <2>1, <2>2, <2>3, <3>1, <3>2, <3>3 DEF Talk, Asks
  <2>7. Ready(m)'
    <3>1. CASE Len(wire[m]) = 1
      BY <2>1, <2>3, <3>1, LastTaken DEF Ready
    <3>2. CASE Len(wire[m]) = 2 /\ Asked(wire[m][2])
      <4>1. Len(wire'[m]) = 1 /\ wire'[m][1] = wire[m][2]
        BY <1>0, <2>1, <2>3, <3>2, TailIs
      <4>2. Asked(wire[m][1])'
        BY <1>0, <3>2, <4>1 DEF Asked, Request, Kind, Job, Jobs
      <4> QED  BY <2>2, <2>3, <4>1, <4>2 DEF Ready
    <3> QED  BY <1>0, <2>1, <2>5, <3>1, <3>2 DEF Reply
  <2> QED  BY <1>0, <1>2, <2>1, <2>2, <2>6, <2>7, TakeStep
<1> QED  BY <1>0, <1>1, <1>2

-----------------------------------------------------------------------------
(***************************************************************************)
(* The steps of a transfer.                                                *)
(***************************************************************************)

LEMMA WholeIs ==
    ASSUME TypeOK, NEW j \in Jobs
    PROVE  Whole(j) \in Seq(Nat) /\ Len(Whole(j)) = Job(j).len /\ Job(j).len \in Nat
<1>1. Job(j).len \in Nat
  BY JobIs DEF JobType
<1> QED  BY <1>1 DEF Whole

\* A block of a file is a sequence.
LEMMA BlockIs ==
    ASSUME NEW s \in Seq(Nat), NEW at \in Nat, NEW n, n = Len(s)
    PROVE  SubSeq(s, at + 1, Min({at + BUFSIZ, n})) \in Seq(Nat)
<1> DEFINE to == Min({at + BUFSIZ, n})
<1>1. n \in Nat /\ at + BUFSIZ \in Nat
  BY BufAssumption
<1>2. to \in Nat /\ to <= Len(s)
  <2>1. CASE at + BUFSIZ <= n
    BY <1>1, <2>1 DEF Min
  <2>2. CASE at + BUFSIZ > n
    BY <1>1, <2>2 DEF Min
  <2> QED  BY <1>1, <2>1, <2>2
<1> HIDE DEF to
<1>3. SubSeq(s, at + 1, to) \in Seq(Nat)
  BY <1>2
<1> QED  BY <1>3 DEF to

LEMMA WrdataStep ==
    ASSUME TypeOK, LineInv, NEW m \in Machine, Wrdata(m)
    PROVE  LineInv'
<1> DEFINE b == Peer(m)
           d == SubSeq(Whole(cico[m].job), cico[m].at + 1,
                       Min({cico[m].at + BUFSIZ, Job(cico[m].job).len}))
           x == Block(d)
           c == IF Len(d) < BUFSIZ THEN [cico[m] EXCEPT !.pc = "cmpt"]
                ELSE [cico[m] EXCEPT !.at = @ + BUFSIZ]
<1>0. cico[m].pc = "wrdata" /\ UNCHANGED scenario /\ Sends(m, x, c)
  BY DEF Wrdata
<1>1. /\ b \in Machine /\ Peer(b) = m /\ Fits(cico[m]) /\ cico[m] \in Cico /\ LineType
      /\ wire[m] \in Seq(Message) /\ wire[b] \in Seq(Message)
  BY Peers, Wires DEF LineInv, Fits
<1>2. cico[m].at \in Nat /\ cico[m].job \in Jobs /\ cico[m].job # 0 /\ cico[m].at % BUFSIZ = 0
  BY <1>0, <1>1 DEF Fits, Cico
<1>3. d \in Seq(Nat) /\ x \in Message /\ x.t = "D" /\ x.data = d
  <2>1. Whole(cico[m].job) \in Seq(Nat) /\ Job(cico[m].job).len = Len(Whole(cico[m].job))
    BY <1>2, WholeIs
  <2>2. d \in Seq(Nat)
    BY <1>2, <2>1, BlockIs
  <2> HIDE DEF d
  <2> QED  BY <2>2 DEF Block, Message
<1> HIDE DEF d
<1>4. /\ c \in Cico /\ Fits(c) /\ c.role = cico[m].role /\ c.job = cico[m].job
      /\ Short(x) => c.pc = "cmpt"
      /\ ~Short(x) => c.pc = "wrdata"
  <2>1. CASE Len(d) < BUFSIZ
    <3>1. Short(x)
      BY <1>3, <2>1 DEF Short
    <3>2. c = [cico[m] EXCEPT !.pc = "cmpt"]
      BY <2>1
    <3> QED  BY <1>1, <1>2, <3>1, <3>2 DEF Fits, Cico
  <2>2. CASE ~(Len(d) < BUFSIZ)
    <3>1. ~Short(x)
      BY <1>3, <2>2 DEF Short
    <3>2. cico[m].at + BUFSIZ \in Nat /\ (cico[m].at + BUFSIZ) % BUFSIZ = 0
      BY <1>2, NextBoundary
    <3>3. c = [cico[m] EXCEPT !.at = cico[m].at + BUFSIZ]
      BY <2>2
    <3> QED  BY <1>0, <1>1, <1>2, <3>1, <3>2, <3>3 DEF Fits, Cico
  <2> QED  BY <2>1, <2>2
<1> HIDE DEF c, x
<1>5. c.pc \in {"wrdata", "cmpt"}
  BY <1>4
<1>6. ASSUME up PROVE Both /\ (Talk(m)' \/ Talk(b)')
  <2>1. /\ cico'[b] = cico[b] /\ wire'[m] = wire[m]
        /\ cico'[m] = c /\ wire'[b] = Append(wire[b], x)
    BY <1>0, <1>1, <1>3, <1>4, <1>6, SendsIs
  <2>2. /\ Both
        /\ \/ cico[m].role = "MASTER" /\ Sending(m)
           \/ cico[b].role = "MASTER" /\ Fetching(b)
    BY <1>0, <1>6, Writing
  <2>3. \A k \in {1, 2} : Transfer(wire[b], k, FALSE) => Transfer(wire'[b], k, c.pc = "cmpt")
    <3> TAKE k \in {1, 2}
    <3> HAVE Transfer(wire[b], k, FALSE)
    <3>1. /\ Short(x) => Transfer(wire'[b], k, TRUE)
          /\ ~Short(x) => Transfer(wire'[b], k, FALSE)
      BY <1>1, <1>3, <2>1, BlockSent
    <3>2. CASE Short(x)
      <4>1. (c.pc = "cmpt") = TRUE
        BY <1>4, <3>2
      <4> QED  BY <3>1, <3>2, <4>1
    <3>3. CASE ~Short(x)
      <4>1. (c.pc = "cmpt") = FALSE
        BY <1>4, <3>3
      <4> QED  BY <3>1, <3>3, <4>1
    <3> QED  BY <3>2, <3>3
  <2>4. (cico[m].pc = "cmpt") = FALSE
    BY <1>0
  <2>5. CASE cico[m].role = "MASTER" /\ Sending(m)
    <3>1. /\ cico[b].job = cico[m].job /\ cico[b].role = "SLAVE" /\ cico[b].pc = "rddata"
          /\ wire[m] = <<>> /\ Transfer(wire[b], 1, FALSE)
      BY <1>0, <2>4, <2>5 DEF Sending
    <3>2. Transfer(wire'[b], 1, c.pc = "cmpt")
      BY <2>3, <3>1
    <3>3. Transfer(wire[b], 1, cico[m].pc = "cmpt")'
      BY <2>1, <3>2 DEF Transfer, Blocks, Short
    <3>4. Sending(m)'
      BY <1>2, <1>4, <1>5, <2>1, <3>1, <3>3 DEF Sending
    <3> QED  BY <1>4, <2>1, <2>2, <2>5, <3>4 DEF Talk
  <2>6. CASE cico[b].role = "MASTER" /\ Fetching(b)
    <3>1. /\ cico[b].job = cico[m].job /\ cico[m].role = "SLAVE" /\ wire[m] = <<>>
      BY <1>0, <1>1, <2>6 DEF Fetching
    <3>2. CASE /\ cico[b].pc = "reply" /\ wire[b] # <<>>
               /\ Answer(wire[b][1], cico[b].job, {"Y"})
               /\ Kind(cico[b].job) = "R" /\ Transfer(wire[b], 2, FALSE)
      <4>1. Transfer(wire'[b], 2, c.pc = "cmpt")
        BY <2>3, <3>2
      <4>2. Transfer(wire[b], 2, cico[m].pc = "cmpt")'
        BY <2>1, <4>1 DEF Transfer, Blocks, Short
      <4>3. wire'[b] # <<>> /\ wire'[b][1] = wire[b][1]
        <5>1. Len(wire[b]) > 0 /\ Len(wire[b]) \in Nat
          BY <1>1, <3>2, TailIs, NoMessage
        <5> QED  BY <1>1, <1>3, <2>1, <5>1, AppendIs
      <4>4. Answer(wire[b][1], cico[b].job, {"Y"})' /\ Kind(cico[b].job)' = "R"
        BY <1>0, <2>1, <3>2, <4>3 DEF Answer, Kind, Job
      <4>5. Fetching(b)'
        BY <1>1, <1>2, <1>4, <1>5, <2>1, <3>1, <3>2, <4>2, <4>3, <4>4 DEF Fetching
      <4> QED  BY <2>1, <2>2, <2>6, <4>5 DEF Talk
    <3>3. CASE cico[b].pc = "rddata" /\ Transfer(wire[b], 1, FALSE)
      <4>1. Transfer(wire'[b], 1, c.pc = "cmpt")
        BY <2>3, <3>3
      <4>2. Transfer(wire[b], 1, cico[m].pc = "cmpt")'
        BY <2>1, <4>1 DEF Transfer, Blocks, Short
      <4>3. Fetching(b)'
        BY <1>1, <1>2, <1>4, <1>5, <2>1, <3>1, <3>3, <4>2 DEF Fetching
      <4> QED  BY <2>1, <2>2, <2>6, <4>3 DEF Talk
    <3> QED  BY <1>0, <1>1, <2>4, <2>6, <3>2, <3>3 DEF Fetching
  <2> QED  BY <2>2, <2>5, <2>6
<1> QED  BY <1>0, <1>1, <1>3, <1>4, <1>5, <1>6, SendStep

\* What Rddata does to the line, whatever becomes of the block.
LEMMA RddataStep ==
    ASSUME TypeOK, LineInv, NEW m \in Machine, Rddata(m)
    PROVE  LineInv'
<1> DEFINE b == Peer(m)
           x == Head(wire[m])
           c(r) == [cico[m] EXCEPT !.ret = r, !.pc = IF Len(x.data) < BUFSIZ THEN "stored" ELSE @]
<1>0. /\ cico[m].pc = "rddata" /\ wire[m] # <<>> /\ UNCHANGED scenario
      /\ \E r \in {"ok", "fail", "big", cico[m].ret} : Takes(m, c(r))
  BY DEF Rddata, Gets
<1>1. /\ b \in Machine /\ Peer(b) = m /\ Fits(cico[m]) /\ cico[m] \in Cico /\ LineType
      /\ wire[m] \in Seq(Message) /\ x = wire[m][1]
  BY <1>0, Peers, Wires, TailIs DEF LineInv, Fits
<1>2. cico[m].ret \in {"ok", "fail", "big"} /\ cico[m].job # 0
  BY <1>0, <1>1 DEF Cico, Fits
<1>3. PICK r \in {"ok", "fail", "big"} : Takes(m, c(r))
  BY <1>0, <1>2
<1> HIDE DEF x
<1>4. /\ c(r) \in Cico /\ Fits(c(r)) /\ c(r).role = cico[m].role /\ c(r).job = cico[m].job
      /\ Short(x) => c(r).pc = "stored"
      /\ ~Short(x) => c(r).pc = "rddata"
  <2>1. CASE Len(x.data) < BUFSIZ
    <3>1. c(r) = [cico[m] EXCEPT !.ret = r, !.pc = "stored"]
      BY <2>1
    <3> QED  BY <1>1, <1>2, <2>1, <3>1 DEF Cico, Fits, Short
  <2>2. CASE ~(Len(x.data) < BUFSIZ)
    <3>1. c(r) = [cico[m] EXCEPT !.ret = r, !.pc = "rddata"]
      BY <1>0, <2>2
    <3> QED  BY <1>1, <1>2, <2>2, <3>1 DEF Cico, Fits, Short
  <2> QED  BY <2>1, <2>2
<1> DEFINE e == c(r)
<1> HIDE DEF c, e
<1>5. /\ e \in Cico /\ Fits(e) /\ e.role = cico[m].role /\ e.job = cico[m].job
      /\ Short(x) => e.pc = "stored"
      /\ ~Short(x) => e.pc = "rddata"
  BY <1>4 DEF e
<1>6. Takes(m, e)
  BY <1>3 DEF e
<1>7. cico'[b] = cico[b] /\ wire'[b] = wire[b] /\ cico'[m] = e /\ wire'[m] = Tail(wire[m])
  BY <1>0, <1>1, <1>5, <1>6, TakesIs
<1>8. Blocks(wire[m], 1)
  <2>1. Ready(m)
    BY <1>0, Reads DEF LineInv
  <2> QED  BY <1>0, <2>1 DEF Ready
<1>9. /\ Short(x) => wire'[m] = <<>>
      /\ Blocks(wire'[m], 1)
      /\ \A shut \in BOOLEAN : Transfer(wire[m], 1, shut) =>
            (Short(x) => shut) /\ (~Short(x) => Transfer(wire'[m], 1, shut))
  BY <1>0, <1>1, <1>7, <1>8, BlockTaken
<1>10. ASSUME up PROVE Both /\ (Talk(m)' \/ Talk(b)')
  <2>1. /\ Both
        /\ \/ cico[m].role = "MASTER" /\ Fetching(m)
           \/ cico[b].role = "MASTER" /\ Sending(b)
    BY <1>0, <1>10, Reading
  <2> DEFINE shut == cico[b].pc = "cmpt"
  <2>2. CASE cico[m].role = "MASTER" /\ Fetching(m)
    <3>1. /\ cico[b].job = cico[m].job /\ cico[b].role = "SLAVE" /\ wire[b] = <<>>
          /\ cico[b].pc \in {"wrdata", "cmpt"} /\ Transfer(wire[m], 1, shut)
      BY <1>0, <2>2 DEF Fetching
    <3>2. CASE Short(x)
      <4>1. cico[b].pc = "cmpt" /\ wire'[m] = <<>>
        BY <1>9, <3>1, <3>2
      <4>2. Fetching(m)'
        BY <1>2, <1>5, <1>7, <3>1, <3>2, <4>1 DEF Fetching
      <4> QED  BY <1>5, <1>7, <2>1, <2>2, <4>2 DEF Talk
    <3>3. CASE ~Short(x)
      <4>1. Transfer(wire'[m], 1, shut)
        BY <1>9, <3>1, <3>3
      <4>2. Transfer(wire[m], 1, cico[b].pc = "cmpt")'
        BY <1>7, <4>1 DEF Transfer, Blocks, Short
      <4>3. Fetching(m)'
        BY <1>2, <1>5, <1>7, <3>1, <3>3, <4>2 DEF Fetching
      <4> QED  BY <1>5, <1>7, <2>1, <2>2, <4>3 DEF Talk
    <3> QED  BY <3>2, <3>3
  <2>3. CASE cico[b].role = "MASTER" /\ Sending(b)
    <3>1. /\ cico[b].job = cico[m].job /\ cico[m].role = "SLAVE" /\ wire[b] = <<>>
          /\ cico[b].pc \in {"wrdata", "cmpt"} /\ Transfer(wire[m], 1, shut)
      BY <1>0, <1>1, <2>3 DEF Sending
    <3>2. CASE Short(x)
      <4>1. cico[b].pc = "cmpt" /\ wire'[m] = <<>>
        BY <1>9, <3>1, <3>2
      <4>2. Sending(b)'
        BY <1>1, <1>2, <1>5, <1>7, <3>1, <3>2, <4>1 DEF Sending
      <4> QED  BY <1>5, <1>7, <2>1, <2>3, <4>2 DEF Talk
    <3>3. CASE ~Short(x)
      <4>1. Transfer(wire'[m], 1, shut)
        BY <1>9, <3>1, <3>3
      <4>2. Transfer(wire[m], 1, cico[b].pc = "cmpt")'
        BY <1>7, <4>1 DEF Transfer, Blocks, Short
      <4>3. Sending(b)'
        BY <1>1, <1>2, <1>5, <1>7, <3>1, <3>3, <4>2 DEF Sending
      <4> QED  BY <1>5, <1>7, <2>1, <2>3, <4>3 DEF Talk
    <3> QED  BY <3>2, <3>3
  <2> QED  BY <2>1, <2>2, <2>3
<1>11. Ready(m)'
  BY <1>5, <1>7, <1>9 DEF Ready, Blocks, Short
<1>12. e.pc # "none"
  BY <1>5
<1> QED  BY <1>0, <1>1, <1>5, <1>6, <1>10, <1>11, <1>12, TakeStep

\* The file has been received, well or not, and the sender is told.
LEMMA ReportStep ==
    ASSUME TypeOK, LineInv, NEW m \in Machine, UNCHANGED scenario, cico[m].pc = "stored",
           NEW why \in {"Y", "N5", "N10"},
           Sends(m, Msg("C", why, cico[m].job, 0), [cico[m] EXCEPT !.pc = "top"])
    PROVE  LineInv'
<1> DEFINE b == Peer(m)
           c == [cico[m] EXCEPT !.pc = "top"]
           x == Msg("C", why, cico[m].job, 0)
<1>1. /\ b \in Machine /\ Peer(b) = m /\ Fits(cico[m]) /\ cico[m] \in Cico /\ LineType
      /\ wire[b] \in Seq(Message)
  BY Peers, Wires DEF LineInv, Fits
<1>2. c \in Cico /\ Fits(c) /\ c.pc = "top" /\ c.role = cico[m].role /\ c.job = cico[m].job
  BY <1>1 DEF Cico, Fits
<1>3. cico[m].job \in Nat /\ cico[m].job # 0 /\ why \in {"", "Y", "N", "N2", "N4", "N5", "N10"}
  BY <1>1 DEF Cico, Fits
<1>4. x \in Message
  BY <1>3, MsgIs
<1>5. x.t = "C" /\ Sends(m, x, c)
  BY DEF Msg
<1> HIDE DEF c, x
<1>6. ASSUME up PROVE Both /\ (Talk(m)' \/ Talk(b)')
  <2>1. /\ cico'[b] = cico[b] /\ wire'[m] = wire[m]
        /\ cico'[m] = c /\ wire'[b] = Append(wire[b], x)
    BY <1>1, <1>2, <1>4, <1>5, <1>6, SendsIs
  <2>2. /\ Both
        /\ \/ cico[m].role = "MASTER" /\ Fetching(m)
           \/ cico[b].role = "MASTER" /\ Sending(b)
    BY <1>6, Reading
  <2>3. /\ wire[b] = <<>> /\ wire[m] = <<>> /\ cico[b].pc = "cmpt" /\ cico[b].job = cico[m].job
        /\ cico[b].role = "MASTER" => cico[m].role = "SLAVE"
        /\ cico[m].role = "MASTER" => cico[b].role = "SLAVE"
    BY <1>1, <2>2 DEF Fetching, Sending
  <2>4. wire'[b] # <<>> /\ Len(wire'[b]) = 1 /\ wire'[b][1] = x
    <3>1. Len(wire[b]) = 0
      BY <2>3, NoMessage
    <3> QED  BY <1>1, <1>4, <2>1, <3>1, AppendIs
  <2>5. CASE cico[m].role = "MASTER" /\ Fetching(m)
    <3>1. Asks(m, 1)'
      BY <1>2, <2>1, <2>3, <2>4, <2>5 DEF Asks
    <3> QED  BY <1>2, <1>5, <2>1, <2>2, <2>3, <2>4, <2>5, <3>1 DEF Talk
  <2>6. CASE cico[b].role = "MASTER" /\ Sending(b)
    <3>1. Sending(b)'
      BY <1>1, <1>2, <1>3, <1>5, <2>1, <2>3, <2>4, <2>6 DEF Sending
    <3> QED  BY <2>1, <2>2, <2>6, <3>1 DEF Talk
  <2> QED  BY <2>2, <2>5, <2>6
<1> QED  BY <1>1, <1>2, <1>4, <1>6, SendStep DEF c, x

LEMMA CmptStep ==
    ASSUME TypeOK, LineInv, NEW m \in Machine, Cmpt(m)
    PROVE  LineInv'
<1> DEFINE b == Peer(m)
           c == [cico[m] EXCEPT !.pc = "top"]
<1>0. cico[m].pc = "cmpt" /\ wire[m] # <<>> /\ UNCHANGED scenario /\ Takes(m, c)
  BY DEF Cmpt, Gets
<1>1. /\ b \in Machine /\ Peer(b) = m /\ Fits(cico[m]) /\ cico[m] \in Cico /\ LineType
      /\ wire[m] \in Seq(Message)
  BY Peers, Wires DEF LineInv, Fits
<1>2. c \in Cico /\ Fits(c) /\ c.pc = "top" /\ c.role = cico[m].role
  BY <1>1 DEF Cico, Fits
<1> HIDE DEF c
<1>3. cico'[b] = cico[b] /\ wire'[b] = wire[b] /\ cico'[m] = c /\ wire'[m] = Tail(wire[m])
  BY <1>0, <1>1, <1>2, TakesIs
<1>4. ASSUME up PROVE Both /\ (Talk(m)' \/ Talk(b)')
  <2>1. /\ Both
        /\ \/ /\ cico[m].role = "MASTER" /\ Len(wire[m]) = 1
              /\ cico[b].role = "SLAVE" /\ cico[b].pc = "top" /\ wire[b] = <<>>
           \/ cico[m].role = "SLAVE" /\ Asks(b, 1)
    BY <1>0, <1>4, Finishing
  <2>2. CASE /\ cico[m].role = "MASTER" /\ Len(wire[m]) = 1
             /\ cico[b].role = "SLAVE" /\ cico[b].pc = "top" /\ wire[b] = <<>>
    <3>1. wire'[m] = <<>>
      BY <1>1, <1>3, <2>2, LastTaken
    <3>2. Asks(m, 0)'
      <4>1. Len(wire'[b]) = 0 /\ cico'[m].role = "MASTER" /\ cico'[m].pc = "top"
        BY <1>2, <1>3, <2>2
      <4> QED  BY <3>1, <4>1 DEF Asks
    <3> QED  BY <1>2, <1>3, <2>1, <2>2, <3>2 DEF Talk
  <2>3. CASE cico[m].role = "SLAVE" /\ Asks(b, 1)
    <3>1. Asks(b, 0)'
      BY <1>0, <1>1, <1>3, <2>3, AsksTaken
    <3>2. cico[b].role = "MASTER"
      BY <2>3 DEF Asks
    <3> QED  BY <1>1, <1>2, <1>3, <2>1, <2>3, <3>1, <3>2 DEF Talk
  <2> QED  BY <2>1, <2>2, <2>3
<1>5. Ready(m)'
  <2>1. Ready(m)
    BY <1>0, Reads DEF LineInv
  <2>2. Done(m)
    BY <1>0, <2>1 DEF Ready
  <2>3. CASE Len(wire[m]) = 1
    BY <1>1, <1>3, <2>3, LastTaken DEF Ready
  <2>4. CASE Len(wire[m]) = 2 /\ cico[m].role = "SLAVE" /\ Asked(wire[m][2])
    <3>1. Len(wire'[m]) = 1 /\ wire'[m][1] = wire[m][2]
      <4>1. /\ Len(Tail(wire[m])) = Len(wire[m]) - 1
            /\ \A i \in 1..(Len(wire[m]) - 1) : Tail(wire[m])[i] = wire[m][i + 1]
        BY <1>0, <1>1, TailIs
      <4> QED  BY <1>3, <2>4, <4>1
    <3>2. Asked(wire[m][1])'
      BY <1>0, <2>4, <3>1 DEF Asked, Request, Kind, Job, Jobs
    <3> QED  BY <1>2, <1>3, <2>4, <3>1, <3>2 DEF Ready
  <2> QED  BY <2>2, <2>3, <2>4 DEF Done
<1> QED  BY <1>0, <1>1, <1>2, <1>4, <1>5, TakeStep

-----------------------------------------------------------------------------
(***************************************************************************)
(* Calls and faults, and all steps together.                               *)
(***************************************************************************)

LEMMA HungUpStep ==
    ASSUME LineInv, NEW m \in Machine, HungUp(m)
    PROVE  LineInv'
<1>0. ~up /\ UNCHANGED <<scenario, wire, up>> /\ cico' = [cico EXCEPT ![m] = None]
  BY DEF HungUp
<1>1. /\ cico \in [Machine -> Cico] /\ wire \in [Machine -> Seq(Message)] /\ None \in Cico
      /\ up \in BOOLEAN
  BY NoneFits DEF LineInv, LineType, Fits
<1>2. /\ cico'[m] = None /\ cico'[Peer(m)] = cico[Peer(m)] /\ cico' \in [Machine -> Cico]
      /\ wire'[Peer(m)] = wire[Peer(m)] /\ wire' \in [Machine -> Seq(Message)]
  BY <1>0, <1>1, Peers
<1> QED  BY <1>0, <1>1, <1>2, EndStep

LEMMA CallStep ==
    ASSUME TypeOK, LineInv, NEW m \in Machine, Call(m)
    PROVE  LineInv'
<1> DEFINE b == Peer(m)
           c(k) == [None EXCEPT !.pc = "top", !.role = IF k = m THEN "MASTER" ELSE "SLAVE"]
<1>0. /\ up' = TRUE /\ wire' = [k \in Machine |-> <<>>] /\ UNCHANGED scenario
      /\ cico' = [k \in Machine |-> c(k)]
  BY DEF Call
<1>1. b \in Machine /\ b # m /\ \A k \in Machine : k = m \/ k = b
  BY Peers
<1>2. \A k \in Machine : c(k) \in Cico /\ Fits(c(k)) /\ c(k).pc = "top"
  BY DEF Fits, None, Cico
<1>3. c(m).role = "MASTER" /\ c(b).role = "SLAVE"
  BY <1>1 DEF None
<1> HIDE DEF c
<1>4. cico' \in [Machine -> Cico] /\ \A k \in Machine : cico'[k] = c(k) /\ wire'[k] = <<>>
  BY <1>0, <1>2
<1>5. wire' \in [Machine -> Seq(Message)]
  <2>1. <<>> \in Seq(Message)
    BY NoMessage
  <2> QED  BY <1>0, <2>1
<1>6. LineType'
  <2>1. \A k \in Machine : Fits(cico[k])'
    BY <1>0, <1>2, <1>4 DEF Fits, Jobs
  <2> QED  BY <1>0, <1>4, <1>5, <2>1 DEF LineType, Fits
<1>7. Both'
  BY <1>2, <1>4 DEF Both
<1>8. Talk(m)'
  <2>1. Len(wire'[b]) = 0 /\ wire'[m] = <<>>
    BY <1>1, <1>4, NoMessage
  <2>2. Asks(m, 0)'
    BY <1>2, <1>3, <1>4, <2>1 DEF Asks
  <2> QED  BY <1>1, <1>2, <1>3, <1>4, <2>2 DEF Talk
<1> QED  BY <1>0, <1>6, <1>7, <1>8 DEF LineInv, Together, Alone

LEMMA BreakStep ==
    ASSUME LineInv, Break
    PROVE  LineInv'
<1>0. up' = FALSE /\ wire' = [m \in Machine |-> <<>>] /\ UNCHANGED <<scenario, cico>>
  BY DEF Break
<1>1. <<>> \in Seq(Message)
  BY NoMessage
<1>2. wire' \in [Machine -> Seq(Message)] /\ \A m \in Machine : wire'[m] = <<>>
  BY <1>0, <1>1
<1>3. LineType'
  BY <1>0, <1>2 DEF LineInv, LineType, Jobs
<1>4. \A m \in Machine : Ready(m)'
  BY <1>2 DEF Ready
<1> QED  BY <1>0, <1>3, <1>4 DEF LineInv, Together, Alone

\* Every step leaves the two ends in step.
LEMMA LineStep ==
    ASSUME TypeOK, LineInv, [Next]_vars
    PROVE  LineInv'
<1>1. CASE UNCHANGED vars
  <2>0. UNCHANGED <<scenario, cico, wire, up>>
    BY <1>1 DEF vars
  <2>1. LineType'
    BY <2>0 DEF LineInv, LineType, Jobs
  <2>2. ASSUME NEW m \in Machine PROVE Ready(m) => Ready(m)'
    BY <2>0, OthersReady
  <2>3. ASSUME NEW a \in Machine PROVE Talk(a) => Talk(a)'
    <3>1. \A k \in Machine : \A n \in {0, 1} : Asks(k, n) => Asks(k, n)'
      BY <2>0 DEF Asks, Request, Kind, Job
    <3>2. Told(a) => Told(a)'
      BY <2>0, <3>1, Peers DEF Told, Answer, Kind, Job, Msg
    <3>3. Sending(a) => Sending(a)'
      BY <2>0 DEF Sending, Transfer, Blocks, Short, Answer, Kind, Job
    <3>4. Fetching(a) => Fetching(a)'
      BY <2>0 DEF Fetching, Transfer, Blocks, Short, Answer, Kind, Job
    <3> QED  BY <2>0, <3>1, <3>2, <3>3, <3>4 DEF Talk
  <2>4. Together'
    BY <2>0, <2>3 DEF LineInv, Together, Both
  <2>5. Alone'
    BY <2>0, <2>2 DEF LineInv, Alone, Both
  <2> QED  BY <2>1, <2>4, <2>5 DEF LineInv
<1>2. CASE Break
  BY <1>2, BreakStep
<1>3. ASSUME NEW m \in Machine, Call(m) \/ HungUp(m)
      PROVE  LineInv'
  BY <1>3, CallStep, HungUpStep
<1>4. ASSUME NEW m \in Machine,
             \/ MasterNoRoom(m) \/ StoreFailed(m) \/ StoreWrongSize(m)
             \/ Kill(m) \/ KillInMove(m) \/ KillInBookmark(m)
      PROVE  LineInv'
  <2>1. Ends(m) /\ UNCHANGED scenario
    BY <1>4 DEF MasterNoRoom, StoreFailed, StoreWrongSize, Kill, KillInMove, KillInBookmark
  <2> QED  BY <2>1, EndsStep
<1>5. ASSUME NEW m \in Machine, StoreTooBig(m)
      PROVE  LineInv'
  BY <1>5, ReportStep DEF StoreTooBig
<1>6. ASSUME NEW m \in Machine, Store(m)
      PROVE  LineInv'
  <2>1. /\ cico[m].pc = "stored" /\ UNCHANGED scenario
        /\ \E moved \in BOOLEAN : Sends(m, Msg("C", IF moved THEN "Y" ELSE "N5", cico[m].job, 0),
                                        [cico[m] EXCEPT !.pc = "top"])
    BY <1>6 DEF Store
  <2>2. PICK moved \in BOOLEAN :
           Sends(m, Msg("C", IF moved THEN "Y" ELSE "N5", cico[m].job, 0),
                 [cico[m] EXCEPT !.pc = "top"])
    BY <2>1
  <2>3. CASE moved
    <3>1. Sends(m, Msg("C", "Y", cico[m].job, 0), [cico[m] EXCEPT !.pc = "top"])
      BY <2>2, <2>3
    <3> QED  BY <2>1, <3>1, ReportStep
  <2>4. CASE ~moved
    <3>1. Sends(m, Msg("C", "N5", cico[m].job, 0), [cico[m] EXCEPT !.pc = "top"])
      BY <2>2, <2>4
    <3> QED  BY <2>1, <3>1, ReportStep
  <2> QED  BY <2>3, <2>4
<1>7. ASSUME NEW m \in Machine, Cntrl(m)
      PROVE  LineInv'
  BY <1>3, <1>4, <1>5, <1>6, <1>7, MasterTopStep, SlaveHupStep, HupAnsweredStep,
     SlaveSndfileStep, SndfileAnsweredStep, SlaveRcvfileStep, RcvfileAnsweredStep,
     WrdataStep, RddataStep, CmptStep DEF Cntrl
<1> QED  BY <1>1, <1>2, <1>3, <1>4, <1>7 DEF Next

-----------------------------------------------------------------------------
(***************************************************************************)
(* The work queue, the files and the faults keep their types.              *)
(***************************************************************************)

WorkType ==
    /\ queue \in [Machine -> Seq(Seq(Nat))] /\ mark \in [Machine -> Nat]
    /\ \A m \in Machine : Queued(queue[m], mark[m])
DiskType ==
    /\ dfiles \subseteq Jobs /\ linked \subseteq Jobs
    /\ pfile \in [Jobs -> Seq(Nat)] /\ dest \in [Jobs -> Seq(Nat)]
    /\ told \in [Jobs -> {"nothing", "ok", "fail", "log"}]
FaultType == faults \in [Kinds -> Nat] /\ \A k \in Kinds : faults[k] <= scenario.faults[k]

LEMMA TypeIs ==
    TypeOK <=> scenario \in Scenarios /\ WorkType /\ LineType /\ DiskType /\ FaultType
BY DEF TypeOK, WorkType, LineType, DiskType, FaultType, Queued

\* Nothing but gtwvec changes the queue; a kill may empty the bookmark.
LEMMA WorkStep ==
    ASSUME TypeOK, [Next]_vars
    PROVE  WorkType'
<1>0. WorkType
  BY TypeIs
<1>1. CASE UNCHANGED <<queue, mark, scenario>>
  BY <1>0, <1>1 DEF WorkType, Queued, Jobs
<1>2. ASSUME NEW m \in Machine, UNCHANGED scenario,
             LET w == gtwvec(queue[m], mark[m], cico[m].pos)
             IN  /\ queue' = [queue EXCEPT ![m] = w.queue]
                 /\ mark' = [mark EXCEPT ![m] = w.mark] \/ mark' = [mark EXCEPT ![m] = 0]
      PROVE  WorkType'
  <2> DEFINE w == gtwvec(queue[m], mark[m], cico[m].pos)
  <2>0. cico[m] \in Cico
    BY TypeIs, Wires DEF Fits
  <2>1. cico[m].pos \in Nat \cup {-1}
    BY <2>0 DEF Cico
  <2>2. Queued(w.queue, w.mark)
    BY <1>0, <2>1, GtwvecIs DEF WorkType
  <2>21. /\ queue' = [queue EXCEPT ![m] = w.queue]
         /\ \E k \in {w.mark, 0} : mark' = [mark EXCEPT ![m] = k]
    BY <1>2
  <2> HIDE DEF w
  <2>3. Queued(w.queue, 0)
    BY <2>2 DEF Queued
  <2>4. w.queue \in Seq(Seq(Nat)) /\ w.mark \in Nat
    BY <2>2 DEF Queued
  <2>5. /\ queue' \in [Machine -> Seq(Seq(Nat))] /\ mark' \in [Machine -> Nat]
        /\ queue'[m] = w.queue /\ mark'[m] \in {w.mark, 0}
        /\ \A k \in Machine : k # m => queue'[k] = queue[k] /\ mark'[k] = mark[k]
    BY <1>0, <2>21, <2>4 DEF WorkType
  <2>6. \A k \in Machine : Queued(queue'[k], mark'[k])
    BY <1>0, <2>2, <2>3, <2>5 DEF WorkType
  <2>7. \A k \in Machine : Queued(queue[k], mark[k])'
    BY <1>2, <2>6 DEF Queued, Jobs
  <2> QED  BY <2>5, <2>7 DEF WorkType
<1>3. ASSUME NEW m \in Machine, MasterTop(m) PROVE WorkType'
  BY <1>2, <1>3 DEF MasterTop
<1>4. ASSUME NEW m \in Machine, MasterNoRoom(m) PROVE WorkType'
  BY <1>2, <1>4 DEF MasterNoRoom
<1>5. ASSUME NEW m \in Machine, KillInBookmark(m) PROVE WorkType'
  BY <1>2, <1>5 DEF KillInBookmark
<1>6. ASSUME NEW m \in Machine,
             \/ SlaveHup(m) \/ HupAnswered(m) \/ SlaveSndfile(m) \/ SndfileAnswered(m)
             \/ SlaveRcvfile(m) \/ RcvfileAnswered(m) \/ Wrdata(m) \/ Rddata(m)
      PROVE  WorkType'
  BY <1>1, <1>6 DEF SlaveHup, HupAnswered, SlaveSndfile, SndfileAnswered, SlaveRcvfile,
     RcvfileAnswered, Wrdata, Rddata, workVars
<1>7. ASSUME NEW m \in Machine,
             \/ StoreFailed(m) \/ StoreTooBig(m) \/ StoreWrongSize(m) \/ Store(m) \/ Cmpt(m)
             \/ HungUp(m) \/ Call(m) \/ Kill(m) \/ KillInMove(m)
      PROVE  WorkType'
  BY <1>1, <1>7 DEF StoreFailed, StoreTooBig, StoreWrongSize, Store, Cmpt, HungUp, Call, Kill,
     KillInMove, workVars
<1>8. CASE Break
  BY <1>1, <1>8 DEF Break, workVars
<1>9. CASE UNCHANGED vars
  BY <1>1, <1>9 DEF vars
<1> QED  BY <1>3, <1>4, <1>5, <1>6, <1>7, <1>8, <1>9 DEF Next, Cntrl

Fewer == \A k \in Kinds : faults'[k] <= faults[k]

\* A fault happens at most as often as the scenario says.
LEMMA FaultIs ==
    ASSUME scenario \in Scenarios, FaultType, UNCHANGED scenario,
           NoFault \/ \E kind \in Kinds : May(kind) /\ Fault(kind)
    PROVE  FaultType' /\ Fewer
<1>1. CASE NoFault
  BY <1>1 DEF FaultType, NoFault, Fewer
<1>2. CASE \E kind \in Kinds : May(kind) /\ Fault(kind)
  <2>1. PICK kind \in Kinds : faults[kind] > 0 /\ faults' = [faults EXCEPT ![kind] = @ - 1]
    BY <1>2 DEF May, Fault
  <2>2. faults[kind] - 1 \in Nat /\ faults[kind] \in Nat
    BY <2>1 DEF FaultType
  <2>3. /\ faults' \in [Kinds -> Nat]
        /\ \A k \in Kinds : faults'[k] = faults[k] \/ (k = kind /\ faults'[k] = faults[k] - 1)
    BY <2>1, <2>2 DEF FaultType
  <2>4. scenario.faults \in [Kinds -> Nat]
    BY ScenarioAssumption DEF ScenarioType
  <2> QED  BY <2>2, <2>3, <2>4 DEF FaultType, Fewer
<1> QED  BY <1>1, <1>2

LEMMA FaultStep ==
    ASSUME TypeOK, [Next]_vars
    PROVE  FaultType' /\ Fewer
<1>0. scenario \in Scenarios /\ FaultType
  BY TypeIs
<1> USE DEF Kinds
<1>1. ASSUME NEW m \in Machine,
             \/ MasterTop(m) \/ SlaveHup(m) \/ HupAnswered(m) \/ SndfileAnswered(m)
             \/ SlaveRcvfile(m) \/ RcvfileAnswered(m) \/ Wrdata(m) \/ StoreFailed(m)
             \/ StoreTooBig(m) \/ StoreWrongSize(m) \/ Cmpt(m) \/ HungUp(m) \/ Call(m)
      PROVE  FaultType' /\ Fewer
  <2>1. NoFault /\ UNCHANGED scenario
    BY <1>1 DEF MasterTop, SlaveHup, HupAnswered, SndfileAnswered, SlaveRcvfile,
       RcvfileAnswered, Wrdata, StoreFailed, StoreTooBig, StoreWrongSize, Cmpt, HungUp, Call
  <2> QED  BY <1>0, <2>1, FaultIs
<1>2. ASSUME NEW m \in Machine, MasterNoRoom(m) \/ SlaveSndfile(m)
      PROVE  FaultType' /\ Fewer
  <2>1. (NoFault \/ (May("notmp") /\ Fault("notmp"))) /\ UNCHANGED scenario
    BY <1>2 DEF MasterNoRoom, SlaveSndfile
  <2> QED  BY <1>0, <2>1, FaultIs
<1>3. ASSUME NEW m \in Machine, Rddata(m)
      PROVE  FaultType' /\ Fewer
  <2>1. /\ NoFault \/ \E kind \in {"short", "full", "ulimit"} : May(kind) /\ Fault(kind)
        /\ UNCHANGED scenario
    BY <1>3 DEF Rddata
  <2> QED  BY <1>0, <2>1, FaultIs
<1>4. ASSUME NEW m \in Machine, Store(m)
      PROVE  FaultType' /\ Fewer
  <2>1. (NoFault \/ (May("nomove") /\ Fault("nomove"))) /\ UNCHANGED scenario
    BY <1>4 DEF Store
  <2> QED  BY <1>0, <2>1, FaultIs
<1>5. ASSUME NEW m \in Machine, Kill(m) \/ KillInMove(m) \/ KillInBookmark(m)
      PROVE  FaultType' /\ Fewer
  <2>1. /\ \E kind \in {"kill", "killmove", "killmark"} : May(kind) /\ Fault(kind)
        /\ UNCHANGED scenario
    BY <1>5 DEF Kill, KillInMove, KillInBookmark
  <2> QED  BY <1>0, <2>1, FaultIs
<1>6. CASE Break
  <2>1. May("break") /\ Fault("break") /\ UNCHANGED scenario
    BY <1>6 DEF Break
  <2> QED  BY <1>0, <2>1, FaultIs
<1>7. CASE UNCHANGED vars
  BY <1>0, <1>7 DEF vars, FaultType, Fewer
<1> QED  BY <1>1, <1>2, <1>3, <1>4, <1>5, <1>6, <1>7 DEF Next, Cntrl

\* What a step may do to the files: each of these keeps them files.
LEMMA DiskIs ==
    ASSUME DiskType, UNCHANGED scenario, dfiles' \subseteq dfiles,
           \/ UNCHANGED told
           \/ \E k : \E what \in {"ok", "fail", "log"} : told' = [told EXCEPT ![k] = what],
           linked' \subseteq Jobs,
           pfile' = pfile \/ \E k : \E f \in Seq(Nat) : pfile' = [pfile EXCEPT ![k] = f],
           dest' = dest \/ \E k : \E f \in Seq(Nat) : dest' = [dest EXCEPT ![k] = f]
    PROVE  DiskType'
<1>1. told' \in [Jobs -> {"nothing", "ok", "fail", "log"}]
  BY DEF DiskType
<1>2. pfile' \in [Jobs -> Seq(Nat)]
  BY DEF DiskType
<1>3. dest' \in [Jobs -> Seq(Nat)]
  BY DEF DiskType
<1> QED  BY <1>1, <1>2, <1>3 DEF DiskType, Jobs

LEMMA NoFileIs == NoFile \in Seq(Nat) /\ <<>> \in Seq(Nat)
BY DEF NoFile

\* A file that is opened, or written to, is a file.
LEMMA OpenedIs ==
    ASSUME DiskType, NEW j
    PROVE  \E f \in Seq(Nat) : [pfile EXCEPT ![j] = Opened(j)] = [pfile EXCEPT ![j] = f]
<1>1. CASE j \in Jobs
  <2>1. Opened(j) \in Seq(Nat)
    BY <1>1, NoFileIs DEF Opened, DiskType
  <2> QED  BY <2>1
<1>2. CASE j \notin Jobs
  <2>1. [pfile EXCEPT ![j] = Opened(j)] = pfile /\ [pfile EXCEPT ![j] = <<>>] = pfile
    BY <1>2 DEF DiskType
  <2> QED  BY <2>1, NoFileIs
<1> QED  BY <1>1, <1>2

LEMMA DiskStep ==
    ASSUME TypeOK, LineInv, [Next]_vars
    PROVE  DiskType'
<1>0. DiskType
  BY TypeIs
<1>1. ASSUME UNCHANGED <<scenario, pfile, dest, linked>>, dfiles' \subseteq dfiles,
             \/ UNCHANGED told
             \/ \E k : \E what \in {"ok", "fail", "log"} : told' = [told EXCEPT ![k] = what]
      PROVE  DiskType'
  BY <1>0, <1>1, DiskIs DEF DiskType
<1>2. ASSUME NEW m \in Machine,
             \/ SlaveHup(m) \/ HupAnswered(m) \/ SndfileAnswered(m) \/ SlaveRcvfile(m)
             \/ Wrdata(m) \/ StoreFailed(m) \/ StoreTooBig(m) \/ HungUp(m)
             \/ Call(m) \/ Kill(m) \/ KillInBookmark(m)
      PROVE  DiskType'
  <2>1. /\ UNCHANGED <<scenario, pfile, dest, linked>> /\ dfiles' \subseteq dfiles
        /\ UNCHANGED told \/ Tell(cico[m].job, "fail")
    BY <1>2 DEF SlaveHup, HupAnswered, SndfileAnswered, SlaveRcvfile, Wrdata, StoreFailed,
       StoreTooBig, HungUp, Call, Kill, KillInBookmark, fileVars
  <2> QED  BY <1>1, <2>1 DEF Tell
<1>3. ASSUME NEW m \in Machine, Cmpt(m)
      PROVE  DiskType'
  <2>1. /\ UNCHANGED <<scenario, pfile, dest, linked>> /\ dfiles' \subseteq dfiles
        /\ UNCHANGED told \/ \E what \in {"ok", "fail"} : Tell(cico[m].job, what)
    BY <1>3 DEF Cmpt, fileVars
  <2> QED  BY <1>1, <2>1 DEF Tell
<1>4. ASSUME UNCHANGED <<scenario, dest>>, dfiles' = dfiles, linked' \subseteq linked,
             \/ UNCHANGED told
             \/ \E k : \E what \in {"ok", "fail", "log"} : told' = [told EXCEPT ![k] = what],
             NEW j, pfile' = [pfile EXCEPT ![j] = Opened(j)] \/ pfile' = [pfile EXCEPT ![j] = <<>>]
      PROVE  DiskType'
  <2>1. \E k : \E f \in Seq(Nat) : pfile' = [pfile EXCEPT ![k] = f]
    BY <1>0, <1>4, OpenedIs, NoFileIs
  <2> QED  BY <1>0, <1>4, <2>1, DiskIs DEF DiskType
<1>5. ASSUME NEW m \in Machine, MasterTop(m)
      PROVE  DiskType'
  <2> DEFINE j == gtwvec(queue[m], mark[m], cico[m].pos).job
  <2>1. /\ UNCHANGED scenario
        /\ \/ UNCHANGED <<dfiles, told, fileVars>>
           \/ dfiles' = dfiles \ {j} /\ Tell(j, "fail") /\ UNCHANGED fileVars
           \/ Open(j) /\ UNCHANGED <<dfiles, told>>
    BY <1>5 DEF MasterTop
  <2> HIDE DEF j
  <2>2. CASE dfiles' \subseteq dfiles /\ UNCHANGED fileVars /\ (UNCHANGED told \/ Tell(j, "fail"))
    BY <1>1, <2>1, <2>2 DEF fileVars, Tell
  <2>3. CASE Open(j) /\ UNCHANGED <<dfiles, told>>
    BY <1>4, <2>1, <2>3 DEF Open
  <2> QED  BY <2>1, <2>2, <2>3
<1>6. ASSUME NEW m \in Machine, MasterNoRoom(m)
      PROVE  DiskType'
  <2>1. \E j : Unlinked(j) /\ UNCHANGED <<scenario, dfiles, dest, told>>
    BY <1>6 DEF MasterNoRoom
  <2> QED  BY <1>4, <2>1 DEF Unlinked
<1>7. ASSUME NEW m \in Machine, SlaveSndfile(m)
      PROVE  DiskType'
  <2>1. /\ UNCHANGED <<scenario, dfiles, told>>
        /\ \/ UNCHANGED fileVars
           \/ \E j : Unlinked(j) /\ UNCHANGED dest
           \/ \E j : Open(j)
    BY <1>7 DEF SlaveSndfile
  <2> QED  BY <1>1, <1>4, <2>1 DEF Unlinked, Open, fileVars
<1>8. ASSUME NEW m \in Machine, RcvfileAnswered(m)
      PROVE  DiskType'
  <2>1. /\ UNCHANGED <<scenario, dfiles>>
        /\ \/ UNCHANGED <<told, fileVars>>
           \/ \E j : Unlinked(j) /\ UNCHANGED dest /\ Tell(j, "fail")
    BY <1>8 DEF RcvfileAnswered
  <2> QED  BY <1>1, <1>4, <2>1 DEF Unlinked, Tell, fileVars
<1>9. ASSUME NEW m \in Machine, StoreWrongSize(m)
      PROVE  DiskType'
  BY <1>4, <1>9 DEF StoreWrongSize, Unlinked
<1>10. ASSUME NEW m \in Machine, Rddata(m)
       PROVE  DiskType'
  <2> DEFINE d == Head(wire[m]).data
             j == cico[m].job
  <2>0. /\ UNCHANGED <<scenario, dfiles, told>>
        /\ \/ UNCHANGED fileVars
           \/ Appended(j, d)
           \/ \E k \in 0..(Len(d) - 1) : Appended(j, SubSeq(d, 1, k))
        /\ cico[m].pc = "rddata" /\ wire[m] # <<>>
    BY <1>10 DEF Rddata, Gets
  <2>1. j \in Jobs
    BY <2>0, Wires DEF LineInv, Fits
  <2>2. d \in Seq(Nat)
    <3>1. Head(wire[m]) \in Message
      BY <2>0, Wires, TailIs DEF LineInv
    <3> QED  BY <3>1 DEF Message
  <2>3. \A k \in 0..(Len(d) - 1) : SubSeq(d, 1, k) \in Seq(Nat)
    BY <2>2
  <2> HIDE DEF d
  <2>4. UNCHANGED fileVars \/ \E e \in Seq(Nat) : Appended(j, e)
    BY <2>0, <2>2, <2>3
  <2>5. ASSUME NEW e \in Seq(Nat), Appended(j, e)
        PROVE  DiskType'
    <3> HIDE DEF j
    <3>1. pfile[j] \o e \in Seq(Nat) /\ dest[j] \o e \in Seq(Nat)
      BY <1>0, <2>1 DEF DiskType
    <3>2. /\ linked' = linked
          /\ pfile' = [pfile EXCEPT ![j] = pfile[j] \o e]
          /\ dest' = [dest EXCEPT ![j] = dest[j] \o e] \/ dest' = dest
      BY <2>5 DEF Appended
    <3> QED  BY <1>0, <2>0, <3>1, <3>2, DiskIs DEF DiskType
  <2> QED  BY <1>1, <2>0, <2>4, <2>5 DEF fileVars
<1>11. ASSUME NEW m \in Machine, Store(m)
       PROVE  DiskType'
  <2> DEFINE j == cico[m].job
  <2>0. /\ UNCHANGED <<scenario, dfiles>> /\ cico[m].pc = "stored"
        /\ \E f \in {pfile[j], NoFile} : dest' = [dest EXCEPT ![j] = f]
        /\ Unlinked(j)
        /\ UNCHANGED told \/ \E what \in {"ok", "fail"} : Tell(j, what)
    BY <1>11 DEF Store
  <2>1. j \in Jobs
    BY <2>0, Wires DEF LineInv, Fits
  <2> HIDE DEF j
  <2>2. pfile[j] \in Seq(Nat)
    BY <1>0, <2>1 DEF DiskType
  <2>3. /\ \E f \in Seq(Nat) : dest' = [dest EXCEPT ![j] = f]
        /\ pfile' = [pfile EXCEPT ![j] = <<>>] /\ linked' \subseteq Jobs
    BY <1>0, <2>0, <2>2, NoFileIs DEF Unlinked, DiskType
  <2> QED  BY <1>0, <2>0, <2>3, NoFileIs, DiskIs DEF Tell
<1>12. ASSUME NEW m \in Machine, KillInMove(m)
       PROVE  DiskType'
  <2> DEFINE j == cico[m].job
  <2>0. /\ UNCHANGED <<scenario, dfiles, pfile, told>> /\ cico[m].pc = "stored"
        /\ \/ \E f \in {pfile[j], NoFile} : dest' = [dest EXCEPT ![j] = f]
           \/ \E k \in 0..Len(pfile[j]) : dest' = [dest EXCEPT ![j] = SubSeq(pfile[j], 1, k)]
        /\ linked' \subseteq linked \cup {j}
    BY <1>12 DEF KillInMove
  <2>1. j \in Jobs
    BY <2>0, Wires DEF LineInv, Fits
  <2> HIDE DEF j
  <2>2. pfile[j] \in Seq(Nat)
    BY <1>0, <2>1 DEF DiskType
  <2>3. \A k \in 0..Len(pfile[j]) : SubSeq(pfile[j], 1, k) \in Seq(Nat)
    BY <2>2
  <2>4. \E f \in Seq(Nat) : dest' = [dest EXCEPT ![j] = f]
    BY <2>0, <2>2, <2>3, NoFileIs
  <2>5. linked' \subseteq Jobs
    BY <1>0, <2>0, <2>1 DEF DiskType
  <2> QED  BY <1>0, <2>0, <2>4, <2>5, DiskIs
<1>13. CASE Break
  BY <1>1, <1>13 DEF Break, fileVars
<1>14. CASE UNCHANGED vars
  BY <1>1, <1>14 DEF vars
<1> QED  BY <1>2, <1>3, <1>5, <1>6, <1>7, <1>8, <1>9, <1>10, <1>11, <1>12, <1>13, <1>14
         DEF Next, Cntrl

-----------------------------------------------------------------------------
(***************************************************************************)
(* The theorems.                                                           *)
(***************************************************************************)

LEMMA StepInvInit ==
    ASSUME Init
    PROVE  StepInv
<1>0. scenario \in Scenarios /\ ScenarioType(scenario)
  BY ScenarioAssumption DEF Init
<1>1. WorkType
  <2>1. queue = scenario.files /\ mark = [m \in Machine |-> 0]
    BY DEF Init
  <2>2. queue \in [Machine -> Seq(Seq(Nat))] /\ mark \in [Machine -> Nat]
    BY <1>0, <2>1 DEF ScenarioType
  <2>3. ASSUME NEW m \in Machine PROVE Queued(queue[m], mark[m])
    <3>1. queue[m] \in Seq(Seq(Nat)) /\ mark[m] = 0
      BY <2>1, <2>2
    <3>2. \A i \in DOMAIN queue[m] :
             queue[m][i] # <<>> /\ \A k \in DOMAIN queue[m][i] : queue[m][i][k] \in Jobs
      BY <1>0, <2>1 DEF ScenarioType, Jobs
    <3>3. queue[m] # <<>> => 0 < Len(queue[m][1])
      <4>1. queue[m] # <<>> => 1 \in DOMAIN queue[m] /\ queue[m][1] \in Seq(Nat)
        BY <3>1
      <4>2. queue[m] # <<>> => queue[m][1] # <<>>
        BY <3>2, <4>1
      <4> QED  BY <4>1, <4>2
    <3> QED  BY <3>1, <3>2, <3>3 DEF Queued
  <2> QED  BY <2>2, <2>3 DEF WorkType
<1>2. LineType
  <2>1. <<>> \in Seq(Message) /\ None \in Cico /\ Fits(None)
    BY NoMessage, NoneFits DEF Fits
  <2>2. /\ cico \in [Machine -> Cico] /\ wire \in [Machine -> Seq(Message)] /\ up \in BOOLEAN
        /\ \A m \in Machine : cico[m] = None
    BY <2>1 DEF Init
  <2> QED  BY <2>1, <2>2, LineTypeIs
<1>3. DiskType
  BY NoFileIs DEF Init, DiskType
<1>4. FaultType
  BY <1>0 DEF Init, FaultType, ScenarioType
<1>5. \A m \in Machine : cico[m].pc = "none"
  BY NoneFits DEF Init
<1>6. ~up
  BY DEF Init
<1> QED  BY <1>0, <1>1, <1>2, <1>3, <1>4, <1>5, <1>6, TypeIs DEF StepInv, Together, Alone

\* What may happen is chosen once.
LEMMA ScenarioStays ==
    ASSUME [Next]_vars
    PROVE  scenario' = scenario
<1>1. ASSUME NEW m \in Machine,
             \/ MasterTop(m) \/ MasterNoRoom(m) \/ SlaveHup(m) \/ HupAnswered(m)
             \/ SlaveSndfile(m) \/ SndfileAnswered(m) \/ SlaveRcvfile(m) \/ RcvfileAnswered(m)
      PROVE  scenario' = scenario
  BY <1>1 DEF MasterTop, MasterNoRoom, SlaveHup, HupAnswered, SlaveSndfile, SndfileAnswered,
     SlaveRcvfile, RcvfileAnswered
<1>2. ASSUME NEW m \in Machine,
             \/ Wrdata(m) \/ Rddata(m) \/ StoreFailed(m) \/ StoreTooBig(m)
             \/ StoreWrongSize(m) \/ Store(m) \/ Cmpt(m) \/ HungUp(m)
      PROVE  scenario' = scenario
  BY <1>2 DEF Wrdata, Rddata, StoreFailed, StoreTooBig, StoreWrongSize, Store, Cmpt, HungUp
<1>3. ASSUME NEW m \in Machine, Call(m) \/ Kill(m) \/ KillInMove(m) \/ KillInBookmark(m)
      PROVE  scenario' = scenario
  BY <1>3 DEF Call, Kill, KillInMove, KillInBookmark
<1>4. Break \/ UNCHANGED vars => scenario' = scenario
  BY DEF Break, vars
<1> QED  BY <1>1, <1>2, <1>3, <1>4 DEF Next, Cntrl

LEMMA StepInvNext ==
    ASSUME StepInv, [Next]_vars
    PROVE  StepInv'
<1>0. TypeOK /\ LineInv
  BY TypeIs DEF StepInv, LineInv
<1>1. LineInv'
  BY <1>0, LineStep
<1>2. WorkType' /\ DiskType' /\ FaultType'
  BY <1>0, WorkStep, DiskStep, FaultStep
<1>3. scenario' = scenario
  BY ScenarioStays
<1>4. scenario' \in Scenarios
  BY <1>0, <1>3, TypeIs
<1>5. TypeOK'
  BY <1>1, <1>2, <1>4 DEF LineInv, TypeOK, WorkType, LineType, DiskType, FaultType, Queued
<1> QED  BY <1>1, <1>5 DEF StepInv, LineInv

\* The inductive invariant: the variables have their types, and what is on the
\* wires is what the ends, from where they are in cntrl, go on to read.
THEOREM StepInvariance == Spec => []StepInv
<1>1. Init => StepInv
  BY StepInvInit
<1>2. StepInv /\ [Next]_vars => StepInv'
  BY StepInvNext
<1> QED  BY <1>1, <1>2, PTL DEF Spec

\* The variables of cntrl have their types; transfers start and go on at block
\* boundaries, and the bookmark of anlwrk is a line of its C. file.
THEOREM CntrlTypeCorrect == Spec => []TypeOK
<1>1. StepInv => TypeOK
  BY DEF StepInv
<1> QED  BY <1>1, StepInvariance, PTL

LEMMA Expects ==
    ASSUME StepInv, NEW m \in Machine, wire[m] # <<>>, cico[m].pc # "none"
    PROVE  Head(wire[m]).t \in Expected(m)
<1>0. TypeOK /\ LineInv
  BY TypeIs DEF StepInv, LineInv
<1> DEFINE x == wire[m][1]
<1>1. Head(wire[m]) = x /\ wire[m] \in Seq(Message)
  BY <1>0, Wires, TailIs DEF LineInv
<1>2. Ready(m)
  BY <1>0, Reads DEF LineInv
<1>3. CASE cico[m].pc = "top" /\ cico[m].role = "SLAVE"
  <2>1. x.t = Kind(x.job) /\ x.job \in Jobs \cup {0}
    BY <1>0, <1>1, <1>3, GotRequest
  <2>2. x.job \in Jobs => Kind(x.job) \in {"S", "R"}
    BY <1>0, JobIs
  <2>3. x.job = 0 => Kind(x.job) = "H"
    BY DEF Kind
  <2>4. x.t \in {"H", "S", "R"}
    BY <2>1, <2>2, <2>3
  <2> QED  BY <1>1, <1>3, <2>4 DEF Expected
<1>4. CASE cico[m].pc = "reply"
  <2>1. x.t = Kind(cico[m].job)
    BY <1>0, <1>1, <1>4, GotAnswer
  <2> QED  BY <1>1, <1>4, <2>1 DEF Expected, Kind
<1>5. CASE cico[m].pc = "hup"
  BY <1>1, <1>2, <1>5 DEF Ready, Expected
<1>6. CASE cico[m].pc = "rddata"
  <2>1. Blocks(wire[m], 1)
    BY <1>2, <1>6 DEF Ready
  <2>2. x.t = "D"
    BY <1>1, <2>1, BlockTaken
  <2> QED  BY <1>1, <1>6, <2>2 DEF Expected
<1>7. CASE cico[m].pc = "cmpt"
  BY <1>1, <1>2, <1>7 DEF Ready, Done, Expected
<1> QED  BY <1>2, <1>3, <1>4, <1>5, <1>6, <1>7 DEF Ready

\* The two ends stay in step: on a line that keeps the order, and whatever
\* breaks or is killed, rmesg never gets a message it does not expect, somebody
\* is master, and two are only while an "HN" is on its way.
THEOREM StaysInStep == Spec => []InStep
<1>1. ASSUME StepInv PROVE InStep
  <2>1. \A m \in Machine :
           wire[m] # <<>> /\ cico[m].pc # "none" => Head(wire[m]).t \in Expected(m)
    BY <1>1, Expects
  <2>2. ASSUME up, \A m \in Machine : cico[m].pc # "none"
        PROVE  /\ \E m \in Machine : cico[m].role = "MASTER"
               /\ (\A m \in Machine : cico[m].role = "MASTER") =>
                     \E m \in Machine : wire[m] # <<>> /\ Head(wire[m]) = Msg("H", "N", 0, 0)
    <3>1. PICK a \in Machine : Talk(a)
      BY <1>1, <2>2 DEF StepInv, Together, Both
    <3>2. cico[a].role = "MASTER" /\ Peer(a) \in Machine
      BY <3>1, Peers DEF Talk
    <3>3. ASSUME cico[Peer(a)].role = "MASTER"
          PROVE  wire[a] # <<>> /\ Head(wire[a]) = Msg("H", "N", 0, 0)
      <4>1. wire[a] # <<>> /\ wire[a][1] = Msg("H", "N", 0, 0)
        BY <3>1, <3>3 DEF Talk, Told, Sending, Fetching
      <4>2. wire[a] \in Seq(Message)
        BY <1>1, TypeIs, Wires DEF StepInv
      <4> QED  BY <4>1, <4>2, TailIs
    <3> QED  BY <3>2, <3>3
  <2> QED  BY <2>1, <2>2 DEF InStep
<1>2. StepInv => InStep
  BY <1>1
<1> QED  BY <1>2, StepInvariance, PTL

-----------------------------------------------------------------------------
(***************************************************************************)
(* The work: no job is lost, and no file is put in place that is not whole *)
(* (cntrl.c, anlwrk.c).                                                    *)
(***************************************************************************)

-----------------------------------------------------------------------------
(***************************************************************************)
(* What stays.                                                             *)
(***************************************************************************)

LEMMA Parts ==
    ASSUME StepInv
    PROVE  TypeOK /\ LineInv /\ WorkType /\ LineType /\ DiskType /\ FaultType
BY TypeIs DEF StepInv, LineInv

\* Faults only become more.
LEMMA HadGrows ==
    ASSUME StepInv, [Next]_vars
    PROVE  \A k \in Kinds : Had(k) \in Nat /\ Had(k)' \in Nat /\ Had(k) <= Had(k)'
<1>1. TypeOK /\ FaultType /\ scenario \in Scenarios
  BY Parts, TypeIs
<1>2. FaultType' /\ Fewer /\ scenario' = scenario
  BY <1>1, FaultStep, ScenarioStays
<1>3. scenario.faults \in [Kinds -> Nat]
  BY <1>1, ScenarioAssumption DEF ScenarioType
<1> QED  BY <1>1, <1>2, <1>3 DEF FaultType, Fewer, Had

LEMMA HadFault ==
    ASSUME StepInv, [Next]_vars, NEW k \in Kinds, Fault(k)
    PROVE  Had(k)' = Had(k) + 1 /\ Had(k)' > 0
<1>1. TypeOK /\ FaultType /\ scenario \in Scenarios
  BY Parts, TypeIs
<1>2. scenario.faults \in [Kinds -> Nat] /\ scenario' = scenario
  BY <1>1, ScenarioAssumption, ScenarioStays DEF ScenarioType
<1>3. faults'[k] = faults[k] - 1 /\ faults[k] \in Nat
  BY <1>1 DEF Fault, FaultType
<1>4. Had(k)' = Had(k) + 1
  BY <1>2, <1>3 DEF Had
<1>5. Had(k) \in Nat
  BY HadGrows
<1> QED  BY <1>4, <1>5

LEMMA TellsFall ==
    ASSUME StepInv, [Next]_vars
    PROVE  /\ Once' => Once
           /\ Clean' => Clean
           /\ OnlyShort' => OnlyShort
           /\ SizeTells' => SizeTells
<1>1. \A k \in Kinds : Had(k) \in Nat /\ Had(k)' \in Nat /\ Had(k) <= Had(k)'
  BY HadGrows
<1>2. scenario' = scenario
  BY ScenarioStays
<1>3. "short" \in Kinds /\ "full" \in Kinds /\ "ulimit" \in Kinds
  BY DEF Kinds
<1>4. Once' => Once
  BY <1>1, <1>3 DEF Once
<1>5. Clean' => Clean
  BY <1>1, <1>3 DEF Clean
<1>6. OnlyShort' => OnlyShort
  BY <1>1, <1>2 DEF OnlyShort
<1> QED  BY <1>4, <1>5, <1>6 DEF SizeTells

LEMMA ServedStays ==
    ASSUME StepInv, [Next]_vars, NEW j \in Jobs, Served(j),
           dest'[j] = dest[j], told'[j] = told[j] \/ Reported(j)'
    PROVE  Served(j)'
<1>1. scenario' = scenario /\ (SizeTells' => SizeTells)
  BY ScenarioStays, TellsFall
<1>2. Had("ulimit") \in Nat /\ Had("ulimit")' \in Nat /\ Had("ulimit") <= Had("ulimit")'
  BY HadGrows DEF Kinds
<1>3. Delivered(j) => Delivered(j)'
  BY <1>1 DEF Delivered, Whole, Job
<1>4. Job(j).type = "R" /\ Had("ulimit") > 0 => (Job(j).type = "R" /\ Had("ulimit") > 0)'
  BY <1>1, <1>2 DEF Job
<1>5. Reported(j) => Reported(j)'
  BY <1>1 DEF Reported, Job
<1> QED  BY <1>3, <1>4, <1>5 DEF Served

\* A user who is told of a failure, or the log in his place, knows of it.
LEMMA TellReports ==
    ASSUME DiskType, scenario' = scenario, NEW k \in Jobs, Tell(k, "fail")
    PROVE  Reported(k)'
BY DEF Tell, Reported, DiskType, Job

-----------------------------------------------------------------------------
(***************************************************************************)
(* The lines of the C. files.                                              *)
(***************************************************************************)

\* Line l of file i of the C. files q, with bookmark k, is still to be read.
Ahead(q, k, i, l) == i \in DOMAIN q /\ l \in DOMAIN q[i] /\ (i = 1 => l > k)
Lined(q, k, j) == \E i, l : Ahead(q, k, i, l) /\ q[i][l] = j

LEMMA PendingIs ==
    ASSUME NEW j
    PROVE  Pending(j) <=> Lined(queue[Job(j).at], mark[Job(j).at], j)
BY DEF Pending, Lined, Ahead

\* What gtwvec passes over is the line that was worked on, and that only.
LEMMA GtwvecLine ==
    ASSUME NEW q, NEW k, Queued(q, k), NEW pos \in Nat \cup {-1},
           pos # -1 => q # <<>> /\ pos = k + 1, 0 \notin Jobs
    PROVE  LET w == gtwvec(q, k, pos)
           IN  /\ w.queue = q \/ (q # <<>> /\ w.queue = Tail(q))
               /\ w.job # 0 => /\ w.queue # <<>> /\ w.pos = w.mark + 1 /\ w.pos # -1
                               /\ w.job = w.queue[1][w.pos]
               /\ w.job = 0 => w.pos = -1
               /\ \A i, l : Ahead(q, k, i, l) =>
                     \/ i = 1 /\ pos # -1 /\ l = pos
                     \/ Lined(w.queue, w.mark, q[i][l])
<1> DEFINE p == IF pos = -1 THEN k ELSE pos
           w == gtwvec(q, k, pos)
<1>0. /\ q \in Seq(Seq(Nat)) /\ k \in Nat /\ p \in Nat
      /\ q # <<>> => k < Len(q[1]) /\ Len(q[1]) \in Nat /\ q[1] \in Seq(Nat)
      /\ pos = -1 => p = k
      /\ pos # -1 => p = k + 1 /\ p = pos
  BY DEF Queued
<1> HIDE DEF p
<1>1. CASE q # <<>> /\ p >= Len(q[1])
  <2>1. p = pos /\ pos # -1 /\ pos = Len(q[1]) /\ k + 1 = Len(q[1])
    BY <1>0, <1>1
  <2> DEFINE t == Tail(q)
  <2>20. /\ t \in Seq(Seq(Nat)) /\ Len(t) = Len(q) - 1
         /\ \A i \in 1..(Len(q) - 1) : t[i] = q[i + 1]
         /\ Len(q) \in Nat /\ Len(q) > 0 /\ DOMAIN q = 1..Len(q)
         /\ DOMAIN t = 1..Len(t)
    <3>1. q \in Seq(Seq(Nat)) /\ q # <<>>
      BY <1>0, <1>1
    <3> QED  BY <3>1, TailIs
  <2> HIDE DEF t
  <2>2. t # q
    <3>1. Len(t) # Len(q)
      BY <2>20
    <3> QED  BY <3>1
  <2>3. /\ t = <<>> => w = [queue |-> t, mark |-> 0, pos |-> -1, job |-> 0]
        /\ t # <<>> => w = [queue |-> t, mark |-> 0, pos |-> 1, job |-> t[1][1]]
    <3>1. (IF q # <<>> /\ p >= Len(q[1]) THEN Tail(q) ELSE q) = t
      BY <1>1 DEF t
    <3>2. (IF t = q THEN p ELSE 0) = 0
      BY <2>2
    <3>3. w = IF t = <<>> THEN [queue |-> t, mark |-> 0, pos |-> -1, job |-> 0]
              ELSE [queue |-> t, mark |-> 0, pos |-> 0 + 1, job |-> t[1][0 + 1]]
      BY <3>1, <3>2 DEF gtwvec, p
    <3> HIDE DEF w
    <3> QED  BY <3>3
  <2> HIDE DEF w
  <2>4. w.queue = t /\ w.mark = 0
    BY <2>3
  <2>5. ASSUME NEW i, NEW l, Ahead(q, k, i, l)
        PROVE  (i = 1 /\ l = pos) \/ Lined(t, 0, q[i][l])
    <3>1. i \in 1..Len(q) /\ q[i] \in Seq(Nat) /\ l \in 1..Len(q[i]) /\ (i = 1 => l > k)
      BY <1>0, <2>5 DEF Ahead
    <3>2. CASE i = 1
      BY <1>0, <1>1, <2>1, <3>1, <3>2
    <3>3. CASE i # 1
      <4>1. i - 1 \in DOMAIN t /\ t[i - 1] = q[i]
        <5>1. i - 1 \in 1..(Len(q) - 1) /\ (i - 1) + 1 = i
          BY <2>20, <3>1, <3>3
        <5> QED  BY <2>20, <5>1
      <4>2. Ahead(t, 0, i - 1, l)
        BY <3>1, <4>1 DEF Ahead
      <4> QED  BY <4>1, <4>2 DEF Lined
    <3> QED  BY <3>2, <3>3
  <2>6. w.job = 0 => w.pos = -1
    <3>1. CASE t = <<>>
      BY <2>3, <3>1
    <3>2. CASE t # <<>>
      <4>1. 1 \in DOMAIN t /\ t[1] = q[2] /\ 2 \in DOMAIN q
        <5>1. Len(t) # 0
          BY <2>20, <3>2, NoMessage
        <5>2. 1 \in 1..(Len(q) - 1) /\ 2 \in 1..Len(q)
          BY <2>20, <5>1
        <5> QED  BY <2>20, <5>2
      <4>2. q[2] # <<>> /\ q[2] \in Seq(Nat)
        BY <1>0, <4>1 DEF Queued
      <4>3. t[1][1] \in Jobs
        BY <4>1, <4>2 DEF Queued
      <4>4. w.job \in Jobs
        BY <2>3, <3>2, <4>3
      <4> QED  BY <2>3, <3>2, <4>4
    <3> QED  BY <3>1, <3>2
  <2>7. w.job # 0 => w.queue # <<>> /\ w.pos = w.mark + 1 /\ w.pos # -1 /\ w.job = w.queue[1][w.pos]
    <3>1. w.job # 0 => w = [queue |-> t, mark |-> 0, pos |-> 1, job |-> t[1][1]]
                       /\ t # <<>>
      BY <2>3
    <3> QED  BY <3>1
  <2> QED  BY <1>1, <2>1, <2>4, <2>5, <2>6, <2>7 DEF w, t
<1>2. CASE ~(q # <<>> /\ p >= Len(q[1]))
  <2>3. /\ q = <<>> => w = [queue |-> <<>>, mark |-> 0, pos |-> -1, job |-> 0]
        /\ q # <<>> => w = [queue |-> q, mark |-> p, pos |-> p + 1, job |-> q[1][p + 1]]
    <3>1. (IF q # <<>> /\ p >= Len(q[1]) THEN Tail(q) ELSE q) = q
      BY <1>2
    <3> QED  BY <3>1 DEF gtwvec, p
  <2> HIDE DEF w
  <2>4. w.queue = q
    BY <2>3
  <2>5. ASSUME NEW i, NEW l, Ahead(q, k, i, l)
        PROVE  (i = 1 /\ pos # -1 /\ l = pos) \/ Lined(q, w.mark, q[i][l])
    <3>1. i \in 1..Len(q) /\ q[i] \in Seq(Nat) /\ l \in 1..Len(q[i]) /\ (i = 1 => l > k)
      BY <1>0, <2>5 DEF Ahead
    <3>2. w.mark = p
      BY <2>3, <3>1
    <3>3. CASE i = 1 /\ pos # -1 /\ l = pos
      BY <3>3
    <3>4. CASE ~(i = 1 /\ pos # -1 /\ l = pos)
      <4>1. Ahead(q, p, i, l)
        BY <1>0, <3>1, <3>4 DEF Ahead
      <4> QED  BY <3>2, <4>1 DEF Lined
    <3> QED  BY <3>3, <3>4
  <2>6. q # <<>> => q[1][p + 1] \in Jobs
    <3>1. q # <<>> => p + 1 \in 1..Len(q[1]) /\ 1 \in DOMAIN q /\ DOMAIN q[1] = 1..Len(q[1])
      BY <1>0, <1>2
    <3> QED  BY <3>1 DEF Queued
  <2>7. CASE q = <<>>
    BY <2>3, <2>4, <2>5, <2>7 DEF w
  <2>8. CASE q # <<>>
    <3>1. w.mark = p /\ w.pos = p + 1 /\ w.job = q[1][p + 1] /\ w.job # 0
      BY <2>3, <2>6, <2>8
    <3>2. w.pos = w.mark + 1 /\ w.pos # -1 /\ w.job = w.queue[1][w.pos] /\ w.queue # <<>>
      BY <1>0, <2>4, <2>8, <3>1
    <3> QED  BY <2>4, <2>5, <3>1, <3>2 DEF w
  <2> QED  BY <2>7, <2>8
<1> QED  BY <1>1, <1>2

LEMMA JobsAre ==
    ASSUME StepInv
    PROVE  0 \notin Jobs
BY Parts, JobIs

\* The C. files without the first.
LEMMA RestIs ==
    ASSUME NEW q \in Seq(Seq(Nat)), q # <<>>
    PROVE  \A i \in DOMAIN Tail(q) : i + 1 \in DOMAIN q /\ Tail(q)[i] = q[i + 1] /\ i \in Nat
<1> DEFINE t == Tail(q)
<1>1. /\ t \in Seq(Seq(Nat)) /\ Len(t) = Len(q) - 1 /\ Len(q) \in Nat
      /\ \A i \in 1..(Len(q) - 1) : t[i] = q[i + 1]
      /\ DOMAIN q = 1..Len(q) /\ DOMAIN t = 1..Len(t)
  BY TailIs
<1> HIDE DEF t
<1>2. \A i \in DOMAIN t : i + 1 \in DOMAIN q /\ t[i] = q[i + 1] /\ i \in Nat
  BY <1>1
<1> QED  BY <1>2 DEF t

LEMMA RestOnce ==
    ASSUME NEW q \in Seq(Seq(Nat)), q # <<>>, OncePerJob(q)
    PROVE  OncePerJob(Tail(q))
<1> DEFINE t == Tail(q)
<1>1. \A i \in DOMAIN t : i + 1 \in DOMAIN q /\ t[i] = q[i + 1] /\ i \in Nat
  BY RestIs
<1> HIDE DEF t
<1>2. ASSUME NEW i \in DOMAIN t, NEW h \in DOMAIN t, NEW k \in DOMAIN t[i], NEW l \in DOMAIN t[h],
             t[i][k] = t[h][l]
      PROVE  i = h /\ k = l
  <2>1. i + 1 = h + 1 /\ k = l
    BY <1>1, <1>2 DEF OncePerJob
  <2> QED  BY <1>1, <2>1
<1>3. OncePerJob(t)
  BY <1>2 DEF OncePerJob
<1> QED  BY <1>3 DEF t

\* w is at the line behind the bookmark k of the C. files q, or at none.
LineGot(w, q, k) ==
    /\ w.job # 0 => q # <<>> /\ w.pos = k + 1 /\ w.pos # -1 /\ w.job = q[1][w.pos]
    /\ w.job = 0 => w.pos = -1

\* The lines of the queues after a step that leaves the jobs alone.
LEMMA LinesNext ==
    ASSUME UNCHANGED scenario,
           \A n \in Machine :
              /\ OncePerJob(queue'[n])
              /\ \A i \in DOMAIN queue'[n] : \A l \in DOMAIN queue'[n][i] : Job(queue'[n][i][l]).at = n
    PROVE  Lines'
<1>1. \A n \in Machine : OncePerJob(queue[n])'
  BY DEF OncePerJob
<1>2. ASSUME NEW n \in Machine, NEW i \in DOMAIN queue'[n], NEW l \in DOMAIN queue'[n][i]
      PROVE  scenario'.jobs[queue'[n][i][l]].at = n
  BY DEF Job
<1> QED  BY <1>1, <1>2 DEF Lines, Job

\* The queue of m after gtwvec: the line worked on is the only one passed over.
LEMMA WorkGot ==
    ASSUME StepInv, UNCHANGED scenario, Lines, AtLine, NEW m \in Machine,
           NEW w, w = gtwvec(queue[m], mark[m], cico[m].pos),
           queue' = [queue EXCEPT ![m] = w.queue],
           NEW k, k \in {w.mark, 0}, mark' = [mark EXCEPT ![m] = k]
    PROVE  /\ Lines'
           /\ queue'[Peer(m)] = queue[Peer(m)] /\ mark'[Peer(m)] = mark[Peer(m)]
           /\ mark'[m] = k
           /\ LineGot(w, queue'[m], w.mark)
           /\ w.job # 0 => w.job \in Jobs /\ Job(w.job).at = m
           /\ \A j \in Jobs : Pending(j) =>
                 Pending(j)' \/ (OnLine(m) /\ j = cico[m].job /\ Job(j).at = m)
<1> DEFINE q == queue[m]
<1>0. /\ TypeOK /\ WorkType /\ Queued(q, mark[m]) /\ 0 \notin Jobs /\ q \in Seq(Seq(Nat))
      /\ queue \in [Machine -> Seq(Seq(Nat))] /\ mark \in [Machine -> Nat]
      /\ cico[m].pos \in Nat \cup {-1} /\ Peer(m) \in Machine /\ Peer(m) # m
  <2>1. TypeOK /\ WorkType /\ LineType /\ 0 \notin Jobs
    BY Parts, JobsAre
  <2>2. cico[m] \in Cico
    BY <2>1, Wires DEF Fits
  <2> QED  BY <2>1, <2>2, Peers DEF WorkType, Cico, Queued
<1>1. /\ w.queue = q \/ (q # <<>> /\ w.queue = Tail(q))
      /\ w.job # 0 => /\ w.queue # <<>> /\ w.pos = w.mark + 1 /\ w.pos # -1
                      /\ w.job = w.queue[1][w.pos]
      /\ w.job = 0 => w.pos = -1
      /\ \A i, l : Ahead(q, mark[m], i, l) =>
            \/ i = 1 /\ cico[m].pos # -1 /\ l = cico[m].pos
            \/ Lined(w.queue, w.mark, q[i][l])
  <2>1. cico[m].pos # -1 => q # <<>> /\ cico[m].pos = mark[m] + 1
    BY DEF AtLine, OnLine
  <2> DEFINE v == gtwvec(q, mark[m], cico[m].pos)
  <2>2. /\ v.queue = q \/ (q # <<>> /\ v.queue = Tail(q))
        /\ v.job # 0 => /\ v.queue # <<>> /\ v.pos = v.mark + 1 /\ v.pos # -1
                        /\ v.job = v.queue[1][v.pos]
        /\ v.job = 0 => v.pos = -1
        /\ \A i, l : Ahead(q, mark[m], i, l) =>
              \/ i = 1 /\ cico[m].pos # -1 /\ l = cico[m].pos
              \/ Lined(v.queue, v.mark, q[i][l])
    BY <1>0, <2>1, GtwvecLine
  <2>3. v = w
    OBVIOUS
  <2> HIDE DEF v
  <2> QED  BY <2>2, <2>3
<1>2. w.mark \in Nat /\ w.job \in Jobs \cup {0}
  BY <1>0, GtwvecIs DEF Queued
<1>3. /\ queue'[m] = w.queue /\ mark'[m] = k /\ (k = w.mark \/ k = 0)
      /\ \A n \in Machine : n # m => queue'[n] = queue[n] /\ mark'[n] = mark[n]
  BY <1>0
<1>40. \A i \in DOMAIN w.queue : \A l \in DOMAIN w.queue[i] : Job(w.queue[i][l]).at = m
  <2>1. CASE w.queue = q
    BY <2>1 DEF Lines
  <2>2. CASE q # <<>> /\ w.queue = Tail(q)
    <3>1. \A i \in DOMAIN Tail(q) : i + 1 \in DOMAIN q /\ Tail(q)[i] = q[i + 1]
      BY <1>0, <2>2, RestIs
    <3> DEFINE t == w.queue
    <3>2. \A i \in DOMAIN t : i + 1 \in DOMAIN q /\ t[i] = q[i + 1]
      BY <2>2, <3>1
    <3> HIDE DEF t
    <3>3. \A i \in DOMAIN t : \A l \in DOMAIN t[i] : Job(t[i][l]).at = m
      BY <3>2 DEF Lines
    <3> QED  BY <3>3 DEF t
  <2> QED  BY <1>1, <2>1, <2>2
<1>4. Lines'
  <2>1. OncePerJob(w.queue)
    <3>1. OncePerJob(q)
      BY DEF Lines
    <3> QED  BY <1>0, <1>1, <3>1, RestOnce
  <2>3. \A n \in Machine :
           /\ OncePerJob(queue'[n])
           /\ \A i \in DOMAIN queue'[n] : \A l \in DOMAIN queue'[n][i] : Job(queue'[n][i][l]).at = n
    <3>1. ASSUME NEW n \in Machine, n # m
          PROVE  /\ queue'[n] = queue[n] /\ OncePerJob(queue[n])
                 /\ \A i \in DOMAIN queue[n] : \A l \in DOMAIN queue[n][i] : Job(queue[n][i][l]).at = n
      BY <1>3, <3>1 DEF Lines
    <3>2. queue'[m] = w.queue
      BY <1>3
    <3>3. ASSUME NEW n \in Machine
          PROVE  /\ OncePerJob(queue'[n])
                 /\ \A i \in DOMAIN queue'[n] : \A l \in DOMAIN queue'[n][i] : Job(queue'[n][i][l]).at = n
      <4>1. CASE n = m
        <5>1. queue'[n] = w.queue
          BY <3>2, <4>1
        <5>2. OncePerJob(queue'[n])
          BY <5>1, <2>1
        <5>3. \A i \in DOMAIN queue'[n] : \A l \in DOMAIN queue'[n][i] : Job(queue'[n][i][l]).at = m
          BY <5>1, <1>40
        <5> QED  BY <5>2, <5>3, <4>1
      <4>2. CASE n # m
        BY <3>1, <4>2
      <4> QED  BY <4>1, <4>2
    <3> QED  BY <3>3
  <2> QED  BY <2>3, LinesNext
<1>5. w.job # 0 => w.job \in Jobs /\ Job(w.job).at = m
  <2>1. Queued(w.queue, w.mark)
    BY <1>0, GtwvecIs
  <2> DEFINE t == w.queue
  <2> HIDE DEF t
  <2>2. ASSUME w.job # 0 PROVE 1 \in DOMAIN t /\ w.pos \in DOMAIN t[1]
    <3>1. t # <<>> /\ t \in Seq(Seq(Nat)) /\ w.mark \in Nat /\ w.mark < Len(t[1])
      BY <1>1, <2>1, <2>2 DEF Queued, t
    <3>2. 1 \in DOMAIN t /\ t[1] \in Seq(Nat)
      BY <3>1
    <3>3. w.pos \in 1..Len(t[1])
      BY <1>1, <2>2, <3>1, <3>2
    <3> QED  BY <3>2, <3>3
  <2>3. w.job # 0 => Job(w.job).at = m
    BY <1>1, <1>40, <2>2 DEF t
  <2> QED  BY <1>2, <2>3
<1>6. ASSUME NEW j \in Jobs, Pending(j)
      PROVE  Pending(j)' \/ (OnLine(m) /\ j = cico[m].job /\ Job(j).at = m)
  <2>1. Lined(queue[Job(j).at], mark[Job(j).at], j)
    BY <1>6, PendingIs
  <2>2. Job(j).at \in Machine
    BY <1>0, JobIs DEF JobType
  <2>3. CASE Job(j).at # m
    <3>1. Lined(queue'[Job(j).at], mark'[Job(j).at], j)
      BY <1>3, <2>1, <2>2, <2>3
    <3> QED  BY <3>1 DEF Pending, Lined, Ahead, Job
  <2>4. CASE Job(j).at = m
    <3>1. PICK i, l : Ahead(q, mark[m], i, l) /\ q[i][l] = j
      BY <2>1, <2>4 DEF Lined
    <3>2. CASE i = 1 /\ cico[m].pos # -1 /\ l = cico[m].pos
      BY <2>4, <3>1, <3>2 DEF AtLine, OnLine
    <3>3. CASE Lined(w.queue, w.mark, j)
      <4>1. Lined(w.queue, k, j)
        <5>1. PICK h, n : Ahead(w.queue, w.mark, h, n) /\ w.queue[h][n] = j
          BY <3>3 DEF Lined
        <5> DEFINE t == w.queue
        <5>2. Queued(t, w.mark)
          BY <1>0, GtwvecIs
        <5>3. t \in Seq(Seq(Nat))
          BY <5>2 DEF Queued
        <5> HIDE DEF t
        <5>4. h \in DOMAIN t /\ n \in DOMAIN t[h] /\ (h = 1 => n > w.mark)
          BY <5>1 DEF Ahead, t
        <5>5. t[h] \in Seq(Nat)
          BY <5>3, <5>4
        <5>6. n \in Nat /\ n > 0
          BY <5>4, <5>5
        <5>7. Ahead(t, k, h, n)
          BY <1>2, <1>3, <5>4, <5>6 DEF Ahead
        <5> QED  BY <5>1, <5>7 DEF Lined, t
      <4>2. Lined(queue'[m], mark'[m], j)
        BY <1>3, <4>1
      <4> QED  BY <2>4, <4>2 DEF Pending, Lined, Ahead, Job
    <3> QED  BY <1>1, <3>1, <3>2, <3>3
  <2> QED  BY <2>3, <2>4
<1>7. LineGot(w, queue'[m], w.mark)
  BY <1>1, <1>3 DEF LineGot
<1> QED  BY <1>0, <1>3, <1>4, <1>5, <1>6, <1>7

-----------------------------------------------------------------------------
(***************************************************************************)
(* The steps on the line, without the types of what is sent.               *)
(***************************************************************************)

LEMMA SendsGo ==
    ASSUME LineType, NEW m \in Machine, NEW msg, NEW c, Sends(m, msg, c)
    PROVE  /\ up' = up /\ cico'[Peer(m)] = cico[Peer(m)] /\ wire'[m] = wire[m]
           /\ up => cico'[m] = c /\ wire'[Peer(m)] = Append(wire[Peer(m)], msg)
           /\ ~up => cico'[m] = None /\ wire'[Peer(m)] = wire[Peer(m)]
BY Peers DEF Sends, LineType

LEMMA AnswersGo ==
    ASSUME LineType, NEW m \in Machine, NEW msg, NEW c, Answers(m, msg, c)
    PROVE  /\ up' = up /\ cico'[Peer(m)] = cico[Peer(m)] /\ wire'[m] = Tail(wire[m])
           /\ up => cico'[m] = c /\ wire'[Peer(m)] = Append(wire[Peer(m)], msg)
           /\ ~up => cico'[m] = None /\ wire'[Peer(m)] = wire[Peer(m)]
BY Peers DEF Answers, LineType

LEMMA TakesGo ==
    ASSUME LineType, NEW m \in Machine, NEW c, Takes(m, c)
    PROVE  /\ up' = up /\ cico'[Peer(m)] = cico[Peer(m)] /\ wire'[Peer(m)] = wire[Peer(m)]
           /\ cico'[m] = c /\ wire'[m] = Tail(wire[m])
BY Peers DEF Takes, LineType

LEMMA EndsGo ==
    ASSUME LineType, NEW m \in Machine, Ends(m)
    PROVE  /\ ~up' /\ cico'[Peer(m)] = cico[Peer(m)] /\ wire'[Peer(m)] = wire[Peer(m)]
           /\ cico'[m] = None /\ wire'[m] = <<>>
BY Peers DEF Ends, LineType

-----------------------------------------------------------------------------
(***************************************************************************)
(* The line a master is at.                                                *)
(***************************************************************************)

\* What AtLine says of the uucico c, with the C. files q and bookmark k.
LineOf(c, q, k) ==
    /\ c.pos # -1 => c.role = "MASTER" /\ q # <<>> /\ c.pos = k + 1 /\ c.job = q[1][c.pos]
    /\ c.pc = "reply" => c.role = "MASTER"
    /\ c.role = "MASTER" /\ c.pc \notin {"none", "top"} /\ c.job # 0 => c.pos # -1
    /\ c.role = "MASTER" /\ c.pc \in {"rddata", "stored"} => Job(c.job).type = "R"

LEMMA AtLineIs == AtLine <=> \A m \in Machine : LineOf(cico[m], queue[m], mark[m])
BY DEF AtLine, LineOf, OnLine

LEMMA AtLineNext ==
    ASSUME AtLine, UNCHANGED scenario, NEW m \in Machine, cico'[Peer(m)] = cico[Peer(m)],
           queue'[Peer(m)] = queue[Peer(m)], mark'[Peer(m)] = mark[Peer(m)],
           LineOf(cico'[m], queue'[m], mark'[m])
    PROVE  AtLine'
<1>1. \A n \in Machine : LineOf(cico'[n], queue'[n], mark'[n])
  BY Peers, AtLineIs
<1> QED  BY <1>1 DEF AtLine, LineOf, OnLine, Job

LEMMA LineOfNone ==
    ASSUME NEW q, NEW k
    PROVE  LineOf(None, q, k)
BY DEF LineOf, None

\* A line belongs to a job of the machine.
LEMMA OnLineIs ==
    ASSUME StepInv, Lines, AtLine, NEW m \in Machine, OnLine(m)
    PROVE  LET j == cico[m].job
           IN  j \in Jobs /\ j # 0 /\ Job(j).at = m /\ Pending(j) /\ cico[m].role = "MASTER"
<1> DEFINE q == queue[m]
           c == cico[m]
<1>1. Queued(q, mark[m]) /\ 0 \notin Jobs
  BY Parts, JobsAre DEF WorkType
<1>2. c.role = "MASTER" /\ q # <<>> /\ c.pos = mark[m] + 1 /\ c.job = q[1][c.pos]
  BY DEF AtLine
<1>3. q \in Seq(Seq(Nat)) /\ mark[m] \in Nat /\ mark[m] < Len(q[1])
  BY <1>1, <1>2 DEF Queued
<1>4. 1 \in DOMAIN q /\ q[1] \in Seq(Nat)
  BY <1>2, <1>3
<1>5. c.pos \in DOMAIN q[1] /\ c.pos > mark[m]
  BY <1>2, <1>3, <1>4
<1>6. c.job \in Jobs /\ Job(c.job).at = m
  BY <1>1, <1>2, <1>4, <1>5 DEF Queued, Lines
<1>7. Pending(c.job)
  BY <1>2, <1>4, <1>5, <1>6 DEF Pending
<1> QED  BY <1>1, <1>2, <1>6, <1>7

\* The steps of a uucico that leave its queue alone, and those that do not.
Kept(m) ==
    \/ SlaveHup(m) \/ HupAnswered(m) \/ SlaveSndfile(m) \/ SndfileAnswered(m)
    \/ SlaveRcvfile(m) \/ RcvfileAnswered(m) \/ Wrdata(m) \/ Rddata(m)
    \/ StoreFailed(m) \/ StoreTooBig(m) \/ StoreWrongSize(m) \/ Store(m) \/ Cmpt(m)
    \/ HungUp(m) \/ Kill(m) \/ KillInMove(m)
Gotten(m) == MasterTop(m) \/ MasterNoRoom(m) \/ KillInBookmark(m)

LEMMA Steps ==
    ASSUME [Next]_vars
    PROVE  \/ UNCHANGED vars
           \/ Break
           \/ \E m \in Machine : Call(m) \/ Gotten(m) \/ Kept(m)
BY DEF Next, Cntrl, Gotten, Kept

LEMMA KeptIs ==
    ASSUME NEW m \in Machine, Kept(m)
    PROVE  UNCHANGED <<scenario, queue, mark>>
<1>1. CASE \/ SlaveHup(m) \/ HupAnswered(m) \/ SlaveSndfile(m) \/ SndfileAnswered(m)
           \/ SlaveRcvfile(m) \/ RcvfileAnswered(m) \/ Wrdata(m) \/ Rddata(m)
  BY <1>1 DEF SlaveHup, HupAnswered, SlaveSndfile, SndfileAnswered, SlaveRcvfile,
     RcvfileAnswered, Wrdata, Rddata, workVars
<1>2. CASE \/ StoreFailed(m) \/ StoreTooBig(m) \/ StoreWrongSize(m) \/ Store(m) \/ Cmpt(m)
           \/ HungUp(m) \/ Kill(m) \/ KillInMove(m)
  BY <1>2 DEF StoreFailed, StoreTooBig, StoreWrongSize, Store, Cmpt, HungUp, Kill, KillInMove,
     workVars
<1> QED  BY <1>1, <1>2 DEF Kept

\* The steps that leave the queue alone.
LEMMA AtLineKept ==
    ASSUME StepInv, Lines, AtLine, NEW m \in Machine, Kept(m)
    PROVE  AtLine'
<1> DEFINE d == cico[m]
           c == cico'[m]
           b == Peer(m)
           q == queue[m]
           k == mark[m]
<1>0. LineType /\ TypeOK /\ LineInv /\ d \in Cico /\ b \in Machine /\ LineOf(d, q, k)
  BY Parts, Wires, Peers, AtLineIs DEF Fits
<1>1. cico'[b] = cico[b] /\ LineOf(c, q, k) => AtLine'
  BY AtLineNext, Peers, KeptIs
<1>2. LineOf(None, q, k)
  BY LineOfNone
<1> HIDE DEF q, k
<1>3. CASE SlaveHup(m)
  <2>1. /\ cico'[b] = cico[b] /\ d.role = "SLAVE" /\ d.pc = "top"
        /\ c \in {None, [d EXCEPT !.role = "MASTER"], [d EXCEPT !.pc = "hup"]}
    BY <1>0, <1>3, AnswersGo DEF SlaveHup, Gets
  <2>2. LineOf(c, q, k)
    BY <1>0, <1>2, <2>1 DEF LineOf, Cico
  <2> QED  BY <1>1, <2>1, <2>2
<1>4. CASE HupAnswered(m)
  <2>1. /\ cico'[b] = cico[b] /\ wire[m] # <<>> /\ d.pc \in {"reply", "hup"}
        /\ Head(wire[m]).t = "H"
        /\ c = None \/ (c = [d EXCEPT !.pc = "top", !.role = "SLAVE"] /\ Head(wire[m]).a # "Y")
    BY <1>0, <1>4, AnswersGo, TakesGo DEF HupAnswered, Gets
  <2>2. CASE c = None
    BY <1>1, <1>2, <2>1, <2>2
  <2>3. CASE c = [d EXCEPT !.pc = "top", !.role = "SLAVE"] /\ Head(wire[m]).a # "Y"
    <3>1. d.pc = "reply"
      <4>1. Ready(m) /\ Head(wire[m]) = wire[m][1]
        BY <1>0, <2>1, Reads, Wires, TailIs DEF LineInv
      <4> QED  BY <2>1, <2>3, <4>1 DEF Ready
    <3>2. d.job = 0
      BY <1>0, <2>1, <3>1, GotAnswer
    <3>3. d.pos = -1
      BY <3>2, OnLineIs DEF OnLine
    <3>4. LineOf(c, q, k)
      BY <1>0, <2>3, <3>3 DEF LineOf, Cico
    <3> QED  BY <1>1, <2>1, <3>4
  <2> QED  BY <2>1, <2>2, <2>3
<1>5. CASE SlaveSndfile(m)
  <2>1. /\ cico'[b] = cico[b] /\ d.role = "SLAVE" /\ d.pc = "top"
        /\ c \in {None, d, [d EXCEPT !.pc = "rddata", !.job = Head(wire[m]).job,
                                     !.size = Head(wire[m]).n, !.ret = "ok"]}
    BY <1>0, <1>5, AnswersGo DEF SlaveSndfile, Gets
  <2>2. LineOf(c, q, k)
    BY <1>0, <1>2, <2>1 DEF LineOf, Cico
  <2> QED  BY <1>1, <2>1, <2>2
<1>6. CASE SndfileAnswered(m)
  <2>1. /\ cico'[b] = cico[b] /\ d.pc = "reply"
        /\ c \in {None, [d EXCEPT !.pc = "wrdata", !.at = Head(wire[m]).n], [d EXCEPT !.pc = "top"]}
    BY <1>0, <1>6, TakesGo, EndsGo DEF SndfileAnswered, Gets
  <2>2. LineOf(c, q, k)
    BY <1>0, <1>2, <2>1 DEF LineOf, Cico
  <2> QED  BY <1>1, <2>1, <2>2
<1>7. CASE SlaveRcvfile(m)
  <2>1. /\ cico'[b] = cico[b] /\ d.role = "SLAVE" /\ d.pc = "top"
        /\ c \in {None, d,
                  [d EXCEPT !.pc = "wrdata", !.job = Head(wire[m]).job,
                            !.at = IF scenario.restart THEN Head(wire[m]).n ELSE 0]}
    BY <1>0, <1>7, AnswersGo DEF SlaveRcvfile, Gets
  <2>2. LineOf(c, q, k)
    BY <1>0, <1>2, <2>1 DEF LineOf, Cico
  <2> QED  BY <1>1, <2>1, <2>2
<1>8. CASE RcvfileAnswered(m)
  <2>1. /\ cico'[b] = cico[b] /\ d.pc = "reply" /\ wire[m] # <<>> /\ Head(wire[m]).t = "R"
        /\ \E n : c \in {[d EXCEPT !.pc = "rddata", !.size = n, !.ret = "ok"], [d EXCEPT !.pc = "top"]}
    BY <1>0, <1>8, TakesGo DEF RcvfileAnswered, Gets
  <2>2. d.job # 0 /\ Job(d.job).type = "R"
    BY <1>0, <2>1, GotAnswer, JobIs
  <2>3. LineOf(c, q, k)
    BY <1>0, <2>1, <2>2 DEF LineOf, Cico
  <2> QED  BY <1>1, <2>1, <2>3
<1>9. CASE Wrdata(m)
  <2>1. /\ cico'[b] = cico[b] /\ d.pc = "wrdata"
        /\ c \in {None, [d EXCEPT !.pc = "cmpt"], [d EXCEPT !.at = @ + BUFSIZ]}
    BY <1>0, <1>9, SendsGo DEF Wrdata
  <2>2. \/ c = None
        \/ c.pos = d.pos /\ c.job = d.job /\ c.role = d.role /\ c.pc \in {"cmpt", "wrdata"}
    <3> HIDE DEF d, c
    <3>1. CASE c = [d EXCEPT !.pc = "cmpt"]
      BY <1>0, <3>1 DEF Cico
    <3>2. CASE c = [d EXCEPT !.at = @ + BUFSIZ]
      BY <1>0, <2>1, <3>2 DEF Cico
    <3> QED  BY <2>1, <3>1, <3>2
  <2>3. LineOf(c, q, k)
    <3> HIDE DEF d, c
    <3> QED  BY <1>0, <1>2, <2>1, <2>2 DEF LineOf
  <2> QED  BY <1>1, <2>1, <2>3
<1>10. CASE Rddata(m)
  <2>1. /\ cico'[b] = cico[b] /\ d.pc = "rddata"
        /\ \E r : \E p \in {"rddata", "stored"} : c = [d EXCEPT !.ret = r, !.pc = p]
    <3>1. d.pc = "rddata" /\ \E r : Takes(m, [d EXCEPT !.ret = r, !.pc = IF Len(Head(wire[m]).data) < BUFSIZ
                                                                       THEN "stored" ELSE @])
      BY <1>10 DEF Rddata, Gets
    <3>2. PICK r, e : e = [d EXCEPT !.ret = r, !.pc = IF Len(Head(wire[m]).data) < BUFSIZ
                                                      THEN "stored" ELSE @] /\ Takes(m, e)
      BY <3>1
    <3>3. cico'[b] = cico[b] /\ c = e
      BY <1>0, <3>2, TakesGo
    <3>4. e \in {[d EXCEPT !.ret = r, !.pc = "stored"], [d EXCEPT !.ret = r, !.pc = "rddata"]}
      <4> HIDE DEF d
      <4> QED  BY <3>1, <3>2
    <3> QED  BY <3>1, <3>3, <3>4
  <2>2. LineOf(c, q, k)
    BY <1>0, <2>1 DEF LineOf, Cico
  <2> QED  BY <1>1, <2>1, <2>2
<1>11. CASE StoreFailed(m) \/ StoreWrongSize(m) \/ Kill(m) \/ KillInMove(m)
  <2>1. Ends(m)
    BY <1>11 DEF StoreFailed, StoreWrongSize, Kill, KillInMove
  <2> QED  BY <1>0, <1>1, <1>2, <2>1, EndsGo
<1>12. CASE StoreTooBig(m) \/ Store(m)
  <2>1. cico'[b] = cico[b] /\ c \in {None, [d EXCEPT !.pc = "top"]}
    BY <1>0, <1>12, SendsGo DEF StoreTooBig, Store
  <2>2. LineOf(c, q, k)
    BY <1>0, <1>2, <2>1 DEF LineOf, Cico
  <2> QED  BY <1>1, <2>1, <2>2
<1>13. CASE Cmpt(m)
  <2>1. cico'[b] = cico[b] /\ c = [d EXCEPT !.pc = "top"]
    BY <1>0, <1>13, TakesGo DEF Cmpt
  <2>2. LineOf(c, q, k)
    BY <1>0, <2>1 DEF LineOf, Cico
  <2> QED  BY <1>1, <2>1, <2>2
<1>14. CASE HungUp(m)
  <2>1. cico'[b] = cico[b] /\ c = None
    BY <1>0, <1>14, Peers DEF HungUp, LineType
  <2> QED  BY <1>1, <1>2, <2>1
<1> QED  BY <1>3, <1>4, <1>5, <1>6, <1>7, <1>8, <1>9, <1>10, <1>11, <1>12, <1>13, <1>14
         DEF Kept

\* The steps that get work; they change no queue but that of m.
LEMMA GottenIs ==
    ASSUME StepInv, Lines, AtLine, NEW m \in Machine, Gotten(m)
    PROVE  LET w == gtwvec(queue[m], mark[m], cico[m].pos)
           IN  /\ UNCHANGED scenario /\ cico[m].pc = "top" /\ cico[m].role = "MASTER"
               /\ cico'[Peer(m)] = cico[Peer(m)]
               /\ Lines'
               /\ queue'[Peer(m)] = queue[Peer(m)] /\ mark'[Peer(m)] = mark[Peer(m)]
               /\ w.job # 0 => w.job \in Jobs /\ Job(w.job).at = m
               /\ MasterTop(m) => LineGot(w, queue'[m], mark'[m])
               /\ \A j \in Jobs : Pending(j) =>
                     Pending(j)' \/ (OnLine(m) /\ j = cico[m].job /\ Job(j).at = m)
<1> DEFINE w == gtwvec(queue[m], mark[m], cico[m].pos)
           next == [cico[m] EXCEPT !.pc = "reply", !.pos = w.pos, !.job = w.job]
<1>0. LineType
  BY Parts
<1>1. /\ UNCHANGED scenario /\ cico[m].pc = "top" /\ cico[m].role = "MASTER"
      /\ queue' = [queue EXCEPT ![m] = w.queue]
      /\ \E k \in {w.mark, 0} : mark' = [mark EXCEPT ![m] = k]
      /\ MasterTop(m) => mark' = [mark EXCEPT ![m] = w.mark]
  BY DEF Gotten, MasterTop, MasterNoRoom, KillInBookmark
<1>2. cico'[Peer(m)] = cico[Peer(m)]
  <2>1. CASE MasterTop(m)
    <3>1. \/ \E msg : Sends(m, msg, next)
          \/ cico' = [cico EXCEPT ![m] = [next EXCEPT !.pc = "top"]]
      BY <2>1 DEF MasterTop
    <3> HIDE DEF next
    <3> QED  BY <1>0, <3>1, SendsGo, Peers DEF LineType
  <2>2. CASE MasterNoRoom(m) \/ KillInBookmark(m)
    BY <1>0, <2>2, EndsGo DEF MasterNoRoom, KillInBookmark
  <2> QED  BY <2>1, <2>2 DEF Gotten
<1>3. PICK k \in {w.mark, 0} : mark' = [mark EXCEPT ![m] = k]
  BY <1>1
<1>4. ASSUME NEW v, v = w
      PROVE
      /\ Lines'
      /\ queue'[Peer(m)] = queue[Peer(m)] /\ mark'[Peer(m)] = mark[Peer(m)]
      /\ mark'[m] = k
      /\ LineGot(v, queue'[m], v.mark)
      /\ v.job # 0 => v.job \in Jobs /\ Job(v.job).at = m
      /\ \A j \in Jobs : Pending(j) =>
            Pending(j)' \/ (OnLine(m) /\ j = cico[m].job /\ Job(j).at = m)
  <2>1. v = gtwvec(queue[m], mark[m], cico[m].pos)
    BY <1>4
  <2>2. queue' = [queue EXCEPT ![m] = v.queue] /\ k \in {v.mark, 0}
    BY <1>1, <1>3, <1>4
  <2> HIDE DEF w
  <2>3. UNCHANGED scenario /\ mark' = [mark EXCEPT ![m] = k]
    BY <1>1, <1>3
  <2> QED  BY <2>1, <2>2, <2>3, WorkGot
<1>5. MasterTop(m) => mark'[m] = w.mark
  <2>1. mark \in [Machine -> Nat]
    BY Parts DEF WorkType
  <2> HIDE DEF w
  <2> QED  BY <1>1, <2>1
<1> HIDE DEF w
<1> QED  BY <1>1, <1>2, <1>4, <1>5 DEF w

\* Every step keeps the lines.
LEMMA AtLineStep ==
    ASSUME StepInv, Lines, AtLine, [Next]_vars
    PROVE  Lines' /\ AtLine'
<1>0. LineType
  BY Parts
<1>1. ASSUME UNCHANGED <<scenario, queue>> PROVE Lines'
  BY <1>1 DEF Lines, OncePerJob, Job
<1>2. CASE UNCHANGED vars
  <2>1. UNCHANGED <<scenario, queue, mark, cico>>
    BY <1>2 DEF vars
  <2> QED  BY <1>1, <2>1 DEF AtLine, OnLine, Job
<1>3. CASE Break
  <2>1. UNCHANGED <<scenario, queue, mark, cico>>
    BY <1>3 DEF Break, workVars
  <2> QED  BY <1>1, <2>1 DEF AtLine, OnLine, Job
<1>4. ASSUME NEW m \in Machine, Call(m) PROVE Lines' /\ AtLine'
  <2>1. /\ UNCHANGED <<scenario, queue, mark>>
        /\ \A n \in Machine : cico'[n].pc = "top" /\ cico'[n].pos = -1
    BY <1>4 DEF Call, workVars, None
  <2> QED  BY <1>1, <2>1 DEF AtLine, OnLine
<1>5. ASSUME NEW m \in Machine, Kept(m) PROVE Lines' /\ AtLine'
  BY <1>1, <1>5, KeptIs, AtLineKept
<1>6. ASSUME NEW m \in Machine, Gotten(m) PROVE Lines' /\ AtLine'
  <2> DEFINE w == gtwvec(queue[m], mark[m], cico[m].pos)
             d == cico[m]
             next == [d EXCEPT !.pc = "reply", !.pos = w.pos, !.job = w.job]
  <2>1. /\ UNCHANGED scenario /\ d.pc = "top" /\ d.role = "MASTER"
        /\ cico'[Peer(m)] = cico[Peer(m)]
        /\ Lines'
        /\ queue'[Peer(m)] = queue[Peer(m)] /\ mark'[Peer(m)] = mark[Peer(m)]
        /\ MasterTop(m) => LineGot(w, queue'[m], mark'[m])
    BY <1>6, GottenIs
  <2>2. LineOf(cico'[m], queue'[m], mark'[m])
    <3>1. CASE MasterTop(m)
      <4>1. \/ \E msg : Sends(m, msg, next)
            \/ cico' = [cico EXCEPT ![m] = [next EXCEPT !.pc = "top"]]
        BY <3>1 DEF MasterTop
      <4>2. cico'[m] \in {None, next, [next EXCEPT !.pc = "top"]}
        <5> HIDE DEF next, d
        <5>1. ASSUME NEW msg, Sends(m, msg, next) PROVE cico'[m] \in {None, next}
          BY <1>0, <5>1, SendsGo
        <5>2. CASE cico' = [cico EXCEPT ![m] = [next EXCEPT !.pc = "top"]]
          BY <1>0, <5>2 DEF LineType
        <5> QED  BY <4>1, <5>1, <5>2
      <4>3. d \in Cico
        BY <1>0, Wires DEF Fits
      <4> HIDE DEF w, d
      <4>4. /\ next.pc = "reply" /\ next.role = "MASTER" /\ next.pos = w.pos /\ next.job = w.job
            /\ DOMAIN next = DOMAIN d /\ {"pc", "role", "pos", "job"} \subseteq DOMAIN next
        BY <2>1, <4>3 DEF Cico
      <4> HIDE DEF next
      <4>5. LET e == [next EXCEPT !.pc = "top"]
            IN  e.pc = "top" /\ e.role = "MASTER" /\ e.pos = w.pos /\ e.job = w.job
        BY <4>4
      <4> QED  BY <2>1, <3>1, <4>2, <4>4, <4>5, LineOfNone DEF LineOf, LineGot
    <3>2. CASE MasterNoRoom(m) \/ KillInBookmark(m)
      <4>1. cico'[m] = None
        BY <1>0, <3>2, EndsGo DEF MasterNoRoom, KillInBookmark
      <4> QED  BY <4>1, LineOfNone
    <3> QED  BY <1>6, <3>1, <3>2 DEF Gotten
  <2> QED  BY <2>1, <2>2, AtLineNext
<1> QED  BY <1>2, <1>3, <1>4, <1>5, <1>6, Steps

-----------------------------------------------------------------------------
(***************************************************************************)
(* What a step of the uucico at m does to the line.                        *)
(***************************************************************************)

Moved(m) == Gotten(m) \/ Kept(m)

\* It sends only while the line works, and goes on without sending only as a
\* master that passes over a line.
LEMMA Moves ==
    ASSUME StepInv, NEW m \in Machine, Moved(m)
    PROVE  /\ UNCHANGED scenario /\ cico[m].pc # "none" /\ cico'[Peer(m)] = cico[Peer(m)]
           /\ up' => up
           /\ \/ cico'[m] = None
              \/ up' = up /\ wire[m] # <<>> /\ wire'[m] = Tail(wire[m])
              \/ up' = up /\ wire'[m] = wire[m]
           /\ up' \/ wire'[Peer(m)] = wire[Peer(m)]
<1> DEFINE b == Peer(m)
           w == gtwvec(queue[m], mark[m], cico[m].pos)
           next == [cico[m] EXCEPT !.pc = "reply", !.pos = w.pos, !.job = w.job]
<1>0. LineType
  BY Parts
<1>1. \A msg, c : Sends(m, msg, c) =>
          /\ up' = up /\ cico'[b] = cico[b] /\ wire'[m] = wire[m]
          /\ ~up => cico'[m] = None /\ wire'[b] = wire[b]
  BY <1>0, SendsGo
<1>2. \A msg, c : Answers(m, msg, c) =>
          /\ up' = up /\ cico'[b] = cico[b] /\ wire'[m] = Tail(wire[m])
          /\ ~up => cico'[m] = None /\ wire'[b] = wire[b]
  BY <1>0, AnswersGo
<1>3. \A c : Takes(m, c) =>
          /\ up' = up /\ cico'[b] = cico[b] /\ wire'[m] = Tail(wire[m]) /\ wire'[b] = wire[b]
  BY <1>0, TakesGo
<1>4. Ends(m) => /\ ~up' /\ cico'[b] = cico[b] /\ cico'[m] = None /\ wire'[b] = wire[b]
  BY <1>0, EndsGo
<1>5. CASE MasterTop(m)
  <2>1. /\ UNCHANGED scenario /\ cico[m].pc = "top"
        /\ \/ \E msg : Sends(m, msg, next)
           \/ /\ cico' = [cico EXCEPT ![m] = [next EXCEPT !.pc = "top"]]
              /\ UNCHANGED <<wire, up>>
    BY <1>5 DEF MasterTop
  <2> HIDE DEF next
  <2> QED  BY <1>0, <1>1, <2>1, Peers DEF LineType
<1>6. CASE Ends(m) /\ UNCHANGED scenario /\ cico[m].pc # "none"
  BY <1>4, <1>6
<1>7. CASE \/ MasterNoRoom(m) \/ KillInBookmark(m) \/ StoreFailed(m) \/ StoreWrongSize(m)
           \/ Kill(m) \/ KillInMove(m)
  BY <1>6, <1>7 DEF MasterNoRoom, KillInBookmark, StoreFailed, StoreWrongSize, Kill, KillInMove
<1>8. CASE SlaveHup(m) \/ SlaveSndfile(m) \/ SlaveRcvfile(m)
  <2>1. /\ UNCHANGED scenario /\ cico[m].pc = "top" /\ wire[m] # <<>>
        /\ \E msg, c : Answers(m, msg, c)
    BY <1>8 DEF SlaveHup, SlaveSndfile, SlaveRcvfile, Gets
  <2> QED  BY <1>2, <2>1
<1>9. CASE HupAnswered(m) \/ SndfileAnswered(m) \/ RcvfileAnswered(m) \/ Rddata(m) \/ Cmpt(m)
  <2>1. /\ UNCHANGED scenario /\ cico[m].pc # "none" /\ wire[m] # <<>>
        /\ (\E msg, c : Answers(m, msg, c)) \/ (\E c : Takes(m, c)) \/ Ends(m)
    BY <1>9 DEF HupAnswered, SndfileAnswered, RcvfileAnswered, Rddata, Cmpt, Gets
  <2> QED  BY <1>2, <1>3, <1>4, <2>1
<1>10. CASE Wrdata(m) \/ StoreTooBig(m) \/ Store(m)
  <2>1. /\ UNCHANGED scenario /\ cico[m].pc # "none"
        /\ \E msg, c : Sends(m, msg, c)
    BY <1>10 DEF Wrdata, StoreTooBig, Store
  <2> QED  BY <1>1, <2>1
<1>11. CASE HungUp(m)
  <2>1. /\ UNCHANGED <<scenario, wire, up>> /\ cico[m].pc # "none"
        /\ cico' = [cico EXCEPT ![m] = None]
    BY <1>11 DEF HungUp
  <2> QED  BY <1>0, <2>1, Peers DEF LineType
<1> QED  BY <1>5, <1>7, <1>8, <1>9, <1>10, <1>11 DEF Moved, Gotten, Kept

LEMMA SilentStep ==
    ASSUME StepInv, Silent, [Next]_vars
    PROVE  Silent'
<1>1. CASE UNCHANGED vars
  BY <1>1 DEF vars, Silent, Both
<1>2. CASE Break
  BY <1>2 DEF Break, Silent
<1>3. ASSUME NEW m \in Machine, Call(m) PROVE Silent'
  BY <1>3 DEF Call, Silent
<1>4. ASSUME NEW m \in Machine, Moved(m), ~up', Both' PROVE \A n \in Machine : wire'[n] = <<>>
  <2>1. Peer(m) \in Machine /\ \A n \in Machine : n = m \/ n = Peer(m)
    BY Peers
  <2>2. cico'[m] # None
    BY <1>4, NoneFits DEF Both
  <2>3. /\ cico[m].pc # "none" /\ cico'[Peer(m)] = cico[Peer(m)] /\ up' = up
        /\ \/ wire[m] # <<>>
           \/ wire'[m] = wire[m]
        /\ up' \/ wire'[Peer(m)] = wire[Peer(m)]
    BY <1>4, <2>2, Moves
  <2>4. Both
    BY <1>4, <2>1, <2>3 DEF Both
  <2>5. \A n \in Machine : wire[n] = <<>>
    BY <1>4, <2>3, <2>4 DEF Silent
  <2> QED  BY <1>4, <2>1, <2>3, <2>5
<1> QED  BY <1>1, <1>2, <1>3, <1>4, Steps DEF Silent, Moved

-----------------------------------------------------------------------------
(***************************************************************************)
(* What a slave receives.                                                  *)
(***************************************************************************)

\* What Held says of the uucico c, if a with the messages w is the other end.
HeldBy(c, d, w, a) ==
    /\ scenario.jobs[c.job].at = a /\ scenario.jobs[c.job].type = "S" /\ Pending(c.job)
    /\ d.pc # "none" =>
          /\ d.role = "MASTER" /\ d.job = c.job
          /\ d.pc \in {"reply", "wrdata", "cmpt"}
          /\ \A i \in DOMAIN w : w[i].t = "S" /\ w[i].a = "Y"

LEMMA HeldIs ==
    Held <=> \A m \in Machine :
                 cico[m].role = "SLAVE" /\ cico[m].pc \in {"rddata", "stored"} =>
                     HeldBy(cico[m], cico[Peer(m)], wire[Peer(m)], Peer(m))
BY DEF Held, HeldBy, Job

LEMMA PendingStays ==
    ASSUME UNCHANGED <<scenario, queue, mark>>
    PROVE  \A j : Pending(j) => Pending(j)'
BY DEF Pending, Job

\* The uucico after MasterTop and after Rddata.
LEMMA TopGoes ==
    ASSUME StepInv, NEW m \in Machine, MasterTop(m)
    PROVE  LET w == gtwvec(queue[m], mark[m], cico[m].pos)
           IN  \/ cico'[m] = None
               \/ /\ cico'[m].pc \in {"reply", "top"} /\ cico'[m].role = "MASTER"
                  /\ cico'[m].pos = w.pos /\ cico'[m].job = w.job
<1> DEFINE w == gtwvec(queue[m], mark[m], cico[m].pos)
           next == [cico[m] EXCEPT !.pc = "reply", !.pos = w.pos, !.job = w.job]
<1>0. LineType /\ cico[m] \in Cico
  BY Parts, Wires DEF Fits
<1>1. /\ cico[m].role = "MASTER"
      /\ \/ \E msg : Sends(m, msg, next)
         \/ cico' = [cico EXCEPT ![m] = [next EXCEPT !.pc = "top"]]
  BY DEF MasterTop
<1>2. cico'[m] \in {None, next, [next EXCEPT !.pc = "top"]}
  <2> HIDE DEF next
  <2> QED  BY <1>0, <1>1, SendsGo DEF LineType
<1> HIDE DEF w
<1>3. /\ next.pc = "reply" /\ next.role = "MASTER" /\ next.pos = w.pos /\ next.job = w.job
      /\ LET e == [next EXCEPT !.pc = "top"]
         IN  e.pc = "top" /\ e.role = "MASTER" /\ e.pos = w.pos /\ e.job = w.job
  BY <1>0, <1>1 DEF Cico
<1> HIDE DEF next
<1> QED  BY <1>2, <1>3 DEF w

LEMMA RddataGoes ==
    ASSUME StepInv, NEW m \in Machine, Rddata(m)
    PROVE  LET x == Head(wire[m])
           IN  /\ cico[m].pc = "rddata" /\ wire[m] # <<>> /\ x = wire[m][1] /\ x \in Message
               /\ UNCHANGED <<scenario, queue, mark, dfiles, told, up>>
               /\ cico'[Peer(m)] = cico[Peer(m)] /\ wire'[Peer(m)] = wire[Peer(m)]
               /\ wire'[m] = Tail(wire[m])
               /\ cico'[m].role = cico[m].role /\ cico'[m].job = cico[m].job
               /\ cico'[m].size = cico[m].size
               /\ cico'[m].pc = IF Short(x) THEN "stored" ELSE "rddata"
               /\ \/ /\ cico[m].ret = "ok" /\ cico'[m].ret = "ok"
                     /\ Appended(cico[m].job, x.data) /\ NoFault
                  \/ /\ cico[m].ret # "ok" /\ cico'[m].ret = cico[m].ret
                     /\ NoFault /\ UNCHANGED <<pfile, dest, linked>>
                  \/ /\ cico[m].ret = "ok"
                     /\ \E k \in 0..(Len(x.data) - 1) :
                           /\ Appended(cico[m].job, SubSeq(x.data, 1, k))
                           /\ \/ k > 0 /\ Fault("short") /\ cico'[m].ret = "ok"
                              \/ Fault("full") /\ cico'[m].ret = "fail"
                              \/ Fault("ulimit") /\ cico'[m].ret = "big"
<1> DEFINE x == Head(wire[m])
           d == cico[m]
           e(r) == [d EXCEPT !.ret = r, !.pc = IF Len(x.data) < BUFSIZ THEN "stored" ELSE @]
<1>0. /\ d.pc = "rddata" /\ wire[m] # <<>>
      /\ UNCHANGED <<scenario, queue, mark, dfiles, told>>
      /\ \/ d.ret = "ok" /\ Appended(d.job, x.data) /\ Takes(m, e("ok")) /\ NoFault
         \/ d.ret # "ok" /\ Takes(m, e(d.ret)) /\ NoFault /\ UNCHANGED <<pfile, dest, linked>>
         \/ /\ d.ret = "ok"
            /\ \E k \in 0..(Len(x.data) - 1) :
                  /\ Appended(d.job, SubSeq(x.data, 1, k))
                  /\ \/ k > 0 /\ Fault("short") /\ Takes(m, e("ok"))
                     \/ Fault("full") /\ Takes(m, e("fail"))
                     \/ Fault("ulimit") /\ Takes(m, e("big"))
  BY DEF Rddata, Gets, workVars, fileVars
<1>1. LineType /\ d \in Cico /\ x = wire[m][1] /\ x \in Message
  BY <1>0, Parts, Wires, TailIs DEF Fits
<1>2. \A r : Takes(m, e(r)) =>
          /\ up' = up /\ cico'[Peer(m)] = cico[Peer(m)] /\ wire'[Peer(m)] = wire[Peer(m)]
          /\ cico'[m] = e(r) /\ wire'[m] = Tail(wire[m])
  <2> HIDE DEF e
  <2> QED  BY <1>1, TakesGo
<1> HIDE DEF x
<1>3. \A r : /\ e(r).role = d.role /\ e(r).job = d.job /\ e(r).size = d.size /\ e(r).ret = r
             /\ e(r).pc = IF Short(x) THEN "stored" ELSE "rddata"
  <2>1. CASE Len(x.data) < BUFSIZ
    <3>1. \A r : e(r) = [d EXCEPT !.ret = r, !.pc = "stored"]
      BY <2>1
    <3> QED  BY <1>1, <2>1, <3>1 DEF Cico, Short
  <2>2. CASE ~(Len(x.data) < BUFSIZ)
    <3>1. \A r : e(r) = [d EXCEPT !.ret = r, !.pc = "rddata"]
      BY <1>0, <2>2
    <3> QED  BY <1>1, <2>2, <3>1 DEF Cico, Short
  <2> QED  BY <2>1, <2>2
<1> HIDE DEF e
<1>4. /\ \E r : Takes(m, e(r))
      /\ \/ d.ret = "ok" /\ Appended(d.job, x.data) /\ cico'[m].ret = "ok" /\ NoFault
         \/ /\ d.ret # "ok" /\ cico'[m].ret = d.ret /\ NoFault
            /\ UNCHANGED <<pfile, dest, linked>>
         \/ /\ d.ret = "ok"
            /\ \E k \in 0..(Len(x.data) - 1) :
                  /\ Appended(d.job, SubSeq(x.data, 1, k))
                  /\ \/ k > 0 /\ Fault("short") /\ cico'[m].ret = "ok"
                     \/ Fault("full") /\ cico'[m].ret = "fail"
                     \/ Fault("ulimit") /\ cico'[m].ret = "big"
  <2>1. \A r : Takes(m, e(r)) => cico'[m].ret = r
    BY <1>2, <1>3
  <2> QED  BY <1>0, <2>1
<1> QED  BY <1>0, <1>1, <1>2, <1>3, <1>4 DEF x

\* The only steps after which m has asked for something or receives a file.
LEMMA Receivers ==
    ASSUME StepInv, NEW m \in Machine, Moved(m), cico'[m].pc \in {"reply", "rddata", "stored"}
    PROVE  LET x == Head(wire[m])
               c == cico'[m]
           IN  \/ MasterTop(m) /\ up /\ c.pc = "reply"
               \/ /\ SlaveSndfile(m) /\ up /\ Open(x.job) /\ NoFault
                  /\ c.pc = "rddata" /\ c.job = x.job /\ c.size = x.n /\ c.ret = "ok"
                  /\ wire'[m] = Tail(wire[m])
                  /\ wire'[Peer(m)] = Append(wire[Peer(m)], Msg("S", "Y", x.job, StartPoint(x.job)))
               \/ /\ RcvfileAnswered(m) /\ x.a = "Y" /\ UNCHANGED pfile
                  /\ c.pc = "rddata" /\ c.role = cico[m].role /\ c.job = cico[m].job
                  /\ c.size = x.n /\ c.ret = "ok"
                  /\ wire'[m] = Tail(wire[m]) /\ wire'[Peer(m)] = wire[Peer(m)] /\ up' = up
               \/ Rddata(m)
<1> DEFINE d == cico[m]
           c == cico'[m]
           x == Head(wire[m])
<1>0. LineType /\ d \in Cico
  BY Parts, Wires DEF Fits
<1>1. c # None
  BY NoneFits
<1>2. CASE MasterTop(m)
  <2> DEFINE w == gtwvec(queue[m], mark[m], d.pos)
             next == [d EXCEPT !.pc = "reply", !.pos = w.pos, !.job = w.job]
             over == [next EXCEPT !.pc = "top"]
  <2>1. (\E msg : Sends(m, msg, next)) \/ cico' = [cico EXCEPT ![m] = over]
    BY <1>2 DEF MasterTop
  <2>2. over.pc = "top" /\ next.pc = "reply"
    BY <1>0 DEF Cico
  <2> HIDE DEF over, next
  <2>3. c # over
    BY <2>2
  <2>4. \A msg : Sends(m, msg, next) => (up => c = next) /\ (~up => c = None)
    BY <1>0, SendsGo
  <2> QED  BY <1>0, <1>1, <1>2, <2>1, <2>2, <2>3, <2>4 DEF LineType
<1>3. CASE \/ MasterNoRoom(m) \/ KillInBookmark(m) \/ StoreFailed(m) \/ StoreWrongSize(m)
           \/ Kill(m) \/ KillInMove(m) \/ HungUp(m)
  <2>1. Ends(m) \/ cico' = [cico EXCEPT ![m] = None]
    BY <1>3 DEF MasterNoRoom, KillInBookmark, StoreFailed, StoreWrongSize, Kill, KillInMove, HungUp
  <2> QED  BY <1>0, <1>1, <2>1, EndsGo DEF LineType
<1>4. CASE SlaveHup(m) \/ HupAnswered(m)
  <2>1. \/ d.pc = "top" /\ c \in {None, [d EXCEPT !.role = "MASTER"], [d EXCEPT !.pc = "hup"]}
        \/ c \in {None, [d EXCEPT !.pc = "top", !.role = "SLAVE"]}
    BY <1>0, <1>4, AnswersGo, TakesGo DEF SlaveHup, HupAnswered, Gets
  <2> QED  BY <1>0, <1>1, <2>1 DEF Cico
<1>5. CASE SndfileAnswered(m)
  <2>1. c \in {None, [d EXCEPT !.pc = "wrdata", !.at = x.n], [d EXCEPT !.pc = "top"]}
    BY <1>0, <1>5, TakesGo, EndsGo DEF SndfileAnswered, Gets
  <2> QED  BY <1>0, <1>1, <2>1 DEF Cico
<1>6. CASE SlaveRcvfile(m)
  <2>1. /\ d.pc = "top"
        /\ c \in {None, d,
                  [d EXCEPT !.pc = "wrdata", !.job = x.job,
                            !.at = IF scenario.restart THEN x.n ELSE 0]}
    BY <1>0, <1>6, AnswersGo DEF SlaveRcvfile, Gets
  <2> QED  BY <1>0, <1>1, <2>1 DEF Cico
<1>7. CASE Wrdata(m)
  <2>1. /\ d.pc = "wrdata"
        /\ c \in {None, [d EXCEPT !.pc = "cmpt"], [d EXCEPT !.at = @ + BUFSIZ]}
    BY <1>0, <1>7, SendsGo DEF Wrdata
  <2> QED  BY <1>0, <1>1, <2>1 DEF Cico
<1>8. CASE StoreTooBig(m) \/ Store(m) \/ Cmpt(m)
  <2>1. c \in {None, [d EXCEPT !.pc = "top"]}
    BY <1>0, <1>8, SendsGo, TakesGo DEF StoreTooBig, Store, Cmpt
  <2> QED  BY <1>0, <1>1, <2>1 DEF Cico
<1>9. CASE RcvfileAnswered(m)
  <2> DEFINE e == [d EXCEPT !.pc = "rddata", !.size = x.n, !.ret = "ok"]
             f == [d EXCEPT !.pc = "top"]
  <2>1. Takes(m, f) \/ (Takes(m, e) /\ x.a = "Y" /\ UNCHANGED pfile)
    BY <1>9 DEF RcvfileAnswered, fileVars
  <2> HIDE DEF x
  <2>2. /\ f.pc = "top"
        /\ e.pc = "rddata" /\ e.role = d.role /\ e.job = d.job /\ e.size = x.n /\ e.ret = "ok"
    BY <1>0 DEF Cico
  <2> HIDE DEF e, f
  <2>3. /\ Takes(m, f) => c = f
        /\ Takes(m, e) => /\ c = e /\ wire'[m] = Tail(wire[m])
                          /\ wire'[Peer(m)] = wire[Peer(m)] /\ up' = up
    BY <1>0, TakesGo
  <2> QED  BY <1>9, <2>1, <2>2, <2>3 DEF x
<1>10. CASE SlaveSndfile(m)
  <2> DEFINE e == [d EXCEPT !.pc = "rddata", !.job = x.job, !.size = x.n, !.ret = "ok"]
             y == Msg("S", "Y", x.job, StartPoint(x.job))
  <2>1. /\ d.pc = "top"
        /\ (\E msg : Answers(m, msg, d)) \/ (Answers(m, y, e) /\ Open(x.job) /\ NoFault)
    BY <1>10 DEF SlaveSndfile, Gets
  <2> HIDE DEF x, y
  <2>2. e.pc = "rddata" /\ e.job = x.job /\ e.size = x.n /\ e.ret = "ok"
    BY <1>0 DEF Cico
  <2> HIDE DEF e
  <2>3. /\ \A msg : Answers(m, msg, d) => c \in {d, None}
        /\ Answers(m, y, e) => /\ wire'[m] = Tail(wire[m])
                               /\ up => c = e /\ wire'[Peer(m)] = Append(wire[Peer(m)], y)
                               /\ ~up => c = None
    BY <1>0, AnswersGo
  <2> QED  BY <1>0, <1>1, <1>10, <2>1, <2>2, <2>3 DEF x, y, LineType
<1> QED  BY <1>2, <1>3, <1>4, <1>5, <1>6, <1>7, <1>8, <1>9, <1>10 DEF Moved, Gotten, Kept

\* A slave that receives a file has just begun to, or goes on with it.
LEMMA SlaveReads ==
    ASSUME StepInv, AtLine, NEW m \in Machine, Moved(m),
           cico'[m].role = "SLAVE", cico'[m].pc \in {"rddata", "stored"}
    PROVE  \/ SlaveSndfile(m)
           \/ Rddata(m) /\ cico[m].role = "SLAVE" /\ cico'[m].job = cico[m].job
<1>1. CASE RcvfileAnswered(m) /\ cico'[m].role = cico[m].role
  <2>1. cico[m].pc = "reply"
    BY <1>1 DEF RcvfileAnswered, Gets
  <2> QED  BY <1>1, <2>1 DEF AtLine
<1>2. CASE Rddata(m)
  BY <1>2, RddataGoes
<1> QED  BY <1>1, <1>2, Receivers

\* A request that reaches a slave over a line that works is for the job its
\* master is at.
LEMMA RequestIs ==
    ASSUME StepInv, Lines, AtLine, up, NEW m \in Machine, cico[m].pc = "top",
           cico[m].role = "SLAVE", wire[m] # <<>>, Head(wire[m]).t # "H"
    PROVE  LET a == Peer(m)
               j == Head(wire[m]).job
           IN  /\ cico[a].role = "MASTER" /\ cico[a].pc = "reply" /\ wire[a] = <<>>
               /\ cico[a].job = j /\ j \in Jobs /\ Job(j).at = a /\ Pending(j)
               /\ Len(wire[m]) = 1 /\ Request(wire[m][1], j)
<1> DEFINE a == Peer(m)
           j == Head(wire[m]).job
<1>0. TypeOK /\ LineInv /\ a \in Machine /\ LineType
  BY Parts, Peers
<1>1. /\ cico[a].role = "MASTER" /\ cico[a].pc = "reply" /\ wire[a] = <<>>
      /\ Len(wire[m]) = 1 /\ Request(wire[m][1], cico[a].job)
  BY <1>0, SlaveGot
<1>2. Head(wire[m]) = wire[m][1] /\ j \in Jobs /\ j # 0
  BY <1>0, GotRequest
<1>3. cico[a].job = j
  BY <1>1, <1>2 DEF Request
<1>4. OnLine(a)
  BY <1>0, <1>1, <1>2, <1>3 DEF AtLine
<1> QED  BY <1>0, <1>1, <1>2, <1>3, <1>4, OnLineIs

\* While a slave receives, the other end reads an answer "SY", sends the file,
\* waits or ends.
LEMMA HolderMoves ==
    ASSUME StepInv, AtLine, NEW m \in Machine, Moved(m), cico[m].role = "MASTER",
           cico[m].pc \in {"reply", "wrdata", "cmpt"},
           \A i \in DOMAIN wire[m] : wire[m][i].t = "S" /\ wire[m][i].a = "Y"
    PROVE  /\ Kept(m)
           /\ \/ cico'[m] = None
              \/ /\ SndfileAnswered(m) \/ Wrdata(m)
                 /\ cico'[m].role = "MASTER" /\ cico'[m].job = cico[m].job
                 /\ cico'[m].pc \in {"wrdata", "cmpt"}
                 /\ \A i \in DOMAIN wire'[m] : wire'[m][i].t = "S" /\ wire'[m][i].a = "Y"
<1> DEFINE d == cico[m]
           c == cico'[m]
<1>0. LineType /\ d \in Cico /\ wire[m] \in Seq(Message)
  BY Parts, Wires DEF Fits
<1>1. wire[m] # <<>> => Head(wire[m]).t = "S" /\ Head(wire[m]).a = "Y"
  <2>1. wire[m] # <<>> => Head(wire[m]) = wire[m][1] /\ 1 \in DOMAIN wire[m]
    BY <1>0, TailIs
  <2> QED  BY <2>1
<1>2. CASE SndfileAnswered(m)
  <2>1. /\ wire[m] # <<>> /\ c = [d EXCEPT !.pc = "wrdata", !.at = Head(wire[m]).n]
        /\ wire'[m] = Tail(wire[m])
    BY <1>0, <1>1, <1>2, TakesGo DEF SndfileAnswered, Gets
  <2> DEFINE t == Tail(wire[m])
  <2>2. \A i \in DOMAIN t : i + 1 \in DOMAIN wire[m] /\ t[i] = wire[m][i + 1]
    BY <1>0, <2>1, TailIs
  <2> HIDE DEF t
  <2>3. \A i \in DOMAIN t : t[i].t = "S" /\ t[i].a = "Y"
    BY <2>2
  <2> QED  BY <1>0, <1>2, <2>1, <2>3 DEF Cico, Kept, t
<1>3. CASE Wrdata(m)
  <2>1. /\ d.pc = "wrdata" /\ wire'[m] = wire[m]
        /\ c \in {None, [d EXCEPT !.pc = "cmpt"], [d EXCEPT !.at = @ + BUFSIZ]}
    BY <1>0, <1>3, SendsGo DEF Wrdata
  <2> QED  BY <1>0, <1>3, <2>1 DEF Cico, Kept
<1>4. CASE Kill(m) \/ HungUp(m)
  <2>1. Ends(m) \/ cico' = [cico EXCEPT ![m] = None]
    BY <1>4 DEF Kill, HungUp
  <2> QED  BY <1>0, <1>4, <2>1, EndsGo DEF LineType, Kept
<1>5. ~(MasterTop(m) \/ MasterNoRoom(m) \/ KillInBookmark(m) \/ SlaveHup(m)
        \/ SlaveSndfile(m) \/ SlaveRcvfile(m) \/ Rddata(m) \/ StoreFailed(m)
        \/ StoreTooBig(m) \/ StoreWrongSize(m) \/ Store(m) \/ KillInMove(m))
  BY DEF MasterTop, MasterNoRoom, KillInBookmark, SlaveHup, SlaveSndfile, SlaveRcvfile, Rddata,
     StoreFailed, StoreTooBig, StoreWrongSize, Store, KillInMove, Gets
<1>6. ~(HupAnswered(m) \/ RcvfileAnswered(m) \/ Cmpt(m))
  BY <1>1 DEF HupAnswered, RcvfileAnswered, Cmpt, Gets
<1> QED  BY <1>2, <1>3, <1>4, <1>5, <1>6 DEF Moved, Gotten, Kept

LEMMA HeldStep ==
    ASSUME StepInv, Lines, AtLine, Held, Silent, [Next]_vars
    PROVE  Held'
<1>0. LineType /\ TypeOK /\ LineInv
  BY Parts
<1>1. ASSUME \A n \in Machine :
                 cico'[n].role = "SLAVE" /\ cico'[n].pc \in {"rddata", "stored"} =>
                     HeldBy(cico[n], cico[Peer(n)], wire[Peer(n)], Peer(n))'
      PROVE  Held'
  BY <1>1 DEF Held, HeldBy, Job
<1>2. ASSUME NEW n \in Machine, UNCHANGED <<scenario, queue, mark>>,
             cico'[n].job = cico[n].job,
             HeldBy(cico[n], cico[Peer(n)], wire[Peer(n)], Peer(n)),
             \/ cico'[Peer(n)] = cico[Peer(n)] /\ (wire'[Peer(n)] = wire[Peer(n)] \/ wire'[Peer(n)] = <<>>)
             \/ cico'[Peer(n)] = None
             \/ /\ cico'[Peer(n)].role = "MASTER" /\ cico'[Peer(n)].job = cico[n].job
                /\ cico'[Peer(n)].pc \in {"wrdata", "cmpt"}
                /\ \A i \in DOMAIN wire'[Peer(n)] :
                      wire'[Peer(n)][i].t = "S" /\ wire'[Peer(n)][i].a = "Y"
      PROVE  HeldBy(cico[n], cico[Peer(n)], wire[Peer(n)], Peer(n))'
  <2>1. Pending(cico[n].job)'
    <3>1. Pending(cico[n].job)
      BY <1>2 DEF HeldBy
    <3> QED  BY <1>2, <3>1 DEF Pending, Job
  <2>2. DOMAIN <<>> = {}
    OBVIOUS
  <2> QED  BY <1>2, <2>1, <2>2, NoneFits DEF HeldBy
<1>3. CASE UNCHANGED vars \/ Break
  <2>1. /\ UNCHANGED <<scenario, queue, mark, cico>>
        /\ \A n \in Machine : wire'[n] = wire[n] \/ wire'[n] = <<>>
    BY <1>3 DEF vars, Break, workVars
  <2> QED  BY <1>1, <1>2, <2>1, HeldIs, Peers
<1>4. ASSUME NEW m \in Machine, Call(m) PROVE Held'
  <2>1. \A n \in Machine : cico'[n].pc = "top"
    BY <1>4 DEF Call, None
  <2> QED  BY <2>1 DEF Held
<1>5. ASSUME NEW m \in Machine, Moved(m), NEW n \in Machine,
             cico'[n].role = "SLAVE", cico'[n].pc \in {"rddata", "stored"}
      PROVE  HeldBy(cico[n], cico[Peer(n)], wire[Peer(n)], Peer(n))'
  <2>1. cico'[Peer(m)] = cico[Peer(m)] /\ Peer(n) \in Machine /\ Peer(m) \in Machine
    BY <1>5, Moves, Peers
  <2>2. CASE n = m
    <3>1. CASE Rddata(m) /\ cico[m].role = "SLAVE" /\ cico'[m].job = cico[m].job
      <4>1. /\ UNCHANGED <<scenario, queue, mark>> /\ wire'[Peer(m)] = wire[Peer(m)]
            /\ cico[m].pc = "rddata"
        BY <3>1, RddataGoes
      <4> QED  BY <1>2, <2>1, <2>2, <3>1, <4>1, HeldIs
    <3>2. CASE SlaveSndfile(m)
      <4> DEFINE x == Head(wire[m])
                 j == x.job
                 Y == Msg("S", "Y", j, StartPoint(j))
                 c == [cico[m] EXCEPT !.pc = "rddata", !.job = j, !.size = x.n, !.ret = "ok"]
      <4>1. /\ cico[m].pc = "top" /\ cico[m].role = "SLAVE" /\ wire[m] # <<>> /\ x.t = "S"
            /\ UNCHANGED <<scenario, queue, mark>>
            /\ \/ \E why \in {"N2", "N4"} : Answers(m, Msg("S", why, j, 0), cico[m])
               \/ Answers(m, Y, c)
        BY <3>2 DEF SlaveSndfile, Gets, workVars
      <4>2. /\ cico[m] \in Cico /\ x \in Message /\ j \in Jobs /\ x.t = Kind(j)
            /\ StartPoint(j) \in Nat /\ j \in Nat /\ Kind(j) = Job(j).type
        BY <1>0, <4>1, GotRequest, Wires, StartIs, JobIs DEF Fits
      <4>3. Y \in Message /\ Y.t = "S" /\ Y.a = "Y"
        <5>1. Y \in Message
          BY <4>2, MsgIs
        <5> QED  BY <5>1 DEF Msg
      <4>4. c \in Cico /\ c.job = j
        BY <4>2 DEF Cico, Message
      <4> HIDE DEF c, Y
      <4>5. up /\ Answers(m, Y, c)
        <5>1. \A msg, e : Answers(m, msg, e) => cico'[m] = IF up THEN e ELSE None
          BY <1>0, AnswersGo
        <5>2. cico'[m] # None /\ cico'[m] # cico[m]
          BY <1>5, <2>2, <4>1, NoneFits
        <5> QED  BY <4>1, <5>1, <5>2
      <4>6. /\ cico'[m] = c /\ cico'[Peer(m)] = cico[Peer(m)]
            /\ wire'[Peer(m)] # <<>> /\ Len(wire'[Peer(m)]) = 1 /\ wire'[Peer(m)][1] = Y
        BY <1>0, <4>1, <4>3, <4>4, <4>5, SlaveAnswers
      <4>7. /\ cico[Peer(m)].role = "MASTER" /\ cico[Peer(m)].pc = "reply"
            /\ cico[Peer(m)].job = j /\ Job(j).at = Peer(m) /\ Pending(j)
        BY <4>1, <4>5, RequestIs
      <4>8. \A i \in DOMAIN wire'[Peer(m)] : i = 1
        <5>1. wire'[Peer(m)] \in Seq(Message)
          <6>1. wire' \in [Machine -> Seq(Message)]
            BY <1>0, <4>1, <4>3, <4>4, <4>5, AnswersIs
          <6> QED  BY <2>1, <6>1
        <5> QED  BY <4>6, <5>1
      <4>9. PICK k : k = j
        OBVIOUS
      <4>10. Pending(cico[m].job)'
        <5>1. Pending(k)
          BY <4>7, <4>9
        <5>2. Pending(k)'
          BY <4>1, <5>1, PendingStays
        <5>3. cico'[m].job = k
          BY <4>4, <4>6, <4>9
        <5> QED  BY <5>2, <5>3 DEF Pending
      <4> QED  BY <2>2, <4>1, <4>2, <4>3, <4>4, <4>6, <4>7, <4>8, <4>10 DEF HeldBy, Job
    <3> QED  BY <1>5, <2>2, <3>1, <3>2, SlaveReads
  <2>3. CASE n # m
    <3>1. n = Peer(m) /\ m = Peer(n) /\ cico'[n] = cico[n]
      BY <2>1, <2>3, Peers
    <3>2. HeldBy(cico[n], cico[m], wire[m], m)
      BY <1>5, <3>1, HeldIs
    <3>3. cico[m].pc # "none"
      BY <1>5, Moves
    <3>4. /\ cico[m].role = "MASTER" /\ cico[m].job = cico[n].job
          /\ cico[m].pc \in {"reply", "wrdata", "cmpt"}
          /\ \A i \in DOMAIN wire[m] : wire[m][i].t = "S" /\ wire[m][i].a = "Y"
      BY <3>2, <3>3 DEF HeldBy
    <3>5. /\ Kept(m)
          /\ \/ cico'[m] = None
             \/ /\ cico'[m].role = "MASTER" /\ cico'[m].job = cico[m].job
                /\ cico'[m].pc \in {"wrdata", "cmpt"}
                /\ \A i \in DOMAIN wire'[m] : wire'[m][i].t = "S" /\ wire'[m][i].a = "Y"
      BY <1>5, <3>4, HolderMoves
    <3>6. UNCHANGED <<scenario, queue, mark>>
      BY <3>5, KeptIs
    <3> QED  BY <1>2, <3>1, <3>2, <3>4, <3>5, <3>6
  <2> QED  BY <2>2, <2>3
<1>6. ASSUME NEW m \in Machine, Moved(m) PROVE Held'
  BY <1>1, <1>5, <1>6
<1> QED  BY <1>3, <1>4, <1>6, Steps DEF Moved

-----------------------------------------------------------------------------
(***************************************************************************)
(* No job is lost.                                                         *)
(***************************************************************************)

\* The job at which m works, and whose file or answer it may put in place.
Handles(m, j) ==
    /\ j = cico[m].job /\ cico[m].pc \in {"rddata", "stored", "cmpt"}
    /\ cico[m].pc = "cmpt" => cico[m].role = "MASTER"

\* A step of m may tell another user of a failure, and delivers nothing else.
LEMMA Touches ==
    ASSUME StepInv, NEW m \in Machine, Moved(m), NEW j \in Jobs
    PROVE  \/ dest'[j] = dest[j] /\ (told'[j] = told[j] \/ Reported(j)')
           \/ Handles(m, j)
<1>0. DiskType /\ scenario' = scenario
  BY Parts, Moves
<1>1. ASSUME UNCHANGED dest, UNCHANGED told \/ \E k : Tell(k, "fail")
      PROVE  dest'[j] = dest[j] /\ (told'[j] = told[j] \/ Reported(j)')
  <2>1. ASSUME NEW k, k # j, Tell(k, "fail") PROVE told'[j] = told[j]
    BY <1>0, <2>1 DEF Tell, DiskType
  <2> QED  BY <1>0, <1>1, <2>1, TellReports
<1>2. CASE MasterTop(m)
  <2>1. UNCHANGED dest /\ (UNCHANGED told \/ \E k : Tell(k, "fail"))
    BY <1>2 DEF MasterTop, fileVars, Open
  <2> QED  BY <1>1, <2>1
<1>3. CASE \/ MasterNoRoom(m) \/ KillInBookmark(m) \/ SlaveHup(m) \/ HupAnswered(m)
           \/ SlaveSndfile(m) \/ SlaveRcvfile(m) \/ Wrdata(m) \/ StoreFailed(m)
           \/ StoreTooBig(m) \/ StoreWrongSize(m) \/ HungUp(m) \/ Kill(m)
  <2>1. UNCHANGED <<dest, told>>
    BY <1>3 DEF MasterNoRoom, KillInBookmark, SlaveHup, HupAnswered, SlaveSndfile, SlaveRcvfile,
       Wrdata, StoreFailed, StoreTooBig, StoreWrongSize, HungUp, Kill, fileVars, Open
  <2> QED  BY <1>1, <2>1
<1>4. CASE SndfileAnswered(m) \/ RcvfileAnswered(m)
  <2>1. UNCHANGED dest /\ (UNCHANGED told \/ \E k : Tell(k, "fail"))
    BY <1>4 DEF SndfileAnswered, RcvfileAnswered, fileVars
  <2> QED  BY <1>1, <2>1
<1>5. CASE Rddata(m)
  <2>1. /\ cico[m].pc = "rddata" /\ UNCHANGED told
        /\ UNCHANGED dest \/ \E d : dest' = [dest EXCEPT ![cico[m].job] = @ \o d]
    BY <1>5 DEF Rddata, Gets, Appended, fileVars
  <2> QED  BY <1>0, <2>1 DEF Handles, DiskType
<1>6. CASE Store(m) \/ KillInMove(m)
  <2>1. /\ cico[m].pc = "stored"
        /\ \E f : dest' = [dest EXCEPT ![cico[m].job] = f]
        /\ UNCHANGED told \/ \E what : Tell(cico[m].job, what)
    BY <1>6 DEF Store, KillInMove
  <2> QED  BY <1>0, <2>1 DEF Handles, DiskType, Tell
<1>7. CASE Cmpt(m)
  <2>1. /\ cico[m].pc = "cmpt" /\ UNCHANGED dest
        /\ UNCHANGED told \/ (cico[m].role = "MASTER" /\ \E what : Tell(cico[m].job, what))
    BY <1>7 DEF Cmpt, Gets, fileVars
  <2> QED  BY <1>0, <2>1 DEF Handles, DiskType, Tell
<1> QED  BY <1>2, <1>3, <1>4, <1>5, <1>6, <1>7 DEF Moved, Gotten, Kept

\* Such a job has not been passed.
LEMMA HandlesIs ==
    ASSUME StepInv, Lines, AtLine, Held, NEW m \in Machine, NEW j \in Jobs, Handles(m, j)
    PROVE  /\ Pending(j)
           /\ \/ cico[m].role = "MASTER" /\ OnLine(m) /\ Job(j).at = m
              \/ /\ cico[m].role = "SLAVE" /\ cico[m].pc \in {"rddata", "stored"}
                 /\ Job(j).at = Peer(m) /\ Job(j).type = "S"
                 /\ HeldBy(cico[m], cico[Peer(m)], wire[Peer(m)], Peer(m))
<1>0. j # 0 /\ cico[m] \in Cico
  BY Parts, JobIs, Wires DEF Fits
<1>1. CASE cico[m].role = "MASTER"
  <2>1. OnLine(m)
    BY <1>0, <1>1 DEF AtLine, Handles
  <2> QED  BY <1>1, <2>1, OnLineIs DEF Handles
<1>2. CASE cico[m].role = "SLAVE"
  <2>1. cico[m].pc \in {"rddata", "stored"} /\ j = cico[m].job
    BY <1>2 DEF Handles
  <2>2. HeldBy(cico[m], cico[Peer(m)], wire[Peer(m)], Peer(m))
    BY <1>2, <2>1, HeldIs
  <2> QED  BY <1>2, <2>1, <2>2 DEF HeldBy, Job
<1> QED  BY <1>0, <1>1, <1>2 DEF Cico

LEMMA NeverLostStep ==
    ASSUME StepInv, Lines, AtLine, Held, Left, NeverLost, [Next]_vars
    PROVE  NeverLost'
<1>0. DiskType /\ Jobs' = Jobs
  BY Parts, ScenarioStays DEF Jobs
<1>1. CASE UNCHANGED vars \/ Break \/ \E m \in Machine : Call(m)
  <2>1. UNCHANGED <<scenario, queue, mark, dest, told>>
    BY <1>1 DEF vars, Break, Call, workVars, fileVars
  <2>2. \A j \in Jobs : (Pending(j) => Pending(j)') /\ (Served(j) => Served(j)')
    BY <2>1, PendingStays, ServedStays
  <2> QED  BY <1>0, <2>2 DEF NeverLost
<1>2. ASSUME NEW m \in Machine, Moved(m), NEW j \in Jobs PROVE Pending(j)' \/ Served(j)'
  <2>1. Pending(j) \/ Served(j)
    BY DEF NeverLost
  <2>2. CASE Handles(m, j)
    <3>1. Pending(j) /\ cico[m].pc # "top"
      BY <2>2, HandlesIs DEF Handles
    <3>2. Kept(m)
      BY <1>2, <3>1, GottenIs DEF Moved
    <3> QED  BY <3>1, <3>2, KeptIs, PendingStays
  <2>3. CASE ~Handles(m, j)
    <3>1. dest'[j] = dest[j] /\ (told'[j] = told[j] \/ Reported(j)')
      BY <1>2, <2>3, Touches
    <3>2. Served(j) => Served(j)'
      BY <3>1, ServedStays
    <3>3. CASE Kept(m)
      BY <2>1, <3>2, <3>3, KeptIs, PendingStays
    <3>4. CASE Gotten(m)
      <4>1. /\ cico[m].pc = "top"
            /\ Pending(j) => Pending(j)' \/ (OnLine(m) /\ j = cico[m].job)
        BY <3>4, GottenIs
      <4>2. OnLine(m) /\ j = cico[m].job => Served(j)
        BY <4>1 DEF Left
      <4> QED  BY <2>1, <3>2, <4>1, <4>2
    <3> QED  BY <1>2, <3>3, <3>4 DEF Moved
  <2> QED  BY <2>2, <2>3
<1> QED  BY <1>0, <1>1, <1>2, Steps DEF NeverLost, Moved

\* A file that is its own beginning and long enough is whole.
LEMMA BegunIs ==
    ASSUME StepInv, NEW j \in Jobs, Begun(j), Len(pfile[j]) = Job(j).len
    PROVE  pfile[j] = Whole(j)
<1>1. /\ pfile[j] \in Seq(Nat) /\ Whole(j) \in Seq(Nat) /\ Len(Whole(j)) = Job(j).len
      /\ Job(j).len \in Nat
  BY Parts, WholeIs DEF DiskType
<1>2. \A i \in 1..Job(j).len : pfile[j][i] = Whole(j)[i]
  BY DEF Begun, Whole
<1> DEFINE f == pfile[j]
           g == Whole(j)
<1>3. f \in Seq(Nat) /\ g \in Seq(Nat) /\ Len(f) = Len(g) /\ \A i \in 1..Len(f) : f[i] = g[i]
  BY <1>1, <1>2
<1> HIDE DEF f, g
<1>4. f = g
  <2>1. DOMAIN f = 1..Len(f) /\ DOMAIN g = 1..Len(f)
    BY <1>3
  <2>2. f = [i \in DOMAIN f |-> f[i]] /\ g = [i \in DOMAIN g |-> g[i]]
    BY <1>3
  <2> QED  BY <1>3, <2>1, <2>2
<1> QED  BY <1>4 DEF f, g

LEMMA NotNoFile ==
    ASSUME NEW f \in Seq(Nat), \A i \in 1..Len(f) : f[i] # 0
    PROVE  f # NoFile
<1>1. Len(f) = 1 => f[1] # 0
  OBVIOUS
<1>2. NoFile \in Seq(Nat) /\ Len(NoFile) = 1 /\ NoFile[1] = 0
  BY DEF NoFile
<1> QED  BY <1>1, <1>2

\* What passes the size check is the file, unless the size does not tell.
LEMMA StoredIs ==
    ASSUME StepInv, DataInv, NEW m \in Machine, cico[m].pc = "stored", cico[m].ret = "ok",
           ~WrongSize(cico[m])
    PROVE  LET j == cico[m].job
           IN  j \in Jobs /\ (pfile[j] = Whole(j) \/ (~SizeTells /\ pfile[j] # NoFile))
<1> DEFINE j == cico[m].job
<1>1. TypeOK /\ DiskType /\ j \in Jobs
  BY Parts, Wires DEF Fits
<1>2. Len(pfile[j]) \in Nat /\ Job(j).len \in Nat
  BY <1>1, WholeIs DEF DiskType
<1>3. Aligned(j, Job(j).len) /\ cico[m].size = Job(j).len
  BY DEF DataInv, Receiving
<1>4. scenario.restart => Len(pfile[j]) = Job(j).len
  BY <1>3 DEF WrongSize
<1>5. pfile[j] # NoFile
  <2>1. \A i \in 1..Len(pfile[j]) : pfile[j][i] # 0
    BY <1>1 DEF DataInv, Partial
  <2> QED  BY <1>1, <2>1, NotNoFile DEF DiskType
<1>6. SizeTells => Len(pfile[j]) = Job(j).len /\ Begun(j)
  <2>1. Once => Len(pfile[j]) = Job(j).len /\ Begun(j)
    BY <1>2, <1>3, <1>4 DEF Aligned
  <2>2. OnlyShort => Len(pfile[j]) = Job(j).len /\ Begun(j)
    BY <1>2, <1>3, <1>4 DEF Aligned, OnlyShort
  <2> QED  BY <2>1, <2>2 DEF SizeTells
<1> QED  BY <1>1, <1>5, <1>6, BegunIs

\* When it is moved in place, it is delivered.
LEMMA StoreIs ==
    ASSUME StepInv, DataInv, NEW m \in Machine, Store(m), NEW j, j = cico[m].job
    PROVE  LET c == [cico[m] EXCEPT !.pc = "top"]
           IN  /\ j \in Jobs
               /\ \/ Delivered(j)' /\ Sends(m, Msg("C", "Y", j, 0), c)
                  \/ /\ Sends(m, Msg("C", "N5", j, 0), c)
                     /\ up /\ cico[m].role = "MASTER" => Reported(j)'
<1> DEFINE c == [cico[m] EXCEPT !.pc = "top"]
<1>1. /\ j \in Jobs /\ DiskType /\ UNCHANGED scenario
      /\ pfile[j] = Whole(j) \/ (~SizeTells /\ pfile[j] # NoFile)
  <2>1. cico[m].pc = "stored" /\ cico[m].ret = "ok" /\ ~WrongSize(cico[m]) /\ UNCHANGED scenario
    BY DEF Store
  <2> QED  BY <2>1, StoredIs, Parts
<1>2. \/ /\ dest' = [dest EXCEPT ![j] = pfile[j]] /\ NoFault
         /\ Sends(m, Msg("C", "Y", j, 0), c)
      \/ /\ Sends(m, Msg("C", "N5", j, 0), c)
         /\ up /\ cico[m].role = "MASTER" => Tell(j, "fail")
  BY DEF Store
<1>3. ASSUME dest' = [dest EXCEPT ![j] = pfile[j]], NoFault
      PROVE  Delivered(j)'
  <2>1. dest'[j] = pfile[j]
    BY <1>1, <1>3 DEF DiskType
  <2>2. SizeTells' <=> SizeTells
    BY <1>1, <1>3 DEF SizeTells, Once, OnlyShort, Had, NoFault
  <2> QED  BY <1>1, <2>1, <2>2 DEF Delivered, Whole, Job
<1>4. Tell(j, "fail") => Reported(j)'
  BY <1>1, TellReports
<1> HIDE DEF c
<1>5. \/ Delivered(j)' /\ Sends(m, Msg("C", "Y", j, 0), c)
      \/ /\ Sends(m, Msg("C", "N5", j, 0), c)
         /\ up /\ cico[m].role = "MASTER" => Reported(j)'
  BY <1>2, <1>3, <1>4
<1> QED  BY <1>1, <1>5 DEF c

LEMMA FailServes ==
    ASSUME NEW j, Reported(j)'
    PROVE  Served(j)'
BY DEF Served

\* A master that leaves a line has served it.
LEMMA LeftTop ==
    ASSUME StepInv, Lines, AtLine, Held, Left, DataInv, [Next]_vars, AtLine',
           NEW m \in Machine, Moved(m), cico'[m].pc = "top", cico'[m].pos # -1,
           NEW j, j = cico'[m].job
    PROVE  Served(j)'
<1> DEFINE d == cico[m]
           c == cico'[m]
           w == gtwvec(queue[m], mark[m], cico[m].pos)
           next == [d EXCEPT !.pc = "reply", !.pos = w.pos, !.job = w.job]
<1>0. /\ LineType /\ TypeOK /\ LineInv /\ DiskType /\ d \in Cico /\ Fits(d) /\ c # None
      /\ scenario' = scenario
  BY Parts, Wires, NoneFits, ScenarioStays DEF Fits
<1>1. c.role = "MASTER"
  BY DEF AtLine, OnLine
<1>2. CASE MasterTop(m)
  <2>1. /\ d.pc = "top" /\ d.role = "MASTER"
        /\ \/ \E msg : Sends(m, msg, next)
           \/ w.job # 0 /\ Tell(w.job, "fail") /\ cico' = [cico EXCEPT ![m] = [next EXCEPT !.pc = "top"]]
    BY <1>2 DEF MasterTop
  <2>2. w.job # 0 => w.job \in Jobs
    BY <1>2, GottenIs DEF Gotten
  <2> HIDE DEF w
  <2>3. next.pc = "reply" /\ [next EXCEPT !.pc = "top"].job = w.job
    BY <1>0 DEF Cico
  <2> HIDE DEF next
  <2>4. \A msg : Sends(m, msg, next) => c \in {None, next}
    BY <1>0, SendsGo
  <2>5. w.job \in Jobs /\ Tell(w.job, "fail") /\ c = [next EXCEPT !.pc = "top"]
    BY <1>0, <2>1, <2>2, <2>3, <2>4 DEF LineType
  <2>6. j \in Jobs /\ Tell(j, "fail")
    BY <2>3, <2>5
  <2> QED  BY <1>0, <2>6, TellReports, FailServes
<1>3. CASE \/ MasterNoRoom(m) \/ KillInBookmark(m) \/ StoreFailed(m) \/ StoreWrongSize(m)
           \/ Kill(m) \/ KillInMove(m) \/ HungUp(m)
  <2>1. Ends(m) \/ cico' = [cico EXCEPT ![m] = None]
    BY <1>3 DEF MasterNoRoom, KillInBookmark, StoreFailed, StoreWrongSize, Kill, KillInMove, HungUp
  <2> QED  BY <1>0, <2>1, EndsGo DEF LineType
<1>4. CASE SlaveHup(m)
  <2>1. /\ d.role = "SLAVE"
        /\ c \in {None, [d EXCEPT !.role = "MASTER"], [d EXCEPT !.pc = "hup"]}
    BY <1>0, <1>4, AnswersGo DEF SlaveHup, Gets
  <2>2. d.pos = -1
    BY <2>1 DEF AtLine, OnLine
  <2> QED  BY <1>0, <2>1, <2>2 DEF Cico
<1>5. CASE HupAnswered(m)
  <2>1. c \in {None, [d EXCEPT !.pc = "top", !.role = "SLAVE"]}
    BY <1>0, <1>5, AnswersGo, TakesGo DEF HupAnswered, Gets
  <2> QED  BY <1>0, <1>1, <2>1 DEF Cico
<1>6. CASE SlaveSndfile(m) \/ SlaveRcvfile(m)
  <2>1. d.role = "SLAVE"
    BY <1>6 DEF SlaveSndfile, SlaveRcvfile
  <2>2. c.role = "SLAVE"
    <3>1. CASE SlaveSndfile(m)
      <4>1. c \in {None, d, [d EXCEPT !.pc = "rddata", !.job = Head(wire[m]).job,
                                      !.size = Head(wire[m]).n, !.ret = "ok"]}
        BY <1>0, <3>1, AnswersGo DEF SlaveSndfile
      <4> QED  BY <1>0, <2>1, <4>1 DEF Cico
    <3>2. CASE SlaveRcvfile(m)
      <4>1. c \in {None, d, [d EXCEPT !.pc = "wrdata", !.job = Head(wire[m]).job,
                                      !.at = IF scenario.restart THEN Head(wire[m]).n ELSE 0]}
        BY <1>0, <3>2, AnswersGo DEF SlaveRcvfile
      <4> QED  BY <1>0, <2>1, <4>1 DEF Cico
    <3> QED  BY <1>6, <3>1, <3>2
  <2> QED  BY <1>1, <2>2
<1>7. CASE SndfileAnswered(m) \/ RcvfileAnswered(m)
  <2>1. /\ d.pc = "reply" /\ wire[m] # <<>>
        /\ \/ c \in {None, [d EXCEPT !.pc = "wrdata", !.at = Head(wire[m]).n],
                     [d EXCEPT !.pc = "rddata", !.size = Head(wire[m]).n, !.ret = "ok"]}
           \/ c = [d EXCEPT !.pc = "top"] /\ Tell(d.job, "fail") /\ Head(wire[m]).t # "H"
    BY <1>0, <1>7, TakesGo, EndsGo DEF SndfileAnswered, RcvfileAnswered, Gets
  <2>2. c = [d EXCEPT !.pc = "top"] /\ Tell(d.job, "fail") /\ Head(wire[m]).t # "H"
    BY <1>0, <2>1 DEF Cico
  <2>3. d.job \in Jobs
    BY <1>0, <2>1, <2>2, GotAnswer
  <2>4. j \in Jobs /\ Tell(j, "fail")
    BY <1>0, <2>2, <2>3 DEF Cico
  <2> QED  BY <1>0, <2>4, TellReports, FailServes
<1>8. CASE Wrdata(m) \/ Rddata(m)
  <2>1. CASE Rddata(m)
    <3>1. c.pc \in {"stored", "rddata"}
      BY <2>1, RddataGoes
    <3> QED  BY <3>1
  <2>2. CASE Wrdata(m)
    <3>1. /\ d.pc = "wrdata"
          /\ c \in {None, [d EXCEPT !.pc = "cmpt"], [d EXCEPT !.at = @ + BUFSIZ]}
      BY <1>0, <2>2, SendsGo DEF Wrdata
    <3> QED  BY <1>0, <3>1 DEF Cico
  <2> QED  BY <1>8, <2>1, <2>2
<1>9. CASE StoreTooBig(m) \/ Store(m)
  <2>1. d.pc = "stored" /\ up /\ c = [d EXCEPT !.pc = "top"]
    BY <1>0, <1>9, SendsGo DEF StoreTooBig, Store
  <2>2. d.role = "MASTER" /\ j = d.job /\ j \in Jobs
    BY <1>0, <1>1, <2>1 DEF Cico, Fits
  <2>3. CASE StoreTooBig(m)
    <3>1. Job(j).type = "R"
      BY <2>1, <2>2 DEF AtLine
    <3>2. Had("ulimit") > 0
      BY <2>1, <2>3 DEF DataInv, Receiving, StoreTooBig
    <3>3. UNCHANGED <<scenario, faults>>
      BY <2>3 DEF StoreTooBig, NoFault
    <3> QED  BY <3>1, <3>2, <3>3 DEF Served, Job, Had
  <2>4. CASE Store(m)
    <3>1. Delivered(j)' \/ Reported(j)'
      BY <2>1, <2>2, <2>4, StoreIs
    <3> QED  BY <3>1 DEF Served
  <2> QED  BY <1>9, <2>3, <2>4
<1>10. CASE Cmpt(m)
  <2>1. /\ d.pc = "cmpt" /\ wire[m] # <<>> /\ c = [d EXCEPT !.pc = "top"]
        /\ UNCHANGED <<dest, scenario, faults>>
        /\ d.role = "MASTER" => Tell(d.job, IF Head(wire[m]).a = "Y" THEN "ok" ELSE "fail")
    BY <1>0, <1>10, TakesGo DEF Cmpt, Gets, NoFault, fileVars
  <2>2. d.role = "MASTER" /\ j = d.job /\ j \in Jobs
    BY <1>0, <1>1, <2>1 DEF Cico, Fits
  <2>3. CASE Head(wire[m]).a = "Y"
    <3>1. 1 \in DOMAIN wire[m] /\ Head(wire[m]) = wire[m][1]
      BY <1>0, <2>1, Wires, TailIs
    <3>2. Delivered(j)
      BY <2>1, <2>2, <2>3, <3>1 DEF Left
    <3>3. Delivered(j)'
      BY <2>1, <3>2 DEF Delivered, Whole, Job, SizeTells, Once, OnlyShort, Had
    <3> QED  BY <3>3 DEF Served
  <2>4. CASE Head(wire[m]).a # "Y"
    <3>1. Reported(j)'
      BY <1>0, <2>1, <2>2, <2>4, TellReports
    <3> QED  BY <3>1, FailServes
  <2> QED  BY <2>3, <2>4
<1> QED  BY <1>2, <1>3, <1>4, <1>5, <1>6, <1>7, <1>8, <1>9, <1>10 DEF Moved, Gotten, Kept

\* The only step after which a uucico waits for RQSTCMPT.
LEMMA CmptAfter ==
    ASSUME StepInv, NEW m \in Machine, Moved(m), cico'[m].pc = "cmpt"
    PROVE  /\ Wrdata(m) /\ up /\ wire'[m] = wire[m] /\ cico[m].pc = "wrdata"
           /\ cico'[m].role = cico[m].role
<1> DEFINE d == cico[m]
           c == cico'[m]
<1>0. LineType /\ d \in Cico /\ c # None
  BY Parts, Wires, NoneFits DEF Fits
<1>1. CASE MasterTop(m)
  BY <1>0, <1>1, TopGoes
<1>2. CASE \/ MasterNoRoom(m) \/ KillInBookmark(m) \/ StoreFailed(m) \/ StoreWrongSize(m)
           \/ Kill(m) \/ KillInMove(m) \/ HungUp(m)
  <2>1. Ends(m) \/ cico' = [cico EXCEPT ![m] = None]
    BY <1>2 DEF MasterNoRoom, KillInBookmark, StoreFailed, StoreWrongSize, Kill, KillInMove, HungUp
  <2> QED  BY <1>0, <2>1, EndsGo DEF LineType
<1>3. CASE SlaveHup(m)
  <2>1. /\ d.pc = "top"
        /\ c \in {None, [d EXCEPT !.role = "MASTER"], [d EXCEPT !.pc = "hup"]}
    BY <1>0, <1>3, AnswersGo DEF SlaveHup, Gets
  <2> QED  BY <1>0, <2>1 DEF Cico
<1>4. CASE HupAnswered(m)
  <2>1. c \in {None, [d EXCEPT !.pc = "top", !.role = "SLAVE"]}
    BY <1>0, <1>4, AnswersGo, TakesGo DEF HupAnswered, Gets
  <2> QED  BY <1>0, <2>1 DEF Cico
<1>5. CASE SlaveSndfile(m)
  <2>1. /\ d.pc = "top"
        /\ c \in {None, d, [d EXCEPT !.pc = "rddata", !.job = Head(wire[m]).job,
                                     !.size = Head(wire[m]).n, !.ret = "ok"]}
    BY <1>0, <1>5, AnswersGo DEF SlaveSndfile, Gets
  <2> QED  BY <1>0, <2>1 DEF Cico
<1>6. CASE SlaveRcvfile(m)
  <2>1. /\ d.pc = "top"
        /\ c \in {None, d, [d EXCEPT !.pc = "wrdata", !.job = Head(wire[m]).job,
                                     !.at = IF scenario.restart THEN Head(wire[m]).n ELSE 0]}
    BY <1>0, <1>6, AnswersGo DEF SlaveRcvfile, Gets
  <2> QED  BY <1>0, <2>1 DEF Cico
<1>7. CASE SndfileAnswered(m) \/ RcvfileAnswered(m)
  <2>1. c \in {None, [d EXCEPT !.pc = "wrdata", !.at = Head(wire[m]).n], [d EXCEPT !.pc = "top"],
               [d EXCEPT !.pc = "rddata", !.size = Head(wire[m]).n, !.ret = "ok"]}
    BY <1>0, <1>7, TakesGo, EndsGo DEF SndfileAnswered, RcvfileAnswered, Gets
  <2> QED  BY <1>0, <2>1 DEF Cico
<1>8. CASE Wrdata(m)
  <2>1. /\ d.pc = "wrdata" /\ up /\ wire'[m] = wire[m]
        /\ c \in {[d EXCEPT !.pc = "cmpt"], [d EXCEPT !.at = @ + BUFSIZ]}
    BY <1>0, <1>8, SendsGo DEF Wrdata
  <2> QED  BY <1>0, <1>8, <2>1 DEF Cico
<1>9. CASE Rddata(m)
  BY <1>9, RddataGoes
<1>10. CASE StoreTooBig(m) \/ Store(m) \/ Cmpt(m)
  <2>1. c \in {None, [d EXCEPT !.pc = "top"]}
    BY <1>0, <1>10, SendsGo, TakesGo DEF StoreTooBig, Store, Cmpt
  <2> QED  BY <1>0, <2>1 DEF Cico
<1> QED  BY <1>1, <1>2, <1>3, <1>4, <1>5, <1>6, <1>7, <1>8, <1>9, <1>10
         DEF Moved, Gotten, Kept

LEMMA DeliveredStays ==
    ASSUME StepInv, [Next]_vars, NEW j, Delivered(j), dest'[j] = dest[j]
    PROVE  Delivered(j)'
<1>1. scenario' = scenario /\ (SizeTells' => SizeTells)
  BY ScenarioStays, TellsFall
<1> QED  BY <1>1 DEF Delivered, Whole, Job

\* A master that waits for RQSTCMPT hears of it from a slave that stores.
LEMMA Reports ==
    ASSUME StepInv, up, NEW m \in Machine, NEW n \in Machine, n = Peer(m),
           cico[n].role = "MASTER", cico[n].pc = "cmpt", Moved(m), wire'[n] # wire[n]
    PROVE  /\ StoreTooBig(m) \/ Store(m)
           /\ wire[n] = <<>> /\ cico[m].job = cico[n].job
<1>0. TypeOK /\ LineInv /\ LineType /\ m = Peer(n)
  BY Parts, Peers
<1>1. Talk(n) \/ Talk(m)
  <2>1. \E a \in Machine : Talk(a)
    BY <1>0, HasPeer DEF LineInv
  <2> QED  BY <1>0, <2>1, Peers
<1>2. ~Talk(m)
  BY <1>0 DEF Talk, Told, Asks, Sending, Fetching
<1>3. Sending(n)
  BY <1>1, <1>2 DEF Talk, Told, Asks, Fetching
<1>4. /\ cico[m].job = cico[n].job /\ cico[m].role = "SLAVE"
      /\ \/ cico[m].pc = "rddata"
         \/ cico[m].pc = "stored" /\ wire[n] = <<>>
         \/ cico[m].pc = "top" /\ wire[m] = <<>>
  BY <1>0, <1>3 DEF Sending
<1>5. ~Ends(m)
  BY <1>0, EndsGo
<1>6. ~(MasterTop(m) \/ MasterNoRoom(m) \/ KillInBookmark(m) \/ SlaveHup(m) \/ HupAnswered(m)
        \/ SlaveSndfile(m) \/ SndfileAnswered(m) \/ SlaveRcvfile(m) \/ RcvfileAnswered(m)
        \/ Wrdata(m) \/ Cmpt(m))
  BY <1>4 DEF MasterTop, MasterNoRoom, KillInBookmark, SlaveHup, HupAnswered, SlaveSndfile,
     SndfileAnswered, SlaveRcvfile, RcvfileAnswered, Wrdata, Cmpt, Gets
<1>7. ~(StoreFailed(m) \/ StoreWrongSize(m) \/ Kill(m) \/ KillInMove(m) \/ HungUp(m))
  BY <1>5 DEF StoreFailed, StoreWrongSize, Kill, KillInMove, HungUp
<1>8. ~Rddata(m)
  BY RddataGoes
<1>9. StoreTooBig(m) \/ Store(m)
  BY <1>6, <1>7, <1>8 DEF Moved, Gotten, Kept
<1>10. cico[m].pc = "stored"
  BY <1>9 DEF StoreTooBig, Store
<1> QED  BY <1>4, <1>9, <1>10

\* What a master is told of its file is true.
LEMMA LeftCmpt ==
    ASSUME StepInv, Lines, AtLine, Held, Left, DataInv, [Next]_vars,
           NEW m \in Machine, Moved(m), NEW n \in Machine,
           cico'[n].pc = "cmpt", cico'[n].role = "MASTER",
           NEW j, j = cico'[n].job, NEW i \in DOMAIN wire'[n], wire'[n][i].a = "Y"
    PROVE  Delivered(j)'
<1>0. LineType /\ TypeOK /\ LineInv /\ DOMAIN <<>> = {}
  BY Parts
<1>1. CASE n = m
  <2>1. up /\ wire'[m] = wire[m] /\ cico[m].pc = "wrdata" /\ cico[m].role = "MASTER"
    BY <1>1, CmptAfter
  <2>2. Sending(m)
    <3>1. Sending(m) \/ Fetching(Peer(m))
      BY <1>0, <2>1, Writing
    <3> QED  BY <2>1, <3>1, Peers DEF Fetching
  <2>3. wire[m] = <<>>
    BY <2>1, <2>2 DEF Sending
  <2> QED  BY <1>0, <1>1, <2>1, <2>3
<1>2. CASE n # m
  <2>1. n = Peer(m) /\ m = Peer(n) /\ cico'[n] = cico[n]
    BY <1>2, Moves, Peers
  <2>2. j \in Jobs /\ Job(j).at = n /\ j # 0
    <3>1. cico[n].job # 0
      BY <1>0, <2>1, Wires DEF Fits
    <3>2. OnLine(n)
      BY <2>1, <3>1 DEF AtLine
    <3> QED  BY <2>1, <3>2, OnLineIs
  <2>3. CASE wire'[n] = wire[n]
    <3>1. Delivered(j)
      BY <2>1, <2>3 DEF Left
    <3>2. ~Handles(m, j)
      <4>1. ASSUME HeldBy(cico[m], cico[n], wire[n], n) PROVE FALSE
        <5>1. wire[n] # <<>> /\ 1 \in DOMAIN wire[n]
          <6>1. wire[n] # <<>>
            BY <1>0, <2>3
          <6> QED  BY <1>0, <6>1, Wires
        <5>2. wire[n][1].t = "S"
          BY <2>1, <4>1, <5>1 DEF HeldBy
        <5>3. Ready(n)
          BY <1>0, <2>1, Reads DEF LineInv
        <5> QED  BY <2>1, <5>1, <5>2, <5>3 DEF Ready, Done
      <4> QED  BY <1>2, <2>1, <2>2, <4>1, HandlesIs
    <3>3. dest'[j] = dest[j]
      BY <2>2, <3>2, Touches
    <3> QED  BY <3>1, <3>3, DeliveredStays
  <2>4. CASE wire'[n] # wire[n]
    <3>1. up
      BY <2>1, <2>4, Moves
    <3>2. (StoreTooBig(m) \/ Store(m)) /\ wire[n] = <<>> /\ cico[m].job = j
      BY <2>1, <2>4, <3>1, Reports
    <3>3. \A msg, c : Sends(m, msg, c) => wire'[n] = <<msg>>
      <4>1. \A msg, c : Sends(m, msg, c) => wire'[n] = Append(wire[n], msg)
        BY <1>0, <2>1, <3>1, SendsGo
      <4> QED  BY <3>2, <4>1
    <3>4. \A msg : wire'[n] = <<msg>> => msg.a = "Y"
      <4>1. \A msg : DOMAIN <<msg>> = {1} /\ <<msg>>[1] = msg
        OBVIOUS
      <4> QED  BY <4>1
    <3>5. ~StoreTooBig(m) /\ \A c : ~Sends(m, Msg("C", "N5", j, 0), c)
      BY <3>3, <3>4 DEF StoreTooBig, Msg
    <3> QED  BY <3>2, <3>5, StoreIs
  <2> QED  BY <2>3, <2>4
<1> QED  BY <1>1, <1>2

LEMMA LeftStep ==
    ASSUME StepInv, Lines, AtLine, Held, Left, DataInv, [Next]_vars
    PROVE  Left'
<1>1. AtLine'
  BY AtLineStep
<1>2. ASSUME UNCHANGED <<scenario, cico, dest, told>>,
             \A n \in Machine : wire'[n] = wire[n] \/ wire'[n] = <<>>
      PROVE  Left'
  <2>1. ASSUME NEW n \in Machine, cico[n].pc = "top", OnLine(n) PROVE Served(cico[n].job)'
    <3>1. PICK j : j = cico[n].job
      OBVIOUS
    <3>2. Served(j)'
      BY <1>2, <2>1, <3>1, OnLineIs, ServedStays DEF Left
    <3> QED  BY <1>2, <3>1, <3>2 DEF Served, Reported, Delivered, Job, Whole
  <2>2. ASSUME NEW n \in Machine, cico[n].role = "MASTER", cico[n].pc = "cmpt",
               NEW i \in DOMAIN wire'[n], wire'[n][i].a = "Y"
        PROVE  Delivered(cico[n].job)'
    <3>1. PICK j : j = cico[n].job
      OBVIOUS
    <3>2. DOMAIN <<>> = {}
      OBVIOUS
    <3>3. Delivered(j)
      BY <1>2, <2>2, <3>1, <3>2 DEF Left
    <3>4. Delivered(j)'
      BY <1>2, <3>3, DeliveredStays
    <3> QED  BY <1>2, <3>1, <3>4 DEF Delivered, Job, Whole
  <2> QED  BY <1>2, <2>1, <2>2 DEF Left, OnLine
<1>3. CASE UNCHANGED vars \/ Break
  <2>1. /\ UNCHANGED <<scenario, cico, dest, told>>
        /\ \A n \in Machine : wire'[n] = wire[n] \/ wire'[n] = <<>>
    BY <1>3 DEF vars, Break, fileVars
  <2> QED  BY <1>2, <2>1
<1>4. ASSUME NEW m \in Machine, Call(m) PROVE Left'
  <2>1. \A n \in Machine : cico'[n].pc = "top" /\ cico'[n].pos = -1
    BY <1>4 DEF Call, None
  <2> QED  BY <2>1 DEF Left, OnLine
<1>5. ASSUME NEW m \in Machine, Moved(m) PROVE Left'
  <2>1. ASSUME NEW n \in Machine, cico'[n].pc = "top", cico'[n].pos # -1, NEW j, j = cico'[n].job
        PROVE  Served(j)'
    <3>1. CASE n = m
      BY <1>1, <1>5, <2>1, <3>1, LeftTop
    <3>2. CASE n # m
      <4>1. n = Peer(m) /\ m = Peer(n) /\ cico'[n] = cico[n]
        BY <1>5, <3>2, Moves, Peers
      <4>2. j \in Jobs /\ Job(j).at = n /\ j = cico[n].job
        BY <2>1, <4>1, OnLineIs DEF OnLine
      <4>3. Served(j)
        BY <2>1, <4>1 DEF Left, OnLine
      <4>4. ~Handles(m, j)
        BY <2>1, <3>2, <4>1, <4>2, HandlesIs DEF HeldBy
      <4> QED  BY <1>5, <4>2, <4>3, <4>4, Touches, ServedStays
    <3> QED  BY <3>1, <3>2
  <2>2. ASSUME NEW n \in Machine, cico'[n].pc = "cmpt", cico'[n].role = "MASTER",
               NEW j, j = cico'[n].job, NEW i \in DOMAIN wire'[n], wire'[n][i].a = "Y"
        PROVE  Delivered(j)'
    BY <1>5, <2>2, LeftCmpt
  <2>3. ASSUME NEW n \in Machine, cico'[n].pc = "top", cico'[n].pos # -1
        PROVE  Served(cico[n].job)'
    <3>1. PICK j : j = cico'[n].job
      OBVIOUS
    <3>2. Served(j)'
      BY <2>1, <2>3, <3>1
    <3> QED  BY <3>1, <3>2 DEF Served, Reported, Delivered, Job, Whole
  <2>4. ASSUME NEW n \in Machine, cico'[n].pc = "cmpt", cico'[n].role = "MASTER",
               NEW i \in DOMAIN wire'[n], wire'[n][i].a = "Y"
        PROVE  Delivered(cico[n].job)'
    <3>1. PICK j : j = cico'[n].job
      OBVIOUS
    <3>2. Delivered(j)'
      BY <2>2, <2>4, <3>1
    <3> QED  BY <3>1, <3>2 DEF Delivered, Job, Whole
  <2> QED  BY <2>3, <2>4 DEF Left, OnLine
<1> QED  BY <1>3, <1>4, <1>5, Steps DEF Moved

-----------------------------------------------------------------------------
(***************************************************************************)
(* Blocks of a file.                                                       *)
(***************************************************************************)

LEMMA OffsetIs ==
    ASSUME NEW p \in Nat, NEW i \in Nat
    PROVE  /\ Offset(p, i) \in Nat /\ Offset(p, 0) = p
           /\ Offset(p, i + 1) = Offset(p, i) + BUFSIZ
           /\ Offset(p + BUFSIZ, i) = Offset(p, i + 1)
<1>1. BUFSIZ \in Nat
  BY BufAssumption
<1>2. i * BUFSIZ \in Nat /\ (i + 1) * BUFSIZ = i * BUFSIZ + BUFSIZ /\ 0 * BUFSIZ = 0
  BY <1>1
<1> QED  BY <1>1, <1>2 DEF Offset

LEMMA ReachIs ==
    ASSUME StepInv, NEW j \in Jobs, NEW p \in Nat
    PROVE  /\ Reach(j, p) \in Nat /\ Reach(j, p + BUFSIZ) \in Nat /\ Job(j).len \in Nat
           /\ Reach(j, p) <= Job(j).len /\ Reach(j, p) <= p
           /\ Reach(j, p) <= Reach(j, p + BUFSIZ) /\ Reach(j, p + BUFSIZ) <= Job(j).len
           /\ Reach(j, p + BUFSIZ) <= Reach(j, p) + BUFSIZ
           /\ Reach(j, p) < Reach(j, p + BUFSIZ) => Reach(j, p) = p
           /\ Reach(j, p + BUFSIZ) = Job(j).len \/ Reach(j, p + BUFSIZ) = p + BUFSIZ
           /\ Reach(j, p + BUFSIZ) < Reach(j, p) + BUFSIZ => Reach(j, p + BUFSIZ) = Job(j).len
<1>1. Job(j).len \in Nat /\ BUFSIZ \in Nat \ {0}
  BY Parts, WholeIs, BufAssumption
<1> QED  BY <1>1 DEF Reach

LEMMA Divides ==
    ASSUME NEW B \in Nat \ {0}, NEW a \in Nat, a % B = 0
    PROVE  \E k \in Nat : a = B * k
OBVIOUS

\* A number between two boundaries is none.
LEMMA Between ==
    ASSUME NEW B \in Nat \ {0}, NEW q \in Nat, q % B = 0, NEW n \in Nat, q < n, n < q + B
    PROVE  n % B # 0
<1>1. ASSUME n % B = 0 PROVE FALSE
  <2>1. PICK k \in Nat : q = B * k
    BY Divides
  <2>2. PICK l \in Nat : n = B * l
    BY <1>1, Divides
  <2>3. k < l
    <3>1. ASSUME l <= k PROVE B * l <= B * k
      BY <3>1
    <3> QED  BY <2>1, <2>2, <3>1
  <2>4. l - k - 1 \in Nat /\ l = k + 1 + (l - k - 1)
    BY <2>3
  <2>5. \A e \in Nat : B * (k + 1 + e) = B * k + B + B * e /\ B * e \in Nat
    OBVIOUS
  <2> QED  BY <2>1, <2>2, <2>4, <2>5
<1> QED  BY <1>1

\* A file grows by d.
LEMMA Grows ==
    ASSUME NEW f \in Seq(Nat), NEW d \in Seq(Nat), NEW g, g = f \o d
    PROVE  /\ g \in Seq(Nat) /\ Len(f) \in Nat /\ Len(d) \in Nat /\ Len(g) = Len(f) + Len(d)
           /\ \A i \in 1..Len(f) : g[i] = f[i]
           /\ \A i \in 1..Len(d) : g[Len(f) + i] = d[i]
           /\ \A i \in 1..Len(g) : i \notin 1..Len(f) => i - Len(f) \in 1..Len(d) /\ g[i] = d[i - Len(f)]
OBVIOUS

\* The beginning of a block.
LEMMA Piece ==
    ASSUME NEW d \in Seq(Nat), NEW k \in 0..Len(d)
    PROVE  LET e == SubSeq(d, 1, k)
           IN  e \in Seq(Nat) /\ Len(e) = k /\ \A i \in 1..k : e[i] = d[i]
OBVIOUS

\* What becomes of a file when e, the beginning of the block behind p, is
\* appended to it.
LEMMA GrowsOn ==
    ASSUME StepInv, NEW j \in Jobs, NEW p \in Nat, UNCHANGED scenario,
           NEW e \in Seq(Nat), \A i \in 1..Len(e) : e[i] = p + i,
           Len(e) <= Reach(j, p + BUFSIZ) - Reach(j, p),
           pfile'[j] = pfile[j] \o e
    PROVE  LET n == Len(pfile[j])
               r == Reach(j, p)
           IN  /\ n \in Nat /\ Len(pfile'[j]) = n + Len(e)
               /\ n = r /\ Begun(j) => Begun(j)'
               /\ TooLong(j) => TooLong(j)'
               /\ n = Job(j).len /\ Begun(j) => TooLong(j)' \/ (Len(e) = 0 /\ Begun(j)')
               /\ (\A i \in 1..n : pfile[j][i] # 0) =>
                     \A i \in 1..Len(pfile'[j]) : pfile'[j][i] # 0
<1> DEFINE n == Len(pfile[j])
           r == Reach(j, p)
           f == pfile[j]
           g == pfile'[j]
           len == Job(j).len
<1>1. /\ f \in Seq(Nat) /\ len \in Nat /\ r \in Nat /\ Reach(j, p + BUFSIZ) \in Nat
      /\ Reach(j, p + BUFSIZ) <= len
      /\ r < Reach(j, p + BUFSIZ) => r = p
  BY Parts, ReachIs DEF DiskType
<1>2. /\ g \in Seq(Nat) /\ Len(f) \in Nat /\ Len(e) \in Nat /\ Len(g) = Len(f) + Len(e)
      /\ \A i \in 1..Len(f) : g[i] = f[i]
      /\ \A i \in 1..Len(g) : i \notin 1..Len(f) => i - Len(f) \in 1..Len(e) /\ g[i] = e[i - Len(f)]
  BY <1>1, Grows
<1>3. Begun(j)' <=> Len(g) <= len /\ \A i \in 1..Len(g) : g[i] = i
  BY DEF Begun, Job
<1>4. Begun(j) <=> Len(f) <= len /\ \A i \in 1..Len(f) : f[i] = i
  BY DEF Begun
<1>5. (TooLong(j)' <=> Len(g) > len) /\ (TooLong(j) <=> Len(f) > len)
  BY DEF TooLong, Job
<1>6. Len(e) > 0 => r = p
  BY <1>1, <1>2
<1> HIDE DEF f, g, len, r
<1>7. ASSUME Len(f) = r, Begun(j) PROVE Begun(j)'
  <2>1. Len(g) <= len
    BY <1>1, <1>2, <1>7 DEF r
  <2>2. ASSUME NEW i \in 1..Len(g) PROVE g[i] = i
    <3>1. CASE i \in 1..Len(f)
      <4>1. g[i] = f[i]
        BY <1>2, <3>1
      <4>2. f[i] = i
        BY <1>4, <1>7, <3>1
      <4> QED  BY <4>1, <4>2
    <3>2. CASE i \notin 1..Len(f)
      <4>1. i - Len(f) \in 1..Len(e) /\ g[i] = e[i - Len(f)]
        BY <1>2, <3>2
      <4> DEFINE l == i - Len(f)
      <4>0. l \in 1..Len(e) /\ g[i] = e[l]
        BY <4>1
      <4>2. g[i] = p + (i - Len(f)) /\ Len(e) > 0
        <5>1. l >= 1 /\ Len(e) > 0
          <6> HIDE DEF l
          <6> QED  BY <1>2, <4>0
        <5> QED  BY <4>0, <5>1
      <4>3. Len(f) = p /\ Len(f) \in Nat
        BY <1>2, <1>6, <1>7, <4>2
      <4> QED  BY <4>2, <4>3
    <3> QED  BY <3>1, <3>2
  <2> QED  BY <1>3, <2>1, <2>2
<1>8. TooLong(j) => TooLong(j)'
  BY <1>1, <1>2, <1>5
<1>9. ASSUME Len(f) = len, Begun(j) PROVE TooLong(j)' \/ (Len(e) = 0 /\ Begun(j)')
  <2>1. CASE Len(e) = 0
    <3>1. Len(g) = Len(f)
      BY <1>2, <2>1
    <3> QED  BY <1>2, <1>3, <1>4, <1>9, <2>1, <3>1
  <2>2. CASE Len(e) # 0
    BY <1>1, <1>2, <1>5, <1>9, <2>2
  <2> QED  BY <2>1, <2>2
<1>10. ASSUME \A i \in 1..Len(f) : f[i] # 0, NEW i \in 1..Len(g) PROVE g[i] # 0
  <2>1. CASE i \in 1..Len(f)
    BY <1>2, <1>10, <2>1
  <2>2. CASE i \notin 1..Len(f)
    <3>1. i - Len(f) \in 1..Len(e) /\ g[i] = e[i - Len(f)]
      BY <1>2, <2>2
    <3> DEFINE l == i - Len(f)
    <3>0. l \in 1..Len(e) /\ g[i] = e[l]
      BY <3>1
    <3>2. g[i] = p + l /\ l \in Nat /\ l > 0
      <4> HIDE DEF l
      <4> QED  BY <1>2, <3>0
    <3> HIDE DEF l
    <3> QED  BY <3>2
  <2> QED  BY <2>1, <2>2
<1> QED  BY <1>2, <1>7, <1>8, <1>9, <1>10 DEF f, g, len, r

\* A block is written.
LEMMA WrittenAll ==
    ASSUME StepInv, NEW j \in Jobs, NEW p \in Nat, p % BUFSIZ = 0, UNCHANGED scenario,
           Once' => Once, Clean' => Clean, OnlyShort' => OnlyShort,
           NEW d \in Seq(Nat), IsChunk(d, j, p), pfile'[j] = pfile[j] \o d,
           Aligned(j, Reach(j, p)), Partial(j)
    PROVE  Aligned(j, Reach(j, p + BUFSIZ))' /\ Partial(j)'
<1> DEFINE n == Len(pfile[j])
           v == Len(pfile'[j])
           r == Reach(j, p)
           q == Reach(j, p + BUFSIZ)
           len == Job(j).len
<1>1. /\ r \in Nat /\ q \in Nat /\ len \in Nat /\ q <= len
      /\ q = len \/ q = p + BUFSIZ
      /\ BUFSIZ \in Nat \ {0}
  BY ReachIs, BufAssumption
<1>2. Len(d) = q - r /\ Len(d) <= q - r /\ \A i \in 1..Len(d) : d[i] = p + i
  BY <1>1 DEF IsChunk
<1>3. /\ n \in Nat /\ v = n + Len(d)
      /\ n = r /\ Begun(j) => Begun(j)'
      /\ TooLong(j) => TooLong(j)'
      /\ n = len /\ Begun(j) => TooLong(j)' \/ (Len(d) = 0 /\ Begun(j)')
      /\ (\A i \in 1..n : pfile[j][i] # 0) => \A i \in 1..v : pfile'[j][i] # 0
  BY <1>2, GrowsOn
<1>4. (p + BUFSIZ) % BUFSIZ = 0 /\ p + BUFSIZ \in Nat
  BY NextBoundary
<1>5. q < v /\ v < q + BUFSIZ => v > len \/ v % BUFSIZ # 0
  <2>1. ASSUME q = p + BUFSIZ, q < v, v < q + BUFSIZ PROVE v % BUFSIZ # 0
    <3> HIDE DEF q, v
    <3>1. q \in Nat /\ q % BUFSIZ = 0 /\ v \in Nat
      <4>1. q \in Nat /\ v \in Nat
        BY <1>1, <1>2, <1>3
      <4> QED  BY <1>4, <2>1, <4>1
    <3> QED  BY <1>1, <2>1, <3>1, Between
  <2> QED  BY <1>1, <1>2, <1>3, <2>1
<1>6. /\ Reach(j, p + BUFSIZ)' = q
      /\ TooLong(j)' <=> v > len
      /\ TooLong(j) <=> n > len
      /\ Begun(j)' => v <= len
  BY DEF Reach, Job, TooLong, Begun
<1>7. v = n + (q - r)
  BY <1>2, <1>3
<1> DEFINE good == n = r /\ Begun(j)
           goodX == v = q /\ Begun(j)'
<1>8. /\ Once => good \/ (scenario.restart /\ n > r /\ (TooLong(j) \/ n < r + BUFSIZ))
      /\ Clean => good \/ TooLong(j) \/ (n = len /\ Begun(j))
      /\ OnlyShort => n <= r /\ (n = r => Begun(j))
  BY DEF Aligned
<1> HIDE DEF n, v, r, q, len
<1>9. good => goodX
  BY <1>1, <1>3, <1>7
<1>10. Once' => goodX \/ (scenario.restart /\ v > q /\ (TooLong(j)' \/ v < q + BUFSIZ))
  BY <1>1, <1>3, <1>7, <1>8, <1>9
<1>11. Clean' => goodX \/ TooLong(j)' \/ (v = len /\ Begun(j)')
  BY <1>1, <1>3, <1>7, <1>8, <1>9
<1>12. OnlyShort' => v <= q /\ (v = q => Begun(j)')
  BY <1>1, <1>3, <1>7, <1>8
<1>13. Aligned(j, Reach(j, p + BUFSIZ))'
  BY <1>6, <1>10, <1>11, <1>12 DEF Aligned, Job, v, len
<1>14. \A i \in 1..v : pfile'[j][i] # 0
  BY <1>3 DEF Partial, n
<1>15. Once' => TooLong(j)' \/ Begun(j)' \/ v % BUFSIZ # 0
  BY <1>5, <1>6, <1>10
<1>16. goodX => v % BUFSIZ = 0 \/ v = len
  BY <1>1, <1>4
<1>17. Clean' => TooLong(j)' \/ (Begun(j)' /\ (v % BUFSIZ = 0 \/ v = len))
  BY <1>11, <1>16
<1> QED  BY <1>13, <1>14, <1>15, <1>17 DEF Partial, Job, v, len

\* Less of it is written, and nobody knows.
LEMMA WrittenShort ==
    ASSUME StepInv, NEW j \in Jobs, NEW p \in Nat, UNCHANGED scenario,
           ~Once', ~Clean', OnlyShort' => OnlyShort,
           NEW d \in Seq(Nat), IsChunk(d, j, p), NEW k \in 0..(Len(d) - 1),
           pfile'[j] = pfile[j] \o SubSeq(d, 1, k),
           Aligned(j, Reach(j, p)), Partial(j)
    PROVE  Aligned(j, Reach(j, p + BUFSIZ))' /\ Partial(j)'
<1> DEFINE n == Len(pfile[j])
           v == Len(pfile'[j])
           r == Reach(j, p)
           q == Reach(j, p + BUFSIZ)
           e == SubSeq(d, 1, k)
<1>1. r \in Nat /\ q \in Nat
  BY ReachIs
<1>2. Len(d) = q - r /\ \A i \in 1..Len(d) : d[i] = p + i
  BY DEF IsChunk
<1>3. k \in 0..Len(d) /\ Len(d) \in Nat
  OBVIOUS
<1>4. e \in Seq(Nat) /\ Len(e) = k /\ \A i \in 1..k : e[i] = d[i]
  BY <1>3, Piece
<1>5. pfile'[j] = pfile[j] \o e
  OBVIOUS
<1> HIDE DEF e
<1>6. (\A i \in 1..Len(e) : e[i] = p + i) /\ Len(e) <= q - r
  BY <1>2, <1>3, <1>4
<1>7. /\ n \in Nat /\ v = n + Len(e)
      /\ (\A i \in 1..n : pfile[j][i] # 0) => \A i \in 1..v : pfile'[j][i] # 0
  BY <1>4, <1>5, <1>6, GrowsOn
<1>8. OnlyShort => n <= r
  BY DEF Aligned
<1>9. Reach(j, p + BUFSIZ)' = q
  BY DEF Reach, Job
<1>10. \A i \in 1..v : pfile'[j][i] # 0
  BY <1>7 DEF Partial
<1> HIDE DEF n, v, q, r
<1>11. OnlyShort' => v <= q /\ v # q
  <2>1. k \in Nat /\ k < q - r
    BY <1>1, <1>2, <1>3
  <2>2. n \in Nat /\ v = n + k
    BY <1>4, <1>7
  <2>3. OnlyShort' => n <= r
    BY <1>8
  <2> QED  BY <1>1, <2>1, <2>2, <2>3
<1>12. Aligned(j, Reach(j, p + BUFSIZ))'
  BY <1>9, <1>11 DEF Aligned, v
<1> QED  BY <1>10, <1>12 DEF Partial, v

\* Less of it is written, and that is the end.
LEMMA WrittenPart ==
    ASSUME StepInv, NEW j \in Jobs, NEW p \in Nat, UNCHANGED scenario,
           Once' => Clean, ~Clean',
           NEW d \in Seq(Nat), IsChunk(d, j, p), NEW k \in 0..(Len(d) - 1),
           pfile'[j] = pfile[j] \o SubSeq(d, 1, k),
           Aligned(j, Reach(j, p)), Partial(j)
    PROVE  Partial(j)'
<1> DEFINE n == Len(pfile[j])
           v == Len(pfile'[j])
           r == Reach(j, p)
           e == SubSeq(d, 1, k)
<1>2. Len(d) = Reach(j, p + BUFSIZ) - r /\ \A i \in 1..Len(d) : d[i] = p + i
  BY DEF IsChunk
<1>3. k \in 0..Len(d) /\ Len(d) \in Nat
  OBVIOUS
<1>4. e \in Seq(Nat) /\ Len(e) = k /\ \A i \in 1..k : e[i] = d[i]
  BY <1>3, Piece
<1>5. pfile'[j] = pfile[j] \o e
  OBVIOUS
<1> HIDE DEF e
<1>6. (\A i \in 1..Len(e) : e[i] = p + i) /\ Len(e) <= Reach(j, p + BUFSIZ) - r
  BY <1>2, <1>3, <1>4
<1>7. /\ n = r /\ Begun(j) => Begun(j)'
      /\ TooLong(j) => TooLong(j)'
      /\ n = Job(j).len /\ Begun(j) => TooLong(j)' \/ Begun(j)'
      /\ (\A i \in 1..n : pfile[j][i] # 0) => \A i \in 1..v : pfile'[j][i] # 0
  BY <1>4, <1>5, <1>6, GrowsOn
<1>8. Once' => TooLong(j)' \/ Begun(j)'
  BY <1>7 DEF Aligned
<1>9. \A i \in 1..v : pfile'[j][i] # 0
  BY <1>7 DEF Partial
<1> QED  BY <1>8, <1>9 DEF Partial

\* A file that is opened is where its transfer starts, or its size tells.
LEMMA OpenAligned ==
    ASSUME StepInv, NEW j \in Jobs, UNCHANGED scenario, UNCHANGED faults,
           Partial(j), OnlyShort => pfile[j] = <<>>, pfile'[j] = Opened(j)
    PROVE  Aligned(j, Reach(j, StartPoint(j)))'
<1> DEFINE f == Opened(j)
           n == Len(f)
           p == n - (n % BUFSIZ)
           len == Job(j).len
<1>1. pfile[j] \in Seq(Nat) /\ len \in Nat /\ BUFSIZ \in Nat \ {0}
  BY Parts, ReachIs, BufAssumption DEF DiskType
<1>2. f \in Seq(Nat) /\ n \in Nat /\ (f = pfile[j] \/ f = <<>>) /\ (f = <<>> => n = 0)
  BY <1>1 DEF Opened
<1>3. Opened(j)' = f /\ StartPoint(j)' = p
  BY <1>2 DEF Opened, StartPoint, Checkpointed, Job
<1>4. /\ p \in Nat /\ n < p + BUFSIZ /\ p <= n
      /\ n % BUFSIZ = 0 => p = n
      /\ n % BUFSIZ # 0 => p < n
  <2> HIDE DEF n
  <2>1. n % BUFSIZ \in 0..(BUFSIZ - 1)
    BY <1>1, <1>2
  <2>2. p \in Nat
    BY <1>2, Boundary DEF n
  <2> QED  BY <1>1, <1>2, <2>1, <2>2
<1>5. f # <<>> => scenario.restart /\ f = pfile[j]
  BY DEF Opened, Checkpointed
<1> DEFINE r == IF p <= len THEN p ELSE len
           begun == n <= len /\ \A i \in 1..n : f[i] = i
           good == n = r /\ begun
<1>6. /\ (Begun(j)' <=> begun) /\ (TooLong(j)' <=> n > len)
      /\ Reach(j, StartPoint(j))' = r
      /\ Len(pfile'[j]) = n /\ Job(j)'.len = len
  BY <1>3 DEF Begun, TooLong, Reach, Job
<1>7. f = pfile[j] => (Begun(j) <=> begun) /\ (TooLong(j) <=> n > len) /\ Len(pfile[j]) = n
  BY DEF Begun, TooLong
<1>8. (Once' <=> Once) /\ (Clean' <=> Clean) /\ (OnlyShort' <=> OnlyShort)
  BY DEF Once, Clean, OnlyShort, Had
<1>9. /\ Once => good \/ (scenario.restart /\ n > r /\ (n > len \/ n < r + BUFSIZ))
      /\ Clean => good \/ n > len \/ (n = len /\ begun)
      /\ OnlyShort => n <= r /\ (n = r => begun)
  <2>1. CASE f = <<>>
    <3>1. n = 0 /\ p = 0 /\ r = 0
      <4>1. n = 0 /\ 0 % BUFSIZ = 0
        BY <1>1, <1>2, <2>1
      <4> HIDE DEF n
      <4> QED  BY <1>1, <4>1
    <3> HIDE DEF n, p, r, f
    <3>2. begun
      BY <1>1, <3>1
    <3> QED  BY <3>1, <3>2
  <2>2. CASE f # <<>>
    <3>1. scenario.restart /\ f = pfile[j] /\ ~OnlyShort
      BY <1>5, <2>2
    <3>2. /\ Once => n > len \/ begun \/ n % BUFSIZ # 0
          /\ Clean => n > len \/ (begun /\ (n % BUFSIZ = 0 \/ n = len))
      BY <1>7, <3>1 DEF Partial
    <3>3. begun => n <= len
      OBVIOUS
    <3> HIDE DEF n, p, f, len, begun
    <3>4. Clean => good \/ n > len \/ (n = len /\ begun)
      BY <1>1, <1>2, <1>4, <3>2, <3>3
    <3>5. n > len => n > r
      BY <1>1, <1>2, <1>4
    <3>6. n <= len => r = p
      BY <1>1, <1>2, <1>4
    <3>7. Once => good \/ (n > r /\ (n > len \/ n < r + BUFSIZ))
      BY <1>1, <1>2, <1>4, <3>2, <3>5, <3>6
    <3> QED  BY <3>1, <3>4, <3>7
  <2> QED  BY <2>1, <2>2
<1> HIDE DEF n, r, begun, len
<1> QED  BY <1>6, <1>8, <1>9 DEF Aligned

-----------------------------------------------------------------------------
(***************************************************************************)
(* Whose file it is.                                                       *)
(***************************************************************************)

\* The file of job j is received at m.
Mine(m, j) ==
    \/ Job(j).type = "R" /\ Job(j).at = m
    \/ Job(j).type = "S" /\ Job(j).at = Peer(m)

LEMMA MineOnly ==
    ASSUME NEW m \in Machine, NEW j, Mine(m, j)
    PROVE  ~Mine(Peer(m), j)
BY Peers DEF Mine

\* m receives a file, or has asked for it.
Busy(m) ==
    \/ cico[m].pc \in {"rddata", "stored"}
    \/ cico[m].pc = "reply" /\ cico[m].job # 0 /\ Kind(cico[m].job) = "R"

LEMMA BusyIs ==
    ASSUME StepInv, Lines, AtLine, Held, NEW m \in Machine, Busy(m)
    PROVE  cico[m].job \in Jobs /\ Mine(m, cico[m].job)
<1>0. TypeOK /\ Fits(cico[m]) /\ cico[m] \in Cico
  BY Parts, Wires DEF Fits
<1>1. cico[m].job \in Jobs /\ cico[m].job # 0
  BY <1>0 DEF Busy, Fits
<1>2. CASE cico[m].role = "MASTER"
  <2>1. OnLine(m)
    BY <1>1, <1>2 DEF Busy, AtLine
  <2>2. Job(cico[m].job).type = "R"
    BY <1>0, <1>1, <1>2, JobIs DEF Busy, AtLine
  <2> QED  BY <1>1, <2>1, <2>2, OnLineIs DEF Mine
<1>3. CASE cico[m].role = "SLAVE"
  <2>1. cico[m].pc \in {"rddata", "stored"}
    BY <1>3 DEF Busy, AtLine
  <2>2. HeldBy(cico[m], cico[Peer(m)], wire[Peer(m)], Peer(m))
    BY <1>3, <2>1, HeldIs
  <2> QED  BY <1>1, <2>2 DEF HeldBy, Mine, Job
<1> QED  BY <1>0, <1>2, <1>3 DEF Cico

\* A step of m changes the files that are received at m, and no others.
LEMMA Files ==
    ASSUME StepInv, Lines, AtLine, Held, Silent, NEW m \in Machine, Moved(m),
           NEW j \in Jobs, pfile'[j] # pfile[j]
    PROVE  cico[Peer(m)].pc = "none" \/ Mine(m, j)
<1>0. LineType /\ TypeOK /\ LineInv /\ DiskType /\ Fits(cico[m])
  BY Parts, Wires
<1>1. CASE MasterTop(m) \/ MasterNoRoom(m)
  <2> DEFINE w == gtwvec(queue[m], mark[m], cico[m].pos)
  <2>1. \/ UNCHANGED pfile
        \/ /\ w.job # 0 /\ Job(w.job).type = "R"
           /\ \E f : pfile' = [pfile EXCEPT ![w.job] = f]
    BY <1>1 DEF MasterTop, MasterNoRoom, fileVars, Open, Unlinked
  <2>2. w.job # 0 => Job(w.job).at = m
    BY <1>1, GottenIs DEF Gotten
  <2> HIDE DEF w
  <2> QED  BY <1>0, <2>1, <2>2 DEF Mine, DiskType
<1>2. CASE \/ KillInBookmark(m) \/ SlaveHup(m) \/ HupAnswered(m) \/ SndfileAnswered(m)
           \/ SlaveRcvfile(m) \/ Wrdata(m) \/ StoreFailed(m) \/ StoreTooBig(m) \/ Cmpt(m)
           \/ HungUp(m) \/ Kill(m) \/ KillInMove(m)
  <2>1. UNCHANGED pfile
    BY <1>2 DEF KillInBookmark, SlaveHup, HupAnswered, SndfileAnswered, SlaveRcvfile, Wrdata,
       StoreFailed, StoreTooBig, Cmpt, HungUp, Kill, KillInMove, fileVars
  <2> QED  BY <2>1
<1>3. CASE SlaveSndfile(m)
  <2> DEFINE k == Head(wire[m]).job
  <2>1. /\ cico[m].pc = "top" /\ cico[m].role = "SLAVE" /\ wire[m] # <<>>
        /\ Head(wire[m]).t = "S"
        /\ UNCHANGED pfile \/ \E f : pfile' = [pfile EXCEPT ![k] = f]
    BY <1>3 DEF SlaveSndfile, Gets, fileVars, Open, Unlinked
  <2>2. k \in Jobs /\ Job(k).type = "S"
    BY <1>0, <2>1, GotRequest, JobIs
  <2>3. j = k
    BY <1>0, <2>1 DEF DiskType
  <2>4. CASE up
    <3>1. Job(k).at = Peer(m)
      BY <2>1, <2>4, RequestIs
    <3> QED  BY <2>2, <2>3, <3>1 DEF Mine
  <2>5. CASE ~up
    <3>1. ~Both
      BY <2>1, <2>5 DEF Silent
    <3> QED  BY <2>1, <3>1, Peers DEF Both
  <2> QED  BY <2>4, <2>5
<1>4. CASE RcvfileAnswered(m) \/ Rddata(m) \/ StoreWrongSize(m) \/ Store(m)
  <2>1. /\ \/ cico[m].pc \in {"rddata", "stored"}
           \/ cico[m].pc = "reply" /\ wire[m] # <<>> /\ Head(wire[m]).t = "R"
        /\ UNCHANGED pfile \/ \E f : pfile' = [pfile EXCEPT ![cico[m].job] = f]
    BY <1>4 DEF RcvfileAnswered, Rddata, StoreWrongSize, Store, Gets, fileVars, Appended, Unlinked
  <2>2. j = cico[m].job
    BY <1>0, <2>1 DEF DiskType
  <2>3. Busy(m)
    BY <1>0, <2>1, GotAnswer DEF Busy
  <2> QED  BY <2>2, <2>3, BusyIs
<1> QED  BY <1>1, <1>2, <1>3, <1>4 DEF Moved, Gotten, Kept

LEMMA FileStays ==
    ASSUME StepInv, Lines, AtLine, Held, Silent, NEW m \in Machine, Moved(m),
           Busy(Peer(m))
    PROVE  pfile'[cico[Peer(m)].job] = pfile[cico[Peer(m)].job]
<1> DEFINE n == Peer(m)
           j == cico[n].job
<1>1. n \in Machine /\ Peer(n) = m
  BY Peers
<1>2. j \in Jobs /\ Mine(n, j)
  BY <1>1, BusyIs
<1>3. ~Mine(m, j)
  BY <1>1, <1>2, MineOnly
<1>4. cico[n].pc # "none"
  BY DEF Busy
<1> QED  BY <1>2, <1>3, <1>4, Files

\* What has been received stays what it is while the file does.
LEMMA AlignedStays ==
    ASSUME StepInv, [Next]_vars, NEW j, NEW r, Aligned(j, r), pfile'[j] = pfile[j]
    PROVE  Aligned(j, r)'
<1>1. scenario' = scenario /\ (Once' => Once) /\ (Clean' => Clean) /\ (OnlyShort' => OnlyShort)
  BY ScenarioStays, TellsFall
<1>2. (Begun(j)' <=> Begun(j)) /\ (TooLong(j)' <=> TooLong(j))
  BY <1>1 DEF Begun, TooLong, Job
<1> QED  BY <1>1, <1>2 DEF Aligned, Job

LEMMA PartialStays ==
    ASSUME StepInv, [Next]_vars, NEW j, Partial(j), pfile'[j] = pfile[j]
    PROVE  Partial(j)'
<1>1. scenario' = scenario /\ (Once' => Once) /\ (Clean' => Clean)
  BY ScenarioStays, TellsFall
<1>2. (Begun(j)' <=> Begun(j)) /\ (TooLong(j)' <=> TooLong(j))
  BY <1>1 DEF Begun, TooLong, Job
<1> QED  BY <1>1, <1>2 DEF Partial, Job

LEMMA PartialNew ==
    ASSUME StepInv, [Next]_vars, NEW j \in Jobs, pfile'[j] = <<>>
    PROVE  Partial(j)'
<1>1. Job(j)'.len \in Nat
  BY ScenarioStays, ReachIs DEF Job
<1>2. Len(pfile'[j]) = 0 /\ 0 % BUFSIZ = 0
  BY BufAssumption
<1>3. Begun(j)'
  BY <1>1, <1>2 DEF Begun
<1> QED  BY <1>2, <1>3 DEF Partial

-----------------------------------------------------------------------------
(***************************************************************************)
(* A block is received.                                                    *)
(***************************************************************************)

\* What a failing write does to what the size tells.
LEMMA WriteFault ==
    ASSUME StepInv, [Next]_vars
    PROVE  /\ Fault("short") => ~Once' /\ ~Clean'
           /\ Fault("full") \/ Fault("ulimit") => ~Clean' /\ (Once' => Clean)
           /\ Fault("ulimit") => Had("ulimit")' > 0
<1>1. "short" \in Kinds /\ "full" \in Kinds /\ "ulimit" \in Kinds
  BY DEF Kinds
<1>2. \A k \in Kinds : Had(k) \in Nat /\ Had(k)' \in Nat /\ Had(k) <= Had(k)'
  BY HadGrows
<1>3. \A k \in Kinds : Fault(k) => Had(k)' = Had(k) + 1 /\ Had(k)' > 0
  BY HadFault
<1>4. Fault("short") => ~Once' /\ ~Clean'
  BY <1>1, <1>2, <1>3 DEF Once, Clean
<1>5. Fault("full") => ~Clean' /\ (Once' => Clean)
  BY <1>1, <1>2, <1>3 DEF Once, Clean
<1>6. Fault("ulimit") => ~Clean' /\ (Once' => Clean) /\ Had("ulimit")' > 0
  BY <1>1, <1>2, <1>3 DEF Once, Clean
<1> QED  BY <1>4, <1>5, <1>6

\* Whatever becomes of the block that m reads, which is the one behind p.
LEMMA BlockReceived ==
    ASSUME StepInv, [Next]_vars, NEW m \in Machine, Rddata(m),
           NEW j, j = cico[m].job, NEW p \in Nat, p % BUFSIZ = 0, Partial(j),
           IsChunk(Head(wire[m]).data, j, p), cico[m].ret = "ok" => Aligned(j, Reach(j, p))
    PROVE  /\ Partial(j)'
           /\ cico'[m].ret = "ok" => Aligned(j, Reach(j, p + BUFSIZ))'
           /\ Short(Head(wire[m])) => Reach(j, p + BUFSIZ) = Job(j).len
           /\ cico'[m].ret = "big" => cico[m].ret = "big" \/ Had("ulimit")' > 0
           /\ \A k \in Jobs : k # j => pfile'[k] = pfile[k]
<1> DEFINE x == Head(wire[m])
           d == x.data
<1>0. TypeOK /\ DiskType /\ j \in Jobs /\ UNCHANGED scenario
  <2>1. cico[m].pc = "rddata" /\ UNCHANGED scenario
    BY RddataGoes
  <2> QED  BY <2>1, Parts, Wires DEF Fits
<1>1. /\ x \in Message
      /\ \/ cico[m].ret = "ok" /\ cico'[m].ret = "ok" /\ Appended(j, d)
         \/ cico[m].ret # "ok" /\ cico'[m].ret = cico[m].ret /\ UNCHANGED pfile
         \/ /\ cico[m].ret = "ok"
            /\ \E k \in 0..(Len(d) - 1) :
                  /\ Appended(j, SubSeq(d, 1, k))
                  /\ \/ Fault("short") /\ cico'[m].ret = "ok"
                     \/ Fault("full") /\ cico'[m].ret = "fail"
                     \/ Fault("ulimit") /\ cico'[m].ret = "big"
  BY RddataGoes
<1>2. d \in Seq(Nat)
  BY <1>1 DEF Message
<1>3. Short(x) => Reach(j, p + BUFSIZ) = Job(j).len
  <2>1. Len(d) = Reach(j, p + BUFSIZ) - Reach(j, p)
    BY DEF IsChunk
  <2>2. /\ Reach(j, p) \in Nat /\ Reach(j, p + BUFSIZ) \in Nat
        /\ Reach(j, p + BUFSIZ) < Reach(j, p) + BUFSIZ => Reach(j, p + BUFSIZ) = Job(j).len
    BY <1>0, ReachIs
  <2> QED  BY <2>1, <2>2, BufAssumption DEF Short
<1>4. (Once' => Once) /\ (Clean' => Clean) /\ (OnlyShort' => OnlyShort)
  BY TellsFall
<1>5. /\ Fault("short") => ~Once' /\ ~Clean'
      /\ Fault("full") \/ Fault("ulimit") => ~Clean' /\ (Once' => Clean)
      /\ Fault("ulimit") => Had("ulimit")' > 0
  BY WriteFault
<1> HIDE DEF x, d
<1>6. \A e : Appended(j, e) => /\ pfile'[j] = pfile[j] \o e
                               /\ \A k \in Jobs : k # j => pfile'[k] = pfile[k]
  BY <1>0 DEF Appended, DiskType
<1>7. IsChunk(d, j, p)
  BY DEF d, x
<1>8. CASE cico[m].ret = "ok" /\ cico'[m].ret = "ok" /\ Appended(j, d)
  <2>1. Aligned(j, Reach(j, p + BUFSIZ))' /\ Partial(j)'
    BY <1>0, <1>2, <1>4, <1>6, <1>7, <1>8, WrittenAll
  <2> QED  BY <1>3, <1>6, <1>8, <2>1 DEF x
<1>9. CASE cico[m].ret # "ok" /\ cico'[m].ret = cico[m].ret /\ UNCHANGED pfile
  <2>1. Partial(j)'
    BY <1>9, PartialStays
  <2> QED  BY <1>3, <1>9, <2>1 DEF x
<1>10. ASSUME cico[m].ret = "ok", NEW k \in 0..(Len(d) - 1), Appended(j, SubSeq(d, 1, k)),
              \/ Fault("short") /\ cico'[m].ret = "ok"
              \/ Fault("full") /\ cico'[m].ret = "fail"
              \/ Fault("ulimit") /\ cico'[m].ret = "big"
       PROVE  /\ Partial(j)'
              /\ cico'[m].ret = "ok" => Aligned(j, Reach(j, p + BUFSIZ))'
              /\ cico'[m].ret = "big" => Had("ulimit")' > 0
              /\ \A l \in Jobs : l # j => pfile'[l] = pfile[l]
  <2>1. /\ pfile'[j] = pfile[j] \o SubSeq(d, 1, k)
        /\ \A l \in Jobs : l # j => pfile'[l] = pfile[l]
    BY <1>6, <1>10
  <2>2. CASE Fault("short") /\ cico'[m].ret = "ok"
    <3>1. Aligned(j, Reach(j, p + BUFSIZ))' /\ Partial(j)'
      BY <1>0, <1>2, <1>4, <1>5, <1>7, <1>10, <2>1, <2>2, WrittenShort
    <3> QED  BY <2>1, <2>2, <3>1
  <2>3. CASE (Fault("full") \/ Fault("ulimit")) /\ cico'[m].ret # "ok"
    <3>1. Partial(j)'
      BY <1>0, <1>2, <1>5, <1>7, <1>10, <2>1, <2>3, WrittenPart
    <3> QED  BY <1>5, <1>10, <2>1, <2>3, <3>1
  <2> QED  BY <1>10, <2>2, <2>3
<1> QED  BY <1>1, <1>3, <1>8, <1>9, <1>10 DEF x

\* Receives, from p on.
ReceivesFrom(m, p) ==
    LET c == cico[m]
        s == Peer(m)
    IN  /\ p % BUFSIZ = 0 /\ Stream(wire[m], 1, p, c.job)
        /\ c.ret = "ok" => Aligned(c.job, Reach(c.job, p))
        /\ up /\ cico[s].pc = "wrdata" => cico[s].at = Offset(p, Len(wire[m]))
        /\ up /\ cico[s].pc = "reply" => \A i \in DOMAIN wire[s] : wire[s][i].n = p

LEMMA ReceivesIs ==
    ASSUME NEW m
    PROVE  Receives(m) <=> \E p \in Nat : ReceivesFrom(m, p)
BY DEF Receives, ReceivesFrom

LEMMA ReceivesNext ==
    ASSUME NEW m, NEW p \in Nat, p % BUFSIZ = 0, NEW w, w = wire'[m], NEW j, j = cico'[m].job,
           Stream(w, 1, p, j)', cico'[m].ret = "ok" => Aligned(j, Reach(j, p))',
           up' /\ cico'[Peer(m)].pc = "wrdata" => cico'[Peer(m)].at = Offset(p, Len(w)),
           up' /\ cico'[Peer(m)].pc = "reply" =>
               \A i \in DOMAIN wire'[Peer(m)] : wire'[Peer(m)][i].n = p
    PROVE  Receives(m)'
<1>1. ReceivesFrom(m, p)'
  BY DEF ReceivesFrom, Peer, Offset
<1>2. Receives(m)' <=> \E q \in Nat : ReceivesFrom(m, q)'
  BY DEF Receives, ReceivesFrom
<1> QED  BY <1>1, <1>2

LEMMA StreamStays ==
    ASSUME UNCHANGED scenario, NEW w, NEW k, NEW p, NEW j, Stream(w, k, p, j)
    PROVE  Stream(w, k, p, j)'
BY DEF Stream, IsChunk, Reach, Job, Offset

\* The first block is taken from those that are behind p.
LEMMA StreamTaken ==
    ASSUME NEW w \in Seq(Message), w # <<>>, NEW p \in Nat, NEW j, Stream(w, 1, p, j)
    PROVE  /\ IsChunk(Head(w).data, j, p)
           /\ Stream(Tail(w), 1, p + BUFSIZ, j)
           /\ Offset(p, Len(w)) = Offset(p + BUFSIZ, Len(Tail(w)))
<1>1. /\ Head(w) = w[1] /\ Tail(w) \in Seq(Message) /\ Len(w) \in Nat /\ Len(w) > 0
      /\ Len(Tail(w)) = Len(w) - 1
      /\ \A i \in 1..(Len(w) - 1) : Tail(w)[i] = w[i + 1]
  BY TailIs, NoMessage
<1>2. Offset(p, 1 - 1) = p
  BY OffsetIs
<1>3. IsChunk(Head(w).data, j, p)
  BY <1>1, <1>2 DEF Stream
<1> DEFINE v == Tail(w)
<1> HIDE DEF v
<1>4. ASSUME NEW i \in 1..Len(v) PROVE IsChunk(v[i].data, j, Offset(p + BUFSIZ, i - 1))
  <2>1. i \in 1..(Len(w) - 1) /\ i + 1 \in 1..Len(w) /\ i - 1 \in Nat /\ (i - 1) + 1 = (i + 1) - 1
    BY <1>1, <1>4 DEF v
  <2>2. v[i] = w[i + 1]
    BY <1>1, <2>1 DEF v
  <2>3. IsChunk(w[i + 1].data, j, Offset(p, (i + 1) - 1))
    BY <2>1 DEF Stream
  <2>4. Offset(p + BUFSIZ, i - 1) = Offset(p, (i + 1) - 1)
    BY <2>1, OffsetIs
  <2> QED  BY <2>2, <2>3, <2>4
<1>5. Stream(v, 1, p + BUFSIZ, j)
  BY <1>4 DEF Stream
<1>6. Offset(p, Len(w)) = Offset(p + BUFSIZ, Len(w) - 1)
  <2>1. Len(w) - 1 \in Nat /\ (Len(w) - 1) + 1 = Len(w)
    BY <1>1
  <2> QED  BY <2>1, OffsetIs
<1> QED  BY <1>1, <1>3, <1>5, <1>6 DEF v

\* What m has received when it has read a block.
LEMMA RddataReceives ==
    ASSUME StepInv, [Next]_vars, NEW m \in Machine, Rddata(m), Receiving,
           NEW j, j = cico[m].job, Partial(j)
    PROVE  /\ Partial(j)' /\ \A k \in Jobs : k # j => pfile'[k] = pfile[k]
           /\ cico'[m].pc = "rddata" => Receives(m)'
           /\ cico'[m].pc = "stored" /\ cico'[m].ret = "ok" => Aligned(j, Job(j).len)'
           /\ cico'[m].size = Job(j).len
           /\ cico'[m].ret = "big" => Had("ulimit")' > 0
<1> DEFINE x == Head(wire[m])
           s == Peer(m)
<1>1. /\ cico[m].pc = "rddata" /\ wire[m] # <<>>
      /\ UNCHANGED <<scenario, up>>
      /\ cico'[s] = cico[s] /\ wire'[s] = wire[s]
      /\ wire'[m] = Tail(wire[m])
      /\ cico'[m].job = j /\ cico'[m].size = cico[m].size
      /\ cico'[m].pc = IF Short(x) THEN "stored" ELSE "rddata"
  BY RddataGoes
<1>2. /\ Receives(m) /\ cico[m].size = Job(j).len
      /\ cico[m].ret = "big" => Had("ulimit") > 0
  BY <1>1 DEF Receiving
<1>3. PICK p \in Nat : ReceivesFrom(m, p)
  BY <1>2, ReceivesIs
<1>4. /\ p % BUFSIZ = 0 /\ Stream(wire[m], 1, p, j)
      /\ cico[m].ret = "ok" => Aligned(j, Reach(j, p))
      /\ up /\ cico[s].pc = "wrdata" => cico[s].at = Offset(p, Len(wire[m]))
  BY <1>3 DEF ReceivesFrom
<1>5. LineType /\ LineInv /\ wire[m] \in Seq(Message) /\ s \in Machine
  BY Parts, Wires, Peers
<1> PICK v : v = wire'[m]
  OBVIOUS
<1>6. /\ IsChunk(x.data, j, p)
      /\ Stream(v, 1, p + BUFSIZ, j)
      /\ Offset(p, Len(wire[m])) = Offset(p + BUFSIZ, Len(v))
  <2>1. v = Tail(wire[m])
    BY <1>1
  <2> QED  BY <1>1, <1>4, <1>5, <2>1, StreamTaken
<1>7. /\ Partial(j)'
      /\ cico'[m].ret = "ok" => Aligned(j, Reach(j, p + BUFSIZ))'
      /\ Short(x) => Reach(j, p + BUFSIZ) = Job(j).len
      /\ cico'[m].ret = "big" => cico[m].ret = "big" \/ Had("ulimit")' > 0
      /\ \A k \in Jobs : k # j => pfile'[k] = pfile[k]
  BY <1>4, <1>6, BlockReceived
<1>8. (p + BUFSIZ) % BUFSIZ = 0 /\ p + BUFSIZ \in Nat
  BY <1>4, NextBoundary
<1>9. up => cico[s].pc # "reply"
  <2>1. up => (cico[m].role = "MASTER" /\ Fetching(m)) \/ Sending(s)
    BY <1>1, <1>5, Reading
  <2> QED  BY <1>1, <1>5, <2>1, Peers DEF Sending, Fetching
<1>10. cico'[m].pc = "rddata" => Receives(m)'
  <2>1. Stream(v, 1, p + BUFSIZ, j)'
    BY <1>1, <1>6, StreamStays
  <2>2. up' /\ cico'[s].pc = "wrdata" => cico'[s].at = Offset(p + BUFSIZ, Len(v))
    BY <1>1, <1>4, <1>6
  <2>3. Receives(m)'
    BY <1>1, <1>7, <1>8, <1>9, <2>1, <2>2, ReceivesNext
  <2> QED  BY <2>3
<1>11. Had("ulimit") \in Nat /\ Had("ulimit")' \in Nat /\ Had("ulimit") <= Had("ulimit")'
  BY HadGrows DEF Kinds
<1>12. ASSUME cico'[m].pc = "stored", cico'[m].ret = "ok" PROVE Aligned(j, Job(j).len)'
  <2>1. Short(x)
    BY <1>1, <1>12
  <2>2. Reach(j, p + BUFSIZ)' = Job(j).len'
    BY <1>1, <1>7, <2>1 DEF Reach, Job
  <2> QED  BY <1>7, <1>12, <2>2
<1> QED  BY <1>1, <1>2, <1>7, <1>10, <1>11, <1>12

\* What a step of m does to the files that are received.
LEMMA FileMoves ==
    ASSUME StepInv, NEW m \in Machine, Moved(m), NEW j \in Jobs
    PROVE  \/ pfile'[j] = pfile[j]
           \/ pfile'[j] = <<>>
           \/ Rddata(m) /\ j = cico[m].job
<1>0. DiskType
  BY Parts
<1>1. CASE \/ KillInBookmark(m) \/ SlaveHup(m) \/ HupAnswered(m) \/ SndfileAnswered(m)
           \/ SlaveRcvfile(m) \/ Wrdata(m) \/ StoreFailed(m) \/ StoreTooBig(m) \/ Cmpt(m)
           \/ HungUp(m) \/ Kill(m) \/ KillInMove(m)
  <2>1. UNCHANGED pfile
    BY <1>1 DEF KillInBookmark, SlaveHup, HupAnswered, SndfileAnswered, SlaveRcvfile, Wrdata,
       StoreFailed, StoreTooBig, Cmpt, HungUp, Kill, KillInMove, fileVars
  <2> QED  BY <2>1
<1>2. CASE MasterTop(m) \/ SlaveSndfile(m) \/ RcvfileAnswered(m)
  <2>1. UNCHANGED pfile \/ \E k : Open(k) \/ Unlinked(k)
    BY <1>2 DEF MasterTop, SlaveSndfile, RcvfileAnswered, fileVars
  <2>2. \A k : Open(k) \/ Unlinked(k) => pfile'[j] \in {pfile[j], <<>>}
    BY <1>0 DEF Open, Opened, Unlinked, DiskType
  <2> QED  BY <2>1, <2>2
<1>3. CASE MasterNoRoom(m) \/ StoreWrongSize(m) \/ Store(m)
  <2>1. \E k : Unlinked(k)
    BY <1>3 DEF MasterNoRoom, StoreWrongSize, Store
  <2>2. \A k : Unlinked(k) => pfile'[j] \in {pfile[j], <<>>}
    BY <1>0 DEF Unlinked, DiskType
  <2> QED  BY <2>1, <2>2
<1>4. CASE Rddata(m)
  <2>1. UNCHANGED pfile \/ \E e : Appended(cico[m].job, e)
    BY <1>4, RddataGoes
  <2>2. j # cico[m].job => pfile'[j] = pfile[j]
    BY <1>0, <2>1 DEF Appended, DiskType
  <2> QED  BY <1>4, <2>2
<1> QED  BY <1>1, <1>2, <1>3, <1>4 DEF Moved, Gotten, Kept

LEMMA PartialStep ==
    ASSUME StepInv, [Next]_vars, Receiving, \A j \in Jobs : Partial(j)
    PROVE  \A j \in Jobs' : Partial(j)'
<1>0. Jobs' = Jobs
  BY ScenarioStays DEF Jobs
<1> SUFFICES ASSUME NEW j \in Jobs PROVE Partial(j)'
  BY <1>0
<1>1. ASSUME pfile'[j] = pfile[j] PROVE Partial(j)'
  BY <1>1, PartialStays
<1>2. CASE UNCHANGED vars \/ Break \/ \E m \in Machine : Call(m)
  <2>1. UNCHANGED pfile
    BY <1>2 DEF vars, Break, Call, fileVars
  <2> QED  BY <1>1, <2>1
<1>3. ASSUME NEW m \in Machine, Moved(m) PROVE Partial(j)'
  <2>1. CASE pfile'[j] = <<>>
    BY <2>1, PartialNew
  <2>2. CASE Rddata(m) /\ j = cico[m].job
    BY <2>2, RddataReceives
  <2> QED  BY <1>1, <1>3, <2>1, <2>2, FileMoves
<1> QED  BY <1>2, <1>3, Steps DEF Moved

-----------------------------------------------------------------------------
(***************************************************************************)
(* The files delivered.                                                    *)
(***************************************************************************)

LEMMA LinkedStep ==
    ASSUME StepInv, [Next]_vars, Had("killmove") = 0 => linked = {}
    PROVE  (Had("killmove") = 0 => linked = {})'
<1>0. SUFFICES ASSUME Had("killmove")' = 0 PROVE linked' = {}
  OBVIOUS
<1>1. Had("killmove") = 0
  <2>1. Had("killmove") \in Nat /\ Had("killmove") <= Had("killmove")'
    BY HadGrows DEF Kinds
  <2> QED  BY <1>0, <2>1
<1>2. ~Fault("killmove")
  <2>1. Fault("killmove") => Had("killmove")' > 0
    BY HadFault DEF Kinds
  <2> QED  BY <1>0, <2>1
<1>3. linked = {}
  BY <1>1
<1>4. CASE UNCHANGED linked
  BY <1>3, <1>4
<1>5. \A k : Open(k) \/ Unlinked(k) => linked' = {}
  BY <1>3 DEF Open, Unlinked
<1>6. CASE UNCHANGED vars \/ Break \/ \E m \in Machine : Call(m)
  BY <1>4, <1>6 DEF vars, Break, Call, fileVars
<1>7. ASSUME NEW m \in Machine, Moved(m) PROVE linked' = {}
  <2>1. CASE \/ KillInBookmark(m) \/ SlaveHup(m) \/ HupAnswered(m) \/ SndfileAnswered(m)
             \/ SlaveRcvfile(m) \/ Wrdata(m) \/ StoreFailed(m) \/ StoreTooBig(m) \/ Cmpt(m)
             \/ HungUp(m) \/ Kill(m)
    <3>1. UNCHANGED linked
      BY <2>1 DEF KillInBookmark, SlaveHup, HupAnswered, SndfileAnswered, SlaveRcvfile, Wrdata,
         StoreFailed, StoreTooBig, Cmpt, HungUp, Kill, fileVars
    <3> QED  BY <1>4, <3>1
  <2>2. CASE MasterTop(m) \/ SlaveSndfile(m) \/ RcvfileAnswered(m)
    <3>1. UNCHANGED linked \/ \E k : Open(k) \/ Unlinked(k)
      BY <2>2 DEF MasterTop, SlaveSndfile, RcvfileAnswered, fileVars
    <3> QED  BY <1>4, <1>5, <3>1
  <2>3. CASE MasterNoRoom(m) \/ StoreWrongSize(m) \/ Store(m)
    <3>1. \E k : Unlinked(k)
      BY <2>3 DEF MasterNoRoom, StoreWrongSize, Store
    <3> QED  BY <1>5, <3>1
  <2>4. CASE Rddata(m)
    <3>1. UNCHANGED linked
      BY <2>4, RddataGoes DEF Appended
    <3> QED  BY <1>4, <3>1
  <2>5. CASE KillInMove(m)
    BY <1>2, <2>5 DEF KillInMove
  <2> QED  BY <1>7, <2>1, <2>2, <2>3, <2>4, <2>5 DEF Moved, Gotten, Kept
<1> QED  BY <1>6, <1>7, Steps DEF Moved

LEMMA IntactStep ==
    ASSUME StepInv, DataInv, [Next]_vars
    PROVE  Intact'
<1>0. SUFFICES ASSUME Had("killmove")' = 0, SizeTells', NEW j \in Jobs
               PROVE  dest'[j] \in {NoFile, Whole(j)}
  <2>1. scenario' = scenario
    BY ScenarioStays
  <2>2. Jobs' = Jobs /\ \A j : Whole(j)' = Whole(j)
    BY <2>1 DEF Jobs, Whole, Job
  <2> QED  BY <2>2 DEF Intact
<1>1. Had("killmove") = 0
  <2>1. Had("killmove") \in Nat /\ Had("killmove") <= Had("killmove")'
    BY HadGrows DEF Kinds
  <2> QED  BY <1>0, <2>1
<1>2. ~Fault("killmove") /\ SizeTells
  <2>1. Fault("killmove") => Had("killmove")' > 0
    BY HadFault DEF Kinds
  <2> QED  BY <1>0, <2>1, TellsFall
<1>3. linked = {} /\ dest[j] \in {NoFile, Whole(j)}
  BY <1>1, <1>2 DEF DataInv, Intact
<1>4. CASE UNCHANGED dest
  BY <1>3, <1>4
<1>5. CASE UNCHANGED vars \/ Break \/ \E m \in Machine : Call(m)
  BY <1>4, <1>5 DEF vars, Break, Call, fileVars
<1>6. ASSUME NEW m \in Machine, Moved(m) PROVE dest'[j] \in {NoFile, Whole(j)}
  <2>1. CASE \/ KillInBookmark(m) \/ SlaveHup(m) \/ HupAnswered(m) \/ SndfileAnswered(m)
             \/ SlaveRcvfile(m) \/ Wrdata(m) \/ StoreFailed(m) \/ StoreTooBig(m) \/ Cmpt(m)
             \/ HungUp(m) \/ Kill(m)
    <3>1. UNCHANGED dest
      BY <2>1 DEF KillInBookmark, SlaveHup, HupAnswered, SndfileAnswered, SlaveRcvfile, Wrdata,
         StoreFailed, StoreTooBig, Cmpt, HungUp, Kill, fileVars
    <3> QED  BY <1>4, <3>1
  <2>2. CASE \/ MasterTop(m) \/ SlaveSndfile(m) \/ RcvfileAnswered(m) \/ MasterNoRoom(m)
             \/ StoreWrongSize(m)
    <3>1. UNCHANGED dest
      BY <2>2 DEF MasterTop, SlaveSndfile, RcvfileAnswered, MasterNoRoom, StoreWrongSize, fileVars,
         Open
    <3> QED  BY <1>4, <3>1
  <2>3. CASE Rddata(m)
    <3>1. UNCHANGED dest
      BY <1>3, <2>3, RddataGoes DEF Appended
    <3> QED  BY <1>4, <3>1
  <2>4. CASE KillInMove(m)
    BY <1>2, <2>4 DEF KillInMove
  <2>5. CASE Store(m)
    <3> DEFINE k == cico[m].job
    <3>1. /\ cico[m].pc = "stored" /\ cico[m].ret = "ok" /\ ~WrongSize(cico[m])
          /\ \E f \in {pfile[k], NoFile} : dest' = [dest EXCEPT ![k] = f]
      BY <2>5 DEF Store
    <3>2. pfile[k] = Whole(k)
      BY <1>2, <3>1, StoredIs
    <3> HIDE DEF k
    <3>3. dest'[j] = dest[j] \/ (j = k /\ dest'[j] \in {Whole(k), NoFile})
      BY <3>1, <3>2, Parts DEF DiskType
    <3> QED  BY <1>3, <3>3
  <2> QED  BY <1>6, <2>1, <2>2, <2>3, <2>4, <2>5 DEF Moved, Gotten, Kept
<1> QED  BY <1>5, <1>6, Steps DEF Moved

-----------------------------------------------------------------------------
(***************************************************************************)
(* Only a fault cuts a transfer.                                           *)
(***************************************************************************)

LEMMA NoCut ==
    ASSUME StepInv, [Next]_vars, OnlyShort'
    PROVE  OnlyShort /\ \A k \in Kinds \ {"short"} : ~Fault(k)
<1>1. \A k \in Kinds \ {"short"} : Had(k)' = 0
  BY DEF OnlyShort
<1>2. \A k \in Kinds : Fault(k) => Had(k)' > 0
  BY HadFault
<1> QED  BY <1>1, <1>2, TellsFall

\* The line goes down without one only when the other end has nothing to lose.
LEMMA LineKept ==
    ASSUME StepInv, Uncut, [Next]_vars, OnlyShort', NEW m \in Machine, Moved(m), up, ~up'
    PROVE  cico[Peer(m)].pc \notin {"reply", "rddata", "stored"}
<1> DEFINE b == Peer(m)
<1>0. /\ TypeOK /\ LineType /\ LineInv /\ OnlyShort /\ b \in Machine
      /\ \A k \in Kinds \ {"short"} : ~Fault(k)
  BY Parts, NoCut, Peers
<1>1. CASE StoreFailed(m)
  BY <1>0, <1>1 DEF StoreFailed, Uncut
<1>2. CASE StoreWrongSize(m)
  <2>1. cico[m].pc = "stored"
    BY <1>2 DEF StoreWrongSize
  <2>2. (cico[m].role = "MASTER" /\ Fetching(m)) \/ Sending(b)
    BY <1>0, <2>1, Reading
  <2> QED  BY <2>1, <2>2, Peers DEF Fetching, Sending
<1>3. CASE SndfileAnswered(m)
  <2>1. /\ cico[m].pc = "reply" /\ wire[m] # <<>> /\ Head(wire[m]).t = "S"
        /\ Head(wire[m]).a = "N4" \/ \E c : Takes(m, c)
    BY <1>3 DEF SndfileAnswered, Gets
  <2>2. wire[m][1].a = "N4" /\ wire[m][1].t = "S" /\ cico[m].job # 0
    BY <1>0, <2>1, TakesGo, GotAnswer
  <2>3. Told(m) \/ Sending(m) \/ Fetching(m)
    BY <1>0, <2>1, MasterGot
  <2>4. ~Sending(m) /\ ~Fetching(m)
    BY <2>1, <2>2 DEF Sending, Fetching, Answer
  <2> QED  BY <2>2, <2>3, <2>4 DEF Told
<1>4. CASE MasterNoRoom(m) \/ KillInBookmark(m) \/ Kill(m) \/ KillInMove(m)
  <2>1. Fault("notmp") \/ Fault("killmark") \/ Fault("kill") \/ Fault("killmove")
    BY <1>4 DEF MasterNoRoom, KillInBookmark, Kill, KillInMove
  <2> QED  BY <1>0, <2>1 DEF Kinds
<1>5. CASE \/ MasterTop(m) \/ SlaveHup(m) \/ HupAnswered(m) \/ SlaveSndfile(m) \/ SlaveRcvfile(m)
           \/ RcvfileAnswered(m) \/ Wrdata(m) \/ StoreTooBig(m) \/ Store(m) \/ Cmpt(m) \/ HungUp(m)
  <2>1. UNCHANGED up
    BY <1>5 DEF MasterTop, SlaveHup, HupAnswered, SlaveSndfile, SlaveRcvfile, RcvfileAnswered,
       Wrdata, StoreTooBig, Store, Cmpt, HungUp, Sends, Answers, Takes
  <2> QED  BY <2>1
<1>6. CASE Rddata(m)
  BY <1>6, RddataGoes
<1> QED  BY <1>1, <1>2, <1>3, <1>4, <1>5, <1>6 DEF Moved, Gotten, Kept

\* A uucico that stops to receive a file has unlinked it.
LEMMA Unlinks ==
    ASSUME StepInv, Uncut, [Next]_vars, OnlyShort', NEW m \in Machine, Moved(m),
           cico[m].pc \in {"rddata", "stored"}, NEW j, j = cico[m].job
    PROVE  Rddata(m) \/ pfile'[j] = <<>>
<1>0. /\ DiskType /\ j \in Jobs /\ OnlyShort /\ up /\ cico[m].ret = "ok"
      /\ \A k \in Kinds \ {"short"} : ~Fault(k)
  BY Parts, NoCut, Wires DEF Uncut, Fits
<1>1. CASE \/ MasterTop(m) \/ MasterNoRoom(m) \/ KillInBookmark(m) \/ SlaveHup(m)
           \/ HupAnswered(m) \/ SlaveSndfile(m) \/ SndfileAnswered(m) \/ SlaveRcvfile(m)
           \/ RcvfileAnswered(m) \/ Wrdata(m) \/ Cmpt(m)
  BY <1>1 DEF MasterTop, MasterNoRoom, KillInBookmark, SlaveHup, HupAnswered, SlaveSndfile,
     SndfileAnswered, SlaveRcvfile, RcvfileAnswered, Wrdata, Cmpt, Gets
<1>2. CASE StoreFailed(m) \/ StoreTooBig(m) \/ HungUp(m)
  BY <1>0, <1>2 DEF StoreFailed, StoreTooBig, HungUp
<1>3. CASE Kill(m) \/ KillInMove(m)
  BY <1>0, <1>3 DEF Kill, KillInMove, Kinds
<1>4. CASE StoreWrongSize(m) \/ Store(m)
  <2>1. Unlinked(j)
    BY <1>4 DEF StoreWrongSize, Store
  <2> QED  BY <1>0, <2>1 DEF Unlinked, DiskType
<1> QED  BY <1>1, <1>2, <1>3, <1>4 DEF Moved, Gotten, Kept

LEMMA UncutStep ==
    ASSUME StepInv, Uncut, [Next]_vars
    PROVE  Uncut'
<1> DEFINE Holds(n, j) == cico[n].pc \in {"rddata", "stored"} /\ cico[n].job = j
           HoldsX(n, j) == cico'[n].pc \in {"rddata", "stored"} /\ cico'[n].job = j
<1>0. SUFFICES ASSUME OnlyShort'
               PROVE  /\ \A n \in Machine :
                            /\ cico'[n].pc \in {"reply", "rddata", "stored"} => up'
                            /\ cico'[n].pc \in {"rddata", "stored"} => cico'[n].ret = "ok"
                      /\ \A j \in Jobs : pfile'[j] # <<>> => \E n \in Machine : HoldsX(n, j)
  <2>1. Jobs' = Jobs
    BY ScenarioStays DEF Jobs
  <2> QED  BY <2>1 DEF Uncut
<1>1. /\ OnlyShort /\ \A k \in Kinds \ {"short"} : ~Fault(k)
      /\ \A n \in Machine : /\ cico[n].pc \in {"reply", "rddata", "stored"} => up
                            /\ cico[n].pc \in {"rddata", "stored"} => cico[n].ret = "ok"
      /\ \A j \in Jobs : pfile[j] # <<>> => \E n \in Machine : Holds(n, j)
  <2>1. OnlyShort /\ \A k \in Kinds \ {"short"} : ~Fault(k)
    BY <1>0, NoCut
  <2> QED  BY <2>1 DEF Uncut
<1>2. CASE UNCHANGED vars
  BY <1>1, <1>2 DEF vars
<1>3. CASE Break
  BY <1>1, <1>3 DEF Break, Kinds
<1>4. ASSUME NEW m \in Machine, Call(m)
      PROVE  /\ \A n \in Machine : cico'[n].pc = "top"
             /\ \A j \in Jobs : pfile'[j] = <<>>
  <2>1. \A n \in Machine : cico[n].pc = "none" /\ cico'[n].pc = "top"
    BY <1>4 DEF Call, None
  <2>2. UNCHANGED pfile
    BY <1>4 DEF Call, fileVars
  <2> QED  BY <1>1, <2>1, <2>2
<1>5. ASSUME NEW m \in Machine, Moved(m)
      PROVE  /\ \A n \in Machine :
                   /\ cico'[n].pc \in {"reply", "rddata", "stored"} => up'
                   /\ cico'[n].pc \in {"rddata", "stored"} => cico'[n].ret = "ok"
             /\ \A j \in Jobs : pfile'[j] # <<>> => \E n \in Machine : HoldsX(n, j)
  <2> DEFINE b == Peer(m)
  <2>0. b \in Machine /\ \A n \in Machine : n = m \/ n = b
    BY Peers
  <2>1. cico'[b] = cico[b] /\ (cico'[m] = None \/ up' = up)
    BY <1>5, Moves
  <2>2. cico[b].pc \in {"reply", "rddata", "stored"} => up'
    BY <1>0, <1>1, <1>5, <2>0, LineKept
  <2>3. ASSUME cico'[m].pc \in {"reply", "rddata", "stored"}
        PROVE  up' /\ (cico'[m].pc \in {"rddata", "stored"} => cico'[m].ret = "ok")
    <3>1. up' = up
      BY <2>1, <2>3, NoneFits
    <3>2. CASE RcvfileAnswered(m) /\ cico'[m].ret = "ok"
      <4>1. cico[m].pc = "reply"
        BY <3>2 DEF RcvfileAnswered, Gets
      <4> QED  BY <1>1, <3>1, <3>2, <4>1
    <3>3. CASE Rddata(m)
      <4>1. /\ cico[m].pc = "rddata"
            /\ cico'[m].ret = "ok" \/ cico'[m].ret = cico[m].ret \/ Fault("full") \/ Fault("ulimit")
        BY <3>3, RddataGoes
      <4>2. ~Fault("full") /\ ~Fault("ulimit")
        BY <1>1 DEF Kinds
      <4> QED  BY <1>1, <3>1, <4>1, <4>2
    <3>4. CASE up /\ (cico'[m].pc = "reply" \/ cico'[m].ret = "ok")
      BY <2>3, <3>1, <3>4
    <3> QED  BY <1>5, <2>3, <3>2, <3>3, <3>4, Receivers
  <2>4. ASSUME NEW j \in Jobs, pfile'[j] # <<>> PROVE \E n \in Machine : HoldsX(n, j)
    <3>1. Rddata(m) /\ j = cico[m].job => HoldsX(m, j)
      BY RddataGoes
    <3>2. CASE pfile[j] # <<>>
      <4>1. PICK n \in Machine : Holds(n, j)
        BY <1>1, <3>2
      <4>2. CASE n = b
        BY <2>1, <4>1, <4>2
      <4>3. CASE n = m
        <5>1. cico[m].pc \in {"rddata", "stored"} /\ cico[m].job = j
          BY <4>1, <4>3
        <5>2. Rddata(m)
          BY <1>0, <1>5, <2>4, <5>1, Unlinks
        <5> QED  BY <3>1, <5>1, <5>2
      <4> QED  BY <2>0, <4>2, <4>3
    <3>3. CASE pfile[j] = <<>>
      BY <1>5, <2>4, <3>1, <3>3, FileMoves
    <3> QED  BY <3>2, <3>3
  <2>5. \A n \in Machine : /\ cico'[n].pc \in {"reply", "rddata", "stored"} => up'
                           /\ cico'[n].pc \in {"rddata", "stored"} => cico'[n].ret = "ok"
    BY <1>1, <2>0, <2>1, <2>2, <2>3
  <2> QED  BY <2>4, <2>5
<1> QED  BY <1>2, <1>3, <1>4, <1>5, Steps DEF Moved

-----------------------------------------------------------------------------
(***************************************************************************)
(* A block is sent.                                                        *)
(***************************************************************************)

\* What Wrdata sends is the block behind where it reads.
LEMMA ChunkIs ==
    ASSUME StepInv, NEW j \in Jobs, NEW at \in Nat
    PROVE  LET d == SubSeq(Whole(j), at + 1, Min({at + BUFSIZ, Job(j).len}))
           IN  d \in Seq(Nat) /\ IsChunk(d, j, at)
<1> DEFINE len == Job(j).len
           s == Whole(j)
           to == Min({at + BUFSIZ, len})
           d == SubSeq(s, at + 1, to)
<1>1. s \in Seq(Nat) /\ Len(s) = len /\ len \in Nat /\ BUFSIZ \in Nat \ {0} /\ at + BUFSIZ \in Nat
  BY Parts, WholeIs, BufAssumption
<1>2. to = Reach(j, at + BUFSIZ)
  <2>1. CASE at + BUFSIZ <= len
    BY <1>1, <2>1 DEF Min, Reach
  <2>2. CASE at + BUFSIZ > len
    BY <1>1, <2>2 DEF Min, Reach
  <2> QED  BY <1>1, <2>1, <2>2
<1>3. \A i \in 1..len : s[i] = i
  BY DEF Whole
<1>4. d \in Seq(Nat)
  BY <1>1, BlockIs
<1> HIDE DEF s, to, len
<1>5. to \in Nat /\ to <= len /\ (at <= len => Reach(j, at) = at /\ at <= to)
  BY <1>1, <1>2 DEF Reach, len
<1>6. at > len => Reach(j, at) = len /\ to = len
  BY <1>1, <1>2 DEF Reach, len
<1>7. Len(d) = to - Reach(j, at) /\ \A i \in 1..Len(d) : d[i] = at + i
  <2>1. CASE at < to
    <3>1. Len(d) = to - at /\ \A i \in 1..(to - at) : d[i] = s[at + i]
      <4>1. at + 1 \in 1..to /\ to \in 1..Len(s)
        BY <1>1, <1>5, <2>1
      <4>2. Len(d) = to - at
        BY <1>1, <4>1
      <4>3. \A i \in 1..(to - at) : d[i] = s[at + i]
        BY <1>1, <4>1
      <4> QED  BY <4>2, <4>3
    <3>2. \A i \in 1..(to - at) : at + i \in 1..len
      BY <1>1, <1>5
    <3>3. at <= len
      BY <1>1, <1>5, <2>1
    <3> HIDE DEF d
    <3>4. \A i \in 1..(to - at) : d[i] = at + i
      BY <1>3, <3>1, <3>2
    <3>5. Len(d) = to - at /\ Reach(j, at) = at
      BY <1>5, <3>1, <3>3
    <3> QED  BY <3>4, <3>5
  <2>2. CASE at >= to
    <3>1. Len(d) = 0
      BY <1>1, <1>5, <2>2
    <3>2. to - Reach(j, at) = 0
      BY <1>1, <1>5, <1>6, <2>2
    <3> HIDE DEF d
    <3> QED  BY <3>1, <3>2
  <2> QED  BY <1>5, <2>1, <2>2
<1>8. IsChunk(d, j, at)
  BY <1>2, <1>7 DEF IsChunk
<1> QED  BY <1>4, <1>8 DEF s, to, len

LEMMA WrdataGoes ==
    ASSUME StepInv, NEW m \in Machine, Wrdata(m), up,
           NEW j, j = cico[m].job, NEW at, at = cico[m].at
    PROVE  /\ UNCHANGED <<scenario, pfile, faults>> /\ up' = up
           /\ at \in Nat /\ cico'[Peer(m)] = cico[Peer(m)] /\ wire'[m] = wire[m]
           /\ \/ cico'[m].pc = "cmpt"
              \/ cico'[m].pc = "wrdata" /\ cico'[m].at = at + BUFSIZ
           /\ \E x \in Message : IsChunk(x.data, j, at) /\ wire'[Peer(m)] = Append(wire[Peer(m)], x)
<1> DEFINE d == SubSeq(Whole(j), at + 1, Min({at + BUFSIZ, Job(j).len}))
           x == Block(d)
           c == IF Len(d) < BUFSIZ THEN [cico[m] EXCEPT !.pc = "cmpt"]
                ELSE [cico[m] EXCEPT !.at = @ + BUFSIZ]
<1>0. /\ cico[m].pc = "wrdata" /\ UNCHANGED <<scenario, pfile, faults>>
      /\ Sends(m, x, c)
  BY DEF Wrdata, fileVars, NoFault
<1>1. LineType /\ cico[m] \in Cico /\ j \in Jobs /\ at \in Nat
  <2>1. LineType /\ Fits(cico[m])
    BY Parts, Wires
  <2> QED  BY <1>0, <2>1 DEF Fits, Cico
<1>2. d \in Seq(Nat) /\ IsChunk(d, j, at)
  BY <1>1, ChunkIs
<1> HIDE DEF d
<1>3. c.pc = "cmpt" \/ (c.pc = "wrdata" /\ c.at = at + BUFSIZ)
  <2>1. CASE c = [cico[m] EXCEPT !.pc = "cmpt"]
    BY <1>1, <2>1 DEF Cico
  <2>2. CASE c = [cico[m] EXCEPT !.at = at + BUFSIZ]
    BY <1>0, <1>1, <2>2 DEF Cico
  <2> QED  BY <2>1, <2>2
<1>4. x \in Message /\ IsChunk(x.data, j, at)
  BY <1>2 DEF Block, Message
<1> HIDE DEF c, x
<1>5. /\ up' = up /\ cico'[Peer(m)] = cico[Peer(m)] /\ wire'[m] = wire[m]
      /\ cico'[m] = c /\ wire'[Peer(m)] = Append(wire[Peer(m)], x)
  BY <1>0, <1>1, SendsGo
<1> QED  BY <1>0, <1>1, <1>3, <1>4, <1>5

\* A block is put behind the c others, and the next follows it.
LEMMA StreamSent ==
    ASSUME NEW w \in Seq(Message), NEW x \in Message, NEW k \in {1, 2}, NEW c \in Nat,
           c + k = Len(w) + 1,
           NEW p \in Nat, NEW j, Stream(w, k, p, j), IsChunk(x.data, j, Offset(p, c))
    PROVE  /\ Stream(Append(w, x), k, p, j) /\ Len(Append(w, x)) = Len(w) + 1
           /\ Offset(p, c) + BUFSIZ = Offset(p, c + 1)
<1> DEFINE v == Append(w, x)
<1>1. /\ Len(w) \in Nat /\ Len(v) = Len(w) + 1
      /\ \A i \in 1..Len(w) : v[i] = w[i]
      /\ v[Len(w) + 1] = x
  BY AppendIs, NoMessage
<1> HIDE DEF v
<1>2. ASSUME NEW i \in k..Len(v) PROVE IsChunk(v[i].data, j, Offset(p, i - k))
  <2>1. CASE i = Len(w) + 1
    <3>1. i - k = c /\ v[i] = x
      BY <1>1, <2>1
    <3> QED  BY <3>1
  <2>2. CASE i # Len(w) + 1
    <3>1. i \in k..Len(w) /\ i \in 1..Len(w)
      BY <1>1, <1>2, <2>2
    <3>2. IsChunk(w[i].data, j, Offset(p, i - k)) /\ v[i] = w[i]
      BY <1>1, <3>1 DEF Stream
    <3> QED  BY <3>2
  <2> QED  BY <2>1, <2>2
<1> QED  BY <1>1, <1>2, OffsetIs DEF Stream, v

\* The answer in front of the blocks is taken.
LEMMA StreamLeft ==
    ASSUME NEW w \in Seq(Message), w # <<>>, NEW p \in Nat, NEW j, Stream(w, 2, p, j)
    PROVE  Stream(Tail(w), 1, p, j) /\ Offset(p, Len(w) - 1) = Offset(p, Len(Tail(w)))
<1> DEFINE v == Tail(w)
<1>1. /\ Len(w) \in Nat /\ Len(w) > 0 /\ Len(v) = Len(w) - 1
      /\ \A i \in 1..(Len(w) - 1) : v[i] = w[i + 1]
  BY TailIs, NoMessage
<1> HIDE DEF v
<1>2. ASSUME NEW i \in 1..Len(v) PROVE IsChunk(v[i].data, j, Offset(p, i - 1))
  <2>1. i + 1 \in 2..Len(w) /\ (i + 1) - 2 = i - 1 /\ v[i] = w[i + 1]
    BY <1>1, <1>2
  <2>2. IsChunk(w[i + 1].data, j, Offset(p, (i + 1) - 2))
    BY <2>1 DEF Stream
  <2> QED  BY <2>1, <2>2
<1> QED  BY <1>1, <1>2 DEF Stream, v

-----------------------------------------------------------------------------
(***************************************************************************)
(* What is received is what is sent.                                       *)
(***************************************************************************)

\* What Receiving says of m.
ReceivingAt(m) ==
    LET c == cico[m]
    IN  /\ c.pc = "rddata" => Receives(m)
        /\ c.pc = "reply" /\ c.job # 0 /\ Kind(c.job) = "R" => Awaits(m)
        /\ c.pc = "stored" /\ c.ret = "ok" => Aligned(c.job, Job(c.job).len)
        /\ c.pc \in {"rddata", "stored"} =>
              c.size = Job(c.job).len /\ (c.ret = "big" => Had("ulimit") > 0)

LEMMA ReceivingIs ==
    /\ Receiving <=> \A m \in Machine : ReceivingAt(m)
    /\ Receiving' <=> \A m \in Machine : ReceivingAt(m)'
BY DEF Receiving, ReceivingAt

LEMMA AwaitsNext ==
    ASSUME NEW m, NEW j, j = cico'[m].job, NEW p, p = StartPoint(j)', NEW w, w = wire'[m],
           Aligned(j, Reach(j, p))',
           w # <<>> /\ w[1].a = "Y" => Stream(w, 2, p, j)',
           up' => \A i \in DOMAIN wire'[Peer(m)] :
                      wire'[Peer(m)][i].t = "R" => wire'[Peer(m)][i].n = p,
           up' /\ cico'[Peer(m)].pc = "wrdata" => cico'[Peer(m)].at = Offset(p, Len(w) - 1)
    PROVE  Awaits(m)'
BY DEF Awaits, Peer, Offset

\* The start of a transfer does not move while the file stays.
LEMMA StartStays ==
    ASSUME UNCHANGED scenario, NEW j, pfile'[j] = pfile[j]
    PROVE  StartPoint(j)' = StartPoint(j)
BY DEF StartPoint, Opened, Checkpointed, Job

\* n does nothing and its file stays: what remains is what is sent to it.
LEMMA ReceivingOther ==
    ASSUME StepInv, [Next]_vars, Receiving, NEW n \in Machine, cico'[n] = cico[n],
           Busy(n) => pfile'[cico[n].job] = pfile[cico[n].job],
           cico[n].pc = "rddata" => Receives(n)',
           cico[n].pc = "reply" /\ cico[n].job # 0 /\ Kind(cico[n].job) = "R" => Awaits(n)'
    PROVE  ReceivingAt(n)'
<1> PICK j : j = cico[n].job
  OBVIOUS
<1>1. UNCHANGED scenario
  BY ScenarioStays
<1>2. Had("ulimit") \in Nat /\ Had("ulimit")' \in Nat /\ Had("ulimit") <= Had("ulimit")'
  BY HadGrows DEF Kinds
<1>3. ReceivingAt(n)
  BY ReceivingIs
<1>4. ASSUME cico[n].pc = "stored", cico[n].ret = "ok" PROVE Aligned(j, Job(j).len)'
  <2>1. pfile'[j] = pfile[j] /\ Aligned(j, Job(j).len)
    BY <1>3, <1>4 DEF ReceivingAt, Busy
  <2>2. PICK r : r = Job(j).len
    OBVIOUS
  <2>3. Aligned(j, r)' /\ r = Job(j).len'
    BY <1>1, <2>1, <2>2, AlignedStays DEF Job
  <2> QED  BY <2>3
<1>5. (Kind(j)' = "R" <=> Kind(j) = "R") /\ Job(j)' = Job(j)
  BY <1>1 DEF Kind, Job
<1>6. cico[n].pc \in {"rddata", "stored"} =>
          cico[n].size = Job(j).len /\ (cico[n].ret = "big" => Had("ulimit") > 0)
  BY <1>3 DEF ReceivingAt
<1>7. cico'[n].job = j
  OBVIOUS
<1>8. cico'[n].pc = "reply" /\ j # 0 /\ Kind(j)' = "R" => Awaits(n)'
  BY <1>5
<1>9. cico'[n].pc = "stored" /\ cico'[n].ret = "ok" => Aligned(j, Job(j).len)'
  BY <1>4
<1>10. cico'[n].pc \in {"rddata", "stored"} =>
          cico'[n].size = Job(j)'.len /\ (cico'[n].ret = "big" => Had("ulimit")' > 0)
  BY <1>2, <1>5, <1>6
<1> QED  BY <1>7, <1>8, <1>9, <1>10 DEF ReceivingAt

\* Nothing more is sent on a line that is down.
LEMMA ReceivingDown ==
    ASSUME StepInv, [Next]_vars, Receiving, NEW n \in Machine, cico'[n] = cico[n],
           Busy(n) => pfile'[cico[n].job] = pfile[cico[n].job],
           ~up', wire'[n] \in {wire[n], <<>>}
    PROVE  ReceivingAt(n)'
<1> PICK j : j = cico[n].job
  OBVIOUS
<1> PICK w : w = wire'[n]
  OBVIOUS
<1>1. UNCHANGED scenario /\ ReceivingAt(n)
  BY ScenarioStays, ReceivingIs
<1>2. \A k \in {1, 2} : \A p : Stream(wire[n], k, p, j) => Stream(w, k, p, j)
  <2>1. CASE w = wire[n]
    BY <2>1
  <2>2. CASE w = <<>>
    <3>1. Len(w) = 0
      BY <2>2
    <3> QED  BY <3>1 DEF Stream
  <2> QED  BY <2>1, <2>2
<1>3. ASSUME cico[n].pc = "rddata" PROVE Receives(n)'
  <2>1. PICK p \in Nat : ReceivesFrom(n, p)
    BY <1>1, <1>3, ReceivesIs DEF ReceivingAt
  <2>2. /\ p % BUFSIZ = 0 /\ Stream(wire[n], 1, p, j) /\ pfile'[j] = pfile[j]
        /\ cico[n].ret = "ok" => Aligned(j, Reach(j, p))
    BY <1>3, <2>1 DEF ReceivesFrom, Busy
  <2>3. Stream(w, 1, p, j)'
    BY <1>1, <1>2, <2>2, StreamStays
  <2>4. PICK r : r = Reach(j, p)
    OBVIOUS
  <2>5. r = Reach(j, p)'
    BY <1>1, <2>4 DEF Reach, Job
  <2>6. cico[n].ret = "ok" => Aligned(j, r)'
    BY <2>2, <2>4, AlignedStays
  <2>7. cico'[n].ret = "ok" => Aligned(j, Reach(j, p))'
    BY <2>5, <2>6
  <2> QED  BY <2>2, <2>3, <2>7, ReceivesNext
<1>4. ASSUME cico[n].pc = "reply", j # 0, Kind(j) = "R" PROVE Awaits(n)'
  <2>1. PICK p : p = StartPoint(j)
    OBVIOUS
  <2>2. /\ Aligned(j, Reach(j, p)) /\ pfile'[j] = pfile[j]
        /\ wire[n] # <<>> /\ wire[n][1].a = "Y" => Stream(wire[n], 2, p, j)
    BY <1>1, <1>4, <2>1 DEF ReceivingAt, Awaits, Busy
  <2>3. p = StartPoint(j)'
    BY <1>1, <2>1, <2>2, StartStays
  <2>4. PICK r : r = Reach(j, p)
    OBVIOUS
  <2>5. r = Reach(j, p)'
    BY <1>1, <2>4 DEF Reach, Job
  <2>6. Aligned(j, r)'
    BY <2>2, <2>4, AlignedStays
  <2>7. Aligned(j, Reach(j, p))'
    BY <2>5, <2>6
  <2>8. w # <<>> /\ w[1].a = "Y" => Stream(w, 2, p, j)'
    BY <1>1, <1>2, <2>2, StreamStays
  <2> QED  BY <2>3, <2>7, <2>8, AwaitsNext
<1> QED  BY <1>3, <1>4, ReceivingOther

\* The steps of a uucico after which the line works.
LEMMA WorkingStep ==
    ASSUME StepInv, NEW m \in Machine, Moved(m), up'
    PROVE  /\ cico[m].pc = "wrdata" => Wrdata(m)
           /\ cico[m].pc = "cmpt" => Cmpt(m) /\ wire[m] # <<>>
           /\ cico[m].pc = "reply" =>
                 /\ wire[m] # <<>>
                 /\ \/ HupAnswered(m) /\ Head(wire[m]).t = "H"
                    \/ SndfileAnswered(m) /\ Head(wire[m]).t = "S"
                    \/ RcvfileAnswered(m) /\ Head(wire[m]).t = "R"
           /\ cico[m].pc = "top" /\ cico[m].role = "SLAVE" =>
                 /\ wire[m] # <<>>
                 /\ \/ SlaveHup(m) /\ Head(wire[m]).t = "H"
                    \/ SlaveSndfile(m) /\ Head(wire[m]).t = "S"
                    \/ SlaveRcvfile(m) /\ Head(wire[m]).t = "R"
<1>1. CASE Ends(m) \/ HungUp(m)
  BY <1>1 DEF Ends, HungUp
<1>2. CASE \/ MasterNoRoom(m) \/ KillInBookmark(m) \/ StoreFailed(m) \/ StoreWrongSize(m)
           \/ Kill(m) \/ KillInMove(m) \/ HungUp(m)
  BY <1>1, <1>2 DEF MasterNoRoom, KillInBookmark, StoreFailed, StoreWrongSize, Kill, KillInMove
<1>3. CASE MasterTop(m) \/ Rddata(m) \/ StoreTooBig(m) \/ Store(m) \/ Wrdata(m) \/ Cmpt(m)
  BY <1>3 DEF MasterTop, Rddata, StoreTooBig, Store, Wrdata, Cmpt, Gets
<1>4. CASE HupAnswered(m) \/ SndfileAnswered(m) \/ RcvfileAnswered(m)
  BY <1>4 DEF HupAnswered, SndfileAnswered, RcvfileAnswered, Gets
<1>5. CASE SlaveHup(m) \/ SlaveSndfile(m) \/ SlaveRcvfile(m)
  BY <1>5 DEF SlaveHup, SlaveSndfile, SlaveRcvfile, Gets
<1> QED  BY <1>2, <1>3, <1>4, <1>5 DEF Moved, Gotten, Kept

\* While n receives a file, the other end reads the answer or sends a block.
LEMMA SenderMoves ==
    ASSUME StepInv, NEW n \in Machine, NEW m \in Machine, m = Peer(n), Moved(m), up',
           cico[n].pc = "rddata"
    PROVE  \/ Wrdata(m)
           \/ /\ wire[n] = <<>> /\ wire'[n] = <<>> /\ cico[m].pc = "reply"
              /\ wire[m] # <<>> /\ 1 \in DOMAIN wire[m]
              /\ cico'[m].pc = "wrdata" /\ cico'[m].at = wire[m][1].n
<1>0. /\ up /\ LineType /\ LineInv /\ n = Peer(m)
  BY Parts, Moves, Peers
<1>1. (cico[n].role = "MASTER" /\ Fetching(n)) \/ (cico[m].role = "MASTER" /\ Sending(m))
  BY <1>0, Reading
<1>2. CASE cico[m].pc = "wrdata"
  BY <1>2, WorkingStep
<1>3. CASE cico[m].pc = "cmpt"
  <2>1. wire[m] = <<>>
    BY <1>0, <1>1, <1>3 DEF Fetching, Sending
  <2> QED  BY <1>3, <2>1, WorkingStep
<1>4. CASE cico[m].pc = "reply"
  <2>1. Sending(m)
    BY <1>0, <1>1, <1>4 DEF Fetching
  <2>2. /\ wire[n] = <<>> /\ Answer(wire[m][1], cico[m].job, {"Y"})
        /\ Kind(cico[m].job) = "S"
    BY <1>0, <1>4, <2>1 DEF Sending
  <2>3. wire[m] # <<>> /\ wire[m] \in Seq(Message) /\ cico[m] \in Cico
    BY <1>0, <1>4, WorkingStep, Wires DEF Fits
  <2>4. Head(wire[m]) = wire[m][1] /\ 1 \in DOMAIN wire[m]
    BY <2>3, TailIs
  <2>5. Head(wire[m]).t = "S" /\ Head(wire[m]).a = "Y"
    BY <2>2, <2>4 DEF Answer
  <2>6. SndfileAnswered(m)
    BY <1>4, <2>5, WorkingStep
  <2> DEFINE e == [cico[m] EXCEPT !.pc = "wrdata", !.at = Head(wire[m]).n]
  <2>7. Takes(m, e)
    BY <2>5, <2>6 DEF SndfileAnswered
  <2>8. e.pc = "wrdata" /\ e.at = Head(wire[m]).n
    BY <2>3 DEF Cico
  <2> HIDE DEF e
  <2>9. cico'[m] = e /\ wire'[n] = wire[n]
    BY <1>0, <2>7, TakesGo
  <2> QED  BY <1>4, <2>2, <2>3, <2>4, <2>8, <2>9
<1> QED  BY <1>0, <1>1, <1>2, <1>3, <1>4 DEF Fetching, Sending

LEMMA ReceivesOn ==
    ASSUME StepInv, [Next]_vars, NEW n \in Machine, NEW m \in Machine, m = Peer(n), Moved(m), up',
           cico[n].pc = "rddata", cico'[n] = cico[n], Receives(n),
           pfile'[cico[n].job] = pfile[cico[n].job]
    PROVE  Receives(n)'
<1> PICK j : j = cico[n].job
  OBVIOUS
<1> PICK w : w = wire'[n]
  OBVIOUS
<1>0. /\ up /\ LineType /\ LineInv /\ n = Peer(m) /\ wire[n] \in Seq(Message)
      /\ UNCHANGED scenario
  BY Parts, Moves, Peers, Wires
<1>1. PICK p \in Nat : ReceivesFrom(n, p)
  BY ReceivesIs
<1>2. /\ p % BUFSIZ = 0 /\ Stream(wire[n], 1, p, j)
      /\ cico[n].ret = "ok" => Aligned(j, Reach(j, p))
      /\ cico[m].pc = "wrdata" => cico[m].at = Offset(p, Len(wire[n]))
      /\ cico[m].pc = "reply" => \A i \in DOMAIN wire[m] : wire[m][i].n = p
  BY <1>0, <1>1 DEF ReceivesFrom
<1>3. cico'[n].ret = "ok" => Aligned(j, Reach(j, p))'
  <2>1. PICK r : r = Reach(j, p)
    OBVIOUS
  <2>2. r = Reach(j, p)'
    BY <1>0, <2>1 DEF Reach, Job
  <2>3. cico[n].ret = "ok" => Aligned(j, r)'
    BY <1>2, <2>1, AlignedStays
  <2> QED  BY <2>2, <2>3
<1>4. ASSUME Stream(w, 1, p, j), cico'[m].pc # "reply",
             cico'[m].pc = "wrdata" => cico'[m].at = Offset(p, Len(w))
      PROVE  Receives(n)'
  <2>1. Stream(w, 1, p, j)'
    BY <1>0, <1>4, StreamStays
  <2> QED  BY <1>2, <1>3, <1>4, <2>1, ReceivesNext
<1>5. CASE Wrdata(m)
  <2>1. PICK at : at = cico[m].at
    OBVIOUS
  <2>2. at = Offset(p, Len(wire[n])) /\ Len(wire[n]) \in Nat /\ cico[m].pc = "wrdata"
    BY <1>0, <1>2, <1>5, <2>1, NoMessage DEF Wrdata
  <2>3. cico[m].job = j
    <3>1. Sending(m) \/ Fetching(n)
      BY <1>0, <2>2, Writing
    <3> QED  BY <1>0, <3>1 DEF Sending, Fetching
  <2>4. /\ cico'[m].pc = "cmpt" \/ (cico'[m].pc = "wrdata" /\ cico'[m].at = at + BUFSIZ)
        /\ \E x \in Message :
              IsChunk(x.data, j, at) /\ wire'[Peer(m)] = Append(wire[Peer(m)], x)
    <3>1. j = cico[m].job
      BY <2>3
    <3>2. up
      BY <1>0
    <3> QED  BY <1>5, <2>1, <3>1, <3>2, WrdataGoes
  <2>5. PICK x \in Message : IsChunk(x.data, j, at) /\ wire'[Peer(m)] = Append(wire[Peer(m)], x)
    BY <2>4
  <2>6. w = Append(wire[n], x)
    BY <1>0, <2>5
  <2>7. PICK c \in Nat : c = Len(wire[n])
    BY <2>2
  <2>8. /\ Stream(w, 1, p, j) /\ Len(w) = c + 1
        /\ Offset(p, c) + BUFSIZ = Offset(p, c + 1)
    BY <1>0, <1>2, <2>2, <2>5, <2>6, <2>7, StreamSent
  <2> QED  BY <1>4, <2>2, <2>4, <2>7, <2>8
<1>6. CASE /\ wire[n] = <<>> /\ wire'[n] = <<>> /\ cico[m].pc = "reply"
           /\ 1 \in DOMAIN wire[m]
           /\ cico'[m].pc = "wrdata" /\ cico'[m].at = wire[m][1].n
  <2>1. w = wire[n] /\ Len(w) = 0
    BY <1>6
  <2>2. cico'[m].at = Offset(p, Len(w))
    BY <1>2, <1>6, <2>1, OffsetIs
  <2> QED  BY <1>2, <1>4, <1>6, <2>1, <2>2
<1> QED  BY <1>5, <1>6, SenderMoves

\* While n waits to receive a file, the other end takes what is in front of the
\* request, answers it or sends a block.
LEMMA AskedMoves ==
    ASSUME StepInv, NEW n \in Machine, NEW m \in Machine, m = Peer(n), Moved(m), up',
           cico[n].pc = "reply", cico[n].job # 0, Kind(cico[n].job) = "R"
    PROVE  \/ Wrdata(m) /\ wire[m] = <<>> /\ wire[n] # <<>> /\ wire[n][1].a = "Y"
           \/ /\ SlaveRcvfile(m) /\ wire[n] = <<>> /\ Len(wire[m]) = 1 /\ wire[m] # <<>>
              /\ wire[m][1].t = "R"
           \/ /\ cico'[m].pc = "top" /\ wire[m] # <<>> /\ wire'[m] = Tail(wire[m])
              /\ wire'[n] = wire[n]
<1>0. /\ up /\ LineType /\ LineInv /\ n = Peer(m) /\ cico[m] \in Cico
      /\ \A k \in Machine : k = m \/ k = n
  BY Parts, Moves, Peers, Wires DEF Fits
<1>1. Talk(m) \/ Talk(n)
  <2>1. \E a \in Machine : Talk(a)
    BY <1>0, HasPeer DEF LineInv
  <2> QED  BY <1>0, <2>1
<1>2. wire[m] = <<>> <=> Len(wire[m]) = 0
  BY <1>0, Wires
<1>3. ASSUME NEW c, c.pc = "top", Takes(m, c), wire[m] # <<>>
      PROVE  /\ cico'[m].pc = "top" /\ wire[m] # <<>> /\ wire'[m] = Tail(wire[m])
             /\ wire'[n] = wire[n]
  <2>1. cico'[m] = c /\ wire'[m] = Tail(wire[m]) /\ wire'[n] = wire[n]
    BY <1>0, <1>3, TakesGo
  <2> QED  BY <1>3, <2>1
<1>4. CASE Asks(n, 0) /\ cico[m].role = "SLAVE" /\ cico[m].pc = "top"
  <2>1. wire[n] = <<>> /\ Len(wire[m]) = 1 /\ Request(wire[m][1], cico[n].job)
    BY <1>4 DEF Asks
  <2>2. wire[m] # <<>> /\ wire[m][1].t = "R"
    BY <1>2, <2>1 DEF Request
  <2>3. Head(wire[m]).t = "R"
    BY <1>0, <2>2, Wires, TailIs
  <2> QED  BY <1>4, <2>1, <2>2, <2>3, WorkingStep
<1>5. CASE cico[m].role = "SLAVE" /\ cico[m].pc = "cmpt"
  <2> DEFINE c == [cico[m] EXCEPT !.pc = "top"]
  <2>1. Cmpt(m) /\ wire[m] # <<>>
    BY <1>5, WorkingStep
  <2>2. Takes(m, c) /\ c.pc = "top"
    BY <1>0, <2>1 DEF Cmpt, Cico
  <2> HIDE DEF c
  <2> QED  BY <1>3, <2>1, <2>2
<1>6. CASE Told(n)
  BY <1>0, <1>6, WorkingStep DEF Told
<1>7. CASE Sending(n)
  BY <1>7 DEF Sending
<1>8. CASE Fetching(n)
  <2>1. /\ wire[m] = <<>> /\ wire[n] # <<>> /\ wire[n][1].a = "Y"
        /\ cico[m].pc \in {"wrdata", "cmpt"}
    BY <1>8 DEF Fetching, Answer
  <2> QED  BY <2>1, WorkingStep
<1>9. CASE Talk(m)
  <2> DEFINE c == [cico[m] EXCEPT !.pc = "top", !.role = "SLAVE"]
  <2>1. Told(m)
    BY <1>0, <1>9 DEF Talk, Asks, Sending, Fetching
  <2>2. cico[m].pc = "reply" /\ wire[m] # <<>> /\ wire[m][1] = Msg("H", "N", 0, 0)
    BY <1>0, <2>1 DEF Told
  <2>3. Head(wire[m]) = wire[m][1]
    BY <1>0, <2>2, Wires, TailIs
  <2>4. Head(wire[m]).t = "H" /\ Head(wire[m]).a = "N"
    BY <2>2, <2>3 DEF Msg
  <2>5. HupAnswered(m)
    BY <2>2, <2>4, WorkingStep
  <2>6. Takes(m, c) /\ c.pc = "top"
    BY <1>0, <2>4, <2>5 DEF HupAnswered, Cico
  <2> HIDE DEF c
  <2> QED  BY <1>3, <2>2, <2>6
<1> QED  BY <1>1, <1>4, <1>5, <1>6, <1>7, <1>8, <1>9 DEF Talk

\* The slave answers, and is going to send from the point asked for.
LEMMA RcvfileGoes ==
    ASSUME StepInv, NEW m \in Machine, SlaveRcvfile(m), up
    PROVE  /\ wire'[m] = Tail(wire[m]) /\ \E x \in Message : wire'[Peer(m)] = Append(wire[Peer(m)], x)
           /\ \/ cico'[m].pc = "top"
              \/ cico'[m].pc = "wrdata" /\ cico'[m].at = IF scenario.restart THEN Head(wire[m]).n ELSE 0
<1> DEFINE x == Head(wire[m])
           e == [cico[m] EXCEPT !.pc = "wrdata", !.job = x.job,
                                !.at = IF scenario.restart THEN x.n ELSE 0]
           y(k) == Msg("R", "N2", k, 0)
           z(k) == Msg("R", "Y", k, Job(k).len)
<1>1. /\ cico[m].pc = "top" /\ cico[m].role = "SLAVE" /\ wire[m] # <<>> /\ Head(wire[m]).t = "R"
      /\ Answers(m, y(x.job), cico[m]) \/ Answers(m, z(x.job), e)
  BY DEF SlaveRcvfile, Gets
<1>2. LineType /\ cico[m] \in Cico /\ x.job \in Jobs /\ TypeOK /\ LineInv
  <2>1. LineType /\ cico[m] \in Cico /\ TypeOK /\ LineInv
    BY Parts, Wires DEF Fits
  <2> QED  BY <1>1, <2>1, GotRequest
<1>3. y(x.job) \in Message /\ z(x.job) \in Message
  <2>1. x.job \in Nat /\ Job(x.job).len \in Nat
    BY <1>2, JobIs, WholeIs
  <2> QED  BY <2>1, MsgIs DEF Message, Msg
<1>4. e.pc = "wrdata" /\ e.at = IF scenario.restart THEN x.n ELSE 0
  BY <1>2 DEF Cico
<1> HIDE DEF e, y, z
<1>5. /\ wire'[m] = Tail(wire[m])
      /\ \/ cico'[m] = cico[m] /\ wire'[Peer(m)] = Append(wire[Peer(m)], y(x.job))
         \/ cico'[m] = e /\ wire'[Peer(m)] = Append(wire[Peer(m)], z(x.job))
  BY <1>1, <1>2, AnswersGo
<1> QED  BY <1>1, <1>3, <1>4, <1>5

LEMMA AwaitsOn ==
    ASSUME StepInv, [Next]_vars, NEW n \in Machine, NEW m \in Machine, m = Peer(n), Moved(m), up',
           cico[n].pc = "reply", cico[n].job # 0, Kind(cico[n].job) = "R",
           cico'[n] = cico[n], Awaits(n), pfile'[cico[n].job] = pfile[cico[n].job]
    PROVE  Awaits(n)'
<1> PICK j : j = cico[n].job
  OBVIOUS
<1> PICK w : w = wire'[n]
  OBVIOUS
<1> PICK p : p = StartPoint(j)
  OBVIOUS
<1>0. /\ up /\ LineType /\ LineInv /\ n = Peer(m) /\ UNCHANGED scenario /\ TypeOK
      /\ wire[n] \in Seq(Message) /\ wire[m] \in Seq(Message)
  BY Parts, Moves, Peers, Wires
<1>1. /\ Aligned(j, Reach(j, p))
      /\ wire[n] # <<>> /\ wire[n][1].a = "Y" => Stream(wire[n], 2, p, j)
      /\ \A i \in DOMAIN wire[m] : wire[m][i].t = "R" => wire[m][i].n = p
      /\ cico[m].pc = "wrdata" => cico[m].at = Offset(p, Len(wire[n]) - 1)
  BY <1>0 DEF Awaits
<1>2. j \in Jobs /\ p \in Nat /\ p = StartPoint(j)'
  <2>1. j \in Jobs
    BY <1>0, Wires DEF Fits
  <2> QED  BY <1>0, <2>1, StartIs, StartStays
<1>3. Aligned(j, Reach(j, p))'
  <2>1. PICK r : r = Reach(j, p)
    OBVIOUS
  <2>2. r = Reach(j, p)'
    BY <1>0, <2>1 DEF Reach, Job
  <2>3. Aligned(j, r)'
    BY <1>1, <2>1, AlignedStays
  <2> QED  BY <2>2, <2>3
<1>4. ASSUME w # <<>> /\ w[1].a = "Y" => Stream(w, 2, p, j),
             \A i \in DOMAIN wire'[m] : wire'[m][i].t = "R" => wire'[m][i].n = p,
             cico'[m].pc = "wrdata" => cico'[m].at = Offset(p, Len(w) - 1)
      PROVE  Awaits(n)'
  <2>1. w # <<>> /\ w[1].a = "Y" => Stream(w, 2, p, j)'
    BY <1>0, <1>4, StreamStays
  <2>2. j = cico'[n].job
    OBVIOUS
  <2> QED  BY <1>2, <1>3, <1>4, <2>1, <2>2, AwaitsNext
<1>5. CASE Wrdata(m) /\ wire[m] = <<>> /\ wire[n] # <<>> /\ wire[n][1].a = "Y"
  <2>1. PICK at : at = cico[m].at
    OBVIOUS
  <2>2. PICK c \in Nat : c = Len(wire[n]) - 1
    BY <1>0, <1>5, TailIs, NoMessage
  <2>3. at = Offset(p, c) /\ Len(wire[n]) \in Nat /\ cico[m].pc = "wrdata"
    BY <1>0, <1>1, <1>5, <2>1, <2>2, NoMessage DEF Wrdata
  <2>4. j = cico[m].job
    <3>1. Sending(m) \/ Fetching(n)
      BY <1>0, <2>3, Writing
    <3> QED  BY <1>0, <3>1 DEF Sending, Fetching
  <2>5. /\ cico'[m].pc = "cmpt" \/ (cico'[m].pc = "wrdata" /\ cico'[m].at = at + BUFSIZ)
        /\ wire'[m] = wire[m]
        /\ \E x \in Message :
              IsChunk(x.data, j, at) /\ wire'[Peer(m)] = Append(wire[Peer(m)], x)
    <3>1. up
      BY <1>0
    <3>2. Wrdata(m) /\ j = cico[m].job /\ at = cico[m].at
      BY <1>5, <2>1, <2>4
    <3>3. /\ wire'[m] = wire[m]
          /\ cico'[m].pc = "cmpt" \/ (cico'[m].pc = "wrdata" /\ cico'[m].at = at + BUFSIZ)
      BY <3>1, <3>2, WrdataGoes
    <3>4. \E x \in Message : IsChunk(x.data, j, at) /\ wire'[Peer(m)] = Append(wire[Peer(m)], x)
      BY <3>1, <3>2, WrdataGoes
    <3> QED  BY <3>3, <3>4
  <2>6. PICK x \in Message : IsChunk(x.data, j, at) /\ wire'[Peer(m)] = Append(wire[Peer(m)], x)
    BY <2>5
  <2>7. w = Append(wire[n], x)
    BY <1>0, <2>6
  <2>8. c + 2 = Len(wire[n]) + 1
    BY <2>2, <2>3
  <2>9. /\ Stream(w, 2, p, j) /\ Len(w) = Len(wire[n]) + 1
        /\ Offset(p, c) + BUFSIZ = Offset(p, c + 1)
    <3>1. Stream(wire[n], 2, p, j) /\ IsChunk(x.data, j, Offset(p, c))
      BY <1>1, <1>5, <2>3, <2>6
    <3>2. wire[n] \in Seq(Message) /\ p \in Nat /\ 2 \in {1, 2}
      BY <1>0, <1>2
    <3> QED  BY <2>7, <2>8, <3>1, <3>2, StreamSent
  <2>10. Len(w) - 1 = c + 1
    BY <2>3, <2>8, <2>9
  <2>11. cico'[m].pc = "wrdata" => cico'[m].at = Offset(p, Len(w) - 1)
    BY <2>3, <2>5, <2>9, <2>10
  <2>12. \A i \in DOMAIN wire'[m] : wire'[m][i].t = "R" => wire'[m][i].n = p
    BY <1>1, <2>5
  <2> QED  BY <1>4, <2>9, <2>11, <2>12
<1>6. CASE /\ SlaveRcvfile(m) /\ wire[n] = <<>> /\ Len(wire[m]) = 1 /\ wire[m] # <<>>
           /\ wire[m][1].t = "R"
  <2>1. /\ wire'[m] = Tail(wire[m])
        /\ \E x \in Message : wire'[n] = Append(wire[n], x)
        /\ \/ cico'[m].pc = "top"
           \/ cico'[m].pc = "wrdata" /\ cico'[m].at = IF scenario.restart THEN Head(wire[m]).n ELSE 0
    BY <1>0, <1>6, RcvfileGoes
  <2>2. Len(wire[n]) = 0 /\ Head(wire[m]) = wire[m][1] /\ Tail(wire[m]) = <<>>
    BY <1>0, <1>6, NoMessage, TailIs, LastTaken
  <2>3. Len(w) = 1
    <3>1. PICK x \in Message : wire'[n] = Append(wire[n], x)
      BY <2>1
    <3> QED  BY <1>0, <2>2, <3>1, AppendIs
  <2>4. Stream(w, 2, p, j)
    BY <2>3 DEF Stream
  <2>5. DOMAIN wire'[m] = {}
    BY <2>1, <2>2
  <2>6. 1 \in DOMAIN wire[m]
    BY <1>0, <1>6
  <2>7. wire[m][1].n = p
    BY <1>1, <1>6, <2>6
  <2>8. ~scenario.restart => p = 0
    <3>1. ~scenario.restart => Len(Opened(j)) = 0
      BY DEF Opened, Checkpointed
    <3>2. 0 % BUFSIZ = 0
      BY BufAssumption
    <3> QED  BY <3>1, <3>2 DEF StartPoint
  <2>9. Offset(p, Len(w) - 1) = p
    BY <1>2, <2>3, OffsetIs
  <2>10. cico'[m].pc = "wrdata" => cico'[m].at = p
    BY <2>1, <2>2, <2>7, <2>8
  <2> QED  BY <1>4, <2>4, <2>5, <2>9, <2>10
<1>7. CASE /\ cico'[m].pc = "top" /\ wire[m] # <<>> /\ wire'[m] = Tail(wire[m])
           /\ wire'[n] = wire[n]
  <2>1. /\ Tail(wire[m]) \in Seq(Message) /\ Len(wire[m]) \in Nat /\ Len(wire[m]) > 0
        /\ Len(Tail(wire[m])) = Len(wire[m]) - 1
        /\ \A i \in 1..(Len(wire[m]) - 1) : Tail(wire[m])[i] = wire[m][i + 1]
    BY <1>0, <1>7, TailIs, NoMessage
  <2> DEFINE v == Tail(wire[m])
  <2>2. \A i \in DOMAIN v : i + 1 \in DOMAIN wire[m] /\ v[i] = wire[m][i + 1]
    BY <1>0, <2>1
  <2>3. \A i \in DOMAIN v : v[i].t = "R" => v[i].n = p
    BY <1>1, <2>2
  <2> QED  BY <1>1, <1>4, <1>7, <2>3
<1> QED  BY <1>5, <1>6, <1>7, AskedMoves

\* A file that nobody receives is empty, if only short writes have happened.
LEMMA NotHeld ==
    ASSUME Uncut, OnlyShort, NEW m \in Machine, NEW j \in Jobs,
           cico[m].pc \notin {"rddata", "stored"}, cico[Peer(m)].pc \notin {"rddata", "stored"}
    PROVE  pfile[j] = <<>>
BY Peers DEF Uncut

\* m asks for a file.
LEMMA AwaitsFirst ==
    ASSUME StepInv, [Next]_vars, DataInv, NEW m \in Machine, MasterTop(m), up,
           cico'[m].pc = "reply", cico'[m].job # 0, Kind(cico'[m].job) = "R"
    PROVE  Awaits(m)'
<1> DEFINE v == gtwvec(queue[m], mark[m], cico[m].pos)
           next == [cico[m] EXCEPT !.pc = "reply", !.pos = v.pos, !.job = v.job]
           over == [next EXCEPT !.pc = "top"]
           s == Peer(m)
<1> PICK j : j = v.job
  OBVIOUS
<1> PICK p : p = StartPoint(j)
  OBVIOUS
<1>0. /\ LineType /\ LineInv /\ TypeOK /\ cico[m] \in Cico /\ s \in Machine /\ m = Peer(s)
      /\ cico[m].pc = "top" /\ cico[m].role = "MASTER" /\ UNCHANGED <<scenario, faults>>
      /\ wire[s] \in Seq(Message) /\ wire[m] \in Seq(Message)
  BY Parts, Wires, Peers DEF Fits, MasterTop, NoFault
<1>1. \/ j = 0
      \/ cico' = [cico EXCEPT ![m] = over]
      \/ j # 0 /\ Job(j).type = "S"
      \/ j # 0 /\ Open(j) /\ Sends(m, Msg("R", "", j, p), next)
  BY DEF MasterTop
<1>2. next.job = j /\ next.pc = "reply" /\ over.pc = "top"
  BY <1>0 DEF Cico
<1>3. cico'[m].job = j
  BY <1>2, TopGoes, NoneFits
<1> HIDE DEF next, over, v
<1>4. j \in Jobs /\ j # 0 /\ Kind(j) = "R"
  <2>1. j \in Jobs \cup {0}
    <3>1. Queued(queue[m], mark[m]) /\ cico[m].pos \in Nat \cup {-1}
      BY <1>0, TypeParts DEF Cico
    <3> QED  BY <3>1, GtwvecIs DEF v
  <2> QED  BY <1>3, <2>1
<1>5. Open(j) /\ Sends(m, Msg("R", "", j, p), next)
  <2>1. ~(cico' = [cico EXCEPT ![m] = over])
    BY <1>0, <1>2 DEF LineType
  <2>2. Job(j).type # "S"
    BY <1>0, <1>4, JobIs
  <2> QED  BY <1>1, <1>4, <2>1, <2>2
<1>6. /\ wire'[m] = wire[m] /\ wire'[s] = Append(wire[s], Msg("R", "", j, p))
      /\ cico'[s] = cico[s] /\ up' = up
  BY <1>0, <1>5, SendsGo
<1>7. /\ wire[m] = <<>> /\ cico[s].pc \in {"top", "cmpt", "reply"}
      /\ \A i \in 1..Len(wire[s]) : wire[s][i].t # "R"
  <2>1. /\ Asks(m, 0) \/ (Asks(m, 1) /\ wire[s][1].t \in {"C", "H"})
        /\ cico[s].pc \in {"top", "cmpt", "reply"}
    BY <1>0, TopMaster DEF Msg
  <2>2. wire[m] = <<>> /\ (Len(wire[s]) = 0 \/ (Len(wire[s]) = 1 /\ wire[s][1].t \in {"C", "H"}))
    BY <1>0, <2>1 DEF Asks
  <2> QED  BY <2>1, <2>2
<1>8. pfile'[j] = Opened(j)
  BY <1>4, <1>5, Parts DEF Open, DiskType
<1>9. p = StartPoint(j)' /\ p \in Nat
  <2>1. Opened(j)' = Opened(j)
    BY <1>0, <1>8 DEF Opened, Checkpointed, Job
  <2> QED  BY <1>0, <1>4, <2>1, StartIs DEF StartPoint
<1>10. Aligned(j, Reach(j, p))'
  <2>1. OnlyShort => pfile[j] = <<>>
    BY <1>0, <1>4, <1>7, NotHeld DEF DataInv
  <2>2. Partial(j)
    BY <1>4 DEF DataInv
  <2>3. Aligned(j, Reach(j, StartPoint(j)))'
    BY <1>0, <1>4, <1>8, <2>1, <2>2, OpenAligned
  <2> QED  BY <1>9, <2>3
<1>11. \A i \in DOMAIN wire'[s] : wire'[s][i].t = "R" => wire'[s][i].n = p
  <2> DEFINE x == Msg("R", "", j, p)
  <2>1. x \in Message /\ x.n = p
    <3>1. j \in Nat
      BY <1>0, <1>4, JobIs
    <3> QED  BY <1>9, <3>1, MsgIs DEF Msg, Message
  <2> HIDE DEF x
  <2>2. /\ Append(wire[s], x) \in Seq(Message) /\ Len(Append(wire[s], x)) = Len(wire[s]) + 1
        /\ \A i \in 1..Len(wire[s]) : Append(wire[s], x)[i] = wire[s][i]
        /\ Append(wire[s], x)[Len(wire[s]) + 1] = x /\ Len(wire[s]) \in Nat
    BY <1>0, <2>1, AppendIs, NoMessage
  <2>3. \A i \in 1..(Len(wire[s]) + 1) : Append(wire[s], x)[i].t = "R" => Append(wire[s], x)[i].n = p
    BY <1>7, <2>1, <2>2
  <2>4. PICK u : u = Append(wire[s], x)
    OBVIOUS
  <2>5. u \in Seq(Message) /\ Len(u) = Len(wire[s]) + 1
    BY <2>2, <2>4
  <2>6. DOMAIN u = 1..(Len(wire[s]) + 1)
    BY <2>5
  <2>7. wire'[s] = u
    BY <1>6, <2>4 DEF x
  <2> QED  BY <2>3, <2>4, <2>6, <2>7
<1>12. cico'[s].pc # "wrdata" /\ wire'[m] = <<>>
  BY <1>6, <1>7
<1> QED  BY <1>3, <1>9, <1>10, <1>11, <1>12, AwaitsNext

\* The slave has opened a file.
LEMMA ReceivesFirst ==
    ASSUME StepInv, [Next]_vars, Lines, AtLine, DataInv, NEW m \in Machine, SlaveSndfile(m), up,
           NEW j, j = Head(wire[m]).job, Open(j), NoFault,
           cico'[m].pc = "rddata", cico'[m].job = j,
           wire'[m] = Tail(wire[m]),
           wire'[Peer(m)] = Append(wire[Peer(m)], Msg("S", "Y", j, StartPoint(j)))
    PROVE  Receives(m)' /\ Head(wire[m]).n = Job(j).len /\ j \in Jobs
<1> DEFINE s == Peer(m)
<1> PICK p : p = StartPoint(j)
  OBVIOUS
<1>0. /\ LineType /\ LineInv /\ TypeOK /\ s \in Machine /\ m = Peer(s)
      /\ cico[m].pc = "top" /\ cico[m].role = "SLAVE" /\ wire[m] # <<>> /\ Head(wire[m]).t = "S"
      /\ UNCHANGED <<scenario, faults>>
      /\ wire[s] \in Seq(Message) /\ wire[m] \in Seq(Message)
  BY Parts, Wires, Peers DEF SlaveSndfile, Gets, NoFault
<1>1. /\ cico[s].pc = "reply" /\ wire[s] = <<>> /\ j \in Jobs /\ Len(wire[m]) = 1
      /\ Head(wire[m]).n = Job(j).len
  <2>1. Head(wire[m]).n = Job(j).len
    BY <1>0, GotRequest
  <2> QED  BY <1>0, <2>1, RequestIs
<1>2. cico'[s] = cico[s] /\ wire'[m] = <<>>
  <2>1. Moved(m)
    BY DEF Moved, Kept
  <2> QED  BY <1>0, <1>1, <2>1, Moves, LastTaken
<1>3. pfile'[j] = Opened(j)
  BY <1>1, Parts DEF Open, DiskType
<1>4. p \in Nat /\ p % BUFSIZ = 0
  BY <1>0, <1>1, StartIs
<1>5. Aligned(j, Reach(j, p))'
  <2>1. OnlyShort => pfile[j] = <<>>
    BY <1>0, <1>1, NotHeld DEF DataInv
  <2>2. Partial(j)
    BY <1>1 DEF DataInv
  <2>3. Aligned(j, Reach(j, StartPoint(j)))'
    BY <1>0, <1>1, <1>3, <2>1, <2>2, OpenAligned
  <2>4. Opened(j)' = Opened(j)
    BY <1>0, <1>3 DEF Opened, Checkpointed, Job
  <2>5. p = StartPoint(j)'
    BY <2>4 DEF StartPoint
  <2> QED  BY <2>3, <2>5
<1>6. \A i \in DOMAIN wire'[s] : wire'[s][i].n = p
  <2> DEFINE x == Msg("S", "Y", j, p)
  <2>1. x.n = p /\ wire'[s] = Append(<<>>, x)
    BY <1>1 DEF Msg
  <2> HIDE DEF x
  <2>2. Append(<<>>, x) = <<x>>
    OBVIOUS
  <2> QED  BY <2>1, <2>2
<1>7. Stream(<<>>, 1, p, j)'
  <2>1. Len(<<>>) = 0
    OBVIOUS
  <2> QED  BY <2>1 DEF Stream
<1>8. cico'[s].pc # "wrdata"
  BY <1>1, <1>2
<1>9. Receives(m)'
  BY <1>2, <1>4, <1>5, <1>6, <1>7, <1>8, ReceivesNext
<1> QED  BY <1>1, <1>9

\* The master has got the answer.
LEMMA ReceivesAsked ==
    ASSUME StepInv, [Next]_vars, Receiving, NEW m \in Machine, RcvfileAnswered(m),
           NEW j, j = cico[m].job, Head(wire[m]).a = "Y", UNCHANGED pfile,
           cico'[m].job = j,
           wire'[m] = Tail(wire[m]), wire'[Peer(m)] = wire[Peer(m)], up' = up
    PROVE  Receives(m)' /\ Head(wire[m]).n = Job(j).len /\ j \in Jobs
<1> DEFINE s == Peer(m)
<1> PICK p : p = StartPoint(j)
  OBVIOUS
<1> PICK v : v = wire'[m]
  OBVIOUS
<1>0. /\ LineType /\ LineInv /\ TypeOK /\ s \in Machine /\ m = Peer(s)
      /\ cico[m].pc = "reply" /\ wire[m] # <<>> /\ Head(wire[m]).t = "R"
      /\ UNCHANGED scenario /\ wire[m] \in Seq(Message)
  BY Parts, Wires, Peers DEF RcvfileAnswered, Gets
<1>1. /\ Head(wire[m]) = wire[m][1] /\ j \in Jobs /\ j # 0 /\ Kind(j) = "R"
      /\ Head(wire[m]).n = Job(j).len
  <2>1. /\ Head(wire[m]) = wire[m][1] /\ Head(wire[m]).t = Kind(j) /\ j \in Jobs \cup {0}
        /\ Head(wire[m]).n = Job(j).len /\ j # 0
    BY <1>0, GotAnswer
  <2> QED  BY <1>0, <2>1
<1>2. Awaits(m)
  BY <1>0, <1>1 DEF Receiving
<1>3. /\ Aligned(j, Reach(j, p)) /\ Stream(wire[m], 2, p, j)
      /\ up /\ cico[s].pc = "wrdata" => cico[s].at = Offset(p, Len(wire[m]) - 1)
  BY <1>0, <1>1, <1>2 DEF Awaits
<1>4. p \in Nat /\ p % BUFSIZ = 0
  BY <1>0, <1>1, StartIs
<1>5. Aligned(j, Reach(j, p))'
  <2>1. PICK r : r = Reach(j, p)
    OBVIOUS
  <2>2. r = Reach(j, p)' /\ pfile'[j] = pfile[j]
    BY <1>0, <2>1 DEF Reach, Job
  <2>3. Aligned(j, r)'
    BY <1>3, <2>1, <2>2, AlignedStays
  <2> QED  BY <2>2, <2>3
<1>6. cico'[s] = cico[s]
  <2>1. Moved(m)
    BY DEF Moved, Kept
  <2> QED  BY <2>1, Moves
<1>7. Stream(v, 1, p, j)' /\ Offset(p, Len(wire[m]) - 1) = Offset(p, Len(v))
  <2>1. v = Tail(wire[m])
    OBVIOUS
  <2>2. Stream(v, 1, p, j) /\ Offset(p, Len(wire[m]) - 1) = Offset(p, Len(v))
    BY <1>0, <1>3, <1>4, <2>1, StreamLeft
  <2> QED  BY <1>0, <2>2, StreamStays
<1>8. up => cico[s].pc # "reply"
  <2>1. up => Told(m) \/ Sending(m) \/ Fetching(m)
    BY <1>0, MasterGot
  <2>2. wire[m][1].t = "R"
    BY <1>0, <1>1
  <2>3. Sending(m) => cico[s].pc # "reply"
    BY DEF Sending
  <2>4. Fetching(m) => cico[s].pc # "reply"
    BY <1>0 DEF Fetching
  <2>5. Told(m) => cico[s].pc # "reply"
    BY <1>0, <2>2 DEF Told, Msg
  <2> QED  BY <2>1, <2>3, <2>4, <2>5
<1>9. Receives(m)'
  BY <1>3, <1>4, <1>5, <1>6, <1>7, <1>8, ReceivesNext
<1> QED  BY <1>1, <1>9

\* The step is one of m.
LEMMA ReceivingOwn ==
    ASSUME StepInv, [Next]_vars, Lines, AtLine, DataInv, NEW m \in Machine, Moved(m)
    PROVE  ReceivingAt(m)'
<1> PICK j : j = cico'[m].job
  OBVIOUS
<1> DEFINE c == cico'[m]
           x == Head(wire[m])
<1>0. /\ UNCHANGED scenario /\ Receiving
      /\ Job(j)' = Job(j) /\ Kind(j)' = Kind(j)
  BY ScenarioStays DEF DataInv, Job, Kind
<1>1. ASSUME c.pc = "rddata" => Receives(m)',
             c.pc = "reply" /\ j # 0 /\ Kind(j) = "R" => Awaits(m)',
             c.pc = "stored" /\ c.ret = "ok" => Aligned(j, Job(j).len)',
             c.pc \in {"rddata", "stored"} => c.size = Job(j).len,
             c.pc \in {"rddata", "stored"} /\ c.ret = "big" => Had("ulimit")' > 0
      PROVE  ReceivingAt(m)'
  <2>1. c.pc = "reply" /\ j # 0 /\ Kind(j)' = "R" => Awaits(m)'
    BY <1>0, <1>1
  <2>2. c.pc \in {"rddata", "stored"} => c.size = Job(j)'.len
    BY <1>0, <1>1
  <2> QED  BY <1>1, <2>1, <2>2 DEF ReceivingAt
<1>2. CASE c.pc \notin {"reply", "rddata", "stored"}
  BY <1>1, <1>2
<1>3. CASE MasterTop(m) /\ up /\ c.pc = "reply"
  <2>1. j # 0 /\ Kind(j) = "R" => Awaits(m)'
    BY <1>3, AwaitsFirst
  <2> QED  BY <1>1, <1>3, <2>1
<1>4. CASE /\ SlaveSndfile(m) /\ up /\ Open(x.job) /\ NoFault
           /\ c.pc = "rddata" /\ c.job = x.job /\ c.size = x.n /\ c.ret = "ok"
           /\ wire'[m] = Tail(wire[m])
           /\ wire'[Peer(m)] = Append(wire[Peer(m)], Msg("S", "Y", x.job, StartPoint(x.job)))
  <2>1. j = x.job
    BY <1>4
  <2>2. Receives(m)' /\ x.n = Job(j).len
    BY <1>4, <2>1, ReceivesFirst
  <2> QED  BY <1>1, <1>4, <2>2
<1>5. CASE /\ RcvfileAnswered(m) /\ x.a = "Y" /\ UNCHANGED pfile
           /\ c.pc = "rddata" /\ c.job = cico[m].job
           /\ c.size = x.n /\ c.ret = "ok"
           /\ wire'[m] = Tail(wire[m]) /\ wire'[Peer(m)] = wire[Peer(m)] /\ up' = up
  <2>1. j = cico[m].job
    BY <1>5
  <2>2. Receives(m)' /\ x.n = Job(j).len
    BY <1>0, <1>5, <2>1, ReceivesAsked
  <2> QED  BY <1>1, <1>5, <2>2
<1>6. CASE Rddata(m)
  <2>1. j = cico[m].job /\ cico[m].pc = "rddata" /\ c.pc \in {"rddata", "stored"}
    BY <1>6, RddataGoes
  <2>2. j \in Jobs
    BY <2>1, Parts, Wires DEF Fits
  <2>3. /\ c.pc = "rddata" => Receives(m)'
        /\ c.pc = "stored" /\ c.ret = "ok" => Aligned(j, Job(j).len)'
        /\ c.size = Job(j).len
        /\ c.ret = "big" => Had("ulimit")' > 0
    BY <1>0, <1>6, <2>1, <2>2, RddataReceives DEF DataInv
  <2> QED  BY <1>1, <2>1, <2>3
<1> QED  BY <1>2, <1>3, <1>4, <1>5, <1>6, Receivers

LEMMA ReceivingStep ==
    ASSUME StepInv, [Next]_vars, Lines, AtLine, Held, Silent, DataInv
    PROVE  Receiving'
<1>0. Receiving
  BY DEF DataInv
<1>1. CASE UNCHANGED vars
  <2>1. UNCHANGED <<scenario, pfile, cico, wire, up, faults>>
    BY <1>1 DEF vars
  <2>2. \A j, r : Aligned(j, r)' <=> Aligned(j, r)
    BY <2>1 DEF Aligned, Begun, TooLong, Once, Clean, OnlyShort, Had, Job
  <2>3. \A w, k, p, j : Stream(w, k, p, j)' <=> Stream(w, k, p, j)
    BY <2>1 DEF Stream, IsChunk, Reach, Job, Offset
  <2>4. \A j, p : Reach(j, p)' = Reach(j, p)
    BY <2>1 DEF Reach, Job
  <2>5. \A j : StartPoint(j)' = StartPoint(j) /\ Kind(j)' = Kind(j) /\ Job(j)' = Job(j)
    BY <2>1 DEF StartPoint, Opened, Checkpointed, Kind, Job
  <2>6. \A n \in Machine : Receives(n) => Receives(n)'
    BY <2>1, <2>2, <2>3, <2>4 DEF Receives, Peer, Offset
  <2>7. \A n \in Machine : Awaits(n) => Awaits(n)'
    BY <2>1, <2>2, <2>3, <2>4, <2>5 DEF Awaits, Peer, Offset
  <2> QED  BY <1>0, <2>1, <2>2, <2>5, <2>6, <2>7 DEF Receiving, Had
<1>2. CASE Break
  <2>1. UNCHANGED <<cico, pfile>> /\ ~up' /\ \A n \in Machine : wire'[n] = <<>>
    BY <1>2 DEF Break, fileVars
  <2>2. ASSUME NEW n \in Machine PROVE ReceivingAt(n)'
    BY <1>0, <2>1, ReceivingDown
  <2> QED  BY <2>2, ReceivingIs
<1>3. ASSUME NEW k \in Machine, Call(k) PROVE Receiving'
  <2>1. \A n \in Machine : cico'[n].pc = "top"
    BY <1>3 DEF Call, None
  <2>2. ASSUME NEW n \in Machine PROVE ReceivingAt(n)'
    BY <2>1 DEF ReceivingAt
  <2> QED  BY <2>2, ReceivingIs
<1>4. ASSUME NEW m \in Machine, Moved(m) PROVE Receiving'
  <2> PICK n \in Machine : n = Peer(m)
    BY Peers
  <2>1. m = Peer(n) /\ \A k \in Machine : k = m \/ k = n
    BY Peers
  <2>2. cico'[n] = cico[n] /\ (~up' => wire'[n] = wire[n])
    BY <1>4, Moves
  <2>3. Busy(n) => pfile'[cico[n].job] = pfile[cico[n].job]
    BY <1>4, FileStays
  <2>4. ReceivingAt(m)'
    BY <1>4, ReceivingOwn
  <2>5. ReceivingAt(n)'
    <3>1. CASE ~up'
      BY <1>0, <2>2, <2>3, <3>1, ReceivingDown
    <3>2. CASE up'
      <4>1. cico[n].pc = "rddata" => Receives(n)'
        BY <1>0, <1>4, <2>1, <2>2, <2>3, <3>2, ReceivesOn DEF Receiving, Busy
      <4>2. cico[n].pc = "reply" /\ cico[n].job # 0 /\ Kind(cico[n].job) = "R" => Awaits(n)'
        BY <1>0, <1>4, <2>1, <2>2, <2>3, <3>2, AwaitsOn DEF Receiving, Busy
      <4> QED  BY <1>0, <2>2, <2>3, <4>1, <4>2, ReceivingOther
    <3> QED  BY <3>1, <3>2
  <2> QED  BY <2>1, <2>4, <2>5, ReceivingIs
<1> QED  BY <1>1, <1>2, <1>3, <1>4, Steps DEF Moved

-----------------------------------------------------------------------------
(***************************************************************************)
(* The inductive invariant.                                                *)
(***************************************************************************)

LEMMA WorkInit ==
    ASSUME Init
    PROVE  WorkInv
<1>0. /\ ScenarioType(scenario) /\ queue = scenario.files
      /\ \A m \in Machine : mark[m] = 0 /\ cico[m] = None /\ wire[m] = <<>>
  BY ScenarioAssumption DEF Init
<1>1. Lines
  BY <1>0 DEF Lines, ScenarioType, Job
<1>2. \A m \in Machine : cico[m].pc = "none" /\ cico[m].role = "SLAVE" /\ cico[m].pos = -1
  BY <1>0 DEF None
<1>3. AtLine /\ Held /\ Left
  BY <1>2 DEF AtLine, OnLine, Held, Left
<1>4. Silent
  BY <1>0 DEF Silent
<1>5. NeverLost
  <2>1. SUFFICES ASSUME NEW j \in Jobs PROVE Pending(j)
    BY DEF NeverLost
  <2>2. HasLine(scenario.files[Job(j).at], j) /\ Job(j).at \in Machine
    <3>1. Job(j) \in JobType
      BY StepInvInit, Parts, JobIs
    <3> QED  BY <1>0, <3>1 DEF ScenarioType, Jobs, Job, JobType
  <2>3. PICK q : q = queue[Job(j).at]
    OBVIOUS
  <2>4. PICK i \in DOMAIN q : \E k \in DOMAIN q[i] : q[i][k] = j
    BY <1>0, <2>2, <2>3 DEF HasLine
  <2>5. PICK k \in DOMAIN q[i] : q[i][k] = j
    BY <2>4
  <2>6. k > mark[Job(j).at]
    <3>1. q[i] \in Seq(Nat)
      BY <1>0, <2>2, <2>3, <2>4 DEF ScenarioType
    <3> QED  BY <1>0, <2>2, <2>5, <3>1
  <2> QED  BY <2>3, <2>5, <2>6 DEF Pending
<1> QED  BY <1>1, <1>3, <1>4, <1>5 DEF WorkInv

LEMMA DataInit ==
    ASSUME Init
    PROVE  DataInv
<1>0. /\ ScenarioType(scenario) /\ linked = {} /\ faults = scenario.faults
      /\ \A j \in Jobs : pfile[j] = <<>> /\ dest[j] = NoFile
      /\ \A m \in Machine : cico[m] = None
  BY ScenarioAssumption DEF Init
<1>1. \A m \in Machine : cico[m].pc = "none"
  BY <1>0 DEF None
<1>2. Receiving /\ Uncut
  BY <1>0, <1>1 DEF Receiving, Uncut
<1>3. ASSUME NEW j \in Jobs PROVE Partial(j)
  <2>1. Job(j).len \in Nat /\ Len(pfile[j]) = 0
    <3>1. Job(j) \in JobType
      BY StepInvInit, Parts, JobIs
    <3> QED  BY <1>0, <3>1 DEF JobType
  <2>2. 0 % BUFSIZ = 0
    BY BufAssumption
  <2>3. Begun(j)
    BY <2>1 DEF Begun
  <2> QED  BY <2>1, <2>2, <2>3 DEF Partial
<1>4. Intact
  BY <1>0 DEF Intact
<1> QED  BY <1>0, <1>2, <1>3, <1>4 DEF DataInv

LEMMA WorkNext ==
    ASSUME StepInv, WorkInv, DataInv, [Next]_vars
    PROVE  WorkInv' /\ DataInv'
<1>0. Lines /\ AtLine /\ Held /\ Left /\ Silent /\ NeverLost
  BY DEF WorkInv
<1>1. Lines' /\ AtLine'
  BY <1>0, AtLineStep
<1>2. Held'
  BY <1>0, HeldStep
<1>3. Silent'
  BY <1>0, SilentStep
<1>4. Left'
  BY <1>0, LeftStep
<1>5. NeverLost'
  BY <1>0, NeverLostStep
<1>6. (\A j \in Jobs : Partial(j)) /\ Receiving /\ Uncut /\ (Had("killmove") = 0 => linked = {})
  BY DEF DataInv
<1>7. \A j \in Jobs' : Partial(j)'
  BY <1>6, PartialStep
<1>8. Receiving'
  BY <1>0, ReceivingStep
<1>9. Uncut'
  BY <1>6, UncutStep
<1>10. (Had("killmove") = 0 => linked = {})'
  BY <1>6, LinkedStep
<1>11. Intact'
  BY IntactStep
<1>12. WorkInv'
  BY <1>1, <1>2, <1>3, <1>4, <1>5 DEF WorkInv
<1> QED  BY <1>7, <1>8, <1>9, <1>10, <1>11, <1>12 DEF DataInv

\* The inductive invariant of NeverLost and Intact.
THEOREM WorkInvariance == Spec => [](StepInv /\ WorkInv /\ DataInv)
<1>1. Init => StepInv /\ WorkInv /\ DataInv
  BY StepInvInit, WorkInit, DataInit
<1>2. StepInv /\ WorkInv /\ DataInv /\ [Next]_vars => (StepInv /\ WorkInv /\ DataInv)'
  BY StepInvNext, WorkNext
<1> QED  BY <1>1, <1>2, PTL DEF Spec

\* No job is lost, however conversations break off and are taken up again: the
\* bookmark of anlwrk and the answer to RQSTCMPT see to it, for any C. files and
\* any faults.
THEOREM NothingLost == Spec => []NeverLost
<1>1. WorkInv => NeverLost
  BY DEF WorkInv
<1> QED  BY <1>1, WorkInvariance, PTL

\* No file that is not whole is put in place: what the size check of cntrl lets
\* through is the file, for any lengths and block size, wherever transfers broke
\* off and were resumed.
THEOREM FilesIntact == Spec => []Intact
<1>1. DataInv => Intact
  BY DEF DataInv
<1> QED  BY <1>1, WorkInvariance, PTL
=============================================================================
