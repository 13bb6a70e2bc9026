----------------------------- MODULE SccsProofs -----------------------------
(***************************************************************************)
(* Proofs about module Sccs, for any users, any commands, any number of    *)
(* tries and any number of commands cut short.                             *)
(*                                                                         *)
(* SccsInv is inductive.  The steps that do not work on the s-file or the  *)
(* p-file (Quiet below) are treated together; a step that does is one of a *)
(* command that holds the lock, and LockHeld says that there is no other.  *)
(***************************************************************************)
EXTENDS Sccs, TLAPS, FiniteSetTheorems, WellFoundedInduction

-----------------------------------------------------------------------------
(***************************************************************************)
(* What sidtoser, getser and newsid of module SccsSid return, for any      *)
(* delta table.                                                            *)
(***************************************************************************)

\* A set of numbers that is not empty has a least one.
LEMMA LeastExists ==
    ASSUME NEW T \in SUBSET Nat, T # {}
    PROVE  \E m \in T : \A t \in T : m <= t
<1>1. PICK m \in T : \A y \in T : ~(<<y, m>> \in OpToRel(<, Nat))
  BY WFMin, NatLessThanWellFounded
<1>2. ASSUME NEW t \in T PROVE m <= t
  <2>1. ~(<<t, m>> \in OpToRel(<, Nat))
    BY <1>1
  <2> QED  BY <2>1 DEF OpToRel
<1> QED  BY <1>2

LEMMA MinIn ==
    ASSUME NEW T \in SUBSET Nat, T # {}
    PROVE  Min(T) \in T
<1>1. \E m \in T : \A t \in T : m <= t
  BY LeastExists
<1> QED  BY <1>1 DEF Min

\* And a greatest one when it has a bound.
LEMMA MaxIn ==
    ASSUME NEW N \in Nat, NEW S \in SUBSET (0 .. N), S # {}
    PROVE  Max(S) \in S
<1> DEFINE T == {N - x : x \in S}
<1>1. T \in SUBSET Nat /\ T # {}
  <2>1. \A x \in S : N - x \in Nat
    OBVIOUS
  <2>2. PICK x \in S : TRUE
    OBVIOUS
  <2>3. N - x \in T
    OBVIOUS
  <2> QED  BY <2>1, <2>3
<1>2. PICK m \in T : \A t \in T : m <= t
  BY <1>1, LeastExists
<1>3. PICK x \in S : m = N - x
  OBVIOUS
<1>4. \A y \in S : x >= y
  BY <1>2, <1>3
<1>5. \E z \in S : \A y \in S : z >= y
  BY <1>4
<1> HIDE DEF T
<1> QED  BY <1>5 DEF Max

\* sidtoser finds the delta with the SID when there is one.
LEMMA SidtoserFinds ==
    ASSUME NEW S, NEW table \in Seq(S), NEW sid
    PROVE  /\ sidtoser(sid, table) \in 0 .. Len(table)
           /\ sidtoser(sid, table) # 0 =>
                /\ sidtoser(sid, table) \in Serials(table)
                /\ table[sidtoser(sid, table)].sid = sid
           /\ sidtoser(sid, table) = 0 => sid \notin Sids(table)
<1> DEFINE found == {n \in Serials(table) : table[n].sid = sid}
<1>1. found \in SUBSET (0 .. Len(table)) /\ 0 \notin found /\ Len(table) \in Nat
  BY DEF Serials
<1>2. CASE found = {}
  BY <1>1, <1>2 DEF sidtoser, Sids
<1>3. CASE found # {}
  <2>1. Max(found) \in found
    BY <1>1, <1>3, MaxIn
  <2>2. sidtoser(sid, table) = Max(found)
    BY <1>3 DEF sidtoser
  <2> QED  BY <1>1, <2>1, <2>2
<1> QED  BY <1>2, <1>3

\* What getser finds is a delta of the file.
LEMMA GetserFinds ==
    ASSUME NEW S, NEW table \in Seq(S), NEW req, getser(req, table) # 0
    PROVE  getser(req, table) \in Serials(table)
<1> DEFINE Trunk  == {n \in Serials(table) :
                        /\ Br(table[n].sid) = 0
                        /\ Rel(req) = 0 \/ Rel(table[n].sid) <= Rel(req)}
           Newest == {n \in Trunk : \A m \in Trunk :
                        Rel(table[m].sid) <= Rel(table[n].sid)}
           Level  == {n \in Serials(table) :
                        Rel(table[n].sid) = Rel(req) /\ Lev(table[n].sid) = Lev(req)}
           Branch == {n \in Level : Br(table[n].sid) = Br(req)}
<1>0. Serials(table) \in SUBSET (0 .. Len(table)) /\ Len(table) \in Nat
  BY DEF Serials
<1>1. CASE Lev(req) = 0
  <2>1. getser(req, table) = Max({0} \cup Newest)
    BY <1>1 DEF getser
  <2>2. {0} \cup Newest \in SUBSET (0 .. Len(table))
    BY <1>0
  <2>3. Max({0} \cup Newest) \in {0} \cup Newest
    BY <1>0, <2>2, MaxIn
  <2> QED  BY <2>1, <2>3
<1>2. CASE Lev(req) # 0 /\ Br(req) # 0 /\ Seqn(req) = 0
  <2>1. getser(req, table) = IF Branch # {} THEN Max(Branch)
                             ELSE IF Level # {} THEN Min(Level) ELSE 0
    BY <1>2 DEF getser
  <2>2. Branch # {} => Max(Branch) \in Branch
    BY <1>0, MaxIn
  <2>3. Level # {} => Min(Level) \in Level
    <3>1. Level \in SUBSET Nat
      BY <1>0
    <3> HIDE DEF Level
    <3> QED  BY <3>1, MinIn
  <2> QED  BY <2>1, <2>2, <2>3
<1>3. CASE ~(Lev(req) = 0) /\ ~(Lev(req) # 0 /\ Br(req) # 0 /\ Seqn(req) = 0)
  <2>1. getser(req, table) = sidtoser(req, table)
    BY <1>3 DEF getser
  <2> QED  BY <2>1, SidtoserFinds
<1> QED  BY <1>1, <1>2, <1>3

\* The search for a free branch ends: there are more candidates than SIDs
\* that are taken.
LEMMA FreeBranch ==
    ASSUME NEW taken, IsFiniteSet(taken), NEW a \in Nat, NEW r, NEW l
    PROVE  Min({i \in a .. a + Cardinality(taken) : <<r, l, i, 1>> \notin taken}) \in Nat
<1> DEFINE N == Cardinality(taken)
           free == {i \in a .. a + N : <<r, l, i, 1>> \notin taken}
<1>1. N \in Nat
  BY FS_CardinalityType
<1>2. free # {}
  <2> SUFFICES ASSUME free = {} PROVE FALSE
    OBVIOUS
  <2> DEFINE f == [i \in a .. a + N |-> <<r, l, i, 1>>]
  <2>1. f \in [a .. a + N -> taken]
    OBVIOUS
  <2>2. IsFiniteSet(a .. a + N) /\ Cardinality(a .. a + N) = N + 1
    <3>1. a \in Int /\ a + N \in Int /\ ~(a > a + N) /\ (a + N) - a + 1 = N + 1
      BY <1>1
    <3> QED  BY <3>1, FS_Interval
  <2>3. \E x, y \in a .. a + N : x # y /\ f[x] = f[y]
    <3>1. Cardinality(taken) < Cardinality(a .. a + N)
      BY <1>1, <2>2
    <3>2. \A g \in [a .. a + N -> taken] : \E x, y \in a .. a + N : x # y /\ g[x] = g[y]
      <4> DEFINE D == a .. a + N
      <4>1. IsFiniteSet(D) /\ Cardinality(taken) < Cardinality(D)
        BY <2>2, <3>1
      <4> HIDE DEF D
      <4>2. \A g \in [D -> taken] : \E x, y \in D : x # y /\ g[x] = g[y]
        BY <4>1, FS_PigeonHole
      <4> QED  BY <4>2 DEF D
    <3> HIDE DEF f
    <3> QED  BY <2>1, <3>2
  <2> QED  BY <2>3
<1>3. free \in SUBSET Nat
  BY <1>1
<1>4. Min(free) \in free
  BY <1>2, <1>3, MinIn
<1> QED  BY <1>3, <1>4

LEMMA SidParts ==
    ASSUME NEW sid \in SID
    PROVE  Rel(sid) \in Nat /\ Lev(sid) \in Nat /\ Br(sid) \in Nat /\ Seqn(sid) \in Nat
BY DEF SID, Rel, Lev, Br, Seqn

LEMMA MakeSid ==
    ASSUME NEW r \in Nat, NEW l \in Nat, NEW b \in Nat, NEW s \in Nat
    PROVE  <<r, l, b, s>> \in SID
BY DEF SID

\* newsid makes an SID.
LEMMA NewsidType ==
    ASSUME NEW req \in SID, NEW got \in SID, NEW branch \in BOOLEAN,
           NEW S, NEW table \in Seq(S), NEW planned, IsFiniteSet(planned)
    PROVE  newsid(req, got, branch, table, planned) \in SID
<1> DEFINE taken == Sids(table) \cup planned
           FirstFree(sid) ==
             LET k == Min({i \in Br(sid) .. Br(sid) + Cardinality(taken) :
                              <<Rel(sid), Lev(sid), i, 1>> \notin taken})
             IN  <<Rel(sid), Lev(sid), k, 1>>
           trunk == <<Rel(req), Lev(req) + 1, 0, 0>>
           along == <<Rel(req), Lev(req), Br(req), Seqn(req) + 1>>
<1>1. IsFiniteSet(taken)
  <2>1. IsFiniteSet(1 .. Len(table))
    BY FS_Interval
  <2>2. IsFiniteSet(Serials(table))
    BY <2>1, FS_Subset DEF Serials
  <2>3. IsFiniteSet(Sids(table))
    <3> DEFINE f == [n \in Serials(table) |-> table[n].sid]
    <3>1. f \in Surjection(Serials(table), Sids(table))
      BY DEF Surjection, Sids
    <3> HIDE DEF f
    <3> QED  BY <2>2, <3>1, FS_Surjection DEF ExistsSurjection
  <2> QED  BY <2>3, FS_Union
<1>2. ASSUME NEW sid \in SID PROVE FirstFree(sid) \in SID
  <2>1. Rel(sid) \in Nat /\ Lev(sid) \in Nat /\ Br(sid) \in Nat
    BY SidParts
  <2> DEFINE k == Min({i \in Br(sid) .. Br(sid) + Cardinality(taken) :
                          <<Rel(sid), Lev(sid), i, 1>> \notin taken})
  <2>2. k \in Nat
    <3> HIDE DEF taken
    <3>1. \A a \in Nat : \A r, l :
            Min({i \in a .. a + Cardinality(taken) : <<r, l, i, 1>> \notin taken}) \in Nat
      BY <1>1, FreeBranch
    <3> QED  BY <2>1, <3>1
  <2>3. FirstFree(sid) = <<Rel(sid), Lev(sid), k, 1>>
    OBVIOUS
  <2> HIDE DEF k
  <2> QED  BY <2>1, <2>2, <2>3, MakeSid
<1>3. trunk \in SID /\ along \in SID /\ <<Rel(got), Lev(got), Br(got) + 1, 1>> \in SID
      /\ <<Rel(req), Lev(req), Br(req), Seqn(got) + 1>> \in SID
      /\ <<Rel(req), Lev(req), Br(req) + 1, 1>> \in SID
  <2>1. /\ Rel(req) \in Nat /\ Lev(req) \in Nat /\ Br(req) \in Nat /\ Seqn(req) \in Nat
        /\ Rel(got) \in Nat /\ Lev(got) \in Nat /\ Br(got) \in Nat /\ Seqn(got) \in Nat
    BY SidParts
  <2>2. 0 \in Nat /\ 1 \in Nat /\ \A n \in Nat : n + 1 \in Nat
    OBVIOUS
  <2>3. trunk \in SID
    BY <2>1, <2>2, MakeSid
  <2>4. along \in SID
    BY <2>1, <2>2, MakeSid
  <2>5. <<Rel(got), Lev(got), Br(got) + 1, 1>> \in SID
    BY <2>1, <2>2, MakeSid
  <2>6. <<Rel(req), Lev(req), Br(req), Seqn(got) + 1>> \in SID
    BY <2>1, <2>2, MakeSid
  <2>7. <<Rel(req), Lev(req), Br(req) + 1, 1>> \in SID
    BY <2>1, <2>2, MakeSid
  <2> QED  BY <2>3, <2>4, <2>5, <2>6, <2>7
<1>4. newsid(req, got, branch, table, planned) \in
        {FirstFree(<<Rel(got), Lev(got), Br(got) + 1, 1>>), trunk,
         <<Rel(req), Lev(req), Br(req), Seqn(got) + 1>>,
         FirstFree(<<Rel(req), Lev(req), Br(req) + 1, 1>>), along}
  BY DEF newsid
<1> HIDE DEF FirstFree, trunk, along
<1> QED  BY <1>2, <1>3, <1>4

-----------------------------------------------------------------------------

\* A step of user u.
NextBy(u) == Start(u) \/ Step(u) \/ Interrupt(u) \/ Kill(u) \/ Rm(u)

\* A pid is a pair.
LEMMA PidIsSome == ASSUME NEW p \in Pid PROVE p # <<>>
<1> SUFFICES ASSUME p = <<>> PROVE FALSE
  OBVIOUS
<1>1. <<>> \in User \X Nat
  BY DEF Pid
<1> QED  BY <1>1

\* A user runs a command or none.
LEMMA Kinds ==
    ASSUME TypeOK, NEW u \in User
    PROVE  /\ proc[u].pc = "idle" <=> proc[u] = Idle
           /\ proc[u].pc # "idle" => proc[u] \in Command
           /\ proc[u].pc \in PCs \cup {"idle"}
<1>1. proc[u] \in Command \cup {Idle}
  BY DEF TypeOK
<1>2. CASE proc[u] = Idle
  BY <1>2 DEF Idle
<1>3. CASE proc[u] \in Command
  <2>1. proc[u].pc \in PCs
    BY <1>3 DEF Command
  <2>2. proc[u].pc # "idle"
    BY <2>1 DEF PCs
  <2> QED  BY <1>3, <2>1, <2>2 DEF Idle
<1> QED  BY <1>1, <1>2, <1>3

\* What Goto does to the table of processes.
LEMMA GotoIs ==
    ASSUME TypeOK, NEW u \in User, NEW l \in PCs, proc[u].pc # "idle", Goto(u, l)
    PROVE  /\ proc' \in [User -> Command \cup {Idle}]
           /\ proc'[u] \in Command /\ proc'[u].pc = l
           /\ proc'[u].cmd = proc[u].cmd /\ proc'[u].pid = proc[u].pid
           /\ proc'[u].line = proc[u].line /\ proc'[u].last = proc[u].last
           /\ proc'[u].opened = proc[u].opened /\ proc'[u].seen = proc[u].seen
           /\ \A v \in User : v # u => proc'[v] = proc[v]
<1>1. proc[u] \in Command
  BY Kinds
<1>2. proc' = [proc EXCEPT ![u] = [proc[u] EXCEPT !.pc = l]]
  BY DEF Goto
<1>3. [proc[u] EXCEPT !.pc = l] \in Command
  BY <1>1 DEF Command
<1>4. proc \in [User -> Command \cup {Idle}]
  BY DEF TypeOK
<1>5. proc'[u] = [proc[u] EXCEPT !.pc = l] /\ \A v \in User : v # u => proc'[v] = proc[v]
  BY <1>2, <1>4
<1>6. proc' \in [User -> Command \cup {Idle}]
  BY <1>2, <1>3, <1>4
<1>7. /\ proc'[u].pc = l
      /\ proc'[u].cmd = proc[u].cmd /\ proc'[u].pid = proc[u].pid
      /\ proc'[u].line = proc[u].line /\ proc'[u].last = proc[u].last
      /\ proc'[u].opened = proc[u].opened /\ proc'[u].seen = proc[u].seen
  BY <1>1, <1>5 DEF Command
<1> QED  BY <1>3, <1>5, <1>6, <1>7

\* What the end of a command does to it.
LEMMA EndIs ==
    ASSUME TypeOK, NEW u \in User, proc' = [proc EXCEPT ![u] = Idle]
    PROVE  /\ proc' \in [User -> Command \cup {Idle}]
           /\ proc'[u] = Idle /\ proc'[u].pc = "idle"
           /\ \A v \in User : v # u => proc'[v] = proc[v]
BY DEF TypeOK, Idle

\* What the next try of lockit does to it.
LEMMA RetryIs ==
    ASSUME TypeOK, NEW u \in User, proc[u].pc # "idle", Retry(u)
    PROVE  /\ proc' \in [User -> Command \cup {Idle}]
           /\ \A v \in User : v # u => proc'[v] = proc[v]
           /\ \/ proc'[u] = Idle /\ proc'[u].pc = "idle"
              \/ /\ proc'[u] \in Command /\ proc'[u].pc = "create"
                 /\ proc'[u].cmd = proc[u].cmd /\ proc'[u].pid = proc[u].pid
                 /\ proc'[u].line = proc[u].line /\ proc'[u].last = proc[u].last
                 /\ proc'[u].opened = proc[u].opened /\ proc'[u].seen = proc[u].seen
<1>1. proc[u] \in Command /\ proc[u].tries \in 1 .. TRIES
  BY Kinds DEF Command
<1>2. CASE proc[u].tries = 1
  <2>1. proc' = [proc EXCEPT ![u] = Idle]
    BY <1>2 DEF Retry
  <2> QED  BY <2>1, EndIs
<1>3. CASE proc[u].tries # 1
  <2> DEFINE c == [proc[u] EXCEPT !.pc = "create", !.tries = @ - 1]
  <2>1. proc' = [proc EXCEPT ![u] = c]
    BY <1>3 DEF Retry
  <2>2. proc[u].tries - 1 \in 1 .. TRIES
    BY <1>1, <1>3, SccsAssumption
  <2>3. c \in Command
    BY <1>1, <2>2 DEF Command, PCs
  <2>4. /\ c.pc = "create" /\ c.cmd = proc[u].cmd /\ c.pid = proc[u].pid
        /\ c.line = proc[u].line /\ c.last = proc[u].last /\ c.opened = proc[u].opened /\ c.seen = proc[u].seen
    BY <1>1 DEF Command
  <2> HIDE DEF c
  <2> QED  BY <2>1, <2>3, <2>4 DEF TypeOK
<1> QED  BY <1>2, <1>3

\* What get, delta and unget do to it when they have chosen a line.
LEMMA LineIs ==
    ASSUME TypeOK, NEW u \in User, proc[u] \in Command, NEW l \in PCs, NEW line \in Line,
           NEW c, c = [proc[u] EXCEPT !.pc = l, !.line = line] \/
                  \E last \in BOOLEAN : c = [proc[u] EXCEPT !.pc = l, !.line = line, !.last = last],
           proc' = [proc EXCEPT ![u] = c]
    PROVE  /\ proc' \in [User -> Command \cup {Idle}]
           /\ proc'[u] \in Command /\ proc'[u] = c /\ proc'[u].pc = l
           /\ proc'[u].cmd = proc[u].cmd /\ proc'[u].pid = proc[u].pid
           /\ proc'[u].line = line
           /\ proc'[u].opened = proc[u].opened /\ proc'[u].seen = proc[u].seen
           /\ \A v \in User : v # u => proc'[v] = proc[v]
<1>1. c \in Command
  BY DEF Command
<1>2. /\ c.pc = l /\ c.cmd = proc[u].cmd /\ c.pid = proc[u].pid
      /\ c.line = line /\ c.opened = proc[u].opened /\ c.seen = proc[u].seen
  BY DEF Command
<1> QED  BY <1>1, <1>2 DEF TypeOK

\* What the start of a command does to it.
LEMMA StartIs ==
    ASSUME TypeOK, NEW u \in User, Start(u)
    PROVE  /\ proc' \in [User -> Command \cup {Idle}]
           /\ run' \in [User -> Nat]
           /\ proc'[u] \in Command /\ proc'[u].pc = "create" /\ ~proc'[u].last
           /\ proc'[u].pid = <<u, run'[u]>>
           /\ proc'[u].opened \in {sfile, <<>>} /\ proc'[u].seen = <<>>
           /\ \A v \in User : v # u => proc'[v] = proc[v] /\ run'[v] = run[v]
<1>1. run' = [run EXCEPT ![u] = run[u] + 1] /\ run'[u] = run[u] + 1
      /\ run[u] \in Nat /\ run' \in [User -> Nat]
  BY DEF Start, TypeOK
<1> DEFINE cmd == scenario.script[u][run'[u]]
           c == [pc |-> "create", cmd |-> cmd, pid |-> <<u, run'[u]>>, tries |-> TRIES,
                 opid |-> <<>>, seen |-> <<>>, line |-> NoFile, last |-> FALSE,
                 opened |-> IF cmd.op = "delta" THEN sfile ELSE <<>>]
<1>2. proc' = [proc EXCEPT ![u] = c]
  BY DEF Start
<1>3. cmd \in Cmd
  <2>1. scenario.script[u] \in Seq(Cmd)
    BY SccsAssumption DEF TypeOK
  <2>2. run'[u] \in 1 .. Len(scenario.script[u])
    BY <1>1, <2>1 DEF Start
  <2> QED  BY <2>1, <2>2
<1>4. c.opened \in {sfile, <<>>} /\ c.opened \in Seq(Delta)
  BY DEF TypeOK
<1>5. <<u, run'[u]>> \in Pid
  BY <1>1 DEF Pid
<1>6. TRIES \in 1 .. TRIES
  BY SccsAssumption
<1>7. c \in Command
  <2> HIDE DEF cmd
  <2> QED  BY <1>3, <1>4, <1>5, <1>6 DEF Command, PCs
<1>8. c.pc = "create" /\ ~c.last /\ c.pid = <<u, run'[u]>> /\ c.seen = <<>>
  OBVIOUS
<1> HIDE DEF c
<1> QED  BY <1>1, <1>2, <1>4, <1>7, <1>8 DEF TypeOK

\* And what the first look at a z-file does.
LEMMA LookIs ==
    ASSUME TypeOK, NEW u \in User, Look(u)
    PROVE  /\ proc' \in [User -> Command \cup {Idle}]
           /\ \A v \in User : v # u => proc'[v] = proc[v]
           /\ \/ proc'[u] = Idle /\ proc'[u].pc = "idle"
              \/ /\ proc'[u] \in Command /\ proc'[u].pc \in {"create", "judge"}
                 /\ proc'[u].cmd = proc[u].cmd /\ proc'[u].pid = proc[u].pid
                 /\ proc'[u].line = proc[u].line /\ proc'[u].last = proc[u].last
                 /\ proc'[u].opened = proc[u].opened
                 /\ \/ proc'[u].seen = proc[u].seen
                    \/ zfile # NoFile /\ proc'[u].seen = zfile.pid
<1>1. proc[u].pc = "look" /\ proc[u] \in Command
  BY Kinds DEF Look
<1> DEFINE opid == IF zfile # NoFile /\ zfile.written THEN zfile.pid ELSE proc[u].opid
<1>2. CASE zfile # NoFile /\ opid # <<>>
  <2> DEFINE c == [proc[u] EXCEPT !.pc = "judge", !.opid = opid, !.seen = zfile.pid]
  <2>1. proc' = [proc EXCEPT ![u] = c]
    BY <1>2 DEF Look
  <2>2. zfile.pid \in Pid
    BY <1>2 DEF TypeOK
  <2>3. opid \in Pid \cup {<<>>}
    BY <1>1, <2>2 DEF Command
  <2>4. c \in Command
    <3> HIDE DEF opid
    <3> QED  BY <1>1, <2>2, <2>3 DEF Command, PCs
  <2>5. /\ c.pc = "judge" /\ c.cmd = proc[u].cmd /\ c.pid = proc[u].pid
        /\ c.line = proc[u].line /\ c.last = proc[u].last /\ c.opened = proc[u].opened /\ c.seen = zfile.pid
    BY <1>1 DEF Command
  <2> HIDE DEF c
  <2> QED  BY <1>2, <2>1, <2>4, <2>5 DEF TypeOK
<1>3. CASE ~(zfile # NoFile /\ opid # <<>>)
  <2>1. Retry(u)
    BY <1>3 DEF Look
  <2> QED  BY <1>1, <2>1, RetryIs
<1> QED  BY <1>2, <1>3

\* And lockit's judgement.
LEMMA JudgeIs ==
    ASSUME TypeOK, NEW u \in User, Judge(u)
    PROVE  /\ proc' \in [User -> Command \cup {Idle}]
           /\ \A v \in User : v # u => proc'[v] = proc[v]
           /\ \/ proc'[u] = Idle /\ proc'[u].pc = "idle"
              \/ /\ proc'[u] \in Command /\ proc'[u].pc \in {"create", "unlink z"}
                 /\ proc'[u].cmd = proc[u].cmd /\ proc'[u].pid = proc[u].pid
                 /\ proc'[u].line = proc[u].line /\ proc'[u].last = proc[u].last
                 /\ proc'[u].opened = proc[u].opened
                 /\ proc'[u].pc = "create" => proc'[u].seen = proc[u].seen
           /\ proc'[u].pc = "unlink z" => Removable(u) /\ proc'[u].seen = zfile.pid
<1>1. proc[u].pc = "judge" /\ proc[u] \in Command
  BY Kinds DEF Judge
<1>2. CASE Removable(u)
  <2> DEFINE c == [proc[u] EXCEPT !.pc = "unlink z", !.seen = zfile.pid]
  <2>1. proc' = [proc EXCEPT ![u] = c]
    BY <1>2 DEF Judge
  <2>2. zfile.pid \in Pid
    BY <1>2 DEF Removable, TypeOK
  <2>3. c \in Command
    BY <1>1, <2>2 DEF Command, PCs
  <2>4. /\ c.pc = "unlink z" /\ c.cmd = proc[u].cmd /\ c.pid = proc[u].pid
        /\ c.line = proc[u].line /\ c.last = proc[u].last /\ c.opened = proc[u].opened
        /\ c.seen = zfile.pid
    BY <1>1 DEF Command
  <2> HIDE DEF c
  <2> QED  BY <1>2, <2>1, <2>3, <2>4 DEF TypeOK
<1>3. CASE ~Removable(u)
  <2>1. Retry(u)
    BY <1>3 DEF Judge
  <2>2. Idle.pc # "unlink z"
    BY DEF Idle
  <2> QED  BY <1>1, <2>1, <2>2, RetryIs
<1> QED  BY <1>2, <1>3

\* The line get enters in the p-file is a line.
LEMMA NewLineType ==
    ASSUME TypeOK, NEW u \in User, proc[u] \in Command,
           getser(proc[u].cmd.r, sfile) # 0
    PROVE  /\ NewLine(u, proc[u].cmd.r, proc[u].cmd.b) \in Line
           /\ NewLine(u, proc[u].cmd.r, proc[u].cmd.b).gsid \in Sids(sfile)
<1> DEFINE req == proc[u].cmd.r
           n == getser(req, sfile)
           got == sfile[n].sid
           new == newsid(Requested(req, got), got, proc[u].cmd.b, sfile, Planned)
<1>1. req \in SID /\ proc[u].cmd.b \in BOOLEAN
  BY DEF Command, Cmd
<1>2. n \in Serials(sfile) /\ n \in 1 .. Len(sfile)
  BY GetserFinds DEF TypeOK, Serials
<1>3. sfile[n] \in Delta
  BY <1>2 DEF TypeOK
<1>4. got \in SID /\ got \in Sids(sfile)
  BY <1>2, <1>3 DEF Delta, Sids
<1>5. Requested(req, got) \in SID
  BY <1>1, <1>4 DEF Requested
<1>6. IsFiniteSet(Planned)
  <2>1. IsFiniteSet({l.nsid : l \in pfile})
    <3> DEFINE f == [l \in pfile |-> l.nsid]
               P == {l.nsid : l \in pfile}
    <3>1. f \in Surjection(pfile, P)
      BY DEF Surjection
    <3> HIDE DEF f, P
    <3>2. IsFiniteSet(P)
      BY <3>1, FS_Surjection DEF TypeOK
    <3> QED  BY <3>2 DEF P
  <2> QED  BY <2>1, FS_EmptySet DEF Planned
<1>7. new \in SID
  BY <1>1, <1>4, <1>5, <1>6, NewsidType DEF TypeOK
<1>8. NewLine(u, req, proc[u].cmd.b) =
        [gsid |-> got, user |-> u, by |-> proc[u].pid, nsid |-> new]
  BY DEF NewLine
<1>9. proc[u].pid \in Pid
  BY DEF Command
<1> HIDE DEF n, got, new
<1> QED  BY <1>4, <1>7, <1>8, <1>9 DEF Line, req

\* get, when nothing stands against it, enters a line with a new SID.
LEMMA GetIs ==
    ASSUME TypeOK, NEW u \in User, proc[u].pc = "locked", get(u), ~fatal(u)
    PROVE  \E line \in Line :
             /\ qfile' = [lines |-> pfile \cup {line}]
             /\ line.gsid \in Sids(sfile) /\ line.nsid \notin Sids(sfile)
             /\ \A l \in pfile : l.nsid # line.nsid
             /\ proc' \in [User -> Command \cup {Idle}]
             /\ proc'[u] \in Command /\ proc'[u].pc = "gfile"
             /\ proc'[u].cmd = proc[u].cmd /\ proc'[u].pid = proc[u].pid
             /\ proc'[u].line = line /\ proc'[u].last = proc[u].last
             /\ proc'[u].opened = proc[u].opened /\ proc'[u].seen = proc[u].seen
             /\ \A v \in User : v # u => proc'[v] = proc[v]
             /\ UNCHANGED <<sfile, pfile, xfile, zfile, gfile, ghosts>>
<1>1. proc[u] \in Command /\ proc[u].last \in BOOLEAN
  BY Kinds DEF Command
<1> DEFINE line == NewLine(u, proc[u].cmd.r, proc[u].cmd.b)
<1>2. /\ getser(proc[u].cmd.r, sfile) # 0
      /\ line.nsid \notin Sids(sfile) \cup Planned
      /\ ~BeingEdited(line.gsid, line.nsid)
      /\ qfile' = [lines |-> pfile \cup {line}]
      /\ proc' = [proc EXCEPT ![u].pc = "gfile", ![u].line = line]
      /\ UNCHANGED <<sfile, pfile, xfile, zfile, gfile, ghosts>>
  BY DEF get
<1>3. line \in Line /\ line.gsid \in Sids(sfile)
  BY <1>1, <1>2, NewLineType
<1>4. \A l \in pfile : l.nsid # line.nsid
  BY <1>2 DEF BeingEdited, Planned
<1> HIDE DEF line
<1> DEFINE c == [proc[u] EXCEPT !.pc = "gfile", !.line = line]
<1>5. proc' = [proc EXCEPT ![u] = c] /\ c.last = proc[u].last
  BY <1>1, <1>2 DEF TypeOK, Command
<1>6. "gfile" \in PCs
  BY DEF PCs
<1>10. /\ proc' \in [User -> Command \cup {Idle}]
       /\ proc'[u] \in Command /\ proc'[u] = c /\ proc'[u].pc = "gfile"
       /\ proc'[u].cmd = proc[u].cmd /\ proc'[u].pid = proc[u].pid
       /\ proc'[u].line = line
       /\ proc'[u].opened = proc[u].opened /\ proc'[u].seen = proc[u].seen
       /\ \A v \in User : v # u => proc'[v] = proc[v]
  BY <1>1, <1>3, <1>5, <1>6, LineIs
<1> HIDE DEF c
<1> QED  BY <1>1, <1>2, <1>3, <1>4, <1>5, <1>10

\* delta takes the one line that is its own.
LEMMA DeltaIs ==
    ASSUME TypeOK, NEW u \in User, proc[u].pc = "locked", delta(u), ~fatal(u)
    PROVE  \E line \in pfile :
             /\ Chosen(u) = {line}
             /\ qfile' = [lines |-> pfile \ {line}]
             /\ line.nsid \notin Sids(proc[u].opened)
             /\ proc' \in [User -> Command \cup {Idle}]
             /\ proc'[u] \in Command /\ proc'[u].pc = "xfile"
             /\ proc'[u].cmd = proc[u].cmd /\ proc'[u].pid = proc[u].pid
             /\ proc'[u].line = line /\ proc'[u].last = proc[u].last
             /\ proc'[u].opened = proc[u].opened /\ proc'[u].seen = proc[u].seen
             /\ \A v \in User : v # u => proc'[v] = proc[v]
             /\ UNCHANGED <<sfile, pfile, xfile, zfile, gfile, ghosts>>
<1>1. proc[u] \in Command /\ proc[u].last \in BOOLEAN /\ proc[u].opened \in Seq(Delta)
  BY Kinds DEF Command
<1> DEFINE line == TheLine(u)
<1>2. /\ Cardinality(Chosen(u)) = 1
      /\ sidtoser(line.nsid, proc[u].opened) = 0
      /\ qfile' = [lines |-> Rest(u)]
      /\ proc' = [proc EXCEPT ![u].pc = "xfile", ![u].line = line]
      /\ UNCHANGED <<sfile, pfile, xfile, zfile, gfile, ghosts>>
  BY DEF delta
<1>3. IsFiniteSet(Chosen(u))
  <2>1. Chosen(u) \in SUBSET pfile
    BY DEF Chosen
  <2> QED  BY <2>1, FS_Subset DEF TypeOK
<1>4. PICK x : Chosen(u) = {x}
  BY <1>2, <1>3, FS_Singleton
<1>5. line = x /\ line \in pfile /\ line \in Line
  BY <1>4 DEF TheLine, Chosen, TypeOK
<1>6. line.nsid \notin Sids(proc[u].opened)
  BY <1>1, <1>2, SidtoserFinds
<1>7. Rest(u) = pfile \ {line}
  BY <1>4, <1>5 DEF Rest
<1> HIDE DEF line
<1> DEFINE c == [proc[u] EXCEPT !.pc = "xfile", !.line = line]
<1>8. proc' = [proc EXCEPT ![u] = c] /\ c.last = proc[u].last
  BY <1>1, <1>2 DEF TypeOK, Command
<1>9. "xfile" \in PCs
  BY DEF PCs
<1>10. /\ proc' \in [User -> Command \cup {Idle}]
       /\ proc'[u] \in Command /\ proc'[u] = c /\ proc'[u].pc = "xfile"
       /\ proc'[u].cmd = proc[u].cmd /\ proc'[u].pid = proc[u].pid
       /\ proc'[u].line = line
       /\ proc'[u].opened = proc[u].opened /\ proc'[u].seen = proc[u].seen
       /\ \A v \in User : v # u => proc'[v] = proc[v]
  <2>1. c = [proc[u] EXCEPT !.pc = "xfile", !.line = line]
    OBVIOUS
  <2> HIDE DEF c
  <2>2. proc[u] \in Command /\ line \in Line /\ proc' = [proc EXCEPT ![u] = c]
    BY <1>1, <1>5, <1>8
  <2>3. PICK l \in PCs : l = "xfile"
    BY <1>9
  <2>4. \/ c = [proc[u] EXCEPT !.pc = l, !.line = line]
        \/ \E last \in BOOLEAN : c = [proc[u] EXCEPT !.pc = l, !.line = line, !.last = last]
    BY <2>1, <2>3
  <2>5. /\ proc' \in [User -> Command \cup {Idle}]
        /\ proc'[u] \in Command /\ proc'[u] = c /\ proc'[u].pc = l
        /\ proc'[u].cmd = proc[u].cmd /\ proc'[u].pid = proc[u].pid
        /\ proc'[u].line = line
        /\ proc'[u].opened = proc[u].opened /\ proc'[u].seen = proc[u].seen
        /\ \A v \in User : v # u => proc'[v] = proc[v]
    BY <2>2, <2>4, LineIs
  <2> QED  BY <2>3, <2>5
<1> HIDE DEF c
<1> QED  BY <1>2, <1>4, <1>5, <1>6, <1>7, <1>8, <1>10

\* unget takes the lines that match; when no two edits will make the same
\* delta there is only one.
LEMMA UngetIs ==
    ASSUME TypeOK, NEW u \in User, proc[u].pc = "locked", proc[u].cmd.op = "unget",
           unget(u), ~fatal(u)
    PROVE  \E line \in pfile :
             /\ qfile' = [lines |-> Rest(u)]
             /\ line \in Chosen(u)
             /\ (\A k, l \in pfile : k.nsid = l.nsid => k = l) => Rest(u) = pfile \ {line}
             /\ proc' \in [User -> Command \cup {Idle}]
             /\ proc'[u] \in Command /\ proc'[u].pc = "rename q"
             /\ proc'[u].cmd = proc[u].cmd /\ proc'[u].pid = proc[u].pid
             /\ proc'[u].line = line /\ proc'[u].last = (Rest(u) = {})
             /\ proc'[u].opened = proc[u].opened /\ proc'[u].seen = proc[u].seen
             /\ \A v \in User : v # u => proc'[v] = proc[v]
             /\ UNCHANGED <<sfile, pfile, xfile, zfile, gfile, ghosts>>
<1>1. proc[u] \in Command
  BY Kinds
<1> DEFINE line == TheLine(u)
<1>2. /\ Chosen(u) # {}
      /\ ~(Cardinality(Chosen(u)) > 1 /\ proc[u].cmd.r = NoSid)
      /\ qfile' = [lines |-> Rest(u)]
      /\ proc' = [proc EXCEPT ![u].pc = "rename q", ![u].line = line,
                              ![u].last = (Rest(u) = {})]
      /\ UNCHANGED <<sfile, pfile, xfile, zfile, gfile, ghosts>>
  BY DEF unget
<1>3. line \in Chosen(u)
  BY <1>2 DEF TheLine
<1>4. Chosen(u) \in SUBSET pfile /\ line \in pfile /\ line \in Line
  BY <1>3 DEF Chosen, TypeOK
<1> HIDE DEF line
<1>5. ASSUME \A k, l \in pfile : k.nsid = l.nsid => k = l
      PROVE  Chosen(u) = {line}
  <2>1. CASE proc[u].cmd.r = NoSid
    <3>1. IsFiniteSet(Chosen(u))
      BY <1>4, FS_Subset DEF TypeOK
    <3>2. Cardinality(Chosen(u)) \in Nat /\ ~(Cardinality(Chosen(u)) > 1)
      BY <1>2, <2>1, <3>1, FS_CardinalityType
    <3>3. Cardinality(Chosen(u)) # 0
      BY <1>2, <3>1, FS_EmptySet
    <3>4. Cardinality(Chosen(u)) = 1
      BY <3>2, <3>3
    <3> QED  BY <1>3, <3>1, <3>4, FS_Singleton
  <2>2. CASE proc[u].cmd.r # NoSid
    <3>1. \A l \in Chosen(u) : l.nsid = proc[u].cmd.r
      BY <2>2 DEF Chosen, Matches
    <3> QED  BY <1>3, <1>4, <1>5, <3>1
  <2> QED  BY <2>1, <2>2
<1> DEFINE last == (Rest(u) = {})
           c == [proc[u] EXCEPT !.pc = "rename q", !.line = line, !.last = last]
<1>6. proc' = [proc EXCEPT ![u] = c]
  BY <1>2 DEF TypeOK
<1>7. "rename q" \in PCs /\ last \in BOOLEAN
  BY DEF PCs
<1> HIDE DEF last
<1>8. c.last = last
  BY <1>1 DEF Command
<1>9. /\ proc' \in [User -> Command \cup {Idle}]
      /\ proc'[u] \in Command /\ proc'[u] = c /\ proc'[u].pc = "rename q"
      /\ proc'[u].cmd = proc[u].cmd /\ proc'[u].pid = proc[u].pid
      /\ proc'[u].line = line
      /\ proc'[u].opened = proc[u].opened /\ proc'[u].seen = proc[u].seen
      /\ \A v \in User : v # u => proc'[v] = proc[v]
  <2>1. \E b \in BOOLEAN : c = [proc[u] EXCEPT !.pc = "rename q", !.line = line, !.last = b]
    BY <1>7
  <2> HIDE DEF c
  <2> QED  BY <1>1, <1>4, <1>6, <1>7, <2>1, LineIs
<1> HIDE DEF c
<1> QED  BY <1>2, <1>3, <1>4, <1>5, <1>8, <1>9 DEF Rest, last

\* rmdel marks the delta that it was given.
LEMMA RmdelIs ==
    ASSUME TypeOK, NEW u \in User, proc[u].pc = "locked", rmdel(u), ~fatal(u)
    PROVE  /\ \E n \in Serials(sfile) :
                sfile[n].sid = proc[u].cmd.r /\ xfile' = [sfile EXCEPT ![n].type = "R"]
           /\ \A l \in pfile : l.gsid # proc[u].cmd.r
           /\ Goto(u, "rename x")
           /\ UNCHANGED <<sfile, pfile, qfile, zfile, gfile, ghosts>>
<1> DEFINE n == sidtoser(proc[u].cmd.r, sfile)
<1>1. /\ n # 0
      /\ ~\E l \in pfile : l.gsid = proc[u].cmd.r
      /\ xfile' = [sfile EXCEPT ![n].type = "R"]
      /\ Goto(u, "rename x")
      /\ UNCHANGED <<sfile, pfile, qfile, zfile, gfile, ghosts>>
  BY DEF rmdel
<1>2. n \in Serials(sfile) /\ sfile[n].sid = proc[u].cmd.r
  BY <1>1, SidtoserFinds DEF TypeOK
<1> HIDE DEF n
<1> QED  BY <1>1, <1>2

\* The end of Unlock.
LEMMA UnlockIs ==
    ASSUME TypeOK, NEW u \in User, Unlock(u)
    PROVE  \/ proc' = [proc EXCEPT ![u] = Idle]
           \/ Goto(u, "unlink g")
BY DEF Unlock, Goto, TypeOK

\* A command keeps its pid and the s-file it opened.
LEMMA ProcStep ==
    ASSUME TypeOK, NEW u \in User, NextBy(u)
    PROVE  /\ proc' \in [User -> Command \cup {Idle}] /\ run' \in [User -> Nat]
           /\ \A v \in User : v # u => proc'[v] = proc[v] /\ run'[v] = run[v]
           /\ proc'[u] # Idle =>
                proc'[u].pid = <<u, run'[u]>> /\ Older(proc'[u].opened)
<1>0. proc[u] # Idle => proc[u].pid = <<u, run[u]>> /\ Older(proc[u].opened)
  BY DEF TypeOK
<1>1. CASE Start(u)
  <2>1. Older(<<>>) /\ Older(sfile)
    BY DEF Older, TypeOK
  <2> QED  BY <1>1, <2>1, StartIs
<1>2. CASE Create(u) \/ Write(u) \/ MakeGfile(u) \/ MakeXfile(u) \/ RenameX(u) \/ RenameQ(u)
  <2>1. proc[u].pc # "idle" /\ run' = run
    BY <1>2 DEF Create, Write, MakeGfile, MakeXfile, RenameX, RenameQ
  <2>2. \E l \in PCs : Goto(u, l)
    BY <1>2 DEF Create, Write, MakeGfile, MakeXfile, RenameX, RenameQ, PCs
  <2>3. proc[u] # Idle /\ run \in [User -> Nat]
    BY <2>1, Kinds DEF TypeOK
  <2> QED  BY <1>0, <2>1, <2>2, <2>3, GotoIs
<1>3. CASE Look(u)
  <2>1. proc[u].pc # "idle" /\ run' = run /\ run \in [User -> Nat]
    BY <1>3 DEF Look, TypeOK
  <2>2. proc[u] # Idle
    BY <2>1, Kinds
  <2> QED  BY <1>0, <1>3, <2>1, <2>2, LookIs
<1>4. CASE Steal(u)
  <2>1. proc[u].pc # "idle" /\ run' = run /\ run \in [User -> Nat] /\ Retry(u)
    BY <1>4 DEF Steal, TypeOK
  <2>2. proc[u] # Idle
    BY <2>1, Kinds
  <2> QED  BY <1>0, <2>1, <2>2, RetryIs
<1>9. CASE Judge(u)
  <2>1. proc[u].pc # "idle" /\ run' = run /\ run \in [User -> Nat]
    BY <1>9 DEF Judge, TypeOK
  <2>2. proc[u] # Idle
    BY <2>1, Kinds
  <2> QED  BY <1>0, <1>9, <2>1, <2>2, JudgeIs
<1>5. CASE Locked(u)
  <2>1. proc[u].pc = "locked" /\ proc[u].pc # "idle" /\ run' = run /\ proc[u] # Idle
    BY <1>5, Kinds DEF Locked
  <2>2. CASE fatal(u)
    BY <2>1, <2>2, EndIs DEF fatal, TypeOK
  <2>3. CASE ~fatal(u)
    <3>0. run \in [User -> Nat]
      BY DEF TypeOK
    <3>1. get(u) \/ delta(u) \/ (proc[u].cmd.op = "unget" /\ unget(u)) \/ rmdel(u)
      <4>1. proc[u].cmd.op \in {"get", "delta", "unget", "rmdel"}
        BY <2>1, Kinds DEF Command, Cmd
      <4> QED  BY <1>5, <4>1 DEF Locked
    <3>2. CASE get(u)
      BY <1>0, <2>1, <2>3, <3>0, <3>2, GetIs
    <3>3. CASE delta(u)
      BY <1>0, <2>1, <2>3, <3>0, <3>3, DeltaIs
    <3>4. CASE proc[u].cmd.op = "unget" /\ unget(u)
      BY <1>0, <2>1, <2>3, <3>0, <3>4, UngetIs
    <3>5. CASE rmdel(u)
      <4>1. Goto(u, "rename x") /\ "rename x" \in PCs
        BY <2>1, <2>3, <3>5, RmdelIs DEF PCs
      <4>2. run \in [User -> Nat]
        BY DEF TypeOK
      <4> QED  BY <1>0, <2>1, <4>1, <4>2, GotoIs
    <3> QED  BY <3>1, <3>2, <3>3, <3>4, <3>5
  <2> QED  BY <2>2, <2>3
<1>6. CASE Unlock(u)
  <2>1. proc[u].pc # "idle" /\ run' = run /\ "unlink g" \in PCs /\ run \in [User -> Nat]
    BY <1>6 DEF Unlock, PCs, TypeOK
  <2>2. CASE Goto(u, "unlink g")
    <3>1. proc[u] # Idle
      BY <2>1, Kinds
    <3> QED  BY <1>0, <2>1, <2>2, <3>1, GotoIs
  <2>3. CASE proc' = [proc EXCEPT ![u] = Idle]
    BY <2>1, <2>3, EndIs DEF TypeOK
  <2> QED  BY <1>6, <2>2, <2>3, UnlockIs
<1>7. CASE UnlinkG(u) \/ Interrupt(u) \/ Kill(u)
  <2>1. proc' = [proc EXCEPT ![u] = Idle] /\ run' = run
    BY <1>7 DEF UnlinkG, Interrupt, Kill
  <2> QED  BY <2>1, EndIs DEF TypeOK
<1>8. CASE Rm(u)
  BY <1>0, <1>8 DEF Rm, TypeOK
<1> QED
  BY <1>1, <1>2, <1>3, <1>4, <1>5, <1>6, <1>7, <1>8, <1>9 DEF NextBy, Step

\* The delta that is made is an entry of the table.
LEMMA MkdeltType ==
    ASSUME TypeOK, NEW u \in User, proc[u] \in Command, proc[u].line \in Line
    PROVE  /\ mkdelt(u) \in Delta
           /\ mkdelt(u).pred \in 0 .. Len(proc[u].opened)
           /\ mkdelt(u).sid = proc[u].line.nsid /\ mkdelt(u).type = "D"
<1>1. proc[u].opened \in Seq(Delta) /\ proc[u].pid \in Pid
  BY DEF Command
<1>2. sidtoser(proc[u].line.gsid, proc[u].opened) \in 0 .. Len(proc[u].opened)
  BY <1>1, SidtoserFinds
<1>3. Len(proc[u].opened) \in Nat
  BY <1>1
<1> QED  BY <1>1, <1>2, <1>3 DEF mkdelt, Delta, Line

\* A table with one entry more, and a table with one entry marked.
LEMMA AppendTable ==
    ASSUME NEW table \in Seq(Delta), NEW d \in Delta, Older(table),
           d.pred \in 0 .. Len(table)
    PROVE  Append(table, d) \in Seq(Delta) /\ Older(Append(table, d))
<1>1. Append(table, d) \in Seq(Delta)
  OBVIOUS
<1>2. ASSUME NEW n \in DOMAIN Append(table, d) PROVE Append(table, d)[n].pred < n
  <2>1. CASE n = Len(table) + 1
    BY <2>1
  <2>2. CASE n # Len(table) + 1
    <3>1. n \in DOMAIN table /\ Append(table, d)[n] = table[n]
      BY <1>2, <2>2
    <3> QED  BY <3>1 DEF Older
  <2> QED  BY <2>1, <2>2
<1> QED  BY <1>1, <1>2 DEF Older

LEMMA MarkTable ==
    ASSUME NEW table \in Seq(Delta), NEW n \in Serials(table)
    PROVE  LET marked == [table EXCEPT ![n].type = "R"]
           IN  /\ marked \in Seq(Delta) /\ DOMAIN marked = DOMAIN table
               /\ marked[n].type = "R" /\ marked[n].sid = table[n].sid
               /\ \A m \in DOMAIN table : marked[m].pred = table[m].pred
               /\ \A m \in DOMAIN table : m # n => marked[m] = table[m]
<1> DEFINE d == [table[n] EXCEPT !.type = "R"]
           marked == [table EXCEPT ![n] = d]
<1>1. n \in 1 .. Len(table) /\ table[n] \in Delta /\ DOMAIN table = 1 .. Len(table)
  BY DEF Serials
<1>2. d \in Delta /\ d.type = "R" /\ d.sid = table[n].sid /\ d.pred = table[n].pred
  BY <1>1 DEF Delta
<1>3. [table EXCEPT ![n].type = "R"] = marked
  OBVIOUS
<1> HIDE DEF d
<1>4. marked \in Seq(Delta) /\ DOMAIN marked = DOMAIN table
  BY <1>1, <1>2
<1>5. marked[n] = d /\ \A m \in DOMAIN table : m # n => marked[m] = table[m]
  BY <1>1
<1>6. \A m \in DOMAIN table : marked[m].pred = table[m].pred
  BY <1>2, <1>5
<1> HIDE DEF marked
<1> QED  BY <1>2, <1>3, <1>4, <1>5, <1>6

\* Commands are places in a program that the user's script names.
LEMMA CommandOp ==
    ASSUME TypeOK, NEW u \in User, proc[u].pc # "idle"
    PROVE  proc[u].cmd.op \in {"get", "delta", "unget", "rmdel"}
BY Kinds DEF Command, Cmd

\* The steps of a command that has the lock, one by one.
LEMMA LockedCases ==
    ASSUME TypeOK, NEW u \in User, Locked(u)
    PROVE  /\ proc[u].pc = "locked" /\ UNCHANGED <<scenario, run, cuts>>
           /\ \/ fatal(u)
              \/ ~fatal(u) /\ proc[u].cmd.op = "get" /\ get(u)
              \/ ~fatal(u) /\ proc[u].cmd.op = "delta" /\ delta(u)
              \/ ~fatal(u) /\ proc[u].cmd.op = "unget" /\ unget(u)
              \/ ~fatal(u) /\ proc[u].cmd.op = "rmdel" /\ rmdel(u)
<1>1. proc[u].pc = "locked" /\ UNCHANGED <<scenario, run, cuts>>
  BY DEF Locked
<1>2. proc[u].cmd.op \in {"get", "delta", "unget", "rmdel"}
  BY <1>1, CommandOp
<1> QED  BY <1>1, <1>2 DEF Locked

\* The files stay well formed.
LEMMA FilesStep ==
    ASSUME TypeOK, Places, NEW u \in User, NextBy(u)
    PROVE  /\ sfile' \in Seq(Delta) /\ Older(sfile)'
           /\ xfile' # NoFile => xfile' \in Seq(Delta) /\ Older(xfile)'
           /\ pfile' \subseteq Line /\ IsFiniteSet(pfile)'
           /\ qfile' # NoFile => qfile' \in [lines : SUBSET Line] /\ IsFiniteSet(qfile.lines)'
<1> DEFINE S == sfile \in Seq(Delta) /\ Older(sfile)
           X == xfile # NoFile => xfile \in Seq(Delta) /\ Older(xfile)
           P == pfile \subseteq Line /\ IsFiniteSet(pfile)
           Q == qfile # NoFile => qfile \in [lines : SUBSET Line] /\ IsFiniteSet(qfile.lines)
<1>0. S /\ X /\ P /\ Q
  BY DEF TypeOK
<1>1. CASE Start(u) \/ Create(u) \/ Write(u) \/ Look(u) \/ Judge(u) \/ Steal(u)
           \/ MakeGfile(u) \/ Unlock(u) \/ UnlinkG(u) \/ Kill(u) \/ Rm(u)
  <2>1. UNCHANGED <<sfile, xfile, pfile, qfile>>
    BY <1>1 DEF Start, Create, Write, Look, Judge, Steal, MakeGfile, Unlock, UnlinkG, Kill, Rm,
         files
  <2> QED  BY <1>0, <2>1
<1>2. CASE Interrupt(u)
  <2>1. UNCHANGED <<sfile, pfile>> /\ qfile' \in {NoFile, qfile} /\ xfile' \in {NoFile, xfile}
    BY <1>2 DEF Interrupt
  <2> QED  BY <1>0, <2>1
<1>3. CASE MakeXfile(u)
  <2>1. UNCHANGED <<sfile, pfile, qfile>> /\ xfile' = Append(proc[u].opened, mkdelt(u))
    BY <1>3 DEF MakeXfile
  <2>2. proc[u] \in Command /\ proc[u] # Idle /\ proc[u].line \in Line
    BY <1>3, Kinds DEF MakeXfile, Places
  <2>3. proc[u].opened \in Seq(Delta) /\ Older(proc[u].opened)
    BY <2>2 DEF TypeOK, Command
  <2>4. xfile' \in Seq(Delta) /\ Older(xfile')
    BY <2>1, <2>2, <2>3, MkdeltType, AppendTable
  <2> QED  BY <1>0, <2>1, <2>4 DEF Older
<1>4. CASE RenameX(u)
  <2>1. UNCHANGED <<pfile, qfile>> /\ xfile' = NoFile /\ sfile' = IF xfile = NoFile THEN sfile ELSE xfile
    BY <1>4 DEF RenameX
  <2>2. sfile' \in Seq(Delta) /\ Older(sfile')
    BY <1>0, <2>1
  <2> QED  BY <1>0, <2>1, <2>2 DEF Older
<1>5. CASE RenameQ(u)
  <2>1. UNCHANGED <<sfile, xfile>> /\ qfile' = NoFile
    BY <1>5 DEF RenameQ
  <2>2. pfile' \in {{}, pfile} \/ (qfile # NoFile /\ pfile' = qfile.lines)
    BY <1>5 DEF RenameQ
  <2>3. pfile' \subseteq Line /\ IsFiniteSet(pfile')
    BY <1>0, <2>2, FS_EmptySet
  <2> QED  BY <1>0, <2>1, <2>3
<1>6. CASE Locked(u)
  <2>0. proc[u].pc = "locked"
    BY <1>6, LockedCases
  <2>1. CASE fatal(u)
    <3>1. UNCHANGED <<sfile, pfile>> /\ qfile' \in {NoFile, qfile} /\ xfile' \in {NoFile, xfile}
      BY <2>1 DEF fatal
    <3> QED  BY <1>0, <3>1
  <2>2. CASE ~fatal(u) /\ get(u)
    <3>1. PICK line \in Line : qfile' = [lines |-> pfile \cup {line}] /\ UNCHANGED <<sfile, pfile, xfile>>
      BY <2>0, <2>2, GetIs
    <3>2. IsFiniteSet(pfile \cup {line})
      BY <1>0, FS_AddElement
    <3> QED  BY <1>0, <3>1, <3>2
  <2>3. CASE ~fatal(u) /\ delta(u)
    <3>1. PICK line \in pfile : qfile' = [lines |-> pfile \ {line}] /\ UNCHANGED <<sfile, pfile, xfile>>
      BY <2>0, <2>3, DeltaIs
    <3>2. IsFiniteSet(pfile \ {line})
      BY <1>0, FS_RemoveElement
    <3> QED  BY <1>0, <3>1, <3>2
  <2>4. CASE ~fatal(u) /\ proc[u].cmd.op = "unget" /\ unget(u)
    <3>1. qfile' = [lines |-> Rest(u)] /\ UNCHANGED <<sfile, pfile, xfile>>
      BY <2>0, <2>4, UngetIs
    <3>2. Rest(u) \in SUBSET pfile
      BY DEF Rest
    <3>3. IsFiniteSet(Rest(u))
      BY <1>0, <3>2, FS_Subset
    <3> QED  BY <1>0, <3>1, <3>2, <3>3
  <2>5. CASE ~fatal(u) /\ rmdel(u)
    <3>1. PICK n \in Serials(sfile) : xfile' = [sfile EXCEPT ![n].type = "R"]
      BY <2>0, <2>5, RmdelIs
    <3>2. UNCHANGED <<sfile, pfile, qfile>>
      BY <2>0, <2>5, RmdelIs
    <3>3. /\ xfile' \in Seq(Delta) /\ DOMAIN xfile' = DOMAIN sfile
          /\ \A m \in DOMAIN sfile : xfile'[m].pred = sfile[m].pred
      BY <1>0, <3>1, MarkTable
    <3>4. Older(xfile')
      BY <1>0, <3>3 DEF Older
    <3> QED  BY <1>0, <3>2, <3>3, <3>4 DEF Older
  <2> QED  BY <1>6, <2>1, <2>2, <2>3, <2>4, <2>5, LockedCases
<1> QED  BY <1>1, <1>2, <1>3, <1>4, <1>5, <1>6 DEF NextBy, Step

\* Every step leaves the state well typed.
LEMMA TypeStep ==
    ASSUME TypeOK, Places, NEW u \in User, NextBy(u)
    PROVE  TypeOK'
<1>1. scenario' = scenario
  BY LockedCases DEF NextBy, Step, Start, Create, Write, Look, Judge, Steal, MakeGfile, MakeXfile, RenameX,
         RenameQ, Unlock, UnlinkG, Interrupt, Kill, Rm
<1>2. cuts' \in 0 .. MaxCuts
  <2>1. cuts' = cuts \/ (cuts < MaxCuts /\ cuts' = cuts + 1)
    BY LockedCases DEF NextBy, Step, Start, Create, Write, Look, Judge, Steal, MakeGfile, MakeXfile,
         RenameX, RenameQ, Unlock, UnlinkG, Interrupt, Kill, Rm
  <2> QED  BY <2>1, SccsAssumption DEF TypeOK
<1>3. gfile' \in [User -> BOOLEAN]
  <2>1. gfile' = gfile \/ \E b \in BOOLEAN : gfile' = [gfile EXCEPT ![u] = b]
    <3>1. CASE Locked(u)
      BY <3>1, LockedCases DEF fatal, get, delta, unget, rmdel
    <3>2. CASE ~Locked(u)
      BY <3>2 DEF NextBy, Step, Start, Create, Write, Look, Judge, Steal, MakeGfile, MakeXfile,
           RenameX, RenameQ, Unlock, UnlinkG, Interrupt, Kill, Rm, files
    <3> QED  BY <3>1, <3>2
  <2> QED  BY <2>1 DEF TypeOK
<1>4. zfile' # NoFile => zfile' \in [pid : Pid, written : BOOLEAN]
  <2>0. zfile # NoFile => zfile \in [pid : Pid, written : BOOLEAN]
    BY DEF TypeOK
  <2>1. CASE Create(u)
    <3>1. proc[u].pid \in Pid
      BY <2>1, Kinds DEF Create, Command
    <3>2. [pid |-> proc[u].pid, written |-> FALSE] \in [pid : Pid, written : BOOLEAN]
      BY <3>1
    <3>3. zfile' = zfile \/ zfile' = [pid |-> proc[u].pid, written |-> FALSE]
      BY <2>1 DEF Create
    <3> QED  BY <2>0, <3>2, <3>3
  <2>2. CASE Write(u)
    BY <2>0, <2>2 DEF Write
  <2>3. CASE Locked(u)
    BY <2>0, <2>3, LockedCases DEF fatal, unlockit, get, delta, unget, rmdel
  <2>4. CASE Start(u) \/ Look(u) \/ Judge(u) \/ Steal(u) \/ MakeGfile(u) \/ MakeXfile(u) \/ RenameX(u)
             \/ RenameQ(u) \/ Unlock(u) \/ UnlinkG(u) \/ Interrupt(u) \/ Kill(u) \/ Rm(u)
    <3>1. zfile' \in {zfile, NoFile}
      BY <2>4 DEF Start, Look, Judge, Steal, MakeGfile, MakeXfile,
           RenameX, RenameQ, Unlock, unlockit, UnlinkG, Interrupt, Kill, Rm, files
    <3> QED  BY <2>0, <3>1
  <2> QED  BY <2>1, <2>2, <2>3, <2>4 DEF NextBy, Step
<1>5. \A v \in User : proc'[v] # Idle => proc'[v].pid = <<v, run'[v]>> /\ Older(proc'[v].opened)
  BY ProcStep DEF TypeOK
<1>6. \A v \in User : (proc[v] # Idle => proc[v].pid = <<v, run[v]>> /\ Older(proc[v].opened))'
  BY <1>5 DEF Older, Idle
<1>7. scenario' \in Scenario
  BY <1>1 DEF TypeOK
<1>8. proc' \in [User -> Command \cup {Idle}] /\ run' \in [User -> Nat]
  BY ProcStep
<1> QED  BY <1>2, <1>3, <1>4, <1>6, <1>7, <1>8, FilesStep DEF TypeOK

\* Commands keep to their places.
LEMMA PlacesStep ==
    ASSUME TypeOK, Places, NEW u \in User, NextBy(u)
    PROVE  Places'
<1> DEFINE P(c) == /\ c.pc = "gfile" => c.cmd.op = "get"
                   /\ c.pc = "xfile" => c.cmd.op = "delta"
                   /\ c.pc = "rename x" => c.cmd.op \in {"delta", "rmdel"}
                   /\ c.pc = "rename q" => c.cmd.op # "rmdel"
                   /\ c.pc \in {"gfile", "xfile", "rename x", "rename q", "unlock"}
                        /\ c.cmd.op # "rmdel" => c.line \in Line
                   /\ c.pc # "idle" /\ c.last => c.cmd.op = "unget"
<1>0. \A v \in User : P(proc[v])
  BY DEF Places
<1> SUFFICES P(proc'[u])
  BY <1>0, ProcStep DEF Places
<1>1. P(Idle)
  BY DEF Idle
<1>2. CASE Start(u)
  BY <1>2, StartIs
<1>3. CASE Create(u) \/ Write(u)
  <2>1. Goto(u, "write") \/ Goto(u, "look") \/ Goto(u, "locked")
    BY <1>3 DEF Create, Write
  <2>2. proc[u].pc # "idle" /\ {"write", "look", "locked"} \subseteq PCs
    BY <1>3 DEF Create, Write, PCs
  <2> QED  BY <1>0, <2>1, <2>2, GotoIs
<1>4. CASE Look(u)
  BY <1>0, <1>1, <1>4, LookIs DEF Look
<1>5. CASE Steal(u)
  BY <1>0, <1>1, <1>5, RetryIs DEF Steal
<1>14. CASE Judge(u)
  BY <1>0, <1>1, <1>14, JudgeIs DEF Judge
<1>6. CASE MakeGfile(u)
  <2>1. Goto(u, "rename q") /\ proc[u].pc = "gfile" /\ "rename q" \in PCs
    BY <1>6 DEF MakeGfile, PCs
  <2> QED  BY <1>0, <2>1, GotoIs
<1>7. CASE MakeXfile(u)
  <2>1. Goto(u, "rename x") /\ proc[u].pc = "xfile" /\ "rename x" \in PCs
    BY <1>7 DEF MakeXfile, PCs
  <2> QED  BY <1>0, <2>1, GotoIs
<1>8. CASE RenameX(u)
  <2>1. proc[u].pc = "rename x" /\ "rename q" \in PCs /\ "unlock" \in PCs
    BY <1>8 DEF RenameX, PCs
  <2>2. CASE proc[u].cmd.op = "delta" /\ Goto(u, "rename q")
    BY <1>0, <2>1, <2>2, GotoIs
  <2>3. CASE proc[u].cmd.op # "delta" /\ Goto(u, "unlock")
    BY <1>0, <2>1, <2>3, GotoIs
  <2> QED  BY <1>8, <2>2, <2>3 DEF RenameX
<1>9. CASE RenameQ(u)
  <2>1. proc[u].pc = "rename q" /\ Goto(u, "unlock") /\ "unlock" \in PCs
    BY <1>9 DEF RenameQ, PCs
  <2> QED  BY <1>0, <2>1, GotoIs
<1>10. CASE Unlock(u)
  <2>1. proc[u].pc = "unlock" /\ "unlink g" \in PCs
    BY <1>10 DEF Unlock, PCs
  <2>2. CASE Goto(u, "unlink g")
    BY <1>0, <2>1, <2>2, GotoIs
  <2>3. CASE proc' = [proc EXCEPT ![u] = Idle]
    BY <1>1, <2>3, EndIs
  <2> QED  BY <1>10, <2>2, <2>3, UnlockIs
<1>11. CASE UnlinkG(u) \/ Interrupt(u) \/ Kill(u)
  <2>1. proc' = [proc EXCEPT ![u] = Idle]
    BY <1>11 DEF UnlinkG, Interrupt, Kill
  <2> QED  BY <1>1, <2>1, EndIs
<1>12. CASE Rm(u)
  BY <1>0, <1>12 DEF Rm
<1>13. CASE Locked(u)
  <2>0. proc[u].pc = "locked"
    BY <1>13, LockedCases
  <2>1. CASE fatal(u)
    BY <1>1, <2>1, EndIs DEF fatal
  <2>2. CASE ~fatal(u) /\ proc[u].cmd.op = "get" /\ get(u)
    BY <1>0, <2>0, <2>2, GetIs
  <2>3. CASE ~fatal(u) /\ proc[u].cmd.op = "delta" /\ delta(u)
    <3>1. pfile \subseteq Line
      BY DEF TypeOK
    <3> QED  BY <1>0, <2>0, <2>3, <3>1, DeltaIs
  <2>4. CASE ~fatal(u) /\ proc[u].cmd.op = "unget" /\ unget(u)
    <3>1. pfile \subseteq Line
      BY DEF TypeOK
    <3> QED  BY <1>0, <2>0, <2>4, <3>1, UngetIs
  <2>5. CASE ~fatal(u) /\ proc[u].cmd.op = "rmdel" /\ rmdel(u)
    <3>1. Goto(u, "rename x") /\ "rename x" \in PCs
      BY <2>0, <2>5, RmdelIs DEF PCs
    <3> QED  BY <1>0, <2>0, <2>5, <3>1, GotoIs
  <2> QED  BY <1>13, <2>1, <2>2, <2>3, <2>4, <2>5, LockedCases
<1> HIDE DEF P
<1> QED
  BY <1>2, <1>3, <1>4, <1>5, <1>6, <1>7, <1>8, <1>9, <1>10, <1>11, <1>12, <1>13, <1>14
     DEF NextBy, Step

-----------------------------------------------------------------------------
\* A lock that lockit has broken is for ever.
LEMMA BrokenStays ==
    ASSUME TypeOK, NEW u \in User, NextBy(u), ~broken'
    PROVE  ~broken
<1>1. CASE Judge(u) \/ Steal(u)
  BY <1>1 DEF Judge, Steal
<1>2. CASE Locked(u)
  BY <1>2, LockedCases DEF fatal, get, delta, unget, rmdel, ghosts
<1>3. CASE ~Judge(u) /\ ~Steal(u) /\ ~Locked(u)
  BY <1>3 DEF NextBy, Step, Start, Create, Write, Look, MakeGfile, MakeXfile, RenameX, RenameQ,
              Unlock, UnlinkG, Interrupt, Kill, Rm, ghosts
<1> QED  BY <1>1, <1>2, <1>3

\* A command that holds the lock is the only one.
LEMMA OnlyHolder ==
    ASSUME TypeOK, LockHeld, ~broken, NEW u \in User, NEW v \in User, u # v,
           proc[v].pc \in Holding
    PROVE  proc[u].pc \notin Holding /\ (proc[u].pc # "idle" => ~mylock(u))
<1>1. proc[v] # Idle /\ zfile.pid = <<v, run[v]>>
  BY Kinds DEF LockHeld, TypeOK, Holding
<1>2. proc[u] # Idle => proc[u].pid = <<u, run[u]>>
  BY DEF TypeOK
<1>3. proc[u].pc \notin Holding
  <2>1. proc[u].pc \in Holding => proc[u] # Idle /\ zfile.pid = proc[u].pid
    BY Kinds DEF LockHeld, Holding
  <2> QED  BY <1>1, <1>2, <2>1
<1> QED  BY <1>1, <1>2, <1>3, Kinds DEF mylock

\* A live command's z-file is not removed by lockit of another, as long as lockit
\* breaks no lock.
LEMMA StealSpares ==
    ASSUME TypeOK, LockHeld, ~broken', NEW u \in User, NEW v \in User,
           proc[v].pc \in Holding, Steal(u)
    PROVE  FALSE
<1>1. ~broken /\ proc[u].pc = "unlink z" /\ ~Overtaken(u)
  BY DEF Steal
<1>2. zfile # NoFile /\ zfile.pid = proc[v].pid /\ proc[v].pc # "idle"
  BY <1>1 DEF LockHeld, Holding
<1>3. Alive(zfile.pid)
  BY <1>2 DEF Alive
<1>4. ~Alive(proc[u].seen)
  BY <1>1 DEF LockHeld
<1>5. zfile.pid # proc[u].seen
  BY <1>3, <1>4
<1> QED  BY <1>1, <1>2, <1>3, <1>5 DEF Overtaken

\* While v holds the lock, a step of another command changes nothing that v
\* relies on.
LEMMA Undisturbed ==
    ASSUME TypeOK, LockHeld, ~broken', NEW u \in User, NEW v \in User, u # v,
           NextBy(u), proc[v].pc \in Holding
    PROVE  /\ UNCHANGED <<sfile, pfile, qfile, xfile, zfile>>
           /\ UNCHANGED <<made, edits, half, stale>>
           /\ proc'[v] = proc[v]
<1>1. ~broken
  BY BrokenStays
<1>2. proc[u].pc \notin Holding /\ (proc[u].pc # "idle" => ~mylock(u))
  BY <1>1, OnlyHolder
<1>3. zfile # NoFile
  BY <1>1 DEF LockHeld
<1>4. proc'[v] = proc[v]
  BY ProcStep
<1>5. CASE Steal(u)
  BY <1>5, StealSpares
<1>6. CASE Create(u)
  BY <1>3, <1>4, <1>6 DEF Create, ghosts
<1>7. CASE Interrupt(u)
  <2>1. ~mylock(u) /\ proc[u].pc \notin {"locked", "rename x", "unlock", "xfile"}
    BY <1>2, <1>7 DEF Interrupt, Holding
  <2> QED  BY <1>4, <1>7, <2>1 DEF Interrupt, unlockit, ghosts
<1>8. CASE Start(u) \/ Look(u) \/ Judge(u) \/ UnlinkG(u) \/ Kill(u) \/ Rm(u)
  BY <1>4, <1>8 DEF Start, Look, Judge, UnlinkG, Kill, Rm, files, ghosts
<1>9. CASE Write(u) \/ Locked(u) \/ MakeGfile(u) \/ MakeXfile(u) \/ RenameX(u)
           \/ RenameQ(u) \/ Unlock(u)
  BY <1>2, <1>9 DEF Write, Locked, MakeGfile, MakeXfile, RenameX, RenameQ, Unlock, Holding
<1> QED  BY <1>5, <1>6, <1>7, <1>8, <1>9 DEF NextBy, Step

\* The steps that work on the s-file or the p-file, or end such work.
Loud(u) ==
  \/ Locked(u) /\ ~fatal(u)
  \/ MakeGfile(u) \/ MakeXfile(u) \/ RenameX(u) \/ RenameQ(u) \/ Unlock(u)

\* A loud step is one of a command that holds the lock.
LEMMA LoudHolds ==
    ASSUME TypeOK, NEW u \in User, Loud(u)
    PROVE  proc[u].pc \in Holding \ {"write"} /\ broken' = broken /\ stale' = stale
<1>1. CASE Locked(u) /\ ~fatal(u)
  BY <1>1, LockedCases DEF get, delta, unget, rmdel, ghosts, Holding
<1>2. CASE MakeGfile(u) \/ MakeXfile(u) \/ RenameX(u) \/ RenameQ(u) \/ Unlock(u)
  BY <1>2 DEF MakeGfile, MakeXfile, RenameX, RenameQ, Unlock, ghosts, Holding
<1> QED  BY <1>1, <1>2 DEF Loud

\* What the other steps do.
LEMMA Quiet ==
    ASSUME TypeOK, NEW u \in User, NextBy(u), ~Loud(u)
    PROVE  /\ UNCHANGED <<sfile, pfile, made, edits, half>>
           /\ stale => stale'
           /\ proc'[u].pc \in {"idle", "create", "look", "judge", "unlink z", "write", "locked"}
           /\ proc'[u].pc = "locked" /\ proc'[u].cmd.op = "delta" /\ ~stale' =>
                proc'[u].opened = sfile
<1>1. CASE Start(u)
  BY <1>1, StartIs DEF Start, files, ghosts
<1>2. CASE Create(u)
  <2>1. proc[u].pc # "idle" /\ {"write", "look"} \subseteq PCs
    BY <1>2 DEF Create, PCs
  <2>2. Goto(u, "write") \/ Goto(u, "look")
    BY <1>2 DEF Create
  <2>3. proc'[u].pc \in {"write", "look"}
    BY <2>1, <2>2, GotoIs
  <2> QED  BY <1>2, <2>3 DEF Create, ghosts
<1>3. CASE Write(u)
  <2>1. proc[u].pc # "idle" /\ "locked" \in PCs /\ Goto(u, "locked")
    BY <1>3 DEF Write, PCs
  <2>2. /\ proc'[u].pc = "locked" /\ proc'[u].cmd = proc[u].cmd
        /\ proc'[u].opened = proc[u].opened
    BY <2>1, GotoIs
  <2> QED  BY <1>3, <2>2 DEF Write
<1>4. CASE Look(u)
  BY <1>4, LookIs DEF Look, files, ghosts
<1>5. CASE Steal(u)
  <2>1. proc'[u].pc \in {"idle", "create"}
    BY <1>5, RetryIs DEF Steal
  <2> QED  BY <1>5, <2>1 DEF Steal
<1>9. CASE Judge(u)
  <2>1. proc'[u].pc \in {"idle", "create", "unlink z"}
    BY <1>9, JudgeIs
  <2> QED  BY <1>9, <2>1 DEF Judge, files
<1>6. CASE UnlinkG(u) \/ Interrupt(u) \/ Kill(u)
  <2>1. proc' = [proc EXCEPT ![u] = Idle]
    BY <1>6 DEF UnlinkG, Interrupt, Kill
  <2>2. UNCHANGED <<sfile, pfile, made, edits, half, stale>>
    BY <1>6 DEF UnlinkG, Interrupt, Kill, files, ghosts
  <2> QED  BY <2>1, <2>2, EndIs
<1>7. CASE Rm(u)
  BY <1>7 DEF Rm, ghosts
<1>8. CASE Locked(u) /\ fatal(u)
  BY <1>8, EndIs DEF fatal, ghosts
<1> QED
  BY <1>1, <1>2, <1>3, <1>4, <1>5, <1>6, <1>7, <1>8, <1>9 DEF NextBy, Step, Loud

\* The lock of a command that holds it stays.
LEMMA HolderStep ==
    ASSUME TypeOK, LockHeld, NEW u \in User, NextBy(u),
           ~broken', NEW v \in User, proc'[v].pc \in Holding
    PROVE  zfile' # NoFile /\ zfile'.pid = proc'[v].pid
<1>1. ~broken
  BY BrokenStays
<1>2. CASE v # u
  <2>1. proc'[v] = proc[v]
    BY <1>2, ProcStep
  <2>2. UNCHANGED zfile
    BY <1>2, <2>1, Undisturbed
  <2> QED  BY <1>1, <2>1, <2>2 DEF LockHeld
<1>3. CASE v = u
  <2>0. proc'[u].pc # "idle" /\ proc'[u].pc \in Holding
    BY <1>3 DEF Holding
  <2>1. CASE Create(u)
    <3>0. proc[u].pc = "create" /\ "write" \in PCs /\ "look" \in PCs /\ "look" \notin Holding
      BY <2>1 DEF Create, PCs, Holding
    <3>1. ~Goto(u, "look")
      BY <2>0, <3>0, GotoIs
    <3>2. zfile' = [pid |-> proc[u].pid, written |-> FALSE] /\ Goto(u, "write") /\ zfile = NoFile
      BY <2>1, <3>1 DEF Create
    <3>3. proc[u].pid \in Pid
      BY <3>0, Kinds DEF Command
    <3>4. zfile' \in [pid : Pid, written : BOOLEAN]
      BY <3>2, <3>3
    <3>5. zfile' # NoFile
      BY <3>4, SccsAssumption
    <3> QED  BY <1>3, <3>0, <3>2, <3>5, GotoIs
  <2>2. CASE Write(u)
    <3>1. proc[u].pc = "write" /\ "locked" \in PCs /\ Goto(u, "locked") /\ "write" \in Holding
      BY <2>2 DEF Write, PCs, Holding
    <3>2. zfile # NoFile /\ zfile.pid = proc[u].pid
      BY <1>1, <3>1 DEF LockHeld
    <3>3. zfile \in [pid : Pid, written : BOOLEAN]
      BY <3>2 DEF TypeOK
    <3>4. zfile' = [zfile EXCEPT !.written = TRUE]
      BY <2>2, <3>2 DEF Write
    <3>5. zfile' \in [pid : Pid, written : BOOLEAN] /\ zfile'.pid = zfile.pid
      BY <3>3, <3>4
    <3>6. zfile' # NoFile
      BY <3>5, SccsAssumption
    <3>7. proc'[u].pid = proc[u].pid
      BY <3>1, GotoIs
    <3> QED  BY <1>3, <3>2, <3>5, <3>6, <3>7
  <2>3. CASE Loud(u)
    <3>1. proc[u].pc \in Holding /\ proc[u].pc # "idle"
      BY <2>3, LoudHolds DEF Holding
    <3>2. zfile # NoFile /\ zfile.pid = proc[u].pid
      BY <1>1, <3>1 DEF LockHeld
    <3>3. CASE MakeGfile(u) \/ MakeXfile(u) \/ RenameX(u) \/ RenameQ(u)
      <4>1. zfile' = zfile
        BY <3>3 DEF MakeGfile, MakeXfile, RenameX, RenameQ
      <4>2. \E l \in PCs : Goto(u, l)
        BY <3>3 DEF MakeGfile, MakeXfile, RenameX, RenameQ, PCs
      <4> QED  BY <1>3, <3>1, <3>2, <4>1, <4>2, GotoIs
    <3>4. CASE Unlock(u)
      <4>1. "unlink g" \in PCs /\ "unlink g" \notin Holding
        BY DEF PCs, Holding
      <4> QED  BY <2>0, <3>1, <3>4, <4>1, UnlockIs, GotoIs, EndIs
    <3>5. CASE Locked(u) /\ ~fatal(u)
      <4>0. proc[u].pc = "locked" /\ "rename x" \in PCs
        BY <3>5, LockedCases DEF PCs
      <4>1. CASE get(u)
        BY <1>3, <3>2, <3>5, <4>0, <4>1, GetIs
      <4>2. CASE delta(u)
        BY <1>3, <3>2, <3>5, <4>0, <4>2, DeltaIs
      <4>3. CASE proc[u].cmd.op = "unget" /\ unget(u)
        BY <1>3, <3>2, <3>5, <4>0, <4>3, UngetIs
      <4>4. CASE rmdel(u)
        <5>1. Goto(u, "rename x") /\ zfile' = zfile
          BY <3>5, <4>0, <4>4, RmdelIs
        <5> QED  BY <1>3, <3>1, <3>2, <4>0, <5>1, GotoIs
      <4> QED  BY <3>5, <4>1, <4>2, <4>3, <4>4, LockedCases
    <3> QED  BY <2>3, <3>3, <3>4, <3>5 DEF Loud
  <2>4. CASE ~Create(u) /\ ~Write(u) /\ ~Loud(u)
    <3>1. CASE Start(u)
      BY <2>0, <3>1, StartIs DEF Holding
    <3>2. CASE Look(u)
      BY <2>0, <3>2, LookIs DEF Holding
    <3>3. CASE Steal(u)
      BY <2>0, <3>3, RetryIs DEF Steal, Holding
    <3>6. CASE Judge(u)
      BY <2>0, <3>6, JudgeIs DEF Holding
    <3>4. CASE UnlinkG(u) \/ Interrupt(u) \/ Kill(u) \/ fatal(u)
      <4>1. proc' = [proc EXCEPT ![u] = Idle]
        BY <3>4 DEF UnlinkG, Interrupt, Kill, fatal
      <4> QED  BY <2>0, <4>1, EndIs
    <3>5. CASE Rm(u)
      BY <2>0, <3>5 DEF Rm
    <3> QED  BY <2>4, <3>1, <3>2, <3>3, <3>4, <3>5, <3>6 DEF NextBy, Step, Loud
  <2> QED  BY <2>1, <2>2, <2>3, <2>4
<1> QED  BY <1>2, <1>3

\* A command keeps its pid as long as it runs, and `seen' changes only when
\* lockit looks at a z-file.
LEMMA KeepsPid ==
    ASSUME TypeOK, NEW u \in User, NextBy(u), NEW v \in User, ~(Start(u) /\ v = u),
           proc'[v].pc # "idle"
    PROVE  proc[v].pc # "idle" /\ proc'[v].pid = proc[v].pid
<1>0. proc[v] # Idle => proc[v].pid = <<v, run[v]>>
  BY DEF TypeOK
<1>1. CASE v # u
  BY <1>1, ProcStep
<1>2. CASE v = u
  <2>1. ~Start(u)
    BY <1>2
  <2>2. proc[u].pc # "idle"
    <3>1. CASE Rm(u)
      BY <1>2, <3>1 DEF Rm
    <3>2. CASE ~Rm(u)
      BY <2>1, <3>2, LockedCases DEF NextBy, Step, Create, Write, Look, Judge, Steal, MakeGfile,
           MakeXfile, RenameX, RenameQ, Unlock, UnlinkG, Interrupt, Kill
    <3> QED  BY <3>1, <3>2
  <2>3. run' = run
    BY <2>1, LockedCases DEF NextBy, Step, Create, Write, Look, Judge, Steal, MakeGfile,
         MakeXfile, RenameX, RenameQ, Unlock, UnlinkG, Interrupt, Kill, Rm
  <2>4. proc'[u] # Idle
    BY <1>2 DEF Idle
  <2>5. proc[u] # Idle
    BY <2>2 DEF Idle
  <2> QED  BY <1>0, <1>2, <2>2, <2>3, <2>4, <2>5, ProcStep
<1> QED  BY <1>1, <1>2

LEMMA SeenIs ==
    ASSUME TypeOK, NEW u \in User, NextBy(u), proc'[u].pc # "idle"
    PROVE  \/ /\ proc[u].pc # "idle" /\ proc'[u].seen = proc[u].seen
              /\ proc'[u].pc = "unlink z" => proc[u].pc = "unlink z"
           \/ /\ zfile # NoFile /\ proc'[u].seen = zfile.pid
              /\ proc'[u].pc = "unlink z" => Judge(u)
           \/ proc'[u].seen = <<>> /\ proc'[u].pc # "unlink z"
<1>1. CASE Start(u)
  BY <1>1, StartIs
<1>2. CASE Look(u)
  <2>1. proc[u].pc # "idle"
    BY <1>2 DEF Look
  <2>2. proc'[u].pc # "unlink z"
    BY <1>2, LookIs
  <2> QED  BY <1>2, <2>1, <2>2, LookIs
<1>3. CASE Judge(u)
  <2>1. proc[u].pc # "idle"
    BY <1>3 DEF Judge
  <2>2. CASE proc'[u].pc = "create"
    BY <1>3, <2>1, <2>2, JudgeIs
  <2>3. CASE proc'[u].pc = "unlink z"
    BY <1>3, <2>3, JudgeIs DEF Removable
  <2> QED  BY <1>3, <2>2, <2>3, JudgeIs
<1>4. CASE Steal(u)
  <2>1. proc[u].pc # "idle" /\ Retry(u)
    BY <1>4 DEF Steal
  <2> QED  BY <2>1, RetryIs
<1>5. CASE Locked(u)
  <2>1. proc[u].pc = "locked"
    BY <1>5, LockedCases
  <2>2. CASE fatal(u)
    BY <2>2, EndIs DEF fatal
  <2>3. CASE ~fatal(u) /\ get(u)
    BY <2>1, <2>3, GetIs
  <2>4. CASE ~fatal(u) /\ delta(u)
    BY <2>1, <2>4, DeltaIs
  <2>5. CASE ~fatal(u) /\ proc[u].cmd.op = "unget" /\ unget(u)
    BY <2>1, <2>5, UngetIs
  <2>6. CASE ~fatal(u) /\ rmdel(u)
    <3>1. Goto(u, "rename x") /\ "rename x" \in PCs
      BY <2>1, <2>6, RmdelIs DEF PCs
    <3> QED  BY <2>1, <3>1, GotoIs
  <2> QED  BY <1>5, <2>2, <2>3, <2>4, <2>5, <2>6, LockedCases
<1>6. CASE \E l \in PCs \ {"unlink z"} : proc[u].pc # "idle" /\ Goto(u, l)
  BY <1>6, GotoIs
<1>7. CASE proc' = [proc EXCEPT ![u] = Idle]
  BY <1>7, EndIs
<1>8. CASE proc' = proc
  BY <1>8
<1>9. CASE \/ Create(u) \/ Write(u) \/ MakeGfile(u) \/ MakeXfile(u) \/ RenameX(u)
           \/ RenameQ(u) \/ Unlock(u) \/ UnlinkG(u) \/ Interrupt(u) \/ Kill(u) \/ Rm(u)
  <2>1. CASE Create(u) \/ Write(u) \/ MakeGfile(u) \/ MakeXfile(u) \/ RenameX(u) \/ RenameQ(u)
    <3>1. proc[u].pc # "idle"
      BY <2>1 DEF Create, Write, MakeGfile, MakeXfile, RenameX, RenameQ
    <3>2. \E l \in PCs \ {"unlink z"} : Goto(u, l)
      BY <2>1 DEF Create, Write, MakeGfile, MakeXfile, RenameX, RenameQ, PCs
    <3> QED  BY <1>6, <3>1, <3>2
  <2>2. CASE Unlock(u)
    <3>1. proc[u].pc # "idle" /\ "unlink g" \in PCs \ {"unlink z"}
      BY <2>2 DEF Unlock, PCs
    <3> QED  BY <1>6, <1>7, <2>2, <3>1, UnlockIs
  <2>3. CASE UnlinkG(u) \/ Interrupt(u) \/ Kill(u)
    BY <1>7, <2>3 DEF UnlinkG, Interrupt, Kill
  <2>4. CASE Rm(u)
    BY <1>8, <2>4 DEF Rm
  <2> QED  BY <1>9, <2>1, <2>2, <2>3, <2>4
<1> QED  BY <1>1, <1>2, <1>3, <1>4, <1>5, <1>9 DEF NextBy, Step

\* The numbers of the commands only grow.
LEMMA UsedStays ==
    ASSUME TypeOK, NEW u \in User, NextBy(u), NEW pid \in Pid, Used(pid)
    PROVE  Used(pid)'
<1>1. pid[1] \in User /\ pid[2] \in Nat
  BY DEF Pid
<1>2. run \in [User -> Nat] /\ run' \in [User -> Nat]
  BY ProcStep DEF TypeOK
<1>3. \A v \in User : run[v] <= run'[v]
  <2>1. CASE Start(u)
    <3>1. run' = [run EXCEPT ![u] = run[u] + 1]
      BY <2>1 DEF Start
    <3> QED  BY <1>2, <3>1
  <2>2. CASE ~Start(u)
    <3>1. run' = run
      BY <2>2, LockedCases DEF NextBy, Step, Create, Write, Look, Judge, Steal, MakeGfile,
           MakeXfile, RenameX, RenameQ, Unlock, UnlinkG, Interrupt, Kill, Rm
    <3> QED  BY <1>2, <3>1
  <2> QED  BY <2>1, <2>2
<1> QED  BY <1>1, <1>2, <1>3 DEF Used

\* What a z-file says, and what lockit saw.
LEMMA PidsStep ==
    ASSUME TypeOK, PidsUsed, NEW u \in User, NextBy(u)
    PROVE  PidsUsed'
<1>0. /\ zfile # NoFile => zfile.pid \in Pid
      /\ \A v \in User : proc[v].pc # "idle" =>
           proc[v].pid \in Pid /\ proc[v].seen \in Pid \cup {<<>>}
  BY Kinds DEF TypeOK, Command
<1>1. ASSUME zfile' # NoFile PROVE Used(zfile.pid)'
  <2>1. CASE Create(u)
    <3>1. zfile' = zfile \/ zfile'.pid = proc[u].pid
      BY <2>1 DEF Create
    <3>2. proc[u].pid \in Pid /\ Used(proc[u].pid)
      <4>1. proc[u].pc # "idle" /\ proc[u] # Idle
        BY <2>1, Kinds DEF Create
      <4>2. proc[u].pid = <<u, run[u]>> /\ run[u] \in Nat
        BY <4>1 DEF TypeOK
      <4> QED  BY <1>0, <4>1, <4>2 DEF Used
    <3> QED  BY <1>0, <1>1, <3>1, <3>2, UsedStays DEF PidsUsed, Used
  <2>2. CASE ~Create(u)
    <3>1. zfile' \in {zfile, NoFile} \/ (zfile # NoFile /\ zfile' = [zfile EXCEPT !.written = TRUE])
      BY <2>2, LockedCases DEF NextBy, Step, Start, Write, Look, Judge, Steal, MakeGfile,
           MakeXfile, RenameX, RenameQ, Unlock, unlockit, UnlinkG, Interrupt, Kill, Rm, files,
           fatal, get, delta, unget, rmdel
    <3>2. zfile # NoFile /\ zfile'.pid = zfile.pid
      BY <1>1, <3>1 DEF TypeOK
    <3> QED  BY <1>0, <3>2, UsedStays DEF PidsUsed, Used
  <2> QED  BY <2>1, <2>2
<1>2. ASSUME NEW v \in User, proc'[v].pc # "idle", proc'[v].seen # <<>>
      PROVE  Used(proc[v].seen)'
  <2>1. CASE proc[v].pc # "idle" /\ proc'[v].seen = proc[v].seen
    BY <1>0, <1>2, <2>1, UsedStays DEF PidsUsed, Used
  <2>2. CASE zfile # NoFile /\ proc'[v].seen = zfile.pid
    BY <1>0, <2>2, UsedStays DEF PidsUsed, Used
  <2>3. \/ proc[v].pc # "idle" /\ proc'[v].seen = proc[v].seen
        \/ zfile # NoFile /\ proc'[v].seen = zfile.pid
    <3>1. CASE v # u
      BY <1>2, <3>1, ProcStep
    <3>2. CASE v = u
      BY <1>2, <3>2, SeenIs
    <3> QED  BY <3>1, <3>2
  <2> QED  BY <2>1, <2>2, <2>3
<1> QED  BY <1>1, <1>2 DEF PidsUsed

\* A command that has ended does not come back.
LEMMA EndedStays ==
    ASSUME TypeOK, NEW u \in User, NextBy(u), NEW pid \in Pid, Used(pid), ~Alive(pid)
    PROVE  ~Alive(pid)'
<1> SUFFICES ASSUME NEW v \in User, proc'[v].pc # "idle", proc'[v].pid = pid PROVE FALSE
  BY DEF Alive
<1>1. run \in [User -> Nat]
  BY DEF TypeOK
<1>2. CASE Start(u) /\ v = u
  <2>1. proc'[u].pid = <<u, run'[u]>> /\ run' = [run EXCEPT ![u] = run[u] + 1]
    BY <1>2, StartIs DEF Start
  <2>2. pid[1] = u /\ pid[2] = run[u] + 1
    BY <1>1, <1>2, <2>1
  <2> QED  BY <1>1, <2>2 DEF Used
<1>3. CASE ~(Start(u) /\ v = u)
  <2>1. proc[v].pc # "idle" /\ proc'[v].pid = proc[v].pid
    BY <1>3, KeepsPid
  <2> QED  BY <2>1 DEF Alive
<1> QED  BY <1>2, <1>3

\* No command holds a z-file that lockit is about to unlink.
LEMMA LockStep ==
    ASSUME TypeOK, PidsUsed, LockHeld, NEW u \in User, NextBy(u)
    PROVE  LockHeld'
<1> SUFFICES ASSUME ~broken', NEW v \in User, proc'[v].pc = "unlink z"
             PROVE  proc'[v].seen # <<>> /\ ~Alive(proc[v].seen)'
  BY HolderStep DEF LockHeld
<1>1. ~broken
  BY BrokenStays
<1>2. CASE proc[v].pc = "unlink z" /\ proc'[v].seen = proc[v].seen
  <2>1. proc[v].seen # <<>> /\ ~Alive(proc[v].seen)
    BY <1>1, <1>2 DEF LockHeld
  <2>2. proc[v].seen \in Pid /\ Used(proc[v].seen)
    BY <1>2, <2>1, Kinds DEF PidsUsed, Command
  <2>3. ~Alive(proc[v].seen)'
    BY <1>2, <2>1, <2>2, EndedStays DEF Alive
  <2> QED  BY <1>2, <2>1, <2>3
<1>3. CASE v = u /\ Judge(u)
  <2>1. Removable(u) /\ proc'[u].seen = zfile.pid
    BY <1>3, JudgeIs
  <2>2. ~Alive(zfile.pid) /\ zfile # NoFile
    <3>1. proc[u].seen = proc[u].opid
      BY <1>3, <2>1 DEF Judge
    <3> QED  BY <2>1, <3>1 DEF Removable
  <2>3. zfile.pid \in Pid /\ Used(zfile.pid) /\ zfile.pid # <<>>
    <3>1. zfile.pid \in Pid /\ Used(zfile.pid)
      BY <2>2 DEF TypeOK, PidsUsed
    <3> QED  BY <3>1, PidIsSome
  <2>4. ~Alive(zfile.pid)' \/ zfile' # zfile
    BY <2>2, <2>3, EndedStays DEF Alive
  <2>5. zfile' = zfile
    BY <1>3 DEF Judge, files
  <2> QED  BY <1>3, <2>1, <2>3, <2>4, <2>5 DEF Alive
<1>4. \/ proc[v].pc = "unlink z" /\ proc'[v].seen = proc[v].seen
      \/ v = u /\ Judge(u)
  <2>1. CASE v # u
    BY <2>1, ProcStep
  <2>2. CASE v = u
    BY <2>2, SeenIs
  <2> QED  BY <2>1, <2>2
<1> QED  BY <1>2, <1>3, <1>4

\* OneHolder is what LockHeld says, as no two commands have the same pid.
LEMMA HeldByOne ==
    ASSUME TypeOK, LockHeld
    PROVE  OneHolder
BY OnlyHolder DEF OneHolder, LockHeld

-----------------------------------------------------------------------------
\* A q-file that has the p-file's lines but for one is there, and RenameQ makes it
\* the p-file.
LEMMA RenameQIs ==
    ASSUME TypeOK, Places, ~broken, EditWork, NEW u \in User, RenameQ(u)
    PROVE  /\ proc[u].cmd.op = "get" => /\ pfile' = pfile \cup {proc[u].line}
                                        /\ edits' = edits
                                        /\ \A l \in pfile : l.nsid # proc[u].line.nsid
           /\ proc[u].cmd.op # "get" => /\ pfile' = pfile \ {proc[u].line}
                                        /\ edits' = edits \ {proc[u].line}
<1> DEFINE line == proc[u].line
<1>1. /\ proc[u].pc = "rename q" /\ proc[u].cmd.op \in {"get", "delta", "unget"}
      /\ proc[u].line \in Line
  BY CommandOp DEF RenameQ, Places
<1>2. pfile \in SUBSET Line
  BY DEF TypeOK
<1>3. CASE proc[u].cmd.op = "get"
  <2>1. qfile = [lines |-> pfile \cup {line}] /\ \A l \in pfile : l.nsid # line.nsid
    BY <1>1, <1>3 DEF EditWork, Adding
  <2>2. qfile \in [lines : SUBSET Line] /\ qfile.lines = pfile \cup {line}
    BY <1>1, <1>2, <2>1
  <2>3. qfile # NoFile
    BY <2>2, SccsAssumption
  <2>4. ~proc[u].last
    BY <1>1, <1>3 DEF Places
  <2> QED  BY <1>3, <2>1, <2>2, <2>3, <2>4 DEF RenameQ
<1>4. CASE proc[u].cmd.op # "get"
  <2>1. /\ qfile = [lines |-> pfile \ {line}] /\ line.user = u
        /\ proc[u].last => pfile \subseteq {line}
    BY <1>1, <1>4 DEF EditWork, Taking
  <2>2. qfile \in [lines : SUBSET Line] /\ qfile.lines = pfile \ {line}
    BY <1>2, <2>1
  <2>3. qfile # NoFile
    BY <2>2, SccsAssumption
  <2>4. pfile' = pfile \ {line}
    BY <1>4, <2>1, <2>2, <2>3 DEF RenameQ
  <2>5. edits' = {l \in edits : l # line \/ l.user # u}
    BY <1>4 DEF RenameQ
  <2> QED  BY <1>4, <2>1, <2>4, <2>5
<1> QED  BY <1>3, <1>4

\* What EditWork says of one user.
EditWorkOf(v) ==
  LET line == proc[v].line
  IN  /\ Adding(v) => /\ qfile = [lines |-> pfile \cup {line}]
                      /\ \A l \in pfile : l.nsid # line.nsid
      /\ proc[v].pc = "unlock" /\ proc[v].cmd.op = "get" => line \in pfile
      /\ Taking(v) => /\ line \in pfile /\ line.user = v
                      /\ qfile = [lines |-> pfile \ {line}]
                      /\ proc[v].last => pfile \subseteq {line}

\* No step loses an edit that was granted, or makes two plans the same.
LEMMA EditStep ==
    ASSUME TypeOK, Places, LockHeld, EditsKept, PlansDiffer, EditWork,
           NEW u \in User, NextBy(u)
    PROVE  EditsKept' /\ PlansDiffer' /\ EditWork'
<1> DEFINE Plans == \A k, l \in pfile : k.nsid = l.nsid => k = l
<1> SUFFICES ASSUME ~broken'
             PROVE  edits' \subseteq pfile' /\ Plans' /\ EditWork'
  BY DEF EditsKept, PlansDiffer, EditWork
<1>0. ~broken /\ edits \subseteq pfile /\ Plans
  BY BrokenStays DEF EditsKept, PlansDiffer
<1>1. \A v \in User : EditWorkOf(v)
  BY <1>0 DEF EditWork, EditWorkOf
<1> HIDE DEF Plans
<1>2. ASSUME NEW v \in User, v # u PROVE EditWorkOf(v)'
  <2>1. proc'[v] = proc[v]
    BY <1>2, ProcStep
  <2>2. CASE proc[v].pc \in Holding
    <3>1. UNCHANGED <<pfile, qfile>>
      BY <1>2, <2>2, Undisturbed
    <3> QED  BY <1>1, <2>1, <3>1 DEF EditWorkOf, Adding, Taking
  <2>3. CASE proc[v].pc \notin Holding
    BY <2>1, <2>3 DEF EditWorkOf, Adding, Taking, Holding
  <2> QED  BY <2>2, <2>3
<1> SUFFICES edits' \subseteq pfile' /\ Plans' /\ EditWorkOf(u)'
  <2>1. ASSUME \A v \in User : EditWorkOf(v)' PROVE EditWork'
    BY <2>1 DEF EditWork, EditWorkOf
  <2> QED  BY <1>2, <2>1
<1>3. CASE ~Loud(u)
  <2>1. UNCHANGED <<pfile, edits>>
    BY <1>3, Quiet
  <2>2. EditWorkOf(u)'
    BY <1>3, Quiet DEF EditWorkOf, Adding, Taking
  <2> QED  BY <1>0, <2>1, <2>2 DEF Plans
<1>4. CASE MakeGfile(u)
  <2>1. UNCHANGED <<pfile, qfile, edits>> /\ Goto(u, "rename q") /\ proc[u].pc = "gfile"
        /\ "rename q" \in PCs
    BY <1>4 DEF MakeGfile, PCs, ghosts
  <2>2. proc'[u].pc = "rename q" /\ proc'[u].cmd = proc[u].cmd /\ proc'[u].line = proc[u].line
    BY <2>1, GotoIs
  <2>3. proc[u].cmd.op = "get"
    BY <2>1 DEF Places
  <2>4. EditWorkOf(u)'
    BY <1>1, <2>1, <2>2, <2>3 DEF EditWorkOf, Adding, Taking
  <2> QED  BY <1>0, <2>1, <2>4 DEF Plans
<1>5. CASE MakeXfile(u)
  <2>1. UNCHANGED <<pfile, qfile, edits>> /\ Goto(u, "rename x") /\ proc[u].pc = "xfile"
        /\ "rename x" \in PCs
    BY <1>5 DEF MakeXfile, PCs, ghosts
  <2>2. /\ proc'[u].pc = "rename x" /\ proc'[u].cmd = proc[u].cmd
        /\ proc'[u].line = proc[u].line /\ proc'[u].last = proc[u].last
    BY <2>1, GotoIs
  <2>3. proc[u].cmd.op = "delta"
    BY <2>1 DEF Places
  <2>4. EditWorkOf(u)'
    BY <1>1, <2>1, <2>2, <2>3 DEF EditWorkOf, Adding, Taking
  <2> QED  BY <1>0, <2>1, <2>4 DEF Plans
<1>6. CASE RenameX(u)
  <2>1. UNCHANGED <<pfile, qfile, edits>> /\ proc[u].pc = "rename x"
        /\ "rename q" \in PCs /\ "unlock" \in PCs
    BY <1>6 DEF RenameX, PCs
  <2>2. CASE proc[u].cmd.op = "delta"
    <3>1. /\ proc'[u].pc = "rename q" /\ proc'[u].cmd = proc[u].cmd
          /\ proc'[u].line = proc[u].line /\ proc'[u].last = proc[u].last
      BY <1>6, <2>1, <2>2, GotoIs DEF RenameX
    <3> QED  BY <1>0, <1>1, <2>1, <2>2, <3>1 DEF EditWorkOf, Adding, Taking, Plans
  <2>3. CASE proc[u].cmd.op # "delta"
    <3>1. proc'[u].pc = "unlock" /\ proc'[u].cmd = proc[u].cmd
      BY <1>6, <2>1, <2>3, GotoIs DEF RenameX
    <3>2. proc[u].cmd.op = "rmdel"
      BY <2>1, <2>3 DEF Places
    <3> QED  BY <1>0, <2>1, <3>1, <3>2 DEF EditWorkOf, Adding, Taking, Plans
  <2> QED  BY <2>2, <2>3
<1>7. CASE RenameQ(u)
  <2>1. Goto(u, "unlock") /\ proc[u].pc = "rename q" /\ "unlock" \in PCs
    BY <1>7 DEF RenameQ, PCs
  <2>2. proc'[u].pc = "unlock" /\ proc'[u].cmd = proc[u].cmd /\ proc'[u].line = proc[u].line
    BY <2>1, GotoIs
  <2>3. CASE proc[u].cmd.op = "get"
    <3>1. /\ pfile' = pfile \cup {proc[u].line} /\ edits' = edits
          /\ \A l \in pfile : l.nsid # proc[u].line.nsid
      BY <1>0, <1>7, <2>3, RenameQIs
    <3> QED  BY <1>0, <2>2, <3>1 DEF EditWorkOf, Adding, Taking, Plans
  <2>4. CASE proc[u].cmd.op # "get"
    <3>1. pfile' = pfile \ {proc[u].line} /\ edits' = edits \ {proc[u].line}
      BY <1>0, <1>7, <2>4, RenameQIs
    <3> QED  BY <1>0, <2>2, <2>4, <3>1 DEF EditWorkOf, Adding, Taking, Plans
  <2> QED  BY <2>3, <2>4
<1>8. CASE Unlock(u)
  <2>1. UNCHANGED <<pfile, qfile>> /\ proc[u].pc = "unlock" /\ "unlink g" \in PCs
    BY <1>8 DEF Unlock, PCs
  <2>2. edits' = edits \/ (proc[u].cmd.op = "get" /\ edits' = edits \cup {proc[u].line})
    BY <1>8 DEF Unlock
  <2>3. proc'[u].pc \in {"idle", "unlink g"}
    BY <1>8, <2>1, UnlockIs, GotoIs, EndIs
  <2> QED  BY <1>0, <1>1, <2>1, <2>2, <2>3 DEF EditWorkOf, Adding, Taking, Plans
<1>9. CASE Locked(u) /\ ~fatal(u)
  <2>0. proc[u].pc = "locked" /\ "rename x" \in PCs
    BY <1>9, LockedCases DEF PCs
  <2>1. CASE proc[u].cmd.op = "get" /\ get(u)
    <3>1. PICK line \in Line :
             /\ qfile' = [lines |-> pfile \cup {line}]
             /\ \A l \in pfile : l.nsid # line.nsid
             /\ proc'[u].pc = "gfile" /\ proc'[u].cmd = proc[u].cmd
             /\ proc'[u].line = line
             /\ UNCHANGED <<pfile, ghosts>>
      BY <1>9, <2>0, <2>1, GetIs
    <3> QED  BY <1>0, <2>1, <3>1 DEF EditWorkOf, Adding, Taking, Plans, ghosts
  <2>2. CASE proc[u].cmd.op = "delta" /\ delta(u)
    <3>1. PICK line \in pfile :
             /\ qfile' = [lines |-> pfile \ {line}] /\ Chosen(u) = {line}
             /\ proc'[u].pc = "xfile" /\ proc'[u].cmd = proc[u].cmd
             /\ proc'[u].line = line /\ proc'[u].last = proc[u].last
             /\ UNCHANGED <<pfile, ghosts>>
      BY <1>9, <2>0, <2>2, DeltaIs
    <3>2. ~proc[u].last
      BY <2>0, <2>2 DEF Places
    <3>3. line.user = u
      BY <3>1 DEF Chosen, Matches
    <3> QED  BY <1>0, <2>2, <3>1, <3>2, <3>3 DEF EditWorkOf, Adding, Taking, Plans, ghosts
  <2>3. CASE proc[u].cmd.op = "unget" /\ unget(u)
    <3>1. PICK line \in pfile :
             /\ qfile' = [lines |-> Rest(u)] /\ line \in Chosen(u)
             /\ Plans => Rest(u) = pfile \ {line}
             /\ proc'[u].pc = "rename q" /\ proc'[u].cmd = proc[u].cmd
             /\ proc'[u].line = line /\ proc'[u].last = (Rest(u) = {})
             /\ UNCHANGED <<pfile, ghosts>>
      BY <1>9, <2>0, <2>3, UngetIs DEF Plans
    <3>2. Rest(u) = pfile \ {line}
      BY <1>0, <3>1
    <3>3. proc'[u].last => pfile \subseteq {line}
      BY <3>1, <3>2
    <3>4. line.user = u
      BY <3>1 DEF Chosen, Matches
    <3> QED  BY <1>0, <2>3, <3>1, <3>2, <3>3, <3>4 DEF EditWorkOf, Adding, Taking, Plans, ghosts
  <2>4. CASE proc[u].cmd.op = "rmdel" /\ rmdel(u)
    <3>1. Goto(u, "rename x") /\ UNCHANGED <<pfile, ghosts>>
      BY <1>9, <2>0, <2>4, RmdelIs
    <3>2. proc'[u].pc = "rename x" /\ proc'[u].cmd = proc[u].cmd
      BY <2>0, <3>1, GotoIs
    <3> QED  BY <1>0, <2>4, <3>1, <3>2 DEF EditWorkOf, Adding, Taking, Plans, ghosts
  <2> QED  BY <1>9, <2>1, <2>2, <2>3, <2>4, LockedCases
<1> QED
  BY <1>3, <1>4, <1>5, <1>6, <1>7, <1>8, <1>9 DEF Loud

-----------------------------------------------------------------------------
\* What a table with one delta more has in it, and one with a delta marked.
LEMMA AppendHas ==
    ASSUME NEW table \in Seq(Delta), NEW d \in Delta, d.type = "D"
    PROVE  LET more == Append(table, d)
           IN  /\ more \in Seq(Delta)
               /\ Range(more) = Range(table) \cup {d}
               /\ Serials(more) = Serials(table) \cup {Len(table) + 1}
               /\ \A m \in Serials(table) : more[m] = table[m]
               /\ more[Len(table) + 1] = d
               /\ Sids(more) = Sids(table) \cup {d.sid}
<1> DEFINE more == Append(table, d)
<1>1. /\ more \in Seq(Delta)
      /\ DOMAIN more = DOMAIN table \cup {Len(table) + 1} /\ Len(table) \in Nat
      /\ more[Len(table) + 1] = d
      /\ \A m \in DOMAIN table : more[m] = table[m]
  OBVIOUS
<1> HIDE DEF more
<1>2. Range(more) = Range(table) \cup {d}
  BY <1>1 DEF Range
<1>3. Serials(more) = Serials(table) \cup {Len(table) + 1} /\ Serials(table) \subseteq DOMAIN table
  BY <1>1 DEF Serials
<1>4. Sids(more) = Sids(table) \cup {d.sid}
  BY <1>1, <1>3 DEF Sids
<1> QED  BY <1>1, <1>2, <1>3, <1>4 DEF more

LEMMA MarkHas ==
    ASSUME NEW table \in Seq(Delta), NEW n \in Serials(table)
    PROVE  LET marked == [table EXCEPT ![n].type = "R"]
           IN  /\ Serials(marked) = Serials(table) \ {n}
               /\ \A m \in Serials(marked) : marked[m] = table[m]
               /\ \A d \in Range(table) : d.sid # table[n].sid => d \in Range(marked)
               /\ Sids(marked) \subseteq Sids(table)
               /\ \A sid \in Sids(table) : sid # table[n].sid => sid \in Sids(marked)
<1> DEFINE marked == [table EXCEPT ![n].type = "R"]
<1>1. /\ DOMAIN marked = DOMAIN table /\ marked[n].type = "R"
      /\ \A m \in DOMAIN table : m # n => marked[m] = table[m]
  BY MarkTable
<1> HIDE DEF marked
<1>2. Serials(marked) = Serials(table) \ {n} /\ \A m \in Serials(marked) : marked[m] = table[m]
  BY <1>1 DEF Serials
<1>3. \A d \in Range(table) : d.sid # table[n].sid => d \in Range(marked)
  BY <1>1 DEF Range
<1>4. /\ Sids(marked) \subseteq Sids(table)
      /\ \A sid \in Sids(table) : sid # table[n].sid => sid \in Sids(marked)
  BY <1>2 DEF Sids
<1> QED  BY <1>2, <1>3, <1>4 DEF marked

\* What HistoryWork says of one user.
HistoryWorkOf(v) ==
  LET c == proc[v]
  IN  /\ c.pc \in {"locked", "xfile", "rename x"} /\ c.cmd.op = "delta" => c.opened = sfile
      /\ c.pc = "rename x" /\ c.cmd.op = "delta" => xfile = Append(sfile, mkdelt(v))
      /\ c.pc = "rename x" /\ c.cmd.op = "rmdel" =>
           /\ \E n \in Serials(sfile) :
                sfile[n].sid = c.cmd.r /\ xfile = [sfile EXCEPT ![n].type = "R"]
           /\ \A l \in pfile : l.gsid # c.cmd.r

\* RenameX puts the new table in place.
LEMMA RenameXIs ==
    ASSUME TypeOK, Places, ~broken, ~stale, HistoryWork, NEW u \in User, RenameX(u)
    PROVE  /\ proc[u].cmd.op = "delta" =>
                /\ mkdelt(u) \in Delta /\ mkdelt(u).type = "D"
                /\ mkdelt(u).sid = proc[u].line.nsid
                /\ sfile' = Append(sfile, mkdelt(u))
                /\ made' = made \cup {mkdelt(u)} /\ half' = half \cup {proc[u].line}
           /\ proc[u].cmd.op # "delta" =>
                /\ \E n \in Serials(sfile) :
                     sfile[n].sid = proc[u].cmd.r /\ sfile' = [sfile EXCEPT ![n].type = "R"]
                /\ \A l \in pfile : l.gsid # proc[u].cmd.r
                /\ made' = {d \in made : d.sid # proc[u].cmd.r} /\ half' = half
<1>1. /\ proc[u].pc = "rename x" /\ proc[u] \in Command /\ sfile \in Seq(Delta)
      /\ sfile' = IF xfile = NoFile THEN sfile ELSE xfile
  BY Kinds DEF RenameX, TypeOK
<1>2. CASE proc[u].cmd.op = "delta"
  <2>1. proc[u].line \in Line
    BY <1>1, <1>2 DEF Places
  <2>2. mkdelt(u) \in Delta /\ mkdelt(u).type = "D" /\ mkdelt(u).sid = proc[u].line.nsid
    BY <1>1, <2>1, MkdeltType
  <2>3. xfile = Append(sfile, mkdelt(u))
    BY <1>1, <1>2 DEF HistoryWork
  <2>4. xfile \in Seq(Delta)
    <3>1. sfile \in Seq(Delta) /\ mkdelt(u) \in Delta /\ mkdelt(u).type = "D"
      BY <1>1, <2>2
    <3>2. Append(sfile, mkdelt(u)) \in Seq(Delta)
      BY <3>1, AppendHas
    <3> QED  BY <2>3, <3>2
  <2>5. xfile # NoFile
    BY <2>4, SccsAssumption
  <2> QED  BY <1>1, <1>2, <2>2, <2>3, <2>5 DEF RenameX
<1>3. CASE proc[u].cmd.op # "delta"
  <2>1. proc[u].cmd.op = "rmdel"
    BY <1>1, <1>3 DEF Places
  <2>2. PICK n \in Serials(sfile) :
          sfile[n].sid = proc[u].cmd.r /\ xfile = [sfile EXCEPT ![n].type = "R"]
    BY <1>1, <2>1 DEF HistoryWork
  <2>3. \A l \in pfile : l.gsid # proc[u].cmd.r
    BY <1>1, <2>1 DEF HistoryWork
  <2>4. xfile \in Seq(Delta)
    BY <1>1, <2>2, MarkTable
  <2>5. xfile # NoFile
    BY <2>4, SccsAssumption
  <2> QED  BY <1>1, <1>3, <2>2, <2>3, <2>5 DEF RenameX
<1> QED  BY <1>2, <1>3

\* A stale s-file is for ever.
LEMMA StaleStays ==
    ASSUME TypeOK, NEW u \in User, NextBy(u), ~stale'
    PROVE  ~stale
BY LoudHolds, Quiet

\* No step loses a delta.
LEMMA HistoryStep ==
    ASSUME TypeOK, Places, LockHeld, HistoryKept, HistoryWork, NEW u \in User, NextBy(u)
    PROVE  HistoryKept' /\ HistoryWork'
<1> SUFFICES ASSUME ~broken', ~stale'
             PROVE  made' \subseteq Range(sfile') /\ HistoryWork'
  BY DEF HistoryKept, HistoryWork, Range
<1>0. ~broken /\ ~stale /\ made \subseteq Range(sfile) /\ sfile \in Seq(Delta)
  BY BrokenStays, StaleStays DEF HistoryKept, TypeOK
<1>1. \A v \in User : HistoryWorkOf(v)
  BY <1>0 DEF HistoryWork, HistoryWorkOf
<1>2. ASSUME NEW v \in User, v # u PROVE HistoryWorkOf(v)'
  <2>1. proc'[v] = proc[v]
    BY <1>2, ProcStep
  <2>2. CASE proc[v].pc \in Holding
    <3>1. UNCHANGED <<sfile, pfile, xfile>>
      BY <1>2, <2>2, Undisturbed
    <3>2. mkdelt(v)' = mkdelt(v)
      BY <2>1 DEF mkdelt
    <3>3. ASSUME proc[v].pc = "rename x" /\ proc[v].cmd.op = "rmdel"
          PROVE  \E n \in Serials(sfile') :
                   sfile'[n].sid = proc'[v].cmd.r /\ xfile' = [sfile' EXCEPT ![n].type = "R"]
      <4>1. \E n \in Serials(sfile) :
              sfile[n].sid = proc[v].cmd.r /\ xfile = [sfile EXCEPT ![n].type = "R"]
        BY <1>1, <3>3 DEF HistoryWorkOf
      <4> QED  BY <2>1, <3>1, <4>1
    <3>4. Serials(sfile') = Serials(sfile)'
      BY DEF Serials
    <3>5. proc[v].pc \in {"locked", "xfile", "rename x"} /\ proc[v].cmd.op = "delta" =>
            proc[v].opened = sfile'
      BY <1>1, <3>1 DEF HistoryWorkOf
    <3>6. proc[v].pc = "rename x" /\ proc[v].cmd.op = "delta" => xfile' = Append(sfile', mkdelt(v)')
      BY <1>1, <3>1, <3>2 DEF HistoryWorkOf
    <3>7. proc[v].pc = "rename x" /\ proc[v].cmd.op = "rmdel" =>
            \A l \in pfile' : l.gsid # proc[v].cmd.r
      BY <1>1, <3>1 DEF HistoryWorkOf
    <3> QED  BY <2>1, <3>3, <3>4, <3>5, <3>6, <3>7 DEF HistoryWorkOf
  <2>3. CASE proc[v].pc \notin Holding
    BY <2>1, <2>3 DEF HistoryWorkOf, Holding
  <2> QED  BY <2>2, <2>3
<1> SUFFICES made' \subseteq Range(sfile') /\ HistoryWorkOf(u)'
  <2>1. ASSUME \A v \in User : HistoryWorkOf(v)' PROVE HistoryWork'
    BY <2>1 DEF HistoryWork, HistoryWorkOf
  <2> QED  BY <1>2, <2>1
<1>3. CASE ~Loud(u)
  BY <1>0, <1>3, Quiet DEF HistoryWorkOf
<1>4. CASE MakeGfile(u)
  <2>1. UNCHANGED <<sfile, made>> /\ Goto(u, "rename q") /\ proc[u].pc = "gfile"
        /\ "rename q" \in PCs
    BY <1>4 DEF MakeGfile, PCs, ghosts
  <2>2. proc'[u].pc = "rename q"
    BY <2>1, GotoIs
  <2> QED  BY <1>0, <2>1, <2>2 DEF HistoryWorkOf
<1>5. CASE MakeXfile(u)
  <2>1. UNCHANGED <<sfile, pfile, made>> /\ Goto(u, "rename x") /\ proc[u].pc = "xfile"
        /\ "rename x" \in PCs /\ xfile' = Append(proc[u].opened, mkdelt(u))
    BY <1>5 DEF MakeXfile, PCs, ghosts
  <2>2. /\ proc'[u].pc = "rename x" /\ proc'[u].cmd = proc[u].cmd
        /\ proc'[u].line = proc[u].line /\ proc'[u].pid = proc[u].pid
        /\ proc'[u].opened = proc[u].opened
    BY <2>1, GotoIs
  <2>3. proc[u].cmd.op = "delta"
    BY <2>1 DEF Places
  <2>4. mkdelt(u)' = mkdelt(u)
    BY <2>2 DEF mkdelt
  <2>5. proc[u].opened = sfile
    BY <1>1, <2>1, <2>3 DEF HistoryWorkOf
  <2> QED  BY <1>0, <2>1, <2>2, <2>3, <2>4, <2>5 DEF HistoryWorkOf
<1>6. CASE RenameX(u)
  <2>1. proc[u].pc = "rename x" /\ "rename q" \in PCs /\ "unlock" \in PCs
    BY <1>6 DEF RenameX, PCs
  <2>2. Goto(u, "rename q") \/ Goto(u, "unlock")
    BY <1>6 DEF RenameX
  <2>3. proc'[u].pc \in {"rename q", "unlock"}
    BY <2>1, <2>2, GotoIs
  <2>4. CASE proc[u].cmd.op = "delta"
    <3>1. /\ mkdelt(u) \in Delta /\ mkdelt(u).type = "D"
          /\ sfile' = Append(sfile, mkdelt(u)) /\ made' = made \cup {mkdelt(u)}
      BY <1>0, <1>6, <2>4, RenameXIs
    <3>2. Range(sfile') = Range(sfile) \cup {mkdelt(u)}
      BY <1>0, <3>1, AppendHas
    <3> QED  BY <1>0, <2>3, <3>1, <3>2 DEF HistoryWorkOf
  <2>5. CASE proc[u].cmd.op # "delta"
    <3>1. PICK n \in Serials(sfile) :
            sfile[n].sid = proc[u].cmd.r /\ sfile' = [sfile EXCEPT ![n].type = "R"]
      BY <1>0, <1>6, <2>5, RenameXIs
    <3>2. made' = {d \in made : d.sid # proc[u].cmd.r}
      BY <1>0, <1>6, <2>5, RenameXIs
    <3>3. \A d \in Range(sfile) : d.sid # proc[u].cmd.r => d \in Range(sfile')
      BY <1>0, <3>1, MarkHas
    <3> QED  BY <1>0, <2>3, <3>2, <3>3 DEF HistoryWorkOf
  <2> QED  BY <2>4, <2>5
<1>7. CASE RenameQ(u)
  <2>1. UNCHANGED <<sfile, made>> /\ Goto(u, "unlock") /\ proc[u].pc = "rename q"
        /\ "unlock" \in PCs
    BY <1>7 DEF RenameQ, PCs
  <2>2. proc'[u].pc = "unlock"
    BY <2>1, GotoIs
  <2> QED  BY <1>0, <2>1, <2>2 DEF HistoryWorkOf
<1>8. CASE Unlock(u)
  <2>1. UNCHANGED <<sfile, made>> /\ proc[u].pc = "unlock" /\ "unlink g" \in PCs
    BY <1>8 DEF Unlock, PCs
  <2>2. proc'[u].pc \in {"idle", "unlink g"}
    BY <1>8, <2>1, UnlockIs, GotoIs, EndIs
  <2> QED  BY <1>0, <2>1, <2>2 DEF HistoryWorkOf
<1>9. CASE Locked(u) /\ ~fatal(u)
  <2>0. proc[u].pc = "locked" /\ "rename x" \in PCs
    BY <1>9, LockedCases DEF PCs
  <2>1. CASE proc[u].cmd.op = "get" /\ get(u)
    <3>1. proc'[u].pc = "gfile" /\ UNCHANGED <<sfile, ghosts>>
      BY <1>9, <2>0, <2>1, GetIs
    <3> QED  BY <1>0, <3>1 DEF HistoryWorkOf, ghosts
  <2>2. CASE proc[u].cmd.op = "delta" /\ delta(u)
    <3>1. /\ proc'[u].pc = "xfile" /\ proc'[u].opened = proc[u].opened
          /\ UNCHANGED <<sfile, ghosts>>
      BY <1>9, <2>0, <2>2, DeltaIs
    <3>2. proc[u].opened = sfile
      BY <1>1, <2>0, <2>2 DEF HistoryWorkOf
    <3> QED  BY <1>0, <3>1, <3>2 DEF HistoryWorkOf, ghosts
  <2>3. CASE proc[u].cmd.op = "unget" /\ unget(u)
    <3>1. proc'[u].pc = "rename q" /\ UNCHANGED <<sfile, ghosts>>
      BY <1>9, <2>0, <2>3, UngetIs
    <3> QED  BY <1>0, <3>1 DEF HistoryWorkOf, ghosts
  <2>4. CASE proc[u].cmd.op = "rmdel" /\ rmdel(u)
    <3>1. Goto(u, "rename x") /\ UNCHANGED <<sfile, pfile, ghosts>>
          /\ \A l \in pfile : l.gsid # proc[u].cmd.r
      BY <1>9, <2>0, <2>4, RmdelIs
    <3>2. PICK n \in Serials(sfile) :
            sfile[n].sid = proc[u].cmd.r /\ xfile' = [sfile EXCEPT ![n].type = "R"]
      BY <1>9, <2>0, <2>4, RmdelIs
    <3>3. proc'[u].pc = "rename x" /\ proc'[u].cmd = proc[u].cmd
      BY <2>0, <3>1, GotoIs
    <3>4. HistoryWorkOf(u)'
      BY <2>4, <3>1, <3>2, <3>3 DEF HistoryWorkOf
    <3> QED  BY <1>0, <3>1, <3>4 DEF ghosts
  <2> QED  BY <1>9, <2>1, <2>2, <2>3, <2>4, LockedCases
<1> QED
  BY <1>3, <1>4, <1>5, <1>6, <1>7, <1>8, <1>9 DEF Loud

-----------------------------------------------------------------------------
\* The two parts of SidsSound that the s-file is in.
OneEach == \A m, n \in Serials(sfile) : sfile[m].sid = sfile[n].sid => m = n
LinesFit ==
  \A l \in pfile : l.gsid \in Sids(sfile) /\ (l.nsid \in Sids(sfile) => l \in half)

\* What SidWork says of one user.
SidWorkOf(v) ==
  /\ Adding(v) => /\ proc[v].line.gsid \in Sids(sfile)
                  /\ proc[v].line.nsid \notin Sids(sfile)
  /\ proc[v].pc \in {"xfile", "rename x"} /\ proc[v].cmd.op = "delta" =>
       proc[v].line.nsid \notin Sids(sfile)

\* No step makes two SIDs the same, or takes the ground from under an edit.
LEMMA SidStep ==
    ASSUME TypeOK, Places, LockHeld, PlansDiffer, PlansDiffer', EditWork, HistoryWork,
           SidsSound, SidWork, NEW u \in User, NextBy(u)
    PROVE  SidsSound' /\ SidWork'
<1> SUFFICES ASSUME ~broken', ~stale'
             PROVE  OneEach' /\ LinesFit' /\ SidWork'
  BY DEF SidsSound, SidWork, OneEach, LinesFit, PlansDiffer
<1>0. ~broken /\ ~stale /\ OneEach /\ LinesFit /\ sfile \in Seq(Delta)
  BY BrokenStays, StaleStays DEF SidsSound, OneEach, LinesFit, TypeOK
<1>1. \A v \in User : SidWorkOf(v)
  BY <1>0 DEF SidWork, SidWorkOf
<1>2. ASSUME NEW v \in User, v # u PROVE SidWorkOf(v)'
  <2>1. proc'[v] = proc[v]
    BY <1>2, ProcStep
  <2>2. CASE proc[v].pc \in Holding
    <3>1. sfile' = sfile
      BY <1>2, <2>2, Undisturbed
    <3> QED  BY <1>1, <2>1, <3>1 DEF SidWorkOf, Adding
  <2>3. CASE proc[v].pc \notin Holding
    BY <2>1, <2>3 DEF SidWorkOf, Adding, Holding
  <2> QED  BY <2>2, <2>3
<1> SUFFICES OneEach' /\ LinesFit' /\ SidWorkOf(u)'
  <2>1. ASSUME \A v \in User : SidWorkOf(v)' PROVE SidWork'
    BY <2>1 DEF SidWork, SidWorkOf
  <2> QED  BY <1>2, <2>1
<1>a. ASSUME UNCHANGED <<sfile, pfile, half>> PROVE OneEach' /\ LinesFit'
  BY <1>0, <1>a DEF OneEach, LinesFit
<1>b. ASSUME sfile' = sfile PROVE OneEach' /\ Sids(sfile)' = Sids(sfile)
  BY <1>0, <1>b DEF OneEach
<1>3. CASE ~Loud(u)
  <2>1. UNCHANGED <<sfile, pfile, half>>
    BY <1>3, Quiet
  <2>2. SidWorkOf(u)'
    BY <1>3, Quiet DEF SidWorkOf, Adding
  <2> QED  BY <1>a, <2>1, <2>2
<1>4. CASE MakeGfile(u)
  <2>1. UNCHANGED <<sfile, pfile, half>> /\ Goto(u, "rename q") /\ proc[u].pc = "gfile"
        /\ "rename q" \in PCs
    BY <1>4 DEF MakeGfile, PCs, ghosts
  <2>2. proc'[u].pc = "rename q" /\ proc'[u].cmd = proc[u].cmd /\ proc'[u].line = proc[u].line
    BY <2>1, GotoIs
  <2>3. SidWorkOf(u)'
    BY <1>1, <1>b, <2>1, <2>2 DEF SidWorkOf, Adding
  <2> QED  BY <1>a, <2>1, <2>3
<1>5. CASE MakeXfile(u)
  <2>1. UNCHANGED <<sfile, pfile, half>> /\ Goto(u, "rename x") /\ proc[u].pc = "xfile"
        /\ "rename x" \in PCs
    BY <1>5 DEF MakeXfile, PCs, ghosts
  <2>2. proc'[u].pc = "rename x" /\ proc'[u].cmd = proc[u].cmd /\ proc'[u].line = proc[u].line
    BY <2>1, GotoIs
  <2>3. SidWorkOf(u)'
    BY <1>1, <1>b, <2>1, <2>2 DEF SidWorkOf, Adding
  <2> QED  BY <1>a, <2>1, <2>3
<1>6. CASE RenameX(u)
  <2>1. proc[u].pc = "rename x" /\ "rename q" \in PCs /\ "unlock" \in PCs /\ pfile' = pfile
    BY <1>6 DEF RenameX, PCs
  <2>2. CASE proc[u].cmd.op = "delta"
    <3> DEFINE line == proc[u].line
    <3>1. /\ mkdelt(u) \in Delta /\ mkdelt(u).type = "D" /\ mkdelt(u).sid = line.nsid
          /\ sfile' = Append(sfile, mkdelt(u)) /\ half' = half \cup {line}
      BY <1>0, <1>6, <2>2, RenameXIs
    <3>2. proc'[u].pc = "rename q" /\ proc'[u].cmd = proc[u].cmd
      BY <1>6, <2>1, <2>2, GotoIs DEF RenameX
    <3>3. /\ Serials(sfile') = Serials(sfile) \cup {Len(sfile) + 1}
          /\ \A m \in Serials(sfile) : sfile'[m] = sfile[m]
          /\ sfile'[Len(sfile) + 1] = mkdelt(u)
          /\ Sids(sfile') = Sids(sfile) \cup {line.nsid}
      <4> DEFINE more == Append(sfile, mkdelt(u))
      <4>1. sfile \in Seq(Delta) /\ mkdelt(u) \in Delta /\ mkdelt(u).type = "D"
        BY <1>0, <3>1
      <4>2. /\ Serials(more) = Serials(sfile) \cup {Len(sfile) + 1}
            /\ \A m \in Serials(sfile) : more[m] = sfile[m]
            /\ more[Len(sfile) + 1] = mkdelt(u)
            /\ Sids(more) = Sids(sfile) \cup {mkdelt(u).sid}
        BY <4>1, AppendHas
      <4>3. sfile' = more /\ mkdelt(u).sid = line.nsid
        BY <3>1
      <4> HIDE DEF more
      <4> QED  BY <4>2, <4>3
    <3>4. line.nsid \notin Sids(sfile) /\ line \in pfile
      BY <1>0, <1>1, <2>1, <2>2 DEF SidWorkOf, EditWork, Taking
    <3>5. \A m \in Serials(sfile) : sfile[m].sid # line.nsid
      BY <3>4 DEF Sids
    <3>6. OneEach'
      <4> SUFFICES ASSUME NEW m \in Serials(sfile'), NEW n \in Serials(sfile'),
                          sfile'[m].sid = sfile'[n].sid
                   PROVE  m = n
        BY DEF OneEach
      <4>1. m \in Serials(sfile) \/ (m = Len(sfile) + 1 /\ sfile'[m].sid = line.nsid)
        BY <3>1, <3>3
      <4>2. n \in Serials(sfile) \/ (n = Len(sfile) + 1 /\ sfile'[n].sid = line.nsid)
        BY <3>1, <3>3
      <4> QED  BY <1>0, <3>3, <3>5, <4>1, <4>2 DEF OneEach
    <3>7. LinesFit'
      <4> SUFFICES ASSUME NEW l \in pfile
                   PROVE  l.gsid \in Sids(sfile') /\ (l.nsid \in Sids(sfile') => l \in half')
        BY <2>1 DEF LinesFit
      <4>1. l.gsid \in Sids(sfile')
        BY <1>0, <3>3 DEF LinesFit
      <4>2. ASSUME l.nsid \in Sids(sfile') PROVE l \in half'
        <5>1. CASE l.nsid \in Sids(sfile)
          BY <1>0, <3>1, <5>1 DEF LinesFit
        <5>2. CASE l.nsid = line.nsid
          BY <1>0, <3>1, <3>4, <5>2 DEF PlansDiffer
        <5> QED  BY <3>3, <4>2, <5>1, <5>2
      <4> QED  BY <4>1, <4>2
    <3> QED  BY <2>2, <3>2, <3>6, <3>7 DEF SidWorkOf, Adding
  <2>3. CASE proc[u].cmd.op # "delta"
    <3>1. PICK n \in Serials(sfile) :
            sfile[n].sid = proc[u].cmd.r /\ sfile' = [sfile EXCEPT ![n].type = "R"]
      BY <1>0, <1>6, <2>3, RenameXIs
    <3>2. half' = half /\ \A l \in pfile : l.gsid # proc[u].cmd.r
      BY <1>0, <1>6, <2>3, RenameXIs
    <3>3. proc'[u].pc = "unlock"
      BY <1>6, <2>1, <2>3, GotoIs DEF RenameX
    <3>4. /\ Serials(sfile') = Serials(sfile) \ {n}
          /\ \A m \in Serials(sfile') : sfile'[m] = sfile[m]
          /\ Sids(sfile') \subseteq Sids(sfile)
          /\ \A sid \in Sids(sfile) : sid # proc[u].cmd.r => sid \in Sids(sfile')
      <4> DEFINE marked == [sfile EXCEPT ![n].type = "R"]
      <4>1. sfile \in Seq(Delta)
        BY <1>0
      <4>2. /\ Serials(marked) = Serials(sfile) \ {n}
            /\ \A m \in Serials(marked) : marked[m] = sfile[m]
            /\ Sids(marked) \subseteq Sids(sfile)
            /\ \A sid \in Sids(sfile) : sid # sfile[n].sid => sid \in Sids(marked)
        BY <4>1, MarkHas
      <4>3. sfile' = marked /\ sfile[n].sid = proc[u].cmd.r
        BY <3>1
      <4> HIDE DEF marked
      <4> QED  BY <4>2, <4>3
    <3>5. OneEach'
      BY <1>0, <3>4 DEF OneEach
    <3>6. LinesFit'
      BY <1>0, <2>1, <3>2, <3>4 DEF LinesFit
    <3> QED  BY <3>3, <3>5, <3>6 DEF SidWorkOf, Adding
  <2> QED  BY <2>2, <2>3
<1>7. CASE RenameQ(u)
  <2>1. UNCHANGED <<sfile, half>> /\ Goto(u, "unlock") /\ proc[u].pc = "rename q"
        /\ "unlock" \in PCs
    BY <1>7 DEF RenameQ, PCs
  <2>2. proc'[u].pc = "unlock"
    BY <2>1, GotoIs
  <2>3. CASE proc[u].cmd.op = "get"
    <3>1. pfile' = pfile \cup {proc[u].line}
      BY <1>0, <1>7, <2>3, RenameQIs
    <3>2. proc[u].line.gsid \in Sids(sfile) /\ proc[u].line.nsid \notin Sids(sfile)
      BY <1>1, <2>1, <2>3 DEF SidWorkOf, Adding
    <3>3. LinesFit'
      BY <1>0, <1>b, <2>1, <3>1, <3>2 DEF LinesFit
    <3> QED  BY <1>b, <2>1, <2>2, <3>3 DEF SidWorkOf, Adding
  <2>4. CASE proc[u].cmd.op # "get"
    <3>1. pfile' = pfile \ {proc[u].line}
      BY <1>0, <1>7, <2>4, RenameQIs
    <3>2. LinesFit'
      BY <1>0, <1>b, <2>1, <3>1 DEF LinesFit
    <3> QED  BY <1>b, <2>1, <2>2, <3>2 DEF SidWorkOf, Adding
  <2> QED  BY <2>3, <2>4
<1>8. CASE Unlock(u)
  <2>1. UNCHANGED <<sfile, pfile, half>> /\ proc[u].pc = "unlock" /\ "unlink g" \in PCs
    BY <1>8 DEF Unlock, PCs
  <2>2. proc'[u].pc \in {"idle", "unlink g"}
    BY <1>8, <2>1, UnlockIs, GotoIs, EndIs
  <2> QED  BY <1>a, <2>1, <2>2 DEF SidWorkOf, Adding
<1>9. CASE Locked(u) /\ ~fatal(u)
  <2>0. proc[u].pc = "locked" /\ "rename x" \in PCs
    BY <1>9, LockedCases DEF PCs
  <2>1. CASE proc[u].cmd.op = "get" /\ get(u)
    <3>1. PICK line \in Line :
             /\ line.gsid \in Sids(sfile) /\ line.nsid \notin Sids(sfile)
             /\ proc'[u].pc = "gfile" /\ proc'[u].line = line
             /\ UNCHANGED <<sfile, pfile, ghosts>>
      BY <1>9, <2>0, <2>1, GetIs
    <3>2. UNCHANGED <<sfile, pfile, half>>
      BY <3>1 DEF ghosts
    <3>3. SidWorkOf(u)'
      BY <1>b, <3>1 DEF SidWorkOf
    <3> QED  BY <1>a, <3>2, <3>3
  <2>2. CASE proc[u].cmd.op = "delta" /\ delta(u)
    <3>1. PICK line \in pfile :
             /\ line.nsid \notin Sids(proc[u].opened)
             /\ proc'[u].pc = "xfile" /\ proc'[u].line = line
             /\ UNCHANGED <<sfile, pfile, ghosts>>
      BY <1>9, <2>0, <2>2, DeltaIs
    <3>2. UNCHANGED <<sfile, pfile, half>>
      BY <3>1 DEF ghosts
    <3>3. proc[u].opened = sfile
      BY <1>0, <2>0, <2>2 DEF HistoryWork
    <3>4. SidWorkOf(u)'
      BY <1>b, <3>1, <3>3 DEF SidWorkOf, Adding
    <3> QED  BY <1>a, <3>2, <3>4
  <2>3. CASE proc[u].cmd.op = "unget" /\ unget(u)
    <3>1. /\ proc'[u].pc = "rename q" /\ proc'[u].cmd = proc[u].cmd
          /\ UNCHANGED <<sfile, pfile, ghosts>>
      BY <1>9, <2>0, <2>3, UngetIs
    <3>2. UNCHANGED <<sfile, pfile, half>>
      BY <3>1 DEF ghosts
    <3> QED  BY <1>a, <2>3, <3>1, <3>2 DEF SidWorkOf, Adding
  <2>4. CASE proc[u].cmd.op = "rmdel" /\ rmdel(u)
    <3>1. Goto(u, "rename x") /\ UNCHANGED <<sfile, pfile, ghosts>>
      BY <1>9, <2>0, <2>4, RmdelIs
    <3>2. UNCHANGED <<sfile, pfile, half>>
      BY <3>1 DEF ghosts
    <3>3. proc'[u].pc = "rename x" /\ proc'[u].cmd = proc[u].cmd
      BY <2>0, <3>1, GotoIs
    <3> QED  BY <1>a, <2>4, <3>2, <3>3 DEF SidWorkOf, Adding
  <2> QED  BY <1>9, <2>1, <2>2, <2>3, <2>4, LockedCases
<1> QED
  BY <1>3, <1>4, <1>5, <1>6, <1>7, <1>8, <1>9 DEF Loud

-----------------------------------------------------------------------------
\* The invariant holds at the start.
LEMMA InitInv == Init => SccsInv
<1> SUFFICES ASSUME Init PROVE SccsInv
  OBVIOUS
<1> DEFINE d == [sid |-> <<1, 1, 0, 0>>, pred |-> 0, type |-> "D", by |-> <<>>]
<1>1. sfile = <<d>> /\ sfile[1] = d /\ DOMAIN sfile = {1} /\ made = {d}
  BY DEF Init
<1>2. d \in Delta /\ d.type = "D" /\ d.pred = 0 /\ d.sid = <<1, 1, 0, 0>>
  BY MakeSid DEF Delta
<1> HIDE DEF d
<1>3. \A u \in User : proc[u].pc = "idle" /\ proc[u] = Idle
  BY DEF Init, Idle
<1>4. TypeOK
  <2>1. sfile \in Seq(Delta) /\ Older(sfile)
    BY <1>1, <1>2 DEF Older
  <2>2. pfile \subseteq Line /\ IsFiniteSet(pfile)
    BY FS_EmptySet DEF Init
  <2>3. scenario \in Scenario /\ xfile = NoFile /\ qfile = NoFile /\ zfile = NoFile
    BY DEF Init
  <2>4. /\ gfile \in [User -> BOOLEAN] /\ proc \in [User -> Command \cup {Idle}]
        /\ run \in [User -> Nat] /\ cuts \in 0 .. MaxCuts
    BY SccsAssumption DEF Init
  <2> QED  BY <1>3, <2>1, <2>2, <2>3, <2>4 DEF TypeOK
<1>5. Places /\ PidsUsed /\ LockHeld
  BY <1>3 DEF Places, PidsUsed, LockHeld, Holding, Init
<1>6. EditsKept /\ PlansDiffer /\ EditWork
  BY <1>3 DEF EditsKept, PlansDiffer, EditWork, Adding, Taking, Init
<1>7. HistoryKept /\ HistoryWork
  BY <1>1, <1>3 DEF HistoryKept, HistoryWork, Range
<1>8. SidsSound /\ SidWork
  <2>1. Serials(sfile) \subseteq {1}
    BY <1>1 DEF Serials
  <2> QED  BY <1>3, <2>1 DEF SidsSound, SidWork, Adding, Init
<1> QED  BY <1>4, <1>5, <1>6, <1>7, <1>8 DEF SccsInv

\* It holds after every step.
LEMMA NextInv == SccsInv /\ [Next]_vars => SccsInv'
<1> SUFFICES ASSUME SccsInv, [Next]_vars PROVE SccsInv'
  OBVIOUS
<1>0. /\ TypeOK /\ Places /\ PidsUsed /\ LockHeld /\ EditsKept /\ PlansDiffer /\ EditWork
      /\ HistoryKept /\ HistoryWork /\ SidsSound /\ SidWork
  BY DEF SccsInv
<1>1. CASE Next
  <2>1. PICK u \in User : NextBy(u)
    BY <1>1 DEF Next, NextBy
  <2>2. TypeOK' /\ Places' /\ PidsUsed' /\ LockHeld'
    BY <1>0, <2>1, TypeStep, PlacesStep, PidsStep, LockStep
  <2>3. EditsKept' /\ PlansDiffer' /\ EditWork'
    BY <1>0, <2>1, EditStep
  <2>4. HistoryKept' /\ HistoryWork'
    BY <1>0, <2>1, HistoryStep
  <2>5. SidsSound' /\ SidWork'
    BY <1>0, <2>1, <2>3, SidStep
  <2> QED  BY <2>2, <2>3, <2>4, <2>5 DEF SccsInv
<1>2. CASE UNCHANGED vars
  <2>1. /\ UNCHANGED <<scenario, sfile, pfile, qfile, xfile, zfile, gfile, proc, run, cuts>>
        /\ UNCHANGED <<made, edits, half, stale, broken>>
    BY <1>2 DEF vars, files, ghosts
  <2>2. TypeOK' /\ Places' /\ PidsUsed' /\ LockHeld'
    BY <1>0, <2>1 DEF TypeOK, Places, PidsUsed, Used, LockHeld, Alive
  <2>3. EditsKept' /\ PlansDiffer' /\ EditWork'
    BY <1>0, <2>1 DEF EditsKept, PlansDiffer, EditWork, Adding, Taking
  <2>4. HistoryKept' /\ HistoryWork'
    BY <1>0, <2>1 DEF HistoryKept, HistoryWork, mkdelt
  <2>5. SidsSound' /\ SidWork'
    BY <1>0, <2>1 DEF SidsSound, SidWork, Adding
  <2> QED  BY <2>2, <2>3, <2>4, <2>5 DEF SccsInv
<1> QED  BY <1>1, <1>2

\* Every state of get -e, delta, unget and rmdel running together satisfies the
\* inductive invariant, whatever is interrupted or killed and whoever starts what.
THEOREM SccsInvariance == Spec => []SccsInv
BY InitInv, NextInv, PTL DEF Spec

\* The four files and the commands stay well formed (the s-file's predecessors are
\* older, lockit's count of tries stays between 1 and its start).
THEOREM SccsTypeCorrect == Spec => []TypeOK
<1>1. SccsInv => TypeOK
  BY DEF SccsInv
<1> QED  BY <1>1, SccsInvariance, PTL

\* lockit: one command at a time holds the z-file, and it is its own, however many
\* others remove the z-files of the dead, until one of them unlinks a z-file that it
\* did not judge or judged by another's pid.
THEOREM LockIsExclusive == Spec => []OneHolder
<1>1. SccsInv => OneHolder
  BY HeldByOne DEF SccsInv
<1> QED  BY <1>1, SccsInvariance, PTL

\* get -e, delta, unget: an edit that was granted stays in the p-file until its own
\* delta or unget takes it out.
THEOREM EditsAreKept == Spec => []EditsKept
<1>1. SccsInv => EditsKept
  BY DEF SccsInv
<1> QED  BY <1>1, SccsInvariance, PTL

\* delta and rmdel: a delta that was made stays in the s-file until rmdel, unless a
\* delta worked from an s-file it opened before it had the lock.
THEOREM HistoryIsKept == Spec => []HistoryKept
<1>1. SccsInv => HistoryKept
  BY DEF SccsInv
<1> QED  BY <1>1, SccsInvariance, PTL

\* newsid, wrtpfile, rmdel: the SIDs of the deltas are unique, those of the edits
\* are unique and new, and what an edit started from is there.
THEOREM SidsAreSound == Spec => []SidsSound
<1>1. SccsInv => SidsSound
  BY DEF SccsInv
<1> QED  BY <1>1, SccsInvariance, PTL
=============================================================================
