------------------------------ MODULE SacProofs ------------------------------
(***************************************************************************)
(* Proofs about the service access controller, for any contents of _sactab *)
(* one after the other, any commands, any faults and any signals that      *)
(* interrupt handlers.                                                     *)
(***************************************************************************)
EXTENDS Sac, FoldProofs

-----------------------------------------------------------------------------
(***************************************************************************)
(* Sets of numbers, and their order.                                       *)
(***************************************************************************)

\* A finite set of numbers that is not empty has a greatest element.
LEMMA MaxOf ==
    ASSUME NEW S \in SUBSET Nat, IsFiniteSet(S), S # {}
    PROVE  Max(S) \in S /\ \A y \in S : y <= Max(S)
<1> DEFINE Greatest(U, x) == x \in U /\ \A y \in U : x >= y
           Bad == {k \in Nat : \E U \in SUBSET Nat : /\ IsFiniteSet(U) /\ U # {} /\ Cardinality(U) = k
                                                     /\ ~ \E x : Greatest(U, x)}
<1>1. Bad = {}
  <2>1. SUFFICES ASSUME Bad # {} PROVE FALSE
    OBVIOUS
  <2>2. PICK k \in Bad : \A j \in Bad : k <= j
    BY <2>1, LeastNat
  <2>3. PICK U \in SUBSET Nat : /\ IsFiniteSet(U) /\ U # {} /\ Cardinality(U) = k
                                /\ ~ \E x : Greatest(U, x)
    BY <2>2
  <2>4. PICK z \in U : TRUE
    BY <2>3
  <2> DEFINE V == U \ {z}
  <2>5. IsFiniteSet(V) /\ Cardinality(V) = k - 1 /\ V \in SUBSET Nat
    BY <2>3, <2>4, FS_RemoveElement
  <2>6. V # {}
    <3>1. SUFFICES ASSUME V = {} PROVE FALSE
      OBVIOUS
    <3>2. U = {z} /\ z \in Nat
      BY <2>4, <3>1
    <3>3. Greatest(U, z)
      BY <3>2
    <3> QED  BY <2>3, <3>3
  <2>7. k - 1 \in Nat
    BY <2>5, FS_CardinalityType
  <2>8. k \in Nat /\ k - 1 \notin Bad
    BY <2>2, <2>7
  <2> HIDE DEF Greatest
  <2>9. PICK x : Greatest(V, x)
    <3> HIDE DEF V
    <3> QED  BY <2>5, <2>6, <2>7, <2>8
  <2>10. Greatest(U, x) \/ Greatest(U, z)
    <3> SUFFICES ASSUME ~ (x >= z) PROVE Greatest(U, z)
      BY <2>3, <2>4, <2>9 DEF Greatest
    <3> QED  BY <2>3, <2>4, <2>9 DEF Greatest
  <2> QED  BY <2>3, <2>10
<1>2. Cardinality(S) \in Nat
  BY FS_CardinalityType
<1>3. \E x : Greatest(S, x)
  BY <1>1, <1>2
<1>4. Max(S) \in S /\ \A y \in S : Max(S) >= y
  BY <1>3 DEF Max
<1>5. \A y \in S : Max(S) \in Nat /\ y \in Nat
  BY <1>4
<1> QED  BY <1>4, <1>5

\* The set of what f is on a finite set is finite.
LEMMA ImageIs ==
    ASSUME NEW I, IsFiniteSet(I), NEW f, DOMAIN f = I
    PROVE  IsFiniteSet({f[i] : i \in I})
<1> DEFINE g == [i \in I |-> f[i]]
           R == {f[i] : i \in I}
<1>1. g \in Surjection(I, R)
  BY DEF Surjection
<1> QED  BY <1>1, FS_Surjection

\* The contents of the file are finitely many, and there are as many as the
\* commands ask for.
LEMMA TablesAre ==
    ASSUME NEW s \in Scenarios
    PROVE  /\ IsFiniteSet(DOMAIN s.tables)
           /\ \A k \in 0..Len(s.commands) : 1 + Reads(s, k) \in DOMAIN s.tables
           /\ 1 \in DOMAIN s.tables
<1> DEFINE n == Len(s.commands)
           R(k) == {i \in 1..k : s.commands[i].type = "SACREAD"}
<1>1. ScenarioType(s) /\ n \in Nat
  BY ScenarioAssumption DEF ScenarioType
<1>2. ASSUME NEW k \in 0..n PROVE Reads(s, k) \in Nat /\ Reads(s, k) <= Reads(s, n)
  <2>1. IsFiniteSet(1..n) /\ R(k) \in SUBSET R(n) /\ R(n) \in SUBSET (1..n)
    <3>1. \A i \in 1..k : i \in 1..n
      BY <1>1
    <3>2. R(k) \in SUBSET R(n) /\ R(n) \in SUBSET (1..n)
      BY <3>1
    <3>3. n \in Int
      BY <1>1
    <3> HIDE DEF n
    <3>4. IsFiniteSet(1..n)
      BY <3>3, FS_Interval
    <3> QED  BY <3>2, <3>4
  <2>2. IsFiniteSet(R(n))
    BY <2>1, FS_Subset
  <2>3. IsFiniteSet(R(k)) /\ Cardinality(R(k)) <= Cardinality(R(n))
    BY <2>1, <2>2, FS_Subset
  <2> QED  BY <2>3, FS_CardinalityType DEF Reads
<1>3. DOMAIN s.tables = 1..(1 + Reads(s, n))
  BY <1>1 DEF ScenarioType
<1>4. n \in 0..n /\ Reads(s, n) \in Nat
  BY <1>1, <1>2
<1>5. IsFiniteSet(DOMAIN s.tables)
  BY <1>3, <1>4, FS_Interval
<1>6. \A k \in 0..n : 1 + Reads(s, k) \in DOMAIN s.tables
  BY <1>2, <1>3, <1>4
<1>7. 1 \in DOMAIN s.tables
  BY <1>3, <1>4
<1> QED  BY <1>5, <1>6, <1>7

\* The tags of a scenario are finitely many numbers.
LEMMA TagsAre ==
    ASSUME NEW s \in Scenarios
    PROVE  /\ IsFiniteSet(Tags(s)) /\ Tags(s) \in SUBSET Nat
           /\ \A i \in DOMAIN s.tables : DOMAIN s.tables[i] \subseteq Tags(s)
           /\ \A S \in SUBSET Tags(s) : IsFiniteSet(S) /\ S \in SUBSET Nat
<1> DEFINE I == DOMAIN s.tables
           f == [i \in I |-> DOMAIN s.tables[i]]
<1>1. ScenarioType(s)
  BY ScenarioAssumption
<1>2. IsFiniteSet(I)
  BY TablesAre
<1>3. \A i \in I : IsFiniteSet(f[i]) /\ f[i] \subseteq Nat
  BY <1>1 DEF ScenarioType
<1>4. Tags(s) = UNION {f[i] : i \in I}
  BY DEF Tags
<1>5. IsFiniteSet({f[i] : i \in I})
  BY <1>2, ImageIs
<1>6. IsFiniteSet(Tags(s))
  BY <1>3, <1>4, <1>5, FS_UNION
<1>7. Tags(s) \in SUBSET Nat /\ \A i \in I : DOMAIN s.tables[i] \subseteq Tags(s)
  BY <1>3, <1>4
<1> QED  BY <1>6, <1>7, FS_Subset

\* What MostRestarts is: no contents of the file allow more.
LEMMA MostIs ==
    ASSUME scenario \in Scenarios, NEW t \in Tags(scenario)
    PROVE  /\ MostRestarts(t) \in Nat
           /\ \A i \in DOMAIN scenario.tables :
                 t \in DOMAIN scenario.tables[i] => scenario.tables[i][t].rsmax <= MostRestarts(t)
<1> DEFINE I == {k \in DOMAIN scenario.tables : t \in DOMAIN scenario.tables[k]}
           f == [i \in I |-> scenario.tables[i][t].rsmax]
           S == {f[i] : i \in I}
<1>1. ScenarioType(scenario)
  BY ScenarioAssumption
<1>2. IsFiniteSet(DOMAIN scenario.tables)
  BY TablesAre
<1>3. IsFiniteSet(I)
  BY <1>2, FS_Subset
<1>4. \A i \in I : f[i] \in Nat
  BY <1>1 DEF ScenarioType, Line
<1>5. I # {}
  BY DEF Tags
<1>6. IsFiniteSet(S) /\ S \in SUBSET Nat /\ S # {}
  BY <1>3, <1>4, <1>5, ImageIs
<1>7. Max(S) \in S /\ \A y \in S : y <= Max(S)
  BY <1>6, MaxOf
<1>8. MostRestarts(t) = Max(S)
  BY DEF MostRestarts
<1> QED  BY <1>6, <1>7, <1>8

-----------------------------------------------------------------------------
(***************************************************************************)
(* The types of the state.                                                 *)
(***************************************************************************)

Tables == {scenario.tables[i] : i \in DOMAIN scenario.tables}
ProcSts == Alive \cup {"zombie", "none"}
Modes == {"ENABLED", "DISABLED", "STOPPING"}
Procs == [tag : Tags(scenario), st : ProcSts, mode : Modes, child : BOOLEAN]
LastStates == {"ENABLED", "DISABLED", "NOTRUNNING"}
Entries == [sstate : State, pstate : State, lstate : LastStates, ok : BOOLEAN, rscnt : Nat,
            rsmax : Nat, D : BOOLEAN, X : BOOLEAN, pid : Nat, fd : BOOLEAN, leak : BOOLEAN]
Messages == {"SC_ENABLE", "SC_DISABLE", "SC_STATUS", "SC_READDB"}

\* The fields that a task sets, without sc_lstate and with it.
Plain == {<<"sstate">>, <<"pstate">>, <<"pstate", "sstate">>, <<"pstate", "pstate">>,
          <<"sstate", "pstate", "pstate">>}
Lasting == {<<"lstate">>, <<"sstate", "lstate">>, <<"pstate", "lstate">>, <<"lstate", "pstate">>,
            <<"pstate", "lstate", "pstate">>, <<"sstate", "pstate", "lstate", "pstate">>}

\* The tasks about port monitors with tags in T and pids up to n: those that
\* only come next, those that may have to wait for others, and those of
\* AC_SACREAD, behind which nothing waits.
Sets(T) ==
    [do : {"set"}, tag : T, fields : Plain, to : State]
    \cup [do : {"set"}, tag : T, fields : Lasting, to : LastStates]
Nexts(T, n) ==
    [do : {"startpm", "fork", "pollfail", "kill", "check", "count", "terminate"}, tag : T]
    \cup Sets(T)
    \cup [do : {"starting"}, tag : T, pid : 0..n, mask : SUBSET Signals]
Startups == [do : {"startpms", "startall"}, tag : Nat]
Laters(T, n) ==
    [do : {"stopped", "close", "asked", "answered"}, tag : T]
    \cup [do : {"send"}, tag : T, msg : Messages]
    \cup [do : {"started"}, tag : T, pid : 0..n, mask : SUBSET Signals]
    \cup [do : {"restore"}, tag : Nat, mask : SUBSET Signals]
    \cup [do : {"pollpms"}, tag : Nat]
    \cup Startups
Reading ==
    [do : {"read_table", "purge"}, tag : Nat, lines : Tables]
    \cup {x \in [do : {"remove"}, tag : Nat, lines : Tables, mask : SUBSET Signals] :
             x.tag \notin DOMAIN x.lines}
Tasks(T, n) == Nexts(T, n) \cup Laters(T, n) \cup Reading

\* The main program is under way, not a handler.
IsMain(by) == by = "main"

\* What a handler by this signal may have to do.
Chain(q, T, n, by) ==
    /\ q \in Seq(Tasks(T, n))
    /\ \A k \in DOMAIN q : k > 1 => q[k] \in Laters(T, n) \cup Reading
    /\ \A k \in DOMAIN q : q[k] \in Reading => k = Len(q)
    /\ \A k \in DOMAIN q : q[k] \in Startups => IsMain(by)

Frames(T, n) ==
    {f \in [by : Signals \cup {"main"}, todo : Seq(Tasks(T, n)), back : SUBSET Signals] :
        f.todo # <<>> /\ Chain(f.todo, T, n, f.by)}

\* The main program is at the bottom, and under AC_SACREAD are only handlers
\* about port monitors that it does not purge.
StackOK(s, T, n) ==
    /\ s \in Seq(Frames(T, n))
    /\ \A i \in DOMAIN s : IsMain(s[i].by) => i = 1
    /\ \A i \in DOMAIN s :
          LET x == Last(s[i].todo) IN
          x \in Reading => \A j \in 1..(i - 1) : /\ s[j] \in Frames(T \cap DOMAIN x.lines, n)
                                                 /\ Last(s[j].todo) \notin Reading

\* The kinds of tasks have nothing in common.
LEMMA KindsDiffer ==
    ASSUME NEW T, NEW n
    PROVE  /\ Nexts(T, n) \cap Laters(T, n) = {}
           /\ Reading \cap (Nexts(T, n) \cup Laters(T, n)) = {}
           /\ Startups \cap Nexts(T, n) = {}
BY DEF Nexts, Sets, Laters, Startups, Reading

\* Fewer tags, fewer tasks.
LEMMA TasksGrow ==
    ASSUME NEW T, NEW U, T \subseteq U, NEW n \in Nat, NEW m \in Nat, n <= m
    PROVE  /\ Nexts(T, n) \subseteq Nexts(U, m) /\ Laters(T, n) \subseteq Laters(U, m)
           /\ Tasks(T, n) \subseteq Tasks(U, m) /\ Frames(T, n) \subseteq Frames(U, m)
<1>1. 0..n \subseteq 0..m
  OBVIOUS
<1>2. Sets(T) \subseteq Sets(U)
  BY DEF Sets
<1>3. Nexts(T, n) \subseteq Nexts(U, m)
  BY <1>1, <1>2 DEF Nexts
<1>4. Laters(T, n) \subseteq Laters(U, m)
  BY <1>1 DEF Laters
<1>5. Tasks(T, n) \subseteq Tasks(U, m)
  BY <1>3, <1>4 DEF Tasks
<1>6. ASSUME NEW f \in Frames(T, n) PROVE f \in Frames(U, m)
  <2>1. f.todo \in Seq(Tasks(U, m))
    BY <1>5 DEF Frames
  <2>2. Chain(f.todo, U, m, f.by)
    BY <1>4, <2>1 DEF Frames, Chain
  <2> QED  BY <2>1, <2>2 DEF Frames
<1> QED  BY <1>3, <1>4, <1>5, <1>6

\* What is left when the next task is done.
LEMMA ChainTail ==
    ASSUME NEW T, NEW n, NEW by, NEW q, Chain(q, T, n, by), q # <<>>
    PROVE  /\ q[1] \in Tasks(T, n) /\ Head(q) = q[1] /\ (q[1] \in Startups => IsMain(by))
           /\ Tail(q) \in Seq(Tasks(T, n)) /\ Chain(Tail(q), T, n, by)
           /\ \A k \in DOMAIN Tail(q) : Tail(q)[k] \in Laters(T, n) \cup Reading
           /\ q[1] \in Reading => Tail(q) = <<>>
           /\ Tail(q) # <<>> => Last(Tail(q)) = Last(q)
           /\ Tail(q) = <<>> => Last(q) = q[1]
           /\ Last(q) \in Tasks(T, n)
<1>1. q \in Seq(Tasks(T, n)) /\ Len(q) \in Nat /\ Len(q) > 0
  BY DEF Chain
<1>2. /\ Tail(q) \in Seq(Tasks(T, n)) /\ Len(Tail(q)) = Len(q) - 1
      /\ \A k \in 1..(Len(q) - 1) : Tail(q)[k] = q[k + 1] /\ k + 1 \in 1..Len(q)
      /\ DOMAIN Tail(q) = 1..(Len(q) - 1) /\ DOMAIN q = 1..Len(q)
  BY <1>1
<1>3. q[1] \in Tasks(T, n) /\ Head(q) = q[1] /\ (q[1] \in Startups => IsMain(by))
  BY <1>1, <1>2 DEF Chain
<1>4. \A k \in DOMAIN Tail(q) : Tail(q)[k] \in Laters(T, n) \cup Reading
  BY <1>1, <1>2 DEF Chain
<1>5. \A k \in DOMAIN Tail(q) : Tail(q)[k] \in Reading => k = Len(Tail(q))
  BY <1>1, <1>2 DEF Chain
<1>6. \A k \in DOMAIN Tail(q) : Tail(q)[k] \in Startups => IsMain(by)
  BY <1>1, <1>2 DEF Chain
<1>7. q[1] \in Reading => Tail(q) = <<>>
  BY <1>1, <1>2 DEF Chain
<1>8. Tail(q) # <<>> => Last(Tail(q)) = Last(q)
  BY <1>1, <1>2 DEF Last
<1>9. Tail(q) = <<>> => Last(q) = q[1]
  <2>1. Tail(q) = <<>> => Len(q) = 1
    BY <1>1, <1>2
  <2> QED  BY <2>1 DEF Last
<1>10. Last(q) \in Tasks(T, n)
  BY <1>1 DEF Last
<1>11. Chain(Tail(q), T, n, by)
  BY <1>2, <1>4, <1>5, <1>6 DEF Chain
<1> QED  BY <1>2, <1>3, <1>4, <1>7, <1>8, <1>9, <1>10, <1>11

\* Nothing is left behind AC_SACREAD.
LEMMA NothingBehind ==
    ASSUME NEW T, NEW n, NEW by, NEW q, Chain(q, T, n, by), q # <<>>
    PROVE  q[1] \in Reading => Tail(q) = <<>>
BY ChainTail

\* The last task stays the last.
LEMMA TailLast ==
    ASSUME NEW T, NEW n, NEW by, NEW q, Chain(q, T, n, by), q # <<>>
    PROVE  /\ Tail(q) # <<>> => Last(Tail(q)) = Last(q)
           /\ Tail(q) = <<>> => Last(q) = q[1]
BY ChainTail

\* Tasks that come before others.
LEMMA ChainCat ==
    ASSUME NEW T, NEW n, NEW by, NEW p, Chain(p, T, n, by), NEW q, Chain(q, T, n, by),
           \A k \in DOMAIN q : q[k] \in Laters(T, n) \cup Reading,
           q # <<>> => \A k \in DOMAIN p : p[k] \notin Reading
    PROVE  /\ Chain(p \o q, T, n, by)
           /\ p # <<>> => (p \o q) # <<>> /\ (p \o q)[1] = p[1]
           /\ p = <<>> => p \o q = q
           /\ q # <<>> => Last(p \o q) = Last(q)
           /\ q = <<>> => p \o q = p
<1> DEFINE r == p \o q
<1>1. p \in Seq(Tasks(T, n)) /\ q \in Seq(Tasks(T, n)) /\ Len(p) \in Nat /\ Len(q) \in Nat
  BY DEF Chain
<1>2. /\ r \in Seq(Tasks(T, n)) /\ Len(r) = Len(p) + Len(q)
      /\ \A k \in 1..Len(p) : r[k] = p[k]
      /\ \A k \in (Len(p) + 1)..(Len(p) + Len(q)) : r[k] = q[k - Len(p)] /\ k - Len(p) \in 1..Len(q)
      /\ DOMAIN r = 1..(Len(p) + Len(q)) /\ DOMAIN p = 1..Len(p) /\ DOMAIN q = 1..Len(q)
  BY <1>1
<1> HIDE DEF r
<1>3. \A k \in DOMAIN r : \/ k \in 1..Len(p) /\ r[k] = p[k]
                          \/ k - Len(p) \in 1..Len(q) /\ r[k] = q[k - Len(p)]
  BY <1>1, <1>2
<1>4. \A k \in DOMAIN r : k > 1 => r[k] \in Laters(T, n) \cup Reading
  BY <1>1, <1>2, <1>3 DEF Chain
<1>5. \A k \in DOMAIN r : r[k] \in Startups => IsMain(by)
  BY <1>1, <1>2, <1>3 DEF Chain
<1>6. \A k \in DOMAIN r : r[k] \in Reading => k = Len(r)
  <2> SUFFICES ASSUME NEW k \in DOMAIN r, r[k] \in Reading PROVE k = Len(r)
    OBVIOUS
  <2>1. CASE k \in 1..Len(p) /\ r[k] = p[k]
    <3>1. q = <<>> /\ k = Len(p)
      BY <1>1, <1>2, <2>1 DEF Chain
    <3> QED  BY <1>1, <1>2, <3>1
  <2>2. CASE k - Len(p) \in 1..Len(q) /\ r[k] = q[k - Len(p)]
    <3>1. k - Len(p) = Len(q) /\ k \in Int
      BY <1>1, <1>2, <2>2 DEF Chain
    <3> QED  BY <1>1, <1>2, <3>1
  <2> QED  BY <1>3, <2>1, <2>2
<1>7. Chain(r, T, n, by)
  BY <1>2, <1>4, <1>5, <1>6 DEF Chain
<1>8. p # <<>> => r # <<>> /\ r[1] = p[1]
  BY <1>1, <1>2
<1>9. p = <<>> => r = q
  BY <1>1 DEF r
<1>10. q = <<>> => r = p
  BY <1>1 DEF r
<1>11. q # <<>> => Last(r) = Last(q)
  BY <1>1, <1>2 DEF Last
<1> QED  BY <1>7, <1>8, <1>9, <1>10, <1>11 DEF r

\* One task by itself.
LEMMA ChainOfOne ==
    ASSUME NEW T, NEW n, NEW by, NEW x \in Tasks(T, n), x \in Startups => IsMain(by)
    PROVE  Chain(<<x>>, T, n, by) /\ Last(<<x>>) = x /\ (\A k \in DOMAIN <<x>> : <<x>>[k] = x)
BY DEF Chain, Last

\* Few tasks.
LEMMA ChainOf ==
    ASSUME NEW T, NEW n, NEW by
    PROVE  /\ Chain(<<>>, T, n, by)
           /\ \A x \in Tasks(T, n) : (x \in Startups => IsMain(by)) =>
                 Chain(<<x>>, T, n, by) /\ Last(<<x>>) = x /\ (\A k \in DOMAIN <<x>> : <<x>>[k] = x)
           /\ \A x \in Nexts(T, n) \cup Laters(T, n), y \in Laters(T, n) \cup Reading :
                 (x \in Startups \/ y \in Startups => IsMain(by)) =>
                 Chain(<<x, y>>, T, n, by) /\ Last(<<x, y>>) = y
                 /\ (\A k \in DOMAIN <<x, y>> : <<x, y>>[k] \in {x, y})
<1>1. Chain(<<>>, T, n, by)
  BY DEF Chain
<1>2. ASSUME NEW x \in Tasks(T, n), x \in Startups => IsMain(by)
      PROVE  Chain(<<x>>, T, n, by) /\ Last(<<x>>) = x /\ (\A k \in DOMAIN <<x>> : <<x>>[k] = x)
  BY <1>2, ChainOfOne
<1>3. ASSUME NEW x \in Nexts(T, n) \cup Laters(T, n), NEW y \in Laters(T, n) \cup Reading,
             x \in Startups \/ y \in Startups => IsMain(by)
      PROVE  Chain(<<x, y>>, T, n, by) /\ Last(<<x, y>>) = y
             /\ (\A k \in DOMAIN <<x, y>> : <<x, y>>[k] \in {x, y})
  <2>1. x \in Tasks(T, n) /\ y \in Tasks(T, n) /\ x \notin Reading
    BY KindsDiffer DEF Tasks
  <2>2. Len(<<x, y>>) = 2 /\ DOMAIN <<x, y>> = {1, 2} /\ <<x, y>>[1] = x /\ <<x, y>>[2] = y
        /\ <<x, y>> \in Seq(Tasks(T, n))
    BY <2>1
  <2>3. Last(<<x, y>>) = y
    BY <2>2 DEF Last
  <2> HIDE DEF Chain
  <2>4. Chain(<<x, y>>, T, n, by)
    BY <1>3, <2>1, <2>2 DEF Chain
  <2> QED  BY <2>2, <2>3, <2>4
<1> QED  BY <1>1, <1>2, <1>3

-----------------------------------------------------------------------------
(***************************************************************************)
(* The stack, and how many handlers on it come to some tasks next.         *)
(***************************************************************************)

LEMMA StackGrows ==
    ASSUME NEW T, NEW U, T \subseteq U, NEW n \in Nat, NEW m \in Nat, n <= m, NEW s, StackOK(s, T, n)
    PROVE  StackOK(s, U, m)
<1>1. s \in Seq(Frames(U, m))
  <2>1. Frames(T, n) \subseteq Frames(U, m) /\ s \in Seq(Frames(T, n))
    BY TasksGrow DEF StackOK
  <2> QED  BY <2>1
<1>2. \A l : Frames(T \cap l, n) \subseteq Frames(U \cap l, m)
  BY TasksGrow
<1> QED  BY <1>1, <1>2 DEF StackOK

\* A handler comes on top.
LEMMA StackPush ==
    ASSUME NEW T, NEW n \in Nat, NEW s, StackOK(s, T, n), NEW f \in Frames(T, n),
           IsMain(f.by) => s = <<>>,
           Last(f.todo) \in Reading =>
               \A i \in DOMAIN s : /\ s[i] \in Frames(T \cap DOMAIN Last(f.todo).lines, n)
                                   /\ Last(s[i].todo) \notin Reading
    PROVE  /\ StackOK(Append(s, f), T, n)
           /\ Append(s, f) # <<>> /\ Len(Append(s, f)) = Len(s) + 1
           /\ Append(s, f)[Len(s) + 1] = f /\ Front(Append(s, f)) = s
<1> DEFINE r == Append(s, f)
<1>1. s \in Seq(Frames(T, n)) /\ Len(s) \in Nat
  BY DEF StackOK
<1>2. /\ r \in Seq(Frames(T, n)) /\ Len(r) = Len(s) + 1 /\ r[Len(s) + 1] = f
      /\ \A i \in 1..Len(s) : r[i] = s[i]
      /\ DOMAIN r = 1..(Len(s) + 1) /\ DOMAIN s = 1..Len(s)
  BY <1>1
<1> HIDE DEF r
<1>3. \A i \in DOMAIN r : \/ i \in DOMAIN s /\ r[i] = s[i]
                          \/ i = Len(s) + 1 /\ r[i] = f
  BY <1>1, <1>2
<1>4. \A i \in DOMAIN r : IsMain(r[i].by) => i = 1
  <2>1. s = <<>> => Len(s) = 0
    OBVIOUS
  <2> QED  BY <1>1, <1>3, <2>1 DEF StackOK
<1>5. ASSUME NEW i \in DOMAIN r, Last(r[i].todo) \in Reading, NEW j \in 1..(i - 1)
      PROVE  /\ r[j] \in Frames(T \cap DOMAIN Last(r[i].todo).lines, n)
             /\ Last(r[j].todo) \notin Reading
  <2>1. j \in DOMAIN s /\ r[j] = s[j]
    BY <1>1, <1>2
  <2>2. CASE i \in DOMAIN s /\ r[i] = s[i]
    BY <1>5, <2>1, <2>2 DEF StackOK
  <2>3. CASE i = Len(s) + 1 /\ r[i] = f
    BY <1>5, <2>1, <2>3
  <2> QED  BY <1>3, <2>2, <2>3
<1>6. StackOK(r, T, n)
  BY <1>2, <1>4, <1>5 DEF StackOK
<1>7. r # <<>>
  BY <1>1, <1>2
<1>8. Front(r) = s
  BY <1>1, <1>2 DEF Front
<1> QED  BY <1>2, <1>6, <1>7, <1>8 DEF r

\* The top of the stack, and what is under it.
LEMMA StackPop ==
    ASSUME NEW T, NEW n \in Nat, NEW s, StackOK(s, T, n), s # <<>>
    PROVE  /\ StackOK(Front(s), T, n)
           /\ Len(s) \in Nat \ {0} /\ Len(Front(s)) = Len(s) - 1
           /\ s[Len(s)] \in Frames(T, n) /\ s = Append(Front(s), s[Len(s)])
           /\ \A i \in 1..(Len(s) - 1) : Front(s)[i] = s[i]
           /\ IsMain(s[Len(s)].by) => Front(s) = <<>>
           /\ Last(s[Len(s)].todo) \in Reading =>
                 \A i \in DOMAIN Front(s) :
                    /\ Front(s)[i] \in Frames(T \cap DOMAIN Last(s[Len(s)].todo).lines, n)
                    /\ Last(Front(s)[i].todo) \notin Reading
<1> DEFINE r == Front(s)
           m == Len(s)
           f == s[m]
<1>1. s \in Seq(Frames(T, n)) /\ m \in Nat /\ m # 0 /\ DOMAIN s = 1..m
  BY DEF StackOK
<1>2. /\ r \in Seq(Frames(T, n)) /\ Len(r) = m - 1 /\ DOMAIN r = 1..(m - 1)
      /\ \A i \in 1..(m - 1) : r[i] = s[i]
  BY <1>1 DEF Front
<1> HIDE DEF r, m
<1>3. m \in DOMAIN s /\ f \in Frames(T, n) /\ \A i \in 1..m : i = m \/ i \in 1..(m - 1)
  BY <1>1
<1> HIDE DEF f
<1>4. s = Append(r, f)
  <2> DEFINE q == Append(r, f)
  <2>1. Len(q) = m /\ q[m] = f /\ q \in Seq(Frames(T, n)) /\ \A i \in 1..(m - 1) : q[i] = r[i]
    BY <1>1, <1>2, <1>3
  <2> HIDE DEF q
  <2>2. \A i \in 1..m : q[i] = s[i]
    BY <1>2, <1>3, <2>1 DEF f
  <2>3. q = s
    BY <1>1, <2>1, <2>2 DEF m
  <2> QED  BY <2>3 DEF q
<1>5. StackOK(r, T, n)
  <2>1. \A i \in 1..(m - 1) : i \in DOMAIN s
    BY <1>1
  <2>2. \A i \in DOMAIN r : IsMain(r[i].by) => i = 1
    BY <1>2, <2>1 DEF StackOK
  <2>3. ASSUME NEW i \in DOMAIN r, Last(r[i].todo) \in Reading, NEW j \in 1..(i - 1)
        PROVE  /\ r[j] \in Frames(T \cap DOMAIN Last(r[i].todo).lines, n)
               /\ Last(r[j].todo) \notin Reading
    <3>1. r[i] = s[i] /\ i \in DOMAIN s /\ r[j] = s[j]
      BY <1>1, <1>2
    <3> QED  BY <2>3, <3>1 DEF StackOK
  <2> QED  BY <1>2, <2>2, <2>3 DEF StackOK
<1>6. IsMain(f.by) => r = <<>>
  <2>1. IsMain(f.by) => m = 1
    BY <1>3 DEF StackOK, f
  <2> QED  BY <1>2, <2>1
<1>7. Last(f.todo) \in Reading =>
         \A i \in DOMAIN r : /\ r[i] \in Frames(T \cap DOMAIN Last(f.todo).lines, n)
                             /\ Last(r[i].todo) \notin Reading
  <2>1. Last(f.todo) \in Reading =>
           \A i \in 1..(m - 1) : /\ s[i] \in Frames(T \cap DOMAIN Last(f.todo).lines, n)
                                 /\ Last(s[i].todo) \notin Reading
    BY <1>3 DEF StackOK, f
  <2> QED  BY <1>2, <2>1
<1> QED  BY <1>1, <1>2, <1>3, <1>4, <1>5, <1>6, <1>7 DEF r, m, f

\* The handlers on s that come next to a task about t that is one of does.
Coming(s, t, does) == {i \in DOMAIN s : Head(s[i].todo).tag = t /\ Head(s[i].todo).do \in does}
Count(s, t, does) == Cardinality(Coming(s, t, does))
Comes(f, t, does) == IF Head(f.todo).tag = t /\ Head(f.todo).do \in does THEN 1 ELSE 0

LEMMA CountIs ==
    ASSUME NEW S, NEW s \in Seq(S), NEW t, NEW does
    PROVE  Count(s, t, does) \in Nat /\ (s = <<>> => Count(s, t, does) = 0)
<1>1. DOMAIN s = 1..Len(s) /\ Len(s) \in Nat
  OBVIOUS
<1>2. Coming(s, t, does) \in SUBSET (1..Len(s))
  BY <1>1 DEF Coming
<1>3. Cardinality(Coming(s, t, does)) \in Nat
  BY <1>1, <1>2, PositionsAre
<1>4. s = <<>> => Coming(s, t, does) = {}
  BY <1>2
<1> QED  BY <1>3, <1>4, FS_EmptySet DEF Count

LEMMA CountPush ==
    ASSUME NEW S, NEW s \in Seq(S), NEW f \in S, NEW t, NEW does
    PROVE  Count(Append(s, f), t, does) = Count(s, t, does) + Comes(f, t, does)
<1> DEFINE r == Append(s, f)
           C == Coming(s, t, does)
           D == Coming(r, t, does)
           m == Len(s) + 1
<1>1. /\ Len(s) \in Nat /\ DOMAIN s = 1..Len(s) /\ DOMAIN r = 1..m /\ r[m] = f
      /\ \A i \in 1..Len(s) : r[i] = s[i]
  OBVIOUS
<1> HIDE DEF r
<1>2. C \in SUBSET (1..Len(s)) /\ m \notin C /\ IsFiniteSet(C) /\ Cardinality(C) \in Nat
  <2>1. C \in SUBSET (1..Len(s))
    BY <1>1 DEF Coming
  <2>2. m \notin C
    BY <1>1, <2>1
  <2> QED  BY <1>1, <2>1, <2>2, PositionsAre
<1>3. \A i : i \in D <=> \/ i \in C
                         \/ i = m /\ Head(f.todo).tag = t /\ Head(f.todo).do \in does
  BY <1>1 DEF Coming
<1>4. CASE Head(f.todo).tag = t /\ Head(f.todo).do \in does
  <2>1. D = C \cup {m}
    BY <1>3, <1>4
  <2>2. Cardinality(D) = Cardinality(C) + 1
    BY <1>2, <2>1, FS_AddElement
  <2> QED  BY <1>4, <2>2 DEF Count, Comes, r
<1>5. CASE ~ (Head(f.todo).tag = t /\ Head(f.todo).do \in does)
  <2>1. D = C
    BY <1>3, <1>5
  <2> QED  BY <1>2, <1>5, <2>1 DEF Count, Comes, r
<1> QED  BY <1>4, <1>5

\* The tasks by which a port monitor is started again, and those that count it.
Starting == {"count", "startpm", "fork"}
Counting == {"count"}

LEMMA CountLess ==
    ASSUME NEW S, NEW s \in Seq(S), NEW t
    PROVE  Count(s, t, Counting) <= Count(s, t, Starting)
<1>1. Coming(s, t, Counting) \subseteq Coming(s, t, Starting)
  BY DEF Coming, Counting, Starting
<1>2. Coming(s, t, Starting) \in SUBSET (1..Len(s)) /\ Len(s) \in Nat
  BY DEF Coming
<1>3. IsFiniteSet(Coming(s, t, Starting))
  BY <1>2, PositionsAre
<1> QED  BY <1>1, <1>3, FS_Subset DEF Count

-----------------------------------------------------------------------------
(***************************************************************************)
(* The invariant.                                                          *)
(***************************************************************************)

TabOK(T, n) ==
    /\ DOMAIN T \subseteq Tags(scenario)
    /\ T \in [DOMAIN T -> Entries]
    /\ \A t \in DOMAIN T : T[t].rsmax <= MostRestarts(t) /\ T[t].pid <= n

\* Of the starts that two handlers decided on at once some are restarts beyond
\* the limit, the others were not counted.  A handler about to count a restart
\* has found that there is one left, and one about to start has counted it.
Limited(most, extra, counted, toCount, done, toDo) ==
    \E x, y \in Nat :
        /\ x + y = extra
        /\ counted + toCount <= most + x
        /\ done + toDo <= 1 + counted + toCount + y

Within(t) ==
    Limited(MostRestarts(t), doubled[t], tab[t].rscnt, Count(stack, t, Counting),
            starts[t], Count(stack, t, Starting))

SacInv ==
    /\ scenario \in Scenarios
    /\ given \in 0..Len(scenario.commands) /\ faults \in 0..scenario.most
    /\ file \in Tables
    /\ procs \in Seq(Procs)
    /\ mask \subseteq Signals
    /\ starts \in [Tags(scenario) -> Nat] /\ doubled \in [Tags(scenario) -> Nat]
    /\ told \in [Tags(scenario) -> State]
    /\ TabOK(tab, Len(procs))
    /\ StackOK(stack, DOMAIN tab, Len(procs))
    /\ \A t \in DOMAIN tab : Within(t)

-----------------------------------------------------------------------------
(***************************************************************************)
(* What the handler on top does to the stack.                              *)
(***************************************************************************)

\* 1 if x is a task about t that is one of does.
Is(x, t, does) == IF x.tag = t /\ x.do \in does THEN 1 ELSE 0

\* 1 if the first of the tasks is.
Ahead(more, t, does) == IF more = <<>> THEN 0 ELSE Is(more[1], t, does)

\* The handlers s, and new, where another one does more first.
Recount(s, new, more) ==
    \A t, does :
       does \subseteq Starting =>
          Count(new, t, does) = Count(s, t, does) + Ahead(more, t, does)

\* The task on top.
LEMMA TopIs ==
    ASSUME SacInv, stack # <<>>
    PROVE  /\ Top \in Frames(DOMAIN tab, Len(procs)) /\ Chain(Top.todo, DOMAIN tab, Len(procs), Top.by)
           /\ Top.todo # <<>> /\ task = Top.todo[1] /\ task \in Tasks(DOMAIN tab, Len(procs))
           /\ Top.by \in Signals \cup {"main"} /\ Top.back \subseteq Signals
           /\ (task \in Startups => IsMain(Top.by))
           /\ (task \in Reading => Last(Top.todo) = task)
           /\ \A t, does : Count(stack, t, does)
                           = Count(Front(stack), t, does) + Is(task, t, does)
<1> DEFINE T == DOMAIN tab
           n == Len(procs)
<1>1. n \in Nat /\ StackOK(stack, T, n)
  BY DEF SacInv
<1> HIDE DEF T, n
<1>2. /\ StackOK(Front(stack), T, n) /\ Top \in Frames(T, n) /\ stack = Append(Front(stack), Top)
  BY <1>1, StackPop DEF Top
<1>3. Chain(Top.todo, T, n, Top.by) /\ Top.todo # <<>> /\ Top.by \in Signals \cup {"main"}
      /\ Top.back \subseteq Signals
  BY <1>2 DEF Frames
<1>4. /\ Top.todo[1] \in Tasks(T, n) /\ Head(Top.todo) = Top.todo[1]
      /\ (Top.todo[1] \in Startups => IsMain(Top.by))
      /\ (Top.todo[1] \in Reading => Tail(Top.todo) = <<>>)
      /\ (Tail(Top.todo) = <<>> => Last(Top.todo) = Top.todo[1])
  <2> DEFINE q == Top.todo
             by == Top.by
  <2>1. Chain(q, T, n, by) /\ q # <<>>
    BY <1>3
  <2> HIDE DEF q, by
  <2>2. /\ q[1] \in Tasks(T, n) /\ Head(q) = q[1] /\ (q[1] \in Startups => IsMain(by))
        /\ (q[1] \in Reading => Tail(q) = <<>>)
        /\ (Tail(q) = <<>> => Last(q) = q[1])
    BY <2>1, ChainTail
  <2> QED  BY <2>2 DEF q, by
<1>5. task = Top.todo[1]
  BY <1>4 DEF task
<1>6. ASSUME NEW t, NEW does
      PROVE  Count(stack, t, does) = Count(Front(stack), t, does) + Is(task, t, does)
  <2>1. Front(stack) \in Seq(Frames(T, n))
    BY <1>2 DEF StackOK
  <2>2. Count(stack, t, does) = Count(Front(stack), t, does) + Comes(Top, t, does)
    <3> DEFINE low == Front(stack)
               f == Top
    <3>1. low \in Seq(Frames(T, n)) /\ f \in Frames(T, n) /\ stack = Append(low, f)
      BY <1>2, <2>1
    <3> HIDE DEF low, f
    <3>2. Count(Append(low, f), t, does) = Count(low, t, does) + Comes(f, t, does)
      BY <3>1, CountPush
    <3> QED  BY <3>1, <3>2 DEF low, f
  <2>3. Comes(Top, t, does) = Is(task, t, does)
    BY DEF Comes, Is, task
  <2> QED  BY <2>2, <2>3
<1> QED  BY <1>2, <1>3, <1>4, <1>5, <1>6 DEF T, n

\* The top does more and then what it has left.
LEMMA TopBecomes ==
    ASSUME SacInv, stack # <<>>, NEW U, NEW n \in Nat, StackOK(Front(stack), U, n),
           Chain(Tail(Top.todo), U, n, Top.by),
           \A k \in DOMAIN Tail(Top.todo) : Tail(Top.todo)[k] \in Laters(U, n) \cup Reading,
           Last(Top.todo) \in Reading =>
               \A i \in DOMAIN Front(stack) :
                   /\ Front(stack)[i] \in Frames(U \cap DOMAIN Last(Top.todo).lines, n)
                   /\ Last(Front(stack)[i].todo) \notin Reading,
           NEW more, Chain(more, U, n, Top.by),
           \A k \in DOMAIN more : more[k] \in Reading => task \in Reading /\ more[k].lines = task.lines,
           NEW m \in SUBSET Signals, GoesOn(more, m)
    PROVE  /\ StackOK(stack', U, n) /\ mask' \subseteq Signals
           /\ Recount(Front(stack), stack', more)
<1> DEFINE low == Front(stack)
           rest == Tail(Top.todo)
           todo == more \o rest
<1>1. /\ Chain(Top.todo, DOMAIN tab, Len(procs), Top.by) /\ Top.todo # <<>> /\ task = Top.todo[1]
      /\ Top \in Frames(DOMAIN tab, Len(procs))
      /\ Top.by \in Signals \cup {"main"} /\ Top.back \subseteq Signals
  BY TopIs
<1>2. /\ (task \in Reading => rest = <<>>) /\ (rest # <<>> => Last(rest) = Last(Top.todo))
      /\ (rest = <<>> => Last(Top.todo) = task)
  <2> DEFINE q == Top.todo
             by == Top.by
             T == DOMAIN tab
             j == Len(procs)
  <2>1. Chain(q, T, j, by) /\ q # <<>>
    BY <1>1
  <2> HIDE DEF q, by, T, j
  <2>2. q[1] \in Reading => Tail(q) = <<>>
    BY <2>1, NothingBehind
  <2>3. Tail(q) # <<>> => Last(Tail(q)) = Last(q)
    BY <2>1, TailLast
  <2>4. Tail(q) = <<>> => Last(q) = q[1]
    BY <2>1, TailLast
  <2> QED  BY <1>1, <2>2, <2>3, <2>4 DEF q
<1>3. Len(stack) \in Nat \ {0} /\ stack = Append(low, Top) /\ (IsMain(Top.by) => low = <<>>)
      /\ low \in Seq(Frames(DOMAIN tab, Len(procs))) /\ Len(low) = Len(stack) - 1
  <2> DEFINE T == DOMAIN tab
             j == Len(procs)
  <2>1. StackOK(stack, T, j) /\ j \in Nat
    BY DEF SacInv
  <2> HIDE DEF T, j
  <2>2. /\ StackOK(Front(stack), T, j)
        /\ Len(stack) \in Nat \ {0} /\ Len(Front(stack)) = Len(stack) - 1
        /\ stack = Append(Front(stack), stack[Len(stack)])
        /\ (IsMain(stack[Len(stack)].by) => Front(stack) = <<>>)
    BY <2>1, StackPop
  <2>3. Front(stack) \in Seq(Frames(T, j))
    BY <2>2 DEF StackOK
  <2> QED  BY <2>2, <2>3 DEF Top, T, j
<1>4. rest # <<>> => \A k \in DOMAIN more : more[k] \notin Reading
  BY <1>2
<1> HIDE DEF rest, low
<1>5. /\ Chain(todo, U, n, Top.by)
      /\ (more # <<>> => todo # <<>> /\ todo[1] = more[1])
      /\ (more = <<>> => todo = rest)
      /\ (rest # <<>> => Last(todo) = Last(rest))
      /\ (rest = <<>> => todo = more)
  <2> DEFINE by == Top.by
  <2>1. Chain(more, U, n, by) /\ Chain(rest, U, n, by)
        /\ \A k \in DOMAIN rest : rest[k] \in Laters(U, n) \cup Reading
    BY DEF rest
  <2> HIDE DEF by
  <2>2. Chain(more \o rest, U, n, by)
    BY <1>4, <2>1, ChainCat
  <2>3. more # <<>> => (more \o rest) # <<>> /\ (more \o rest)[1] = more[1]
    BY <1>4, <2>1, ChainCat
  <2>4. more = <<>> => more \o rest = rest
    BY <1>4, <2>1, ChainCat
  <2>5. rest # <<>> => Last(more \o rest) = Last(rest)
    BY <1>4, <2>1, ChainCat
  <2>6. rest = <<>> => more \o rest = more
    BY <1>4, <2>1, ChainCat
  <2> QED  BY <2>2, <2>3, <2>4, <2>5, <2>6 DEF by
<1> HIDE DEF todo
<1>6. low \in Seq(Frames(U, n)) /\ \A t, does : Count(low, t, does) \in Nat
  <2>1. low \in Seq(Frames(U, n))
    BY DEF StackOK, low
  <2> QED  BY <2>1, CountIs
<1>7. CASE todo = <<>>
  <2>1. stack' = low /\ mask' \subseteq Signals
    BY <1>1, <1>7 DEF GoesOn, low, todo, rest
  <2>2. more = <<>>
    BY <1>5, <1>7
  <2> QED  BY <1>6, <2>1, <2>2 DEF low, Recount, Ahead
<1>8. CASE todo # <<>>
  <2> DEFINE f == [Top EXCEPT !.todo = todo]
  <2>1. stack' = [stack EXCEPT ![Len(stack)] = f] /\ mask' = m
    BY <1>8 DEF GoesOn, todo, rest, Top
  <2>2. f = [by |-> Top.by, todo |-> todo, back |-> Top.back] /\ f.todo = todo /\ f.by = Top.by
    BY <1>1 DEF Frames
  <2> HIDE DEF f
  <2>3. f \in Frames(U, n)
    BY <1>1, <1>5, <1>8, <2>2 DEF Frames, Chain
  <2>4. stack' = Append(low, f)
    <3>1. stack \in Seq(Frames(DOMAIN tab, Len(procs))) /\ DOMAIN stack = 1..Len(stack)
      BY DEF SacInv, StackOK
    <3>2. \A i \in 1..(Len(stack) - 1) : stack[i] = low[i]
      BY <1>3
    <3> DEFINE S == Frames(DOMAIN tab, Len(procs)) \cup {f}
               p == Append(low, f)
    <3>3. low \in Seq(S) /\ f \in S
      BY <1>3
    <3> HIDE DEF S
    <3>4. /\ DOMAIN p = 1..Len(stack) /\ p[Len(stack)] = f /\ p \in Seq(S) /\ Len(p) = Len(stack)
          /\ \A i \in 1..(Len(stack) - 1) : p[i] = low[i]
      BY <1>3, <3>3
    <3> HIDE DEF p
    <3>5. p = [i \in 1..Len(stack) |-> p[i]]
      BY <3>4
    <3>6. stack' = [i \in 1..Len(stack) |-> IF i = Len(stack) THEN f ELSE stack[i]]
      BY <2>1, <3>1
    <3>7. \A i \in 1..Len(stack) : p[i] = IF i = Len(stack) THEN f ELSE stack[i]
      BY <1>3, <3>2, <3>4
    <3>8. stack' = p
      BY <3>5, <3>6, <3>7
    <3> QED  BY <3>8 DEF p
  <2>5. Last(f.todo) \in Reading => Last(Top.todo) \in Reading /\ Last(f.todo).lines = Last(Top.todo).lines
    <3>1. CASE rest # <<>>
      BY <1>2, <1>5, <2>2, <3>1
    <3>2. CASE rest = <<>>
      <4>1. f.todo = more /\ more # <<>> /\ Last(Top.todo) = task
        BY <1>2, <1>5, <1>8, <2>2, <3>2
      <4>2. more \in Seq(Tasks(U, n)) /\ Len(more) \in DOMAIN more
        BY <4>1 DEF Chain
      <4> QED  BY <4>1, <4>2 DEF Last
    <3> QED  BY <3>1, <3>2
  <2>6. StackOK(stack', U, n)
    <3>1. IsMain(f.by) => low = <<>>
      BY <1>3, <2>2
    <3> QED  BY <2>3, <2>4, <2>5, <3>1, StackPush DEF low
  <2>7. ASSUME NEW t, NEW does, does \subseteq Starting
        PROVE  Count(stack', t, does)
               = Count(low, t, does) + (IF more = <<>> THEN 0 ELSE Is(more[1], t, does))
    <3>1. Count(stack', t, does) = Count(low, t, does) + Comes(f, t, does)
      BY <1>6, <2>3, <2>4, CountPush
    <3>2. Head(f.todo) = todo[1]
      BY <1>5, <1>8, <2>2 DEF Chain
    <3>3. CASE more # <<>>
      BY <1>5, <3>1, <3>2, <3>3 DEF Comes, Is
    <3>4. CASE more = <<>>
      <4>1. todo[1] \in Laters(U, n) \cup Reading
        <5>1. todo = rest /\ 1 \in DOMAIN rest
          BY <1>5, <1>8, <3>4 DEF Chain
        <5> QED  BY <5>1 DEF rest
      <4>2. todo[1].do \notin does
        BY <2>7, <4>1 DEF Laters, Startups, Reading, Starting
      <4>3. Comes(f, t, does) = 0
        BY <3>2, <4>2 DEF Comes
      <4> QED  BY <1>6, <3>1, <3>4, <4>3
    <3> QED  BY <3>3, <3>4
  <2> QED  BY <2>1, <2>6, <2>7 DEF low, Recount, Ahead
<1> QED  BY <1>7, <1>8

\* It goes on while no entry goes.
LEMMA GoesOnIs ==
    ASSUME SacInv, stack # <<>>, NEW U, DOMAIN tab \subseteq U, NEW n \in Nat, Len(procs) <= n,
           NEW more, Chain(more, U, n, Top.by),
           \A k \in DOMAIN more : more[k] \in Reading => task \in Reading /\ more[k].lines = task.lines,
           NEW m \in SUBSET Signals, GoesOn(more, m)
    PROVE  /\ StackOK(stack', U, n) /\ mask' \subseteq Signals
           /\ Recount(Front(stack), stack', more)
<1> DEFINE T == DOMAIN tab
           k == Len(procs)
<1>1. k \in Nat /\ StackOK(stack, T, k)
  BY DEF SacInv
<1>2. Chain(Top.todo, T, k, Top.by) /\ Top.todo # <<>>
  BY TopIs
<1> HIDE DEF T, k
<1>3. /\ StackOK(Front(stack), T, k)
      /\ Last(Top.todo) \in Reading =>
            \A i \in DOMAIN Front(stack) :
                /\ Front(stack)[i] \in Frames(T \cap DOMAIN Last(Top.todo).lines, k)
                /\ Last(Front(stack)[i].todo) \notin Reading
  BY <1>1, StackPop DEF Top
<1>4. T \subseteq U /\ k <= n
  BY DEF T, k
<1>5. StackOK(Front(stack), U, n)
  BY <1>1, <1>3, <1>4, StackGrows
<1>6. \A l : Frames(T \cap l, k) \subseteq Frames(U \cap l, n)
  BY <1>1, <1>4, TasksGrow
<1>7. Last(Top.todo) \in Reading =>
            \A i \in DOMAIN Front(stack) :
                /\ Front(stack)[i] \in Frames(U \cap DOMAIN Last(Top.todo).lines, n)
                /\ Last(Front(stack)[i].todo) \notin Reading
  BY <1>3, <1>6
<1>8. Chain(Tail(Top.todo), T, k, Top.by)
      /\ \A j \in DOMAIN Tail(Top.todo) : Tail(Top.todo)[j] \in Laters(T, k) \cup Reading
  BY <1>2, ChainTail DEF T, k
<1>9. Laters(T, k) \subseteq Laters(U, n) /\ Tasks(T, k) \subseteq Tasks(U, n)
  BY <1>1, <1>4, TasksGrow
<1>10. Chain(Tail(Top.todo), U, n, Top.by)
       /\ \A j \in DOMAIN Tail(Top.todo) : Tail(Top.todo)[j] \in Laters(U, n) \cup Reading
  <2>1. Tail(Top.todo) \in Seq(Tasks(U, n))
    BY <1>8, <1>9 DEF Chain
  <2> QED  BY <1>8, <1>9, <2>1 DEF Chain
<1> QED  BY <1>5, <1>7, <1>10, TopBecomes

-----------------------------------------------------------------------------
(***************************************************************************)
(* What a step has to keep.                                                *)
(***************************************************************************)

\* A signal comes.
LEMMA HandleIs ==
    ASSUME SacInv, NEW sig \in Signals, NEW todo, Chain(todo, DOMAIN tab, Len(procs), sig),
           todo # <<>> /\ Last(todo) \in Reading =>
               \A i \in DOMAIN stack : /\ stack[i] \in Frames(DOMAIN tab \cap DOMAIN Last(todo).lines, Len(procs))
                                       /\ Last(stack[i].todo) \notin Reading,
           Handle(sig, todo)
    PROVE  /\ StackOK(stack', DOMAIN tab, Len(procs)) /\ mask' \subseteq Signals
           /\ Recount(stack, stack', todo)
<1> DEFINE T == DOMAIN tab
           n == Len(procs)
<1>1. n \in Nat /\ StackOK(stack, T, n) /\ mask \subseteq Signals
  BY DEF SacInv
<1>2. stack \in Seq(Frames(T, n))
  BY <1>1 DEF StackOK
<1>3. Chain(todo, T, n, sig)
  OBVIOUS
<1>4. todo # <<>> /\ Last(todo) \in Reading =>
               \A i \in DOMAIN stack : /\ stack[i] \in Frames(T \cap DOMAIN Last(todo).lines, n)
                                       /\ Last(stack[i].todo) \notin Reading
  OBVIOUS
<1> HIDE DEF T, n
<1>5. \A t, does : Count(stack, t, does) \in Nat
  BY <1>2, CountIs
<1>6. CASE todo = <<>>
  BY <1>1, <1>5, <1>6 DEF Handle, T, n, Recount, Ahead
<1>7. CASE todo # <<>>
  <2> DEFINE f == [by |-> sig, todo |-> todo, back |-> mask]
  <2>1. stack' = Append(stack, f) /\ mask' = mask \cup {sig}
    BY <1>7 DEF Handle
  <2>2. f \in Frames(T, n) /\ f.todo = todo /\ f.by = sig /\ ~ IsMain(f.by)
    BY <1>1, <1>3, <1>7 DEF Frames, Chain, IsMain, Signals
  <2> HIDE DEF f
  <2>3. StackOK(Append(stack, f), T, n)
    BY <1>1, <1>4, <1>7, <2>2, StackPush
  <2>4. ASSUME NEW t, NEW does
        PROVE  Count(stack', t, does) = Count(stack, t, does) + Is(todo[1], t, does)
    <3>1. Count(Append(stack, f), t, does) = Count(stack, t, does) + Comes(f, t, does)
      BY <1>2, <2>2, CountPush
    <3>2. Head(todo) = todo[1]
      BY <1>3, <1>7 DEF Chain
    <3> QED  BY <2>1, <2>2, <3>1, <3>2 DEF Comes, Is
  <2> QED  BY <1>1, <1>7, <2>1, <2>3, <2>4 DEF T, n, Recount, Ahead
<1> QED  BY <1>6, <1>7

\* A handler that was about to start does not.
LEMMA LimitedLess ==
    ASSUME NEW most, NEW extra, NEW r, NEW c, NEW s, NEW g \in Nat, Limited(most, extra, r, c, s, g),
           r \in Nat, c \in Nat, s \in Nat, NEW h \in Nat, h <= g
    PROVE  Limited(most, extra, r, c, s, h)
<1>1. PICK x, y \in Nat : x + y = extra /\ r + c <= most + x /\ s + g <= 1 + r + c + y
  BY DEF Limited
<1>2. s + h <= 1 + r + c + y
  BY <1>1
<1> QED  BY <1>1, <1>2 DEF Limited

\* The invariant of the next state, from what the step makes of the variables.
LEMMA SacNext ==
    ASSUME scenario' = scenario, scenario \in Scenarios,
           given' \in 0..Len(scenario.commands), faults' \in 0..scenario.most, file' \in Tables,
           procs' \in Seq(Procs), mask' \subseteq Signals,
           starts' \in [Tags(scenario) -> Nat], doubled' \in [Tags(scenario) -> Nat],
           told' \in [Tags(scenario) -> State],
           TabOK(tab', Len(procs')), StackOK(stack', DOMAIN tab', Len(procs')),
           \A t \in DOMAIN tab' :
              Limited(MostRestarts(t), doubled'[t], tab'[t].rscnt, Count(stack', t, Counting),
                      starts'[t], Count(stack', t, Starting))
    PROVE  SacInv'
<1>1. Tables' = Tables /\ Procs' = Procs
  BY DEF Tables, Procs
<1>2. TabOK(tab, Len(procs))'
  BY DEF TabOK, MostRestarts
<1>3. StackOK(stack, DOMAIN tab, Len(procs))'
  <2>1. Reading' = Reading
    BY <1>1 DEF Reading
  <2> QED  BY <2>1 DEF StackOK, Frames, Chain, Tasks
<1>4. ASSUME NEW t \in DOMAIN tab' PROVE Within(t)'
  <2>1. MostRestarts(t)' = MostRestarts(t)
    BY DEF MostRestarts
  <2>2. Count(stack, t, Counting)' = Count(stack', t, Counting)
        /\ Count(stack, t, Starting)' = Count(stack', t, Starting)
    BY DEF Count, Coming
  <2> QED  BY <1>4, <2>1, <2>2 DEF Within, Limited
<1> QED  BY <1>1, <1>2, <1>3, <1>4 DEF SacInv

\* A handler goes on, and neither counts a restart nor decides to start
\* anything.
LEMMA QuietStep ==
    ASSUME SacInv, stack # <<>>, UNCHANGED <<scenario, given, file, starts, doubled>>,
           faults' \in 0..scenario.most, procs' \in Seq(Procs), Len(procs) <= Len(procs'),
           told' \in [Tags(scenario) -> State],
           TabOK(tab', Len(procs')), DOMAIN tab' = DOMAIN tab,
           \A t \in DOMAIN tab : tab'[t].rscnt = tab[t].rscnt,
           NEW more, Chain(more, DOMAIN tab, Len(procs'), Top.by),
           \A k \in DOMAIN more : more[k] \in Reading => task \in Reading /\ more[k].lines = task.lines,
           NEW m \in SUBSET Signals, GoesOn(more, m),
           task.do # "count",
           more # <<>> => \/ more[1].do \notin Starting
                          \/ more[1] = Task("fork", task.tag) /\ task.do = "startpm"
    PROVE  SacInv'
<1> DEFINE n == Len(procs')
           low == Front(stack)
<1>1. n \in Nat
  OBVIOUS
<1>2. /\ StackOK(stack', DOMAIN tab, n) /\ mask' \subseteq Signals
      /\ Recount(low, stack', more)
  <2> DEFINE U == DOMAIN tab
  <2>1. Chain(more, U, n, Top.by) /\ Len(procs) <= n /\ DOMAIN tab \subseteq U
    OBVIOUS
  <2> HIDE DEF n, low, U
  <2>2. StackOK(stack', U, n)
    BY <1>1, <2>1, GoesOnIs
  <2>3. mask' \subseteq Signals
    BY <1>1, <2>1, GoesOnIs
  <2>4. Recount(Front(stack), stack', more)
    BY <1>1, <2>1, GoesOnIs
  <2> QED  BY <2>2, <2>3, <2>4 DEF U, low
<1>3. \A t, does : Count(stack, t, does) = Count(low, t, does) + Is(task, t, does)
  BY TopIs
<1>4. \A t, does : Count(low, t, does) \in Nat
  <2>1. low \in Seq(Frames(DOMAIN tab, Len(procs)))
    <3> DEFINE T == DOMAIN tab
               k == Len(procs)
    <3>1. StackOK(stack, T, k) /\ k \in Nat
      BY DEF SacInv
    <3> HIDE DEF T, k
    <3>2. StackOK(Front(stack), T, k)
      BY <3>1, StackPop
    <3> QED  BY <3>2 DEF StackOK, T, k
  <2> QED  BY <2>1, CountIs
<1> HIDE DEF low
<1>5. ASSUME NEW t
      PROVE  /\ Count(stack', t, Counting) = Count(stack, t, Counting)
             /\ Count(stack', t, Starting) <= Count(stack, t, Starting)
             /\ Count(stack', t, Starting) \in Nat /\ Count(stack, t, Counting) \in Nat
             /\ Count(stack, t, Starting) \in Nat
  <2>1. Is(task, t, Counting) = 0 /\ Is(task, t, Starting) \in {0, 1}
    BY DEF Is, Counting
  <2>2. more # <<>> => Is(more[1], t, Counting) = 0 /\ Is(more[1], t, Starting) <= Is(task, t, Starting)
                       /\ Is(more[1], t, Starting) \in {0, 1}
    BY DEF Is, Counting, Starting, Task
  <2>3. Counting \subseteq Starting
    BY DEF Counting, Starting
  <2>4. /\ Count(stack, t, Counting) = Count(low, t, Counting) + Is(task, t, Counting)
        /\ Count(stack, t, Starting) = Count(low, t, Starting) + Is(task, t, Starting)
        /\ Count(low, t, Counting) \in Nat /\ Count(low, t, Starting) \in Nat
    BY <1>3, <1>4
  <2>5. /\ Count(stack', t, Counting) = Count(low, t, Counting) + (IF more = <<>> THEN 0 ELSE Is(more[1], t, Counting))
        /\ Count(stack', t, Starting) = Count(low, t, Starting) + (IF more = <<>> THEN 0 ELSE Is(more[1], t, Starting))
    BY <1>2, <2>3 DEF Recount, Ahead
  <2> QED  BY <2>1, <2>2, <2>4, <2>5
<1>6. ASSUME NEW t \in DOMAIN tab'
      PROVE  Limited(MostRestarts(t), doubled'[t], tab'[t].rscnt, Count(stack', t, Counting),
                     starts'[t], Count(stack', t, Starting))
  <2>1. t \in DOMAIN tab /\ t \in Tags(scenario) /\ tab[t] \in Entries
    BY DEF SacInv, TabOK
  <2>2. doubled[t] \in Nat /\ starts[t] \in Nat /\ tab[t].rscnt \in Nat
    BY <2>1 DEF SacInv, Entries
  <2>3. Limited(MostRestarts(t), doubled[t], tab[t].rscnt, Count(stack, t, Counting),
                starts[t], Count(stack, t, Starting))
    BY <2>1 DEF SacInv, Within
  <2>4. Limited(MostRestarts(t), doubled[t], tab[t].rscnt, Count(stack, t, Counting),
                starts[t], Count(stack', t, Starting))
    BY <1>5, <2>2, <2>3, LimitedLess
  <2> QED  BY <1>5, <2>1, <2>4
<1> QED  BY <1>2, <1>6, SacNext DEF SacInv

\* A signal comes, and its handler starts nothing at once.
LEMMA QuietHandle ==
    ASSUME SacInv, NEW sig \in Signals, NEW todo, Chain(todo, DOMAIN tab, Len(procs), sig),
           todo # <<>> /\ Last(todo) \in Reading =>
               \A i \in DOMAIN stack : /\ stack[i] \in Frames(DOMAIN tab \cap DOMAIN Last(todo).lines, Len(procs))
                                       /\ Last(stack[i].todo) \notin Reading,
           Handle(sig, todo), todo # <<>> => todo[1].do \notin Starting,
           UNCHANGED <<scenario, tab, starts, doubled>>,
           given' \in 0..Len(scenario.commands), faults' \in 0..scenario.most, file' \in Tables,
           procs' \in Seq(Procs), Len(procs') = Len(procs), told' \in [Tags(scenario) -> State]
    PROVE  SacInv'
<1>1. StackOK(stack', DOMAIN tab, Len(procs)) /\ mask' \subseteq Signals /\ Recount(stack, stack', todo)
  BY HandleIs
<1>2. ASSUME NEW t \in DOMAIN tab'
      PROVE  Limited(MostRestarts(t), doubled'[t], tab'[t].rscnt, Count(stack', t, Counting),
                     starts'[t], Count(stack', t, Starting))
  <2>1. t \in DOMAIN tab /\ Within(t)
    BY DEF SacInv
  <2>2. Counting \subseteq Starting
    BY DEF Counting, Starting
  <2>3. todo # <<>> => Is(todo[1], t, Counting) = 0 /\ Is(todo[1], t, Starting) = 0
    BY DEF Is, Counting, Starting
  <2>4. stack \in Seq(Frames(DOMAIN tab, Len(procs)))
    BY DEF SacInv, StackOK
  <2>5. Count(stack, t, Counting) \in Nat /\ Count(stack, t, Starting) \in Nat
    BY <2>4, CountIs
  <2>6. /\ Count(stack', t, Counting) = Count(stack, t, Counting)
        /\ Count(stack', t, Starting) = Count(stack, t, Starting)
    BY <1>1, <2>2, <2>3, <2>5 DEF Recount, Ahead
  <2> QED  BY <2>1, <2>6 DEF Within
<1> QED  BY <1>1, <1>2, SacNext DEF SacInv

\* The handlers wait.
LEMMA StillStep ==
    ASSUME SacInv, UNCHANGED <<scenario, file, given, tab, stack, mask, starts, doubled, told>>,
           faults' \in 0..scenario.most, procs' \in Seq(Procs), Len(procs') = Len(procs)
    PROVE  SacInv'
<1>1. ASSUME NEW t \in DOMAIN tab'
      PROVE  Limited(MostRestarts(t), doubled'[t], tab'[t].rscnt, Count(stack', t, Counting),
                     starts'[t], Count(stack', t, Starting))
  <2>1. t \in DOMAIN tab /\ Within(t)
    BY DEF SacInv
  <2>2. Count(stack', t, Counting) = Count(stack, t, Counting)
        /\ Count(stack', t, Starting) = Count(stack, t, Starting)
    BY DEF Count, Coming
  <2> QED  BY <2>1, <2>2 DEF Within
<1> QED  BY <1>1, SacNext DEF SacInv

-----------------------------------------------------------------------------
(***************************************************************************)
(* Tasks by their kinds.                                                   *)
(***************************************************************************)

\* What a task says.
LEMMA TaskOf ==
    ASSUME NEW T, NEW n \in Nat, NEW x \in Tasks(T, n)
    PROVE  /\ x.do \notin {"restore", "pollpms", "startpms", "startall", "read_table", "purge", "remove"}
                 => x.tag \in T
           /\ x.do \in {"starting", "started"} => x.pid \in 0..n
           /\ x.do \in {"starting", "started", "restore", "remove"} => x.mask \subseteq Signals
           /\ x.do = "set" => \/ x.fields \in Plain /\ x.to \in State
                              \/ x.fields \in Lasting /\ x.to \in LastStates
           /\ x.do = "send" => x.msg \in Messages
           /\ x.do \in {"startpms", "startall"} => x \in Startups
           /\ x.do \in {"read_table", "purge", "remove"} => x \in Reading /\ x.lines \in Tables /\ x.tag \in Nat
           /\ x.do = "remove" => x.tag \notin DOMAIN x.lines
           /\ x.do \in {"pollpms", "startall", "startpms"} => x.tag \in Nat
BY DEF Tasks, Nexts, Sets, Laters, Startups, Reading

\* The tasks there are.
LEMMA TasksHave ==
    ASSUME NEW T, NEW n \in Nat, NEW t \in T
    PROVE  /\ \A do \in {"startpm", "fork", "pollfail", "kill", "check", "count", "terminate"} :
                 Task(do, t) \in Nexts(T, n) /\ Task(do, t).do = do /\ Task(do, t).tag = t
           /\ \A do \in {"stopped", "close", "asked", "answered"} :
                 Task(do, t) \in Laters(T, n) /\ Task(do, t).do = do
           /\ \A f \in Plain, to \in State : Set(t, f, to) \in Nexts(T, n) /\ Set(t, f, to).do = "set"
           /\ \A f \in Lasting, to \in LastStates : Set(t, f, to) \in Nexts(T, n) /\ Set(t, f, to).do = "set"
           /\ \A msg \in Messages : Send(t, msg) \in Laters(T, n) /\ Send(t, msg).do = "send"
           /\ \A p \in 0..n, m \in SUBSET Signals :
                 /\ Started("starting", t, p, m) \in Nexts(T, n) /\ Started("starting", t, p, m).do = "starting"
                 /\ Started("started", t, p, m) \in Laters(T, n) /\ Started("started", t, p, m).do = "started"
BY DEF Task, Set, Send, Started, Nexts, Sets, Laters

LEMMA LoopsHave ==
    ASSUME NEW T, NEW n \in Nat, NEW t \in Nat
    PROVE  /\ Task("pollpms", t) \in Laters(T, n) /\ Task("pollpms", t).do = "pollpms"
           /\ \A do \in {"startpms", "startall"} :
                 Task(do, t) \in Startups /\ Task(do, t) \in Laters(T, n) /\ Task(do, t).do = do
           /\ \A m \in SUBSET Signals : Restore(t, m) \in Laters(T, n) /\ Restore(t, m).do = "restore"
           /\ \A do \in {"read_table", "purge"}, l \in Tables :
                 Read(do, t, l) \in Reading /\ Read(do, t, l).do = do /\ Read(do, t, l).lines = l
           /\ \A l \in Tables, m \in SUBSET Signals :
                 t \notin DOMAIN l => Drop(t, l, m) \in Reading /\ Drop(t, l, m).do = "remove" /\ Drop(t, l, m).lines = l
BY DEF Task, Restore, Read, Drop, Laters, Startups, Reading

\* Few tasks of a handler that are not about AC_SACREAD.
LEMMA FewTasks ==
    ASSUME NEW T, NEW n \in Nat, NEW by
    PROVE  /\ Chain(<<>>, T, n, by)
           /\ \A x \in Nexts(T, n) \cup Laters(T, n) : (x \in Startups => IsMain(by)) =>
                 Chain(<<x>>, T, n, by) /\ (\A k \in DOMAIN <<x>> : <<x>>[k] \notin Reading)
                 /\ <<x>> # <<>> /\ <<x>>[1] = x
           /\ \A x \in Nexts(T, n) \cup Laters(T, n), y \in Laters(T, n) :
                 (x \in Startups \/ y \in Startups => IsMain(by)) =>
                 Chain(<<x, y>>, T, n, by) /\ (\A k \in DOMAIN <<x, y>> : <<x, y>>[k] \notin Reading)
                 /\ <<x, y>> # <<>> /\ <<x, y>>[1] = x
<1>1. \A x \in Nexts(T, n) \cup Laters(T, n) : x \in Tasks(T, n) /\ x \notin Reading
  BY KindsDiffer DEF Tasks
<1>2. ASSUME NEW x \in Nexts(T, n) \cup Laters(T, n), x \in Startups => IsMain(by)
      PROVE  Chain(<<x>>, T, n, by) /\ (\A k \in DOMAIN <<x>> : <<x>>[k] \notin Reading)
             /\ <<x>> # <<>> /\ <<x>>[1] = x
  <2>1. x \in Tasks(T, n) /\ x \notin Reading
    BY <1>1
  <2>2. Chain(<<x>>, T, n, by) /\ \A k \in DOMAIN <<x>> : <<x>>[k] = x
    BY <1>2, <2>1, ChainOfOne
  <2> QED  BY <2>1, <2>2
<1>3. ASSUME NEW x \in Nexts(T, n) \cup Laters(T, n), NEW y \in Laters(T, n),
             x \in Startups \/ y \in Startups => IsMain(by)
      PROVE  Chain(<<x, y>>, T, n, by) /\ (\A k \in DOMAIN <<x, y>> : <<x, y>>[k] \notin Reading)
             /\ <<x, y>> # <<>> /\ <<x, y>>[1] = x
  <2>1. Chain(<<x, y>>, T, n, by) /\ \A k \in DOMAIN <<x, y>> : <<x, y>>[k] \in {x, y}
    BY <1>3, ChainOf
  <2> QED  BY <1>1, <2>1
<1> QED  BY <1>2, <1>3, ChainOf

\* An entry changes.
LEMMA SetEntry ==
    ASSUME SacInv, NEW t \in DOMAIN tab, NEW e \in Entries, e.rsmax <= MostRestarts(t),
           NEW n \in Nat, Len(procs) <= n, e.pid <= n, tab' = [tab EXCEPT ![t] = e]
    PROVE  /\ TabOK(tab', n) /\ DOMAIN tab' = DOMAIN tab
           /\ \A u \in DOMAIN tab : tab'[u] = IF u = t THEN e ELSE tab[u]
<1>1. /\ DOMAIN tab \subseteq Tags(scenario) /\ tab \in [DOMAIN tab -> Entries] /\ Len(procs) \in Nat
      /\ \A u \in DOMAIN tab : tab[u].rsmax <= MostRestarts(u) /\ tab[u].pid <= Len(procs) /\ tab[u].pid \in Nat
  BY DEF SacInv, TabOK, Entries
<1>2. DOMAIN tab' = DOMAIN tab /\ \A u \in DOMAIN tab : tab'[u] = IF u = t THEN e ELSE tab[u]
  BY <1>1
<1>3. tab' \in [DOMAIN tab -> Entries]
  BY <1>1
<1>4. \A u \in DOMAIN tab : tab'[u].rsmax <= MostRestarts(u) /\ tab'[u].pid <= n
  BY <1>1, <1>2
<1> QED  BY <1>1, <1>2, <1>3, <1>4 DEF TabOK

\* The types, for a port monitor in the table.
LEMMA EntryIs ==
    ASSUME SacInv, NEW t \in DOMAIN tab
    PROVE  /\ tab[t] \in Entries /\ tab[t].rsmax <= MostRestarts(t) /\ tab[t].pid <= Len(procs)
           /\ t \in Tags(scenario) /\ t \in Nat /\ MostRestarts(t) \in Nat /\ Len(procs) \in Nat
           /\ doubled[t] \in Nat /\ starts[t] \in Nat /\ told[t] \in State
<1>1. t \in Tags(scenario) /\ tab[t] \in Entries /\ tab[t].rsmax <= MostRestarts(t) /\ tab[t].pid <= Len(procs)
  BY DEF SacInv, TabOK
<1>2. MostRestarts(t) \in Nat
  BY <1>1, MostIs DEF SacInv
<1>3. t \in Nat
  BY <1>1, TagsAre DEF SacInv
<1> QED  BY <1>1, <1>2, <1>3 DEF SacInv

\* Sending signals makes no processes.
LEMMA TerminatedIs ==
    ASSUME procs \in Seq(Procs), NEW T
    PROVE  Terminated(T) \in Seq(Procs) /\ Len(Terminated(T)) = Len(procs)
<1> DEFINE q == Terminated(T)
<1>1. DOMAIN q = 1..Len(procs) /\ Len(procs) \in Nat
  BY DEF Terminated
<1>2. \A p \in 1..Len(procs) : q[p] \in Procs
  <2> SUFFICES ASSUME NEW p \in 1..Len(procs) PROVE q[p] \in Procs
    OBVIOUS
  <2>1. procs[p] \in Procs /\ q[p] \in {procs[p], [procs[p] EXCEPT !.st = "term"]}
    BY DEF Terminated
  <2>2. [procs[p] EXCEPT !.st = "term"] \in Procs
    BY <2>1 DEF Procs, ProcSts, Alive, Holds
  <2> QED  BY <2>1, <2>2
<1>3. q = [p \in 1..Len(procs) |-> q[p]]
  BY DEF Terminated
<1> HIDE DEF q
<1>4. q \in Seq(Procs) /\ Len(q) = Len(procs)
  BY <1>1, <1>2, <1>3
<1> QED  BY <1>4 DEF q

\* A process changes its state.
LEMMA ProcIs ==
    ASSUME procs \in Seq(Procs), NEW p \in DOMAIN procs, NEW x \in Procs, procs' = [procs EXCEPT ![p] = x]
    PROVE  procs' \in Seq(Procs) /\ Len(procs') = Len(procs)
OBVIOUS

LEMMA FaultsAre ==
    ASSUME SacInv, NEW k, Faults(k)
    PROVE  faults' \in 0..scenario.most
<1>1. scenario.kinds \subseteq {"die", "hang", "slow", "nofork", "nopipe", "crash", "nest"} /\ scenario.most \in Nat
  BY ScenarioAssumption DEF SacInv, ScenarioType
<1>2. IsFiniteSet({"die", "hang", "slow", "nofork", "nopipe", "crash", "nest"})
  <2>1. {"die", "hang", "slow", "nofork", "nopipe", "crash", "nest"}
        = {"die", "hang", "slow", "nofork"} \cup {"nopipe", "crash", "nest"}
    OBVIOUS
  <2>2. IsFiniteSet({"die", "hang", "slow", "nofork"}) /\ IsFiniteSet({"nopipe", "crash", "nest"})
    <3>1. IsFiniteSet({"die"}) /\ IsFiniteSet({"nopipe"})
      BY FS_Singleton
    <3>2. IsFiniteSet({"die", "hang"}) /\ IsFiniteSet({"nopipe", "crash"})
      <4>1. {"die", "hang"} = {"die"} \cup {"hang"} /\ {"nopipe", "crash"} = {"nopipe"} \cup {"crash"}
        OBVIOUS
      <4> QED  BY <3>1, <4>1, FS_AddElement
    <3>3. IsFiniteSet({"die", "hang", "slow"}) /\ IsFiniteSet({"nopipe", "crash", "nest"})
      <4>1. {"die", "hang", "slow"} = {"die", "hang"} \cup {"slow"}
            /\ {"nopipe", "crash", "nest"} = {"nopipe", "crash"} \cup {"nest"}
        OBVIOUS
      <4> QED  BY <3>2, <4>1, FS_AddElement
    <3>4. {"die", "hang", "slow", "nofork"} = {"die", "hang", "slow"} \cup {"nofork"}
      OBVIOUS
    <3> QED  BY <3>3, <3>4, FS_AddElement
  <2> QED  BY <2>1, <2>2, FS_Union
<1>3. k \subseteq {"die", "hang", "slow", "nofork", "nopipe", "crash", "nest"}
  BY <1>1 DEF Faults
<1>4. Cardinality(k) \in Nat
  <2>1. IsFiniteSet(k)
    BY <1>2, <1>3, FS_Subset
  <2> QED  BY <2>1, FS_CardinalityType
<1>5. faults \in Nat /\ faults' = faults + Cardinality(k) /\ faults + Cardinality(k) <= scenario.most
  BY <1>1 DEF SacInv, Faults
<1> QED  BY <1>1, <1>4, <1>5

-----------------------------------------------------------------------------
(***************************************************************************)
(* Each step keeps the invariant: the tasks that start nothing.            *)
(***************************************************************************)

\* The handler on top may have more to do first.
Free(more) ==
    /\ Chain(more, DOMAIN tab, Len(procs), Top.by)
    /\ \A k \in DOMAIN more : more[k] \notin Reading
NextTasks == Nexts(DOMAIN tab, Len(procs))
LaterTasks == Laters(DOMAIN tab, Len(procs)) \ Startups

\* A handler goes on in the table as it is, but for fields of one entry.
LEMMA QuietTask ==
    ASSUME SacInv, running /\ ~Idle, task.do # "count",
           UNCHANGED <<scenario, given, file, faults, starts, doubled>>,
           procs' \in Seq(Procs), Len(procs') = Len(procs), told' \in [Tags(scenario) -> State],
           \/ tab' = tab
           \/ \E t \in DOMAIN tab, e \in Entries :
                 /\ e.rsmax = tab[t].rsmax /\ e.rscnt = tab[t].rscnt /\ e.pid <= Len(procs)
                 /\ tab' = [tab EXCEPT ![t] = e],
           NEW more, Free(more), NEW m \in SUBSET Signals, GoesOn(more, m),
           more # <<>> => \/ more[1].do \notin Starting
                          \/ more[1] = Task("fork", task.tag) /\ task.do = "startpm"
    PROVE  SacInv'
<1>1. Len(procs) \in Nat /\ stack # <<>> /\ faults' \in 0..scenario.most
  BY DEF SacInv, Idle
<1>2. /\ TabOK(tab', Len(procs')) /\ DOMAIN tab' = DOMAIN tab
      /\ \A t \in DOMAIN tab : tab'[t].rscnt = tab[t].rscnt
  <2>1. CASE tab' = tab
    BY <2>1 DEF SacInv
  <2>2. CASE tab' # tab
    <3>1. PICK t \in DOMAIN tab, e \in Entries :
                 /\ e.rsmax = tab[t].rsmax /\ e.rscnt = tab[t].rscnt /\ e.pid <= Len(procs)
                 /\ tab' = [tab EXCEPT ![t] = e]
      BY <2>2
    <3>2. e.rsmax <= MostRestarts(t) /\ Len(procs) <= Len(procs)
      BY <1>1, <3>1, EntryIs
    <3>3. /\ TabOK(tab', Len(procs)) /\ DOMAIN tab' = DOMAIN tab
          /\ \A u \in DOMAIN tab : tab'[u] = IF u = t THEN e ELSE tab[u]
      <4> DEFINE n == Len(procs)
      <4>1. n \in Nat /\ Len(procs) <= n /\ e.pid <= n
        BY <1>1, <3>1
      <4> HIDE DEF n
      <4>2. /\ TabOK(tab', n) /\ DOMAIN tab' = DOMAIN tab
            /\ \A u \in DOMAIN tab : tab'[u] = IF u = t THEN e ELSE tab[u]
        BY <3>1, <3>2, <4>1, SetEntry
      <4> QED  BY <4>2 DEF n
    <3> QED  BY <3>1, <3>3
  <2> QED  BY <2>1, <2>2
<1>3. Chain(more, DOMAIN tab, Len(procs'), Top.by) /\ Len(procs) <= Len(procs')
  BY <1>1 DEF Free
<1>4. \A k \in DOMAIN more : more[k] \in Reading => task \in Reading /\ more[k].lines = task.lines
  BY DEF Free
<1> QED  BY <1>1, <1>2, <1>3, <1>4, QuietStep

\* What a task on top is about.
LEMMA Doings ==
    ASSUME SacInv, running /\ ~Idle
    PROVE  /\ Len(procs) \in Nat /\ mask \in SUBSET Signals /\ procs \in Seq(Procs)
           /\ told \in [Tags(scenario) -> State]
           /\ task.do \notin {"restore", "pollpms", "startpms", "startall", "read_table", "purge", "remove"}
                 => pm \in DOMAIN tab
           /\ task.do \in {"starting", "started"} => task.pid \in 0..Len(procs)
           /\ task.do \in {"starting", "started", "restore", "remove"} => task.mask \subseteq Signals
           /\ task.do = "set" => \/ task.fields \in Plain /\ task.to \in State
                                 \/ task.fields \in Lasting /\ task.to \in LastStates
           /\ task.do = "send" => task.msg \in Messages
           /\ task.do \in {"startpms", "startall"} => task \in Startups /\ IsMain(Top.by)
           /\ task.do \in {"read_table", "purge", "remove"} => task \in Reading /\ task.lines \in Tables /\ pm \in Nat
           /\ task.do = "remove" => pm \notin DOMAIN task.lines
           /\ task.do \in {"pollpms", "startall", "startpms"} => pm \in Nat
<1> DEFINE T == DOMAIN tab
           n == Len(procs)
<1>1. task \in Tasks(T, n) /\ (task \in Startups => IsMain(Top.by))
  BY TopIs DEF Idle
<1>2. n \in Nat /\ mask \in SUBSET Signals /\ procs \in Seq(Procs) /\ told \in [Tags(scenario) -> State]
  BY DEF SacInv
<1> HIDE DEF T, n
<1>3. PICK x \in Tasks(T, n) : x = task
  BY <1>1
<1>4. /\ x.do \notin {"restore", "pollpms", "startpms", "startall", "read_table", "purge", "remove"}
                 => x.tag \in T
      /\ x.do \in {"starting", "started"} => x.pid \in 0..n
      /\ x.do \in {"starting", "started", "restore", "remove"} => x.mask \subseteq Signals
      /\ x.do = "set" => \/ x.fields \in Plain /\ x.to \in State
                         \/ x.fields \in Lasting /\ x.to \in LastStates
      /\ x.do = "send" => x.msg \in Messages
      /\ x.do \in {"startpms", "startall"} => x \in Startups
      /\ x.do \in {"read_table", "purge", "remove"} => x \in Reading /\ x.lines \in Tables /\ x.tag \in Nat
      /\ x.do = "remove" => x.tag \notin DOMAIN x.lines
      /\ x.do \in {"pollpms", "startall", "startpms"} => x.tag \in Nat
  BY <1>2, TaskOf
<1> QED  BY <1>1, <1>2, <1>3, <1>4 DEF pm, T, n

\* The next tasks of a handler.
LEMMA MoreOf ==
    ASSUME SacInv
    PROVE  /\ Free(<<>>)
           /\ \A x \in NextTasks \cup LaterTasks : Free(<<x>>) /\ <<x>>[1] = x /\ <<x>> # <<>>
           /\ \A x \in NextTasks \cup LaterTasks, y \in LaterTasks :
                 Free(<<x, y>>) /\ <<x, y>>[1] = x /\ <<x, y>> # <<>>
<1> DEFINE T == DOMAIN tab
           n == Len(procs)
           by == Top.by
<1>1. n \in Nat
  BY DEF SacInv
<1>2. \A x \in Nexts(T, n) : x \notin Startups
  BY KindsDiffer
<1> HIDE DEF T, n, by
<1>3. /\ Chain(<<>>, T, n, by)
      /\ \A x \in Nexts(T, n) \cup Laters(T, n) : (x \in Startups => IsMain(by)) =>
                 Chain(<<x>>, T, n, by) /\ (\A k \in DOMAIN <<x>> : <<x>>[k] \notin Reading)
                 /\ <<x>> # <<>> /\ <<x>>[1] = x
  BY <1>1, FewTasks
<1>4. \A x \in Nexts(T, n) \cup Laters(T, n), y \in Laters(T, n) :
                 (x \in Startups \/ y \in Startups => IsMain(by)) =>
                 Chain(<<x, y>>, T, n, by) /\ (\A k \in DOMAIN <<x, y>> : <<x, y>>[k] \notin Reading)
                 /\ <<x, y>> # <<>> /\ <<x, y>>[1] = x
  BY <1>1, FewTasks
<1> QED  BY <1>2, <1>3, <1>4 DEF Free, NextTasks, LaterTasks, T, n, by

LEMMA MoreOf3 ==
    ASSUME SacInv, NEW x \in LaterTasks, NEW y \in LaterTasks, NEW z \in LaterTasks
    PROVE  Free(<<x, y, z>>) /\ <<x, y, z>>[1] = x
<1> DEFINE T == DOMAIN tab
           n == Len(procs)
           by == Top.by
           q == <<x, y, z>>
<1>1. {x, y, z} \subseteq Laters(T, n) \ Startups
  BY DEF LaterTasks
<1> HIDE DEF T, n, by
<1>2. {x, y, z} \subseteq Tasks(T, n) /\ {x, y, z} \cap Reading = {}
  BY <1>1, KindsDiffer DEF Tasks
<1>3. DOMAIN q = 1..3 /\ q[1] = x /\ \A k \in 1..3 : q[k] \in {x, y, z}
  OBVIOUS
<1>4. q \in Seq(Tasks(T, n))
  BY <1>2
<1> HIDE DEF q
<1>5. Chain(q, T, n, by)
  BY <1>1, <1>2, <1>3, <1>4 DEF Chain
<1> QED  BY <1>2, <1>3, <1>5 DEF Free, T, n, by, q

\* The tasks that are about the port monitor t, or about none.
LEMMA HasTasks ==
    ASSUME SacInv
    PROVE  /\ \A t \in DOMAIN tab :
                 /\ \A do \in {"startpm", "fork", "pollfail", "kill", "check", "count", "terminate"} :
                       Task(do, t) \in NextTasks /\ Task(do, t).do = do
                 /\ \A do \in {"stopped", "close", "asked", "answered"} :
                       Task(do, t) \in LaterTasks /\ Task(do, t).do = do
                 /\ \A f \in Plain, to \in State : Set(t, f, to) \in NextTasks /\ Set(t, f, to).do = "set"
                 /\ \A f \in Lasting, to \in LastStates :
                       Set(t, f, to) \in NextTasks /\ Set(t, f, to).do = "set"
                 /\ \A msg \in Messages : Send(t, msg) \in LaterTasks /\ Send(t, msg).do = "send"
                 /\ \A p \in 0..Len(procs), m \in SUBSET Signals :
                       /\ Started("starting", t, p, m) \in NextTasks
                       /\ Started("starting", t, p, m).do = "starting"
                       /\ Started("started", t, p, m) \in LaterTasks
                       /\ Started("started", t, p, m).do = "started"
           /\ \A t \in Nat : /\ Task("pollpms", t) \in LaterTasks /\ Task("pollpms", t).do = "pollpms"
                             /\ \A m \in SUBSET Signals : Restore(t, m) \in LaterTasks
<1> DEFINE T == DOMAIN tab
           n == Len(procs)
<1>1. n \in Nat
  BY DEF SacInv
<1> HIDE DEF T, n
<1>2. \A x \in Startups : x.do \in {"startpms", "startall"}
  BY DEF Startups
<1>3. ASSUME NEW t \in T
      PROVE      /\ \A do \in {"startpm", "fork", "pollfail", "kill", "check", "count", "terminate"} :
                       Task(do, t) \in Nexts(T, n) /\ Task(do, t).do = do
                 /\ \A do \in {"stopped", "close", "asked", "answered"} :
                       Task(do, t) \in Laters(T, n) \ Startups /\ Task(do, t).do = do
                 /\ \A f \in Plain, to \in State : Set(t, f, to) \in Nexts(T, n) /\ Set(t, f, to).do = "set"
                 /\ \A f \in Lasting, to \in LastStates :
                       Set(t, f, to) \in Nexts(T, n) /\ Set(t, f, to).do = "set"
                 /\ \A msg \in Messages : Send(t, msg) \in Laters(T, n) \ Startups /\ Send(t, msg).do = "send"
                 /\ \A p \in 0..n, m \in SUBSET Signals :
                       /\ Started("starting", t, p, m) \in Nexts(T, n)
                       /\ Started("starting", t, p, m).do = "starting"
                       /\ Started("started", t, p, m) \in Laters(T, n) \ Startups
                       /\ Started("started", t, p, m).do = "started"
  <2>1. \A do \in {"startpm", "fork", "pollfail", "kill", "check", "count", "terminate"} :
           Task(do, t) \in Nexts(T, n) /\ Task(do, t).do = do /\ Task(do, t).tag = t
    BY <1>1, TasksHave
  <2>2. \A do \in {"stopped", "close", "asked", "answered"} :
           Task(do, t) \in Laters(T, n) /\ Task(do, t).do = do
    BY <1>1, TasksHave
  <2>3. \A f \in Plain, to \in State : Set(t, f, to) \in Nexts(T, n) /\ Set(t, f, to).do = "set"
    BY <1>1, TasksHave
  <2>4. \A f \in Lasting, to \in LastStates : Set(t, f, to) \in Nexts(T, n) /\ Set(t, f, to).do = "set"
    BY <1>1, TasksHave
  <2>5. \A msg \in Messages : Send(t, msg) \in Laters(T, n) /\ Send(t, msg).do = "send"
    BY <1>1, TasksHave
  <2>6. \A p \in 0..n, m \in SUBSET Signals :
                 /\ Started("starting", t, p, m) \in Nexts(T, n) /\ Started("starting", t, p, m).do = "starting"
                 /\ Started("started", t, p, m) \in Laters(T, n) /\ Started("started", t, p, m).do = "started"
    BY <1>1, TasksHave
  <2> QED  BY <1>2, <2>1, <2>2, <2>3, <2>4, <2>5, <2>6
<1>4. ASSUME NEW t \in Nat
      PROVE  /\ Task("pollpms", t) \in Laters(T, n) \ Startups /\ Task("pollpms", t).do = "pollpms"
             /\ \A m \in SUBSET Signals : Restore(t, m) \in Laters(T, n) \ Startups
  BY <1>1, <1>2, LoopsHave
<1> QED  BY <1>3, <1>4 DEF NextTasks, LaterTasks, T, n

LEMMA StartpmInv ==
    ASSUME SacInv, startpm
    PROVE  SacInv'
<1>1. running /\ ~Idle /\ task.do = "startpm" /\ pm \in DOMAIN tab /\ mask \in SUBSET Signals
      /\ procs \in Seq(Procs) /\ told \in [Tags(scenario) -> State]
  BY Doings DEF startpm, Doing
<1>2. UNCHANGED <<scenario, given, file, faults, starts, doubled, procs, told>>
  BY DEF startpm, worldVars, histories
<1>3. CASE checklock(pm) # 0
  <2>1. GoesOn(<<>>, mask) /\ tab' = tab
    BY <1>3 DEF startpm, Then
  <2>2. Free(<<>>)
    BY MoreOf
  <2> QED  BY <1>1, <1>2, <2>1, <2>2, QuietTask
<1>4. CASE checklock(pm) = 0
  <2> DEFINE e == [tab[pm] EXCEPT !.leak = @ \/ tab[pm].fd, !.fd = TRUE]
             x == Task("fork", pm)
  <2>1. GoesOn(<<x>>, mask) /\ tab' = [tab EXCEPT ![pm] = e]
    BY <1>4 DEF startpm, Then
  <2>2. Free(<<x>>) /\ <<x>>[1] = x
    BY <1>1, MoreOf, HasTasks
  <2>3. tab[pm] \in Entries /\ tab[pm].pid <= Len(procs)
    BY <1>1, EntryIs
  <2>4. e \in Entries /\ e.rsmax = tab[pm].rsmax /\ e.rscnt = tab[pm].rscnt /\ e.pid <= Len(procs)
    BY <2>3 DEF Entries
  <2>5. x = Task("fork", task.tag)
    BY DEF pm
  <2> HIDE DEF e, x
  <2> QED  BY <1>1, <1>2, <2>1, <2>2, <2>4, <2>5, QuietTask
<1> QED  BY <1>3, <1>4

LEMMA StartingInv ==
    ASSUME SacInv, starting
    PROVE  SacInv'
<1> DEFINE e == [tab[pm] EXCEPT !.pstate = "STARTING"]
           x == Set(pm, <<"sstate">>, InitialState(tab[pm]))
           y == Started("started", pm, task.pid, task.mask)
<1>1. running /\ ~Idle /\ task.do = "starting" /\ pm \in DOMAIN tab /\ mask \in SUBSET Signals
      /\ procs \in Seq(Procs) /\ told \in [Tags(scenario) -> State]
      /\ task.pid \in 0..Len(procs) /\ task.mask \subseteq Signals
  BY Doings DEF starting, Doing
<1>2. UNCHANGED <<scenario, given, file, faults, starts, doubled, procs, told>>
  BY DEF starting, worldVars, histories
<1>3. GoesOn(<<x, y>>, mask) /\ tab' = [tab EXCEPT ![pm] = e]
  BY DEF starting, Then
<1>4. tab[pm] \in Entries /\ tab[pm].pid <= Len(procs)
  BY <1>1, EntryIs
<1>5. e \in Entries /\ e.rsmax = tab[pm].rsmax /\ e.rscnt = tab[pm].rscnt /\ e.pid <= Len(procs)
  BY <1>4 DEF Entries, State
<1>6. InitialState(tab[pm]) \in State /\ <<"sstate">> \in Plain
  BY <1>4 DEF InitialState, Entries, LastStates, State, Plain
<1>7. x \in NextTasks /\ x.do = "set" /\ y \in LaterTasks
  BY <1>1, <1>6, HasTasks
<1> HIDE DEF e, x, y
<1>8. Free(<<x, y>>) /\ <<x, y>>[1] = x
  BY <1>7, MoreOf
<1>9. x.do \notin Starting
  BY <1>7 DEF Starting
<1> QED  BY <1>1, <1>2, <1>3, <1>5, <1>8, <1>9, QuietTask

LEMMA StartedInv ==
    ASSUME SacInv, started
    PROVE  SacInv'
<1> DEFINE e == [tab[pm] EXCEPT !.ok = TRUE, !.pid = task.pid]
<1>1. running /\ ~Idle /\ task.do = "started" /\ pm \in DOMAIN tab
      /\ procs \in Seq(Procs) /\ told \in [Tags(scenario) -> State] /\ Len(procs) \in Nat
      /\ task.pid \in 0..Len(procs) /\ task.mask \in SUBSET Signals
  BY Doings DEF started, Doing
<1>2. UNCHANGED <<scenario, given, file, faults, starts, doubled, procs, told>>
  BY DEF started, worldVars, histories
<1>3. GoesOn(<<>>, task.mask) /\ tab' = [tab EXCEPT ![pm] = e]
  BY DEF started
<1>4. tab[pm] \in Entries
  BY <1>1, EntryIs
<1>5. e \in Entries /\ e.rsmax = tab[pm].rsmax /\ e.rscnt = tab[pm].rscnt /\ e.pid <= Len(procs)
  <2>1. task.pid \in Nat /\ task.pid <= Len(procs)
    BY <1>1
  <2> HIDE DEF task
  <2>2. e \in Entries /\ e.rsmax = tab[pm].rsmax /\ e.rscnt = tab[pm].rscnt /\ e.pid = task.pid
    BY <1>4, <2>1 DEF Entries
  <2> QED  BY <2>1, <2>2
<1>6. Free(<<>>)
  BY MoreOf
<1> HIDE DEF e
<1> QED  BY <1>1, <1>2, <1>3, <1>5, <1>6, QuietTask

LEMMA PollfailInv ==
    ASSUME SacInv, pollfail
    PROVE  SacInv'
<1> DEFINE x == Set(pm, <<"pstate", "lstate">>, "NOTRUNNING")
           y == Task("stopped", pm)
           z == Task("kill", pm)
<1>1. running /\ ~Idle /\ task.do = "pollfail" /\ pm \in DOMAIN tab /\ mask \in SUBSET Signals
      /\ procs \in Seq(Procs) /\ told \in [Tags(scenario) -> State]
  BY Doings DEF pollfail, Doing
<1>2. UNCHANGED <<scenario, given, file, faults, starts, doubled, procs, told, tab>>
  BY DEF pollfail, worldVars, histories
<1>3. <<"pstate", "lstate">> \in Lasting /\ "NOTRUNNING" \in LastStates
  BY DEF Lasting, LastStates
<1>4. x \in NextTasks /\ x.do = "set" /\ y \in LaterTasks /\ z \in NextTasks /\ z.do = "kill"
  BY <1>1, <1>3, HasTasks
<1>5. x.do \notin Starting /\ z.do \notin Starting
  BY <1>4 DEF Starting
<1>6. GoesOn(<<x, y>>, mask) \/ GoesOn(<<z>>, mask)
  BY DEF pollfail, Then
<1> HIDE DEF x, y, z
<1>7. Free(<<x, y>>) /\ <<x, y>>[1] = x /\ Free(<<z>>) /\ <<z>>[1] = z
  BY <1>4, MoreOf
<1>8. CASE GoesOn(<<x, y>>, mask)
  BY <1>1, <1>2, <1>5, <1>7, <1>8, QuietTask
<1>9. CASE GoesOn(<<z>>, mask)
  BY <1>1, <1>2, <1>5, <1>7, <1>9, QuietTask
<1> QED  BY <1>6, <1>8, <1>9

LEMMA ClosedIs ==
    ASSUME SacInv, NEW t \in DOMAIN tab, NEW b \in BOOLEAN
    PROVE  /\ [tab[t] EXCEPT !.fd = b] \in Entries /\ [tab[t] EXCEPT !.ok = b] \in Entries
           /\ \A e \in {[tab[t] EXCEPT !.fd = b], [tab[t] EXCEPT !.ok = b]} :
                 e.rsmax = tab[t].rsmax /\ e.rscnt = tab[t].rscnt /\ e.pid <= Len(procs)
<1>1. tab[t] \in Entries /\ tab[t].pid <= Len(procs)
  BY EntryIs
<1> QED  BY <1>1 DEF Entries

LEMMA StoppedInv ==
    ASSUME SacInv, stopped
    PROVE  SacInv'
<1> DEFINE e == [tab[pm] EXCEPT !.fd = FALSE]
<1>1. running /\ ~Idle /\ task.do = "stopped" /\ pm \in DOMAIN tab
      /\ procs \in Seq(Procs) /\ told \in [Tags(scenario) -> State]
  BY Doings DEF stopped, Doing
<1>2. UNCHANGED <<scenario, given, file, faults, starts, doubled, procs, told>>
  BY DEF stopped, worldVars, histories
<1>3. PICK m \in SUBSET Signals : GoesOn(<<>>, m)
  BY DEF stopped
<1>4. tab' = [tab EXCEPT ![pm] = e]
  BY DEF stopped
<1>5. e \in Entries /\ e.rsmax = tab[pm].rsmax /\ e.rscnt = tab[pm].rscnt /\ e.pid <= Len(procs)
  BY <1>1, ClosedIs
<1>6. Free(<<>>)
  BY MoreOf
<1> HIDE DEF e
<1> QED  BY <1>1, <1>2, <1>3, <1>4, <1>5, <1>6, QuietTask

LEMMA CloseInv ==
    ASSUME SacInv, close
    PROVE  SacInv'
<1> DEFINE e == [tab[pm] EXCEPT !.fd = FALSE]
<1>1. running /\ ~Idle /\ task.do = "close" /\ pm \in DOMAIN tab /\ mask \in SUBSET Signals
      /\ procs \in Seq(Procs) /\ told \in [Tags(scenario) -> State]
  BY Doings DEF close, Doing
<1>2. UNCHANGED <<scenario, given, file, faults, starts, doubled, procs, told>>
  BY DEF close, worldVars, histories
<1>3. GoesOn(<<>>, mask) /\ tab' = [tab EXCEPT ![pm] = e]
  BY DEF close, Then
<1>4. e \in Entries /\ e.rsmax = tab[pm].rsmax /\ e.rscnt = tab[pm].rscnt /\ e.pid <= Len(procs)
  BY <1>1, ClosedIs
<1>5. Free(<<>>)
  BY MoreOf
<1> HIDE DEF e
<1> QED  BY <1>1, <1>2, <1>3, <1>4, <1>5, QuietTask

LEMMA SetOkInv ==
    ASSUME SacInv, SetOk
    PROVE  SacInv'
<1> DEFINE b == (task.do = "answered")
           e == [tab[pm] EXCEPT !.ok = b]
<1>1. running /\ ~Idle /\ task.do \in {"asked", "answered"}
  BY DEF SetOk, Doing
<1>2. pm \in DOMAIN tab /\ mask \in SUBSET Signals
      /\ procs \in Seq(Procs) /\ told \in [Tags(scenario) -> State] /\ task.do # "count"
  BY <1>1, Doings
<1>3. UNCHANGED <<scenario, given, file, faults, starts, doubled, procs, told>>
  BY DEF SetOk, worldVars, histories
<1>4. GoesOn(<<>>, mask) /\ tab' = [tab EXCEPT ![pm] = e]
  BY DEF SetOk, Then
<1>5. b \in BOOLEAN
  OBVIOUS
<1> HIDE DEF b
<1>6. e \in Entries /\ e.rsmax = tab[pm].rsmax /\ e.rscnt = tab[pm].rscnt /\ e.pid <= Len(procs)
  BY <1>2, <1>5, ClosedIs
<1>7. Free(<<>>)
  BY MoreOf
<1> HIDE DEF e
<1> QED  BY <1>1, <1>2, <1>3, <1>4, <1>6, <1>7, QuietTask

LEMMA RestoreInv ==
    ASSUME SacInv, restore
    PROVE  SacInv'
<1>1. running /\ ~Idle /\ task.do = "restore" /\ task.mask \in SUBSET Signals
      /\ procs \in Seq(Procs) /\ told \in [Tags(scenario) -> State]
  BY Doings DEF restore, Doing
<1>2. UNCHANGED <<scenario, given, file, faults, starts, doubled, procs, told, tab>> /\ GoesOn(<<>>, task.mask)
  BY DEF restore, worldVars, histories
<1>3. Free(<<>>)
  BY MoreOf
<1> QED  BY <1>1, <1>2, <1>3, QuietTask

LEMMA SendInv ==
    ASSUME SacInv, sendpmmsg
    PROVE  SacInv'
<1>1. running /\ ~Idle /\ task.do = "send" /\ mask \in SUBSET Signals
      /\ procs \in Seq(Procs) /\ told \in [Tags(scenario) -> State]
  BY Doings DEF sendpmmsg, Doing
<1>2. UNCHANGED <<scenario, given, file, faults, starts, doubled, procs, told, tab>> /\ GoesOn(<<>>, mask)
  BY DEF sendpmmsg, worldVars, histories, Then
<1>3. Free(<<>>)
  BY MoreOf
<1> QED  BY <1>1, <1>2, <1>3, QuietTask

\* What is left of a task when its first field is set.
LEMMA FieldsAre ==
    /\ \A f \in Plain : Tail(f) = <<>> \/ Tail(f) \in Plain
    /\ \A f \in Lasting : Tail(f) = <<>> \/ Tail(f) \in Plain \cup Lasting
<1>1. \A a : Tail(<<a>>) = <<>>
  OBVIOUS
<1>2. \A a, b : Tail(<<a, b>>) = <<b>>
  OBVIOUS
<1>3. \A a, b, c : Tail(<<a, b, c>>) = <<b, c>>
  OBVIOUS
<1>4. \A a, b, c, d : Tail(<<a, b, c, d>>) = <<b, c, d>>
  OBVIOUS
<1>5. \A f \in Plain : Tail(f) = <<>> \/ Tail(f) \in Plain
  <2>1. Tail(<<"sstate">>) = <<>> /\ Tail(<<"pstate">>) = <<>>
    BY <1>1
  <2>2. <<"sstate">> \in Plain /\ <<"pstate">> \in Plain /\ <<"pstate", "pstate">> \in Plain
    BY DEF Plain
  <2>3. Tail(<<"pstate", "sstate">>) = <<"sstate">> /\ Tail(<<"pstate", "pstate">>) = <<"pstate">>
    BY <1>2
  <2>4. Tail(<<"sstate", "pstate", "pstate">>) = <<"pstate", "pstate">>
    BY <1>3
  <2>5. SUFFICES ASSUME NEW f \in Plain PROVE Tail(f) = <<>> \/ Tail(f) \in Plain
    OBVIOUS
  <2>6. CASE f = <<"sstate">>
    BY <2>6, <2>1, <2>2, <2>3, <2>4
  <2>7. CASE f = <<"pstate">>
    BY <2>7, <2>1, <2>2, <2>3, <2>4
  <2>8. CASE f = <<"pstate", "sstate">>
    BY <2>8, <2>1, <2>2, <2>3, <2>4
  <2>9. CASE f = <<"pstate", "pstate">>
    BY <2>9, <2>1, <2>2, <2>3, <2>4
  <2>10. CASE f = <<"sstate", "pstate", "pstate">>
    BY <2>10, <2>1, <2>2, <2>3, <2>4
  <2> QED  BY <2>6, <2>7, <2>8, <2>9, <2>10 DEF Plain
<1>6. \A f \in Lasting : Tail(f) = <<>> \/ Tail(f) \in Plain \cup Lasting
  <2>1. Tail(<<"lstate">>) = <<>> /\ Tail(<<"sstate", "lstate">>) = <<"lstate">>
        /\ Tail(<<"pstate", "lstate">>) = <<"lstate">> /\ Tail(<<"lstate", "pstate">>) = <<"pstate">>
    BY <1>1, <1>2
  <2>2. <<"lstate">> \in Lasting /\ <<"pstate">> \in Plain /\ <<"lstate", "pstate">> \in Lasting
        /\ <<"pstate", "lstate", "pstate">> \in Lasting
    BY DEF Plain, Lasting
  <2>3. Tail(<<"pstate", "lstate", "pstate">>) = <<"lstate", "pstate">>
    BY <1>3
  <2>4. Tail(<<"sstate", "pstate", "lstate", "pstate">>) = <<"pstate", "lstate", "pstate">>
    BY <1>4
  <2>5. SUFFICES ASSUME NEW f \in Lasting PROVE Tail(f) = <<>> \/ Tail(f) \in Plain \cup Lasting
    OBVIOUS
  <2>6. CASE f = <<"lstate">>
    BY <2>6, <2>1, <2>2, <2>3, <2>4
  <2>7. CASE f = <<"sstate", "lstate">>
    BY <2>7, <2>1, <2>2, <2>3, <2>4
  <2>8. CASE f = <<"pstate", "lstate">>
    BY <2>8, <2>1, <2>2, <2>3, <2>4
  <2>9. CASE f = <<"lstate", "pstate">>
    BY <2>9, <2>1, <2>2, <2>3, <2>4
  <2>10. CASE f = <<"pstate", "lstate", "pstate">>
    BY <2>10, <2>1, <2>2, <2>3, <2>4
  <2>11. CASE f = <<"sstate", "pstate", "lstate", "pstate">>
    BY <2>11, <2>1, <2>2, <2>3, <2>4
  <2> QED  BY <2>6, <2>7, <2>8, <2>9, <2>10, <2>11 DEF Lasting
<1> QED  BY <1>5, <1>6

LEMMA SetStateInv ==
    ASSUME SacInv, SetState
    PROVE  SacInv'
<1> DEFINE field == Head(task.fields)
           rest == Tail(task.fields)
           to == task.to
           e == [tab[pm] EXCEPT ![field] = to]
           x == Set(pm, rest, to)
<1>1. running /\ ~Idle /\ task.do = "set" /\ pm \in DOMAIN tab /\ mask \in SUBSET Signals
      /\ procs \in Seq(Procs) /\ told \in [Tags(scenario) -> State]
      /\ \/ task.fields \in Plain /\ to \in State
         \/ task.fields \in Lasting /\ to \in LastStates
  BY Doings DEF SetState, Doing
<1>2. UNCHANGED <<scenario, given, file, faults, starts, doubled, procs>>
  BY DEF SetState, worldVars
<1>3. /\ tab' = [tab EXCEPT ![pm] = e]
      /\ told' = told \/ told' = [told EXCEPT ![pm] = to]
      /\ GoesOn(IF rest = <<>> THEN <<>> ELSE <<x>>, mask)
  BY DEF SetState, Then
<1>4. tab[pm] \in Entries /\ tab[pm].pid <= Len(procs) /\ pm \in Tags(scenario)
  BY <1>1, EntryIs
<1>5. to \in State
  BY <1>1 DEF LastStates, State
<1>6. field \in {"sstate", "pstate", "lstate"} /\ (field = "lstate" => to \in LastStates)
  BY <1>1 DEF Plain, Lasting
<1>7. rest # <<>> => \/ rest \in Plain
                     \/ rest \in Lasting /\ to \in LastStates
  BY <1>1, <1>5, FieldsAre
<1> HIDE DEF field, rest, to
<1>8. e \in Entries /\ e.rsmax = tab[pm].rsmax /\ e.rscnt = tab[pm].rscnt /\ e.pid <= Len(procs)
  <2>1. CASE field = "sstate"
    BY <1>4, <1>5, <2>1 DEF Entries
  <2>2. CASE field = "pstate"
    BY <1>4, <1>5, <2>2 DEF Entries
  <2>3. CASE field = "lstate"
    BY <1>4, <1>6, <2>3 DEF Entries
  <2> QED  BY <1>6, <2>1, <2>2, <2>3
<1>9. told' \in [Tags(scenario) -> State]
  BY <1>1, <1>3, <1>4, <1>5
<1>10. CASE rest = <<>>
  <2>1. GoesOn(<<>>, mask) /\ Free(<<>>)
    BY <1>3, <1>10, MoreOf
  <2> HIDE DEF e
  <2> QED  BY <1>1, <1>2, <1>3, <1>8, <1>9, <2>1, QuietTask
<1>11. CASE rest # <<>>
  <2>1. x \in NextTasks /\ x.do = "set"
    BY <1>1, <1>5, <1>7, <1>11, HasTasks
  <2>2. GoesOn(<<x>>, mask) /\ Free(<<x>>) /\ <<x>>[1] = x /\ x.do \notin Starting
    BY <1>3, <1>11, <2>1, MoreOf DEF Starting
  <2> HIDE DEF e, x
  <2> QED  BY <1>1, <1>2, <1>3, <1>8, <1>9, <2>2, QuietTask
<1> QED  BY <1>10, <1>11

\* Killing makes no process.
LEMMA KilledIs ==
    ASSUME procs \in Seq(Procs), NEW t, Killed(t)
    PROVE  procs' \in Seq(Procs) /\ Len(procs') = Len(procs)
<1> DEFINE p == checklock(t)
<1>1. CASE p = 0
  BY <1>1 DEF Killed, Ends
<1>2. CASE p # 0
  <2>1. p \in DOMAIN procs
    BY <1>2 DEF checklock
  <2>2. procs[p] \in Procs
    BY <2>1
  <2> HIDE DEF p
  <2>3. procs' = procs \/ \E st \in {"zombie", "none", "kill"} : procs' = [procs EXCEPT ![p].st = st]
    BY <1>2 DEF Killed, Ends, p
  <2>4. \A st \in {"zombie", "none", "kill"} : [procs[p] EXCEPT !.st = st] \in Procs
    BY <2>2 DEF Procs, ProcSts, Alive, Holds
  <2> QED  BY <2>1, <2>3, <2>4, ProcIs
<1> QED  BY <1>1, <1>2

LEMMA KillInv ==
    ASSUME SacInv, kill
    PROVE  SacInv'
<1> DEFINE x == Task("check", pm)
           y == Restore(pm, mask)
           m == mask \cup {"CLD"}
<1>1. running /\ ~Idle /\ task.do = "kill" /\ pm \in DOMAIN tab /\ mask \in SUBSET Signals
      /\ procs \in Seq(Procs) /\ told \in [Tags(scenario) -> State]
  BY Doings DEF kill, Doing
<1>2. UNCHANGED <<scenario, given, file, faults, starts, doubled, told, tab>>
  BY DEF kill, worldVars, histories
<1>3. GoesOn(<<x, y>>, m) /\ Killed(pm)
  BY DEF kill
<1>4. procs' \in Seq(Procs) /\ Len(procs') = Len(procs)
  BY <1>1, <1>3, KilledIs
<1>5. pm \in Nat
  BY <1>1, EntryIs
<1>6. x \in NextTasks /\ x.do = "check" /\ y \in LaterTasks
  BY <1>1, <1>5, HasTasks
<1>7. m \in SUBSET Signals
  BY <1>1 DEF Signals
<1> HIDE DEF x, y, m
<1>8. Free(<<x, y>>) /\ <<x, y>>[1] = x
  BY <1>6, MoreOf
<1>9. x.do \notin Starting
  BY <1>6 DEF Starting
<1> QED  BY <1>1, <1>2, <1>3, <1>4, <1>7, <1>8, <1>9, QuietTask

LEMMA TerminateInv ==
    ASSUME SacInv, terminate
    PROVE  SacInv'
<1>1. running /\ ~Idle /\ task.do = "terminate" /\ pm \in DOMAIN tab /\ mask \in SUBSET Signals
      /\ procs \in Seq(Procs) /\ told \in [Tags(scenario) -> State]
  BY Doings DEF terminate, Doing
<1>2. UNCHANGED <<scenario, given, file, faults, starts, doubled>> /\ GoesOn(<<>>, mask) /\ Free(<<>>)
  BY MoreOf DEF terminate, worldVars, Then
<1>3. CASE checklock(pm) = 0
  <2>1. UNCHANGED <<tab, procs, told>>
    BY <1>3 DEF terminate
  <2> QED  BY <1>1, <1>2, <2>1, QuietTask
<1>4. CASE checklock(pm) # 0
  <2> DEFINE e == [tab[pm] EXCEPT !.lstate = "NOTRUNNING", !.sstate = "NOTRUNNING", !.pstate = "STOPPING"]
  <2>1. procs' = Terminated({pm}) /\ tab' = [tab EXCEPT ![pm] = e]
        /\ told' = [told EXCEPT ![pm] = "NOTRUNNING"]
    BY <1>4 DEF terminate
  <2>2. procs' \in Seq(Procs) /\ Len(procs') = Len(procs)
    BY <1>1, <2>1, TerminatedIs
  <2>3. tab[pm] \in Entries /\ tab[pm].pid <= Len(procs) /\ pm \in Tags(scenario)
    BY <1>1, EntryIs
  <2>4. e \in Entries /\ e.rsmax = tab[pm].rsmax /\ e.rscnt = tab[pm].rscnt /\ e.pid <= Len(procs)
    BY <2>3 DEF Entries, State, LastStates
  <2>5. told' \in [Tags(scenario) -> State]
    BY <1>1, <2>1, <2>3 DEF State
  <2> HIDE DEF e
  <2> QED  BY <1>1, <1>2, <2>1, <2>2, <2>4, <2>5, QuietTask
<1> QED  BY <1>3, <1>4

-----------------------------------------------------------------------------
(***************************************************************************)
(* Each step keeps the invariant: the tasks by which port monitors are     *)
(* started.                                                                *)
(***************************************************************************)

\* The handlers under the one on top.
LEMMA LowCounts ==
    ASSUME SacInv, running /\ ~Idle, NEW t
    PROVE  /\ Count(Front(stack), t, Counting) \in Nat /\ Count(Front(stack), t, Starting) \in Nat
           /\ Count(Front(stack), t, Counting) <= Count(Front(stack), t, Starting)
           /\ t \in DOMAIN tab =>
                 Limited(MostRestarts(t), doubled[t], tab[t].rscnt,
                         Count(Front(stack), t, Counting) + Is(task, t, Counting),
                         starts[t], Count(Front(stack), t, Starting) + Is(task, t, Starting))
           /\ t \notin DOMAIN tab => Count(Front(stack), t, Counting) = 0 /\ Count(Front(stack), t, Starting) = 0
           /\ IsMain(Top.by) => Count(Front(stack), t, Counting) = 0 /\ Count(Front(stack), t, Starting) = 0
<1> DEFINE T == DOMAIN tab
           n == Len(procs)
           low == Front(stack)
<1>1. StackOK(stack, T, n) /\ n \in Nat /\ stack # <<>>
  BY DEF SacInv, Idle
<1> HIDE DEF T, n, low
<1>2. StackOK(Front(stack), T, n) /\ (IsMain(stack[Len(stack)].by) => Front(stack) = <<>>)
  BY <1>1, StackPop
<1>3. low \in Seq(Frames(T, n)) /\ (IsMain(Top.by) => low = <<>>)
  BY <1>2 DEF StackOK, low, Top
<1>4. \A does : Count(low, t, does) \in Nat /\ (low = <<>> => Count(low, t, does) = 0)
  BY <1>3, CountIs
<1>5. Count(low, t, Counting) <= Count(low, t, Starting)
  BY <1>3, CountLess
<1>6. t \in DOMAIN tab =>
         Limited(MostRestarts(t), doubled[t], tab[t].rscnt, Count(low, t, Counting) + Is(task, t, Counting),
                 starts[t], Count(low, t, Starting) + Is(task, t, Starting))
  <2>1. \A does : Count(stack, t, does) = Count(low, t, does) + Is(task, t, does)
    BY <1>1, TopIs DEF low
  <2> QED  BY <2>1 DEF SacInv, Within
<1>7. ASSUME t \notin T PROVE Count(low, t, Counting) = 0 /\ Count(low, t, Starting) = 0
  <2>1. ASSUME NEW i \in DOMAIN low PROVE ~ (Head(low[i].todo).tag = t /\ Head(low[i].todo).do \in Starting)
    <3> DEFINE q == low[i].todo
               by == low[i].by
    <3>1. low[i] \in Frames(T, n)
      BY <1>3, <2>1
    <3>2. Chain(q, T, n, by) /\ q # <<>>
      BY <3>1 DEF Frames
    <3> HIDE DEF q, by
    <3>3. Head(q) = q[1] /\ q[1] \in Tasks(T, n)
      BY <3>2, ChainTail
    <3>4. Head(q).do \in Starting => Head(q).tag \in T
      BY <1>1, <3>3, TaskOf DEF Starting
    <3> QED  BY <1>7, <3>4 DEF q
  <2>2. Coming(low, t, Counting) = {} /\ Coming(low, t, Starting) = {}
    BY <2>1 DEF Coming, Counting, Starting
  <2> QED  BY <2>2, FS_EmptySet DEF Count
<1> QED  BY <1>3, <1>4, <1>5, <1>6, <1>7 DEF low, T

\* A handler goes on and may start something.
LEMMA BusyStep ==
    ASSUME SacInv, running /\ ~Idle, UNCHANGED <<scenario, given, file>>,
           faults' \in 0..scenario.most, procs' \in Seq(Procs), Len(procs) <= Len(procs'),
           told' \in [Tags(scenario) -> State], starts' \in [Tags(scenario) -> Nat],
           doubled' \in [Tags(scenario) -> Nat],
           TabOK(tab', Len(procs')), DOMAIN tab \subseteq DOMAIN tab',
           NEW more, Chain(more, DOMAIN tab', Len(procs'), Top.by),
           \A k \in DOMAIN more : more[k] \in Reading => task \in Reading /\ more[k].lines = task.lines,
           NEW m \in SUBSET Signals, GoesOn(more, m),
           \A t \in DOMAIN tab' :
              Limited(MostRestarts(t), doubled'[t], tab'[t].rscnt,
                      Count(Front(stack), t, Counting) + Ahead(more, t, Counting),
                      starts'[t], Count(Front(stack), t, Starting) + Ahead(more, t, Starting))
    PROVE  SacInv'
<1> DEFINE U == DOMAIN tab'
           n == Len(procs')
<1>1. n \in Nat /\ Len(procs) <= n /\ DOMAIN tab \subseteq U /\ stack # <<>> /\ Chain(more, U, n, Top.by)
  BY DEF Idle
<1> HIDE DEF U, n
<1>2. StackOK(stack', U, n)
  BY <1>1, GoesOnIs
<1>3. mask' \subseteq Signals
  BY <1>1, GoesOnIs
<1>4. Recount(Front(stack), stack', more)
  BY <1>1, GoesOnIs
<1>5. \A t : /\ Count(stack', t, Counting) = Count(Front(stack), t, Counting) + Ahead(more, t, Counting)
             /\ Count(stack', t, Starting) = Count(Front(stack), t, Starting) + Ahead(more, t, Starting)
  BY <1>4 DEF Recount, Counting, Starting
<1>6. ASSUME NEW t \in DOMAIN tab'
      PROVE  Limited(MostRestarts(t), doubled'[t], tab'[t].rscnt, Count(stack', t, Counting),
                     starts'[t], Count(stack', t, Starting))
  BY <1>5
<1> QED  BY <1>2, <1>3, <1>6, SacNext DEF SacInv, U, n

\* A signal comes, and its handler may start something.
LEMMA BusyHandle ==
    ASSUME SacInv, NEW sig \in Signals, NEW todo, Chain(todo, DOMAIN tab, Len(procs), sig),
           \A k \in DOMAIN todo : todo[k] \notin Reading, Handle(sig, todo),
           UNCHANGED <<scenario, procs, told>>,
           given' \in 0..Len(scenario.commands), faults' \in 0..scenario.most, file' \in Tables,
           starts' \in [Tags(scenario) -> Nat], doubled' \in [Tags(scenario) -> Nat],
           TabOK(tab', Len(procs)), DOMAIN tab = DOMAIN tab',
           \A t \in DOMAIN tab' :
              Limited(MostRestarts(t), doubled'[t], tab'[t].rscnt,
                      Count(stack, t, Counting) + Ahead(todo, t, Counting),
                      starts'[t], Count(stack, t, Starting) + Ahead(todo, t, Starting))
    PROVE  SacInv'
<1>1. todo # <<>> => Last(todo) \notin Reading
  BY DEF Last, Chain
<1>2. StackOK(stack', DOMAIN tab, Len(procs)) /\ mask' \subseteq Signals /\ Recount(stack, stack', todo)
  BY <1>1, HandleIs
<1>3. \A t : /\ Count(stack', t, Counting) = Count(stack, t, Counting) + Ahead(todo, t, Counting)
             /\ Count(stack', t, Starting) = Count(stack, t, Starting) + Ahead(todo, t, Starting)
  BY <1>2 DEF Recount, Counting, Starting
<1>4. ASSUME NEW t \in DOMAIN tab'
      PROVE  Limited(MostRestarts(t), doubled'[t], tab'[t].rscnt, Count(stack', t, Counting),
                     starts'[t], Count(stack', t, Starting))
  BY <1>3
<1> QED  BY <1>2, <1>4, SacNext DEF SacInv

LEMMA ForkInv ==
    ASSUME SacInv, fork
    PROVE  SacInv'
<1>1. running /\ ~Idle /\ task.do = "fork" /\ pm \in DOMAIN tab /\ mask \in SUBSET Signals
      /\ procs \in Seq(Procs) /\ told \in [Tags(scenario) -> State]
  BY Doings DEF fork, Doing
<1>2. UNCHANGED <<scenario, given, file, doubled, told, tab>>
  BY DEF fork, worldVars
<1>3. mask \cup {"CLD"} \in SUBSET Signals
  BY <1>1 DEF Signals
<1>4. CASE Faults({"nofork"}) /\ GoesOn(<<>>, mask \cup {"CLD"}) /\ UNCHANGED <<procs, starts>>
  <2>1. faults' \in 0..scenario.most
    BY <1>4, FaultsAre
  <2>2. Chain(<<>>, DOMAIN tab, Len(procs'), Top.by) /\ \A k \in DOMAIN <<>> : FALSE
    BY <1>4, MoreOf DEF Free
  <2>3. TabOK(tab', Len(procs')) /\ stack # <<>> /\ Len(procs) <= Len(procs')
    BY <1>1, <1>2, <1>4 DEF SacInv, Idle
  <2>4. GoesOn(<<>>, mask \cup {"CLD"})
    BY <1>4
  <2> DEFINE more == <<>>
             m == mask \cup {"CLD"}
  <2>5. /\ Chain(more, DOMAIN tab, Len(procs'), Top.by) /\ GoesOn(more, m) /\ m \in SUBSET Signals
        /\ \A k \in DOMAIN more : more[k] \in Reading => task \in Reading /\ more[k].lines = task.lines
        /\ more = <<>>
    BY <1>3, <2>2, <2>4
  <2> HIDE DEF more, m
  <2> QED  BY <1>1, <1>2, <1>4, <2>1, <2>3, <2>5, QuietStep
<1>5. CASE /\ procs' = Append(procs, [tag |-> pm, st |-> "boot", mode |-> ISTATE(tab[pm]), child |-> TRUE])
           /\ starts' = [starts EXCEPT ![pm] = @ + 1]
           /\ GoesOn(<<Started("starting", pm, Len(procs) + 1, mask)>>, mask \cup {"CLD"})
           /\ UNCHANGED faults
  <2> DEFINE x == Started("starting", pm, Len(procs) + 1, mask)
             more == <<x>>
             T == DOMAIN tab
             n == Len(procs')
             by == Top.by
             m == mask \cup {"CLD"}
             p == [tag |-> pm, st |-> "boot", mode |-> ISTATE(tab[pm]), child |-> TRUE]
  <2>1. tab[pm] \in Entries /\ pm \in Tags(scenario)
    BY <1>1, EntryIs
  <2>2. p \in Procs
    BY <2>1 DEF ISTATE, Procs, ProcSts, Alive, Holds, Modes
  <2>3. procs' \in Seq(Procs) /\ n = Len(procs) + 1 /\ Len(procs) \in Nat
    <3> HIDE DEF p
    <3>1. procs' = Append(procs, p)
      BY <1>5 DEF p
    <3> QED  BY <1>1, <2>2, <3>1
  <2>4. n \in Nat /\ Len(procs) + 1 \in 0..n
    BY <2>3
  <2>5. x \in Nexts(T, n) /\ x.do = "starting" /\ x \notin Startups
    <3> HIDE DEF n, T
    <3>1. pm \in T
      BY <1>1 DEF T
    <3>2. x \in Nexts(T, n) /\ x.do = "starting"
      BY <1>1, <2>4, <3>1, TasksHave
    <3> QED  BY <3>2, KindsDiffer
  <2>6. Chain(more, T, n, by) /\ (\A k \in DOMAIN more : more[k] \notin Reading) /\ more # <<>> /\ more[1] = x
    <3> HIDE DEF n, T, by, x
    <3> QED  BY <2>4, <2>5, FewTasks
  <2>7. starts' \in [Tags(scenario) -> Nat] /\ doubled' \in [Tags(scenario) -> Nat] /\ faults' \in 0..scenario.most
    BY <1>2, <1>5, <2>1 DEF SacInv
  <2>8. TabOK(tab', n) /\ DOMAIN tab \subseteq DOMAIN tab'
    <3>1. \A t \in DOMAIN tab : tab[t].pid <= n
      <4>1. \A t \in DOMAIN tab : tab[t].pid <= Len(procs) /\ tab[t].pid \in Nat
        BY EntryIs DEF Entries
      <4> QED  BY <2>3, <4>1
    <3> QED  BY <1>2, <3>1 DEF SacInv, TabOK
  <2>9. ASSUME NEW t \in DOMAIN tab'
        PROVE  Limited(MostRestarts(t), doubled'[t], tab'[t].rscnt,
                       Count(Front(stack), t, Counting) + Ahead(more, t, Counting),
                       starts'[t], Count(Front(stack), t, Starting) + Ahead(more, t, Starting))
    <3> DEFINE c == Count(Front(stack), t, Counting)
               g == Count(Front(stack), t, Starting)
    <3>1. t \in DOMAIN tab /\ doubled[t] \in Nat /\ starts[t] \in Nat /\ tab[t].rscnt \in Nat
      BY <1>2, EntryIs DEF Entries
    <3>2. /\ c \in Nat /\ g \in Nat
          /\ Limited(MostRestarts(t), doubled[t], tab[t].rscnt, c + Is(task, t, Counting),
                     starts[t], g + Is(task, t, Starting))
      BY <1>1, <3>1, LowCounts
    <3>3. Ahead(more, t, Counting) = 0 /\ Ahead(more, t, Starting) = 0
      BY <2>5, <2>6 DEF Ahead, Is, Counting, Starting
    <3>4. Is(task, t, Counting) = 0 /\ Is(task, t, Starting) = IF t = pm THEN 1 ELSE 0
      BY <1>1 DEF Is, Counting, Starting, pm
    <3>5. starts'[t] = starts[t] + IF t = pm THEN 1 ELSE 0
      BY <1>1, <1>5, <2>1, <3>1 DEF SacInv, TabOK
    <3> HIDE DEF c, g, more
    <3>6. Limited(MostRestarts(t), doubled[t], tab[t].rscnt, c, starts'[t], g)
      <4>1. PICK u, v \in Nat : /\ u + v = doubled[t]
                                /\ tab[t].rscnt + (c + Is(task, t, Counting)) <= MostRestarts(t) + u
                                /\ starts[t] + (g + Is(task, t, Starting))
                                   <= 1 + tab[t].rscnt + (c + Is(task, t, Counting)) + v
        BY <3>2 DEF Limited
      <4>2. tab[t].rscnt + c <= MostRestarts(t) + u
        BY <3>2, <3>4, <4>1
      <4>3. starts'[t] + g <= 1 + tab[t].rscnt + c + v
        BY <3>1, <3>2, <3>4, <3>5, <4>1
      <4> QED  BY <4>1, <4>2, <4>3 DEF Limited
    <3>7. c + Ahead(more, t, Counting) = c /\ g + Ahead(more, t, Starting) = g
      BY <3>2, <3>3
    <3> QED  BY <1>2, <3>6, <3>7 DEF c, g
  <2>10. GoesOn(more, m) /\ m \in SUBSET Signals /\ DOMAIN tab' = DOMAIN tab
    BY <1>2, <1>3, <1>5
  <2>11. Chain(more, DOMAIN tab', Len(procs'), Top.by) /\ TabOK(tab', Len(procs')) /\ Len(procs) <= Len(procs')
    BY <2>3, <2>6, <2>8, <2>10
  <2> HIDE DEF more, m, n
  <2> QED  BY <1>1, <1>2, <2>3, <2>6, <2>7, <2>8, <2>9, <2>10, <2>11, BusyStep
<1> QED  BY <1>4, <1>5 DEF fork

LEMMA CountInv ==
    ASSUME SacInv, count
    PROVE  SacInv'
<1> DEFINE e == Counted(tab[pm])
           x == Task("startpm", pm)
           more == <<x>>
<1>1. running /\ ~Idle /\ task.do = "count" /\ pm \in DOMAIN tab /\ mask \in SUBSET Signals
      /\ procs \in Seq(Procs) /\ told \in [Tags(scenario) -> State] /\ Len(procs) \in Nat
  BY Doings DEF count, Doing
<1>2. UNCHANGED <<scenario, given, file, faults, starts, doubled, procs, told>>
  BY DEF count, worldVars, histories
<1>3. tab' = [tab EXCEPT ![pm] = e] /\ GoesOn(more, mask)
  BY DEF count, Then
<1>4. tab[pm] \in Entries /\ tab[pm].pid <= Len(procs) /\ tab[pm].rsmax <= MostRestarts(pm)
  BY <1>1, EntryIs
<1>5. e \in Entries /\ e.rsmax = tab[pm].rsmax /\ e.rscnt = tab[pm].rscnt + 1 /\ e.pid <= Len(procs)
  <2>1. tab[pm].rscnt + 1 \in Nat
    BY <1>4 DEF Entries
  <2> DEFINE r == tab[pm].rscnt + 1
  <2>2. e = [tab[pm] EXCEPT !.rscnt = r, !.fd = FALSE]
    BY DEF Counted
  <2> HIDE DEF e
  <2>3. r \in Nat
    BY <2>1
  <2> HIDE DEF r
  <2>4. e \in Entries /\ e.rsmax = tab[pm].rsmax /\ e.rscnt = r /\ e.pid = tab[pm].pid
    BY <1>4, <2>2, <2>3 DEF Entries
  <2> QED  BY <1>4, <2>4 DEF r
<1> HIDE DEF e
<1>6. /\ TabOK(tab', Len(procs')) /\ DOMAIN tab' = DOMAIN tab
      /\ \A u \in DOMAIN tab : tab'[u] = IF u = pm THEN e ELSE tab[u]
  <2> DEFINE n == Len(procs)
  <2>1. n \in Nat /\ Len(procs) <= n /\ e.pid <= n /\ e.rsmax <= MostRestarts(pm)
    BY <1>1, <1>4, <1>5
  <2> HIDE DEF n
  <2>2. /\ TabOK(tab', n) /\ DOMAIN tab' = DOMAIN tab
        /\ \A u \in DOMAIN tab : tab'[u] = IF u = pm THEN e ELSE tab[u]
    BY <1>1, <1>3, <1>5, <2>1, SetEntry
  <2> QED  BY <1>2, <2>2 DEF n
<1>7. x \in NextTasks /\ x.do = "startpm" /\ x.tag = pm
  BY <1>1, HasTasks DEF Task
<1> HIDE DEF x
<1>8. Free(more) /\ more # <<>> /\ more[1] = x
  BY <1>7, MoreOf
<1> HIDE DEF more
<1>9. ASSUME NEW t \in DOMAIN tab'
      PROVE  Limited(MostRestarts(t), doubled'[t], tab'[t].rscnt,
                     Count(Front(stack), t, Counting) + Ahead(more, t, Counting),
                     starts'[t], Count(Front(stack), t, Starting) + Ahead(more, t, Starting))
  <2> DEFINE c == Count(Front(stack), t, Counting)
             g == Count(Front(stack), t, Starting)
  <2>1. t \in DOMAIN tab /\ doubled[t] \in Nat /\ starts[t] \in Nat /\ tab[t].rscnt \in Nat /\ MostRestarts(t) \in Nat
    BY <1>6, EntryIs DEF Entries
  <2>2. /\ c \in Nat /\ g \in Nat
        /\ Limited(MostRestarts(t), doubled[t], tab[t].rscnt, c + Is(task, t, Counting),
                   starts[t], g + Is(task, t, Starting))
    BY <1>1, <2>1, LowCounts
  <2>3. Ahead(more, t, Counting) = 0 /\ Ahead(more, t, Starting) = IF t = pm THEN 1 ELSE 0
    BY <1>7, <1>8 DEF Ahead, Is, Counting, Starting
  <2>4. Is(task, t, Counting) = (IF t = pm THEN 1 ELSE 0) /\ Is(task, t, Starting) = IF t = pm THEN 1 ELSE 0
    BY <1>1 DEF Is, Counting, Starting, pm
  <2>5. tab'[t].rscnt = tab[t].rscnt + IF t = pm THEN 1 ELSE 0
    BY <1>5, <1>6, <2>1
  <2> HIDE DEF c, g
  <2>6. PICK u, v \in Nat : /\ u + v = doubled[t]
                            /\ tab[t].rscnt + (c + Is(task, t, Counting)) <= MostRestarts(t) + u
                            /\ starts[t] + (g + Is(task, t, Starting))
                               <= 1 + tab[t].rscnt + (c + Is(task, t, Counting)) + v
    BY <2>2 DEF Limited
  <2>7. tab'[t].rscnt + (c + Ahead(more, t, Counting)) <= MostRestarts(t) + u
    BY <2>1, <2>2, <2>3, <2>4, <2>5, <2>6
  <2>8. starts[t] + (g + Ahead(more, t, Starting)) <= 1 + tab'[t].rscnt + (c + Ahead(more, t, Counting)) + v
    BY <2>1, <2>2, <2>3, <2>4, <2>5, <2>6
  <2> QED  BY <1>2, <2>6, <2>7, <2>8 DEF Limited, c, g
<1>10. /\ faults' \in 0..scenario.most /\ starts' \in [Tags(scenario) -> Nat]
       /\ doubled' \in [Tags(scenario) -> Nat] /\ told' \in [Tags(scenario) -> State]
  BY <1>2 DEF SacInv
<1>11. Chain(more, DOMAIN tab', Len(procs'), Top.by) /\ Len(procs) <= Len(procs') /\ procs' \in Seq(Procs)
       /\ \A k \in DOMAIN more : more[k] \in Reading => task \in Reading /\ more[k].lines = task.lines
  BY <1>1, <1>2, <1>6, <1>8 DEF Free
<1> QED  BY <1>1, <1>2, <1>3, <1>6, <1>9, <1>10, <1>11, BusyStep

\* A handler that finds that a restart is left.
LEMMA CheckInv ==
    ASSUME SacInv, check
    PROVE  SacInv'
<1>1. running /\ ~Idle /\ task.do = "check" /\ pm \in DOMAIN tab /\ mask \in SUBSET Signals
      /\ procs \in Seq(Procs) /\ told \in [Tags(scenario) -> State] /\ Len(procs) \in Nat
  BY Doings DEF check, Doing
<1>2. UNCHANGED <<scenario, given, file, faults, starts, procs, told, tab>>
  BY DEF check, worldVars
<1>3. CASE ~MayRestart(tab[pm])
  <2> DEFINE x == Set(pm, <<"pstate", "sstate">>, "FAILED")
             y == Task("close", pm)
             more == <<x, y>>
  <2>1. GoesOn(more, mask) /\ doubled' = doubled
    BY <1>3 DEF check, Then, Failed
  <2>2. <<"pstate", "sstate">> \in Plain /\ "FAILED" \in State
    BY DEF Plain, State
  <2>3. x \in NextTasks /\ x.do = "set" /\ y \in LaterTasks
    BY <1>1, <2>2, HasTasks
  <2> HIDE DEF x, y
  <2>4. Free(more) /\ more[1] = x /\ x.do \notin Starting
    BY <2>3, MoreOf DEF Starting
  <2> HIDE DEF more
  <2> QED  BY <1>1, <1>2, <2>1, <2>4, QuietTask
<1>4. CASE MayRestart(tab[pm])
  <2> DEFINE x == Task("count", pm)
             more == <<x>>
             both == Pending(Len(stack) - 1, {"count"}, pm) # {}
  <2>1. GoesOn(more, mask) /\ doubled' = IF both THEN [doubled EXCEPT ![pm] = @ + 1] ELSE doubled
    BY <1>4 DEF check, Then
  <2>2. x \in NextTasks /\ x.do = "count" /\ x.tag = pm
    BY <1>1, HasTasks DEF Task
  <2>3. ~both => Count(Front(stack), pm, Counting) = 0
    <3> DEFINE low == Front(stack)
    <3>1. DOMAIN low = 1..(Len(stack) - 1) /\ \A i \in 1..(Len(stack) - 1) : low[i] = stack[i]
      BY DEF Front
    <3> HIDE DEF low
    <3>2. Coming(low, pm, Counting) = Pending(Len(stack) - 1, {"count"}, pm)
      BY <3>1 DEF Coming, Pending, Counting
    <3> QED  BY <3>2, FS_EmptySet DEF Count, low
  <2> HIDE DEF x, both
  <2>4. Free(more) /\ more # <<>> /\ more[1] = x
    BY <2>2, MoreOf
  <2> HIDE DEF more
  <2>5. tab[pm].rscnt < MostRestarts(pm)
    <3>1. tab[pm].rscnt \in Nat /\ tab[pm].rsmax \in Nat /\ tab[pm].rsmax <= MostRestarts(pm) /\ MostRestarts(pm) \in Nat
      BY <1>1, EntryIs DEF Entries
    <3> QED  BY <1>4, <3>1 DEF MayRestart
  <2>6. ASSUME NEW t \in DOMAIN tab'
        PROVE  Limited(MostRestarts(t), doubled'[t], tab'[t].rscnt,
                       Count(Front(stack), t, Counting) + Ahead(more, t, Counting),
                       starts'[t], Count(Front(stack), t, Starting) + Ahead(more, t, Starting))
    <3> DEFINE c == Count(Front(stack), t, Counting)
               g == Count(Front(stack), t, Starting)
    <3>1. t \in DOMAIN tab /\ doubled[t] \in Nat /\ starts[t] \in Nat /\ tab[t].rscnt \in Nat /\ MostRestarts(t) \in Nat
      BY <1>2, EntryIs DEF Entries
    <3>2. /\ c \in Nat /\ g \in Nat
          /\ Limited(MostRestarts(t), doubled[t], tab[t].rscnt, c + Is(task, t, Counting),
                     starts[t], g + Is(task, t, Starting))
      BY <1>1, <3>1, LowCounts
    <3>3. /\ Ahead(more, t, Counting) = (IF t = pm THEN 1 ELSE 0)
          /\ Ahead(more, t, Starting) = (IF t = pm THEN 1 ELSE 0)
      BY <2>2, <2>4 DEF Ahead, Is, Counting, Starting
    <3>4. Is(task, t, Counting) = 0 /\ Is(task, t, Starting) = 0
      BY <1>1 DEF Is, Counting, Starting
    <3>5. doubled'[t] = doubled[t] + IF t = pm /\ both THEN 1 ELSE 0
      BY <1>1, <2>1, <3>1, EntryIs DEF SacInv
    <3>6. t = pm /\ ~both => c = 0
      BY <2>3
    <3> HIDE DEF c, g
    <3>7. PICK u, v \in Nat : /\ u + v = doubled[t]
                              /\ tab[t].rscnt + (c + Is(task, t, Counting)) <= MostRestarts(t) + u
                              /\ starts[t] + (g + Is(task, t, Starting))
                                 <= 1 + tab[t].rscnt + (c + Is(task, t, Counting)) + v
      BY <3>2 DEF Limited
    <3> DEFINE w == IF t = pm /\ both THEN u + 1 ELSE u
    <3>8. w \in Nat /\ w + v = doubled'[t]
      BY <3>1, <3>5, <3>7
    <3>9. tab[t].rscnt + (c + Ahead(more, t, Counting)) <= MostRestarts(t) + w
      BY <2>5, <3>1, <3>2, <3>3, <3>4, <3>6, <3>7
    <3>10. starts[t] + (g + Ahead(more, t, Starting)) <= 1 + tab[t].rscnt + (c + Ahead(more, t, Counting)) + v
      BY <3>1, <3>2, <3>3, <3>4, <3>7
    <3> HIDE DEF w
    <3> QED  BY <1>2, <3>7, <3>8, <3>9, <3>10 DEF Limited, c, g
  <2>7. /\ faults' \in 0..scenario.most /\ starts' \in [Tags(scenario) -> Nat]
        /\ doubled' \in [Tags(scenario) -> Nat] /\ told' \in [Tags(scenario) -> State]
        /\ TabOK(tab', Len(procs')) /\ DOMAIN tab \subseteq DOMAIN tab'
    <3>1. doubled' \in [Tags(scenario) -> Nat]
      BY <1>1, <2>1, EntryIs DEF SacInv
    <3> QED  BY <1>2, <3>1 DEF SacInv
  <2>8. Chain(more, DOMAIN tab', Len(procs'), Top.by) /\ Len(procs) <= Len(procs') /\ procs' \in Seq(Procs)
        /\ \A k \in DOMAIN more : more[k] \in Reading => task \in Reading /\ more[k].lines = task.lines
    BY <1>1, <1>2, <2>4 DEF Free
  <2> QED  BY <1>1, <1>2, <2>1, <2>6, <2>7, <2>8, BusyStep
<1> QED  BY <1>3, <1>4

-----------------------------------------------------------------------------
(***************************************************************************)
(* Each step keeps the invariant: the loops over the table.                *)
(***************************************************************************)

\* The entry behind t.
LEMMA AfterIs ==
    ASSUME NEW t, NEW T \in SUBSET Nat
    PROVE  After(t, T) \subseteq T
<1> DEFINE later == {u \in T : u > t}
<1>1. CASE later = {}
  BY <1>1 DEF After
<1>2. CASE later # {}
  <2>1. \E x \in later : \A y \in later : x <= y
    BY <1>2, LeastNat
  <2>2. Min(later) \in later
    BY <2>1 DEF Min
  <2> QED  BY <1>2, <2>2 DEF After
<1> QED  BY <1>1, <1>2

\* The tags of the table are numbers.
LEMMA TabTags ==
    ASSUME SacInv
    PROVE  DOMAIN tab \in SUBSET Nat /\ DOMAIN tab \in SUBSET Tags(scenario)
<1>1. DOMAIN tab \in SUBSET Tags(scenario)
  BY DEF SacInv, TabOK
<1> QED  BY <1>1, TagsAre DEF SacInv

LEMMA AppendIs ==
    ASSUME NEW a, NEW b, NEW c
    PROVE  Append(<<>>, a) = <<a>> /\ Append(<<b>>, a) = <<b, a>> /\ Append(<<b, c>>, a) = <<b, c, a>>
<1> DEFINE S == {a, b, c}
<1>1. Append(<<>>, a) = <<a>>
  OBVIOUS
<1>2. Append(<<b>>, a) = <<b, a>>
  <2> DEFINE p == Append(<<b>>, a)
             q == <<b, a>>
  <2>1. <<b>> \in Seq(S) /\ a \in S
    OBVIOUS
  <2>2. p \in Seq(S) /\ Len(p) = 2 /\ p[1] = b /\ p[2] = a
    BY <2>1
  <2>3. q \in Seq(S) /\ Len(q) = 2 /\ q[1] = b /\ q[2] = a
    OBVIOUS
  <2> HIDE DEF p, q, S
  <2>4. \A i \in 1..2 : p[i] = q[i]
    BY <2>2, <2>3
  <2>5. p = [i \in 1..2 |-> p[i]] /\ q = [i \in 1..2 |-> q[i]]
    BY <2>2, <2>3
  <2>6. p = q
    BY <2>4, <2>5
  <2> QED  BY <2>6 DEF p, q
<1>3. Append(<<b, c>>, a) = <<b, c, a>>
  <2> DEFINE p == Append(<<b, c>>, a)
             q == <<b, c, a>>
  <2>1. <<b, c>> \in Seq(S) /\ a \in S
    OBVIOUS
  <2>2. p \in Seq(S) /\ Len(p) = 3 /\ p[1] = b /\ p[2] = c /\ p[3] = a
    BY <2>1
  <2>3. q \in Seq(S) /\ Len(q) = 3 /\ q[1] = b /\ q[2] = c /\ q[3] = a
    OBVIOUS
  <2> HIDE DEF p, q, S
  <2>4. \A i \in 1..3 : p[i] = q[i]
    BY <2>2, <2>3
  <2>5. p = [i \in 1..3 |-> p[i]] /\ q = [i \in 1..3 |-> q[i]]
    BY <2>2, <2>3
  <2>6. p = q
    BY <2>4, <2>5
  <2> QED  BY <2>6 DEF p, q
<1> QED  BY <1>1, <1>2, <1>3

LEMMA PollpmsInv ==
    ASSUME SacInv, pollpms
    PROVE  SacInv'
<1>1. running /\ ~Idle /\ task.do = "pollpms" /\ mask \in SUBSET Signals
      /\ procs \in Seq(Procs) /\ told \in [Tags(scenario) -> State] /\ Len(procs) \in Nat
  BY Doings DEF pollpms, Doing
<1>2. UNCHANGED <<scenario, given, file, faults, starts, doubled, procs, told, tab>>
  BY DEF pollpms, worldVars, histories
<1>3. CASE After(pm, DOMAIN tab) = {}
  <2>1. GoesOn(<<>>, mask) /\ Free(<<>>)
    BY <1>3, MoreOf DEF pollpms, Then
  <2> QED  BY <1>1, <1>2, <2>1, QuietTask
<1>4. CASE After(pm, DOMAIN tab) # {}
  <2>1. PICK t \in After(pm, DOMAIN tab) : GoesOn(Append(Polled(t, tab[t]), Task("pollpms", t)), mask)
    BY <1>4 DEF pollpms, Then
  <2>2. t \in DOMAIN tab /\ t \in Nat
    BY AfterIs, TabTags
  <2> DEFINE w == Task("pollpms", t)
             x == Task("pollfail", t)
             y == Send(t, PollMessage(tab[t]))
             z == Task("asked", t)
  <2>3. PollMessage(tab[t]) \in Messages
    BY DEF PollMessage, Messages
  <2>4. /\ w \in LaterTasks /\ w.do = "pollpms" /\ x \in NextTasks /\ x.do = "pollfail"
        /\ y \in LaterTasks /\ y.do = "send" /\ z \in LaterTasks
    BY <2>2, <2>3, HasTasks
  <2>5. GoesOn(<<w>>, mask) \/ GoesOn(<<x, w>>, mask) \/ GoesOn(<<y, z, w>>, mask)
    <3>1. Polled(t, tab[t]) = <<>> \/ Polled(t, tab[t]) = <<x>> \/ Polled(t, tab[t]) = <<y, z>>
      BY DEF Polled
    <3> HIDE DEF w, x, y, z
    <3>2. Append(<<>>, w) = <<w>> /\ Append(<<x>>, w) = <<x, w>> /\ Append(<<y, z>>, w) = <<y, z, w>>
      BY AppendIs
    <3>3. GoesOn(Append(Polled(t, tab[t]), w), mask)
      BY <2>1 DEF w
    <3> QED  BY <3>1, <3>2, <3>3
  <2> HIDE DEF w, x, y, z
  <2>6. Free(<<w>>) /\ <<w>>[1] = w /\ Free(<<x, w>>) /\ <<x, w>>[1] = x
    BY <2>4, MoreOf
  <2>7. Free(<<y, z, w>>) /\ <<y, z, w>>[1] = y
    BY <2>4, MoreOf3
  <2>8. {w.do, x.do, y.do} \cap Starting = {}
    BY <2>4 DEF Starting
  <2>9. CASE GoesOn(<<w>>, mask)
    BY <1>1, <1>2, <2>6, <2>8, <2>9, QuietTask
  <2>10. CASE GoesOn(<<x, w>>, mask)
    BY <1>1, <1>2, <2>6, <2>8, <2>10, QuietTask
  <2>11. CASE GoesOn(<<y, z, w>>, mask)
    BY <1>1, <1>2, <2>7, <2>8, <2>11, QuietTask
  <2> QED  BY <2>5, <2>9, <2>10, <2>11
<1> QED  BY <1>3, <1>4

LEMMA StartpmsInv ==
    ASSUME SacInv, startpms
    PROVE  SacInv'
<1>1. running /\ ~Idle /\ task.do = "startpms" /\ mask \in SUBSET Signals /\ IsMain(Top.by)
      /\ procs \in Seq(Procs) /\ told \in [Tags(scenario) -> State] /\ Len(procs) \in Nat
  BY Doings DEF startpms, Doing
<1>2. UNCHANGED <<scenario, given, file, starts, doubled>>
  BY DEF startpms, worldVars
<1> DEFINE locked == {t \in DOMAIN tab : checklock(t) # 0}
<1>3. CASE locked = {} /\ Then(<<Task("startall", 0)>>) /\ UNCHANGED <<tab, procs, faults, told>>
  <2> DEFINE x == Task("startall", 0)
  <2>1. GoesOn(<<x>>, mask)
    BY <1>3 DEF Then
  <2>2. Free(<<x>>) /\ x.do \notin Starting
    <3> DEFINE T == DOMAIN tab
               n == Len(procs)
               by == Top.by
    <3>1. n \in Nat /\ IsMain(by)
      BY <1>1
    <3> HIDE DEF T, n, by
    <3>2. x \in Laters(T, n) /\ x.do = "startall"
      BY <3>1, LoopsHave
    <3> HIDE DEF x
    <3>3. Chain(<<x>>, T, n, by) /\ (\A k \in DOMAIN <<x>> : <<x>>[k] \notin Reading)
      BY <3>1, <3>2, FewTasks
    <3> QED  BY <3>2, <3>3 DEF Free, Starting, T, n, by
  <2> HIDE DEF x
  <2> QED  BY <1>1, <1>2, <1>3, <2>1, <2>2, QuietTask
<1>4. ASSUME NEW pipes \in BOOLEAN,
             tab' = [t \in DOMAIN tab |->
                        IF t \in locked
                        THEN [tab[t] EXCEPT !.sstate = "UNKNOWN", !.pstate = "UNKNOWN",
                                            !.ok = pipes, !.fd = pipes, !.pid = checklock(t)]
                        ELSE tab[t]],
             procs' = IF pipes THEN procs ELSE Terminated(locked),
             told' = [t \in DOMAIN told |-> IF t \in locked THEN "UNKNOWN" ELSE told[t]],
             Faults(IF pipes THEN {} ELSE {"nopipe"}), Then(<<>>)
      PROVE  SacInv'
  <2>1. \A t \in DOMAIN tab : checklock(t) \in 0..Len(procs)
    BY <1>1 DEF checklock
  <2> HIDE DEF locked
  <2>2. procs' \in Seq(Procs) /\ Len(procs') = Len(procs)
    BY <1>1, <1>4, TerminatedIs
  <2>3. told' \in [Tags(scenario) -> State] /\ faults' \in 0..scenario.most
    BY <1>1, <1>4, FaultsAre DEF State
  <2>4. ASSUME NEW t \in DOMAIN tab
        PROVE  tab'[t] \in Entries /\ tab'[t].rsmax = tab[t].rsmax /\ tab'[t].rscnt = tab[t].rscnt
               /\ tab'[t].pid <= Len(procs)
    <3>1. tab[t] \in Entries /\ tab[t].pid <= Len(procs)
      BY EntryIs
    <3> DEFINE p == checklock(t)
               e == [tab[t] EXCEPT !.sstate = "UNKNOWN", !.pstate = "UNKNOWN",
                                   !.ok = pipes, !.fd = pipes, !.pid = p]
    <3>2. p \in Nat /\ p <= Len(procs)
      BY <1>1, <2>1
    <3>3. tab'[t] = IF t \in locked THEN e ELSE tab[t]
      BY <1>4
    <3> HIDE DEF p
    <3>4. e \in Entries /\ e.rsmax = tab[t].rsmax /\ e.rscnt = tab[t].rscnt /\ e.pid = p
      BY <3>1, <3>2 DEF Entries, State
    <3> HIDE DEF e
    <3> QED  BY <3>1, <3>2, <3>3, <3>4
  <2>5. TabOK(tab', Len(procs')) /\ DOMAIN tab' = DOMAIN tab /\ \A t \in DOMAIN tab : tab'[t].rscnt = tab[t].rscnt
    <3>1. DOMAIN tab' = DOMAIN tab /\ tab' = [t \in DOMAIN tab |-> tab'[t]]
      BY <1>4
    <3>2. tab' \in [DOMAIN tab -> Entries]
      BY <2>4, <3>1
    <3>3. \A t \in DOMAIN tab : tab'[t].rsmax <= MostRestarts(t)
      BY <2>4, EntryIs
    <3>4. DOMAIN tab \subseteq Tags(scenario)
      BY TabTags
    <3> QED  BY <2>2, <2>4, <3>1, <3>2, <3>3, <3>4 DEF TabOK
  <2> DEFINE more == <<>>
  <2>6. /\ Chain(more, DOMAIN tab, Len(procs'), Top.by) /\ GoesOn(more, mask) /\ more = <<>>
        /\ \A k \in DOMAIN more : more[k] \in Reading => task \in Reading /\ more[k].lines = task.lines
    BY <1>4, <2>2, MoreOf DEF Free, Then
  <2> HIDE DEF more
  <2>7. stack # <<>> /\ Len(procs) <= Len(procs')
    BY <1>1, <2>2 DEF Idle
  <2> QED  BY <1>1, <1>2, <2>2, <2>3, <2>5, <2>6, <2>7, QuietStep
<1> QED  BY <1>3, <1>4 DEF startpms

\* The port monitors to start: the main program has no handler under it.
LEMMA StartallInv ==
    ASSUME SacInv, startall
    PROVE  SacInv'
<1>1. running /\ ~Idle /\ task.do = "startall" /\ mask \in SUBSET Signals /\ IsMain(Top.by)
      /\ procs \in Seq(Procs) /\ told \in [Tags(scenario) -> State] /\ Len(procs) \in Nat
  BY Doings DEF startall, Doing
<1>2. UNCHANGED <<scenario, given, file, faults, starts, procs, told, tab>>
  BY DEF startall, worldVars
<1>3. CASE After(pm, DOMAIN tab) = {}
  <2>1. GoesOn(<<>>, mask) /\ Free(<<>>) /\ doubled' = doubled
    BY <1>3, MoreOf DEF startall, Then
  <2> QED  BY <1>1, <1>2, <2>1, QuietTask
<1>4. CASE After(pm, DOMAIN tab) # {}
  <2>1. PICK t \in After(pm, DOMAIN tab) :
           IF tab[t].X THEN Then(<<Task("startall", t)>>) /\ UNCHANGED doubled
           ELSE /\ Then(<<Task("startpm", t), Task("startall", t)>>)
                /\ doubled' = IF starts[t] = 0 THEN doubled ELSE [doubled EXCEPT ![t] = @ + 1]
    BY <1>4 DEF startall
  <2>2. t \in DOMAIN tab /\ t \in Nat
    BY AfterIs, TabTags
  <2> DEFINE x == Task("startpm", t)
             y == Task("startall", t)
  <2>3. x.do = "startpm" /\ x.tag = t /\ y.do = "startall" /\ y.do \notin Starting
    BY DEF Task, Starting
  <2>4. Free(<<y>>) /\ <<y>>[1] = y /\ Free(<<x, y>>) /\ <<x, y>>[1] = x
    <3> DEFINE T == DOMAIN tab
               n == Len(procs)
               by == Top.by
    <3>1. n \in Nat /\ IsMain(by) /\ t \in T
      BY <1>1, <2>2
    <3> HIDE DEF T, n, by
    <3>2. y \in Laters(T, n) /\ x \in Nexts(T, n)
      BY <2>2, <3>1, LoopsHave, TasksHave
    <3> HIDE DEF x, y
    <3>3. Chain(<<y>>, T, n, by) /\ (\A k \in DOMAIN <<y>> : <<y>>[k] \notin Reading) /\ <<y>>[1] = y
      BY <3>1, <3>2, FewTasks
    <3>4. Chain(<<x, y>>, T, n, by) /\ (\A k \in DOMAIN <<x, y>> : <<x, y>>[k] \notin Reading) /\ <<x, y>>[1] = x
      BY <3>1, <3>2, FewTasks
    <3> QED  BY <3>3, <3>4 DEF Free, T, n, by
  <2>5. CASE tab[t].X
    <3>1. GoesOn(<<y>>, mask) /\ doubled' = doubled
      BY <2>1, <2>5 DEF Then
    <3> HIDE DEF y
    <3> QED  BY <1>1, <1>2, <2>3, <2>4, <3>1, QuietTask
  <2>6. CASE ~tab[t].X
    <3> DEFINE more == <<x, y>>
    <3>1. GoesOn(more, mask) /\ doubled' = IF starts[t] = 0 THEN doubled ELSE [doubled EXCEPT ![t] = @ + 1]
      BY <2>1, <2>6 DEF Then
    <3> HIDE DEF x, y
    <3>2. more # <<>> /\ more[1] = x /\ Free(more)
      BY <2>4
    <3> HIDE DEF more
    <3>3. ASSUME NEW u \in DOMAIN tab'
          PROVE  Limited(MostRestarts(u), doubled'[u], tab'[u].rscnt,
                         Count(Front(stack), u, Counting) + Ahead(more, u, Counting),
                         starts'[u], Count(Front(stack), u, Starting) + Ahead(more, u, Starting))
      <4>1. u \in DOMAIN tab /\ doubled[u] \in Nat /\ starts[u] \in Nat /\ tab[u].rscnt \in Nat
        BY <1>2, EntryIs DEF Entries
      <4>2. /\ Count(Front(stack), u, Counting) = 0 /\ Count(Front(stack), u, Starting) = 0
            /\ Limited(MostRestarts(u), doubled[u], tab[u].rscnt, 0 + Is(task, u, Counting),
                       starts[u], 0 + Is(task, u, Starting))
        <5>1. /\ Count(Front(stack), u, Counting) = 0 /\ Count(Front(stack), u, Starting) = 0
              /\ Limited(MostRestarts(u), doubled[u], tab[u].rscnt,
                         Count(Front(stack), u, Counting) + Is(task, u, Counting),
                         starts[u], Count(Front(stack), u, Starting) + Is(task, u, Starting))
          BY <1>1, <4>1, LowCounts
        <5> QED  BY <5>1
      <4>3. Is(task, u, Counting) = 0 /\ Is(task, u, Starting) = 0
        BY <1>1 DEF Is, Counting, Starting
      <4>4. Ahead(more, u, Counting) = 0 /\ Ahead(more, u, Starting) = IF u = t THEN 1 ELSE 0
        BY <2>3, <3>2 DEF Ahead, Is, Counting, Starting
      <4>5. doubled'[u] = doubled[u] + IF u = t /\ starts[t] # 0 THEN 1 ELSE 0
        BY <2>2, <3>1, <4>1, EntryIs DEF SacInv
      <4>6. PICK v, w \in Nat : v + w = doubled[u] /\ tab[u].rscnt <= MostRestarts(u) + v
                                /\ starts[u] <= 1 + tab[u].rscnt + w
        <5>1. PICK v, w \in Nat : v + w = doubled[u] /\ tab[u].rscnt + (0 + 0) <= MostRestarts(u) + v
                                  /\ starts[u] + (0 + 0) <= 1 + tab[u].rscnt + (0 + 0) + w
          BY <4>2, <4>3 DEF Limited
        <5>2. tab[u].rscnt <= MostRestarts(u) + v
          BY <4>1, <5>1
        <5>3. starts[u] <= 1 + tab[u].rscnt + w
          BY <4>1, <5>1
        <5> QED  BY <5>1, <5>2, <5>3
      <4> DEFINE w2 == IF u = t /\ starts[t] # 0 THEN w + 1 ELSE w
      <4>7. w2 \in Nat /\ v + w2 = doubled'[u]
        BY <4>1, <4>5, <4>6
      <4>8. starts[u] + (IF u = t THEN 1 ELSE 0) <= 1 + tab[u].rscnt + w2
        BY <4>1, <4>6
      <4> HIDE DEF w2
      <4>9. Limited(MostRestarts(u), doubled'[u], tab[u].rscnt, 0, starts[u], IF u = t THEN 1 ELSE 0)
        <5>1. tab[u].rscnt + 0 <= MostRestarts(u) + v
              /\ starts[u] + (IF u = t THEN 1 ELSE 0) <= 1 + tab[u].rscnt + 0 + w2
          BY <4>1, <4>6, <4>8
        <5> QED  BY <4>6, <4>7, <5>1 DEF Limited
      <4>10. 0 + Ahead(more, u, Counting) = 0 /\ 0 + Ahead(more, u, Starting) = IF u = t THEN 1 ELSE 0
        BY <4>4
      <4> QED  BY <1>2, <4>2, <4>9, <4>10
    <3>4. /\ faults' \in 0..scenario.most /\ starts' \in [Tags(scenario) -> Nat]
          /\ doubled' \in [Tags(scenario) -> Nat] /\ told' \in [Tags(scenario) -> State]
          /\ TabOK(tab', Len(procs')) /\ DOMAIN tab \subseteq DOMAIN tab'
      <4>1. doubled' \in [Tags(scenario) -> Nat]
        BY <2>2, <3>1, EntryIs DEF SacInv
      <4> QED  BY <1>2, <4>1 DEF SacInv
    <3>5. Chain(more, DOMAIN tab', Len(procs'), Top.by) /\ Len(procs) <= Len(procs') /\ procs' \in Seq(Procs)
          /\ \A k \in DOMAIN more : more[k] \in Reading => task \in Reading /\ more[k].lines = task.lines
      BY <1>1, <1>2, <3>2 DEF Free
    <3> QED  BY <1>1, <1>2, <3>1, <3>3, <3>4, <3>5, BusyStep
  <2> QED  BY <2>5, <2>6
<1> QED  BY <1>3, <1>4

\* What the contents of the file say.
LEMMA LinesAre ==
    ASSUME SacInv, NEW l \in Tables
    PROVE  /\ DOMAIN l \in SUBSET Nat /\ DOMAIN l \in SUBSET Tags(scenario)
           /\ \A t \in DOMAIN l : l[t] \in Line /\ l[t].rsmax <= MostRestarts(t)
                                  /\ Entry(l[t]) \in Entries
<1>1. scenario \in Scenarios /\ ScenarioType(scenario)
  BY ScenarioAssumption DEF SacInv
<1>2. PICK i \in DOMAIN scenario.tables : l = scenario.tables[i]
  BY DEF Tables
<1>3. DOMAIN l \in SUBSET Tags(scenario)
  BY <1>1, <1>2, TagsAre
<1>4. \A t \in DOMAIN l : l[t] \in Line
  BY <1>1, <1>2 DEF ScenarioType
<1>5. \A t \in DOMAIN l : l[t].rsmax <= MostRestarts(t)
  BY <1>1, <1>2, <1>3, MostIs
<1>6. \A t \in DOMAIN l : Entry(l[t]) \in Entries
  BY <1>4 DEF Line, Entry, Entries, State, LastStates
<1>7. DOMAIN l \in SUBSET Nat
  BY <1>1, <1>3, TagsAre
<1> QED  BY <1>3, <1>4, <1>5, <1>6, <1>7

-----------------------------------------------------------------------------
(***************************************************************************)
(* Each step keeps the invariant: AC_SACREAD.                              *)
(***************************************************************************)

LEMMA ReadTableInv ==
    ASSUME SacInv, read_table
    PROVE  SacInv'
<1> DEFINE lines == task.lines
           n == Len(procs)
           by == Top.by
<1>1. running /\ ~Idle /\ task.do = "read_table" /\ mask \in SUBSET Signals /\ task \in Reading
      /\ procs \in Seq(Procs) /\ told \in [Tags(scenario) -> State] /\ n \in Nat /\ lines \in Tables
  BY Doings DEF read_table, Doing
<1>2. UNCHANGED <<scenario, given, file, faults, procs>>
  BY DEF read_table, worldVars
<1> HIDE DEF lines
<1>3. \A u, does : Is(task, u, Counting) = 0 /\ Is(task, u, Starting) = 0
  BY <1>1 DEF Is, Counting, Starting
<1>4. DOMAIN lines \in SUBSET Nat /\ DOMAIN lines \in SUBSET Tags(scenario)
      /\ \A t \in DOMAIN lines : lines[t] \in Line /\ lines[t].rsmax <= MostRestarts(t)
                                 /\ Entry(lines[t]) \in Entries
  BY <1>1, LinesAre
<1>5. CASE After(pm, DOMAIN lines) = {}
  <2> DEFINE x == Read("purge", 0, lines)
             more == <<x>>
  <2>1. GoesOn(more, mask) /\ UNCHANGED <<tab, starts, doubled, told>>
    BY <1>5 DEF read_table, Then, lines
  <2>2. x \in Reading /\ x.do = "purge" /\ x.lines = lines
    BY <1>1, LoopsHave
  <2> HIDE DEF x
  <2>3. Chain(more, DOMAIN tab, Len(procs'), Top.by) /\ more[1] = x /\ \A k \in DOMAIN more : more[k] = x
    <3> DEFINE T == DOMAIN tab
    <3>1. x \in Tasks(T, n) /\ x \notin Startups
      BY <2>2 DEF Tasks, Startups
    <3> HIDE DEF T, n, by
    <3>2. Chain(<<x>>, T, n, by)
      BY <3>1, ChainOf
    <3> QED  BY <1>2, <3>2 DEF T, n, by
  <2> HIDE DEF more
  <2>4. \A k \in DOMAIN more : more[k] \in Reading => task \in Reading /\ more[k].lines = task.lines
    BY <1>1, <2>2, <2>3 DEF lines
  <2>5. stack # <<>> /\ TabOK(tab', Len(procs')) /\ Len(procs) <= Len(procs') /\ procs' \in Seq(Procs)
        /\ told' \in [Tags(scenario) -> State] /\ faults' \in 0..scenario.most
    BY <1>1, <1>2, <2>1 DEF Idle, SacInv
  <2>6. more[1].do \notin Starting
    BY <2>2, <2>3 DEF Starting
  <2> QED  BY <1>1, <1>2, <2>1, <2>3, <2>4, <2>5, <2>6, QuietStep
<1>6. CASE After(pm, DOMAIN lines) # {}
  <2>1. PICK t \in After(pm, DOMAIN lines) :
          IF t \in DOMAIN tab
          THEN /\ tab' = [tab EXCEPT ![t] = [@ EXCEPT !.rsmax = lines[t].rsmax, !.D = lines[t].D, !.X = lines[t].X]]
               /\ Then(<<Read("read_table", t, lines)>>)
               /\ UNCHANGED <<starts, doubled, told>>
          ELSE /\ tab' = [u \in DOMAIN tab \cup {t} |-> IF u = t THEN Entry(lines[t]) ELSE tab[u]]
               /\ Then(IF lines[t].X THEN <<Read("read_table", t, lines)>>
                       ELSE <<Task("startpm", t), Read("read_table", t, lines)>>)
               /\ starts' = [starts EXCEPT ![t] = 0]
               /\ doubled' = [doubled EXCEPT ![t] = 0]
               /\ told' = [told EXCEPT ![t] = "NOTRUNNING"]
    BY <1>6 DEF read_table, lines
  <2>2. t \in DOMAIN lines
    BY <1>4, AfterIs
  <2>3. t \in Nat /\ t \in Tags(scenario)
    BY <1>4, <2>2
  <2> DEFINE x == Read("read_table", t, lines)
             y == Task("startpm", t)
             U == DOMAIN tab \cup {t}
  <2>4. x \in Reading /\ x.do = "read_table" /\ x.lines = lines
    BY <1>1, <2>3, LoopsHave
  <2>5. y.do = "startpm" /\ y.tag = t
    BY DEF Task
  <2>6. /\ Chain(<<x>>, U, n, by) /\ <<x>>[1] = x /\ (\A k \in DOMAIN <<x>> : <<x>>[k] = x)
        /\ Chain(<<y, x>>, U, n, by) /\ <<y, x>>[1] = y /\ (\A k \in DOMAIN <<y, x>> : <<y, x>>[k] \in {x, y})
    <3>1. t \in U
      OBVIOUS
    <3> HIDE DEF x, U, n, by
    <3>2. n \in Nat
      BY <1>1 DEF n
    <3>3. y \in Nexts(U, n)
      BY <3>1, <3>2, TasksHave
    <3> HIDE DEF y
    <3>4. x \in Tasks(U, n) /\ x \notin Startups /\ y \notin Startups
      BY <2>4, <2>5 DEF Tasks, Startups
    <3>5. Chain(<<x>>, U, n, by)
      BY <3>4, ChainOf
    <3>7. \A k \in DOMAIN <<x>> : <<x>>[k] = x
      OBVIOUS
    <3>6. Chain(<<y, x>>, U, n, by) /\ (\A k \in DOMAIN <<y, x>> : <<y, x>>[k] \in {y, x})
      BY <2>4, <3>3, <3>4, ChainOf
    <3> QED  BY <3>5, <3>6, <3>7
  <2>7. y \notin Reading
    BY <2>5 DEF Reading
  <2>8. \A more \in {<<x>>, <<y, x>>} :
           \A k \in DOMAIN more : more[k] \in Reading => task \in Reading /\ more[k].lines = task.lines
    <3> HIDE DEF x, y
    <3> QED  BY <1>1, <2>4, <2>6, <2>7 DEF lines
  <2>9. x.do \notin Starting
    BY <2>4 DEF Starting
  <2>10. stack # <<>> /\ Len(procs) <= Len(procs') /\ procs' \in Seq(Procs) /\ faults' \in 0..scenario.most
    BY <1>1, <1>2 DEF Idle, SacInv
  <2>11. CASE t \in DOMAIN tab
    <3> DEFINE e == [tab[t] EXCEPT !.rsmax = lines[t].rsmax, !.D = lines[t].D, !.X = lines[t].X]
               more == <<x>>
    <3>1. tab' = [tab EXCEPT ![t] = e] /\ GoesOn(more, mask) /\ UNCHANGED <<starts, doubled, told>>
      BY <2>1, <2>11 DEF Then
    <3>2. tab[t] \in Entries /\ tab[t].pid <= Len(procs)
      BY <2>11, EntryIs
    <3>3. lines[t] \in Line /\ lines[t].rsmax <= MostRestarts(t)
      BY <1>4, <2>2
    <3>4. e \in Entries /\ e.rsmax <= MostRestarts(t) /\ e.rscnt = tab[t].rscnt /\ e.pid <= n
      BY <3>2, <3>3 DEF Entries, Line
    <3> HIDE DEF e, n, x
    <3>5. n \in Nat /\ Len(procs) <= n
      BY <1>1 DEF n
    <3>6. /\ TabOK(tab', n) /\ DOMAIN tab' = DOMAIN tab
          /\ \A u \in DOMAIN tab : tab'[u] = IF u = t THEN e ELSE tab[u]
      BY <2>11, <3>1, <3>4, <3>5, SetEntry
    <3>7. U = DOMAIN tab /\ more # <<>> /\ more[1].do \notin Starting
      BY <2>6, <2>9, <2>11
    <3>8. \A k \in DOMAIN more : more[k] \in Reading => task \in Reading /\ more[k].lines = task.lines
      BY <2>8
    <3>9. Chain(more, DOMAIN tab, Len(procs'), Top.by) /\ TabOK(tab', Len(procs'))
      BY <1>2, <2>6, <3>6, <3>7 DEF n
    <3> HIDE DEF more
    <3>10. \A u \in DOMAIN tab : tab'[u].rscnt = tab[u].rscnt
      BY <3>4, <3>6
    <3>11. told' \in [Tags(scenario) -> State]
      BY <1>1, <3>1
    <3> HIDE DEF lines, U, y, by
    <3> QED  BY <1>1, <1>2, <2>10, <3>1, <3>6, <3>7, <3>8, <3>9, <3>10, <3>11, QuietStep
  <2>12. CASE t \notin DOMAIN tab
    <3>1. /\ tab' = [u \in U |-> IF u = t THEN Entry(lines[t]) ELSE tab[u]]
          /\ GoesOn(<<x>>, mask) \/ GoesOn(<<y, x>>, mask)
          /\ starts' = [starts EXCEPT ![t] = 0]
          /\ doubled' = [doubled EXCEPT ![t] = 0]
          /\ told' = [told EXCEPT ![t] = "NOTRUNNING"]
      BY <2>1, <2>12 DEF Then
    <3>2. PICK more \in {<<x>>, <<y, x>>} : GoesOn(more, mask)
      BY <3>1
    <3>3. Chain(more, U, n, by) /\ more # <<>> /\ more[1] \in {x, y}
      BY <2>6, <3>2
    <3>4. \A k \in DOMAIN more : more[k] \in Reading => task \in Reading /\ more[k].lines = task.lines
      BY <2>8
    <3> DEFINE e == Entry(lines[t])
    <3>5. e \in Entries /\ e.rsmax <= MostRestarts(t) /\ e.rscnt = 0 /\ e.pid = 0
      <4>1. e.rsmax = lines[t].rsmax /\ e.rscnt = 0 /\ e.pid = 0
        BY DEF Entry
      <4> QED  BY <1>4, <2>2, <4>1
    <3>6. DOMAIN tab' = U /\ \A u \in U : tab'[u] = IF u = t THEN e ELSE tab[u]
      BY <3>1
    <3> HIDE DEF e
    <3>7. TabOK(tab', n)
      <4>1. \A u \in U : tab'[u] \in Entries /\ tab'[u].rsmax <= MostRestarts(u) /\ tab'[u].pid <= n
        BY <1>1, <3>5, <3>6, EntryIs
      <4>2. tab' = [u \in U |-> tab'[u]]
        BY <3>1, <3>6
      <4>3. tab' \in [U -> Entries]
        BY <4>1, <4>2
      <4>4. U \subseteq Tags(scenario)
        BY <2>3, TabTags
      <4> QED  BY <3>6, <4>1, <4>3, <4>4 DEF TabOK
    <3>8. starts' \in [Tags(scenario) -> Nat] /\ doubled' \in [Tags(scenario) -> Nat]
          /\ told' \in [Tags(scenario) -> State]
      BY <1>1, <2>3, <3>1 DEF SacInv, State
    <3>9. ASSUME NEW u \in DOMAIN tab'
          PROVE  Limited(MostRestarts(u), doubled'[u], tab'[u].rscnt,
                         Count(Front(stack), u, Counting) + Ahead(more, u, Counting),
                         starts'[u], Count(Front(stack), u, Starting) + Ahead(more, u, Starting))
      <4> DEFINE c == Count(Front(stack), u, Counting)
                 g == Count(Front(stack), u, Starting)
      <4>1. c \in Nat /\ g \in Nat
            /\ (u \in DOMAIN tab => Limited(MostRestarts(u), doubled[u], tab[u].rscnt, c + Is(task, u, Counting),
                                            starts[u], g + Is(task, u, Starting)))
            /\ (u \notin DOMAIN tab => c = 0 /\ g = 0)
        BY <1>1, LowCounts
      <4>2. Ahead(more, u, Counting) = 0 /\ Ahead(more, u, Starting) \in {0, 1}
            /\ (u # t => Ahead(more, u, Starting) = 0)
        BY <2>4, <2>5, <2>9, <3>3 DEF Ahead, Is, Counting, Starting
      <4> HIDE DEF c, g
      <4>3. CASE u # t
        <5>1. u \in DOMAIN tab /\ u \in Tags(scenario) /\ tab'[u] = tab[u]
          BY <3>6, <4>3, TabTags
        <5>2. starts'[u] = starts[u] /\ doubled'[u] = doubled[u]
          BY <3>1, <4>3, <5>1 DEF SacInv
        <5>3. c + Is(task, u, Counting) = c + Ahead(more, u, Counting)
              /\ g + Is(task, u, Starting) = g + Ahead(more, u, Starting)
          BY <1>3, <4>2, <4>3
        <5> QED  BY <4>1, <5>1, <5>2, <5>3 DEF c, g
      <4>4. CASE u = t
        <5>1. c = 0 /\ g = 0 /\ tab'[u].rscnt = 0 /\ MostRestarts(u) \in Nat
          BY <2>3, <2>12, <3>5, <3>6, <4>1, <4>4, MostIs DEF SacInv
        <5>2. starts'[u] = 0 /\ doubled'[u] = 0
          BY <2>3, <3>1, <4>4 DEF SacInv
        <5>3. 0 + 0 = 0 /\ 0 + (0 + 0) <= MostRestarts(u) + 0
              /\ \A a \in {0, 1} : 0 + (0 + a) <= 1 + 0 + (0 + 0) + 0
          BY <5>1
        <5>4. 0 + (0 + Ahead(more, u, Starting)) <= 1 + 0 + (0 + 0) + 0
          BY <4>2, <5>3
        <5>5. Limited(MostRestarts(u), 0, 0, 0 + 0, 0, 0 + Ahead(more, u, Starting))
          BY <5>3, <5>4 DEF Limited
        <5> QED  BY <4>2, <5>1, <5>2, <5>5 DEF c, g
      <4> QED  BY <4>3, <4>4
    <3>10. DOMAIN tab \subseteq DOMAIN tab' /\ TabOK(tab', Len(procs'))
           /\ Chain(more, DOMAIN tab', Len(procs'), Top.by)
      BY <1>2, <3>3, <3>6, <3>7
    <3> HIDE DEF x, y, U, by, n, lines
    <3> QED  BY <1>1, <1>2, <2>10, <3>2, <3>4, <3>8, <3>9, <3>10, BusyStep
  <2> QED  BY <2>11, <2>12
<1> QED  BY <1>5, <1>6

LEMMA PurgeInv ==
    ASSUME SacInv, purge
    PROVE  SacInv'
<1> DEFINE lines == task.lines
           n == Len(procs)
           by == Top.by
           U == DOMAIN tab
<1>1. running /\ ~Idle /\ task.do = "purge" /\ mask \in SUBSET Signals /\ task \in Reading
      /\ procs \in Seq(Procs) /\ told \in [Tags(scenario) -> State] /\ n \in Nat /\ lines \in Tables
  BY Doings DEF purge, Doing
<1>2. UNCHANGED <<scenario, given, file, faults, tab, starts, doubled, told>>
  BY DEF purge, worldVars, histories
<1> HIDE DEF lines
<1>3. CASE After(pm, DOMAIN tab \ DOMAIN lines) = {}
  <2>1. GoesOn(<<>>, mask) /\ Free(<<>>) /\ procs' = procs
    BY <1>3, MoreOf DEF purge, Then, lines
  <2> QED  BY <1>1, <1>2, <2>1, QuietTask
<1>4. CASE After(pm, DOMAIN tab \ DOMAIN lines) # {}
  <2>1. PICK t \in After(pm, DOMAIN tab \ DOMAIN lines) :
           \/ procs' = Terminated({t}) /\ GoesOn(<<Drop(t, lines, mask)>>, mask \cup {"CLD"})
           \/ GoesOn(<<Drop(t, lines, mask)>>, mask) /\ UNCHANGED procs
    BY <1>4 DEF purge, Then, lines
  <2>2. t \in DOMAIN tab \ DOMAIN lines
    BY TabTags, AfterIs
  <2>3. t \in Nat
    BY <2>2, TabTags
  <2> DEFINE x == Drop(t, lines, mask)
             more == <<x>>
  <2>4. x \in Reading /\ x.do = "remove" /\ x.lines = lines
    BY <1>1, <2>2, <2>3, LoopsHave
  <2> HIDE DEF x
  <2>5. PICK m \in SUBSET Signals : GoesOn(more, m)
    <3>1. mask \cup {"CLD"} \in SUBSET Signals
      BY <1>1 DEF Signals
    <3> QED  BY <1>1, <2>1, <3>1 DEF x
  <2>6. procs' \in Seq(Procs) /\ Len(procs') = Len(procs)
    BY <1>1, <2>1, TerminatedIs
  <2>7. Chain(more, DOMAIN tab, Len(procs'), Top.by) /\ more[1] = x /\ \A k \in DOMAIN more : more[k] = x
    <3>1. x \in Tasks(U, n) /\ x \notin Startups
      BY <2>4 DEF Tasks, Startups
    <3> HIDE DEF U, n, by
    <3>2. Chain(<<x>>, U, n, by)
      BY <3>1, ChainOf
    <3> QED  BY <2>6, <3>2 DEF U, n, by
  <2> HIDE DEF more
  <2>8. \A k \in DOMAIN more : more[k] \in Reading => task \in Reading /\ more[k].lines = task.lines
    BY <1>1, <2>4, <2>7 DEF lines
  <2>9. stack # <<>> /\ TabOK(tab', Len(procs')) /\ Len(procs) <= Len(procs')
        /\ told' \in [Tags(scenario) -> State] /\ faults' \in 0..scenario.most
    BY <1>1, <1>2, <2>6 DEF Idle, SacInv
  <2>10. more[1].do \notin Starting
    BY <2>4, <2>7 DEF Starting
  <2> QED  BY <1>1, <1>2, <2>5, <2>6, <2>7, <2>8, <2>9, <2>10, QuietStep
<1> QED  BY <1>3, <1>4

\* The entry that goes is one that no other handler is about.
LEMMA RemoveInv ==
    ASSUME SacInv, remove
    PROVE  SacInv'
<1> DEFINE lines == task.lines
           n == Len(procs)
           by == Top.by
           T == DOMAIN tab
           U == DOMAIN tab \ {pm}
           low == Front(stack)
           x == Read("purge", pm, lines)
           more == <<x>>
           m == task.mask
<1>1. running /\ ~Idle /\ task.do = "remove" /\ m \in SUBSET Signals /\ task \in Reading
      /\ procs \in Seq(Procs) /\ told \in [Tags(scenario) -> State] /\ n \in Nat /\ lines \in Tables
      /\ pm \notin DOMAIN lines /\ pm \in Nat
  BY Doings DEF remove, Doing
<1>2. UNCHANGED <<scenario, given, file, faults, procs, starts, doubled, told>>
      /\ tab' = [t \in U |-> tab[t]] /\ GoesOn(more, m)
  BY DEF remove, worldVars
<1>3. Top.todo # <<>> /\ Chain(Top.todo, T, n, by) /\ task = Top.todo[1] /\ stack # <<>>
      /\ Last(Top.todo) = task
  BY <1>1, TopIs DEF Idle
<1>4. Tail(Top.todo) = <<>>
  <2> DEFINE q == Top.todo
  <2>1. Chain(q, T, n, by) /\ q # <<>> /\ q[1] \in Reading
    BY <1>1, <1>3
  <2> HIDE DEF q, T, n, by
  <2>2. Tail(q) = <<>>
    BY <2>1, NothingBehind
  <2> QED  BY <2>2 DEF q
<1>5. /\ StackOK(low, T, n) /\ \A i \in DOMAIN low : /\ low[i] \in Frames(T \cap DOMAIN lines, n)
                                                     /\ Last(low[i].todo) \notin Reading
  <2>1. StackOK(stack, T, n) /\ n \in Nat
    BY <1>1 DEF SacInv
  <2> HIDE DEF T, n
  <2>2. /\ StackOK(Front(stack), T, n)
        /\ Last(stack[Len(stack)].todo) \in Reading =>
                 \A i \in DOMAIN Front(stack) :
                    /\ Front(stack)[i] \in Frames(T \cap DOMAIN Last(stack[Len(stack)].todo).lines, n)
                    /\ Last(Front(stack)[i].todo) \notin Reading
    BY <1>3, <2>1, StackPop
  <2> QED  BY <1>1, <1>3, <2>2 DEF Top
<1>6. T \cap DOMAIN lines \subseteq U /\ U \cap DOMAIN lines = T \cap DOMAIN lines
  BY <1>1
<1>7. x \in Reading /\ x.do = "purge" /\ x.lines = lines
  BY <1>1, LoopsHave
<1> HIDE DEF x
<1>8. Chain(more, U, n, by) /\ more[1] = x /\ more # <<>> /\ \A k \in DOMAIN more : more[k] = x
  <2>1. x \in Tasks(U, n) /\ x \notin Startups
    BY <1>7 DEF Tasks, Startups
  <2> HIDE DEF U, n, by
  <2>2. Chain(<<x>>, U, n, by)
    BY <2>1, ChainOf
  <2> QED  BY <2>2
<1> HIDE DEF more
<1>9. \A i \in DOMAIN low : low[i] \in Frames(U, n)
  <2> DEFINE V == T \cap DOMAIN lines
  <2>1. \A i \in DOMAIN low : low[i] \in Frames(V, n)
    BY <1>5
  <2>2. V \subseteq U /\ n \in Nat /\ n <= n
    BY <1>1, <1>6
  <2> HIDE DEF V, U, n, low
  <2>3. Frames(V, n) \subseteq Frames(U, n)
    BY <2>2, TasksGrow
  <2> QED  BY <2>1, <2>3
<1>10. StackOK(low, U, n)
  <2> HIDE DEF U, T, n, low
  <2>1. low \in Seq(Frames(T, n)) /\ \A i \in DOMAIN low : IsMain(low[i].by) => i = 1
    BY <1>5 DEF StackOK
  <2>2. low \in Seq(Frames(U, n))
    BY <1>9, <2>1
  <2>3. \A i \in DOMAIN low : Last(low[i].todo) \notin Reading
    BY <1>5
  <2> QED  BY <2>1, <2>2, <2>3 DEF StackOK
<1>11. \A k \in DOMAIN more : more[k] \in Reading => task \in Reading /\ more[k].lines = task.lines
  BY <1>1, <1>7, <1>8
<1>12. Last(Top.todo) \in Reading =>
           \A i \in DOMAIN Front(stack) :
               /\ Front(stack)[i] \in Frames(U \cap DOMAIN Last(Top.todo).lines, n)
               /\ Last(Front(stack)[i].todo) \notin Reading
  BY <1>3, <1>5, <1>6
<1>13. Chain(Tail(Top.todo), U, n, Top.by) /\ \A k \in DOMAIN Tail(Top.todo) : Tail(Top.todo)[k] \in Laters(U, n) \cup Reading
  <2>1. Chain(<<>>, U, n, by)
    BY ChainOf
  <2>2. Tail(Top.todo) = <<>>
    BY <1>4
  <2>3. \A k \in DOMAIN <<>> : FALSE
    OBVIOUS
  <2> QED  BY <2>1, <2>2, <2>3
<1>14. StackOK(Front(stack), U, n) /\ Chain(more, U, n, Top.by) /\ n \in Nat
  BY <1>1, <1>8, <1>10
<1>15. /\ StackOK(stack', U, n) /\ mask' \subseteq Signals /\ Recount(Front(stack), stack', more)
  <2> HIDE DEF U, n, m, low, by, T
  <2>1. StackOK(stack', U, n)
    BY <1>1, <1>2, <1>3, <1>11, <1>12, <1>13, <1>14, TopBecomes
  <2>2. mask' \subseteq Signals
    BY <1>1, <1>2, <1>3, <1>11, <1>12, <1>13, <1>14, TopBecomes
  <2>3. Recount(Front(stack), stack', more)
    BY <1>1, <1>2, <1>3, <1>11, <1>12, <1>13, <1>14, TopBecomes
  <2> QED  BY <2>1, <2>2, <2>3
<1>16. DOMAIN tab' = U /\ TabOK(tab', n)
  <2>1. DOMAIN tab' = U /\ \A t \in U : tab'[t] = tab[t] /\ t \in DOMAIN tab
    BY <1>2
  <2> QED  BY <1>2, <2>1 DEF SacInv, TabOK
<1>17. ASSUME NEW t \in DOMAIN tab'
       PROVE  Limited(MostRestarts(t), doubled'[t], tab'[t].rscnt, Count(stack', t, Counting),
                      starts'[t], Count(stack', t, Starting))
  <2>1. t \in DOMAIN tab /\ tab'[t] = tab[t]
    BY <1>2
  <2>2. /\ Count(Front(stack), t, Counting) \in Nat /\ Count(Front(stack), t, Starting) \in Nat
        /\ Limited(MostRestarts(t), doubled[t], tab[t].rscnt,
                   Count(Front(stack), t, Counting) + Is(task, t, Counting),
                   starts[t], Count(Front(stack), t, Starting) + Is(task, t, Starting))
    BY <1>1, <2>1, LowCounts
  <2>3. Is(task, t, Counting) = 0 /\ Is(task, t, Starting) = 0
    BY <1>1 DEF Is, Counting, Starting
  <2>4. Ahead(more, t, Counting) = 0 /\ Ahead(more, t, Starting) = 0
    BY <1>7, <1>8 DEF Ahead, Is, Counting, Starting
  <2>5. /\ Count(stack', t, Counting) = Count(Front(stack), t, Counting) + Ahead(more, t, Counting)
        /\ Count(stack', t, Starting) = Count(Front(stack), t, Starting) + Ahead(more, t, Starting)
    BY <1>15 DEF Recount, Counting, Starting
  <2> QED  BY <1>2, <2>1, <2>2, <2>3, <2>4, <2>5
<1>18. procs' \in Seq(Procs) /\ TabOK(tab', Len(procs')) /\ StackOK(stack', DOMAIN tab', Len(procs'))
  BY <1>1, <1>2, <1>15, <1>16
<1> HIDE DEF U, n, m, low, by, T, lines
<1> QED  BY <1>2, <1>15, <1>17, <1>18, SacNext DEF SacInv

-----------------------------------------------------------------------------
(***************************************************************************)
(* Each step keeps the invariant: signals, messages, and the world.        *)
(***************************************************************************)

\* The first tasks of a handler.
LEMMA FirstTasks ==
    ASSUME SacInv, NEW sig
    PROVE  /\ Chain(<<>>, DOMAIN tab, Len(procs), sig)
           /\ \A x \in NextTasks \cup LaterTasks :
                 Chain(<<x>>, DOMAIN tab, Len(procs), sig) /\ <<x>>[1] = x /\ Last(<<x>>) = x
                 /\ (\A k \in DOMAIN <<x>> : <<x>>[k] \notin Reading) /\ x \notin Reading
           /\ \A x \in NextTasks \cup LaterTasks, y \in LaterTasks :
                 Chain(<<x, y>>, DOMAIN tab, Len(procs), sig) /\ <<x, y>>[1] = x /\ Last(<<x, y>>) = y
                 /\ (\A k \in DOMAIN <<x, y>> : <<x, y>>[k] \notin Reading) /\ y \notin Reading
<1> DEFINE T == DOMAIN tab
           n == Len(procs)
<1>1. n \in Nat
  BY DEF SacInv
<1>2. \A x \in Nexts(T, n) : x \notin Startups
  BY KindsDiffer
<1> HIDE DEF T, n
<1>3. /\ Chain(<<>>, T, n, sig)
      /\ \A x \in Nexts(T, n) \cup Laters(T, n) : (x \in Startups => IsMain(sig)) =>
                 Chain(<<x>>, T, n, sig) /\ (\A k \in DOMAIN <<x>> : <<x>>[k] \notin Reading)
                 /\ <<x>> # <<>> /\ <<x>>[1] = x
  BY <1>1, FewTasks
<1>4. \A x \in Nexts(T, n) \cup Laters(T, n), y \in Laters(T, n) :
                 (x \in Startups \/ y \in Startups => IsMain(sig)) =>
                 Chain(<<x, y>>, T, n, sig) /\ (\A k \in DOMAIN <<x, y>> : <<x, y>>[k] \notin Reading)
                 /\ <<x, y>> # <<>> /\ <<x, y>>[1] = x
  BY <1>1, FewTasks
<1>5. \A x \in Nexts(T, n) \cup Laters(T, n) : x \notin Reading
  BY KindsDiffer
<1>6. \A x : Last(<<x>>) = x
  BY DEF Last
<1>7. \A x, y : Last(<<x, y>>) = y
  BY DEF Last
<1> QED  BY <1>2, <1>3, <1>4, <1>5, <1>6, <1>7 DEF NextTasks, LaterTasks, T, n

LEMMA AlarmInv ==
    ASSUME SacInv, Alarm
    PROVE  SacInv'
<1> DEFINE x == Task("pollpms", 0)
           todo == <<x>>
<1>1. Handle("ALRM", todo) /\ "ALRM" \in Signals
  BY DEF Alarm, Signals
<1>2. UNCHANGED <<scenario, file, given, tab, procs, starts, doubled, told>>
  BY DEF Alarm, worldVars, histories
<1>3. faults' \in 0..scenario.most
  BY FaultsAre DEF Alarm
<1>4. x \in LaterTasks /\ x.do = "pollpms"
  BY HasTasks
<1> HIDE DEF x
<1>5. Chain(todo, DOMAIN tab, Len(procs), "ALRM") /\ todo[1] = x /\ Last(todo) \notin Reading
  BY <1>4, FirstTasks
<1>6. todo[1].do \notin Starting
  BY <1>4, <1>5 DEF Starting
<1>7. given' \in 0..Len(scenario.commands) /\ file' \in Tables /\ procs' \in Seq(Procs)
      /\ told' \in [Tags(scenario) -> State] /\ Len(procs') = Len(procs)
  BY <1>2 DEF SacInv
<1> HIDE DEF todo
<1> QED  BY <1>1, <1>2, <1>3, <1>5, <1>6, <1>7, QuietHandle

LEMMA ReapInv ==
    ASSUME SacInv, Reap
    PROVE  SacInv'
<1>1. PICK p \in DOMAIN procs :
          /\ procs[p].st = "zombie"
          /\ procs' = [procs EXCEPT ![p].st = "none"]
          /\ LET mine == {t \in DOMAIN tab : tab[t].pid = p}
                 down == {t \in mine : tab[t].pstate \in {"NOTRUNNING", "FAILED"}}
             IN  Handle("CLD", IF mine = down THEN <<>> ELSE <<Task("pollfail", CHOOSE t \in mine : TRUE)>>)
  BY DEF Reap
<1>2. UNCHANGED <<scenario, file, given, tab, starts, doubled, told>>
  BY DEF Reap, worldVars, histories
<1>3. faults' \in 0..scenario.most
  BY FaultsAre DEF Reap
<1>4. procs' \in Seq(Procs) /\ Len(procs') = Len(procs)
  <2> DEFINE x == [procs[p] EXCEPT !.st = "none"]
  <2>1. procs \in Seq(Procs) /\ procs[p] \in Procs
    BY DEF SacInv
  <2>2. x \in Procs /\ procs' = [procs EXCEPT ![p] = x]
    BY <1>1, <2>1 DEF Procs, ProcSts
  <2> HIDE DEF x
  <2> QED  BY <2>1, <2>2, ProcIs
<1>5. given' \in 0..Len(scenario.commands) /\ file' \in Tables /\ told' \in [Tags(scenario) -> State]
  BY <1>2 DEF SacInv
<1>6. "CLD" \in Signals
  BY DEF Signals
<1>7. CASE Handle("CLD", <<>>)
  <2> DEFINE todo == <<>>
  <2>1. Chain(todo, DOMAIN tab, Len(procs), "CLD") /\ todo = <<>> /\ Handle("CLD", todo)
    BY <1>7, FirstTasks
  <2> HIDE DEF todo
  <2> QED  BY <1>2, <1>3, <1>4, <1>5, <1>6, <2>1, QuietHandle
<1>8. ASSUME NEW t \in DOMAIN tab, Handle("CLD", <<Task("pollfail", t)>>)
      PROVE  SacInv'
  <2> DEFINE x == Task("pollfail", t)
             todo == <<x>>
  <2>1. x \in NextTasks /\ x.do = "pollfail" /\ Handle("CLD", todo)
    BY <1>8, HasTasks
  <2> HIDE DEF x
  <2>2. Chain(todo, DOMAIN tab, Len(procs), "CLD") /\ todo[1] = x /\ Last(todo) \notin Reading
    BY <2>1, FirstTasks
  <2>3. todo[1].do \notin Starting
    BY <2>1, <2>2 DEF Starting
  <2> HIDE DEF todo
  <2> QED  BY <1>2, <1>3, <1>4, <1>5, <1>6, <2>1, <2>2, <2>3, QuietHandle
<1> DEFINE mine == {t \in DOMAIN tab : tab[t].pid = p}
           down == {t \in mine : tab[t].pstate \in {"NOTRUNNING", "FAILED"}}
<1>9. CASE mine = down
  BY <1>1, <1>7, <1>9
<1>10. CASE mine # down
  <2>1. (CHOOSE t \in mine : TRUE) \in DOMAIN tab
    BY <1>10
  <2>2. Handle("CLD", <<Task("pollfail", CHOOSE t \in mine : TRUE)>>)
    BY <1>1, <1>10
  <2> HIDE DEF mine
  <2> QED  BY <1>8, <2>1, <2>2
<1> QED  BY <1>9, <1>10

\* What an answer says.
LEMMA ReportIs ==
    ASSUME SacInv, NEW t \in DOMAIN tab, NEW st
    PROVE  \/ Report(t, tab[t], st) = <<Task("answered", t)>>
           \/ \E x \in NextTasks : x.do = "set" /\ Report(t, tab[t], st) = <<x, Task("answered", t)>>
<1> DEFINE e == tab[t]
           known == IF st \in {"ENABLED", "DISABLED", "STARTING", "STOPPING"} THEN st ELSE "UNKNOWN"
           recovery == {e.sstate, e.pstate} = {"UNKNOWN"}
           shown == e.pstate = known \/ (e.pstate = "STOPPING" /\ e.sstate \notin {e.pstate, known})
           fields == IF ~recovery THEN <<"pstate">>
                     ELSE IF known \in {"ENABLED", "DISABLED"} THEN <<"sstate", "pstate", "lstate", "pstate">>
                     ELSE <<"sstate", "pstate", "pstate">>
           x == Set(t, fields, known)
           y == Task("answered", t)
<1>1. known \in State
  BY DEF State
<1>2. \/ fields \in Plain
      \/ fields \in Lasting /\ known \in LastStates
  BY DEF Plain, Lasting, LastStates
<1>3. Report(t, tab[t], st) = IF ~recovery /\ shown THEN <<y>> ELSE <<x>> \o <<y>>
  BY DEF Report
<1> HIDE DEF known, fields
<1>4. x \in NextTasks /\ x.do = "set"
  BY <1>1, <1>2, HasTasks
<1> HIDE DEF x, y, recovery, shown
<1>5. <<x>> \o <<y>> = <<x, y>>
  <2> DEFINE p == <<x>> \o <<y>>
             q == <<x, y>>
             S == {x, y}
  <2>1. <<x>> \in Seq(S) /\ <<y>> \in Seq(S)
    OBVIOUS
  <2>2. p \in Seq(S) /\ Len(p) = 2 /\ p[1] = x /\ p[2] = y
    BY <2>1
  <2>3. q \in Seq(S) /\ Len(q) = 2 /\ q[1] = x /\ q[2] = y
    OBVIOUS
  <2> HIDE DEF p, q, S
  <2>4. \A i \in 1..2 : p[i] = q[i]
    BY <2>2, <2>3
  <2>5. p = [i \in 1..2 |-> p[i]] /\ q = [i \in 1..2 |-> q[i]]
    BY <2>2, <2>3
  <2>6. p = q
    BY <2>4, <2>5
  <2> QED  BY <2>6 DEF p, q
<1> QED  BY <1>3, <1>4, <1>5 DEF y

LEMMA ReadpipeInv ==
    ASSUME SacInv, readpipe
    PROVE  SacInv'
<1>1. UNCHANGED <<scenario, file, given, tab, procs, mask, faults, starts, doubled, told>> /\ Idle
  BY DEF readpipe, histories
<1>2. stack' = stack \/ \E t \in DOMAIN tab : \E st :
         stack' = <<[by |-> "main", todo |-> Report(t, tab[t], st), back |-> mask]>>
  BY DEF readpipe
<1>3. CASE stack' = stack
  BY <1>1, <1>3, StillStep DEF SacInv
<1>4. CASE stack' # stack
  <2>0. PICK t \in DOMAIN tab :
           \E st : stack' = <<[by |-> "main", todo |-> Report(t, tab[t], st), back |-> mask]>>
    BY <1>2, <1>4
  <2>1. PICK st : stack' = <<[by |-> "main", todo |-> Report(t, tab[t], st), back |-> mask]>>
    BY <2>0
  <2> DEFINE todo == Report(t, tab[t], st)
             T == DOMAIN tab
             n == Len(procs)
             f == [by |-> "main", todo |-> todo, back |-> mask]
  <2>2. Chain(todo, T, n, "main") /\ todo # <<>> /\ todo[1].do \notin Starting /\ Last(todo) \notin Reading
    <3> DEFINE y == Task("answered", t)
    <3>1. y \in LaterTasks /\ y.do = "answered"
      BY HasTasks
    <3> HIDE DEF y
    <3>2. CASE todo = <<y>>
      BY <3>1, <3>2, FirstTasks DEF Starting
    <3>3. CASE \E x \in NextTasks : x.do = "set" /\ todo = <<x, y>>
      <4>1. PICK x \in NextTasks : x.do = "set" /\ todo = <<x, y>>
        BY <3>3
      <4>2. Chain(<<x, y>>, DOMAIN tab, Len(procs), "main") /\ <<x, y>>[1] = x /\ Last(<<x, y>>) = y
            /\ y \notin Reading
        BY <3>1, FirstTasks
      <4> QED  BY <4>1, <4>2 DEF Starting
    <3> QED  BY <3>2, <3>3, ReportIs DEF y
  <2> HIDE DEF todo
  <2>3. n \in Nat /\ StackOK(stack, T, n) /\ mask \subseteq Signals /\ stack = <<>>
    BY <1>1 DEF SacInv, Idle
  <2>4. f \in Frames(T, n) /\ f.todo = todo /\ f.by = "main"
    BY <2>2, <2>3 DEF Frames, Chain
  <2>5. stack' = Append(stack, f)
    BY <2>1, <2>3 DEF todo
  <2> HIDE DEF f, T, n
  <2>6. StackOK(Append(stack, f), T, n)
    BY <2>2, <2>3, <2>4, StackPush
  <2>7. \A u, does : Count(Append(stack, f), u, does) = Count(stack, u, does) + Comes(f, u, does)
    <3>1. stack \in Seq(Frames(T, n))
      BY <2>3 DEF StackOK
    <3> QED  BY <2>4, <3>1, CountPush
  <2>8. ASSUME NEW u \in DOMAIN tab'
        PROVE  Limited(MostRestarts(u), doubled'[u], tab'[u].rscnt, Count(stack', u, Counting),
                       starts'[u], Count(stack', u, Starting))
    <3>1. u \in DOMAIN tab /\ Within(u)
      BY <1>1 DEF SacInv
    <3>2. Head(f.todo) = todo[1]
      BY <2>2, <2>4 DEF Chain
    <3>3. Comes(f, u, Counting) = 0 /\ Comes(f, u, Starting) = 0
      BY <2>2, <3>2 DEF Comes, Counting, Starting
    <3>4. stack \in Seq(Frames(T, n))
      BY <2>3 DEF StackOK
    <3>5. Count(stack, u, Counting) \in Nat /\ Count(stack, u, Starting) \in Nat
      BY <3>4, CountIs
    <3>6. Count(stack', u, Counting) = Count(stack, u, Counting) /\ Count(stack', u, Starting) = Count(stack, u, Starting)
      BY <2>5, <2>7, <3>3, <3>5
    <3> QED  BY <1>1, <3>1, <3>6 DEF Within
  <2>9. StackOK(stack', DOMAIN tab', Len(procs')) /\ TabOK(tab', Len(procs'))
    BY <1>1, <2>5, <2>6 DEF SacInv, T, n
  <2> QED  BY <1>1, <2>8, <2>9, SacNext DEF SacInv
<1> QED  BY <1>3, <1>4

\* A task about a port monitor that stays.
LEMMA TaskNarrow ==
    ASSUME NEW T, NEW L, NEW n \in Nat, NEW x, x.tag \notin T \ L
    PROVE  /\ x \in Tasks(T, n) => x \in Tasks(T \cap L, n)
           /\ x \in Laters(T, n) => x \in Laters(T \cap L, n)
<1>1. x \in Sets(T) => x \in Sets(T \cap L)
  BY DEF Sets
<1>2. x \in Nexts(T, n) => x \in Nexts(T \cap L, n)
  BY <1>1 DEF Nexts
<1>3. x \in Laters(T, n) => x \in Laters(T \cap L, n)
  BY DEF Laters
<1> QED  BY <1>2, <1>3 DEF Tasks

\* AC_SACREAD comes when no other handler is about an entry that goes.
LEMMA Spared ==
    ASSUME SacInv, NEW lines, InHand \cap (DOMAIN tab \ DOMAIN lines) = {},
           \A i \in DOMAIN stack : Last(stack[i].todo).do \notin {"read_table", "purge", "remove"}
    PROVE  \A i \in DOMAIN stack : /\ stack[i] \in Frames(DOMAIN tab \cap DOMAIN lines, Len(procs))
                                   /\ Last(stack[i].todo) \notin Reading
<1> SUFFICES ASSUME NEW i \in DOMAIN stack
             PROVE  /\ stack[i] \in Frames(DOMAIN tab \cap DOMAIN lines, Len(procs))
                    /\ Last(stack[i].todo) \notin Reading
  OBVIOUS
<1> DEFINE T == DOMAIN tab
           L == DOMAIN lines
           n == Len(procs)
           f == stack[i]
           q == stack[i].todo
<1>1. n \in Nat /\ f \in Frames(T, n)
  BY DEF SacInv, StackOK
<1>2. q \in Seq(Tasks(T, n)) /\ q # <<>> /\ Chain(q, T, n, f.by)
      /\ f = [by |-> f.by, todo |-> q, back |-> f.back] /\ f.by \in Signals \cup {"main"} /\ f.back \in SUBSET Signals
  BY <1>1 DEF Frames
<1>3. \A k \in DOMAIN q : q[k].tag \in InHand
  BY DEF InHand
<1>4. \A k \in DOMAIN q : q[k].tag \notin T \ L
  BY <1>3
<1> HIDE DEF T, L, n, q
<1>5. \A k \in DOMAIN q : /\ q[k] \in Tasks(T \cap L, n)
                          /\ q[k] \in Laters(T, n) => q[k] \in Laters(T \cap L, n)
  <2> SUFFICES ASSUME NEW k \in DOMAIN q
               PROVE  q[k] \in Tasks(T \cap L, n) /\ (q[k] \in Laters(T, n) => q[k] \in Laters(T \cap L, n))
    OBVIOUS
  <2> DEFINE x == q[k]
  <2>1. x.tag \notin T \ L /\ x \in Tasks(T, n)
    BY <1>2, <1>4
  <2> HIDE DEF x
  <2>2. (x \in Tasks(T, n) => x \in Tasks(T \cap L, n)) /\ (x \in Laters(T, n) => x \in Laters(T \cap L, n))
    BY <1>1, <2>1, TaskNarrow
  <2> QED  BY <2>1, <2>2 DEF x
<1>6. q \in Seq(Tasks(T \cap L, n))
  <2> DEFINE S == Tasks(T, n)
             V == Tasks(T \cap L, n)
  <2>1. q \in Seq(S) /\ \A k \in DOMAIN q : q[k] \in V
    BY <1>2, <1>5
  <2> HIDE DEF S, V
  <2>2. q \in Seq(V)
    BY <2>1
  <2> QED  BY <2>2 DEF V
<1>7. Chain(q, T \cap L, n, f.by)
  <2> DEFINE by == f.by
  <2>1. Chain(q, T, n, by)
    BY <1>2
  <2> HIDE DEF by
  <2>2. \A k \in DOMAIN q : k > 1 => q[k] \in Laters(T \cap L, n) \cup Reading
    BY <1>5, <2>1 DEF Chain
  <2>3. /\ \A k \in DOMAIN q : q[k] \in Reading => k = Len(q)
        /\ \A k \in DOMAIN q : q[k] \in Startups => IsMain(by)
    BY <2>1 DEF Chain
  <2>4. Chain(q, T \cap L, n, by)
    <3> DEFINE U == T \cap L
    <3>1. q \in Seq(Tasks(U, n)) /\ \A k \in DOMAIN q : k > 1 => q[k] \in Laters(U, n) \cup Reading
      BY <1>6, <2>2
    <3> HIDE DEF U
    <3>2. Chain(q, U, n, by)
      BY <2>3, <3>1 DEF Chain
    <3> QED  BY <3>2 DEF U
  <2> QED  BY <2>4 DEF by
<1>8. f \in Frames(T \cap L, n)
  <2> DEFINE b == f.by
             back == f.back
  <2>1. f = [by |-> b, todo |-> q, back |-> back] /\ b \in Signals \cup {"main"} /\ back \in SUBSET Signals
        /\ Chain(q, T \cap L, n, b)
    BY <1>2, <1>7
  <2> HIDE DEF f, b, back
  <2> QED  BY <1>2, <1>6, <2>1 DEF Frames
<1>9. Last(q) \notin Reading
  BY DEF Reading, q
<1> QED  BY <1>8, <1>9 DEF T, L, n, q

LEMMA SigpollInv ==
    ASSUME SacInv, sigpoll
    PROVE  SacInv'
<1> DEFINE c == scenario.commands[given + 1]
           t == c.tag
           known == t \in DOMAIN tab
<1>1. UNCHANGED <<scenario, procs>> /\ given < Len(scenario.commands) /\ given' = given + 1
  BY DEF sigpoll
<1>2. faults' \in 0..scenario.most
  BY FaultsAre DEF sigpoll
<1>3. Len(scenario.commands) \in Nat /\ c \in [tag : Tags(scenario), type : Commands]
  <2> DEFINE q == scenario.commands
             S == [tag : Tags(scenario), type : Commands]
  <2>1. q \in Seq(S)
    BY ScenarioAssumption DEF SacInv, ScenarioType
  <2>2. given \in 0..Len(q) /\ given < Len(q)
    BY <1>1 DEF SacInv
  <2> HIDE DEF q, S
  <2>3. Len(q) \in Nat /\ given + 1 \in 1..Len(q)
    BY <2>1, <2>2
  <2>4. q[given + 1] \in S
    BY <2>1, <2>3
  <2> QED  BY <2>3, <2>4 DEF q, S
<1>4. given' \in 0..Len(scenario.commands)
  BY <1>1, <1>3 DEF SacInv
<1>5. file' \in Tables
  <2>1. 1 + Reads(scenario, given + 1) \in DOMAIN scenario.tables
    BY <1>1, <1>4, TablesAre DEF SacInv
  <2>2. file' = (IF c.type = "SACREAD" THEN scenario.tables[1 + Reads(scenario, given + 1)] ELSE file)
    BY DEF sigpoll
  <2> QED  BY <2>1, <2>2 DEF Tables, SacInv
<1>6. procs' \in Seq(Procs) /\ Len(procs') = Len(procs) /\ "POLL" \in Signals
      /\ told \in [Tags(scenario) -> State] /\ starts \in [Tags(scenario) -> Nat]
      /\ doubled \in [Tags(scenario) -> Nat]
  BY <1>1 DEF SacInv, Signals
\* A handler that has this to do is as the invariant wants it.
<1>7. ASSUME NEW todo, Handle("POLL", todo), Chain(todo, DOMAIN tab, Len(procs), "POLL"),
             todo # <<>> => todo[1].do \notin Starting,
             todo # <<>> /\ Last(todo) \in Reading =>
               \A i \in DOMAIN stack : /\ stack[i] \in Frames(DOMAIN tab \cap DOMAIN Last(todo).lines, Len(procs))
                                       /\ Last(stack[i].todo) \notin Reading,
             UNCHANGED <<tab, starts, doubled>>, told' \in [Tags(scenario) -> State]
      PROVE  SacInv'
  BY <1>1, <1>2, <1>4, <1>5, <1>6, <1>7, QuietHandle
<1>8. CASE c.type = "SACREAD"
  <2> DEFINE x == Read("read_table", 0, file')
             todo == <<x>>
  <2>1. ac_sacread(file') /\ UNCHANGED <<tab, starts, doubled, told>>
    BY <1>8 DEF sigpoll
  <2>2. x \in Reading /\ x.do = "read_table" /\ x.lines = file'
    <3> DEFINE l == file'
    <3>1. l \in Tables
      BY <1>5
    <3> HIDE DEF l
    <3>2. 0 \in Nat /\ Len(procs) \in Nat
      BY <1>6
    <3>3. Read("read_table", 0, l) \in Reading /\ Read("read_table", 0, l).do = "read_table"
          /\ Read("read_table", 0, l).lines = l
      BY <3>1, <3>2, LoopsHave
    <3> QED  BY <3>3 DEF l
  <2>3. \A i \in DOMAIN stack : /\ stack[i] \in Frames(DOMAIN tab \cap DOMAIN file', Len(procs))
                                /\ Last(stack[i].todo) \notin Reading
    BY <2>1, Spared DEF ac_sacread
  <2>4. Handle("POLL", todo)
    BY <2>1 DEF ac_sacread
  <2> HIDE DEF x
  <2>5. Chain(todo, DOMAIN tab, Len(procs), "POLL") /\ todo[1] = x /\ Last(todo) = x
    <3> DEFINE T == DOMAIN tab
               n == Len(procs)
    <3>1. x \in Tasks(T, n) /\ x \notin Startups
      BY <2>2 DEF Tasks, Startups
    <3> HIDE DEF T, n
    <3>2. Chain(<<x>>, T, n, "POLL")
      BY <3>1, ChainOf
    <3>3. Last(<<x>>) = x
      BY DEF Last
    <3> QED  BY <3>2, <3>3 DEF T, n
  <2>6. todo[1].do \notin Starting /\ Last(todo).lines = file'
    BY <2>2, <2>5 DEF Starting
  <2> HIDE DEF todo
  <2> QED  BY <1>6, <1>7, <2>1, <2>3, <2>4, <2>5, <2>6
<1>9. CASE Handle("POLL", <<>>) /\ UNCHANGED <<tab, starts, doubled>> /\ told' \in [Tags(scenario) -> State]
  <2> DEFINE todo == <<>>
  <2>1. Chain(todo, DOMAIN tab, Len(procs), "POLL") /\ todo = <<>> /\ Handle("POLL", todo)
    BY <1>9, FirstTasks
  <2> HIDE DEF todo
  <2> QED  BY <1>7, <1>9, <2>1
<1>10. CASE c.type # "SACREAD" /\ ~known
  BY <1>6, <1>9, <1>10 DEF sigpoll
<1>11. ASSUME known, NEW x \in NextTasks \cup LaterTasks, x.do \notin Starting, Handle("POLL", <<x>>),
              UNCHANGED <<tab, starts, doubled>>, told' \in [Tags(scenario) -> State]
       PROVE  SacInv'
  <2> DEFINE todo == <<x>>
  <2>1. Chain(todo, DOMAIN tab, Len(procs), "POLL") /\ todo[1] = x /\ Last(todo) \notin Reading
    BY FirstTasks
  <2>2. Handle("POLL", todo)
    BY <1>11
  <2> HIDE DEF todo
  <2> QED  BY <1>7, <1>11, <2>1, <2>2
<1>12. CASE known /\ c.type = "START"
  <2>1. ac_start(t) /\ UNCHANGED told
    BY <1>12 DEF sigpoll
  <2>2. CASE tab[t].sstate \notin {"FAILED", "NOTRUNNING"}
    BY <1>6, <1>9, <2>1, <2>2 DEF ac_start
  <2>3. CASE tab[t].sstate \in {"FAILED", "NOTRUNNING"}
    <3> DEFINE e == [tab[t] EXCEPT !.rscnt = 0]
               x == Task("startpm", t)
               todo == <<x>>
               all == Count(stack, t, Starting)
               n == Len(procs)
    <3>1. /\ tab' = [tab EXCEPT ![t] = e]
          /\ starts' = [starts EXCEPT ![t] = 0]
          /\ doubled' = [doubled EXCEPT ![t] = Cardinality(Pending(Len(stack), {"count", "startpm", "fork"}, t))]
          /\ Handle("POLL", todo)
      BY <2>1, <2>3 DEF ac_start
    <3>2. Cardinality(Pending(Len(stack), {"count", "startpm", "fork"}, t)) = all
      <4>1. DOMAIN stack = 1..Len(stack)
        BY DEF SacInv, StackOK
      <4>2. Pending(Len(stack), {"count", "startpm", "fork"}, t) = Coming(stack, t, Starting)
        BY <4>1 DEF Pending, Coming, Starting
      <4> QED  BY <4>2 DEF Count
    <3>3. stack \in Seq(Frames(DOMAIN tab, n))
      BY DEF SacInv, StackOK
    <3>4. \A u, does : Count(stack, u, does) \in Nat
      BY <3>3, CountIs
    <3>5. Count(stack, t, Counting) <= all
      BY <3>3, CountLess
    <3>6. tab[t] \in Entries /\ tab[t].rsmax <= MostRestarts(t) /\ tab[t].pid <= n /\ t \in Tags(scenario)
          /\ MostRestarts(t) \in Nat /\ n \in Nat
      BY <1>12, EntryIs
    <3>7. e \in Entries /\ e.rsmax <= MostRestarts(t) /\ e.pid <= n /\ e.rscnt = 0
      BY <3>6 DEF Entries
    <3> HIDE DEF e, all, n
    <3>8. /\ TabOK(tab', n) /\ DOMAIN tab' = DOMAIN tab
          /\ \A u \in DOMAIN tab : tab'[u] = IF u = t THEN e ELSE tab[u]
      <4>1. Len(procs) <= n
        BY <3>6 DEF n
      <4> DEFINE v == t
      <4>2. v \in DOMAIN tab /\ e.rsmax <= MostRestarts(v) /\ tab' = [tab EXCEPT ![v] = e]
        BY <1>12, <3>1, <3>7
      <4> HIDE DEF v
      <4>3. /\ TabOK(tab', n) /\ DOMAIN tab' = DOMAIN tab
            /\ \A u \in DOMAIN tab : tab'[u] = IF u = v THEN e ELSE tab[u]
        BY <3>6, <3>7, <4>1, <4>2, SetEntry
      <4> QED  BY <4>3 DEF v
    <3>9. x \in NextTasks /\ x.do = "startpm" /\ x.tag = t
      BY <1>12, HasTasks DEF Task
    <3> HIDE DEF x
    <3>10. Chain(todo, DOMAIN tab, Len(procs), "POLL") /\ todo[1] = x /\ todo # <<>>
           /\ \A k \in DOMAIN todo : todo[k] \notin Reading
      BY <3>9, FirstTasks
    <3> HIDE DEF todo
    <3>11. starts' \in [Tags(scenario) -> Nat] /\ doubled' \in [Tags(scenario) -> Nat]
      BY <1>6, <3>1, <3>2, <3>4, <3>6 DEF all
    <3>12. ASSUME NEW u \in DOMAIN tab'
           PROVE  Limited(MostRestarts(u), doubled'[u], tab'[u].rscnt,
                          Count(stack, u, Counting) + Ahead(todo, u, Counting),
                          starts'[u], Count(stack, u, Starting) + Ahead(todo, u, Starting))
      <4>1. u \in DOMAIN tab /\ u \in Tags(scenario)
        BY <3>8, EntryIs
      <4>2. Ahead(todo, u, Counting) = 0 /\ Ahead(todo, u, Starting) = IF u = t THEN 1 ELSE 0
        BY <3>9, <3>10 DEF Ahead, Is, Counting, Starting
      <4>3. CASE u # t
        <5>1. starts'[u] = starts[u] /\ doubled'[u] = doubled[u] /\ tab'[u] = tab[u]
          BY <1>6, <3>1, <3>8, <4>1, <4>3
        <5>2. Count(stack, u, Counting) + Ahead(todo, u, Counting) = Count(stack, u, Counting)
              /\ Count(stack, u, Starting) + Ahead(todo, u, Starting) = Count(stack, u, Starting)
          BY <3>4, <4>2, <4>3
        <5> QED  BY <4>1, <5>1, <5>2 DEF SacInv, Within
      <4>4. CASE u = t
        <5> DEFINE a == Count(stack, t, Counting)
        <5>1. starts'[u] = 0 /\ doubled'[u] = all /\ tab'[u].rscnt = 0
          BY <1>6, <3>1, <3>2, <3>7, <3>8, <4>1, <4>4
        <5>2. a \in Nat /\ all \in Nat /\ a <= all
          BY <3>4, <3>5 DEF all
        <5> HIDE DEF a
        <5>3. /\ a + (all - a) = all /\ all - a \in Nat
              /\ 0 + (a + 0) <= MostRestarts(t) + a
              /\ 0 + (all + 1) <= 1 + 0 + (a + 0) + (all - a)
          BY <3>6, <5>2
        <5>4. Limited(MostRestarts(t), all, 0, a + 0, 0, all + 1)
          BY <5>2, <5>3 DEF Limited
        <5> QED  BY <4>2, <4>4, <5>1, <5>4 DEF a, all
      <4> QED  BY <4>3, <4>4
    <3>13. UNCHANGED <<scenario, procs, told>> /\ TabOK(tab', Len(procs)) /\ DOMAIN tab = DOMAIN tab'
      BY <1>1, <2>1, <3>8 DEF n
    <3>14. Handle("POLL", todo)
      BY <3>1
    <3> QED  BY <1>2, <1>4, <1>5, <1>6, <3>10, <3>11, <3>12, <3>13, <3>14, BusyHandle
  <2> QED  BY <2>2, <2>3
<1>13. CASE known /\ c.type = "KILL"
  <2>1. ac_kill(t) /\ UNCHANGED <<tab, starts, doubled, told>>
    BY <1>13 DEF sigpoll
  <2> DEFINE x == Task("terminate", t)
  <2>2. x \in NextTasks /\ x.do = "terminate"
    BY <1>13, HasTasks
  <2>3. Handle("POLL", <<x>>) \/ Handle("POLL", <<>>)
    BY <2>1 DEF ac_kill
  <2>4. x.do \notin Starting
    BY <2>2 DEF Starting
  <2> HIDE DEF x
  <2> QED  BY <1>6, <1>9, <1>11, <1>13, <2>1, <2>2, <2>3, <2>4
<1>14. ASSUME known, NEW to \in {"ENABLED", "DISABLED"}, NEW msg \in Messages, ac_able(t, to, msg),
              UNCHANGED <<tab, starts, doubled>>
       PROVE  SacInv'
  <2> DEFINE x == Set(t, <<"sstate", "lstate">>, to)
             y == Send(t, msg)
             todo == <<x, y>>
  <2>1. Handle("POLL", todo) \/ Handle("POLL", <<>>)
    BY <1>14 DEF ac_able
  <2>2. told' \in [Tags(scenario) -> State]
    BY <1>3, <1>6, <1>14 DEF ac_able, State
  <2>3. <<"sstate", "lstate">> \in Lasting /\ to \in LastStates
    BY DEF Lasting, LastStates
  <2>4. x \in NextTasks /\ x.do = "set" /\ y \in LaterTasks
    BY <1>14, <2>3, HasTasks
  <2> HIDE DEF x, y
  <2>5. Chain(todo, DOMAIN tab, Len(procs), "POLL") /\ todo[1] = x /\ Last(todo) \notin Reading
    BY <2>4, FirstTasks
  <2>6. todo[1].do \notin Starting
    BY <2>4, <2>5 DEF Starting
  <2> HIDE DEF todo
  <2>7. CASE Handle("POLL", todo)
    BY <1>7, <1>14, <2>2, <2>5, <2>6, <2>7
  <2>8. CASE Handle("POLL", <<>>)
    BY <1>9, <1>14, <2>2, <2>8
  <2> QED  BY <2>1, <2>7, <2>8
<1>15. CASE known /\ c.type = "ENABLE"
  BY <1>14, <1>15 DEF sigpoll, Messages
<1>16. CASE known /\ c.type = "DISABLE"
  BY <1>14, <1>16 DEF sigpoll, Messages
<1>17. CASE known /\ c.type = "PMREAD"
  <2>1. ac_pmread(t) /\ UNCHANGED <<tab, starts, doubled, told>>
    BY <1>17 DEF sigpoll
  <2> DEFINE x == Send(t, "SC_READDB")
  <2>2. x \in LaterTasks /\ x.do = "send"
    BY <1>17, HasTasks DEF Messages
  <2>3. Handle("POLL", <<x>>) \/ Handle("POLL", <<>>)
    BY <2>1 DEF ac_pmread
  <2>4. x.do \notin Starting
    BY <2>2 DEF Starting
  <2> HIDE DEF x
  <2> QED  BY <1>6, <1>9, <1>11, <1>17, <2>1, <2>2, <2>3, <2>4
<1>18. c.type \in Commands
  BY <1>3
<1> QED  BY <1>8, <1>10, <1>12, <1>13, <1>15, <1>16, <1>17, <1>18 DEF Commands

\* A process in another state, and in another mode.
LEMMA ProcOf ==
    ASSUME procs \in Seq(Procs), NEW p \in DOMAIN procs
    PROVE  /\ procs[p] \in Procs /\ procs[p].mode \in Modes /\ procs[p].st \in ProcSts
           /\ \A st \in ProcSts : [procs[p] EXCEPT !.st = st] \in Procs
           /\ \A mode \in Modes : [procs[p] EXCEPT !.mode = mode] \in Procs
<1>1. procs[p] \in Procs
  OBVIOUS
<1> QED  BY <1>1 DEF Procs

\* sac starts: the main program alone is under way, with nothing to start yet.
LEMMA SacStartInv ==
    ASSUME SacInv, SacStart
    PROVE  SacInv'
<1> DEFINE x == Task("startpms", 0)
           y == Task("pollpms", 0)
           todo == <<x, y>>
           f == [by |-> "main", todo |-> todo, back |-> {}]
           T == DOMAIN tab'
           n == Len(procs)
<1>1. /\ UNCHANGED <<scenario, file, procs, given, faults>>
      /\ tab' = [t \in DOMAIN file |-> Entry(file[t])]
      /\ stack' = <<f>> /\ mask' = {}
      /\ starts' = [t \in DOMAIN starts |-> IF t \in DOMAIN file THEN 0 ELSE starts[t]]
      /\ doubled' = [t \in DOMAIN doubled |-> IF t \in DOMAIN file THEN 0 ELSE doubled[t]]
      /\ told' = [t \in DOMAIN told |-> IF t \in DOMAIN file THEN "NOTRUNNING" ELSE told[t]]
  BY DEF SacStart
<1>2. n \in Nat /\ file \in Tables /\ procs \in Seq(Procs)
  BY DEF SacInv
<1>3. /\ DOMAIN file \in SUBSET Tags(scenario)
      /\ \A t \in DOMAIN file : file[t] \in Line /\ file[t].rsmax <= MostRestarts(t) /\ Entry(file[t]) \in Entries
  BY <1>2, LinesAre
<1>4. TabOK(tab', n)
  <2>1. T = DOMAIN file /\ tab' \in [T -> Entries] /\ T \subseteq Tags(scenario)
    BY <1>1, <1>3
  <2>2. ASSUME NEW t \in T PROVE tab'[t].rsmax <= MostRestarts(t) /\ tab'[t].pid <= n /\ tab'[t].rscnt = 0
    <3>1. tab'[t] = Entry(file[t]) /\ file[t].rsmax <= MostRestarts(t)
      BY <1>1, <1>3
    <3>2. Entry(file[t]).rsmax = file[t].rsmax /\ Entry(file[t]).pid = 0 /\ Entry(file[t]).rscnt = 0
      BY DEF Entry
    <3> QED  BY <1>2, <3>1, <3>2
  <2> QED  BY <2>1, <2>2 DEF TabOK
<1>5. /\ starts' \in [Tags(scenario) -> Nat] /\ doubled' \in [Tags(scenario) -> Nat]
      /\ told' \in [Tags(scenario) -> State]
      /\ \A t \in T : starts'[t] = 0 /\ doubled'[t] = 0 /\ tab'[t].rscnt = 0
  <2>1. starts \in [Tags(scenario) -> Nat] /\ doubled \in [Tags(scenario) -> Nat]
        /\ told \in [Tags(scenario) -> State]
    BY DEF SacInv
  <2>2. \A t \in T : tab'[t].rscnt = 0
    BY <1>1 DEF Entry
  <2>3. "NOTRUNNING" \in State
    BY DEF State
  <2>4. T = DOMAIN file /\ DOMAIN file \subseteq Tags(scenario)
    BY <1>1, <1>3
  <2> QED  BY <1>1, <2>1, <2>2, <2>3, <2>4
<1>6. /\ x \in Startups /\ x \in Laters(T, n) /\ x.do = "startpms" /\ y \in Laters(T, n) /\ y.do = "pollpms"
      /\ IsMain("main")
  BY <1>2, LoopsHave DEF IsMain
<1> HIDE DEF x, y, T, n
<1>7. Chain(todo, T, n, "main") /\ (\A k \in DOMAIN todo : todo[k] \notin Reading) /\ todo # <<>> /\ todo[1] = x
  BY <1>2, <1>6, FewTasks
<1>8. todo \in Seq(Tasks(T, n)) /\ Last(todo) \notin Reading
  <2>1. todo \in Seq(Tasks(T, n))
    BY <1>7 DEF Chain
  <2>2. Last(todo) = y /\ y \notin Reading
    BY <1>7 DEF Last
  <2> QED  BY <2>1, <2>2
<1> HIDE DEF todo
<1>9. f.todo = todo /\ f.by = "main" /\ f \in Frames(T, n)
  BY <1>7, <1>8 DEF Frames
<1> HIDE DEF f
<1>10. StackOK(<<>>, T, n)
  BY DEF StackOK
<1>11. StackOK(Append(<<>>, f), T, n) /\ Append(<<>>, f) = <<f>>
  <2> DEFINE s == <<>>
  <2>1. StackOK(s, T, n) /\ s = <<>> /\ DOMAIN s = {}
    BY <1>10
  <2> HIDE DEF s
  <2>2. StackOK(Append(s, f), T, n)
    BY <1>2, <1>8, <1>9, <2>1, StackPush DEF n
  <2> QED  BY <2>1, <2>2, AppendIs
<1>12. ASSUME NEW t, NEW does, does \subseteq Starting
       PROVE  Count(stack', t, does) = 0
  <2>1. Head(todo) = x
    BY <1>7, <1>8
  <2>2. Coming(<<f>>, t, does) = {}
    BY <1>6, <1>9, <1>12, <2>1 DEF Coming, Starting
  <2> QED  BY <1>1, <2>2, FS_EmptySet DEF Count
<1>13. ASSUME NEW t \in T
       PROVE  Limited(MostRestarts(t), doubled'[t], tab'[t].rscnt, Count(stack', t, Counting),
                      starts'[t], Count(stack', t, Starting))
  <2>1. Count(stack', t, Counting) = 0 /\ Count(stack', t, Starting) = 0
    BY <1>12 DEF Counting, Starting
  <2>2. MostRestarts(t) \in Nat
    BY <1>4, MostIs DEF SacInv, TabOK, T
  <2>3. Limited(MostRestarts(t), 0, 0, 0, 0, 0)
    BY <2>2 DEF Limited
  <2> QED  BY <1>5, <2>1, <2>3
<1> QED  BY <1>1, <1>4, <1>5, <1>11, <1>13, SacNext DEF SacInv, T, n

\* sac dies: what its handlers were about to do is not done.
LEMMA SacCrashInv ==
    ASSUME SacInv, SacCrash
    PROVE  SacInv'
<1> DEFINE n == Len(procs)
<1>1. /\ UNCHANGED <<scenario, tab, file, given, starts, doubled, told>>
      /\ procs' = [p \in DOMAIN procs |->
                      [procs[p] EXCEPT !.child = FALSE, !.st = IF @ = "zombie" THEN "none" ELSE @]]
      /\ stack' = <<>> /\ mask' = {}
  BY DEF SacCrash, histories
<1>2. faults' \in 0..scenario.most
  BY FaultsAre DEF SacCrash
<1>3. n \in Nat /\ procs \in Seq(Procs)
  BY DEF SacInv
<1>4. procs' \in Seq(Procs) /\ Len(procs') = n
  <2>1. \A p \in 1..n : procs[p] \in Procs
    BY <1>3
  <2>2. \A p \in 1..n : [procs[p] EXCEPT !.child = FALSE, !.st = IF @ = "zombie" THEN "none" ELSE @] \in Procs
    BY <2>1 DEF Procs, ProcSts
  <2>3. DOMAIN procs = 1..n
    BY <1>3
  <2> DEFINE S == Procs
  <2>4. procs' = [p \in 1..n |-> procs'[p]] /\ \A p \in 1..n : procs'[p] \in S
    BY <1>1, <2>2, <2>3
  <2> HIDE DEF S, n
  <2>5. procs' \in Seq(S) /\ Len(procs') = n
    BY <1>3, <2>4
  <2> QED  BY <2>5 DEF S, n
<1>5. StackOK(stack', DOMAIN tab', n)
  <2> DEFINE U == DOMAIN tab'
  <2> HIDE DEF U, n
  <2>1. StackOK(<<>>, U, n)
    BY DEF StackOK
  <2> QED  BY <1>1, <2>1 DEF U
<1>6. ASSUME NEW t \in DOMAIN tab'
      PROVE  Limited(MostRestarts(t), doubled'[t], tab'[t].rscnt, Count(stack', t, Counting),
                     starts'[t], Count(stack', t, Starting))
  <2> DEFINE r == tab[t].rscnt
             s == starts[t]
             most == MostRestarts(t)
             c == Count(stack, t, Counting)
             g == Count(stack, t, Starting)
  <2>1. stack \in Seq(Frames(DOMAIN tab, n)) /\ t \in DOMAIN tab
    BY <1>1 DEF SacInv, StackOK
  <2>2. c \in Nat /\ g \in Nat /\ c <= g
    BY <2>1, CountIs, CountLess
  <2>3. tab[t] \in Entries /\ s \in Nat /\ most \in Nat /\ Limited(most, doubled[t], r, c, s, g)
    BY <2>1, EntryIs DEF SacInv, Within
  <2>4. r \in Nat
    BY <2>3 DEF Entries
  <2> HIDE DEF r, s, most, c, g
  <2>5. PICK x, y \in Nat : x + y = doubled[t] /\ r + c <= most + x /\ s + g <= 1 + r + c + y
    BY <2>3 DEF Limited
  <2>6. r + 0 <= most + x /\ s + 0 <= 1 + r + 0 + y
    BY <2>2, <2>3, <2>4, <2>5
  <2>7. Limited(most, doubled[t], r, 0, s, 0)
    BY <2>5, <2>6 DEF Limited
  <2>8. Count(stack', t, Counting) = 0 /\ Count(stack', t, Starting) = 0
    <3> DEFINE z == <<>>
    <3>1. z \in Seq({}) /\ z = <<>>
      OBVIOUS
    <3> HIDE DEF z
    <3>2. Count(z, t, Counting) = 0 /\ Count(z, t, Starting) = 0
      BY <3>1, CountIs
    <3> QED  BY <1>1, <3>1, <3>2
  <2> QED  BY <1>1, <2>7, <2>8 DEF r, s, most
<1>7. TabOK(tab', n)
  BY <1>1 DEF SacInv
<1> QED  BY <1>1, <1>2, <1>4, <1>5, <1>6, <1>7, SacNext DEF SacInv

\* A process ends.
LEMMA EndsIs ==
    ASSUME procs \in Seq(Procs), NEW p \in DOMAIN procs, Ends(p)
    PROVE  procs' \in Seq(Procs) /\ Len(procs') = Len(procs)
<1>1. procs[p] \in Procs
  OBVIOUS
<1> DEFINE st == IF procs[p].child THEN "zombie" ELSE "none"
           x == [procs[p] EXCEPT !.st = st]
<1>2. x \in Procs
  BY <1>1 DEF Procs, ProcSts
<1>3. procs' = [procs EXCEPT ![p] = x]
  BY DEF Ends
<1> HIDE DEF x
<1> QED  BY <1>2, <1>3, ProcIs

\* Port monitors go on, and the handlers wait.
LEMMA WorldInv ==
    ASSUME SacInv, PmBoot \/ PmAnswer \/ PmExit \/ PmFails
    PROVE  SacInv'
<1>1. procs \in Seq(Procs) /\ faults \in 0..scenario.most
  BY DEF SacInv
<1>2. ASSUME procs' \in Seq(Procs) /\ Len(procs') = Len(procs), faults' \in 0..scenario.most,
             UNCHANGED outside
      PROVE  SacInv'
  BY <1>2, StillStep DEF outside, histories
<1>3. CASE PmBoot
  <2>1. PICK p \in DOMAIN procs : \/ procs' = [procs EXCEPT ![p].st = "up"]
                                  \/ Ends(p)
    BY <1>3 DEF PmBoot
  <2>2. UNCHANGED outside /\ faults' = faults
    BY <1>3 DEF PmBoot
  <2>3. CASE procs' = [procs EXCEPT ![p].st = "up"]
    <3> DEFINE x == [procs[p] EXCEPT !.st = "up"]
    <3>1. "up" \in ProcSts
      BY DEF ProcSts, Alive, Holds
    <3>2. x \in Procs
      BY <1>1, <3>1, ProcOf
    <3>3. procs' = [procs EXCEPT ![p] = x]
      BY <2>3
    <3> HIDE DEF x
    <3> QED  BY <1>1, <1>2, <2>2, <3>2, <3>3, ProcIs
  <2> QED  BY <1>1, <1>2, <2>1, <2>2, <2>3, EndsIs
<1>4. CASE PmAnswer
  <2>1. PICK p \in DOMAIN procs, mode \in Modes : procs' = [procs EXCEPT ![p].mode = mode]
    <3>1. PICK p \in DOMAIN procs :
             LET t == procs[p].tag
                 mode == CASE procs[p].st = "term" -> "STOPPING"
                           [] procs[p].st = "up" /\ pmpipe[t][1] = "SC_ENABLE" -> "ENABLED"
                           [] procs[p].st = "up" /\ pmpipe[t][1] = "SC_DISABLE" -> "DISABLED"
                           [] OTHER -> procs[p].mode
             IN  procs' = [procs EXCEPT ![p].mode = mode]
      BY <1>4 DEF PmAnswer
    <3>2. procs[p].mode \in Modes
      BY <1>1, ProcOf
    <3>3. PICK mode \in Modes : procs' = [procs EXCEPT ![p].mode = mode]
      BY <3>1, <3>2 DEF Modes
    <3> QED  BY <3>3
  <2>2. UNCHANGED outside /\ faults' = faults
    BY <1>4 DEF PmAnswer
  <2> DEFINE x == [procs[p] EXCEPT !.mode = mode]
  <2>3. x \in Procs
    BY <1>1, ProcOf
  <2>4. procs' = [procs EXCEPT ![p] = x]
    BY <2>1
  <2> HIDE DEF x
  <2> QED  BY <1>1, <1>2, <2>2, <2>3, <2>4, ProcIs
<1>5. CASE PmExit
  <2>1. (\E p \in DOMAIN procs : Ends(p)) /\ UNCHANGED outside /\ faults' = faults
    BY <1>5 DEF PmExit
  <2> QED  BY <1>1, <1>2, <2>1, EndsIs
<1>6. CASE PmFails
  <2>1. PICK p \in DOMAIN procs : \/ Faults({"die"}) /\ Ends(p)
                                  \/ Faults({"hang"}) /\ procs' = [procs EXCEPT ![p].st = "hung"]
    BY <1>6 DEF PmFails
  <2>2. UNCHANGED outside /\ faults' \in 0..scenario.most
    BY <1>6, <2>1, FaultsAre DEF PmFails
  <2>3. CASE procs' = [procs EXCEPT ![p].st = "hung"]
    <3> DEFINE x == [procs[p] EXCEPT !.st = "hung"]
    <3>1. "hung" \in ProcSts
      BY DEF ProcSts, Alive, Holds
    <3>2. x \in Procs
      BY <1>1, <3>1, ProcOf
    <3>3. procs' = [procs EXCEPT ![p] = x]
      BY <2>3
    <3> HIDE DEF x
    <3> QED  BY <1>1, <1>2, <2>2, <3>2, <3>3, ProcIs
  <2> QED  BY <1>1, <1>2, <2>1, <2>2, <2>3, EndsIs
<1> QED  BY <1>3, <1>4, <1>5, <1>6

-----------------------------------------------------------------------------
(***************************************************************************)
(* The theorems.                                                           *)
(***************************************************************************)

LEMMA InitInv == Init => SacInv
<1> SUFFICES ASSUME Init PROVE SacInv
  OBVIOUS
<1>1. scenario \in Scenarios /\ ScenarioType(scenario)
  BY ScenarioAssumption DEF Init
<1>2. 0 \in 0..Len(scenario.commands) /\ 0 \in 0..scenario.most
  BY <1>1 DEF ScenarioType
<1>3. file \in Tables
  BY <1>1, TablesAre DEF Init, Tables
<1>4. DOMAIN tab = {} /\ TabOK(tab, Len(procs))
  BY DEF Init, TabOK
<1>5. StackOK(stack, DOMAIN tab, Len(procs))
  BY DEF Init, StackOK
<1>6. procs \in Seq(Procs)
  BY DEF Init
<1>7. /\ starts \in [Tags(scenario) -> Nat] /\ doubled \in [Tags(scenario) -> Nat]
      /\ told \in [Tags(scenario) -> State]
  BY DEF Init, State
<1> QED  BY <1>1, <1>2, <1>3, <1>4, <1>5, <1>6, <1>7 DEF Init, SacInv

\* A task that is carried out.
LEMMA WorkInv ==
    ASSUME SacInv, Work
    PROVE  SacInv'
BY StartpmInv, ForkInv, StartingInv, StartedInv, SetStateInv, PollfailInv, StoppedInv, KillInv, CheckInv,
   CountInv, CloseInv, RestoreInv, PollpmsInv, SendInv, SetOkInv, StartpmsInv, StartallInv, ReadTableInv,
   PurgeInv, RemoveInv, TerminateInv
   DEF Work

\* Nothing happens.
LEMMA StutterInv ==
    ASSUME SacInv, UNCHANGED vars
    PROVE  SacInv'
BY StillStep DEF vars, SacInv

LEMMA NextInv ==
    ASSUME SacInv, [Next]_vars
    PROVE  SacInv'
BY SacStartInv, WorkInv, AlarmInv, ReapInv, ReadpipeInv, SigpollInv, WorldInv, SacCrashInv, StutterInv DEF Next

\* However signals interrupt sac, its variables have their types, its handlers
\* have left to do what they can have, and the starts of every port monitor
\* are within its restarts, those that handlers are about to count or to carry
\* out among them (pollfail, startpm).
THEOREM SacInvariance == Spec => []SacInv
<1>1. Init => SacInv
  BY InitInv
<1>2. SacInv /\ [Next]_vars => SacInv'
  BY NextInv
<1> QED  BY <1>1, <1>2, PTL DEF Spec

\* sc_rscnt passes sc_rsmax by no more than the restarts that two handlers
\* decided on at once, and the variables have their types (pollfail, insert).
THEOREM TypeCorrect == Spec => []TypeOK
<1>1. SacInv => TypeOK
  <2> SUFFICES ASSUME SacInv PROVE TypeOK
    OBVIOUS
  <2>1. ASSUME NEW t \in DOMAIN tab PROVE EntryType(t, tab[t])
    <3> DEFINE e == tab[t]
               c == Count(stack, t, Counting)
    <3>1. e \in Entries /\ e.pid <= Len(procs) /\ MostRestarts(t) \in Nat /\ Len(procs) \in Nat
      BY EntryIs
    <3>2. e.rscnt \in Nat /\ e.pid \in Nat /\ {e.sstate, e.pstate} \subseteq State /\ e.lstate \in LastStates
      BY <3>1 DEF Entries
    <3>3. stack \in Seq(Frames(DOMAIN tab, Len(procs)))
      BY DEF SacInv, StackOK
    <3>4. c \in Nat
      BY <3>3, CountIs
    <3> DEFINE r == e.rscnt
               most == MostRestarts(t)
    <3>5. PICK x, y \in Nat : x + y = doubled[t] /\ r + c <= most + x
      BY DEF SacInv, Within, Limited
    <3> HIDE DEF c, r, most
    <3>6. most \in Nat /\ r \in Nat
      BY <3>1, <3>2 DEF r, most
    <3>7. r \in 0..(most + doubled[t])
      BY <3>4, <3>5, <3>6
    <3>8. e.rscnt \in 0..(MostRestarts(t) + doubled[t])
      BY <3>7 DEF r, most
    <3>9. e.pid \in 0..Len(procs)
      BY <3>1, <3>2
    <3> HIDE DEF e
    <3>10. EntryType(t, e)
      BY <3>2, <3>8, <3>9 DEF EntryType, LastStates
    <3> QED  BY <3>10 DEF e
  <2>2. \A p \in DOMAIN procs : procs[p].st \in Alive \cup {"zombie", "none"}
    <3>1. procs \in Seq(Procs)
      BY DEF SacInv
    <3> QED  BY <3>1, ProcOf DEF ProcSts
  <2> QED  BY <2>1, <2>2 DEF TypeOK, SacInv, TabOK
<1> QED  BY <1>1, SacInvariance, PTL

\* A port monitor that was told to start is started at most once more than
\* its restart count allows, and once more for each time that a handler
\* interrupted another one that was about to start it too (pollfail, startpm).
THEOREM RestartsLimited == Spec => []RestartLimit
<1>1. SacInv => RestartLimit
  <2> SUFFICES ASSUME SacInv, NEW t \in DOMAIN tab
               PROVE  starts[t] <= MostRestarts(t) + 1 + doubled[t]
    BY DEF RestartLimit
  <2> DEFINE c == Count(stack, t, Counting)
             g == Count(stack, t, Starting)
             r == tab[t].rscnt
             most == MostRestarts(t)
             s == starts[t]
  <2>1. tab[t] \in Entries /\ most \in Nat /\ s \in Nat
    BY EntryIs
  <2>2. stack \in Seq(Frames(DOMAIN tab, Len(procs)))
    BY DEF SacInv, StackOK
  <2>3. c \in Nat /\ g \in Nat /\ r \in Nat
    BY <2>1, <2>2, CountIs DEF Entries
  <2>4. PICK x, y \in Nat : x + y = doubled[t] /\ r + c <= most + x /\ s + g <= 1 + r + c + y
    BY DEF SacInv, Within, Limited
  <2> HIDE DEF c, g, r, most, s
  <2>5. s <= most + 1 + doubled[t]
    BY <2>1, <2>3, <2>4
  <2> QED  BY <2>5 DEF s, most
<1> QED  BY <1>1, SacInvariance, PTL
=============================================================================
