---------------------------- MODULE UuSeqProofs -----------------------------
(***************************************************************************)
(* Proofs about the lock files of module UuLock and the job numbers of     *)
(* module UuSeq, for any set of processes, any file to start with and any  *)
(* number of jobs.                                                         *)
(*                                                                         *)
(* LockInv is inductive.  Each lemma of the first part is for one kind of  *)
(* step; the parts of LockInv that the step cannot disturb follow from the *)
(* types.  getseq runs under the lock, so LockInv holds throughout; on top *)
(* of it SeqInv is inductive.                                              *)
(***************************************************************************)
EXTENDS UuSeq, TLAPS

\* Every step leaves the state well typed.
LEMMA TypeStep ==
    ASSUME LockTypeOK, Attempts, LockNext
    PROVE  LockTypeOK'
<1> USE LockAssumption
<1> PICK p \in Procs : LockStep(p) \/ Begin(p) \/ Finish(p) \/ Cleanup(p) \/ Die(p) \/ Start(p)
  BY DEF LockNext
<1>1. CASE Begin(p)
  BY <1>1 DEF LockTypeOK, Begin, Goto, Places
<1>2. CASE Create(p)
  BY <1>2 DEF LockTypeOK, Create, OnelockFails, Goto, Places
<1>3. CASE Link(p)
  <2>1. CASE lock = None
    BY <1>3, <2>1 DEF LockTypeOK, Link, Goto, Places
  <2>2. CASE lock # None
    <3>1. pc' \in [Procs -> Places] /\ again' \in [Procs -> BOOLEAN] /\ temp' \subseteq Procs
      BY <1>3, <2>2 DEF LockTypeOK, Link, OnelockFails, Goto, Places
    <3> QED  BY <1>3, <2>2, <3>1 DEF LockTypeOK, Link
  <2> QED  BY <2>1, <2>2
<1>4. CASE Untemp(p)
  BY <1>4 DEF LockTypeOK, Untemp, Goto, Places
<1>5. CASE Open(p)
  <2>1. pc' \in [Procs -> Places]
    BY <1>5 DEF LockTypeOK, Open, NotActive, Goto, Places
  <2>2. again' \in [Procs -> BOOLEAN]
    BY <1>5 DEF LockTypeOK, Open, NotActive
  <2>3. seen' \in [Procs -> Procs \cup {None}]
    BY <1>5 DEF LockTypeOK, Open
  <2> QED  BY <1>5, <2>1, <2>2, <2>3 DEF LockTypeOK, Open
<1>6. CASE Kill(p)
  BY <1>6 DEF LockTypeOK, Kill, Goto, Places
<1>7. CASE Unlink(p)
  BY <1>7 DEF LockTypeOK, Unlink, NotActive, Remove, Goto, Places
<1>8. CASE Lockf(p)
  <2>1. pc' \in [Procs -> Places]
    BY <1>8 DEF LockTypeOK, Lockf, Goto, Places
  <2>2. tries[p] \in 0..MAX_LOCKTRY /\ tries[p] < MAX_LOCKTRY /\ MAX_LOCKTRY \in Nat
    BY <1>8 DEF LockTypeOK, Attempts, Lockf
  <2>3. tries' \in [Procs -> 0..MAX_LOCKTRY]
    BY <1>8, <2>2 DEF LockTypeOK, Lockf
  <2>4. dev' \in Procs \cup {None}
    BY <1>8 DEF LockTypeOK, Lockf
  <2> QED  BY <1>8, <2>1, <2>3, <2>4 DEF LockTypeOK, Lockf
<1>9. CASE Rmlock(p)
  BY <1>9 DEF LockTypeOK, Rmlock, Remove, Goto, Places
<1>10. CASE Forget(p)
  BY <1>10 DEF LockTypeOK, Forget, Goto, Places
<1>11. CASE Unlockf(p)
  BY <1>11 DEF LockTypeOK, Unlockf, Goto, Places
<1>12. CASE Finish(p)
  BY <1>12 DEF LockTypeOK, Finish, Goto, Places
<1>13. CASE Cleanup(p)
  <2>1. pc' \in [Procs -> Places]
    BY <1>13 DEF LockTypeOK, Cleanup, Goto, Places
  <2>2. lock' \in Procs \cup {None} /\ stolen' \in BOOLEAN
    BY <1>13 DEF LockTypeOK, Cleanup, Remove
  <2> QED  BY <1>13, <2>1, <2>2 DEF LockTypeOK, Cleanup
<1>14. CASE Exit(p)
  BY <1>14 DEF LockTypeOK, Exit, Gone, Goto, Places
<1>15. CASE Die(p)
  BY <1>15 DEF LockTypeOK, Die, Gone, Goto, Places
<1>16. CASE Start(p)
  BY <1>16 DEF LockTypeOK, Start, Goto, Places
<1> QED
  BY <1>1, <1>2, <1>3, <1>4, <1>5, <1>6, <1>7, <1>8, <1>9, <1>10, <1>11, <1>12,
     <1>13, <1>14, <1>15, <1>16 DEF LockStep

\* What the steps of p leave alone: all that LockInv says of the others,
\* as far as it is about pc, use, seen and tries.
LEMMA Others ==
    ASSUME LockTypeOK, NEW p \in Procs, NEW q \in Procs, p # q,
           LockStep(p) \/ Begin(p) \/ Finish(p) \/ Cleanup(p) \/ Die(p) \/ Start(p)
    PROVE  pc'[q] = pc[q] /\ use'[q] = use[q] /\ seen'[q] = seen[q] /\ tries'[q] = tries[q]
<1>1. CASE Begin(p) \/ Create(p) \/ Link(p) \/ Untemp(p) \/ Finish(p) \/ Rmlock(p)
           \/ Unlockf(p) \/ Cleanup(p)
  <2>1. pc'[q] = pc[q]
    BY <1>1 DEF LockTypeOK, Begin, Create, Link, OnelockFails, Untemp, Finish, Rmlock, Unlockf,
                Cleanup, Goto
  <2>2. UNCHANGED <<use, seen, tries>>
    BY <1>1 DEF Begin, Create, Link, Untemp, Finish, Rmlock, Unlockf, Cleanup
  <2> QED  BY <2>1, <2>2
<1>2. CASE Open(p) \/ Kill(p) \/ Unlink(p)
  <2>1. pc'[q] = pc[q]
    BY <1>2 DEF LockTypeOK, Open, Kill, Unlink, NotActive, Goto
  <2>2. seen'[q] = seen[q] /\ UNCHANGED <<use, tries>>
    BY <1>2 DEF LockTypeOK, Open, Kill, Unlink
  <2> QED  BY <2>1, <2>2
<1>3. CASE Lockf(p) \/ Forget(p)
  BY <1>3 DEF LockTypeOK, Lockf, Forget, Goto
<1>4. CASE Exit(p) \/ Die(p)
  BY <1>4 DEF LockTypeOK, Exit, Die, Gone, Goto
<1>5. CASE Start(p)
  BY <1>5 DEF LockTypeOK, Start, Goto
<1> QED  BY <1>1, <1>2, <1>3, <1>4, <1>5 DEF LockStep

\* Attempts and PidRead are about one process at a time.
LEMMA LocalStep ==
    ASSUME LockTypeOK, Attempts, PidRead, LockNext
    PROVE  Attempts' /\ PidRead'
<1> USE LockAssumption
<1> PICK p \in Procs : LockStep(p) \/ Begin(p) \/ Finish(p) \/ Cleanup(p) \/ Die(p) \/ Start(p)
  BY DEF LockNext
<1> DEFINE A(q) == /\ pc[q] = "lockf" => tries[q] < MAX_LOCKTRY
                   /\ pc[q] \notin {"lockf", "rmlock", "forget", "exit"} => tries[q] = 0
           R(q) == pc[q] = "kill" => seen[q] \in Procs
<1>1. A(p)' /\ R(p)'
  <2>1. CASE Begin(p) \/ Create(p) \/ Link(p) \/ Untemp(p) \/ Finish(p) \/ Rmlock(p)
             \/ Unlockf(p) \/ Cleanup(p)
    BY <2>1 DEF LockTypeOK, Attempts, Begin, Create, Link, OnelockFails, Untemp, Finish,
                Rmlock, Unlockf, Cleanup, Goto
  <2>2. CASE Open(p)
    BY <2>2 DEF LockTypeOK, Attempts, Open, NotActive, Goto
  <2>3. CASE Kill(p) \/ Unlink(p)
    BY <2>3 DEF LockTypeOK, Attempts, Kill, Unlink, NotActive, Goto
  <2>4. CASE Lockf(p)
    BY <2>4 DEF LockTypeOK, Attempts, Lockf, Goto
  <2>5. CASE Forget(p) \/ Exit(p) \/ Die(p) \/ Start(p)
    BY <2>5 DEF LockTypeOK, Attempts, Forget, Exit, Die, Gone, Start, Goto
  <2> QED  BY <2>1, <2>2, <2>3, <2>4, <2>5 DEF LockStep
<1>2. ASSUME NEW q \in Procs, q # p
      PROVE  A(q)' /\ R(q)'
  BY <1>2, Others DEF Attempts, PidRead
<1> QED  BY <1>1, <1>2 DEF Attempts, PidRead

\* The lockf lock changes hands only through None.
LEMMA DeviceStep ==
    ASSUME LockTypeOK, DeviceHeld, LockNext
    PROVE  DeviceHeld'
<1> USE LockAssumption
<1> PICK p \in Procs : LockStep(p) \/ Begin(p) \/ Finish(p) \/ Cleanup(p) \/ Die(p) \/ Start(p)
  BY DEF LockNext
<1> SUFFICES ASSUME NEW q \in Procs, pc'[q] = "held", use'[q] = "fd_mklock"
             PROVE  dev' = q
  BY DEF DeviceHeld
<1>1. CASE Lockf(p)
  <2>1. CASE q = p
    BY <1>1, <2>1 DEF LockTypeOK, Lockf, Goto
  <2>2. CASE q # p
    <3>1. pc[q] = "held" /\ use[q] = "fd_mklock"
      BY <1>1, <2>2, Others DEF LockStep
    <3>2. dev = q /\ dev # None
      BY <3>1 DEF DeviceHeld
    <3> QED  BY <1>1, <3>2 DEF Lockf
  <2> QED  BY <2>1, <2>2
<1>2. CASE ~Lockf(p)
  <2>1. Begin(p) \/ Create(p) \/ Link(p) \/ Untemp(p) \/ Open(p) \/ Kill(p) \/ Unlink(p)
        => q # p
    BY DEF LockTypeOK, Begin, Create, Link, OnelockFails, Untemp, Open, Kill, Unlink, NotActive, Goto
  <2>2. q # p
    BY <1>2, <2>1 DEF LockTypeOK, LockStep, Finish, Rmlock, Forget, Unlockf, Cleanup, Exit, Die,
                      Gone, Start, Goto
  <2>3. pc[q] = "held" /\ use[q] = "fd_mklock"
    BY <2>2, Others
  <2>4. dev = q
    BY <2>3 DEF DeviceHeld
  <2>5. dev' = dev \/ dev = p
    BY <1>2 DEF LockStep, Begin, Create, Link, Untemp, Open, Kill, Unlink, Finish, Rmlock, Forget,
                Unlockf, Cleanup, Exit, Die, Gone, Start
  <2> QED  BY <2>2, <2>4, <2>5
<1> QED  BY <1>1, <1>2

\* A step that makes a process own the lock file is a link; one that
\* removes the file of another process that owns it is a theft.
LEMMA FileStep ==
    ASSUME LockTypeOK, FileHeld, LockNext
    PROVE  FileHeld'
<1> USE LockAssumption
<1> PICK p \in Procs : LockStep(p) \/ Begin(p) \/ Finish(p) \/ Cleanup(p) \/ Die(p) \/ Start(p)
  BY DEF LockNext
<1> SUFFICES ASSUME ~stolen', NEW q \in Procs, Owns(q)'
             PROVE  lock' = q
  BY DEF FileHeld
<1>1. CASE Link(p)
  <2>1. CASE q = p
    BY <1>1, <2>1 DEF LockTypeOK, Link, OnelockFails, Goto, Owns
  <2>2. CASE q # p
    <3>1. Owns(q)
      BY <1>1, <2>2, Others DEF LockStep, Owns
    <3>2. lock = q
      BY <1>1, <3>1 DEF FileHeld, Link
    <3> QED  BY <1>1, <3>2 DEF Link
  <2> QED  BY <2>1, <2>2
<1>2. CASE Unlink(p) \/ Rmlock(p) \/ Cleanup(p)
  <2>1. q # p
    BY <1>2 DEF LockTypeOK, Unlink, Rmlock, Cleanup, NotActive, Goto, Owns
  <2>2. Owns(q)
    BY <1>2, <2>1, Others DEF LockStep, Owns
  <2>3. ~stolen
    BY <1>2 DEF Unlink, Rmlock, Cleanup, Remove
  <2>4. lock = q
    BY <2>2, <2>3 DEF FileHeld
  <2> QED  BY <1>2, <2>1, <2>2, <2>4 DEF Unlink, Rmlock, Cleanup, Remove
<1>3. CASE ~(Link(p) \/ Unlink(p) \/ Rmlock(p) \/ Cleanup(p))
  <2>1. lock' = lock /\ stolen' = stolen
    BY <1>3 DEF LockStep, Begin, Create, Untemp, Open, Kill, Lockf, Finish, Forget, Unlockf,
                Exit, Die, Gone, Start
  <2>2. ASSUME q = p  PROVE Owns(p)
    BY <1>3, <2>2 DEF LockTypeOK, LockStep, Begin, Create, OnelockFails, Untemp, Open, Kill,
                NotActive, Lockf, Finish, Forget, Unlockf, Exit, Die, Gone, Start, Goto, Owns
  <2>3. Owns(q)
    BY <2>2, Others DEF Owns
  <2> QED  BY <2>1, <2>3 DEF FileHeld
<1> QED  BY <1>1, <1>2, <1>3

\* While all processes run cklock ends at kill, and what rmlock removes is
\* the process's own.
LEMMA NoneDeadStep ==
    ASSUME LockTypeOK, FileHeld, PidRead, NoneDead, LockNext
    PROVE  NoneDead'
<1> USE LockAssumption
<1> PICK p \in Procs : LockStep(p) \/ Begin(p) \/ Finish(p) \/ Cleanup(p) \/ Die(p) \/ Start(p)
  BY DEF LockNext
<1> SUFFICES ASSUME ends' = 0, "open" \notin Faults
             PROVE  ~stolen' /\ \A q \in Procs : pc'[q] \notin {"dead", "exit", "unlink"}
  BY DEF NoneDead
<1>1. ends = 0 /\ ~Cleanup(p) /\ ~Die(p)
  BY DEF LockTypeOK, LockStep, Begin, Create, Link, Untemp, Open, Kill, Unlink, Lockf, Finish,
         Rmlock, Forget, Unlockf, Cleanup, Exit, Die, Start
<1>2. ~stolen /\ \A q \in Procs : pc[q] \notin {"dead", "exit", "unlink"}
  BY <1>1 DEF NoneDead
<1>3. ~Unlink(p) /\ ~Exit(p) /\ ~Start(p)
  BY <1>2 DEF Unlink, Exit, Start
<1>4. ~stolen'
  <2>1. CASE Rmlock(p)
    <3>1. lock = p
      BY <1>2, <2>1 DEF FileHeld, Rmlock, Owns
    <3> QED  BY <1>2, <2>1, <3>1 DEF Rmlock, Remove
  <2>2. CASE ~Rmlock(p)
    BY <1>1, <1>2, <1>3, <2>2 DEF LockStep, Begin, Create, Link, Untemp, Open, Kill, Lockf,
                                  Finish, Forget, Unlockf
  <2> QED  BY <2>1, <2>2
<1>5. pc'[p] \notin {"dead", "exit", "unlink"}
  <2>1. CASE Kill(p)
    <3>1. Running(seen[p])
      BY <1>2, <2>1 DEF PidRead, Kill, Running
    <3> QED  BY <2>1, <3>1 DEF LockTypeOK, Kill, Goto
  <2>2. CASE Begin(p) \/ Create(p) \/ Link(p) \/ Untemp(p) \/ Open(p)
    BY <1>2, <2>2 DEF LockTypeOK, Begin, Create, Link, OnelockFails, Untemp, Open, NotActive, Goto
  <2>3. CASE Lockf(p) \/ Finish(p) \/ Rmlock(p) \/ Forget(p) \/ Unlockf(p)
    BY <1>2, <2>3 DEF LockTypeOK, Lockf, Finish, Rmlock, Forget, Unlockf, Goto
  <2> QED  BY <1>1, <1>3, <2>1, <2>2, <2>3 DEF LockStep
<1>6. ASSUME NEW q \in Procs, q # p
      PROVE  pc'[q] \notin {"dead", "exit", "unlink"}
  BY <1>2, <1>6, Others
<1> QED  BY <1>4, <1>5, <1>6

-----------------------------------------------------------------------------
\* LockInv holds in every state: the strengthening from which the
\* properties of the lock file and of the device lock follow.
THEOREM LockInvariance == LockSpec => []LockInv
<1>1. LockInit => LockInv
  <2> SUFFICES ASSUME LockInit PROVE LockInv
    OBVIOUS
  <2>1. LockTypeOK
    <3>1. use \in [Procs -> {"mklock", "fd_mklock", "cklock"}]
      BY LockAssumption DEF LockInit
    <3>2. again \in [Procs -> BOOLEAN] /\ tries \in [Procs -> 0..MAX_LOCKTRY]
      BY LockAssumption DEF LockInit
    <3> QED  BY <3>1, <3>2 DEF LockInit, LockTypeOK, Places
  <2>2. Attempts
    BY LockAssumption DEF LockInit, Attempts
  <2>3. DeviceHeld /\ FileHeld /\ PidRead /\ NoneDead
    BY DEF LockInit, DeviceHeld, FileHeld, PidRead, NoneDead, Owns
  <2> QED  BY <2>1, <2>2, <2>3 DEF LockInv
<1>2. LockInv /\ [LockNext]_lockVars => LockInv'
  <2> SUFFICES ASSUME LockInv, [LockNext]_lockVars PROVE LockInv'
    OBVIOUS
  <2>1. CASE LockNext
    BY <2>1, TypeStep, LocalStep, DeviceStep, FileStep, NoneDeadStep DEF LockInv
  <2>2. CASE UNCHANGED lockVars
    BY <2>2 DEF LockInv, LockTypeOK, Attempts, DeviceHeld, FileHeld, PidRead, NoneDead, Owns, lockVars
  <2> QED  BY <2>1, <2>2
<1> QED  BY <1>1, <1>2, PTL DEF LockSpec

\* The state is well typed; in particular fd_mklock makes no more than
\* MAX_LOCKTRY attempts.
THEOREM LockTypeCorrect == LockSpec => []LockTypeOK
<1>1. LockInv => LockTypeOK
  BY DEF LockInv
<1> QED  BY <1>1, LockInvariance, PTL

\* fd_mklock gives a device to one process at a time, whatever becomes of
\* the lock file.
THEOREM DeviceIsExclusive == LockSpec => []DeviceExclusive
<1>1. LockInv => DeviceExclusive
  BY DEF LockInv, DeviceHeld, DeviceExclusive
<1> QED  BY <1>1, LockInvariance, PTL

\* mklock is exclusive unless a process's lock file is removed by another:
\* the unlink of cklock, and a rmlock repeated by the signal handler, are
\* the only weak points of the scheme.
THEOREM LockIsExclusive == LockSpec => []LockExclusive
<1>1. LockInv => LockExclusive
  BY DEF LockInv, FileHeld, LockExclusive
<1> QED  BY <1>1, LockInvariance, PTL

\* And nobody removes another's lock file while all processes run and lock
\* files can be opened.
THEOREM NoTheftWhileRunning == LockSpec => []NoTheft
<1>1. LockInv => NoTheft
  BY DEF LockInv, NoneDead, NoTheft
<1> QED  BY <1>1, LockInvariance, PTL

-----------------------------------------------------------------------------

\* A step of getseq is a step of the lock, or leaves the lock alone.
LEMMA SeqStepsLock ==
    ASSUME [SeqNext]_seqVars
    PROVE  [LockNext]_lockVars
<1>1. CASE SeqNext
  <2> PICK p \in Procs : \/ Locking(p) \/ Return(p) \/ End(p)
                         \/ ReadSeq(p) \/ GuessSeq(p) \/ CreateSeq(p)
                         \/ TruncateSeq(p) \/ WriteSeq(p)
    BY <1>1 DEF SeqNext
  <2>1. CASE Locking(p)
    BY <2>1 DEF Locking, LockNext, LockStep
  <2>2. CASE Return(p) \/ End(p)
    BY <2>2 DEF Return, End, LockNext, LockStep
  <2>3. CASE ReadSeq(p) \/ GuessSeq(p) \/ CreateSeq(p) \/ TruncateSeq(p) \/ WriteSeq(p)
    BY <2>3 DEF ReadSeq, GuessSeq, CreateSeq, TruncateSeq, WriteSeq
  <2> QED  BY <2>1, <2>2, <2>3
<1>2. CASE UNCHANGED seqVars
  BY <1>2 DEF seqVars
<1> QED  BY <1>1, <1>2

\* What is proved of the lock holds while getseq uses it.
THEOREM SeqLockInvariance == SeqSpec => []LockInv
<1>1. SeqInit => LockInit
  BY DEF SeqInit
<1>2. [SeqNext]_seqVars => [LockNext]_lockVars
  BY SeqStepsLock
<1>3. SeqSpec => LockSpec
  BY <1>1, <1>2, PTL DEF SeqSpec, LockSpec
<1> QED  BY <1>3, LockInvariance, PTL

\* A theft is for ever.
LEMMA StolenStays ==
    ASSUME LockTypeOK, LockNext, ~stolen'
    PROVE  ~stolen
<1> PICK p \in Procs : LockStep(p) \/ Begin(p) \/ Finish(p) \/ Cleanup(p) \/ Die(p) \/ Start(p)
  BY DEF LockNext
<1>1. CASE Begin(p) \/ Create(p) \/ Link(p) \/ Untemp(p) \/ Open(p) \/ Kill(p) \/ Lockf(p)
           \/ Finish(p) \/ Forget(p) \/ Unlockf(p) \/ Exit(p) \/ Die(p) \/ Start(p)
  BY <1>1 DEF Begin, Create, Link, Untemp, Open, Kill, Lockf, Finish, Forget, Unlockf, Exit,
              Die, Gone, Start
<1>2. CASE Unlink(p) \/ Rmlock(p) \/ Cleanup(p)
  BY <1>2 DEF Unlink, Rmlock, Cleanup, Remove
<1> QED  BY <1>1, <1>2 DEF LockStep

\* Two processes are not in getseq's file code at the same time.
LEMMA OneInFile ==
    ASSUME LockInv, ~stolen, NEW p \in Procs, NEW q \in Procs, pc[p] = "held", pc[q] = "held"
    PROVE  p = q
BY DEF LockInv, FileHeld, Owns

LEMMA WrapType == Wrap \in Nat \ {0} /\ Absent = Wrap /\ Empty = Wrap + 1
BY SMT DEF Wrap, Absent, Empty

\* n++ and n &= 0xffff make a number of sixteen bits.
LEMMA NumberRange ==
    ASSUME NEW m \in Nat
    PROVE  (m + 1) % Wrap \in 0..Wrap - 1
BY WrapType

\* The arithmetic of the numbers: an increment takes every number one
\* further behind, and none of fewer than 65536 increments meets an old one.
LEMMA NextNumber ==
    ASSUME NEW a \in 0..Wrap - 1, NEW m \in 0..Wrap - 1, NEW w \in Nat, w < Wrap,
           Behind(a, m) < w
    PROVE  (m + 1) % Wrap # a /\ Behind(a, (m + 1) % Wrap) = Behind(a, m) + 1
<1>1. CASE m = Wrap - 1
  <2>1. (m + 1) % Wrap = 0
    BY <1>1, WrapType
  <2> QED  BY <1>1, <2>1, WrapType DEF Behind
<1>2. CASE m < Wrap - 1
  <2>1. (m + 1) % Wrap = m + 1
    BY <1>2, WrapType
  <2> QED  BY <1>2, <2>1, WrapType DEF Behind
<1> QED  BY <1>1, <1>2, WrapType

\* The places of getseq: file code runs under the lock, and a process that
\* has left it has written its number.
LEMMA UnderLockStep ==
    ASSUME LockInv, SeqTypeOK, UnderLock, SeqNext
    PROVE  /\ \A p \in Procs : pc'[p] \in {"rmlock", "forget"} => step'[p] = "done"
           /\ UnderLock'
<1> USE LockAssumption DEF LockInv
<1> PICK p \in Procs : \/ Locking(p) \/ Return(p) \/ End(p)
                       \/ ReadSeq(p) \/ GuessSeq(p) \/ CreateSeq(p)
                       \/ TruncateSeq(p) \/ WriteSeq(p)
  BY DEF SeqNext
<1> DEFINE P(q) == /\ step[q] \in {"freopen", "fprintf"} => pc[q] = "held"
                   /\ step[q] = "done" => pc[q] \in {"held", "rmlock", "forget"} /\ n[q] < Wrap
                   /\ pc[q] \in {"rmlock", "forget"} => step[q] = "done"
<1>0. \A q \in Procs : P(q)
  BY DEF UnderLock, SeqTypeOK
<1>1. /\ step' \in [Procs -> {"fopen", "freopen", "fprintf", "done"}] /\ written' \in Nat
      /\ lost' \in BOOLEAN
  <2>1. CASE End(p)
    <3>1. step' \in [Procs -> {"fopen", "freopen", "fprintf", "done"}] /\ written' \in Nat
      BY <2>1 DEF UnderLock, End
    <3>2. lost' \in BOOLEAN
      BY <2>1 DEF UnderLock, End
    <3> QED  BY <3>1, <3>2
  <2>2. CASE ~End(p)
    <3>1. step' \in [Procs -> {"fopen", "freopen", "fprintf", "done"}] /\ written' \in Nat
      BY <2>2 DEF UnderLock, Locking, fileVars, Return, ReadSeq, GuessSeq, CreateSeq, TruncateSeq, WriteSeq
    <3>2. lost' \in BOOLEAN
      BY <2>2 DEF UnderLock, Locking, fileVars, Return, ReadSeq, GuessSeq, CreateSeq, TruncateSeq, WriteSeq
    <3> QED  BY <3>1, <3>2
  <2> QED  BY <2>1, <2>2
<1>2. ASSUME NEW q \in Procs, q # p
      PROVE  P(q)'
  <2>1. step'[q] = step[q] /\ n'[q] = n[q]
    BY <1>2 DEF UnderLock, SeqTypeOK, Locking, fileVars, Return, End, ReadSeq, GuessSeq, CreateSeq, TruncateSeq, WriteSeq
  <2>2. CASE Locking(p) \/ Return(p) \/ End(p)
    <3>1. pc'[q] = pc[q]
      BY <1>2, <2>2, Others DEF Locking, Return, End, LockStep
    <3> QED  BY <1>0, <2>1, <3>1
  <2>3. CASE ReadSeq(p) \/ GuessSeq(p) \/ CreateSeq(p) \/ TruncateSeq(p) \/ WriteSeq(p)
    <3>1. pc'[q] = pc[q]
      BY <2>3 DEF ReadSeq, GuessSeq, CreateSeq, TruncateSeq, WriteSeq, lockVars
    <3> QED  BY <1>0, <2>1, <3>1
  <2> QED  BY <2>2, <2>3
<1>3. P(p)'
  <2>1. CASE Locking(p)
    <3>1. step' = step /\ n' = n
      BY <2>1 DEF Locking, fileVars
    <3>2. CASE Begin(p) \/ Create(p) \/ Link(p) \/ Open(p) \/ Kill(p) \/ Unlink(p)
      <4>1. pc'[p] \notin {"rmlock", "forget"} /\ pc[p] \notin {"held", "rmlock", "forget"}
        BY <3>2 DEF LockTypeOK, Begin, Create, Link, OnelockFails, Open, Kill, Unlink,
                    NotActive, Goto
      <4> QED  BY <1>0, <3>1, <4>1 DEF UnderLock
    <3>3. CASE Untemp(p)
      <4>1. use[p] = "mklock" \/ use[p] = "cklock" \/ use[p] = "fd_mklock"
        BY DEF LockTypeOK
      <4>2. pc'[p] \in {"held", "lockf"} /\ pc[p] = "untemp"
        BY <3>3 DEF LockTypeOK, Untemp, Goto
      <4> QED  BY <1>0, <3>1, <4>2 DEF UnderLock
    <3>4. CASE Finish(p) /\ step[p] = "done"
      BY <1>0, <3>1, <3>4 DEF LockTypeOK, Finish, Goto
    <3>5. CASE Rmlock(p)
      BY <1>0, <3>1, <3>5 DEF LockTypeOK, Rmlock, Goto
    <3>6. CASE Exit(p) \/ Start(p)
      <4>1. pc'[p] \in {"dead", "idle"} /\ pc[p] \in {"exit", "dead"}
        BY <3>6 DEF LockTypeOK, Exit, Gone, Start, Goto
      <4> QED  BY <1>0, <3>1, <4>1 DEF UnderLock
    <3> QED  BY <2>1, <3>2, <3>3, <3>4, <3>5, <3>6 DEF Locking
  <2>2. CASE Return(p)
    <3>1. pc'[p] \notin {"rmlock", "forget"}
      BY <2>2 DEF Return, LockTypeOK, Forget, Goto
    <3> QED  BY <2>2, <3>1 DEF Return, UnderLock
  <2>3. CASE End(p)
    <3>1. pc'[p] \in {"exit", "dead"}
      BY <2>3 DEF End, LockTypeOK, Cleanup, Die, Gone, Goto
    <3> QED  BY <2>3, <3>1 DEF End, UnderLock
  <2>4. CASE ReadSeq(p) \/ GuessSeq(p) \/ CreateSeq(p) \/ TruncateSeq(p)
    BY <2>4 DEF ReadSeq, GuessSeq, CreateSeq, TruncateSeq, lockVars, UnderLock
  <2>5. CASE WriteSeq(p)
    <3>1. n'[p] = (n[p] + 1) % Wrap /\ n[p] \in Nat
      BY <2>5 DEF WriteSeq, SeqTypeOK
    <3>2. n'[p] < Wrap
      BY <3>1, NumberRange, WrapType
    <3> QED  BY <2>5, <3>2 DEF WriteSeq, lockVars, UnderLock
  <2> QED  BY <2>1, <2>2, <2>3, <2>4, <2>5
<1> QED  BY <1>1, <1>2, <1>3 DEF UnderLock

\* The file holds a number of four digits, or none.
LEMMA NumbersStep ==
    ASSUME SeqTypeOK, UnderLock, SeqNext
    PROVE  seqfile' \in 0..Empty /\ n' \in [Procs -> Nat] /\ jobs' \in Seq(0..Wrap - 1)
<1> USE WrapType
<1> PICK p \in Procs : \/ Locking(p) \/ Return(p) \/ End(p)
                       \/ ReadSeq(p) \/ GuessSeq(p) \/ CreateSeq(p)
                       \/ TruncateSeq(p) \/ WriteSeq(p)
  BY DEF SeqNext
<1>1. CASE Locking(p)
  BY <1>1 DEF SeqTypeOK, Locking, fileVars
<1>2. CASE Return(p)
  <2>1. n[p] \in 0..Wrap - 1
    BY <1>2 DEF Return, Forget, SeqTypeOK, UnderLock
  <2> QED  BY <1>2, <2>1 DEF SeqTypeOK, Return
<1>3. CASE End(p)
  BY <1>3 DEF SeqTypeOK, End
<1>4. CASE ReadSeq(p)
  BY <1>4 DEF SeqTypeOK, ReadSeq
<1>5. CASE GuessSeq(p) \/ CreateSeq(p)
  <2>1. PICK r \in Rands : n' = [n EXCEPT ![p] = r]
    BY <1>5 DEF GuessSeq, CreateSeq
  <2>2. r \in Nat
    BY SeqAssumption
  <2>3. n' \in [Procs -> Nat]
    BY <2>1, <2>2 DEF SeqTypeOK
  <2> QED  BY <1>5, <2>3 DEF SeqTypeOK, GuessSeq, CreateSeq
<1>6. CASE TruncateSeq(p)
  BY <1>6 DEF SeqTypeOK, TruncateSeq
<1>7. CASE WriteSeq(p)
  <2>1. n'[p] = (n[p] + 1) % Wrap /\ n[p] \in Nat
    BY <1>7 DEF WriteSeq, SeqTypeOK
  <2>2. (n[p] + 1) % Wrap \in 0..Wrap - 1
    BY <2>1, NumberRange
  <2>3. n' \in [Procs -> Nat]
    BY <1>7, <2>2 DEF WriteSeq, SeqTypeOK
  <2>4. seqfile' = n'[p] \/ seqfile' = seqfile
    BY <1>7 DEF WriteSeq
  <2> QED  BY <1>7, <2>1, <2>2, <2>3, <2>4 DEF SeqTypeOK, WriteSeq
<1> QED  BY <1>1, <1>2, <1>3, <1>4, <1>5, <1>6, <1>7

\* The file code of p changes nothing for the others.
LEMMA OtherNumbers ==
    ASSUME SeqTypeOK, UnderLock, NEW p \in Procs, NEW q \in Procs, q # p,
           \/ Locking(p) \/ Return(p) \/ End(p)
           \/ ReadSeq(p) \/ GuessSeq(p) \/ CreateSeq(p)
           \/ TruncateSeq(p) \/ WriteSeq(p)
    PROVE  step'[q] = step[q] /\ n'[q] = n[q]
BY DEF SeqTypeOK, UnderLock, Locking, fileVars, Return, End, ReadSeq, GuessSeq, CreateSeq, TruncateSeq, WriteSeq

\* Only a write takes a new number.
LEMMA NoneTaken ==
    ASSUME SeqTypeOK, UnderLock, NEW p \in Procs,
           Locking(p) \/ Return(p) \/ End(p) \/ ReadSeq(p) \/ GuessSeq(p) \/ CreateSeq(p)
           \/ TruncateSeq(p)
    PROVE  Taken' \subseteq Taken /\ written' = written
<1>1. written' = written
  BY DEF Locking, fileVars, Return, End, ReadSeq, GuessSeq, CreateSeq, TruncateSeq
<1>2. CASE Locking(p)
  BY <1>2 DEF Taken, Pending, Locking, fileVars
<1>3. CASE Return(p)
  <2>1. Pending(p) /\ ~Pending(p)'
    BY <1>3 DEF Return, Forget, SeqTypeOK, UnderLock, Pending
  <2>2. \A i \in 1..Len(jobs') : jobs'[i] = n[p] \/ (i \in 1..Len(jobs) /\ jobs'[i] = jobs[i])
    BY <1>3 DEF Return, SeqTypeOK
  <2>3. \A q \in Procs : q # p => step'[q] = step[q] /\ n'[q] = n[q]
    BY <1>3, OtherNumbers
  <2>4. \A q \in Procs : Pending(q)' => Pending(q) /\ n'[q] = n[q]
    BY <2>1, <2>3 DEF Pending
  <2>5. ASSUME NEW x \in Taken'  PROVE x \in Taken
    <3>1. CASE \E i \in 1..Len(jobs') : x = jobs'[i]
      BY <2>1, <2>2, <3>1 DEF Taken
    <3>2. CASE \E q \in Procs : Pending(q)' /\ x = n'[q]
      BY <2>4, <3>2 DEF Taken
    <3> QED  BY <2>5, <3>1, <3>2 DEF Taken
  <2> QED  BY <1>1, <2>5
<1>4. CASE End(p) \/ ReadSeq(p) \/ GuessSeq(p) \/ CreateSeq(p)
           \/ TruncateSeq(p)
  <2>1. ~Pending(p)'
    BY <1>4 DEF End, ReadSeq, GuessSeq, CreateSeq, TruncateSeq, UnderLock, Pending
  <2>2. jobs' = jobs
    BY <1>4 DEF End, ReadSeq, GuessSeq, CreateSeq, TruncateSeq
  <2>3. \A q \in Procs : q # p => step'[q] = step[q] /\ n'[q] = n[q]
    BY <1>4, OtherNumbers
  <2>4. \A q \in Procs : Pending(q)' => Pending(q) /\ n'[q] = n[q]
    BY <2>1, <2>3 DEF Pending
  <2> QED  BY <1>1, <2>2, <2>4 DEF Taken
<1> QED  BY <1>2, <1>3, <1>4

\* A write takes the new number and no other.
LEMMA WriteTakes ==
    ASSUME SeqTypeOK, UnderLock, NEW p \in Procs, WriteSeq(p)
    PROVE  Taken' \subseteq Taken \cup {n'[p]}
<1>1. \A q \in Procs : q # p => step'[q] = step[q] /\ n'[q] = n[q]
  BY OtherNumbers
<1>2. jobs' = jobs
  BY DEF WriteSeq
<1> QED  BY <1>1, <1>2 DEF Taken, Pending

\* What holds of the steps before the numbers came round held before.
LEMMA SoundBefore ==
    ASSUME LockInv, UnderLock, SeqNext, Sound'
    PROVE  Sound
<1>1. ~stolen' => ~stolen
  <2>1. CASE LockNext
    BY <2>1, StolenStays DEF LockInv
  <2>2. CASE UNCHANGED lockVars
    BY <2>2 DEF lockVars
  <2> QED  BY <2>1, <2>2, SeqStepsLock
<1>2. ~lost' => ~lost
  <2>1. \/ lost' = lost \/ lost' = TRUE
        \/ \E p \in Procs : lost' = (lost \/ step[p] = "fprintf")
        \/ lost' = (lost \/ seqfile < Wrap)
    BY DEF SeqNext, Locking, fileVars, Return, End, ReadSeq, GuessSeq, CreateSeq, TruncateSeq, WriteSeq
  <2> QED  BY <2>1
<1>3. written' = written \/ written' = written + 1
  BY DEF SeqNext, Locking, fileVars, Return, End, ReadSeq, GuessSeq, CreateSeq, TruncateSeq, WriteSeq
<1> QED  BY <1>1, <1>2, <1>3, WrapType DEF Sound, UnderLock

\* Numbers in use have sixteen bits.
LEMMA TakenRange ==
    ASSUME SeqTypeOK, UnderLock
    PROVE  Taken \subseteq 0..Wrap - 1
<1>1. \A i \in 1..Len(jobs) : jobs[i] \in 0..Wrap - 1
  <2>1. \A S : \A s \in Seq(S) : \A i \in 1..Len(s) : s[i] \in S
    OBVIOUS
  <2> QED  BY <2>1 DEF SeqTypeOK
<1>2. \A p \in Procs : Pending(p) => n[p] \in 0..Wrap - 1
  BY WrapType DEF SeqTypeOK, UnderLock, Pending
<1> QED  BY <1>1, <1>2 DEF Taken

\* While one process is in the file code the others are not.
LEMMA AloneInFile ==
    ASSUME LockInv, UnderLock, ~stolen, NEW p \in Procs, pc[p] = "held",
           NEW q \in Procs, q # p
    PROVE  step[q] \notin {"freopen", "fprintf"}
BY OneInFile DEF UnderLock

\* A number written is one further on than every number in use.
LEMMA NewNumber ==
    ASSUME SeqTypeOK, UnderLock, Current, Sound, NEW p \in Procs, WriteSeq(p), Sound',
           NEW x \in Taken
    PROVE  n'[p] # x /\ Behind(x, n'[p]) < written'
<1>1. n'[p] = (n[p] + 1) % Wrap /\ n[p] \in Nat /\ written' = written + 1
  BY DEF WriteSeq, SeqTypeOK
<1>2. n[p] < Wrap /\ TakenBehind(n[p])
  BY DEF Current, WriteSeq
<1>3. Behind(x, n[p]) < written /\ x \in 0..Wrap - 1 /\ n[p] \in 0..Wrap - 1
  BY <1>1, <1>2, TakenRange, WrapType DEF TakenBehind
<1>4. written \in Nat /\ written < Wrap
  BY <1>1, WrapType DEF Sound, UnderLock
<1>5. n'[p] # x /\ Behind(x, n'[p]) = Behind(x, n[p]) + 1
  BY <1>1, <1>3, <1>4, NextNumber
<1> QED  BY <1>1, <1>3, <1>4, <1>5, WrapType DEF Behind

\* The file and its reader stay level with the last number written.
LEMMA CurrentStep ==
    ASSUME LockInv, SeqTypeOK, UnderLock, Current, SeqNext
    PROVE  Current'
<1> USE WrapType
<1> SUFFICES ASSUME Sound'
             PROVE  /\ seqfile' < Wrap => TakenBehind(seqfile)'
                    /\ (seqfile' >= Wrap /\ \A q \in Procs : step'[q] # "fprintf") => Taken' = {}
                    /\ \A q \in Procs :
                          /\ step'[q] = "freopen" => seqfile' = Empty \/ seqfile' = n'[q]
                          /\ step'[q] = "fprintf" =>
                                Taken' = {} \/ (n'[q] < Wrap /\ TakenBehind(n[q])')
  BY DEF Current
<1> PICK p \in Procs : \/ Locking(p) \/ Return(p) \/ End(p)
                       \/ ReadSeq(p) \/ GuessSeq(p) \/ CreateSeq(p)
                       \/ TruncateSeq(p) \/ WriteSeq(p)
  BY DEF SeqNext
<1>1. Sound
  BY SoundBefore
<1>2. ~stolen
  BY <1>1 DEF Sound
<1>4. CASE Locking(p) \/ Return(p) \/ End(p)
  <2>1. seqfile' = seqfile
    BY <1>4 DEF Locking, fileVars, Return, End
  <2>2. ~WriteSeq(p) /\ Taken' \subseteq Taken /\ written' = written
    <3>1. written' = written /\ Taken' \subseteq Taken
      BY <1>4, NoneTaken
    <3>2. ~WriteSeq(p)
      BY <3>1 DEF WriteSeq, UnderLock
    <3> QED  BY <3>1, <3>2
  <2>3. \A q \in Procs : /\ step'[q] \in {"freopen", "fprintf"} => n'[q] = n[q] /\ step'[q] = step[q]
                         /\ step[q] = "fprintf" => step'[q] = "fprintf"
    <3>1. CASE Locking(p)
      BY <3>1 DEF Locking, fileVars
    <3>2. CASE Return(p)
      <4>1. step[p] = "done" /\ step'[p] = "fopen"
        BY <3>2 DEF Return, Forget, SeqTypeOK, UnderLock
      <4>2. \A q \in Procs : q # p => step'[q] = step[q] /\ n'[q] = n[q]
        BY <3>2, OtherNumbers
      <4> QED  BY <4>1, <4>2
    <3>3. CASE End(p)
      <4>1. step[p] # "fprintf" /\ step'[p] = "fopen"
        BY <3>3 DEF End, UnderLock, Sound
      <4>2. \A q \in Procs : q # p => step'[q] = step[q] /\ n'[q] = n[q]
        BY <3>3, OtherNumbers
      <4> QED  BY <4>1, <4>2
    <3> QED  BY <1>4, <3>1, <3>2, <3>3
  <2>4. seqfile' < Wrap => TakenBehind(seqfile)'
    BY <1>1, <2>1, <2>2 DEF Current, TakenBehind
  <2>5. (seqfile' >= Wrap /\ \A q \in Procs : step'[q] # "fprintf") => Taken' = {}
    BY <1>1, <2>1, <2>2, <2>3 DEF Current
  <2>6. ASSUME NEW q \in Procs
        PROVE  /\ step'[q] = "freopen" => seqfile' = Empty \/ seqfile' = n'[q]
               /\ step'[q] = "fprintf" =>
                     Taken' = {} \/ (n'[q] < Wrap /\ TakenBehind(n[q])')
    <3>1. CASE step'[q] = "freopen"
      BY <1>1, <2>1, <2>3, <3>1 DEF Current
    <3>2. CASE step'[q] = "fprintf"
      <4>1. n'[q] = n[q] /\ (Taken = {} \/ (n[q] < Wrap /\ TakenBehind(n[q])))
        BY <1>1, <2>3, <3>2 DEF Current
      <4> QED  BY <2>2, <3>2, <4>1 DEF TakenBehind
    <3> QED  BY <3>1, <3>2
  <2> QED  BY <2>4, <2>5, <2>6
<1>5. CASE ReadSeq(p) \/ GuessSeq(p) \/ CreateSeq(p)
  <2>1. pc[p] = "held" /\ step[p] = "fopen"
    BY <1>5 DEF ReadSeq, GuessSeq, CreateSeq
  <2>2. \A q \in Procs : q # p => step[q] \notin {"freopen", "fprintf"}
    BY <1>2, <2>1, AloneInFile
  <2>3. \A q \in Procs : q # p => step'[q] \notin {"freopen", "fprintf"}
    BY <1>5, <2>2, OtherNumbers
  <2>4. seqfile >= Wrap => Taken = {}
    BY <1>1, <2>1, <2>2 DEF Current
  <2>5. Taken' \subseteq Taken /\ written' = written
    BY <1>5, NoneTaken
  <2>6. CASE CreateSeq(p)
    <3>1. ~(seqfile < Wrap)
      BY <2>6 DEF CreateSeq, Sound
    <3>2. Taken' = {}
      BY <2>4, <2>5, <3>1 DEF SeqTypeOK
    <3>3. seqfile' = Empty /\ step'[p] = "fprintf"
      BY <2>6 DEF CreateSeq, UnderLock
    <3> QED  BY <2>3, <3>2, <3>3
  <2>7. CASE ReadSeq(p) \/ GuessSeq(p)
    <3>1. seqfile' = seqfile /\ step'[p] = "freopen"
      BY <2>7 DEF ReadSeq, GuessSeq, UnderLock
    <3>2. seqfile = Empty \/ n'[p] = seqfile
      BY <2>7 DEF ReadSeq, GuessSeq, Sound, SeqTypeOK
    <3>3. seqfile' < Wrap => TakenBehind(seqfile)'
      BY <1>1, <2>5, <3>1 DEF Current, TakenBehind
    <3>4. seqfile' >= Wrap => Taken' = {}
      BY <2>4, <2>5, <3>1
    <3> QED  BY <2>3, <3>1, <3>2, <3>3, <3>4
  <2> QED  BY <1>5, <2>6, <2>7
<1>6. CASE TruncateSeq(p)
  <2>1. pc[p] = "held" /\ step[p] = "freopen"
    BY <1>6 DEF TruncateSeq
  <2>2. \A q \in Procs : q # p => step[q] \notin {"freopen", "fprintf"}
    BY <1>2, <2>1, AloneInFile
  <2>3. \A q \in Procs : q # p => step'[q] \notin {"freopen", "fprintf"}
    BY <1>6, <2>2, OtherNumbers
  <2>4. seqfile >= Wrap => Taken = {}
    BY <1>1, <2>1, <2>2 DEF Current
  <2>5. Taken' \subseteq Taken /\ written' = written
    BY <1>6, NoneTaken
  <2>6. seqfile' = Empty /\ step'[p] = "fprintf" /\ n'[p] = n[p]
    BY <1>6 DEF TruncateSeq, UnderLock
  <2>7. Taken = {} \/ (n[p] < Wrap /\ TakenBehind(n[p]))
    <3>1. seqfile = Empty \/ seqfile = n[p]
      BY <1>1, <2>1 DEF Current
    <3>2. seqfile \in Nat
      BY DEF SeqTypeOK
    <3>3. CASE seqfile < Wrap
      <4>1. TakenBehind(seqfile)
        BY <1>1, <3>3 DEF Current
      <4> QED  BY <3>1, <3>3, <4>1
    <3>4. CASE seqfile >= Wrap
      BY <2>4, <3>4
    <3> QED  BY <3>2, <3>3, <3>4
  <2>8. Taken' = {} \/ (n'[p] < Wrap /\ TakenBehind(n[p])')
    BY <2>5, <2>6, <2>7 DEF TakenBehind
  <2> QED  BY <2>3, <2>6, <2>8
<1>7. CASE WriteSeq(p)
  <2>1. pc[p] = "held" /\ step[p] = "fprintf"
    BY <1>7 DEF WriteSeq
  <2>2. \A q \in Procs : q # p => step'[q] \notin {"freopen", "fprintf"}
    BY <1>2, <1>7, <2>1, AloneInFile, OtherNumbers
  <2>3. seqfile' = n'[p] /\ step'[p] = "done" /\ written' \in Nat \ {0} /\ n'[p] \in 0..Wrap - 1
    <3>1. n'[p] = (n[p] + 1) % Wrap /\ n[p] \in Nat
      BY <1>7 DEF WriteSeq, SeqTypeOK
    <3>2. seqfile' = n'[p]
      BY <1>7 DEF WriteSeq, Sound
    <3> QED  BY <1>7, <3>1, <3>2, NumberRange DEF WriteSeq, UnderLock
  <2>4. \A x \in Taken' : Behind(x, n'[p]) < written'
    <3>1. \A x \in Taken : Behind(x, n'[p]) < written'
      BY <1>1, <1>7, NewNumber
    <3>2. Behind(n'[p], n'[p]) < written'
      BY <2>3 DEF Behind
    <3> QED  BY <1>7, <3>1, <3>2, WriteTakes
  <2> QED  BY <2>2, <2>3, <2>4 DEF TakenBehind
<1> QED  BY <1>4, <1>5, <1>6, <1>7

\* No two numbers in use are the same.
LEMMA DistinctStep ==
    ASSUME LockInv, SeqTypeOK, UnderLock, Current, Distinct, SeqNext
    PROVE  Distinct'
<1> SUFFICES ASSUME Sound'
             PROVE  /\ \A i, j \in 1..Len(jobs') : i # j => jobs'[i] # jobs'[j]
                    /\ \A q, r \in Procs : Pending(q)' /\ Pending(r)' /\ q # r => n'[q] # n'[r]
                    /\ \A i \in 1..Len(jobs'), q \in Procs : Pending(q)' => jobs'[i] # n'[q]
  BY DEF Distinct
<1> PICK p \in Procs : \/ Locking(p) \/ Return(p) \/ End(p)
                       \/ ReadSeq(p) \/ GuessSeq(p) \/ CreateSeq(p)
                       \/ TruncateSeq(p) \/ WriteSeq(p)
  BY DEF SeqNext
<1>1. Sound
  BY SoundBefore
<1>2. \A q \in Procs : q # p => (Pending(q)' <=> Pending(q)) /\ n'[q] = n[q]
  BY OtherNumbers DEF Pending
<1>3. CASE Locking(p)
  BY <1>1, <1>3 DEF Distinct, Locking, fileVars, Pending
<1>4. CASE End(p) \/ ReadSeq(p) \/ GuessSeq(p) \/ CreateSeq(p)
           \/ TruncateSeq(p)
  <2>1. jobs' = jobs /\ ~Pending(p)'
    BY <1>4 DEF End, ReadSeq, GuessSeq, CreateSeq, TruncateSeq, UnderLock, Pending
  <2> QED  BY <1>1, <1>2, <2>1 DEF Distinct
<1>5. CASE Return(p)
  <2>1. Pending(p) /\ ~Pending(p)'
    BY <1>5 DEF Return, Forget, SeqTypeOK, UnderLock, Pending
  <2>2. \A i \in 1..Len(jobs') : \/ i = Len(jobs) + 1 /\ jobs'[i] = n[p]
                                 \/ i \in 1..Len(jobs) /\ jobs'[i] = jobs[i]
    BY <1>5 DEF Return, SeqTypeOK
  <2> QED  BY <1>1, <1>2, <2>1, <2>2 DEF Distinct
<1>6. CASE WriteSeq(p)
  <2>1. jobs' = jobs
    BY <1>6 DEF WriteSeq
  <2>2. \A x \in Taken : n'[p] # x
    BY <1>1, <1>6, NewNumber
  <2>3. \A i \in 1..Len(jobs) : jobs[i] \in Taken
    BY DEF Taken
  <2>4. \A q \in Procs : Pending(q) => n[q] \in Taken
    BY DEF Taken
  <2> QED  BY <1>1, <1>2, <2>1, <2>2, <2>3, <2>4 DEF Distinct
<1> QED  BY <1>3, <1>4, <1>5, <1>6

-----------------------------------------------------------------------------
\* SeqInv holds in every state of getseq.
THEOREM SeqInvariance == SeqSpec => []SeqInv
<1>1. SeqInit => SeqInv
  <2> SUFFICES ASSUME SeqInit PROVE SeqInv
    OBVIOUS
  <2>1. SeqTypeOK
    BY SeqAssumption, WrapType DEF SeqInit, LockInit, SeqTypeOK
  <2>2. UnderLock
    BY DEF SeqInit, UnderLock
  <2>3. Taken = {} /\ jobs = <<>> /\ \A p \in Procs : ~Pending(p) /\ step[p] = "fopen"
    BY DEF SeqInit, Taken, Pending
  <2>4. Current
    BY <2>3 DEF Current, TakenBehind
  <2>5. Distinct
    BY <2>3 DEF Distinct
  <2> QED  BY <2>1, <2>2, <2>4, <2>5 DEF SeqInv
<1>2. LockInv /\ SeqInv /\ [SeqNext]_seqVars => SeqInv'
  <2> SUFFICES ASSUME LockInv, SeqInv, [SeqNext]_seqVars PROVE SeqInv'
    OBVIOUS
  <2>1. CASE SeqNext
    BY <2>1, UnderLockStep, NumbersStep, CurrentStep, DistinctStep DEF SeqInv, SeqTypeOK
  <2>2. CASE UNCHANGED seqVars
    <3>1. UNCHANGED <<pc, stolen, seqfile, step, n, jobs, lost, written>>
      BY <2>2 DEF seqVars, lockVars, fileVars
    <3>2. SeqTypeOK' /\ UnderLock'
      BY <3>1 DEF SeqInv, SeqTypeOK, UnderLock
    <3>3. Taken' = Taken /\ Sound' = Sound
      BY <3>1 DEF Taken, Pending, Sound
    <3>4. Current'
      BY <3>1, <3>3 DEF SeqInv, Current, TakenBehind
    <3>5. Distinct'
      BY <3>1, <3>3 DEF SeqInv, Distinct, Pending
    <3> QED  BY <3>2, <3>4, <3>5 DEF SeqInv
  <2> QED  BY <2>1, <2>2
<1> QED  BY <1>1, <1>2, SeqLockInvariance, PTL DEF SeqSpec

\* Every number getseq writes or returns has four hexadecimal digits, and
\* rmlock is reached with the number written.
THEOREM SeqTypeCorrect == SeqSpec => []SeqTypeOK
<1>1. SeqInv => SeqTypeOK
  BY DEF SeqInv
<1> QED  BY <1>1, SeqInvariance, PTL

\* No two jobs get the same number, however many processes ask for one,
\* until a lock is stolen, the file's number is lost, or 65536 numbers are
\* written.
THEOREM JobsAreUnique == SeqSpec => []UniqueJobs
<1>1. SeqInv => UniqueJobs
  BY DEF SeqInv, Distinct, UniqueJobs
<1> QED  BY <1>1, SeqInvariance, PTL
=============================================================================
