------------------------------- MODULE UuSeq --------------------------------
(***************************************************************************)
(* Job numbers: getseq of cmd/bnu/gename.c.  uucp, uux and uuxqt take the  *)
(* number of a new job from a file they read, truncate and write under the *)
(* lock of module UuLock.                                                  *)
(*                                                                         *)
(* The retries of getseq are the repeated Begin of UuLock.  After the last *)
(* of them it ends the program, as do all its ASSERTs, through cleanup:    *)
(* UuLock's Cleanup, which may come at any point.                          *)
(***************************************************************************)
EXTENDS UuLock, Sequences

CONSTANTS
    InitSeqs,   \* what may be in the sequence file at first
    Rands,      \* what rand() may return
    SeqFaults,  \* what may fail: fopen or fscanf of a file with a number in
                \* it, or the write, which fclose makes and nobody checks
    MaxJobs     \* while fewer numbers are taken getseq is called

\* Numbers have sixteen bits.
Wrap == 65536

\* The file does not exist, or has no number in it.
Absent == Wrap
Empty == Wrap + 1

ASSUME SeqAssumption ==
    /\ Uses = {"mklock"}
    /\ InitSeqs \subseteq 0..Empty
    /\ Rands \subseteq Nat
    /\ SeqFaults \subseteq {"fopen", "fscanf", "fclose"}
    /\ MaxJobs \in Nat

VARIABLES
    seqfile,   \* what is in the sequence file
    step,      \* where each process is between mklock and rmlock
    n,         \* n of getseq
    jobs,      \* the numbers getseq has returned, in order
    lost,      \* history: the last number was not left in the file
    written    \* history: how often a number was written to the file

fileVars == <<seqfile, step, n, jobs, lost, written>>
seqVars == <<lockVars, fileVars>>

SeqInit ==
    /\ LockInit
    /\ seqfile \in InitSeqs
    /\ step = [p \in Procs |-> "fopen"]
    /\ n = [p \in Procs |-> 0]
    /\ jobs = <<>>
    /\ lost = FALSE
    /\ written = 0

\* fopen for reading and fscanf of a number.
ReadSeq(p) ==
    /\ pc[p] = "held" /\ step[p] = "fopen" /\ seqfile < Wrap
    /\ n' = [n EXCEPT ![p] = seqfile]
    /\ step' = [step EXCEPT ![p] = "freopen"]
    /\ UNCHANGED <<lockVars, seqfile, jobs, lost, written>>

\* fscanf finds no number: it is rand().
GuessSeq(p) ==
    /\ pc[p] = "held" /\ step[p] = "fopen"
    /\ seqfile = Empty \/ (seqfile < Wrap /\ "fscanf" \in SeqFaults)
    /\ \E r \in Rands : n' = [n EXCEPT ![p] = r]
    /\ step' = [step EXCEPT ![p] = "freopen"]
    /\ lost' = (lost \/ seqfile < Wrap)
    /\ UNCHANGED <<lockVars, seqfile, jobs, written>>

\* fopen for reading fails, for want of a file or of anything else: fopen
\* for writing makes the file or truncates it, and the number is rand().
CreateSeq(p) ==
    /\ pc[p] = "held" /\ step[p] = "fopen"
    /\ seqfile = Absent \/ "fopen" \in SeqFaults
    /\ \E r \in Rands : n' = [n EXCEPT ![p] = r]
    /\ step' = [step EXCEPT ![p] = "fprintf"]
    /\ seqfile' = Empty
    /\ lost' = (lost \/ seqfile < Wrap)
    /\ UNCHANGED <<lockVars, jobs, written>>

\* freopen for writing truncates the file.
TruncateSeq(p) ==
    /\ pc[p] = "held" /\ step[p] = "freopen"
    /\ seqfile' = Empty
    /\ step' = [step EXCEPT ![p] = "fprintf"]
    /\ UNCHANGED <<lockVars, n, jobs, lost, written>>

\* Mutant: the number is incremented after it is written.
WriteSeq_Old(p) ==
    /\ pc[p] = "held" /\ step[p] = "fprintf"
    /\ n' = [n EXCEPT ![p] = (@ + 1) % Wrap]
    /\ seqfile' = n[p]
    /\ step' = [step EXCEPT ![p] = "done"]
    /\ written' = written + 1
    /\ UNCHANGED <<lockVars, jobs, lost>>

\* Mutant: the number is not cut to 16 bits.
WriteSeq_Long(p) ==
    /\ pc[p] = "held" /\ step[p] = "fprintf"
    /\ n' = [n EXCEPT ![p] = @ + 1]
    /\ seqfile' = n[p] + 1
    /\ step' = [step EXCEPT ![p] = "done"]
    /\ written' = written + 1
    /\ UNCHANGED <<lockVars, jobs, lost>>

\* n++, n &= 0xffff and fprintf, which only fills the buffer: the number is
\* written by fclose.  When the disk is full the file stays empty and
\* getseq, whose ferror looks at a stream that is gone, goes on.
WriteSeq(p) ==
    /\ pc[p] = "held" /\ step[p] = "fprintf"
    /\ n' = [n EXCEPT ![p] = (@ + 1) % Wrap]
    /\ \/ seqfile' = n'[p] /\ UNCHANGED lost
       \/ "fclose" \in SeqFaults /\ lost' = TRUE /\ UNCHANGED seqfile
    /\ step' = [step EXCEPT ![p] = "done"]
    /\ written' = written + 1
    /\ UNCHANGED <<lockVars, jobs>>

\* rmlock returns and the number is the caller's.
Return(p) ==
    /\ Forget(p)
    /\ jobs' = Append(jobs, n[p])
    /\ step' = [step EXCEPT ![p] = "fopen"]
    /\ n' = [n EXCEPT ![p] = 0]
    /\ UNCHANGED <<seqfile, lost, written>>

\* The process ends, and leaves the file as it is.
End(p) ==
    /\ Cleanup(p) \/ Die(p)
    /\ lost' = (lost \/ step[p] = "fprintf")
    /\ step' = [step EXCEPT ![p] = "fopen"]
    /\ n' = [n EXCEPT ![p] = 0]
    /\ UNCHANGED <<seqfile, jobs, written>>

\* mklock and rmlock.
Locking(p) ==
    /\ \/ Begin(p) /\ Len(jobs) < MaxJobs
       \/ Create(p) \/ Link(p) \/ Untemp(p) \/ Open(p) \/ Kill(p) \/ Unlink(p)
       \/ Finish(p) /\ step[p] = "done"
       \/ Rmlock(p) \/ Exit(p) \/ Start(p)
    /\ UNCHANGED fileVars

SeqNext ==
    \E p \in Procs : \/ Locking(p) \/ Return(p) \/ End(p)
                     \/ ReadSeq(p) \/ GuessSeq(p) \/ CreateSeq(p)
                     \/ TruncateSeq(p) \/ WriteSeq(p)

SeqSpec == SeqInit /\ [][SeqNext]_seqVars

-----------------------------------------------------------------------------
\* The file and the numbers taken from it have four hexadecimal digits,
\* and rmlock is called when the number is written.
SeqTypeOK ==
    /\ seqfile \in 0..Empty
    /\ n \in [Procs -> Nat]
    /\ jobs \in Seq(0..Wrap - 1)
    /\ \A p \in Procs : pc[p] \in {"rmlock", "forget"} => step[p] = "done"

\* The lock did its work and the sixteen bits have not come round.
Sound == ~stolen /\ ~lost /\ written <= Wrap

\* No two jobs get the same number, whoever is killed and whatever pids are
\* used again, until a lock is stolen (UuLock), the file's number is lost
\* (a process ended between its freopen and its fclose, the file could not
\* be read, or fclose not write it), or the file is written more often than
\* there are numbers.
UniqueJobs ==
    Sound => \A i, j \in 1..Len(jobs) : i # j => jobs[i] # jobs[j]

(***************************************************************************)
(* The inductive invariant                                                 *)
(***************************************************************************)

\* The sequence file is used under the lock only.
UnderLock ==
    /\ step \in [Procs -> {"fopen", "freopen", "fprintf", "done"}]
    /\ written \in Nat /\ lost \in BOOLEAN
    /\ \A p \in Procs :
          /\ step[p] \in {"freopen", "fprintf"} => pc[p] = "held"
          /\ step[p] = "done" => pc[p] \in {"held", "rmlock", "forget"} /\ n[p] < Wrap

\* How many increments take number a to number b.
Behind(a, b) == IF a <= b THEN b - a ELSE b - a + Wrap

\* The numbers in use: returned, or written and still to be returned.
Pending(p) == step[p] = "done"
Taken == {jobs[i] : i \in 1..Len(jobs)} \cup {n[p] : p \in {q \in Procs : Pending(q)}}

\* A number in use was written, and each write since took the file one on.
TakenBehind(m) == \A x \in Taken : Behind(x, m) < written

\* What the process in getseq has read, and what the file has in it, are no
\* older than the last number written.
Current ==
    Sound =>
        /\ seqfile < Wrap => TakenBehind(seqfile)
        /\ (seqfile >= Wrap /\ \A p \in Procs : step[p] # "fprintf") => Taken = {}
        /\ \A p \in Procs :
              /\ step[p] = "freopen" => seqfile = Empty \/ seqfile = n[p]
              /\ step[p] = "fprintf" => Taken = {} \/ (n[p] < Wrap /\ TakenBehind(n[p]))

\* The numbers in use are different.
Distinct ==
    Sound =>
        /\ \A i, j \in 1..Len(jobs) : i # j => jobs[i] # jobs[j]
        /\ \A p, q \in Procs : Pending(p) /\ Pending(q) /\ p # q => n[p] # n[q]
        /\ \A i \in 1..Len(jobs), p \in Procs : Pending(p) => jobs[i] # n[p]

SeqInv == SeqTypeOK /\ UnderLock /\ Current /\ Distinct
=============================================================================
