------------------------------- MODULE UuLock -------------------------------
(***************************************************************************)
(* Lock files of the uucp programs: cmd/bnu/ulockf.c.                      *)
(*                                                                         *)
(* One lock file, and the processes (uucico, uuxqt, uux, cu, ct, ...) that *)
(* make, check and remove it.  A process is known by its pid, which is     *)
(* also what the lock file has in it.  Every system call that another      *)
(* process can see is a step of its own, and a process may be killed, or   *)
(* get the signal that makes it clean up and exit, between any two.        *)
(*                                                                         *)
(* The temporary file LTMP.<pid> is made under a name of the process's own *)
(* and linked to the lock file when it is complete, so a lock file never   *)
(* holds less than a pid.                                                  *)
(***************************************************************************)
EXTENDS Naturals, FiniteSets

CONSTANTS
    Procs,         \* pids
    None,          \* no pid
    Uses,          \* what processes use the lock for
    Faults,        \* system calls that may fail: creat, open, lockf
    MAX_LOCKTRY,   \* attempts to lock the device
    MaxEnds        \* how many processes may end

ASSUME LockAssumption ==
    /\ None \notin Procs
    /\ Uses \subseteq {"mklock", "fd_mklock", "cklock"}
    /\ Faults \subseteq {"creat", "open", "lockf"}
    /\ MAX_LOCKTRY \in Nat \ {0}
    /\ MaxEnds \in Nat

VARIABLES
    lock,      \* the pid in the lock file, None if there is no such file
    temp,      \* the pids whose LTMP file exists
    dev,       \* the process that has the lockf lock on the device
    listed,    \* the processes with the lock in their Lockfile[]
    pc,        \* where each process is
    use,       \* what it uses the lock for
    again,     \* is it in the second onelock of mklock?
    seen,      \* lpid of cklock
    tries,     \* tries of fd_mklock
    stolen,    \* some process's lock file was removed by another process
    ends       \* processes that have ended

lockVars == <<lock, temp, dev, listed, pc, use, again, seen, tries, stolen, ends>>

\* The next call of each process: "dead" is none, "idle" is code that has
\* nothing to do with the lock, "held" is code between mklock or fd_mklock
\* and rmlock or fd_rmlock, "forget" is rmlock after its unlink.
Places == {"dead", "idle", "creat", "link", "untemp", "open", "kill", "unlink",
           "lockf", "held", "rmlock", "forget", "unlockf", "exit"}

\* The process has made the lock file and not begun to remove it.
Owns(p) == pc[p] \in {"untemp", "lockf", "held", "rmlock"}

\* kill(pid, 0) finds it.
Running(p) == pc[p] # "dead"

LockInit ==
    /\ lock = None /\ temp = {} /\ dev = None /\ listed = {}
    /\ pc = [p \in Procs |-> "idle"]
    /\ use \in [Procs -> Uses]
    /\ again = [p \in Procs |-> FALSE]
    /\ seen = [p \in Procs |-> None]
    /\ tries = [p \in Procs |-> 0]
    /\ stolen = FALSE
    /\ ends = 0

Goto(p, l) == pc' = [pc EXCEPT ![p] = l]

\* unlink(name) by p.
Remove(p) ==
    /\ lock' = None
    /\ stolen' = (stolen \/ (lock \notin {None, p} /\ Owns(lock)))

-----------------------------------------------------------------------------
\* The process calls mklock, fd_mklock or cklock.
Begin(p) ==
    /\ pc[p] = "idle"
    /\ Goto(p, IF use[p] = "cklock" THEN "open" ELSE "creat")
    /\ UNCHANGED <<lock, temp, dev, listed, use, again, seen, tries, stolen, ends>>

\* onelock returns -1: after the first one mklock unlinks the temporary
\* file and tries cklock, after the second one it fails.
OnelockFails(p) ==
    /\ temp' = temp \ {p}
    /\ again' = [again EXCEPT ![p] = FALSE]
    /\ Goto(p, IF again[p] THEN "idle" ELSE "open")

\* onelock: creat and write of the temporary file.  A file left by an
\* earlier process with the same pid has mode 0444 and cannot be written.
Create(p) ==
    /\ pc[p] = "creat"
    /\ \/ /\ p \notin temp
          /\ temp' = temp \cup {p}
          /\ Goto(p, "link")
          /\ UNCHANGED again
       \/ /\ p \in temp \/ "creat" \in Faults
          /\ OnelockFails(p)
    /\ UNCHANGED <<lock, dev, listed, use, seen, tries, stolen, ends>>

\* Mutant: the temporary file takes the place of a lock file.
Link_Rename(p) ==
    /\ pc[p] = "link"
    /\ lock' = p
    /\ Goto(p, "untemp")
    /\ UNCHANGED <<temp, dev, listed, use, again, seen, tries, stolen, ends>>

\* onelock: link, which fails if the lock file exists.
Link(p) ==
    /\ pc[p] = "link"
    /\ \/ /\ lock = None
          /\ lock' = p
          /\ Goto(p, "untemp")
          /\ UNCHANGED <<temp, again>>
       \/ /\ lock # None
          /\ OnelockFails(p)
          /\ UNCHANGED lock
    /\ UNCHANGED <<dev, listed, use, seen, tries, stolen, ends>>

\* onelock unlinks the temporary file, mklock puts the lock in its list.
Untemp(p) ==
    /\ pc[p] = "untemp"
    /\ temp' = temp \ {p}
    /\ listed' = listed \cup {p}
    /\ again' = [again EXCEPT ![p] = FALSE]
    /\ Goto(p, IF use[p] = "fd_mklock" THEN "lockf" ELSE "held")
    /\ UNCHANGED <<lock, dev, use, seen, tries, stolen, ends>>

\* cklock returns 0: mklock goes on to the second onelock.
NotActive(p) ==
    IF use[p] = "cklock"
    THEN Goto(p, "idle") /\ UNCHANGED again
    ELSE Goto(p, "creat") /\ again' = [again EXCEPT ![p] = TRUE]

\* cklock: open and read of the lock file.  If it cannot be opened it is
\* removed unless it is not there.
Open(p) ==
    /\ pc[p] = "open"
    /\ \/ /\ lock = None
          /\ NotActive(p)
          /\ UNCHANGED seen
       \/ /\ lock # None
          /\ seen' = [seen EXCEPT ![p] = lock]
          /\ Goto(p, "kill")
          /\ UNCHANGED again
       \/ /\ "open" \in Faults
          /\ Goto(p, "unlink")
          /\ UNCHANGED <<seen, again>>
    /\ UNCHANGED <<lock, temp, dev, listed, use, tries, stolen, ends>>

\* Mutant: a process of another user (EPERM) counts as not active.
Kill_NoEPERM(p) ==
    /\ pc[p] = "kill"
    /\ \/ Running(seen[p]) /\ Goto(p, "idle")
       \/ Goto(p, "unlink")
    /\ seen' = [seen EXCEPT ![p] = None]
    /\ UNCHANGED <<lock, temp, dev, listed, use, again, tries, stolen, ends>>

\* Mutant: the lock is taken for active whatever kill says.
Kill_Never(p) ==
    /\ pc[p] = "kill"
    /\ Goto(p, "idle")
    /\ seen' = [seen EXCEPT ![p] = None]
    /\ UNCHANGED <<lock, temp, dev, listed, use, again, tries, stolen, ends>>

\* cklock: kill(lpid, 0).
Kill(p) ==
    /\ pc[p] = "kill"
    /\ Goto(p, IF Running(seen[p]) THEN "idle" ELSE "unlink")
    /\ seen' = [seen EXCEPT ![p] = None]
    /\ UNCHANGED <<lock, temp, dev, listed, use, again, tries, stolen, ends>>

\* cklock: unlink of a lock file taken for inactive.
Unlink(p) ==
    /\ pc[p] = "unlink"
    /\ IF lock = None
       THEN Goto(p, "idle") /\ UNCHANGED <<lock, again, stolen>>
       ELSE Remove(p) /\ NotActive(p)
    /\ UNCHANGED <<temp, dev, listed, use, seen, tries, ends>>

-----------------------------------------------------------------------------
\* Mutant: fd_mklock goes on without the lock after MAX_LOCKTRY attempts.
Lockf_GoOn(p) ==
    /\ pc[p] = "lockf"
    /\ IF dev = None \/ tries[p] + 1 >= MAX_LOCKTRY
       THEN /\ dev' = p
            /\ tries' = [tries EXCEPT ![p] = 0]
            /\ Goto(p, "held")
       ELSE /\ tries' = [tries EXCEPT ![p] = @ + 1]
            /\ UNCHANGED <<dev, pc>>
    /\ UNCHANGED <<lock, temp, listed, use, again, seen, stolen, ends>>

\* Mutant: fd_mklock tries for ever.
Lockf_NoLimit(p) ==
    /\ pc[p] = "lockf"
    /\ IF dev = None
       THEN /\ dev' = p
            /\ Goto(p, "held")
            /\ UNCHANGED tries
       ELSE /\ tries' = [tries EXCEPT ![p] = @ + 1]
            /\ UNCHANGED <<dev, pc>>
    /\ UNCHANGED <<lock, temp, listed, use, again, seen, stolen, ends>>

\* fd_mklock: lockf(F_TLOCK), up to MAX_LOCKTRY times while it is EAGAIN.
Lockf(p) ==
    /\ pc[p] = "lockf"
    /\ \/ /\ dev = None
          /\ dev' = p
          /\ tries' = [tries EXCEPT ![p] = 0]
          /\ Goto(p, "held")
       \/ /\ dev # None
          /\ tries' = [tries EXCEPT ![p] = @ + 1]
          /\ IF tries[p] + 1 < MAX_LOCKTRY THEN UNCHANGED pc ELSE Goto(p, "rmlock")
          /\ UNCHANGED dev
       \/ /\ "lockf" \in Faults
          /\ tries' = [tries EXCEPT ![p] = MAX_LOCKTRY]
          /\ Goto(p, "rmlock")
          /\ UNCHANGED dev
    /\ UNCHANGED <<lock, temp, listed, use, again, seen, stolen, ends>>

\* The process is done with what the lock is for.
Finish(p) ==
    /\ pc[p] = "held"
    /\ Goto(p, "rmlock")
    /\ UNCHANGED <<lock, temp, dev, listed, use, again, seen, tries, stolen, ends>>

\* rmlock(name): unlink, whatever the file has in it.
Rmlock(p) ==
    /\ pc[p] = "rmlock"
    /\ Remove(p)
    /\ Goto(p, "forget")
    /\ UNCHANGED <<temp, dev, listed, use, again, seen, tries, ends>>

\* rmlock: the lock leaves the list; fd_rmlock goes on to lockf(F_ULOCK),
\* fd_mklock, out of attempts, does not.
Forget(p) ==
    /\ pc[p] = "forget"
    /\ listed' = listed \ {p}
    /\ Goto(p, IF use[p] = "fd_mklock" /\ tries[p] < MAX_LOCKTRY THEN "unlockf" ELSE "idle")
    /\ tries' = [tries EXCEPT ![p] = 0]
    /\ UNCHANGED <<lock, temp, dev, use, again, seen, stolen, ends>>

\* fd_rmlock: lockf(F_ULOCK).
Unlockf(p) ==
    /\ pc[p] = "unlockf"
    /\ dev' = IF dev = p THEN None ELSE dev
    /\ Goto(p, "idle")
    /\ UNCHANGED <<lock, temp, listed, use, again, seen, tries, stolen, ends>>

-----------------------------------------------------------------------------
\* SIGTERM, SIGHUP, ...: onintr, cleanup and rmlock(CNULL), at any point.
Cleanup(p) ==
    /\ pc[p] \notin {"dead", "exit"} /\ ends < MaxEnds
    /\ IF p \in listed THEN Remove(p) ELSE UNCHANGED <<lock, stolen>>
    /\ listed' = listed \ {p}
    /\ ends' = ends + 1
    /\ Goto(p, "exit")
    /\ UNCHANGED <<temp, dev, use, again, seen, tries>>

\* The kernel's part of the end of a process.
Gone(p) ==
    /\ dev' = IF dev = p THEN None ELSE dev
    /\ listed' = listed \ {p}
    /\ again' = [again EXCEPT ![p] = FALSE]
    /\ seen' = [seen EXCEPT ![p] = None]
    /\ tries' = [tries EXCEPT ![p] = 0]
    /\ Goto(p, "dead")
    /\ UNCHANGED <<lock, temp, use, stolen>>

Exit(p) == pc[p] = "exit" /\ Gone(p) /\ UNCHANGED ends

\* The process is killed.
Die(p) ==
    /\ pc[p] \notin {"dead", "exit"} /\ ends < MaxEnds
    /\ ends' = ends + 1
    /\ Gone(p)

\* A new process gets the pid.
Start(p) ==
    /\ pc[p] = "dead"
    /\ \E u \in Uses : use' = [use EXCEPT ![p] = u]
    /\ Goto(p, "idle")
    /\ UNCHANGED <<lock, temp, dev, listed, again, seen, tries, stolen, ends>>

\* The steps ulockf.c makes of its own accord.
LockStep(p) ==
    \/ Create(p) \/ Link(p) \/ Untemp(p)
    \/ Open(p) \/ Kill(p) \/ Unlink(p)
    \/ Lockf(p) \/ Rmlock(p) \/ Forget(p) \/ Unlockf(p)
    \/ Exit(p)

LockNext ==
    \E p \in Procs : LockStep(p) \/ Begin(p) \/ Finish(p) \/ Cleanup(p) \/ Die(p) \/ Start(p)

LockSpec == LockInit /\ [][LockNext]_lockVars

\* Processes keep running, what they hold the lock for comes to an end, and
\* whoever does not get the lock asks again, as gename.c and uucico do.
Moves(p) == LockStep(p) \/ Begin(p) \/ Finish(p)

FairLockSpec ==
    LockSpec /\ \A p \in Procs : []<>(pc[p] = "dead") \/ []<><<Moves(p)>>_lockVars

-----------------------------------------------------------------------------
\* Types; fd_mklock gives up after MAX_LOCKTRY attempts.
LockTypeOK ==
    /\ lock \in Procs \cup {None} /\ dev \in Procs \cup {None}
    /\ temp \subseteq Procs /\ listed \subseteq Procs
    /\ pc \in [Procs -> Places]
    /\ use \in [Procs -> {"mklock", "fd_mklock", "cklock"}]
    /\ again \in [Procs -> BOOLEAN]
    /\ seen \in [Procs -> Procs \cup {None}]
    /\ tries \in [Procs -> 0..MAX_LOCKTRY]
    /\ stolen \in BOOLEAN /\ ends \in Nat

\* fd_mklock's promise, "this process now has the fd locked": whatever
\* happens to the lock file, whoever dies, and whatever pids are used
\* again, no two processes are between fd_mklock and fd_rmlock.
DeviceExclusive ==
    \A p, q \in Procs :
        (pc[p] = "held" /\ pc[q] = "held" /\ use[p] = "fd_mklock" /\ use[q] = "fd_mklock")
            => p = q

\* mklock is exclusive until a lock file is removed by a process that does
\* not own it; killed processes, stale files and pids used again do no harm
\* by themselves.
LockExclusive ==
    ~stolen => \A p, q \in Procs : Owns(p) /\ Owns(q) => p = q

\* While all processes run and lock files can be read, nobody removes a
\* lock file that is not its own.
NoTheft == ends = 0 /\ "open" \notin Faults => ~stolen

\* A lock file with the pid of a dead process does not stay, as long as
\* somebody wants the lock.
StaleRemoved ==
    \A p \in Procs : (lock = p /\ ~Running(p)) ~> (lock # p \/ Running(p))

(***************************************************************************)
(* The inductive invariant                                                 *)
(***************************************************************************)

\* Who came out of fd_mklock has the lockf lock.
DeviceHeld == \A p \in Procs : pc[p] = "held" /\ use[p] = "fd_mklock" => dev = p

\* tries is zero outside fd_mklock and less than the limit in its loop.
Attempts ==
    \A p \in Procs :
        /\ pc[p] = "lockf" => tries[p] < MAX_LOCKTRY
        /\ pc[p] \notin {"lockf", "rmlock", "forget", "exit"} => tries[p] = 0

\* Until a theft, the lock file of a process that made one is there.
FileHeld == ~stolen => \A p \in Procs : Owns(p) => lock = p

\* A process about to call kill has read a pid.
PidRead == \A p \in Procs : pc[p] = "kill" => seen[p] \in Procs

\* While all processes run, none finds a reason to remove a lock file.
NoneDead ==
    ends = 0 /\ "open" \notin Faults =>
        ~stolen /\ \A p \in Procs : pc[p] \notin {"dead", "exit", "unlink"}

LockInv == LockTypeOK /\ Attempts /\ DeviceHeld /\ FileHeld /\ PidRead /\ NoneDead

\* What cklock says of its success: "lock file removed - no longer active".
\* Its unlink never removes the lock file of a process that owns it.
RemovesInactiveOnly ==
    [][\A p \in Procs : Unlink(p) /\ lock # None => ~Owns(lock)]_lockVars
=============================================================================
