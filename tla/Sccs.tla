-------------------------------- MODULE Sccs --------------------------------
(***************************************************************************)
(* One SCCS file, shared by several users: `get -e', `delta', `unget' and  *)
(* `rmdel' running at the same time, each able to fail, to be interrupted  *)
(* or to be killed between any two of its operations on files.             *)
(*                                                                         *)
(* The s-file holds the deltas, the p-file the outstanding edits.  Both    *)
(* are replaced by renaming: the x-file becomes the s-file, the q-file the *)
(* p-file.  The z-file is the lock of all four; lockit takes over a z-file *)
(* whose owner is dead.                                                    *)
(*                                                                         *)
(* lockit's judgement of a z-file and its unlink are two steps.  Two       *)
(* z-files have different modification times (st_mtime counts seconds), so *)
(* that a pid identifies one.                                              *)
(***************************************************************************)
EXTENDS SccsSid

CONSTANTS
  User,        \* one command of a user runs at a time, in a directory of its own
  Scenario,    \* records [joint, script]: the file's j flag, and the commands
               \* that each user runs, one after the other
  TRIES,       \* SCCS_LOCK_ATTEMPTS
  MaxCuts,     \* bound: commands cut short from outside
  NoFile       \* no such file

\* Numbers that name one command: its user, and which of the user's it is.
Pid == User \X Nat

\* What a line of the p-file has (its time tells two edits apart, as the pid of
\* the get does here), and an entry of the delta table.
Line == [gsid : SID, nsid : SID, user : User, by : Pid]
Delta == [sid : SID, pred : Nat, type : {"D", "R"}, by : Pid \cup {<<>>}]

Cmd == [op : {"get", "delta", "unget", "rmdel"}, r : SID, b : BOOLEAN]

ASSUME SccsAssumption ==
  /\ \A s \in Scenario : s \in [joint : BOOLEAN, script : [User -> Seq(Cmd)]]
  /\ TRIES \in Nat \ {0} /\ MaxCuts \in Nat
  /\ NoFile \notin Seq(Delta)
  /\ NoFile \notin [lines : SUBSET Line]
  /\ NoFile \notin [pid : Pid, written : BOOLEAN]

VARIABLES
  scenario,
  sfile,       \* the delta table of the s-file
  pfile,       \* the set of the lines of the p-file; no line is no p-file
  qfile,       \* the new p-file, NoFile when there is none
  xfile,       \* the new s-file, NoFile when there is none
  zfile,       \* the lock: its creator's pid, and whether the pid is written
  gfile,       \* gfile[u]: u's directory has a writable g-file
  proc,        \* proc[u]: the command that u runs
  run,         \* run[u]: the commands u has started; <<u, run[u]>> is the pid
  cuts,        \* commands cut short so far
  \* What the users know, for the properties:
  made,        \* the deltas made and not removed since
  edits,       \* the p-file lines of the get -e commands that have ended
  half,        \* p-file lines whose delta is in the s-file
  stale,       \* a delta got the lock after its open s-file was replaced
  broken       \* lockit removes a z-file of a command that it did not find dead

files == <<sfile, pfile, qfile, xfile, zfile, gfile>>
ghosts == <<made, edits, half, stale, broken>>
vars == <<scenario, files, proc, run, cuts, ghosts>>

Idle == [pc |-> "idle"]

\* The first delta is the one that admin -i makes.
Init ==
  /\ scenario \in Scenario
  /\ sfile = <<[sid |-> <<1, 1, 0, 0>>, pred |-> 0, type |-> "D", by |-> <<>>]>>
  /\ pfile = {} /\ qfile = NoFile /\ xfile = NoFile /\ zfile = NoFile
  /\ gfile = [u \in User |-> FALSE]
  /\ proc = [u \in User |-> Idle]
  /\ run = [u \in User |-> 0] /\ cuts = 0
  /\ made = {sfile[1]} /\ edits = {} /\ half = {} /\ stale = FALSE
  /\ broken = FALSE

Alive(pid) == \E u \in User : proc[u].pc # "idle" /\ proc[u].pid = pid

\* mylock: the z-file is there and says that it is this process's.
mylock(u) == zfile # NoFile /\ zfile.written /\ zfile.pid = proc[u].pid

\* unlockit: only the owner's z-file is removed.
unlockit(u) == zfile' = IF mylock(u) THEN NoFile ELSE zfile

Goto(u, pc) == proc' = [proc EXCEPT ![u].pc = pc]

(***************************************************************************)
(* The start of a command.  delta opens the s-file in sinit, before it     *)
(* asks for comments (dohist) and before it locks; the others only look at *)
(* its name.                                                               *)
(***************************************************************************)
Start(u) ==
  /\ proc[u].pc = "idle" /\ run[u] < Len(scenario.script[u])
  /\ run' = [run EXCEPT ![u] = @ + 1]
  /\ LET cmd == scenario.script[u][run'[u]]
     IN  proc' = [proc EXCEPT ![u] =
           [pc |-> "create", cmd |-> cmd, pid |-> <<u, run'[u]>>, tries |-> TRIES,
            opid |-> <<>>, seen |-> <<>>, line |-> NoFile, last |-> FALSE,
            opened |-> IF cmd.op = "delta" THEN sfile ELSE <<>>]]
  /\ UNCHANGED <<scenario, files, cuts, ghosts>>

(***************************************************************************)
(* lockit.                                                                 *)
(***************************************************************************)

\* onelock, first half: open with O_CREAT and O_EXCL.  The file is empty.
Create(u) ==
  /\ proc[u].pc = "create"
  /\ IF zfile = NoFile
     THEN zfile' = [pid |-> proc[u].pid, written |-> FALSE] /\ Goto(u, "write")
     ELSE zfile' = zfile /\ Goto(u, "look")
  /\ UNCHANGED <<scenario, sfile, pfile, qfile, xfile, gfile, run, cuts, ghosts>>

\* onelock, second half: the pid and the name of the machine, written to the file
\* that was opened even if its name has gone.
Write(u) ==
  /\ proc[u].pc = "write"
  /\ zfile' = IF zfile # NoFile /\ zfile.pid = proc[u].pid
              THEN [zfile EXCEPT !.written = TRUE] ELSE zfile
  /\ Goto(u, "locked")
  /\ stale' = (stale \/ (proc[u].cmd.op = "delta" /\ proc[u].opened # sfile))
  /\ UNCHANGED <<scenario, sfile, pfile, qfile, xfile, gfile, run, cuts,
                 made, edits, half, broken>>

\* Mutants: the count is not kept; it is tested one too late.
Retry_Forever(u) == proc' = [proc EXCEPT ![u].pc = "create"]
Retry_Late(u) ==
  proc' = [proc EXCEPT ![u] =
            IF proc[u].tries = 0 THEN Idle
            ELSE [proc[u] EXCEPT !.pc = "create", !.tries = @ - 1]]

\* The next try, or "cannot create lock file": clean_up finds no z-file of its
\* own and leaves everything alone.
Retry(u) ==
  proc' = [proc EXCEPT ![u] =
            IF proc[u].tries = 1 THEN Idle
            ELSE [proc[u] EXCEPT !.pc = "create", !.tries = @ - 1]]

\* The z-file is read.  It may be gone.  Nothing is read from an empty one, and
\* nobody tests that: opid and ouuname are then those of an earlier try, or name
\* no machine, and the z-file is left alone, as that of another machine would be.
Look(u) ==
  /\ proc[u].pc = "look"
  /\ LET opid == IF zfile # NoFile /\ zfile.written THEN zfile.pid ELSE proc[u].opid
     IN  IF zfile # NoFile /\ opid # <<>>
         THEN proc' = [proc EXCEPT ![u].pc = "judge", ![u].opid = opid,
                                   ![u].seen = zfile.pid]
         ELSE Retry(u)
  /\ UNCHANGED <<scenario, files, run, cuts, ghosts>>

\* Mutants: the z-file is not looked at again; its owner is not looked for.
Removable_AnyFile(u) == ~Alive(proc[u].opid) /\ zfile # NoFile
Removable_Alive(u) == zfile # NoFile /\ zfile.pid = proc[u].seen

\* The z-file may be removed: opid is dead, and it is still the z-file that was
\* looked at.
Removable(u) ==
  /\ ~Alive(proc[u].opid)
  /\ zfile # NoFile /\ zfile.pid = proc[u].seen

\* kill, then exists and its st_mtime, which are what Statbuf now holds.
Judge(u) ==
  /\ proc[u].pc = "judge"
  /\ IF Removable(u)
     THEN proc' = [proc EXCEPT ![u].pc = "unlink z", ![u].seen = zfile.pid]
     ELSE Retry(u)
  /\ broken' = (broken \/ (Removable(u) /\ proc[u].seen # proc[u].opid))
  /\ UNCHANGED <<scenario, files, run, cuts, made, edits, half, stale>>

\* The z-file is no longer the one that was judged, and its owner is alive.
Overtaken(u) == zfile # NoFile /\ zfile.pid # proc[u].seen /\ Alive(zfile.pid)

\* The name is unlinked, whichever z-file it is the name of by now: another
\* command may have removed the dead one and a third have made its own.
Steal(u) ==
  /\ proc[u].pc = "unlink z"
  /\ zfile' = NoFile
  /\ broken' = (broken \/ Overtaken(u))
  /\ Retry(u)
  /\ UNCHANGED <<scenario, sfile, pfile, qfile, xfile, gfile, run, cuts,
                 made, edits, half, stale>>

(***************************************************************************)
(* fatal: clean_up, then the command ends.  get, delta and unget remove    *)
(* the q-file only when the z-file is theirs, whoever wrote the q-file;    *)
(* rmdel removes the x-file, which it has written by then.                 *)
(***************************************************************************)
fatal(u) ==
  /\ qfile' = IF mylock(u) /\ proc[u].cmd.op # "rmdel" THEN NoFile ELSE qfile
  /\ unlockit(u)
  /\ xfile' = IF proc[u].cmd.op = "rmdel" THEN NoFile ELSE xfile
  /\ proc' = [proc EXCEPT ![u] = Idle]
  /\ UNCHANGED <<sfile, pfile, gfile, ghosts>>

(***************************************************************************)
(* get -e.                                                                 *)
(***************************************************************************)

\* wrtpfile refuses a version that is being edited, and a new SID that is
\* promised, unless the file allows joint edits.
BeingEdited(got, new) ==
  /\ ~scenario.joint
  /\ \E l \in pfile : l.gsid = got \/ l.nsid = new

\* Mutant: in_pfile is not asked.
Planned_None == {}

\* in_pfile looks into the p-file only when joint edits are allowed.
Planned == IF scenario.joint THEN {l.nsid : l \in pfile} ELSE {}

\* The p-file line of a get -e of `req' by u, if all goes well.
NewLine(u, req, branch) ==
  LET got == sfile[getser(req, sfile)].sid
  IN  [gsid |-> got, user |-> u, by |-> proc[u].pid,
       nsid |-> newsid(Requested(req, got), got, branch, sfile, Planned)]

\* From sinit to wrtpfile: the q-file is the p-file and one line more.
get(u) ==
  LET cmd == proc[u].cmd
      line == NewLine(u, cmd.r, cmd.b)
  IN  IF \/ getser(cmd.r, sfile) = 0              \* nonexistent sid
         \/ gfile[u]                              \* writable g-file exists
         \/ line.nsid \in Sids(sfile) \cup Planned \* bad SID calculated
         \/ qfile # NoFile                        \* O_EXCL
         \/ BeingEdited(line.gsid, line.nsid)
      THEN fatal(u)
      ELSE /\ qfile' = [lines |-> pfile \cup {line}]
           /\ proc' = [proc EXCEPT ![u].pc = "gfile", ![u].line = line]
           /\ UNCHANGED <<sfile, pfile, xfile, zfile, gfile, ghosts>>

\* The text is written to a temporary file that becomes the g-file.
MakeGfile(u) ==
  /\ proc[u].pc = "gfile"
  /\ gfile' = [gfile EXCEPT ![u] = TRUE]
  /\ Goto(u, "rename q")
  /\ UNCHANGED <<scenario, sfile, pfile, qfile, xfile, zfile, run, cuts, ghosts>>

(***************************************************************************)
(* delta and unget choose a line of the p-file: the user's own, and the    *)
(* one that -r names when it is given.  unget compares -r with the new SID *)
(* only.                                                                   *)
(***************************************************************************)

\* Mutant: the user's name is not compared.
Matches_AnyUser(u, line) ==
  \/ proc[u].cmd.r \in {NoSid, line.nsid}
  \/ proc[u].cmd.op = "delta" /\ proc[u].cmd.r = line.gsid

Matches(u, line) ==
  LET r == proc[u].cmd.r
  IN  /\ line.user = u
      /\ \/ r = NoSid
         \/ r = line.nsid
         \/ proc[u].cmd.op = "delta" /\ r = line.gsid

Chosen(u) == {line \in pfile : Matches(u, line)}

Rest(u) == pfile \ Chosen(u)

TheLine(u) == CHOOSE line \in Chosen(u) : TRUE

(***************************************************************************)
(* delta, up to the choice of the line.  The SIDs of the line are looked   *)
(* up in the s-file that was opened before the lock was taken.             *)
(***************************************************************************)
delta(u) ==
  IF \/ ~gfile[u] \/ qfile # NoFile               \* xfopen, O_EXCL
     \/ Cardinality(Chosen(u)) # 1                \* de1, de2, de15
     \/ sidtoser(TheLine(u).gsid, proc[u].opened) = 0
     \/ sidtoser(TheLine(u).nsid, proc[u].opened) # 0
  THEN fatal(u)
  ELSE /\ qfile' = [lines |-> Rest(u)]
       /\ proc' = [proc EXCEPT ![u].pc = "xfile", ![u].line = TheLine(u)]
       /\ UNCHANGED <<sfile, pfile, xfile, zfile, gfile, ghosts>>

\* mkdelt: the new delta has the next serial number and the gotten delta as its
\* predecessor.
mkdelt(u) ==
  [sid |-> proc[u].line.nsid, type |-> "D", by |-> proc[u].pid,
   pred |-> sidtoser(proc[u].line.gsid, proc[u].opened)]

\* The x-file is a copy of the open s-file with the new delta.
MakeXfile(u) ==
  /\ proc[u].pc = "xfile"
  /\ xfile' = Append(proc[u].opened, mkdelt(u))
  /\ Goto(u, "rename x")
  /\ UNCHANGED <<scenario, sfile, pfile, qfile, zfile, gfile, run, cuts, ghosts>>

(***************************************************************************)
(* rmdel: sinit, now under the lock; the delta must be there, have no      *)
(* successor, not be the last one and not be edited.                       *)
(***************************************************************************)
rmdel(u) ==
  LET r == proc[u].cmd.r
      n == sidtoser(r, sfile)
  IN  IF \/ n = 0                                 \* rc3
         \/ \E m \in Serials(sfile) : m > n /\ sfile[m].pred = n  \* rc5
         \/ Cardinality(Serials(sfile)) = 1       \* rc13
         \/ \E l \in pfile : l.gsid = r          \* rc12
      THEN fatal(u)
      ELSE /\ xfile' = [sfile EXCEPT ![n].type = "R"]
           /\ Goto(u, "rename x")
           /\ UNCHANGED <<sfile, pfile, qfile, zfile, gfile, ghosts>>

\* unget, up to edpfile.  xfcreat replaces a q-file that is there.
unget(u) ==
  IF \/ Chosen(u) = {}                            \* un2, un3
     \/ Cardinality(Chosen(u)) > 1 /\ proc[u].cmd.r = NoSid \* un1
  THEN fatal(u)
  ELSE /\ qfile' = [lines |-> Rest(u)]
       /\ proc' = [proc EXCEPT ![u].pc = "rename q", ![u].line = TheLine(u),
                               ![u].last = (Rest(u) = {})]
       /\ UNCHANGED <<sfile, pfile, xfile, zfile, gfile, ghosts>>

\* What a command does first when it has the lock.
Locked(u) ==
  /\ proc[u].pc = "locked"
  /\ CASE proc[u].cmd.op = "get"   -> get(u)
       [] proc[u].cmd.op = "delta" -> delta(u)
       [] proc[u].cmd.op = "unget" -> unget(u)
       [] proc[u].cmd.op = "rmdel" -> rmdel(u)
  /\ UNCHANGED <<scenario, run, cuts>>

(***************************************************************************)
(* The renames, and what follows them.                                     *)
(***************************************************************************)

\* delta, rmdel: the x-file becomes the s-file, if it is there.
RenameX(u) ==
  /\ proc[u].pc = "rename x"
  /\ sfile' = IF xfile = NoFile THEN sfile ELSE xfile
  /\ xfile' = NoFile
  /\ IF proc[u].cmd.op = "delta"
     THEN /\ made' = made \cup {mkdelt(u)}
          /\ half' = half \cup {proc[u].line}
          /\ Goto(u, "rename q")
     ELSE /\ made' = {d \in made : d.sid # proc[u].cmd.r}
          /\ half' = half
          /\ Goto(u, "unlock")
  /\ UNCHANGED <<scenario, pfile, qfile, zfile, gfile, run, cuts, edits, stale,
                 broken>>

\* get, delta, unget: the q-file becomes the p-file.  delta and unget unlink the
\* p-file instead when the q-file is empty; here an empty p-file is none.  delta
\* looks at the q-file's size now (a q-file that has gone is an empty one), unget
\* looked when it wrote it.  Nobody looks at rename's result.
RenameQ(u) ==
  /\ proc[u].pc = "rename q"
  /\ pfile' = IF proc[u].last \/ (qfile = NoFile /\ proc[u].cmd.op = "delta") THEN {}
              ELSE IF qfile = NoFile THEN pfile ELSE qfile.lines
  /\ qfile' = NoFile
  /\ edits' = IF proc[u].cmd.op = "get" THEN edits
              ELSE {l \in edits : l # proc[u].line \/ l.user # u}
  /\ Goto(u, "unlock")
  /\ UNCHANGED <<scenario, sfile, xfile, zfile, gfile, run, cuts, made, half,
                 stale, broken>>

\* unlockit, in delta and rmdel at the end of clean_up.  rmdel and get -e are
\* done.
Unlock(u) ==
  /\ proc[u].pc = "unlock"
  /\ unlockit(u)
  /\ edits' = IF proc[u].cmd.op = "get" THEN edits \cup {proc[u].line} ELSE edits
  /\ proc' = [proc EXCEPT ![u] = IF proc[u].cmd.op \in {"get", "rmdel"} THEN Idle
                                 ELSE [proc[u] EXCEPT !.pc = "unlink g"]]
  /\ UNCHANGED <<scenario, sfile, pfile, qfile, xfile, gfile, run, cuts,
                 made, half, stale, broken>>

\* delta and unget remove the g-file when the lock is gone.
UnlinkG(u) ==
  /\ proc[u].pc = "unlink g"
  /\ gfile' = [gfile EXCEPT ![u] = FALSE]
  /\ proc' = [proc EXCEPT ![u] = Idle]
  /\ UNCHANGED <<scenario, sfile, pfile, qfile, xfile, zfile, run, cuts, ghosts>>

(***************************************************************************)
(* What comes from outside.                                                *)
(***************************************************************************)

\* A signal that setsig1 catches, or an error of a call the model leaves out
\* (no space, diff failed, no permission).  clean_up finds the z-file its own only
\* once the pid is in it; delta's x-file is removed while it is being written and
\* stays once it is closed (flushline); rmdel unlocks and removes the x-file,
\* whoever has the lock, once sinit has filled in the name.
Interrupt(u) ==
  /\ proc[u].pc # "idle" /\ cuts < MaxCuts
  /\ cuts' = cuts + 1
  /\ LET pc == proc[u].pc
         rm == proc[u].cmd.op = "rmdel"
     IN  /\ qfile' = IF mylock(u) /\ ~rm THEN NoFile ELSE qfile
         /\ \/ pc = "locked" /\ rm /\ UNCHANGED <<xfile, zfile>>
            \/ /\ unlockit(u)
               /\ xfile' \in CASE rm /\ pc \in {"locked", "rename x", "unlock"} -> {NoFile}
                              [] mylock(u) /\ pc = "xfile" -> {xfile, NoFile}
                              [] OTHER -> {xfile}
  /\ proc' = [proc EXCEPT ![u] = Idle]
  /\ UNCHANGED <<scenario, sfile, pfile, gfile, run, ghosts>>

\* The process is killed, or the machine goes down: every file stays as it is.
Kill(u) ==
  /\ proc[u].pc # "idle" /\ cuts < MaxCuts
  /\ cuts' = cuts + 1
  /\ proc' = [proc EXCEPT ![u] = Idle]
  /\ UNCHANGED <<scenario, files, run, ghosts>>

\* A user without a command removes the g-file.
Rm(u) ==
  /\ proc[u].pc = "idle" /\ gfile[u]
  /\ gfile' = [gfile EXCEPT ![u] = FALSE]
  /\ UNCHANGED <<scenario, sfile, pfile, qfile, xfile, zfile, proc, run, cuts, ghosts>>

----------------------------------------------------------------------------
Step(u) ==
  \/ Create(u) \/ Write(u) \/ Look(u) \/ Judge(u) \/ Steal(u) \/ Locked(u)
  \/ MakeGfile(u) \/ MakeXfile(u) \/ RenameX(u) \/ RenameQ(u)
  \/ Unlock(u) \/ UnlinkG(u)

Next ==
  \E u \in User :
    \/ Start(u)
    \/ Step(u)
    \/ Interrupt(u) \/ Kill(u) \/ Rm(u)

\* A command that runs goes on running, and delta's user answers its questions:
\* weak fairness of Step(u), which is enabled as long as the command runs.
Fairness == \A u \in User : []<>(proc[u].pc = "idle") \/ []<><<Step(u)>>_vars

Spec == Init /\ [][Next]_vars /\ Fairness
----------------------------------------------------------------------------
(***************************************************************************)
(* Properties.                                                             *)
(***************************************************************************)
PCs == {"create", "write", "look", "judge", "unlink z", "locked", "gfile", "xfile",
        "rename x", "rename q", "unlock", "unlink g"}

Holding == {"write", "locked", "gfile", "xfile", "rename x", "rename q", "unlock"}

Command == [pc : PCs, cmd : Cmd, pid : Pid, tries : 1 .. TRIES,
            opid : Pid \cup {<<>>}, seen : Pid \cup {<<>>},
            line : Line \cup {NoFile}, last : BOOLEAN, opened : Seq(Delta)]

\* A predecessor is an older delta.
Older(table) == \A n \in DOMAIN table : table[n].pred < n

\* Types, and what the files can hold: a q-file or an x-file is well formed
\* whoever left it behind, and lockit counts its tries down to one.
TypeOK ==
  /\ scenario \in Scenario
  /\ sfile \in Seq(Delta) /\ Older(sfile)
  /\ xfile # NoFile => xfile \in Seq(Delta) /\ Older(xfile)
  /\ pfile \subseteq Line /\ IsFiniteSet(pfile)
  /\ qfile # NoFile => qfile \in [lines : SUBSET Line] /\ IsFiniteSet(qfile.lines)
  /\ zfile # NoFile => zfile \in [pid : Pid, written : BOOLEAN]
  /\ gfile \in [User -> BOOLEAN]
  /\ proc \in [User -> Command \cup {Idle}]
  /\ run \in [User -> Nat] /\ cuts \in 0 .. MaxCuts
  /\ \A u \in User : proc[u] # Idle => proc[u].pid = <<u, run[u]>> /\ Older(proc[u].opened)

\* lockit (lockit.c): at most one command is between taking the z-file and
\* giving it back, and the z-file is then its own, although waiting commands
\* remove z-files whose owner has died, several of them at the same time; until
\* one of them judges a z-file that was empty by the pid of an earlier one
\* (line 113), or unlinks a z-file that took the place of the one it judged
\* (lines 118 to 121).
OneHolder ==
  broken \/
  \A u \in User : proc[u].pc \in Holding =>
    /\ zfile # NoFile /\ zfile.pid = proc[u].pid
    /\ \A v \in User \ {u} : proc[v].pc \notin Holding

\* delta and rmdel (delta.c, rmchg.c): every delta that was made is in the s-file
\* until rmdel removes it, whatever was interrupted or killed on the way, unless
\* a delta has replaced the s-file from one it opened before the lock, or lockit
\* has broken a lock.
HistoryKept == stale \/ broken \/ made \subseteq Range(sfile)

\* wrtpfile, rdpfile, edpfile: an edit that get -e has granted stays in the p-file
\* until the same user's delta or unget takes it out; no other command, and none
\* that is cut short, loses it with the p-file it rewrites, as long as the lock
\* holds.
EditsKept == broken \/ edits \subseteq pfile

\* newsid and wrtpfile: no two deltas and no two edits share an SID, an edit's SID
\* is new unless its delta was cut short between the two renames, and the version
\* it started from is still there.  (While no delta used a stale s-file and the
\* lock holds.)
SidsSound ==
  stale \/ broken \/
  /\ \A m, n \in Serials(sfile) : sfile[m].sid = sfile[n].sid => m = n
  /\ \A k, l \in pfile : k.nsid = l.nsid => k = l
  /\ \A l \in pfile : l.gsid \in Sids(sfile) /\ (l.nsid \in Sids(sfile) => l \in half)

(***************************************************************************)
(* The inductive invariant                                                 *)
(***************************************************************************)

\* Which commands do what, and who has a line of the p-file.
Places ==
  \A u \in User :
    LET c == proc[u]
    IN  /\ c.pc = "gfile" => c.cmd.op = "get"
        /\ c.pc = "xfile" => c.cmd.op = "delta"
        /\ c.pc = "rename x" => c.cmd.op \in {"delta", "rmdel"}
        /\ c.pc = "rename q" => c.cmd.op # "rmdel"
        /\ c.pc \in {"gfile", "xfile", "rename x", "rename q", "unlock"} /\ c.cmd.op # "rmdel"
             => c.line \in Line
        /\ c.pc # "idle" /\ c.last => c.cmd.op = "unget"

\* A pid is never used again.
Used(pid) == pid[2] <= run[pid[1]]

PidsUsed ==
  /\ zfile # NoFile => Used(zfile.pid)
  /\ \A u \in User : proc[u].pc # "idle" /\ proc[u].seen # <<>> => Used(proc[u].seen)

\* The lock of a command that holds it is there, and the z-file that lockit is
\* about to unlink was that of a command that has ended.
LockHeld ==
  ~broken => \A u \in User :
    /\ proc[u].pc \in Holding => zfile # NoFile /\ zfile.pid = proc[u].pid
    /\ proc[u].pc = "unlink z" => proc[u].seen # <<>> /\ ~Alive(proc[u].seen)

\* No two edits will make the same delta.
PlansDiffer == ~broken => \A k, l \in pfile : k.nsid = l.nsid => k = l

\* u has a q-file with one line more, or one line less, than the p-file.
Adding(u) == proc[u].pc \in {"gfile", "rename q"} /\ proc[u].cmd.op = "get"
Taking(u) ==
  /\ proc[u].pc \in {"xfile", "rename x", "rename q"}
  /\ proc[u].cmd.op \in {"delta", "unget"}

\* What the q-file has in it until it becomes the p-file.
EditWork ==
  ~broken => \A u \in User :
    LET line == proc[u].line
    IN  /\ Adding(u) => /\ qfile = [lines |-> pfile \cup {line}]
                        /\ \A l \in pfile : l.nsid # line.nsid
        /\ proc[u].pc = "unlock" /\ proc[u].cmd.op = "get" => line \in pfile
        /\ Taking(u) => /\ line \in pfile /\ line.user = u
                        /\ qfile = [lines |-> pfile \ {line}]
                        /\ proc[u].last => pfile \subseteq {line}

\* What the x-file has in it until it becomes the s-file.
HistoryWork ==
  ~stale /\ ~broken => \A u \in User :
    LET c == proc[u]
    IN  /\ c.pc \in {"locked", "xfile", "rename x"} /\ c.cmd.op = "delta" => c.opened = sfile
        /\ c.pc = "rename x" /\ c.cmd.op = "delta" => xfile = Append(sfile, mkdelt(u))
        /\ c.pc = "rename x" /\ c.cmd.op = "rmdel" =>
             /\ \E n \in Serials(sfile) :
                  sfile[n].sid = c.cmd.r /\ xfile = [sfile EXCEPT ![n].type = "R"]
             /\ \A l \in pfile : l.gsid # c.cmd.r

\* The SIDs of the edit that is being entered, and of the delta being made.
SidWork ==
  ~stale /\ ~broken => \A u \in User :
    /\ Adding(u) => /\ proc[u].line.gsid \in Sids(sfile)
                    /\ proc[u].line.nsid \notin Sids(sfile)
    /\ proc[u].pc \in {"xfile", "rename x"} /\ proc[u].cmd.op = "delta" =>
         proc[u].line.nsid \notin Sids(sfile)

SccsInv ==
  /\ TypeOK /\ Places /\ PidsUsed /\ LockHeld
  /\ EditsKept /\ PlansDiffer /\ EditWork
  /\ HistoryKept /\ HistoryWork
  /\ SidsSound /\ SidWork

\* Every command ends: the lock is given up after TRIES tries, and no leftover
\* file makes a command wait for ever.
CommandsEnd == \A u \in User : proc[u].pc # "idle" ~> proc[u].pc = "idle"

\* "Lock out any other user who may be trying to process the same file"
\* (rmchg.c, admin.c): with the lock, no command undoes a delta of another.
NoDeltaLost == made \subseteq Range(sfile)
============================================================================
