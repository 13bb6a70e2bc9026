-------------------------------- MODULE Sac ---------------------------------
(***************************************************************************)
(* The service access controller (sac.c, misc.c, readtab.c) and the port   *)
(* monitors it starts, polls and restarts.                                 *)
(*                                                                         *)
(* sac reads the answers of the port monitors in a loop (readpipe) and     *)
(* works in the handlers of three signals: SIGALRM (pollpms), SIGCLD       *)
(* (reap) and SIGPOLL (sigpoll, the commands of sacadm).  A handler is     *)
(* entered with its own signal blocked and no other, so handlers and the   *)
(* main program interrupt each other: what they do is cut into tasks, the  *)
(* stack has the tasks each of them has left, and the mask is the signal   *)
(* mask of the process, which pollfail, startpm, sigpoll and purge extend  *)
(* with sigprocmask.  One task is one step.                                *)
(*                                                                         *)
(* A port monitor is modelled from how sac uses it: it locks its _pid      *)
(* file, obeys and answers every message, and exits on SIGTERM.            *)
(***************************************************************************)
EXTENDS Integers, SequencesExt, FiniteSetsExt

CONSTANT Scenarios     \* what may happen: see ScenarioType

VARIABLES
    scenario,      \* the scenario of this behaviour
    running,       \* is there a sac?
    tab,           \* Sactab: tag -> entry
    file,          \* the file _sactab: tag -> [rsmax, D, X]
    procs,         \* the processes started, by pid
    pmpipe,        \* tag -> messages in its _pmpipe
    sacpipe,       \* messages in _sacpipe
    cld,           \* SIGCLD is pending
    stack,         \* the handlers under way, the interrupted ones below
    mask,          \* the signals that are blocked
    given,         \* commands of sacadm so far
    faults,        \* faults so far
    starts,        \* history: tag -> times started since it was told to start
    doubled,       \* history: tag -> starts since then that two handlers decided on at once
    told,          \* history: tag -> the state sac was told to put it in
    crossed        \* history: tags whose state was set by two handlers at once

vars == <<scenario, running, tab, file, procs, pmpipe, sacpipe, cld, stack, mask, given, faults,
          starts, doubled, told, crossed>>
worldVars == <<scenario, running, file, sacpipe, given>>
histories == <<starts, doubled, told, crossed>>

State == {"NOTRUNNING", "STARTING", "ENABLED", "DISABLED", "STOPPING", "FAILED", "UNKNOWN"}
Line == [rsmax : Nat, D : BOOLEAN, X : BOOLEAN]
Signals == {"ALRM", "CLD", "POLL"}

\* tables: the contents _sactab has, one after the other, tags being numbered
\* in the order of the file; commands: those of sacadm, SACREAD being sent
\* after the file was given its next contents; kinds, most: the faults that
\* may happen, and how many.  "nest" is a signal that interrupts a handler, or
\* readpipe at work.
Commands == {"START", "KILL", "ENABLE", "DISABLE", "PMREAD", "SACREAD"}
Tags(s) == UNION {DOMAIN s.tables[i] : i \in DOMAIN s.tables}
Reads(s, n) == Cardinality({i \in 1..n : s.commands[i].type = "SACREAD"})
ScenarioType(s) ==
    /\ \A i \in DOMAIN s.tables :
          /\ IsFiniteSet(DOMAIN s.tables[i]) /\ DOMAIN s.tables[i] \subseteq Nat \ {0}
          /\ \A t \in DOMAIN s.tables[i] : s.tables[i][t] \in Line
    /\ s.commands \in Seq([tag : Tags(s), type : Commands])
    /\ DOMAIN s.tables = 1..(1 + Reads(s, Len(s.commands)))
    /\ s.kinds \subseteq {"die", "hang", "slow", "nofork", "nopipe", "crash", "nest"}
    /\ s.most \in Nat

ASSUME ScenarioAssumption == \A s \in Scenarios : ScenarioType(s)

\* The faults of the kinds in k happen.
Faults(k) ==
    /\ k \subseteq scenario.kinds
    /\ faults + Cardinality(k) <= scenario.most
    /\ faults' = faults + Cardinality(k)

-----------------------------------------------------------------------------
(***************************************************************************)
(* Port monitors as processes.  st: "boot" (forked, _pid not locked yet),  *)
(* "up", "hung" (answers nothing, not even SIGTERM), "term" and "kill" (it *)
(* was sent that signal), "zombie", "none" (waited for).  mode is the      *)
(* state it is in.                                                         *)
(***************************************************************************)

Holds == {"up", "hung", "term", "kill"}     \* the lock on _pid
Alive == Holds \cup {"boot"}

\* checklock: who holds the lock of tag t, or 0.
checklock(t) ==
    LET holders == {p \in DOMAIN procs : procs[p].tag = t /\ procs[p].st \in Holds}
    IN  IF holders = {} THEN 0 ELSE CHOOSE p \in holders : TRUE

\* The processes started for t that have not ended.
Running(t) == {p \in DOMAIN procs : procs[p].tag = t /\ procs[p].st \in Alive}

\* The process p ends; a child of the running sac is left as a zombie.
Ends(p) ==
    /\ procs' = [procs EXCEPT ![p].st = IF procs[p].child THEN "zombie" ELSE "none"]
    /\ cld' = (cld \/ procs[p].child)

\* sendsig with SIGTERM to the port monitors with the tags in T.
Terminated(T) ==
    [p \in DOMAIN procs |->
        IF procs[p].st = "up" /\ procs[p].tag \in T /\ p = checklock(procs[p].tag)
        THEN [procs[p] EXCEPT !.st = "term"] ELSE procs[p]]

\* sendsig with SIGKILL; the process may be gone at once.
Killed(t) ==
    LET p == checklock(t)
    IN  \/ p = 0 /\ UNCHANGED <<procs, cld>>
        \/ p # 0 /\ Ends(p)
        \/ p # 0 /\ procs' = [procs EXCEPT ![p].st = "kill"] /\ UNCHANGED cld

-----------------------------------------------------------------------------
(***************************************************************************)
(* Handlers.  A task names the port monitor it is about; 0 stands for none *)
(* where a loop over the table begins.  back is the mask that the kernel   *)
(* restores when a handler returns.  The main program has a frame while it *)
(* starts up and while it deals with a message.                            *)
(***************************************************************************)

Task(do, t) == [do |-> do, tag |-> t]
Send(t, msg) == [do |-> "send", tag |-> t, msg |-> msg]
Set(t, fields, to) == [do |-> "set", tag |-> t, fields |-> fields, to |-> to]
Restore(t, m) == [do |-> "restore", tag |-> t, mask |-> m]
Read(do, t, lines) == [do |-> do, tag |-> t, lines |-> lines]
Drop(t, lines, m) == [do |-> "remove", tag |-> t, lines |-> lines, mask |-> m]
Started(do, t, p, m) == [do |-> do, tag |-> t, pid |-> p, mask |-> m]

Idle == stack = <<>>
Top == stack[Len(stack)]
task == Head(Top.todo)
pm == task.tag

\* The handler is about to do this.
Doing(do) == running /\ ~Idle /\ task.do = do

\* It goes on with the tasks in more, then with those it had left, under the
\* mask m; without any it returns.
GoesOn(more, m) ==
    LET todo == more \o Tail(Top.todo)
    IN  IF todo # <<>>
        THEN stack' = [stack EXCEPT ![Len(stack)].todo = todo] /\ mask' = m
        ELSE stack' = Front(stack) /\ mask' = IF Top.by = "main" THEN m ELSE Top.back

Then(more) == GoesOn(more, mask)

\* A signal comes, and its handler has this to do.
Handle(sig, todo) ==
    /\ running
    /\ sig \notin mask
    /\ IF todo = <<>> THEN UNCHANGED <<stack, mask>>
       ELSE /\ stack' = Append(stack, [by |-> sig, todo |-> todo, back |-> mask])
            /\ mask' = mask \cup {sig}

Nested == IF Idle THEN {} ELSE {"nest"}

\* The frames among the lowest n that come to such a task on t next.
Pending(n, does, t) ==
    {i \in 1..n : LET x == Head(stack[i].todo) IN x.tag = t /\ x.do \in does}

\* The fields of t that the frame i is about to set.
WillSet(i, t) ==
    LET x == Head(stack[i].todo) IN IF x.do = "set" /\ x.tag = t THEN ToSet(x.fields) ELSE {}

\* An interrupted handler has set one of sc_sstate and sc_lstate of t, or has
\* made up its mind about it, and not the other.
HalfSet(t) ==
    \E i \in 1..(Len(stack) - 1) : Cardinality(WillSet(i, t) \cap {"sstate", "lstate"}) = 1

Cross(t) == crossed' = IF HalfSet(t) THEN crossed \cup {t} ELSE crossed

-----------------------------------------------------------------------------
(***************************************************************************)
(* sac.c                                                                   *)
(***************************************************************************)

\* The entry that comes after t in the list, as a set.
After(t, T) == LET later == {u \in T : u > t} IN IF later = {} THEN {} ELSE {Min(later)}

\* A fresh entry, by read_entry.  fd: sc_fd is open; leak: one that it was
\* before still is.
Entry(line) ==
    [sstate |-> "NOTRUNNING", pstate |-> "NOTRUNNING", lstate |-> "NOTRUNNING", ok |-> FALSE,
     rscnt |-> 0, rsmax |-> line.rsmax, D |-> line.D, X |-> line.X, pid |-> 0,
     fd |-> FALSE, leak |-> FALSE]

\* ISTATE, the state the environment of a new port monitor names.
\* Mutant: the last state is forgotten.
ISTATE_Flag(e) == IF e.D THEN "DISABLED" ELSE "ENABLED"
ISTATE(e) ==
    IF e.lstate = "NOTRUNNING" THEN IF e.D THEN "DISABLED" ELSE "ENABLED"
    ELSE IF e.lstate = "DISABLED" THEN "DISABLED" ELSE "ENABLED"

\* sc_sstate of a port monitor that was started.
\* Mutant: the last state is forgotten.
InitialState_Flag(e) == IF e.D THEN "DISABLED" ELSE "ENABLED"
InitialState(e) ==
    IF e.lstate = "NOTRUNNING" THEN IF e.D THEN "DISABLED" ELSE "ENABLED" ELSE e.lstate

\* startpm, up to the open of the pipe, whose contents are gone when nobody
\* had it open.
startpm ==
    /\ Doing("startpm")
    /\ IF checklock(pm) # 0
       THEN Then(<<>>) /\ UNCHANGED <<tab, pmpipe>>
       ELSE /\ tab' = [tab EXCEPT ![pm].leak = @ \/ tab[pm].fd, ![pm].fd = TRUE]
            /\ pmpipe' = IF tab[pm].fd \/ tab[pm].leak \/ Running(pm) # {}
                         THEN pmpipe ELSE [pmpipe EXCEPT ![pm] = <<>>]
            /\ Then(<<Task("fork", pm)>>)
    /\ UNCHANGED <<worldVars, procs, cld, faults, histories>>

\* SIGCLD is blocked from before the fork to the end of startpm; when the fork
\* fails it stays blocked.
fork ==
    /\ Doing("fork")
    /\ \/ /\ procs' = Append(procs, [tag |-> pm, st |-> "boot", mode |-> ISTATE(tab[pm]), child |-> TRUE])
          /\ starts' = [starts EXCEPT ![pm] = @ + 1]
          /\ GoesOn(<<Started("starting", pm, Len(procs) + 1, mask)>>, mask \cup {"CLD"})
          /\ UNCHANGED faults
       \/ Faults({"nofork"}) /\ GoesOn(<<>>, mask \cup {"CLD"}) /\ UNCHANGED <<procs, starts>>
    /\ UNCHANGED <<worldVars, tab, pmpipe, cld, doubled, told, crossed>>

starting ==
    /\ Doing("starting")
    /\ tab' = [tab EXCEPT ![pm].pstate = "STARTING"]
    /\ Then(<<Set(pm, <<"sstate">>, InitialState(tab[pm])),
              Started("started", pm, task.pid, task.mask)>>)
    /\ UNCHANGED <<worldVars, procs, pmpipe, cld, faults, histories>>

started ==
    /\ Doing("started")
    /\ tab' = [tab EXCEPT ![pm].ok = TRUE, ![pm].pid = task.pid]
    /\ GoesOn(<<>>, task.mask)
    /\ UNCHANGED <<worldVars, procs, pmpipe, cld, faults, histories>>

\* The next assignment to sc_sstate, sc_lstate or sc_pstate.  What sigpoll and
\* the main program set sc_sstate to is what sac was told.
SetState ==
    /\ Doing("set")
    /\ LET field == Head(task.fields)
           rest == Tail(task.fields)
       IN  /\ tab' = [tab EXCEPT ![pm] = [@ EXCEPT ![field] = task.to]]
           /\ told' = IF field = "sstate" /\ Top.by \in {"POLL", "main"}
                      THEN [told EXCEPT ![pm] = task.to] ELSE told
           /\ IF field = "pstate" THEN UNCHANGED crossed ELSE Cross(pm)
           /\ Then(IF rest = <<>> THEN <<>> ELSE <<Set(pm, rest, task.to)>>)
    /\ UNCHANGED <<worldVars, procs, pmpipe, cld, faults, starts, doubled>>

\* pollfail.
pollfail ==
    /\ Doing("pollfail")
    /\ Then(IF tab[pm].pstate = "STOPPING"
            THEN <<Set(pm, <<"pstate", "lstate">>, "NOTRUNNING"), Task("stopped", pm)>>
            ELSE <<Task("kill", pm)>>)
    /\ UNCHANGED <<worldVars, tab, procs, pmpipe, cld, faults, histories>>

\* Its end for one that was told to stop: cset was not set, so that
\* sigprocmask makes the mask anything.
stopped ==
    /\ Doing("stopped")
    /\ tab' = [tab EXCEPT ![pm].fd = FALSE]
    /\ \E m \in SUBSET Signals : GoesOn(<<>>, m)
    /\ UNCHANGED <<worldVars, procs, pmpipe, cld, faults, histories>>

kill ==
    /\ Doing("kill")
    /\ Killed(pm)
    /\ GoesOn(<<Task("check", pm), Restore(pm, mask)>>, mask \cup {"CLD"})
    /\ UNCHANGED <<worldVars, tab, pmpipe, faults, histories>>

\* May it be restarted?  Two handlers may both find that it may.
\* Mutant: one restart too many.
MayRestart_OneMore(e) == e.rscnt <= e.rsmax
MayRestart(e) == e.rscnt < e.rsmax

Failed(t) == <<Set(t, <<"pstate", "sstate">>, "FAILED"), Task("close", t)>>

check ==
    /\ Doing("check")
    /\ LET both == Pending(Len(stack) - 1, {"count"}, pm) # {}
       IN  IF MayRestart(tab[pm])
           THEN /\ Then(<<Task("count", pm)>>)
                /\ doubled' = IF both THEN [doubled EXCEPT ![pm] = @ + 1] ELSE doubled
           ELSE Then(Failed(pm)) /\ UNCHANGED doubled
    /\ UNCHANGED <<worldVars, tab, procs, pmpipe, cld, faults, starts, told, crossed>>

\* Mutant: the restart is not counted.
Counted_Not(e) == [e EXCEPT !.fd = FALSE]
Counted(e) == [e EXCEPT !.rscnt = @ + 1, !.fd = FALSE]

count ==
    /\ Doing("count")
    /\ tab' = [tab EXCEPT ![pm] = Counted(@)]
    /\ Then(<<Task("startpm", pm)>>)
    /\ UNCHANGED <<worldVars, procs, pmpipe, cld, faults, histories>>

close ==
    /\ Doing("close")
    /\ tab' = [tab EXCEPT ![pm].fd = FALSE]
    /\ Then(<<>>)
    /\ UNCHANGED <<worldVars, procs, pmpipe, cld, faults, histories>>

restore ==
    /\ Doing("restore")
    /\ GoesOn(<<>>, task.mask)
    /\ UNCHANGED <<worldVars, tab, procs, pmpipe, cld, faults, histories>>

\* The message that the poll sends.
PollMessage(e) ==
    CASE e.sstate # e.pstate /\ e.sstate = "ENABLED"  -> "SC_ENABLE"
      [] e.sstate # e.pstate /\ e.sstate = "DISABLED" -> "SC_DISABLE"
      [] OTHER -> "SC_STATUS"

\* What pollpms has to do about the entry e of t.
\* Mutant: it does not look for one that has stopped answering.
Polled_Never(t, e) ==
    IF e.pstate \in {"NOTRUNNING", "FAILED"} THEN <<>>
    ELSE <<Send(t, PollMessage(e)), Task("asked", t)>>
Polled(t, e) ==
    IF e.pstate \in {"NOTRUNNING", "FAILED"} THEN <<>>
    ELSE IF ~e.ok THEN <<Task("pollfail", t)>>
    ELSE <<Send(t, PollMessage(e)), Task("asked", t)>>

\* The loop of pollpms goes on behind t.
pollpms ==
    /\ Doing("pollpms")
    /\ IF After(pm, DOMAIN tab) = {} THEN Then(<<>>)
       ELSE \E t \in After(pm, DOMAIN tab) : Then(Append(Polled(t, tab[t]), Task("pollpms", t)))
    /\ UNCHANGED <<worldVars, tab, procs, pmpipe, cld, faults, histories>>

sendpmmsg ==
    /\ Doing("send")
    /\ pmpipe' = IF tab[pm].fd THEN [pmpipe EXCEPT ![pm] = Append(@, task.msg)] ELSE pmpipe
    /\ Then(<<>>)
    /\ UNCHANGED <<worldVars, tab, procs, cld, faults, histories>>

\* The answer has to come, or has come.
SetOk ==
    /\ Doing("asked") \/ Doing("answered")
    /\ tab' = [tab EXCEPT ![pm].ok = (task.do = "answered")]
    /\ Then(<<>>)
    /\ UNCHANGED <<worldVars, procs, pmpipe, cld, faults, histories>>

\* SIGALRM is to come: pollpms has ended.
Armed == \A i \in DOMAIN stack : \A k \in DOMAIN stack[i].todo : stack[i].todo[k].do # "pollpms"

\* Everybody has done what he has to do.
Calm ==
    /\ sacpipe = <<>>
    /\ cld => "CLD" \in mask
    /\ \A p \in DOMAIN procs :
          /\ procs[p].st \notin {"boot", "term", "kill"}
          /\ procs[p].st = "up" => pmpipe[procs[p].tag] = <<>>

\* SIGALRM, Stime seconds after the last poll: everybody had the time, or
\* somebody is slow.
Alarm ==
    /\ Armed
    /\ Faults(Nested \cup IF Calm THEN {} ELSE {"slow"})
    /\ Handle("ALRM", <<Task("pollpms", 0)>>)
    /\ UNCHANGED <<worldVars, tab, procs, pmpipe, cld, histories>>

\* SIGCLD: one wait, of whichever child is dead.
Reap ==
    /\ cld
    /\ Faults(Nested)
    /\ \E p \in DOMAIN procs :
          /\ procs[p].st = "zombie"
          /\ procs' = [procs EXCEPT ![p].st = "none"]
          /\ LET mine == {t \in DOMAIN tab : tab[t].pid = p}
                 down == {t \in mine : tab[t].pstate \in {"NOTRUNNING", "FAILED"}}
             IN  Handle("CLD", IF mine = down THEN <<>> ELSE <<Task("pollfail", CHOOSE t \in mine : TRUE)>>)
    /\ cld' = FALSE
    /\ UNCHANGED <<worldVars, tab, pmpipe, histories>>

\* What readpipe has to do when the port monitor of the entry e reports st.
Report(t, e, st) ==
    LET known == IF st \in {"ENABLED", "DISABLED", "STARTING", "STOPPING"} THEN st ELSE "UNKNOWN"
        recovery == {e.sstate, e.pstate} = {"UNKNOWN"}
        shown == e.pstate = known \/ (e.pstate = "STOPPING" /\ e.sstate \notin {e.pstate, known})
        fields == IF ~recovery THEN <<"pstate">>
                  ELSE IF known \in {"ENABLED", "DISABLED"} THEN <<"sstate", "pstate", "lstate", "pstate">>
                  ELSE <<"sstate", "pstate", "pstate">>
        answer == <<Task("answered", t)>>
    IN  IF ~recovery /\ shown THEN answer ELSE <<Set(t, fields, known)>> \o answer

\* readpipe takes a message.
readpipe ==
    /\ running /\ Idle
    /\ sacpipe # <<>>
    /\ sacpipe' = Tail(sacpipe)
    /\ LET m == Head(sacpipe)
       IN  stack' = IF m.tag \in DOMAIN tab
                    THEN <<[by |-> "main", todo |-> Report(m.tag, tab[m.tag], m.state), back |-> mask]>>
                    ELSE stack
    /\ UNCHANGED <<scenario, running, file, given, tab, procs, pmpipe, cld, mask, faults, histories>>

\* init starts sac: main, initialize.
SacStart ==
    /\ ~running
    /\ running' = TRUE
    /\ tab' = [t \in DOMAIN file |-> Entry(file[t])]
    /\ sacpipe' = IF \E p \in DOMAIN procs : procs[p].st \in Alive THEN sacpipe ELSE <<>>
    /\ stack' = <<[by |-> "main", todo |-> <<Task("startpms", 0), Task("pollpms", 0)>>, back |-> {}]>>
    /\ mask' = {}
    /\ starts' = [t \in DOMAIN starts |-> IF t \in DOMAIN file THEN 0 ELSE starts[t]]
    /\ doubled' = [t \in DOMAIN doubled |-> IF t \in DOMAIN file THEN 0 ELSE doubled[t]]
    /\ told' = [t \in DOMAIN told |-> IF t \in DOMAIN file THEN "NOTRUNNING" ELSE told[t]]
    /\ crossed' = {}
    /\ UNCHANGED <<scenario, file, procs, pmpipe, cld, given, faults>>

\* startpms: if a _pid file is locked sac recovers.  Opening the _pmpipe of
\* such a port monitor may fail.
startpms ==
    /\ Doing("startpms")
    /\ LET locked == {t \in DOMAIN tab : checklock(t) # 0}
       IN  \/ /\ locked = {}
              /\ Then(<<Task("startall", 0)>>)
              /\ UNCHANGED <<tab, procs, faults, told>>
           \/ \E pipes \in BOOLEAN :
                 /\ locked # {}
                 /\ tab' = [t \in DOMAIN tab |->
                               IF t \in locked
                               THEN [tab[t] EXCEPT !.sstate = "UNKNOWN", !.pstate = "UNKNOWN",
                                                   !.ok = pipes, !.fd = pipes, !.pid = checklock(t)]
                               ELSE tab[t]]
                 /\ procs' = IF pipes THEN procs ELSE Terminated(locked)
                 /\ told' = [t \in DOMAIN told |-> IF t \in locked THEN "UNKNOWN" ELSE told[t]]
                 /\ Faults(IF pipes THEN {} ELSE {"nopipe"})
                 /\ Then(<<>>)
    /\ UNCHANGED <<worldVars, pmpipe, cld, starts, doubled, crossed>>

\* Its loop over the port monitors to start goes on behind t.  A command may
\* have started one already.
startall ==
    /\ Doing("startall")
    /\ IF After(pm, DOMAIN tab) = {} THEN Then(<<>>) /\ UNCHANGED doubled
       ELSE \E t \in After(pm, DOMAIN tab) :
               IF tab[t].X THEN Then(<<Task("startall", t)>>) /\ UNCHANGED doubled
               ELSE /\ Then(<<Task("startpm", t), Task("startall", t)>>)
                    /\ doubled' = IF starts[t] = 0 THEN doubled ELSE [doubled EXCEPT ![t] = @ + 1]
    /\ UNCHANGED <<worldVars, tab, procs, pmpipe, cld, faults, starts, told, crossed>>

-----------------------------------------------------------------------------
(***************************************************************************)
(* readtab.c                                                               *)
(***************************************************************************)

\* The loop of read_table goes on behind t: insert.  Known entries take their
\* flags and restart count from the file, new ones are added and started.
read_table ==
    /\ Doing("read_table")
    /\ IF After(pm, DOMAIN task.lines) = {}
       THEN Then(<<Read("purge", 0, task.lines)>>) /\ UNCHANGED <<tab, starts, doubled, told>>
       ELSE \E t \in After(pm, DOMAIN task.lines) :
              LET line == task.lines[t]
                  next == Read("read_table", t, task.lines)
              IN  IF t \in DOMAIN tab
                  THEN /\ tab' = [tab EXCEPT ![t] = [@ EXCEPT !.rsmax = line.rsmax, !.D = line.D, !.X = line.X]]
                       /\ Then(<<next>>)
                       /\ UNCHANGED <<starts, doubled, told>>
                  ELSE /\ tab' = [u \in DOMAIN tab \cup {t} |-> IF u = t THEN Entry(line) ELSE tab[u]]
                       /\ Then(IF line.X THEN <<next>> ELSE <<Task("startpm", t), next>>)
                       /\ starts' = [starts EXCEPT ![t] = 0]
                       /\ doubled' = [doubled EXCEPT ![t] = 0]
                       /\ told' = [told EXCEPT ![t] = "NOTRUNNING"]
    /\ UNCHANGED <<worldVars, procs, pmpipe, cld, faults, crossed>>

\* The loop of purge goes on behind t: an entry that is no longer in the file
\* goes, its process is told to.  SIGCLD is blocked from that to its removal.
purge ==
    /\ Doing("purge")
    /\ IF After(pm, DOMAIN tab \ DOMAIN task.lines) = {} THEN Then(<<>>) /\ UNCHANGED procs
       ELSE \E t \in After(pm, DOMAIN tab \ DOMAIN task.lines) :
              LET more == <<Drop(t, task.lines, mask)>>
              IN  IF tab[t].sstate \in {"UNKNOWN", "ENABLED", "DISABLED", "STARTING"}
                  THEN procs' = Terminated({t}) /\ GoesOn(more, mask \cup {"CLD"})
                  ELSE Then(more) /\ UNCHANGED procs
    /\ UNCHANGED <<worldVars, tab, pmpipe, cld, faults, histories>>

remove ==
    /\ Doing("remove")
    /\ tab' = [t \in DOMAIN tab \ {pm} |-> tab[t]]
    /\ GoesOn(<<Read("purge", pm, task.lines)>>, task.mask)
    /\ crossed' = crossed \ {pm}
    /\ UNCHANGED <<worldVars, procs, pmpipe, cld, faults, starts, doubled, told>>

-----------------------------------------------------------------------------
(***************************************************************************)
(* misc.c: the commands of sacadm                                          *)
(***************************************************************************)

\* AC_START, for a port monitor that does not run.
ac_start(t) ==
    IF tab[t].sstate \in {"FAILED", "NOTRUNNING"}
    THEN /\ tab' = [tab EXCEPT ![t].rscnt = 0]
         /\ starts' = [starts EXCEPT ![t] = 0]
         /\ doubled' = [doubled EXCEPT ![t] = Cardinality(Pending(Len(stack), {"count", "startpm", "fork"}, t))]
         /\ Handle("POLL", <<Task("startpm", t)>>)
    ELSE Handle("POLL", <<>>) /\ UNCHANGED <<tab, starts, doubled>>

\* AC_KILL.  SIGALRM and SIGCLD are blocked, so that the rest is one step;
\* nothing changes when the signal cannot be sent.
ac_kill(t) ==
    Handle("POLL", IF tab[t].sstate \in {"STARTING", "ENABLED", "DISABLED"}
                   THEN <<Task("terminate", t)>> ELSE <<>>)

terminate ==
    /\ Doing("terminate")
    /\ IF checklock(pm) = 0 THEN UNCHANGED <<tab, procs, told, crossed>>
       ELSE /\ procs' = Terminated({pm})
            /\ tab' = [tab EXCEPT ![pm] = [@ EXCEPT !.lstate = "NOTRUNNING", !.sstate = "NOTRUNNING",
                                                     !.pstate = "STOPPING"]]
            /\ told' = [told EXCEPT ![pm] = "NOTRUNNING"]
            /\ Cross(pm)
    /\ Then(<<>>)
    /\ UNCHANGED <<worldVars, pmpipe, cld, faults, starts, doubled>>

\* AC_ENABLE (to = "ENABLED") and AC_DISABLE.
ac_able(t, to, msg) ==
    LET e == tab[t] IN
    /\ Handle("POLL", IF e.sstate \in {"STARTING", "ENABLED", "DISABLED"} \ {to}
                      THEN <<Set(t, <<"sstate", "lstate">>, to), Send(t, msg)>> ELSE <<>>)
    /\ told' = IF e.sstate = to THEN [told EXCEPT ![t] = to] ELSE told

\* AC_PMREAD.
ac_pmread(t) ==
    Handle("POLL", IF tab[t].sstate \in {"STARTING", "ENABLED", "DISABLED"}
                   THEN <<Send(t, "SC_READDB")>> ELSE <<>>)

\* The tags that interrupted handlers are about.
InHand == UNION {{stack[i].todo[k].tag : k \in DOMAIN stack[i].todo} : i \in DOMAIN stack}

\* AC_SACREAD.  An entry that is purged while an interrupted handler is about
\* it is memory used after it was freed: that is left out, and so is a second
\* read_table inside of one.
ac_sacread(lines) ==
    /\ InHand \cap (DOMAIN tab \ DOMAIN lines) = {}
    /\ \A i \in DOMAIN stack : Last(stack[i].todo).do \notin {"read_table", "purge", "remove"}
    /\ Handle("POLL", <<Read("read_table", 0, lines)>>)

\* SIGPOLL: the next command of sacadm.  A tag that is not in the table is
\* answered AK_NOPM.
sigpoll ==
    /\ given < Len(scenario.commands)
    /\ given' = given + 1
    /\ Faults(Nested)
    /\ LET c == scenario.commands[given + 1]
           known == c.tag \in DOMAIN tab
       IN  /\ file' = IF c.type = "SACREAD" THEN scenario.tables[1 + Reads(scenario, given + 1)] ELSE file
           /\ CASE c.type = "SACREAD" -> ac_sacread(file')
                [] c.type # "SACREAD" /\ ~known -> Handle("POLL", <<>>)
                [] known /\ c.type = "START" -> ac_start(c.tag)
                [] known /\ c.type = "KILL" -> ac_kill(c.tag)
                [] known /\ c.type = "ENABLE" -> ac_able(c.tag, "ENABLED", "SC_ENABLE")
                [] known /\ c.type = "DISABLE" -> ac_able(c.tag, "DISABLED", "SC_DISABLE")
                [] known /\ c.type = "PMREAD" -> ac_pmread(c.tag)
           /\ IF known /\ c.type = "START" THEN TRUE ELSE UNCHANGED <<tab, starts, doubled>>
           /\ IF known /\ c.type \in {"ENABLE", "DISABLE"} THEN TRUE ELSE UNCHANGED told
    /\ UNCHANGED <<scenario, running, sacpipe, procs, pmpipe, cld, crossed>>

-----------------------------------------------------------------------------
(***************************************************************************)
(* The port monitors, and the faults of the environment.  They run beside  *)
(* sac; where no handler is interrupted it does not matter at which of its *)
(* tasks, and they wait.                                                   *)
(***************************************************************************)
Beside == Idle \/ "nest" \in scenario.kinds

outside == <<scenario, running, tab, file, stack, mask, given, histories>>

\* A port monitor locks its _pid file, or ends because another one holds it.
PmBoot ==
    /\ Beside
    /\ \E p \in DOMAIN procs :
          /\ procs[p].st = "boot"
          /\ IF checklock(procs[p].tag) = 0
             THEN procs' = [procs EXCEPT ![p].st = "up"] /\ UNCHANGED cld
             ELSE Ends(p)
    /\ UNCHANGED <<outside, pmpipe, sacpipe, faults>>

\* It obeys a message and reports its state.
PmAnswer ==
    /\ Beside
    /\ \E p \in DOMAIN procs :
          LET t == procs[p].tag
              mode == CASE procs[p].st = "term" -> "STOPPING"
                        [] procs[p].st = "up" /\ pmpipe[t][1] = "SC_ENABLE" -> "ENABLED"
                        [] procs[p].st = "up" /\ pmpipe[t][1] = "SC_DISABLE" -> "DISABLED"
                        [] OTHER -> procs[p].mode
          IN  /\ procs[p].st \in {"up", "term"}
              /\ pmpipe[t] # <<>>
              /\ pmpipe' = [pmpipe EXCEPT ![t] = Tail(@)]
              /\ procs' = [procs EXCEPT ![p].mode = mode]
              /\ sacpipe' = Append(sacpipe, [tag |-> t, state |-> mode])
    /\ UNCHANGED <<outside, cld, faults>>

\* It exits, as a signal told it to.
PmExit ==
    /\ Beside
    /\ \E p \in DOMAIN procs : procs[p].st \in {"term", "kill"} /\ Ends(p)
    /\ UNCHANGED <<outside, pmpipe, sacpipe, faults>>

PmFails ==
    /\ Beside
    /\ \E p \in DOMAIN procs :
          /\ procs[p].st = "up"
          /\ \/ Faults({"die"}) /\ Ends(p)
             \/ Faults({"hang"}) /\ procs' = [procs EXCEPT ![p].st = "hung"] /\ UNCHANGED cld
    /\ UNCHANGED <<outside, pmpipe, sacpipe>>

\* sac dies: init inherits its children.  Only where port monitors may be slow
\* has one of them not locked its _pid file yet.
SacCrash ==
    /\ running
    /\ Faults({"crash"})
    /\ "slow" \in scenario.kinds \/ \A p \in DOMAIN procs : procs[p].st # "boot"
    /\ running' = FALSE
    /\ procs' = [p \in DOMAIN procs |->
                   [procs[p] EXCEPT !.child = FALSE, !.st = IF @ = "zombie" THEN "none" ELSE @]]
    /\ cld' = FALSE
    /\ stack' = <<>>
    /\ mask' = {}
    /\ UNCHANGED <<scenario, tab, file, pmpipe, sacpipe, given, histories>>

-----------------------------------------------------------------------------
Init ==
    /\ scenario \in Scenarios
    /\ running = FALSE
    /\ tab = <<>>
    /\ file = scenario.tables[1]
    /\ procs = <<>>
    /\ pmpipe = [t \in Tags(scenario) |-> <<>>]
    /\ sacpipe = <<>>
    /\ cld = FALSE
    /\ stack = <<>>
    /\ mask = {}
    /\ given = 0
    /\ faults = 0
    /\ starts = [t \in Tags(scenario) |-> 0]
    /\ doubled = [t \in Tags(scenario) |-> 0]
    /\ told = [t \in Tags(scenario) |-> "NOTRUNNING"]
    /\ crossed = {}

\* A handler, or the main program at work, goes on.
Work ==
    \/ startpm \/ fork \/ starting \/ started \/ SetState
    \/ pollfail \/ stopped \/ kill \/ check \/ count \/ close \/ restore
    \/ pollpms \/ sendpmmsg \/ SetOk
    \/ startpms \/ startall
    \/ read_table \/ purge \/ remove \/ terminate

Next ==
    \/ SacStart \/ Work \/ Alarm \/ Reap \/ readpipe \/ sigpoll
    \/ PmBoot \/ PmAnswer \/ PmExit
    \/ PmFails \/ SacCrash

\* When a poll changes something, and when a child can be waited for.
AlarmDue ==
    /\ running /\ Idle /\ Calm /\ "ALRM" \notin mask
    /\ \E t \in DOMAIN tab : tab[t].pstate \notin {"NOTRUNNING", "FAILED"}
ReapDue == running /\ Idle /\ cld /\ "CLD" \notin mask

\* init keeps sac running, a handler goes on, the alarm comes, signals and
\* messages are taken, and port monitors go on: weak fairness of each of these
\* actions (for three of them ENABLED is written out).  Commands, faults and
\* signals that interrupt a handler need not come.
Fairness ==
    /\ []<>running \/ []<><<SacStart>>_vars
    /\ []<>~AlarmDue \/ []<><<Alarm>>_vars
    /\ []<>~ReapDue \/ []<><<Reap>>_vars
    /\ []<>(Idle \/ ~running) \/ []<><<Work>>_vars
    /\ WF_vars(readpipe)
    /\ WF_vars(PmBoot)
    /\ WF_vars(PmAnswer)
    /\ WF_vars(PmExit)

Spec == Init /\ [][Next]_vars /\ Fairness

-----------------------------------------------------------------------------
(***************************************************************************)
(* Properties.                                                             *)
(***************************************************************************)

\* The most restarts that any contents of _sactab allow t: a SACREAD may lower
\* rsmax below what was used already.
MostRestarts(t) ==
    Max({scenario.tables[i][t].rsmax :
            i \in {k \in DOMAIN scenario.tables : t \in DOMAIN scenario.tables[k]}})

EntryType(t, e) ==
    /\ {e.sstate, e.pstate} \subseteq State
    /\ e.lstate \in {"ENABLED", "DISABLED", "NOTRUNNING"}
    /\ e.rscnt \in 0..(MostRestarts(t) + doubled[t])
    /\ e.pid \in 0..Len(procs)

\* The variables have their types; sc_lstate has one of the three values that
\* readpipe's comment allows it, and sc_rscnt passes sc_rsmax by no more than
\* the restarts that two handlers decided on at once.
TypeOK ==
    /\ DOMAIN tab \subseteq Tags(scenario)
    /\ \A t \in DOMAIN tab : EntryType(t, tab[t])
    /\ \A p \in DOMAIN procs : procs[p].st \in Alive \cup {"zombie", "none"}
    /\ mask \subseteq Signals
    /\ faults \in 0..scenario.most

\* A port monitor is started once and then restarted at most rsmax times,
\* however its deaths, poll failures and the locks of dying processes follow
\* each other, until it is told to start again (pollfail, AC_START).  pollfail
\* counts a restart after it has looked whether one is left, and reap does not
\* block SIGALRM: each time a handler decides to start a port monitor while an
\* interrupted one is about to, there may be one more.
RestartLimit == \A t \in DOMAIN tab : starts[t] <= MostRestarts(t) + 1 + doubled[t]

\* When sac and a port monitor agree that it is enabled or disabled, and no
\* handler and no message is under way, it is: also after restarts, and with answers of dead
\* port monitors still in the pipe (pollpms, readpipe).  One that sac cannot
\* kill because it has not locked its _pid file yet, when a poll or a new sac
\* comes too early, may take the messages of its successor; a later poll sets
\* that right (Settles).
Agreement ==
    \A t \in DOMAIN tab :
        /\ running /\ Idle
        /\ scenario.kinds \cap {"slow", "nest"} = {}
        /\ sacpipe = <<>>
        /\ pmpipe[t] = <<>>
        /\ tab[t].sstate = tab[t].pstate
        /\ tab[t].sstate \in {"ENABLED", "DISABLED"}
        => \A p \in Running(t) : procs[p].st = "up" => procs[p].mode = tab[t].sstate

\* The state that the flag in the file asks for.
Flag(e) == IF e.D THEN "DISABLED" ELSE "ENABLED"

\* The line of t keeps its flag, and a recovering sac opens its pipe.
Steady(t) ==
    /\ \A i \in DOMAIN scenario.tables :
          t \in DOMAIN scenario.tables[i] /\ scenario.tables[i][t].D = scenario.tables[1][t].D
    /\ "nopipe" \notin scenario.kinds

MayEnd(t) ==
    \E i \in 1..Len(scenario.commands) : scenario.commands[i] = [tag |-> t, type |-> "KILL"]

\* A port monitor that was enabled or disabled is brought up again in that
\* state, whatever happens to it, unless it failed ("sc_lstate is used if a
\* port monitor dies to restart it in the state in which it was last running").
\* One that may be told to stop comes back so only in the state of its flag: an
\* answer STOPPING of the one that was killed may be taken for its successor's,
\* whose sc_lstate pollfail then forgets (readpipe).  And the order of its state
\* and of sc_lstate by sigpoll, startpm, pollfail or readpipe must not have been
\* interrupted by another one: an AC_DISABLE that is acknowledged is lost when
\* SIGCLD comes between the two assignments, or when it comes itself after
\* startpm has looked at sc_lstate.
KeepsState ==
    \A t \in DOMAIN tab :
        /\ Steady(t)
        /\ t \notin crossed
        /\ told[t] \in {"ENABLED", "DISABLED"}
        /\ MayEnd(t) => told[t] = Flag(tab[t])
        => tab[t].sstate \in {told[t], "FAILED"}

\* The entry shows what is: the port monitor runs in the state it should be
\* in, or it does not run and is not shown to.  (A recovering sac that read a
\* report STOPPING takes it for the state it should be in, and stays so.)
Settled(t) ==
    \/ /\ tab[t].sstate \in {tab[t].pstate, "STOPPING"}
       /\ tab[t].pstate \in {"ENABLED", "DISABLED"}
       /\ \E p \in Running(t) : procs[p].st = "up" /\ procs[p].mode = tab[t].pstate
    \/ /\ tab[t].pstate \in {"NOTRUNNING", "FAILED"}
       /\ \A p \in Running(t) : procs[p].st = "hung"

\* No death or hang goes unnoticed for ever, even when SIGCLD is lost or
\* blocked: once commands and faults cease every port monitor settles.  (One
\* that was too slow to lock its _pid file may be left running unnoticed, and
\* so may one that a handler starts while an interrupted one is about to start
\* or to give up the same port monitor.)
Settles ==
    <>[](\/ scenario.kinds \cap {"slow", "nest"} # {}
         \/ running /\ \A t \in DOMAIN tab : Settled(t))
=============================================================================
