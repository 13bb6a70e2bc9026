------------------------------ MODULE UuCntrl -------------------------------
(***************************************************************************)
(* The conversations of two uucicos: cntrl.c (master and slave), the work  *)
(* queue of anlwrk.c, grddata and gwrdata of gio.c, and xmv of cpmv.c.     *)
(*                                                                         *)
(* Two machines call each other, again after a conversation has failed.    *)
(* One uucico of each takes part; the line below them keeps the order of   *)
(* what it delivers (PkConversation is about that), but it may break, and  *)
(* a uucico may be killed.  What is on disk stays: the C. files and their  *)
(* bookmarks, the D. files, the P. files of interrupted transfers and the  *)
(* files delivered.                                                        *)
(*                                                                         *)
(* A file is a sequence of units, the file of job j being 1, 2, ... len.   *)
(***************************************************************************)
EXTENDS Integers, SequencesExt, FiniteSetsExt

CONSTANTS
    BUFSIZ,        \* the size of the blocks of a file
    Scenarios      \* what may happen: see ScenarioType

ASSUME BufAssumption == BUFSIZ \in Nat \ {0}

VARIABLES
    scenario,      \* the scenario of this behaviour
    queue,         \* machine -> its C. files, in order, each a sequence of jobs
    mark,          \* machine -> the bookmark (A. file) of its first C. file
    dfiles,        \* the jobs whose D. file exists
    pfile,         \* job -> the file it is received in
    dest,          \* job -> the file delivered, or NoFile
    linked,        \* the jobs whose P. file and delivered file are one file
    cico,          \* machine -> its uucico
    wire,          \* machine -> the messages on their way to it
    up,            \* does the line work?
    faults,        \* kind -> faults of it that may still happen
    told           \* history: job -> what its user was told last, or "log"

vars == <<scenario, queue, mark, dfiles, pfile, dest, linked, cico, wire, up, faults, told>>
fileVars == <<pfile, dest, linked>>
workVars == <<queue, mark>>

Machine == {1, 2}
Peer(m) == 3 - m
NoFile == <<0>>

\* jobs: at (the machine that has it), type, len, spooled (S: a D. file was
\* made), orig (S: the original can be read), refuse (who refuses it), statf
\* (option o, a status file instead of mail).
\* files: machine -> its C. files.  restart: both ends know checkpoints.
\* switch: a slave may become master (SENDFILES).  faults: kind -> how many
\* faults of this kind may happen.
Kinds == {"break", "kill", "killmove", "killmark", "short", "full", "ulimit", "notmp", "nomove"}
JobType == [at : Machine, type : {"S", "R"}, len : Nat, spooled : BOOLEAN, orig : BOOLEAN,
            refuse : {"no", "here", "there"}, statf : BOOLEAN]
\* A job is a line of one of the C. files q; no two lines are the same job.
HasLine(q, j) == \E i \in DOMAIN q : \E k \in DOMAIN q[i] : q[i][k] = j
OncePerJob(q) ==
    \A i, h \in DOMAIN q : \A k \in DOMAIN q[i], l \in DOMAIN q[h] :
        q[i][k] = q[h][l] => i = h /\ k = l
ScenarioType(s) ==
    /\ s \in [jobs : Seq(JobType), files : [Machine -> Seq(Seq(Nat))], restart : BOOLEAN,
              switch : BOOLEAN, faults : [Kinds -> Nat]]
    /\ \A m \in Machine : \A i \in DOMAIN s.files[m] :
          /\ s.files[m][i] # <<>>
          /\ \A k \in DOMAIN s.files[m][i] :
                s.files[m][i][k] \in DOMAIN s.jobs /\ s.jobs[s.files[m][i][k]].at = m
    /\ \A j \in DOMAIN s.jobs : HasLine(s.files[s.jobs[j].at], j)
    /\ \A m \in Machine : OncePerJob(s.files[m])

ASSUME ScenarioAssumption == \A s \in Scenarios : ScenarioType(s)

Job(j) == scenario.jobs[j]
Jobs == DOMAIN scenario.jobs
Whole(j) == [i \in 1..Job(j).len |-> i]

\* A received file whose transfer can go on from a checkpoint: it has a P.
\* name.  The others are TM files, new for each attempt.
Checkpointed(j) == scenario.restart /\ (Job(j).type = "R" \/ Job(j).spooled)

\* pc: none, top, reply (RMESG after a request), hup (RMESG after "HY"),
\* wrdata, rddata, stored (rddata has returned), cmpt (waits for RQSTCMPT).
\* pos: lines read of the open C. file, or -1; at: where Wrdata reads; size:
\* actualsize; ret: what Rddata is going to return.
None == [pc |-> "none", role |-> "SLAVE", pos |-> -1, job |-> 0, at |-> 0, size |-> 0, ret |-> "ok"]

Msg(t, a, j, n) == [t |-> t, a |-> a, job |-> j, n |-> n, data |-> <<>>]
Block(d) == [t |-> "D", a |-> "", job |-> 0, n |-> 0, data |-> d]

May(kind) == faults[kind] > 0

-----------------------------------------------------------------------------
(***************************************************************************)
(* Steps on the line.                                                      *)
(***************************************************************************)

\* The uucico at m sends msg and goes on as c; if the line is down it returns
\* FAIL (WMESG).
Sends(m, msg, c) ==
    /\ wire' = IF up THEN [wire EXCEPT ![Peer(m)] = Append(@, msg)] ELSE wire
    /\ cico' = [cico EXCEPT ![m] = IF up THEN c ELSE None]
    /\ UNCHANGED up

\* It takes the next message, sends an answer and goes on as c.
Answers(m, msg, c) ==
    /\ wire' = IF up THEN [wire EXCEPT ![m] = Tail(@), ![Peer(m)] = Append(@, msg)]
               ELSE [wire EXCEPT ![m] = Tail(@)]
    /\ cico' = [cico EXCEPT ![m] = IF up THEN c ELSE None]
    /\ UNCHANGED up

\* It takes the next message and goes on as c.
Takes(m, c) ==
    /\ wire' = [wire EXCEPT ![m] = Tail(@)]
    /\ cico' = [cico EXCEPT ![m] = c]
    /\ UNCHANGED up

\* It ends and the line goes down: (*Turnoff)(), return(FAIL).
Ends(m) ==
    /\ cico' = [cico EXCEPT ![m] = None]
    /\ wire' = [wire EXCEPT ![m] = <<>>]
    /\ up' = FALSE

\* The message that the uucico at m, being at pc, reads next.
Gets(m, pc, t) ==
    /\ cico[m].pc = pc
    /\ wire[m] # <<>>
    /\ Head(wire[m]).t = t

Fault(kind) == faults' = [faults EXCEPT ![kind] = @ - 1]
NoFault == faults' = faults

-----------------------------------------------------------------------------
(***************************************************************************)
(* anlwrk.c                                                                *)
(***************************************************************************)

\* gtwvec: the next line to work on (job; 0: there is none), and the C. files,
\* the bookmark and the position after that.  The bookmark counts the lines
\* before this one.
\* Mutant: the bookmark counts this line too.
gtwvec_Early(q, k, pos) ==
    LET p == IF pos = -1 THEN k ELSE pos
        rest == IF q # <<>> /\ p >= Len(q[1]) THEN Tail(q) ELSE q
        i == IF rest = q THEN p ELSE 0
    IN  IF rest = <<>> THEN [queue |-> rest, mark |-> 0, pos |-> -1, job |-> 0]
        ELSE [queue |-> rest, mark |-> i + 1, pos |-> i + 1, job |-> rest[1][i + 1]]

gtwvec(q, k, pos) ==
    LET p == IF pos = -1 THEN k ELSE pos
        rest == IF q # <<>> /\ p >= Len(q[1]) THEN Tail(q) ELSE q
        i == IF rest = q THEN p ELSE 0
    IN  IF rest = <<>> THEN [queue |-> rest, mark |-> 0, pos |-> -1, job |-> 0]
        ELSE [queue |-> rest, mark |-> i, pos |-> i + 1, job |-> rest[1][i + 1]]

iswrk(m) == queue[m] # <<>>

-----------------------------------------------------------------------------
(***************************************************************************)
(* cntrl.c                                                                 *)
(***************************************************************************)

\* The file job j is received in when it has been opened, and where to start.
Opened(j) == IF Checkpointed(j) THEN pfile[j] ELSE <<>>
\* Mutant: the point is not rounded down to a block.
StartPoint_Exact(j) == Len(Opened(j))
StartPoint(j) == Len(Opened(j)) - (Len(Opened(j)) % BUFSIZ)

Open(j) ==
    /\ pfile' = [pfile EXCEPT ![j] = Opened(j)]
    /\ linked' = IF Checkpointed(j) THEN linked ELSE linked \ {j}
    /\ UNCHANGED dest

\* The file job j is received in is unlinked.
Unlinked(j) ==
    /\ pfile' = [pfile EXCEPT ![j] = <<>>]
    /\ linked' = linked \ {j}

\* The master cannot ask for job j: it may not, or it can read neither the D.
\* file nor the original.
Hopeless(j) == Job(j).refuse = "here" \/ (Job(j).type = "S" /\ j \notin dfiles /\ ~Job(j).orig)

\* notify and lnotify mail the user.  With statfopt they call stmesg instead,
\* which tells the log that it was called, and the user nothing.
Tell(j, what) == told' = [told EXCEPT ![j] = IF Job(j).statf THEN "log" ELSE what]

\* top of cntrl, as master: get work and send the request, or tell the user
\* why not and get the next, or ask the slave whether to hang up.
MasterTop(m) ==
    /\ cico[m].pc = "top"
    /\ cico[m].role = "MASTER"
    /\ LET w == gtwvec(queue[m], mark[m], cico[m].pos)
           j == w.job
           next == [cico[m] EXCEPT !.pc = "reply", !.pos = w.pos, !.job = j]
       IN  /\ queue' = [queue EXCEPT ![m] = w.queue]
           /\ mark' = [mark EXCEPT ![m] = w.mark]
           /\ \/ /\ j = 0
                 /\ Sends(m, Msg("H", "", 0, 0), next)
                 /\ UNCHANGED <<dfiles, told, fileVars>>
              \/ /\ j # 0 /\ Hopeless(j)
                 /\ cico' = [cico EXCEPT ![m] = [next EXCEPT !.pc = "top"]]
                 /\ dfiles' = dfiles \ {j}
                 /\ Tell(j, "fail")
                 /\ UNCHANGED <<wire, up, fileVars>>
              \/ /\ j # 0 /\ ~Hopeless(j) /\ Job(j).type = "S"
                 /\ Sends(m, Msg("S", "", j, Job(j).len), next)
                 /\ UNCHANGED <<dfiles, told, fileVars>>
              \/ /\ j # 0 /\ ~Hopeless(j) /\ Job(j).type = "R"
                 /\ Open(j)
                 /\ Sends(m, Msg("R", "", j, StartPoint(j)), next)
                 /\ UNCHANGED <<dfiles, told>>
    /\ NoFault
    /\ UNCHANGED scenario

\* top of cntrl, as master: there is no room for the file asked for (an assert
\* ends uucico).
MasterNoRoom(m) ==
    /\ cico[m].pc = "top"
    /\ cico[m].role = "MASTER"
    /\ May("notmp")
    /\ LET w == gtwvec(queue[m], mark[m], cico[m].pos)
       IN  /\ w.job # 0 /\ Job(w.job).type = "R" /\ ~Hopeless(w.job)
           /\ queue' = [queue EXCEPT ![m] = w.queue]
           /\ mark' = [mark EXCEPT ![m] = w.mark]
           /\ Unlinked(w.job)
    /\ Ends(m)
    /\ Fault("notmp")
    /\ UNCHANGED <<scenario, dfiles, dest, told>>

\* HUP, as slave: switch roles if there is work, else let us quit.
SlaveHup(m) ==
    /\ Gets(m, "top", "H")
    /\ cico[m].role = "SLAVE"
    /\ \/ /\ scenario.switch /\ iswrk(m)
          /\ Answers(m, Msg("H", "N", 0, 0), [cico[m] EXCEPT !.role = "MASTER"])
       \/ /\ ~(scenario.switch /\ iswrk(m))
          /\ Answers(m, Msg("H", "Y", 0, 0), [cico[m] EXCEPT !.pc = "hup"])
    /\ NoFault
    /\ UNCHANGED <<scenario, workVars, dfiles, fileVars, told>>

\* HUP with an answer: "HY" is answered and cntrl returns, "HN" makes a slave.
\* Mutant: the master stays master.
HupAnswered_Stays(m) ==
    /\ Gets(m, "reply", "H") \/ Gets(m, "hup", "H")
    /\ IF Head(wire[m]).a = "Y" THEN Answers(m, Msg("H", "Y", 0, 0), None)
       ELSE Takes(m, [cico[m] EXCEPT !.pc = "top"])
    /\ NoFault
    /\ UNCHANGED <<scenario, workVars, dfiles, fileVars, told>>
HupAnswered(m) ==
    /\ Gets(m, "reply", "H") \/ Gets(m, "hup", "H")
    /\ IF Head(wire[m]).a = "Y" THEN Answers(m, Msg("H", "Y", 0, 0), None)
       ELSE Takes(m, [cico[m] EXCEPT !.pc = "top", !.role = "SLAVE"])
    /\ NoFault
    /\ UNCHANGED <<scenario, workVars, dfiles, fileVars, told>>

\* SNDFILE, as slave: refuse, have no room for a file, or open one.
SlaveSndfile(m) ==
    /\ Gets(m, "top", "S")
    /\ cico[m].role = "SLAVE"
    /\ LET j == Head(wire[m]).job
       IN  \/ /\ Job(j).refuse = "there"
              /\ Answers(m, Msg("S", "N2", j, 0), cico[m])
              /\ NoFault
              /\ UNCHANGED fileVars
           \/ /\ Job(j).refuse # "there" /\ May("notmp")
              /\ Answers(m, Msg("S", "N4", j, 0), cico[m])
              /\ Unlinked(j)
              /\ Fault("notmp")
              /\ UNCHANGED dest
           \/ /\ Job(j).refuse # "there"
              /\ Open(j)
              /\ Answers(m, Msg("S", "Y", j, StartPoint(j)),
                         [cico[m] EXCEPT !.pc = "rddata", !.job = j, !.size = Head(wire[m]).n, !.ret = "ok"])
              /\ NoFault
    /\ UNCHANGED <<scenario, workVars, dfiles, told>>

\* SNDFILE with an answer, as master.  When the slave has no room ("N4") the
\* user is told, and then an ASSERT ends uucico.
SndfileAnswered(m) ==
    /\ Gets(m, "reply", "S")
    /\ LET j == cico[m].job
           a == Head(wire[m]).a
       IN  \/ /\ a = "Y"
              /\ Takes(m, [cico[m] EXCEPT !.pc = "wrdata", !.at = Head(wire[m]).n])
              /\ UNCHANGED <<dfiles, told>>
           \/ /\ a = "N2"
              /\ Tell(j, "fail")
              /\ dfiles' = dfiles \ {j}
              /\ Takes(m, [cico[m] EXCEPT !.pc = "top"])
           \/ /\ a = "N4"
              /\ Tell(j, "fail")
              /\ Ends(m)
              /\ UNCHANGED dfiles
    /\ NoFault
    /\ UNCHANGED <<scenario, workVars, fileVars>>

\* RCVFILE, as slave: refuse, or send the file from the point asked for.
SlaveRcvfile(m) ==
    /\ Gets(m, "top", "R")
    /\ cico[m].role = "SLAVE"
    /\ LET j == Head(wire[m]).job
       IN  IF Job(j).refuse = "there" THEN Answers(m, Msg("R", "N2", j, 0), cico[m])
           ELSE Answers(m, Msg("R", "Y", j, Job(j).len),
                        [cico[m] EXCEPT !.pc = "wrdata", !.job = j,
                                        !.at = IF scenario.restart THEN Head(wire[m]).n ELSE 0])
    /\ NoFault
    /\ UNCHANGED <<scenario, workVars, dfiles, fileVars, told>>

\* RCVFILE with an answer, as master.
RcvfileAnswered(m) ==
    /\ Gets(m, "reply", "R")
    /\ LET j == cico[m].job
       IN  IF Head(wire[m]).a = "Y"
           THEN /\ Takes(m, [cico[m] EXCEPT !.pc = "rddata", !.size = Head(wire[m]).n, !.ret = "ok"])
                /\ UNCHANGED <<told, fileVars>>
           ELSE /\ Takes(m, [cico[m] EXCEPT !.pc = "top"])
                /\ Tell(j, "fail")
                /\ Unlinked(j)
                /\ UNCHANGED dest
    /\ NoFault
    /\ UNCHANGED <<scenario, workVars, dfiles>>

\* Wrdata: the next block; the last one is shorter than BUFSIZ.
Wrdata(m) ==
    /\ cico[m].pc = "wrdata"
    /\ LET c == cico[m]
           d == SubSeq(Whole(c.job), c.at + 1, Min({c.at + BUFSIZ, Job(c.job).len}))
       IN  Sends(m, Block(d), IF Len(d) < BUFSIZ THEN [c EXCEPT !.pc = "cmpt"]
                              ELSE [c EXCEPT !.at = @ + BUFSIZ])
    /\ NoFault
    /\ UNCHANGED <<scenario, workVars, dfiles, fileVars, told>>

\* d is appended to the file that job j is received in.
Appended(j, d) ==
    /\ pfile' = [pfile EXCEPT ![j] = @ \o d]
    /\ dest' = IF j \in linked THEN [dest EXCEPT ![j] = @ \o d] ELSE dest
    /\ UNCHANGED linked

\* Rddata: a block is written, unless a write failed before.  After a short
\* write ret is whatever errno was, which may be 0.
Rddata(m) ==
    /\ Gets(m, "rddata", "D")
    /\ LET c == cico[m]
           d == Head(wire[m]).data
           Goes(r) == Takes(m, [c EXCEPT !.ret = r, !.pc = IF Len(d) < BUFSIZ THEN "stored" ELSE @])
       IN  \/ /\ c.ret = "ok"
              /\ Appended(c.job, d)
              /\ Goes("ok")
              /\ NoFault
           \/ /\ c.ret # "ok"
              /\ Goes(c.ret)
              /\ NoFault
              /\ UNCHANGED fileVars
           \/ /\ c.ret = "ok"
              /\ \E k \in 0..(Len(d) - 1) :
                    /\ Appended(c.job, SubSeq(d, 1, k))
                    /\ \/ k > 0 /\ May("short") /\ Fault("short") /\ Goes("ok")
                       \/ May("full") /\ Fault("full") /\ Goes("fail")
                       \/ May("ulimit") /\ Fault("ulimit") /\ Goes("big")
    /\ UNCHANGED <<scenario, workVars, dfiles, told>>

\* Rddata has failed, but for EFBIG.
StoreFailed(m) ==
    /\ cico[m].pc = "stored"
    /\ cico[m].ret = "fail"
    /\ Ends(m)
    /\ NoFault
    /\ UNCHANGED <<scenario, workVars, dfiles, fileVars, told>>

\* EFBIG: the other end is told; nobody else.
StoreTooBig(m) ==
    /\ cico[m].pc = "stored"
    /\ cico[m].ret = "big"
    /\ Sends(m, Msg("C", "N10", cico[m].job, 0), [cico[m] EXCEPT !.pc = "top"])
    /\ NoFault
    /\ UNCHANGED <<scenario, workVars, dfiles, fileVars, told>>

\* Mutant: the size is not compared.
WrongSize_Ignored(c) == FALSE
WrongSize(c) == scenario.restart /\ Len(pfile[c.job]) # c.size

\* RECEIVED SIZE NOT EQUAL TO ACTUAL SIZE.
\* Mutant: the file is kept.
StoreWrongSize_Keeps(m) ==
    /\ cico[m].pc = "stored"
    /\ cico[m].ret = "ok"
    /\ WrongSize(cico[m])
    /\ Ends(m)
    /\ NoFault
    /\ UNCHANGED <<scenario, workVars, dfiles, fileVars, told>>
StoreWrongSize(m) ==
    /\ cico[m].pc = "stored"
    /\ cico[m].ret = "ok"
    /\ WrongSize(cico[m])
    /\ Unlinked(cico[m].job)
    /\ Ends(m)
    /\ NoFault
    /\ UNCHANGED <<scenario, workVars, dfiles, dest, told>>

\* The file is moved in place (xmv) and the other end told; a master also
\* tells its user.  If it cannot be moved it goes to the public directory.
Store(m) ==
    /\ cico[m].pc = "stored"
    /\ cico[m].ret = "ok"
    /\ ~WrongSize(cico[m])
    /\ LET j == cico[m].job
       IN  \E moved \in BOOLEAN :
              /\ moved \/ May("nomove")
              /\ dest' = [dest EXCEPT ![j] = IF moved THEN pfile[j] ELSE NoFile]
              /\ Unlinked(j)
              /\ Sends(m, Msg("C", IF moved THEN "Y" ELSE "N5", j, 0), [cico[m] EXCEPT !.pc = "top"])
              /\ IF up /\ cico[m].role = "MASTER" THEN Tell(j, IF moved THEN "ok" ELSE "fail")
                 ELSE UNCHANGED told
              /\ IF moved THEN NoFault ELSE Fault("nomove")
    /\ UNCHANGED <<scenario, workVars, dfiles>>

\* RQSTCMPT, after the data: a master unlinks the D. file and tells the user.
Cmpt(m) ==
    /\ Gets(m, "cmpt", "C")
    /\ LET j == cico[m].job
       IN  IF cico[m].role = "MASTER"
           THEN /\ dfiles' = dfiles \ {j}
                /\ Tell(j, IF Head(wire[m]).a = "Y" THEN "ok" ELSE "fail")
           ELSE UNCHANGED <<dfiles, told>>
    /\ Takes(m, [cico[m] EXCEPT !.pc = "top"])
    /\ NoFault
    /\ UNCHANGED <<scenario, workVars, fileVars>>

\* A read or a write fails because the line is down: cntrl returns FAIL.
HungUp(m) ==
    /\ ~up
    /\ wire[m] = <<>>
    /\ cico[m].pc \in {"reply", "hup", "rddata", "cmpt"} \/ (cico[m].pc = "top" /\ cico[m].role = "SLAVE")
    /\ cico' = [cico EXCEPT ![m] = None]
    /\ NoFault
    /\ UNCHANGED <<scenario, workVars, dfiles, fileVars, wire, up, told>>

\* rmesg: a message that is not the one expected.
Expected(m) ==
    CASE cico[m].pc = "top" /\ cico[m].role = "SLAVE" -> {"H", "S", "R"}
      [] cico[m].pc = "reply" -> {IF cico[m].job = 0 THEN "H" ELSE Job(cico[m].job).type}
      [] cico[m].pc = "hup" -> {"H"}
      [] cico[m].pc = "rddata" -> {"D"}
      [] cico[m].pc = "cmpt" -> {"C"}
      [] OTHER -> {"H", "S", "R", "D", "C"}

-----------------------------------------------------------------------------
(***************************************************************************)
(* Calls and faults.                                                       *)
(***************************************************************************)

\* The machine m calls the other, also when it has no work (polling).
Call(m) ==
    /\ \A k \in Machine : cico[k].pc = "none"
    /\ up' = TRUE
    /\ wire' = [k \in Machine |-> <<>>]
    /\ cico' = [k \in Machine |->
                  [None EXCEPT !.pc = "top", !.role = IF k = m THEN "MASTER" ELSE "SLAVE"]]
    /\ NoFault
    /\ UNCHANGED <<scenario, workVars, dfiles, fileVars, told>>

Break ==
    /\ up
    /\ May("break")
    /\ \E m \in Machine : cico[m].pc # "none"
    /\ up' = FALSE
    /\ wire' = [m \in Machine |-> <<>>]
    /\ Fault("break")
    /\ UNCHANGED <<scenario, workVars, dfiles, fileVars, cico, told>>

Kill(m) ==
    /\ cico[m].pc # "none"
    /\ May("kill")
    /\ Ends(m)
    /\ Fault("kill")
    /\ UNCHANGED <<scenario, workVars, dfiles, fileVars, told>>

\* Killed in xmv: after the old file was unlinked (and while xcp copies to a
\* temporary name); with both names linked; after xcp has put its copy in
\* place, or while it copies to the name itself, without a temporary file.
KillInMove(m) ==
    /\ cico[m].pc = "stored"
    /\ cico[m].ret = "ok"
    /\ ~WrongSize(cico[m])
    /\ May("killmove")
    /\ LET j == cico[m].job
       IN  \/ dest' = [dest EXCEPT ![j] = NoFile] /\ linked' = linked \ {j}
           \/ dest' = [dest EXCEPT ![j] = pfile[j]] /\ linked' = linked \cup {j}
           \/ /\ \E k \in 0..Len(pfile[j]) : dest' = [dest EXCEPT ![j] = SubSeq(pfile[j], 1, k)]
              /\ linked' = linked \ {j}
    /\ Ends(m)
    /\ Fault("killmove")
    /\ UNCHANGED <<scenario, workVars, dfiles, pfile, told>>

\* Killed while the bookmark is written: it is empty, which reads as 0.
KillInBookmark(m) ==
    /\ cico[m].pc = "top"
    /\ cico[m].role = "MASTER"
    /\ May("killmark")
    /\ LET w == gtwvec(queue[m], mark[m], cico[m].pos)
       IN  /\ w.job # 0
           /\ queue' = [queue EXCEPT ![m] = w.queue]
           /\ mark' = [mark EXCEPT ![m] = 0]
    /\ Ends(m)
    /\ Fault("killmark")
    /\ UNCHANGED <<scenario, dfiles, fileVars, told>>

-----------------------------------------------------------------------------
Init ==
    /\ scenario \in Scenarios
    /\ queue = scenario.files
    /\ mark = [m \in Machine |-> 0]
    /\ dfiles = {j \in Jobs : Job(j).type = "S" /\ Job(j).spooled}
    /\ pfile = [j \in Jobs |-> <<>>]
    /\ dest = [j \in Jobs |-> NoFile]
    /\ linked = {}
    /\ cico = [m \in Machine |-> None]
    /\ wire = [m \in Machine |-> <<>>]
    /\ up = FALSE
    /\ faults = scenario.faults
    /\ told = [j \in Jobs |-> "nothing"]

\* The steps of the uucico at m.
Cntrl(m) ==
    \/ MasterTop(m) \/ MasterNoRoom(m) \/ SlaveHup(m) \/ HupAnswered(m)
    \/ SlaveSndfile(m) \/ SndfileAnswered(m) \/ SlaveRcvfile(m) \/ RcvfileAnswered(m)
    \/ Wrdata(m) \/ Rddata(m)
    \/ StoreFailed(m) \/ StoreTooBig(m) \/ StoreWrongSize(m) \/ Store(m) \/ Cmpt(m)
    \/ HungUp(m)

Next ==
    \/ \E m \in Machine : Call(m) \/ Cntrl(m) \/ Kill(m) \/ KillInMove(m) \/ KillInBookmark(m)
    \/ Break

\* A uucico goes on while it can; each machine that has work calls, again and
\* again (uusched).
Fairness ==
    /\ \A m \in Machine : WF_vars(Cntrl(m))
    /\ \A m \in Machine : SF_vars(iswrk(m) /\ Call(m))

Spec == Init /\ [][Next]_vars /\ Fairness

-----------------------------------------------------------------------------
(***************************************************************************)
(* Properties.                                                             *)
(***************************************************************************)

\* The line of job j will be read (again).
Pending(j) ==
    LET q == queue[Job(j).at]
    IN  \E i \in DOMAIN q : \E k \in DOMAIN q[i] :
            q[i][k] = j /\ (i = 1 => k > mark[Job(j).at])

Cico == [pc : {"none", "top", "reply", "hup", "wrdata", "rddata", "stored", "cmpt"},
         role : {"MASTER", "SLAVE"}, pos : Nat \cup {-1}, job : Nat, at : Nat, size : Nat,
         ret : {"ok", "fail", "big"}]
Message == [t : {"H", "S", "R", "D", "C"}, a : {"", "Y", "N", "N2", "N4", "N5", "N10"},
            job : Nat, n : Nat, data : Seq(Nat)]

\* The variables have their types; transfers start at block boundaries, a
\* uucico that sends or receives a file has a job, and a bookmark is a line of
\* its C. file.
TypeOK ==
    /\ scenario \in Scenarios
    /\ queue \in [Machine -> Seq(Seq(Nat))] /\ mark \in [Machine -> Nat]
    /\ \A m \in Machine :
          /\ \A i \in DOMAIN queue[m] :
                queue[m][i] # <<>> /\ \A k \in DOMAIN queue[m][i] : queue[m][i][k] \in Jobs
          /\ queue[m] # <<>> => mark[m] < Len(queue[m][1])
    /\ cico \in [Machine -> Cico] /\ wire \in [Machine -> Seq(Message)] /\ up \in BOOLEAN
    /\ \A m \in Machine :
          /\ cico[m].job \in Jobs \cup {0}
          /\ cico[m].pc \in {"wrdata", "rddata", "stored", "cmpt"} => cico[m].job # 0
          /\ cico[m].pc = "wrdata" => cico[m].at % BUFSIZ = 0
    /\ dfiles \subseteq Jobs /\ linked \subseteq Jobs
    /\ pfile \in [Jobs -> Seq(Nat)] /\ dest \in [Jobs -> Seq(Nat)]
    /\ told \in [Jobs -> {"nothing", "ok", "fail", "log"}]
    /\ faults \in [Kinds -> Nat] /\ \A k \in Kinds : faults[k] <= scenario.faults[k]

\* Faults of a kind that have happened.
Had(kind) == scenario.faults[kind] - faults[kind]

\* The size check sees what has happened: a write that failed in the middle of
\* a block shifts all that is appended later, until another one shifts it back;
\* a short write that leaves errno 0 does it too when the transfer then breaks
\* off, and is seen only with checkpoints.
Once == Had("short") = 0 /\ Had("full") + Had("ulimit") <= 1
OnlyShort == scenario.restart /\ \A k \in Kinds \ {"short"} : Had(k) = 0
SizeTells == Once \/ OnlyShort

\* No job is lost: when its line has been passed the whole file is in place or
\* the last thing its user was told is a failure, however conversations broke
\* off and were taken up again (the bookmark of anlwrk, unlinkdf, RQSTCMPT).
\* When the size did not tell, a file is in place.  Excepted is a file that was
\* asked for and exceeds the ulimit: uucico gives it up without a word; and of a
\* job with option o only the log tells.
Delivered(j) == dest[j] = Whole(j) \/ (~SizeTells /\ dest[j] # NoFile)
Reported(j) == told[j] = IF Job(j).statf THEN "log" ELSE "fail"
Served(j) ==
    \/ Reported(j)
    \/ Delivered(j)
    \/ Job(j).type = "R" /\ Had("ulimit") > 0
NeverLost == \A j \in Jobs : Pending(j) \/ Served(j)

\* No partial file, and no file put together wrongly from two attempts, is put
\* in place (the size check of cntrl), unless uucico was killed between link and
\* unlink in xmv (then the next attempt appends to the file in place, until the
\* one after that) or in a copy without a temporary file, or writes failed in a way that the size does not tell.
Intact ==
    Had("killmove") = 0 /\ SizeTells => \A j \in Jobs : dest[j] \in {NoFile, Whole(j)}

\* The two ends stay in step: nobody gets a message he does not expect, two
\* masters are only there while an "HN" is on its way, and two slaves never.
InStep ==
    /\ \A m \in Machine : wire[m] # <<>> /\ cico[m].pc # "none" => Head(wire[m]).t \in Expected(m)
    /\ up /\ (\A m \in Machine : cico[m].pc # "none") =>
          /\ \E m \in Machine : cico[m].role = "MASTER"
          /\ (\A m \in Machine : cico[m].role = "MASTER") =>
                \E m \in Machine : wire[m] # <<>> /\ Head(wire[m]) = Msg("H", "N", 0, 0)

(***************************************************************************)
(* The inductive invariant of InStep: what the two ends have reached and   *)
(* what is on the wires between them.  a is the master.                    *)
(***************************************************************************)

\* The message x asks for job j (0: to hang up), or answers that.
Kind(j) == IF j = 0 THEN "H" ELSE Job(j).type
Request(x, j) ==
    /\ x.t = Kind(j) /\ x.job = j
    /\ x.t = "S" => x.n = Job(j).len
    /\ x.t = "R" => x.n % BUFSIZ = 0
Answer(x, j, as) ==
    /\ x.t = Kind(j) /\ x.job = j /\ x.a \in as
    /\ x.t = "S" /\ x.a = "Y" => x.n % BUFSIZ = 0
    /\ x.t = "R" /\ x.a = "Y" => x.n = Job(j).len

\* The messages of w from number k on are blocks, the last of which may be the
\* end of the file; shut: it is.
Short(x) == Len(x.data) < BUFSIZ
Blocks(w, k) ==
    \A i \in k..Len(w) : w[i].t = "D" /\ (Short(w[i]) => i = Len(w))
Transfer(w, k, shut) ==
    /\ Blocks(w, k)
    /\ shut => Len(w) >= k /\ Short(w[Len(w)])
    /\ ~shut => Len(w) + 1 >= k /\ \A i \in k..Len(w) : ~Short(w[i])

\* The master a has sent a request, or is going to, and k messages are in
\* front of it.
Asks(a, k) ==
    LET w == wire[Peer(a)]
    IN  /\ cico[a].role = "MASTER" /\ wire[a] = <<>>
        /\ \/ cico[a].pc = "top" /\ Len(w) = k
           \/ cico[a].pc = "reply" /\ Len(w) = k + 1 /\ Request(w[k + 1], cico[a].job)

\* The slave has refused, wants to hang up, or has become master.
Told(a) ==
    LET b == Peer(a)
        x == wire[a][1]
    IN  /\ cico[a].pc = "reply" /\ wire[a] # <<>>
        /\ \/ /\ cico[b].pc = "top" /\ cico[b].role = "SLAVE"
              /\ wire[b] = <<>> /\ Len(wire[a]) = 1
              /\ cico[a].job # 0 /\ Answer(x, cico[a].job, {"N2", "N4"})
           \/ /\ cico[b].pc = "hup" /\ cico[b].role = "SLAVE"
              /\ wire[b] = <<>> /\ Len(wire[a]) = 1
              /\ cico[a].job = 0 /\ Answer(x, 0, {"Y"})
           \/ /\ Asks(b, 1)
              /\ cico[a].job = 0 /\ x = Msg("H", "N", 0, 0)

\* The master sends a file.
Sending(a) ==
    LET b == Peer(a)
    IN  /\ cico[a].job # 0 /\ cico[b].job = cico[a].job /\ cico[b].role = "SLAVE"
        /\ \/ /\ cico[a].pc = "reply" /\ cico[b].pc = "rddata"
              /\ Len(wire[a]) = 1 /\ Answer(wire[a][1], cico[a].job, {"Y"})
              /\ Kind(cico[a].job) = "S" /\ wire[b] = <<>>
           \/ /\ cico[a].pc \in {"wrdata", "cmpt"} /\ cico[b].pc = "rddata"
              /\ wire[a] = <<>> /\ Transfer(wire[b], 1, cico[a].pc = "cmpt")
           \/ /\ cico[a].pc = "cmpt" /\ cico[b].pc = "stored"
              /\ wire[a] = <<>> /\ wire[b] = <<>>
           \/ /\ cico[a].pc = "cmpt" /\ cico[b].pc = "top"
              /\ Len(wire[a]) = 1 /\ wire[a][1].t = "C" /\ wire[b] = <<>>

\* The master receives a file.
Fetching(a) ==
    LET b == Peer(a)
    IN  /\ cico[a].job # 0 /\ cico[b].job = cico[a].job /\ cico[b].role = "SLAVE"
        /\ wire[b] = <<>>
        /\ \/ /\ cico[a].pc = "reply" /\ cico[b].pc \in {"wrdata", "cmpt"}
              /\ wire[a] # <<>> /\ Answer(wire[a][1], cico[a].job, {"Y"})
              /\ Kind(cico[a].job) = "R" /\ Transfer(wire[a], 2, cico[b].pc = "cmpt")
           \/ /\ cico[a].pc = "rddata" /\ cico[b].pc \in {"wrdata", "cmpt"}
              /\ Transfer(wire[a], 1, cico[b].pc = "cmpt")
           \/ /\ cico[a].pc = "stored" /\ cico[b].pc = "cmpt" /\ wire[a] = <<>>

Talk(a) ==
    /\ cico[a].role = "MASTER"
    /\ \/ /\ Asks(a, 0) /\ cico[Peer(a)].role = "SLAVE" /\ cico[Peer(a)].pc = "top"
       \/ /\ Asks(a, 1) /\ cico[Peer(a)].role = "SLAVE" /\ cico[Peer(a)].pc = "cmpt"
          /\ wire[Peer(a)][1].t = "C"
       \/ Told(a)
       \/ Sending(a)
       \/ Fetching(a)

\* What has arrived for m is what it goes on to read, whoever sent it.
Asked(x) == \E j \in Jobs \cup {0} : Request(x, j)
Reply(m) ==
    LET w == wire[m]
        x == w[1]
    IN  /\ Answer(x, cico[m].job, {"Y", "N", "N2", "N4"})
        /\ \/ Len(w) = 1
           \/ Len(w) = 2 /\ x.t = "H" /\ x.a = "N" /\ Asked(w[2])
           \/ x.t = "R" /\ x.a = "Y" /\ Blocks(w, 2)
Done(m) ==
    LET w == wire[m]
    IN  /\ w[1].t = "C"
        /\ \/ Len(w) = 1
           \/ Len(w) = 2 /\ cico[m].role = "SLAVE" /\ Asked(w[2])
Ready(m) ==
    LET c == cico[m]
        w == wire[m]
    IN  \/ w = <<>>
        \/ c.pc = "none"
        \/ c.pc = "top" /\ c.role = "SLAVE" /\ Len(w) = 1 /\ Asked(w[1])
        \/ c.pc = "hup" /\ Len(w) = 1 /\ w[1].t = "H" /\ w[1].a = "Y"
        \/ c.pc = "reply" /\ Reply(m)
        \/ c.pc = "rddata" /\ Blocks(w, 1)
        \/ c.pc = "cmpt" /\ Done(m)

Both == \A m \in Machine : cico[m].pc # "none"

\* On a line that works the ends talk to each other; one that is alone reads
\* what is left for it.
Together == up /\ Both => \E a \in Machine : Talk(a)
Alone ==
    ~up \/ ~Both =>
        \A m \in Machine : cico[m].pc # "none" => Ready(m) /\ (up => cico[m].pc = "hup")

StepInv == TypeOK /\ Together /\ Alone

(***************************************************************************)
(* The inductive invariant of NeverLost and Intact, beside StepInv.  Work: *)
(* which line a master is at, and that a line it leaves has been served.   *)
(***************************************************************************)

Lines ==
    \A m \in Machine :
        /\ OncePerJob(queue[m])
        /\ \A i \in DOMAIN queue[m] : \A k \in DOMAIN queue[m][i] : Job(queue[m][i][k]).at = m

\* A master is at the line behind the bookmark.
OnLine(m) == cico[m].pos # -1
AtLine ==
    \A m \in Machine :
        LET c == cico[m]
        IN  /\ OnLine(m) =>
                  /\ c.role = "MASTER" /\ queue[m] # <<>>
                  /\ c.pos = mark[m] + 1 /\ c.job = queue[m][1][c.pos]
            /\ c.pc = "reply" => c.role = "MASTER"
            /\ c.role = "MASTER" /\ c.pc \notin {"none", "top"} /\ c.job # 0 => OnLine(m)
            /\ c.role = "MASTER" /\ c.pc \in {"rddata", "stored"} => Job(c.job).type = "R"

\* What a slave receives is the job its master is at, which has not got an
\* answer that lets it go on, or was at when it ended.
Held ==
    \A m \in Machine :
        cico[m].role = "SLAVE" /\ cico[m].pc \in {"rddata", "stored"} =>
            LET a == Peer(m)
            IN  /\ Job(cico[m].job).at = a /\ Job(cico[m].job).type = "S"
                /\ Pending(cico[m].job)
                /\ cico[a].pc # "none" =>
                      /\ cico[a].role = "MASTER" /\ cico[a].job = cico[m].job
                      /\ cico[a].pc \in {"reply", "wrdata", "cmpt"}
                      /\ \A i \in DOMAIN wire[a] : wire[a][i].t = "S" /\ wire[a][i].a = "Y"

\* A master that goes on to the next line has served this one, and one that is
\* told so has its file delivered.
Left ==
    \A m \in Machine :
        /\ cico[m].pc = "top" /\ OnLine(m) => Served(cico[m].job)
        /\ cico[m].role = "MASTER" /\ cico[m].pc = "cmpt" =>
              \A i \in DOMAIN wire[m] : wire[m][i].a = "Y" => Delivered(cico[m].job)

\* A line that breaks takes what is on it with it; otherwise one end is gone.
Silent == ~up /\ Both => \A m \in Machine : wire[m] = <<>>

WorkInv == Lines /\ AtLine /\ Held /\ Left /\ Silent /\ NeverLost

(***************************************************************************)
(* Data: what has been received of a file.  A transfer that starts at p    *)
(* appends to the file; the size tells when that is not where it ended.    *)
(***************************************************************************)

Clean == Had("short") + Had("full") + Had("ulimit") = 0

Reach(j, p) == IF p <= Job(j).len THEN p ELSE Job(j).len
Begun(j) == Len(pfile[j]) <= Job(j).len /\ \A i \in 1..Len(pfile[j]) : pfile[j][i] = i
TooLong(j) == Len(pfile[j]) > Job(j).len

\* A file that is to be continued: its beginning, or one that can be told from
\* it by its size.
Partial(j) ==
    /\ \A i \in 1..Len(pfile[j]) : pfile[j][i] # 0
    /\ Once => TooLong(j) \/ Begun(j) \/ Len(pfile[j]) % BUFSIZ # 0
    /\ Clean => \/ TooLong(j)
                \/ Begun(j) /\ (Len(pfile[j]) % BUFSIZ = 0 \/ Len(pfile[j]) = Job(j).len)

\* The same while it is received, and r units should have been.
Aligned(j, r) ==
    LET n == Len(pfile[j])
        good == n = r /\ Begun(j)
    IN  /\ Once => good \/ (scenario.restart /\ n > r /\ (TooLong(j) \/ n < r + BUFSIZ))
        /\ Clean => good \/ TooLong(j) \/ (n = Job(j).len /\ Begun(j))
        /\ OnlyShort => n <= r /\ (n = r => Begun(j))

\* The blocks of w from number k on are those of job j's file from p on.
IsChunk(d, j, p) ==
    /\ Len(d) = Reach(j, p + BUFSIZ) - Reach(j, p)
    /\ \A i \in 1..Len(d) : d[i] = p + i
Offset(p, n) == p + n * BUFSIZ
Stream(w, k, p, j) == \A i \in k..Len(w) : IsChunk(w[i].data, j, Offset(p, i - k))

\* m receives a file.
Receives(m) ==
    LET c == cico[m]
        s == Peer(m)
    IN  \E p \in Nat :
            /\ p % BUFSIZ = 0 /\ Stream(wire[m], 1, p, c.job)
            /\ c.ret = "ok" => Aligned(c.job, Reach(c.job, p))
            /\ up /\ cico[s].pc = "wrdata" => cico[s].at = Offset(p, Len(wire[m]))
            /\ up /\ cico[s].pc = "reply" => \A i \in DOMAIN wire[s] : wire[s][i].n = p

\* m has asked for one.
Awaits(m) ==
    LET j == cico[m].job
        p == StartPoint(j)
        s == Peer(m)
    IN  /\ Aligned(j, Reach(j, p))
        /\ wire[m] # <<>> /\ wire[m][1].a = "Y" => Stream(wire[m], 2, p, j)
        /\ up => \A i \in DOMAIN wire[s] : wire[s][i].t = "R" => wire[s][i].n = p
        /\ up /\ cico[s].pc = "wrdata" => cico[s].at = Offset(p, Len(wire[m]) - 1)

Receiving ==
    \A m \in Machine :
        LET c == cico[m]
        IN  /\ c.pc = "rddata" => Receives(m)
            /\ c.pc = "reply" /\ c.job # 0 /\ Kind(c.job) = "R" => Awaits(m)
            /\ c.pc = "stored" /\ c.ret = "ok" => Aligned(c.job, Job(c.job).len)
            /\ c.pc \in {"rddata", "stored"} =>
                  c.size = Job(c.job).len /\ (c.ret = "big" => Had("ulimit") > 0)

\* Only a fault cuts a transfer.
Uncut ==
    OnlyShort =>
        /\ \A m \in Machine :
              /\ cico[m].pc \in {"reply", "rddata", "stored"} => up
              /\ cico[m].pc \in {"rddata", "stored"} => cico[m].ret = "ok"
        /\ \A j \in Jobs : pfile[j] # <<>> =>
              \E m \in Machine : cico[m].pc \in {"rddata", "stored"} /\ cico[m].job = j

DataInv ==
    /\ \A j \in Jobs : Partial(j)
    /\ Receiving /\ Uncut
    /\ Had("killmove") = 0 => linked = {}
    /\ Intact

\* "If checkpoint protocol is available then the next recieve will restart
\* from the breakpoint of the file" (cntrl): what has been received of a file
\* is always its beginning.
Resumes == \A j \in Jobs : IsPrefix(pfile[j], Whole(j))

\* Every job is served in the end, once faults cease.
AllServed == <>[](\A m \in Machine : queue[m] = <<>>)
=============================================================================
