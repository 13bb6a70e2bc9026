# Verification of the concurrent core of unitas

unitas is a System V Release 4 userland: some 150 programs under `src/cmd` and
`src/ucbcmd` and two libraries.  Most are sequential filters.  This project is
about the programs whose correctness depends on *other* processes, on a line
that loses data or on being killed at the wrong moment: the Basic Networking
Utilities (BNU, `src/cmd/bnu`), where `uucico` moves files between machines
with a protocol of its own; the service access controller; TFTP; and SCCS,
whose commands share files under a lock.

## 1. Inventory

| component | source | state | operations | hard because of |
|---|---|---|---|---|
| packet driver ("g" protocol) | `pk0.c pk1.c pk.h pkdefs.c` | `struct pack`: window, buffers, pending control messages; counters `Connodata`, `Ntimeout` | `pkopen`, `pkread`, `pkwrite`, `pkclose`; inside: `pkgetpack`, `pkcntl`, `pkaccept`, `pksack`, `pkoutput`, `pkdata` | loss, damage and delay of frames, time-outs racing late answers, three-bit sequence numbers, fixed numbers of buffers |
| protocol adapter | `gio.c` | jump buffers | turn on, turn off, read and write of messages and files | `longjmp` out of the driver at any read |
| master and slave | `cntrl.c anlwrk.c cpmv.c uucico.c` | role, C. files and their bookmarks, D. and P. files | `S`, `R` and `H` requests and answers, restart at a checkpoint, delivery | roles reverse, conversations break, a kill between any two file operations |
| lock files | `ulockf.c` | a file per lock, `Lockfile[]` per process, `lockf` on devices | `mklock`, `cklock`, `rmlock`, `fd_mklock`, `fd_rmlock` | interleaving of system calls, killed processes, signal handlers, pids used again |
| job numbers | `gename.c` | a file per remote system | `getseq` | read-modify-write of a shared file under a lock, kills, 16-bit wrap |
| conversation numbers | `gnxseq.c` | `SQFILE`, `SQTMP` | `gnxseq`, `cmtseq`, `ulkseq` | two-phase update, error returns with the lock held |
| status files | `systat.c` | a file per remote system | `systat`, `callok` | retry times |
| service access controller | `src/cmd/saf` | table of port monitors, pipes, `_pid` locks | start, poll, reap, restart, enable, disable, kill, read the tables again, recover | signal handlers, children dying or hanging at any time, answers of dead children |
| TFTP | `tftp.c main.c tftpsubs.c in.tftpd.c` | block number, two buffers, the packet to repeat | `get`, `put`; the daemon's `sendfile`, `recvfile` | loss, duplicates, timers, several daemons for one request, 16-bit block numbers, netascii across blocks |
| SCCS | `src/cmd/sccs` | s-, p-, q-, x-, z- and g-file | `get -e`, `delta`, `unget`, `rmdel` | several users, a lock taken over from the dead, kills between two renames |
| talk daemon | `in.talkd` | invitation table | announce, look up, delete | stale invitations |
| mail | `src/cmd/mail` | mailbox, `.lock` file | deliver | lock with a time-out |

How they interact: `uucico` (`cntrl.c`) calls the protocol adapter (`gio.c`),
which calls the packet driver; the driver calls back with `pkfail`, a `longjmp`
to the adapter.  The driver and its peer share nothing but the line.  `uucico`,
`uuxqt`, `uux`, `uucp`, `cu` and `ct` meet in the lock directory through
`ulockf.c`; `gename.c` and `gnxseq.c` use those locks around files of their own.
sac and its port monitors exchange messages through one pipe each way, and
meet in the lock of a `_pid` file.  A TFTP client talks to whichever daemon
answered last.  The SCCS commands meet in the z-file.

What makes the parts correct:

* packet driver: what one end writes the other reads, in order, once; the
  sender forgets a packet only when it was read; window and packet size fit
  the receiver's buffers; no buffer is lost; damage is repaired; the
  conversation ends whatever the line does.
* master and slave: a job is off the queue only when its file is in place or
  its user was told that it failed; no partial file is put in place; both ends
  agree who is master.
* lock files: one holder at a time; the lock of a dead process does not stay.
* job numbers: no number twice.
* service access controller: no more restarts than configured; a port monitor
  comes back in the state it was in; the table comes to show what is.
* TFTP: a command that reports success copied the whole file; few faults do
  not stop it; everybody ends.
* SCCS: one holder of the lock; no delta and no edit is lost; no SID is given
  twice; a command ends.

`PROJECT.json` lists every component, also those that are not modelled, and
under `hazards` the places where this code is hard to test.

## 2. Modules

| module | what it is |
|---|---|
| `Pk` | the packet driver of one end: each function is an operator from the old `struct pack` to the new |
| `PacketLink` | what the driver promises one writer and one reader |
| `PkConversation` | two ends, the line, turns, time-outs, faults; `MCPkConversation` has the scripts |
| `PkConversationProofs` | its theorems |
| `PkWindow` | the sliding window alone, one direction, any number of packets; `MCPkWindow` bounds it |
| `PkWindowProofs` | its theorems |
| `UuCntrl` | master and slave above the packet driver, their queues and files; `MCUuCntrl` |
| `UuCntrlProofs` | its theorems, about the two ends and about the work they do |
| `UuLock` | lock files and the device lock; `MCUuLock` |
| `UuSeq` | `getseq` composed with `UuLock`; `MCUuSeq` |
| `UuSeqProofs` | the theorems about both |
| `FileCopy` | what a TFTP command promises |
| `TftpSubs` | the double buffers and the netascii conversion |
| `Tftp` | client, daemons and network; `MCTftp` |
| `TftpProofs` | its theorems |
| `Sac` | sac, its handlers and its port monitors; `MCSac` |
| `SacProofs` | its theorems |
| `FoldProofs` | lemmas about least numbers, and about loops over a sequence (`FoldLeft`), for the proofs of `Sac` and `Pk` |
| `SccsSid` | the choice of SIDs: `getser`, `newsid` |
| `Sccs` | the SCCS commands and their files; `MCSccs` |
| `SccsProofs` | the theorems about both |

### Pk and PkConversation

A record of `PackType` is a `struct pack` with the two global counters.  The
status bytes `p_os[]` are sets of bits; an input slot `p_is[]` is free, holds a
frame as it came ("raw": the byte is then the frame's control byte, and the
code tests the same bits of it as if it were a status, which `Marked`
reproduces), is marked, or is accepted.  The order of the bits of `p_msg`
decides what `pkoutput` sends first, and the swap of buffers inside `pkaccept`
is there as it is in the code.

An end is single-threaded, so everything between two waits in `pkgetpack` is
one step: `ReceiveControl`, `ReceiveData`, `Timeout`, `GiveUp`, `WritePacket`,
`WaitForWindow`, `Read`, `pkclose`.  `pc` says where the end is (`open` is
`pkopen`, `run` the data phase, `full` the wait of `pkwrite` for its window,
`done` and `failed` before `pkclose`).  The line is a FIFO per direction.
`FaultKinds` says what it may do: delay past the alarm, lose a frame, damage
its header, its body or its SYN, end inside the body ("cut"), hang up; and
`MaxFaults` how often.  A time-out while nothing is under way is no fault and
is not limited.

`uucico` is half duplex: `Script` is the sequence of turns.  `TypeOK` states
only what can go wrong, `p_imap` pointing at slots that hold no frame among
it.  The model leaves out bytes: the checksum is the difference between a good
and a damaged body, a body is its number in the stream and whether it has
zero length (which ends a file).  A read always takes whole packets (`B_RESID`
is not modelled).  A data frame that finds no buffer has its body left on the
line in the code, where it passes as noise; the model drops it whole.

### PkWindow

For proofs the driver is reduced to what ordered delivery rests on: a window
of at most `W` packets, numbers modulo 8 on the line, go-back-N, cumulative
acknowledgements.  Packets carry their true numbers as history, and no guard
of the program looks at more than `Wire(n)`.  The turns matter: while an end
writes, frames for it are stored unread, up to seven of them, and are examined
together later (`Store`, `TurnToRead`).  They are harmless only because the
writer had everything acknowledged before the turn changed; without the turns
the window of 7 would be too large for that.

### UuCntrl

Two machines, each with its work queue, and one uucico of each in a
conversation.  `Cntrl(m)` is one pass through cntrl.c's loop up to its next
read: `MasterTop` takes the next line of work (`gtwvec`, with the bookmark that
is written *before* the line is worked on), `SlaveSndfile`, `SlaveRcvfile` and
`SlaveHup` are the slave's cases, `SndfileAnswered`, `RcvfileAnswered` and
`HupAnswered` the master's, `Wrdata` and `Rddata` the blocks of gio.c and
`Store...` what follows a received file: the size check, xmv, the answer
`RQSTCMPT` and the removal of what is no longer needed.  A file is a sequence of
units and a block `BUFSIZ` of them; a short block ends a file.  The line keeps
order (`PkConversation` is about that) but may break at any time.

`Kinds` are the faults: a broken line, a kill between any two steps, inside xmv
(between its calls, or in the copy it makes when it cannot link), or between the
truncation and the writing of the bookmark, and calls that fail (no space, short
write, ulimit, no temporary file, no move).  Files survive a kill, processes do
not.  `told` is a history variable, the last thing the user was told.  A job
with option `o` (`statf`) is told to the log only (`Tell`, below).

Not in it: delivery without spooling, the choice of a protocol, permissions
(a job is refused here, there or not at all), two uucicos working on one P.
file.  The scenarios have short writes with checkpoints only: without them no
size is compared.

### UuLock and UuSeq

Each system call another process can observe is a step.  `Cleanup` is the
signal handler (`onintr`, `cleanup`, `rmlock(CNULL)`) and may come between any
two steps, also between the `unlink` and the clearing of the list entry inside
`rmlock`; `Die` is `SIGKILL`; `Start` gives a pid to a new process.  `creat`
and `write` of the temporary file are one step because its name is private to
the process.  `Faults` are calls that fail for other reasons (no file
descriptors, no space).  `stolen` is a history variable: a process's lock file
was removed by another process.

`UuSeq` extends `UuLock`: between `mklock` and `rmlock` a process reads,
truncates and writes the sequence file.  An `fopen` for reading that fails,
also for want of a file descriptor, makes a new file (`CreateSeq`); an `fscanf`
that finds no number goes on with `rand()` (`GuessSeq`); and `fprintf` only
fills a buffer, which an unchecked `fclose` writes: on a full disk `getseq`
returns a number that is in no file (`WriteSeq`).  `lost` records that the file
no longer tells the last number, for one of these reasons or because a process
ended with the file truncated, and `written` counts the writes: numbers are 16
bits wide and come round after 65536 of them, whether or not they were handed
out.

### Tftp, TftpSubs and FileCopy

`sendfile` and `recvfile` exist twice in the sources, in the client and the
daemon, and are the same protocol; the operators of these names take an
endpoint record and a packet, and where client and daemon differ
(`ClientReceive`, `DaemonReceive`) the difference is in the action.  The
network is a bag.  Every copy of a request starts a daemon (`StartDaemon`),
and the client follows the port of what it received last.  `alarms` keeps the
order in which timers were set: with one interval for all they expire in that
order, and an alarm out of turn is a fault ("early", a slow process).  `synchnet`
empties what has arrived (`Flushed`).  `TftpSubs` has the two buffers with their
counters and the characters the conversion carries from one block to the next
(`newline`, `prevchar`), which is where a newline cut in two is put together.
`block` is an integer and `Wire(block)` what th_block holds of it.  `nr` is
history: the command that a request asks for, and that an endpoint works on.

The refinement mapping of `CopiesFile` takes the file as written (without a CR
whose LF may still come) for the copy.

### Sac

sac works in three handlers, `Alarm` (pollpms), `Reap` and `sigpoll` (the
commands of sacadm), and in the reading loop of the main program (`readpipe`).
`sigaction` is called with nothing but the signal itself in `sa_mask`
(`sac.c:112`, `180`, `1115`), so a handler may be interrupted by the two others
at any point, and the main program by all three.  Therefore what a handler does
is cut into tasks, from one access to the table, to a pipe or to a process to
the next, and one task is one step.  `stack` holds a frame for each handler
under way, the interrupted ones below, with the tasks it has left (`todo`) and
the mask that the kernel restores when it returns (`back`); the main program has
a frame while it starts up (`SacStart`, `startpms`, `startall`) and while it
deals with a message.  The functions of the code are tasks that put others in
their place: `pollpms` gives `pollfail`, that gives `kill`, `check` and
`restore`, `check` gives `count` and `startpm`, and so on; what they decide they
decide on what the table holds when the task comes up, which is how one handler
comes to work on what another has changed.

`mask` is the signal mask of the process.  pollfail, startpm, AC_KILL and purge
extend it (`kill`, `fork`, `terminate`, `purge`) and put it back
(`restore`, `started`, `remove`), with the two flaws of the code: a failed fork
leaves SIGCLD blocked, and a pollfail of a port monitor that has stopped
restores a mask it never saved (`sac.c:911`), which is any (`stopped`).
`cld` is one bit: signals are not counted.

What handlers do to each other is kept in two histories.  `doubled` counts, for
each port monitor, the starts that a handler decided on while an interrupted one
was about to carry out its own; `crossed` holds the port monitors whose
sc_sstate or sc_lstate was set by a handler while an interrupted one had set one
of the two and not yet the other (or had fixed what to set it to).

Two things are left out: AC_SACREAD that removes an entry while an
interrupted handler holds a pointer to it (`ac_sacread`; `purge` frees it, and
what happens then is not defined), and the buffer `Scratch`, which all handlers
share for file names and log lines.  `sc_rscnt++` is taken for one instruction.

Port monitors are external, modelled from what sac expects of them: they boot,
lock `_pid`, obey and answer messages, and exit on SIGTERM; they may die, hang
or be slow to lock.  `SacCrash` ends sac, `SacStart` starts it again and, when
a lock is held, recovers.

### Sccs and SccsSid

Every operation on a shared file that another command can observe is a step.
`Create` and `Write` make a z-file, which is empty in between.  `Look`, `Judge`
and `Steal` are lockit's reading of another's z-file, its judgement (`kill`,
`exists` and the modification time) and its `unlink`, which removes whichever
z-file is there by then.
A command may be interrupted (`Interrupt`: fatal, clean_up) or killed (`Kill`)
between any two steps, and a user may remove the g-file a command left (`Rm`).
`delta` opens the s-file in `Start`, before its lock, as the code does, and
works on what it opened.  `SccsSid` has the functions that choose an SID on a
delta table, a sequence of deltas with their predecessors.  The p-file is a set
of lines, each with the pid of the get that made it, which tells two edits of
the same SID apart.

Ghosts: `made` and `edits` are what users know, `half` the p-file lines whose
delta was cut short between the two renames, `stale` that a delta got the lock
after its open s-file was replaced, `broken` that lockit judged an empty
z-file by the pid of an earlier try, or unlinked the z-file of a live command
that had taken the place of the one it judged.  `stale` and `broken` are faults
of the code itself (see below); the properties hold until they happen, which
shows that nothing else breaks them: not several commands that remove the same
dead z-file at their own pace, not one that dies at any point of it.

One assumption about time: two z-files have different modification times.
`unlockit` reads the z-file and unlinks it in one step; its owner is alive, so
that only a lock already broken could change in between.

Not in it: other hosts, pids used again, root (who matches any user's line), null
deltas, NSE mode, MRs, the text of versions; a delta whose
diff fails (`delta.c:469`) and starts its x-file again from the s-file, which is
the one it opened as long as it is not `stale`.  lockit tries
4 times in delta and 10 in get; `TRIES` stands for both.

## 3. Runs

| run | instance | shows |
|---|---|---|
| `Pk` | four scenarios: 3 packets and an answer, window 2, every fault but "cut", 2 of them; 9 + 2 + 1 packets, window 7, all faults, 1 of them; windows 1 and 2, sizes 64 and 128 in every combination, 1 fault; sizes 64 and 100, which `pksizes[]` does not have | `TypeOK`, `OutputBuffers`, `BuffersAccounted`, `Negotiated`, `KeepsPromise` |
| `PkLive` | window 3 with three damaged bodies; a message each way with any two faults; a size that `pksizes[]` does not have, where no data passes; fair | `TurnsComplete`, `Termination` |
| `PkWindow` | window 7, 9 packets, 2 data frames and 1 acknowledgement under way, any number of losses | the window's properties, `Inv`, `LinkSpec` |
| `UuLock` | 3 processes with `fd_mklock` or `cklock`, 2 ends, failing `creat` and `lockf`, fair | `LockTypeOK`, `DeviceExclusive`, `LockExclusive`, `NoTheft`, `StaleRemoved` |
| `UuSeq` | 3 processes with `mklock`, 1 end, failing `open`, `fopen`, `fscanf` and `fclose`, calls until 2 numbers are taken (the others under way then take theirs too), starting at 65534 (so that they come round), with no file or with an empty one | `SeqTypeOK`, `UniqueJobs` |
| `UuCntrl` | `BUFSIZ` 2, files of 1 to 5 units, up to 4 jobs in 3 C. files on both machines, with and without checkpoints and role reversal, up to 4 faults | `TypeOK`, `NeverLost`, `Intact`, `InStep`, `AllServed` |
| `Tftp` | `SEGSIZE` 2, 4 block numbers, 5 tries, 4 daemons; empty, short, full and text files and one with more blocks than numbers; 3 commands in a row, two gets of one file with a fault; up to 3 faults | `TypeOK`, `NeverAhead`, `GetSurvives`, `CopiesFile`, `AllEnd` |
| `Sac` | 1 or 2 port monitors, up to 4 commands, tables read again (one lowers `rsmax`), 2 faults of each mix; in six of the scenarios a signal that interrupts a handler or the main program is one of up to 3 faults | `TypeOK`, `RestartLimit`, `Agreement`, `KeepsState`, `Settles` |
| `Sccs` | 3 users, up to 5 commands of one of them, joint and single edits, branches, removal; `TRIES` 2; one command cut short | `TypeOK`, `OneHolder`, `HistoryKept`, `EditsKept`, `SidsSound`, `CommandsEnd` |

What the deeper properties say:

* `NeverLost`: when a line of work has been passed, the whole file is in place
  or a failure is the last thing its user heard (of a job with option `o`, the
  last thing in the log); `Intact`: nothing partial or
  put together from two attempts is in place.  `Intact` excepts a kill inside
  xmv: between link and unlink P. file and delivered file are one file, and the
  next attempt appends to it until it is finished; and a copy without a
  temporary file is cut short.  Both except that writes
  failed in a way the size check cannot see (`SizeTells`): the check compares
  lengths, and a second write that stops inside a block can undo the shift of a
  first one.
* `CopiesFile`: client, daemons and network implement `FileCopy`.
  `GetSurvives`: a get gives up only when faults are as many as the tries or
  the file has too many blocks.  It is not true of put (below).
* `KeepsState` and `Agreement` relate the state sac was told to bring about,
  its table and what the port monitor does, across restarts and answers of the
  dead.  What sac was told may be forgotten in three ways (below), which
  `KeepsState` excepts (`Steady`, `MayEnd`, `crossed`).  `RestartLimit` says
  how far nested signals can take sc_rscnt and the starts beyond sc_rsmax:
  without them (`doubled` 0) not at all.  `Settles`: once commands and
  faults cease the table shows what is.
* `HistoryKept`, `EditsKept`, `SidsSound`: deltas and edits stay, and SIDs are
  unique, through kills between the two renames of a delta.

### Violations

Each refutes what a comment in the code says; the finding in `PROJECT.json`
quotes it.

* `UuSteal`: `cklock` removes the lock of an active process.  Its `unlink` comes
  after another process has made the file anew; the run's trace ends with that
  very step.
* `UuRestart`: an interrupted transfer does not restart from its breakpoint:
  the file is open for append, the seek has no effect, and a partial block
  stays in it.  The size check finds it, and the transfer starts from nothing
  (unless a second write that fails inside a block shifts the file back).
* `SccsLostDelta`: delta opens the s-file before it locks, and overwrites
  another user's delta.

### Other differences between code and comments

They limit what the properties say.

* `pkclose` does not wait for its output to drain (`pk0.c:494`), so
  `TurnsComplete` excepts the last turn.
* The "request RXMIT" after a frame that stopped inside its body (`pk1.c:269`)
  sends an `RR`, which requests nothing, so `TurnsComplete` holds for damaged
  bodies and not for cut ones; and the buffer taken for that frame is lost
  (`pk1.c:264`), so `BuffersAccounted` is stated without them.
* `pkopen` takes any packet size of 32 to 4096 (`pk1.c:95-101`), but an `INITB`
  can only say 32, 64, ... 4096.  The other end then sends the largest of these
  that fits (`Negotiated`), and an end that was opened with another size drops
  every data frame (`pk1.c:254`): the line comes up, no data passes, and the
  limits end the conversation.  `TurnsComplete` therefore asks for one of the
  sizes of `pksizes[]`; `Termination` does not.
* A write of `pkxstart` that fails leaves `p_obusy` set (`pk1.c:390-409`), so
  the `pkclose` that follows is silent.  The model has no failing write; what
  the other end sees of it is a "hangup" whose `CLOSE` is lost.
* A lost `INITA` is never repeated once `INITB` is pending (`pk0.c:421`); the
  open fails.
* Valid control frames count towards `CONNODATA` (`pk1.c:231`): two live ends
  that answer `INITB` with `INITC` and the reverse after a delay fail on a line
  without damage; `Termination` depends on it.
* `getseq` hands out 0, which is "reserved for polling" (`gename.c:87`).
* The daemon's last receive of a put looks at `dp` and not at the buffer it
  received into (`in.tftpd.c:568`): a lost final acknowledgement is not
  repeated and the client reports a time-out for a file that arrived.
* The TFTP client "should verify packet came from server" (`tftp.c:146`): it
  takes the port of whatever it received (`tftp.c:143`, `tftp.c:247`).  A late
  datagram of an earlier command can send the repetitions of a request to a
  daemon that has ended, so with two faults in two commands `GetSurvives` does
  not hold; a second command is checked with one fault.
* lockit's comment says an empty z-file is removed (`lockit.c:48`); it is not,
  or is judged by what an earlier try read.  And between the judgement and the
  `unlink` (`lockit.c:118`-`121`) another command may remove the same dead
  z-file and a third make its own, which is then unlinked: two commands hold the
  lock.  Either sets `broken`.
* A port monitor can be restarted more often than sc_rsmax allows.  reap blocks
  SIGCLD only, so SIGALRM may come between its look at sc_rscnt (`sac.c:890`) and
  the increment (`901`); pollpms finds sc_ok 0, calls pollfail again, and both
  restart it.  `RestartLimit` and `TypeOK` allow one more for each time
  (`doubled`).
* An AC_DISABLE or AC_ENABLE that was acknowledged can be lost.  sigpoll sets
  sc_sstate and then sc_lstate with SIGCLD open (`misc.c:308`), unlike AC_KILL:
  when the port monitor dies in between, startpm takes sc_sstate from the old
  sc_lstate.  The same happens when the command comes between startpm's look at
  sc_lstate and its assignment (`sac.c:430`).  `KeepsState` excepts it
  (`crossed`).
* A port monitor told to stop can be started again: readpipe has looked at
  sc_pstate, AC_KILL makes it STOPPING, and readpipe writes what it was going to
  (`sac.c:1020`); the death then looks like any other.  And an AC_START inside
  the pollfail of one that has stopped leaves a running port monitor that is
  shown as not running (`sac.c:872`).  So `Agreement` and `Settles` are stated
  of scenarios in which handlers do not interrupt each other.
* A stopped port monitor that hangs is shown as not running without being
  killed (`sac.c:869`), so `Settled` allows it.
* A port monitor is not always restarted "in the state in which it was last
  running" (`sac.c:936`).  sc_lstate stays NOTRUNNING until sacadm enables or
  disables the port monitor, so one that dies before that comes back in the
  state of its flag, also when the file was given another flag and read again
  in between.  And an answer STOPPING of a port monitor that was killed may be
  taken for its successor's, since messages carry a tag and no pid
  (`sac.c:979`): pollfail then forgets sc_lstate (`sac.c:869`), and the
  successor too comes back in the state of its flag, although it was disabled
  or enabled since.  A recovering sac that cannot open a pipe ends the port
  monitor, with the same effect.
* "mail results of command" (`cntrl.c:1381`): for a job with option `o` notify
  and lnotify call stmesg instead, which was to write the status file the user
  asked for (`cntrl.c:1406`, `1427`).  Its body is compiled out (`1452`): what is
  left puts one line in the log and tells the user nothing, when the job has
  failed and its D. file is removed too.  `NeverLost` asks for no more than that
  line.
* A file fetched with `R` that exceeds the ulimit is given up without a word
  to the user (`cntrl.c:1068`), so `NeverLost` excepts such a file.

### Bounds

All of the packet driver's runs use the program's own limits (`GETRIES` 10,
`CONNODATA` 20, `NTIMEOUT` 50, `PKMAXSTMSG` 40) so that giving up happens when
it would.  The bounds are the script and the faults.  Two faults suffice for a
fault during the repair of another; the numbers come round after eight
packets, so nine, with a full window, are enough to confuse a packet with one
a round later.  Two ends of processes suffice for a stale lock and for a second
death while it is being replaced; three processes for a stale lock and two that
both find it.  Pids are symmetric in `UuSeq`.  In `UuCntrl` a file of three
units has a whole and a partial block, two kills cut a transfer and its
resumption, and in five units two failing writes can undo each other.  In `Tftp`
four block numbers bring the wrap within reach (65536 in
the program), two characters to a block cut a CR LF pair, and four daemons are
as many as duplicates and repetitions start.  In `Sac` two faults hit a port
monitor and its successor, or sac and a port monitor; a nested signal and a
fault make the handlers meet over one port monitor, and with three a death, a
hang and the signal in between take a restart past its limit.  In `Sccs` three users
are a holder, one that takes over its lock and one that waits; one cut leaves
every kind of leftover file.

`PkWindow` stops at its bounds, `UuSeq` when `MaxJobs` numbers are taken and
`Sccs` when the scripts have ended, hence their `CHECK_DEADLOCK FALSE`.  In all
other runs deadlock is checked.

Each property has a mutant in the modules: the definition marked `Mutant`
before the one it stands for is a plausible mistake, and TLC finds the property
violated with it.

### Fairness

* `PkConversation`: weak fairness of each end's own steps, written with their
  guard `CanStep` spelled out.  A uucico is a running process, and a wait in
  `pkcget` is always under an `alarm`.  The line owes nothing.
* `UuLock`: a process that is not dead goes on, including that it asks for the
  lock again; the callers do that (`getseq` 24 times, the daemons every hour).
* `UuCntrl`: each uucico goes on (weak), and a machine with work calls again
  and again (strong fairness of the call): uusched runs from cron.
* `Tftp`: weak fairness of `Progress`: what is under way arrives or is lost,
  processes run, and the alarm that is due expires.
* `Sac`: sac's handlers run when their signal is due and go on once they are
  entered (`Work`), init starts sac again, and port monitors that do not hang go
  on.  A signal that interrupts another handler need not come.  Commands and faults are not fair.
* `Sccs`: a running command goes on (weak fairness of `Step(u)`); waiting for a
  lock is `sleep`.

## 4. Proofs

`PkWindowProofs` proves, for every window `W` in 1..7, any number of packets,
of losses and of turns:

* `Invariance`: `Spec => []Inv`, with `TypeCorrect`, `OrderedDelivery`
  (`InOrder`), `SafeRelease` (`NoEarlyRelease`) and `AcksCoverSent`
  (`AcksAreForSent`) as consequences;
* `WindowImplementsLink`: `Spec => LinkSpec`, the refinement of `PacketLink`.

`InOrder` is not inductive: that a frame whose number modulo 8 is the expected
one *is* the expected packet follows only if no frame on the line is a whole
round old.  `Frames` says so: a frame is less than a window older than what was
accepted, and than any frame behind it; `Window` bounds how far ahead it can
be; together they put the frame and the expected packet less than eight apart,
and `WireInjective` does the rest.  `Acks` orders the acknowledgements on the
line between `base` and `read`, so that counting modulo 8 in `pksack` is exact
(`AckedIs`).  `Turns` says that what is stored while an end writes are
duplicates.

`PkConversationProofs` proves, for the driver as `Pk` models it, for any scenarios
(turns, windows of 1 to 7, packet sizes of 32 to 4096, kinds and number of faults) and any
limits `GETRIES`, `CONNODATA`, `NTIMEOUT`, `PKMAXSTMSG`:

* `PromiseKept` (`KeepsPromise`): each direction of the conversation implements
  `PacketLink`, so what `pkread` hands out is what `pkwrite` took, in order and
  once, and no packet is forgotten before it was read;
* `OutputBuffersCounted` (`OutputBuffers`), `InputBuffersAccounted`
  (`BuffersAccounted`), `SizesNegotiated` (`Negotiated`), `TypeCorrect` (`TypeOK`);
* `ConversationInvariance`: `Spec => []Inv`.

What `PkWindow` has as one frame and one number is here `struct pack` with its
eight slots, `p_imap`, the pool, six control messages that overtake each
other, and a line with damage.  `Inv` has a part for each end and one for each
direction.  `EndOK` says where an end is in its script (`PlaceIs`, `TurnIs`),
that its free buffers and its busy slots are p_rwindow together (`InputOK`), and
what the INITs told it (`SizeP`; `SizeL` says that those on the line tell the
sizes the peer has).  `Direction` says of one writer and one
reader:

* the packets neither forgotten nor to come are in the output buffers
  (`BuffersOK`), and p_ps, p_pscopy and p_pr are their numbers modulo 8
  (`WindowOK`);
* a frame on the line or in a slot is a packet that was sent, and one that was
  read is at most six behind (`Genuine`), also than any frame behind it on the
  line (`DataOK`): so its number cannot be taken for that of a packet yet to come;
* a stored frame that was not read before is alone in `p_imap` and nothing the
  reader wrote is outstanding (`SlotsOK`), so the swap of buffers in `pkaccept`
  never puts a packet in the place of another;
* an acknowledgement on the way frees only what was read, and later ones free no
  less (`AcksOK`), so the loop in `pksack` stops where it should.

Neither direction suffices by itself.  Data carry acknowledgements, so a frame
that the reader knows already must acknowledge nothing new, and one that it does
not know everything it sent (`DataOK`); and only one of the two directions can
have packets that were read and not forgotten (`Link`), which is how the turns
keep a window of 7 apart from its predecessor, eight numbers being all there
are.  The functions of the driver have lemmas of their own: what `pkoutput`
leaves alone, that `pksack` releases a run of buffers (`Released`), that the two
loops of `pkaccept` lose no buffer (`NoneLost`, `Tallies`) and accept the packet
that is due or none (`Accepted`).  Each action then has a lemma that it keeps
`Inv`, and `LinkMoves` reads from two states that satisfy it which step of
`PacketLink` was taken.

`UuSeqProofs` proves, in its first part, for any set of processes, any faults and any number of
deaths and starts:

* `DeviceIsExclusive`: `fd_mklock` keeps its promise, thanks to `lockf`;
* `LockIsExclusive`: `mklock` is exclusive until a process's lock file is
  removed by another process;
* `NoTheftWhileRunning`: that does not happen while all processes run and lock
  files can be opened;
* `LockTypeCorrect`, with the limit of `tries`.

The strengthening `LockInv` adds that a process that owns the lock file finds
its own pid in it until a theft (`FileHeld`), that who came out of `fd_mklock`
has the `lockf` lock (`DeviceHeld`), that `tries` stays under its limit
(`Attempts`), and that while nobody died nobody reaches the `unlink` of
`cklock` (`NoneDead`, for which `PidRead` is needed).

In its second part it proves, for any set of processes, any contents of the sequence
file and any number of jobs, `SeqTypeCorrect` and

* `JobsAreUnique`: `getseq` returns no number twice until the file has been
  written 65536 times, a lock is stolen, or the file's number is lost (a process
  ended with the file truncated, the file could not be read or not be written).

It rests on `LockInv`, which every step of `getseq` keeps.  `SeqInv` adds
`UnderLock`, that the file is used between `mklock` and `rmlock` only, so
that there is one reader and writer at a time; `Current`, that every number in
use is fewer than `written` increments behind the file, or behind what the
process in `getseq` is about to write; and `Distinct`.  `Current` is what makes
the wrap harmless: the next number could meet an old one only after as many
writes as there are numbers.  A number that was written and not yet returned
counts as used.

`SccsProofs` proves, for any users and scripts, any number of tries, of
interruptions and of kills:

* `LockIsExclusive` (`OneHolder`): until lockit unlinks a z-file that it did not
  judge, or judged by another's pid;
* `EditsAreKept`, `HistoryIsKept`, `SidsAreSound`: the ghosts `stale` and
  `broken` are the only ways to lose an edit or a delta or to give an SID
  twice;
* `SccsTypeCorrect`, which includes that a delta's predecessor is an older one.

`SccsInv` describes the files a command is working on while it holds the lock:
the q-file is the p-file with one line more or less (`EditWork`), the x-file is
the s-file with one delta more or one removed (`HistoryWork`), and the SID of
the line that is being entered is in neither (`SidWork`, `PlansDiffer`); `Places`
and `LockHeld` say who is where.  `LockHeld` also says that the z-file lockit is
about to unlink was that of a command that has ended, which stays so because a
pid is not used again (`PidsUsed`).  A step leaves the files alone, or it is the
holder's; with `LockHeld` there is one holder, so nobody else's work is
disturbed (`Undisturbed`), and the proofs treat the two kinds separately
(`Quiet`, `Loud`).
Its first part has the facts about `getser` and `newsid` this needs for every
delta table: what `getser` finds is a delta of the file, and the search of
`newsid` for a free branch ends with an SID.  That it is new is not left to
`newsid`: get itself refuses one that is taken ("bad SID calculated").

`UuCntrlProofs` proves, in its first part, for any queues, lengths of files, block size and
faults:

* `StaysInStep` (`InStep`): no uucico gets a message it does not expect, there
  are never two slaves, and two masters only while an "HN" is on its way;
* `CntrlTypeCorrect`: with it that transfers start and go on at a block boundary
  and that the bookmark is a line of its C. file.

`InStep` says something of the first message on a wire and so cannot be
inductive: what becomes first must be known before.  `StepInv` says for each
place the master can have reached in cntrl where the slave is and everything
that is on both wires: it asks (`Asks`), it was refused or the roles are
changing (`Told`), it sends (`Sending`) or receives (`Fetching`), and a file
under way is a run of whole blocks of which only the last can be short
(`Transfer`).  When the line broke or one end is gone, the other reads what is
left for it (`Ready`); nothing more arrives, so this part only shrinks.  Each
action has a lemma; what they share is in `SendStep`, `AnswerStep`, `TakeStep`
and `EndsStep`.

In its second part it proves, for the same, on top of `StepInv`:

* `NothingLost` (`NeverLost`): a line of work is passed only when its file is
  in place or a failure is the last thing its user heard;
* `FilesIntact` (`Intact`): what the size check lets through is the file.

`NeverLost` speaks of lines that have been passed; `WorkInv` follows the one
that is being worked on.  A master's open line is the one behind the bookmark
(`AtLine`), no job is on two lines (`Lines`), and a job whose file a slave
receives is still on its line (`Held`): so what a slave puts in place, or
removes, belongs to no line that was passed.  A master goes on to its next line
only when it has served this one, and an answer `CY` on its way to it says that
the file has been delivered (`Left`), also when the conversation breaks behind
that answer: a line that breaks takes what was on it with it (`Silent`).

`Intact` needs to know what a P. file can be after any number of attempts.
`Partial` says: the beginning of the file, or something whose length betrays it,
because it is longer than the file or no whole number of blocks; a transfer
that is taken up again starts at a whole number of blocks, so it appends at
the right place or stays out of line until its size is compared (`Aligned`).
`Receives` and `Awaits` tie the blocks on the wire to the offset at which the
sender started and to the one the receiver asked for.  A short write that
leaves errno 0 is found by its size only if the transfer runs to its end:
`Uncut` says that then nothing else has cut one.  That is why `SizeTells` has
two cases, and why they cannot be joined: after a short write and two kills the
size can be right and the file wrong.

`TftpProofs` proves, for any commands, files, faults, tries, number of daemons
and of block values:

* `StaysBehind` (`NeverAhead`): no daemon of the running command is on a block
  that the client has not reached (get) or sent (put).

A daemon moves on when it receives a packet of its block, so what matters is
what the client put on the network, perhaps long ago.  `AheadInv` says that
whatever is under way from the client to a daemon of the running command, or will
be repeated to it, is of a block that the client reached (`LockStep`), and that
inetd gets requests only and nothing is under way to a daemon that was not
started (`Addressed`), so that a new daemon starts with nothing of an older
command.  th_block has only so many values; a packet matches when
`Wire(n) = blk`, and `Wire(n) <= n` (`WireBelow`) keeps the comparison on the safe
side.  Buffers, conversion and alarms play no part.

`SacProofs` proves, for any contents of `_sactab` one after the other, any
commands of sacadm, any faults and any nesting of signals:

* `RestartsLimited` (`RestartLimit`): a port monitor is started once and then
  restarted at most rsmax times, until it is told to start again, and once more
  for each time that two handlers decided on a start at once;
* `TypeCorrect` (`TypeOK`), with the values of sc_lstate and how far sc_rscnt can
  pass sc_rsmax.

Both follow from `SacInv`.  Its heart is `Within`, which `Limited` spells out: of
the doubled starts some, x, are restarts beyond the limit and the others, y,
were not counted; then the restarts counted and about to be counted are at most
rsmax + x, and the starts done and about to be done at most 1 + the restarts +
y.  What is about to be done is on the stack: `Count(stack, t, Counting)` are
the handlers that have found that there is a restart left and not counted it yet,
`Count(stack, t, Starting)` those that come to start it.  Without these the limit
is not inductive, for an interrupted handler acts on what it found long ago.

To know what steps make of the stack, `SacInv` also says what may be on it
(`StackOK`): a frame is a first task and then only tasks that can wait behind
others (`Chain`: none of these starts anything), the main program is at the
bottom, and under a reading of the tables there are only handlers about port
monitors that stay (so that `remove` leaves no task behind about a port monitor
that is gone).  `GoesOnIs` and `HandleIs` show how `GoesOn` and `Handle` change
the counts; each task then has a lemma of its own, most of them one citation of
`QuietTask` (it starts nothing) or of `BusyStep` (it may).

`Pk` uses the `FoldLeft` of the community modules, whose induction theorems the
provers cannot use.  `FoldProofs` replaces them: a fold is a function on the
subsets of the positions, and if there were a subset on which it leaves what it
should stay within, there would be a smallest one.

The proofs use only the named assumptions of the modules, which TLC evaluates on
the runs: `WindowAssumption`, `ConversationAssumption`, `LockAssumption`, `SeqAssumption`, `SccsAssumption`,
`BufAssumption`, `TftpAssumption`, and `ScenarioAssumption` of `UuCntrl` and of
`Sac`.

Checked by TLC and not proved:

* all liveness, and `CopiesFile` of `Tftp`: the former is outside the prover's
  reach, the latter and `GetSurvives` need what the netascii conversion, a
  fold over the file, computes for every file;
* that `PkConversation` behaves like `PkWindow` is not shown formally; both are
  proved to implement the same `PacketLink`;
* `TypeOK` of `Tftp`, whose bound on the counters is one on that fold;
* `KeepsState` of `Sac`: it needs, for every frame on the stack, what it is about
  to set and what that was decided on, besides sc_lstate and every answer that is
  on its way;
* `Agreement` of `Sac`, which needs the order of the messages in both pipes and
  which of two processes of a tag takes them.

## 5. Plan

1. done: packet driver, its abstract promise, its window with proofs; lock
   files and job numbers with proofs; master and slave, with proofs that they
   stay in step; TFTP with its abstract specification, with a proof of
   `NeverAhead`; service access controller; SCCS with proofs of its safety.
2. done: proofs of `NeverLost` and `Intact` of `UuCntrl`, of `TypeOK`
   and `RestartLimit` of `Sac`, and of the safety of `PkConversation`
   with its refinement of `PacketLink`.  Left: `KeepsState` and `Agreement` of `Sac`.
3. `gnxseq.c` on `UuLock` (two-phase update; a kill between unlink and link;
   `ulkseq` of a process that did not get the lock removes another's `SQTMP`),
   `systat.c`, the talk daemon, the mailbox lock.

## 6. Not modelled

The shell, awk, sed, grep, dc, ls, pr, pax and the other filters and file
utilities are the bulk of the repository: sequential programs without state
shared with others, whose correctness is that of text processing, which small
instances of a state machine do not show.  The libraries validate input.
Dialing, login chat and terminal handling are device I/O.  uuxqt, uusched, uux
and uucp use the lock files and queues that are modelled; their own work is on
names and permissions.  The protocols of `eio.c`, `xio.c` and `dio.c` have no
state of their own.
