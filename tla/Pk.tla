--------------------------------- MODULE Pk ---------------------------------
(***************************************************************************)
(* The packet driver of uucico's "g" protocol, one end of the line:        *)
(* cmd/bnu/pk0.c, pk1.c, pk.h and pkdefs.c.                                *)
(*                                                                         *)
(* A value of type PackType is a struct pack together with the two globals *)
(* Connodata and Ntimeout that the driver keeps beside it.  Each function  *)
(* of the driver is an operator from the old struct pack to the new one;   *)
(* pkoutput, the only function that writes to the line, comes as a pair:   *)
(* pkoutput(p) is the new struct and Transmitted(p) what it wrote.         *)
(*                                                                         *)
(* Left out because nothing in the driver ever reads them: p_timer,        *)
(* p_nout, p_tout, p_srxmit and the state bits WAITO and BADFRAME.         *)
(* p_obusy is left out because pkxstart is only called by pkoutput, so the *)
(* nested pkoutput at its end always finds p_obusy set and returns.  The   *)
(* one case where that matters, a write of pkxstart that fails, is left    *)
(* out too: pkfail then leaves pkoutput by a longjmp with p_obusy still    *)
(* set, and pkclose says nothing any more.  For the other end that is a    *)
(* hangup whose CLOSE is lost.                                             *)
(***************************************************************************)
EXTENDS Naturals, FiniteSets, SequencesExt

(***************************************************************************)
(* Sequence numbers.  next[] of pkdefs.c is the successor modulo 8.        *)
(***************************************************************************)
Seq8 == 0..7

next(x) == (x + 1) % 8

\* The numbers after x, up to and including y, in the order next[] visits
\* them: the path of the loops of pksack and pkaccept.
PathTo(x, y) == [i \in 1..((y + 8 - x) % 8) |-> (x + i) % 8]

\* The n numbers that follow x.
RunAfter(x, n) == [i \in 1..n |-> (x + i) % 8]

(***************************************************************************)
(* Packet sizes.  INITB carries the size of the packets its sender wants   *)
(* to receive as the logarithm pksize; the other end looks it up again in  *)
(* pksizes[].                                                              *)
(***************************************************************************)
pksizes(k) == IF k \in 1..8 THEN 16 * 2^k ELSE 1

pksize(n) == Max({k \in 0..7 : 2^k <= n \div 32})

(***************************************************************************)
(* Messages of the line.  A control frame carries a value of three bits,   *)
(* a data frame its size code k, its sequence number, the number of the    *)
(* last packet its sender received and a body.  A body is what pkwrite was *)
(* given: its number in the stream and its length, 0 or 1 packets (the     *)
(* zero-length packet ends a file).                                        *)
(***************************************************************************)
Controls == <<"CLOSE", "RJ", "RR", "INITC", "INITB", "INITA">>

Bodies == [n : Nat, len : {0, 1}]

ControlFrames == [type : Range(Controls), val : Seq8]

DataFrames == [type : {"DATA"}, k : 1..8, seq : Seq8, ack : Seq8, body : Bodies]

(***************************************************************************)
(* An output buffer p_os[x], p_ob[x] is the set of its status bits and the *)
(* body in it.  An input buffer p_is[x], p_ib[x] is free ("null"), holds a *)
(* frame as pkdata stored it ("raw", p_is is the control byte), or was     *)
(* accepted by pkaccept ("copy").                                          *)
(***************************************************************************)
NoBody == [n |-> 0, len |-> 0]

NullSlot == [st |-> "null", seq |-> 0, good |-> FALSE, body |-> NoBody]

Slots == [st : {"null", "raw", "mark", "copy"}, seq : Seq8,
          good : BOOLEAN, body : Bodies]

PackType ==
    [state : SUBSET {"INITa", "INITb", "LIVE", "RXMIT", "DRAINO", "DOWN", "RCLOSE"},
     msg : SUBSET Range(Controls), rmsg : SUBSET Range(Controls),
     ps : Seq8, pr : Seq8, rpr : Seq8, nxtps : Seq8, pscopy : Seq8,
     os : [Seq8 -> SUBSET {"READY", "SENT"}], ob : [Seq8 -> Bodies],
     in : [Seq8 -> Slots], imap : SUBSET Seq8, ipool : 0..7,
     rcount : 0..7, xcount : 0..7, rwindow : 1..7, swindow : 1..7,
     rsize : 32..4096, lpsize : 0..8, connodata : Nat, ntimeout : Nat]

\* pkopen: the struct pack before synchronization starts, for a configured
\* number of windows and packet size.
pknew(windows, packsize) ==
    [state |-> {}, msg |-> {"INITA"}, rmsg |-> {"INITA"},
     ps |-> 0, pr |-> 0, rpr |-> 0, nxtps |-> 0, pscopy |-> 0,
     os |-> [x \in Seq8 |-> {}], ob |-> [x \in Seq8 |-> NoBody],
     in |-> [x \in Seq8 |-> NullSlot], imap |-> {}, ipool |-> windows,
     rcount |-> 0, xcount |-> 0, rwindow |-> windows, swindow |-> windows,
     rsize |-> packsize, lpsize |-> 0, connodata |-> 0, ntimeout |-> 0]

pkreset(p) == [p EXCEPT !.ps = 0, !.pr = 0, !.rpr = 0, !.nxtps = 1]

-----------------------------------------------------------------------------
(***************************************************************************)
(* Output                                                                  *)
(***************************************************************************)

\* The packet pkoutput looks at first.
Candidate(p) == IF "RXMIT" \in p.state THEN next(p.rpr) ELSE p.nxtps

\* A control message goes first, unless the only one is an RR and a data
\* packet, which carries the same acknowledgement, is ready.
ControlFirst(p) ==
    /\ p.msg # {}
    /\ p.msg # {"RR"} \/ "READY" \notin p.os[Candidate(p)]

\* The message with the lowest bit in p_msg.
LowestControl(p) == CHOOSE c \in p.msg :
    \A d \in p.msg : (CHOOSE i \in 1..6 : Controls[i] = c) <= (CHOOSE i \in 1..6 : Controls[i] = d)

\* Mutant: RR and RJ name the packet the end wants next.
ControlValue_Next(p, c) ==
    CASE c = "CLOSE" -> 0
      [] c \in {"RJ", "RR"} -> next(p.pr)
      [] c = "INITB" -> pksize(p.rsize)
      [] c \in {"INITC", "INITA"} -> p.rwindow

ControlValue(p, c) ==
    CASE c = "CLOSE" -> 0
      [] c \in {"RJ", "RR"} -> p.pr
      [] c = "INITB" -> pksize(p.rsize)
      [] c \in {"INITC", "INITA"} -> p.rwindow

SendsData(p) ==
    /\ ~ControlFirst(p)
    /\ "DOWN" \notin p.state
    /\ p.os[Candidate(p)] # {}

\* What pkoutput writes to the line (pkxstart): at most one frame.
Transmitted(p) ==
    IF ControlFirst(p)
    THEN <<[type |-> LowestControl(p), val |-> ControlValue(p, LowestControl(p))]>>
    ELSE IF SendsData(p)
         THEN <<[type |-> "DATA", k |-> p.lpsize, seq |-> Candidate(p),
                 ack |-> p.pr, body |-> p.ob[Candidate(p)]]>>
         ELSE <<>>

pkoutput(p) ==
    LET x == Candidate(p)
    IN  IF ControlFirst(p)
        THEN [p EXCEPT !.nxtps = x, !.msg = @ \ {LowestControl(p)}]
        ELSE IF SendsData(p)
             THEN [p EXCEPT !.nxtps = next(x), !.os[x] = @ \cup {"SENT"},
                            !.state = @ \ {"RXMIT"}, !.connodata = 0]
             ELSE [p EXCEPT !.nxtps = x]

-----------------------------------------------------------------------------
(***************************************************************************)
(* Input                                                                   *)
(***************************************************************************)

\* Mutant: the count of output buffers in use is not kept.
pksack_NoCount(p) ==
    LET Release(q, x) ==
            IF "SENT" \in q.os[x]
            THEN [q EXCEPT !.os[x] = {}, !.ob[x] = NoBody, !.ps = x, !.connodata = 0]
            ELSE q
    IN  FoldLeft(Release, p, PathTo(p.ps, p.rpr))

\* Free the packets up to p_rpr that were sent.
pksack(p) ==
    LET Release(q, x) ==
            IF "SENT" \in q.os[x]
            THEN [q EXCEPT !.os[x] = {}, !.ob[x] = NoBody, !.ps = x,
                           !.xcount = @ - 1, !.connodata = 0]
            ELSE q
    IN  FoldLeft(Release, p, PathTo(p.ps, p.rpr))

\* Mutant: the size in INITB is used without the increment.
ApplyControl_RawSize(p, f) ==
    CASE f.type = "INITB" ->
            [p EXCEPT !.lpsize = f.val,
                      !.state = IF "LIVE" \in @ THEN @ ELSE @ \cup {"INITb"},
                      !.rmsg = IF "INITa" \in p.state THEN @ \ {"INITA"} ELSE @,
                      !.msg = IF p.state \cap {"LIVE", "INITa"} # {} THEN @ \cup {"INITC"} ELSE @]
      [] f.type = "INITC" ->
            IF {"INITa", "INITb"} \subseteq p.state
            THEN [p EXCEPT !.state = {"LIVE"}, !.rmsg = @ \ {"INITB"}, !.swindow = f.val]
            ELSE [p EXCEPT !.msg = @ \cup {"INITB"}, !.swindow = f.val]
      [] f.type = "INITA" ->
            [p EXCEPT !.state = @ \cup {"INITa"}, !.msg = @ \cup {"INITB"},
                      !.rmsg = @ \cup {"INITB"}, !.swindow = f.val]
      [] f.type \in {"RJ", "RR"} -> pksack([p EXCEPT !.rpr = f.val])
      [] f.type = "CLOSE" -> [p EXCEPT !.state = {"DOWN", "RCLOSE"}]

\* pkcntl up to its final "if (pk->p_msg) pkoutput(pk)".
ApplyControl(p, f) ==
    CASE f.type = "INITB" ->
            LET q == [p EXCEPT !.lpsize = f.val + 1]
            IN  IF "LIVE" \in q.state
                THEN [q EXCEPT !.msg = @ \cup {"INITC"}]
                ELSE IF "INITa" \in q.state
                     THEN [q EXCEPT !.state = @ \cup {"INITb"},
                                    !.rmsg = @ \ {"INITA"}, !.msg = @ \cup {"INITC"}]
                     ELSE [q EXCEPT !.state = @ \cup {"INITb"}]
      [] f.type = "INITC" ->
            LET q == IF {"INITa", "INITb"} \subseteq p.state
                     THEN [p EXCEPT !.state = {"LIVE"}, !.rmsg = @ \ {"INITB"}]
                     ELSE [p EXCEPT !.msg = @ \cup {"INITB"}]
            IN  IF f.val # 0 THEN [q EXCEPT !.swindow = f.val] ELSE q
      [] f.type = "INITA" ->
            IF f.val # 0
            THEN [p EXCEPT !.state = @ \cup {"INITa"}, !.msg = @ \cup {"INITB"},
                           !.rmsg = @ \cup {"INITB"}, !.swindow = f.val]
            ELSE p
      [] f.type = "RJ" ->
            pksack([p EXCEPT !.state = @ \cup {"RXMIT"}, !.msg = @ \cup {"RR"}, !.rpr = f.val])
      [] f.type = "RR" -> pksack([p EXCEPT !.rpr = f.val])
      [] f.type = "CLOSE" -> [p EXCEPT !.state = {"DOWN", "RCLOSE"}]

\* Does pkcntl, having applied f, go on to pkoutput?
ControlReplies(p, f) == f.type # "CLOSE" /\ ApplyControl(p, f).msg # {}

\* The slots pkdata tries, in its order: from p_pr downwards, next[p_pr] excluded.
FreeSlots(p) == {i \in 0..6 : p.in[(p.pr + 8 - i) % 8].st = "null"}

\* pkdata of an end that takes the packet: the buffer bp, already out of
\* the pool, is put in a slot or back into the pool.
StoreFrame(p, f, good) ==
    IF FreeSlots(p) = {}
    THEN [p EXCEPT !.ipool = @ + 1]
    ELSE LET x == (p.pr + 8 - Min(FreeSlots(p))) % 8
         IN  [p EXCEPT !.imap = @ \cup {x},
                       !.in[x] = [st |-> "raw", seq |-> f.seq, good |-> good, body |-> f.body]]

\* pkdata ignores data before the line is up and after pkclose.
IgnoresData(p) == "DRAINO" \in p.state \/ "LIVE" \notin p.state

-----------------------------------------------------------------------------
(***************************************************************************)
(* pkaccept and pkread                                                     *)
(***************************************************************************)

InWindow(p) == Range(RunAfter(p.pr, p.rwindow))

\* The test "p_is[x] & (B_COPY | B_MARK)".  In a raw slot p_is is the
\* control byte of the frame, whose sequence number occupies those bits.
Marked(s) == s.st \in {"mark", "copy"} \/ (s.st = "raw" /\ s.seq \notin {0, 1})

\* Mutant: the buffer does not go back to the pool.
FreeSlot_Leak(a, x) == [a EXCEPT !.p.in[x] = NullSlot]

FreeSlot(a, x) ==
    [a EXCEPT !.p.in[x] = NullSlot, !.p.ipool = @ + 1]

\* The body of the first loop of pkaccept for slot x; a carries the driver
\* and the counters bad and skip.
MarkSlot(a, x) ==
    LET s == a.p.in[x]
        y == s.seq
    IN  IF s.st # "raw" \/ ~s.good
        THEN FreeSlot([a EXCEPT !.bad = @ + 1], x)
        ELSE IF y \notin InWindow(a.p) \/ (y # x /\ Marked(a.p.in[y]))
             THEN FreeSlot([a EXCEPT !.skip = @ + 1], x)
             ELSE [a EXCEPT !.p.in[x] = a.p.in[y], !.p.in[y] = [s EXCEPT !.st = "mark"]]

\* The body of the second loop: what follows a gap is thrown away.
ScanSlot(a, x) ==
    IF ~Marked(a.p.in[x])
    THEN [a EXCEPT !.gap = TRUE]
    ELSE IF a.gap
         THEN FreeSlot([a EXCEPT !.skip = @ + 1], x)
         ELSE [a EXCEPT !.p.in[x].st = "copy", !.accept = @ + 1]

\* The first loop of pkaccept, over the slots that were in p_imap, which is
\* empty from here on.
MarkFrames(p) ==
    LET Mark(a, x) == IF x \in p.imap THEN MarkSlot(a, x) ELSE a
    IN  FoldLeft(Mark, [p |-> [p EXCEPT !.imap = {}],
                        bad |-> 0, skip |-> 0, gap |-> FALSE, accept |-> 0],
                 [i \in 1..8 |-> i - 1])

\* The second loop, over the window.
ScanWindow(a) == FoldLeft(ScanSlot, a, RunAfter(a.p.pr, a.p.rwindow))

\* Mutant: p_imap is not reset.
pkaccept_KeepMap(p) ==
    LET a == ScanWindow(MarkFrames(p))
    IN  [a.p EXCEPT !.imap = p.imap, !.rcount = a.accept,
                    !.msg = @ \cup (IF a.bad > 0 THEN {"RJ"} ELSE {})
                              \cup (IF a.skip > 0 THEN {"RR"} ELSE {})]

\* Mutant: a damaged frame is dropped without an RJ.
pkaccept_NoReject(p) ==
    LET a == ScanWindow(MarkFrames(p))
    IN  [a.p EXCEPT !.rcount = a.accept,
                    !.msg = @ \cup (IF a.skip > 0 THEN {"RR"} ELSE {})]

\* pkaccept once there is input (p_imap # 0 or p_rcount # 0).
pkaccept(p) ==
    LET a == ScanWindow(MarkFrames(p))
    IN  [a.p EXCEPT !.rcount = a.accept,
                    !.msg = @ \cup (IF a.bad > 0 THEN {"RJ"} ELSE {})
                              \cup (IF a.skip > 0 THEN {"RR"} ELSE {})]

\* The accepted packets a pkread of icount packets copies out: it stops at
\* the first slot that is not accepted, when icount is used up, before a
\* zero-length packet that is not its first, and after one that is.
ReadCount(p, icount) ==
    LET slot(i) == p.in[(p.pr + i) % 8]
        Copies(k) == /\ \A i \in 1..k : slot(i).st = "copy" /\ (slot(i).body.len = 0 => k = 1)
    IN  Max({k \in 0..Min({icount, 7}) : Copies(k)})

\* The bodies that pkread hands to its caller.
ReadBodies(p, icount) == [i \in 1..ReadCount(p, icount) |-> p.in[(p.pr + i) % 8].body]

\* pkread after pkaccept, up to its final pkoutput.
Consume(p, icount) ==
    LET k == ReadCount(p, icount)
        used == Range(RunAfter(p.pr, k))
    IN  [p EXCEPT !.pr = (@ + k) % 8, !.ipool = @ + k, !.rcount = @ - k,
                  !.in = [x \in Seq8 |-> IF x \in used THEN NullSlot ELSE @[x]],
                  !.msg = @ \cup {"RR"}, !.connodata = 0]

\* pkwrite: put one packet in the next output buffer, up to its pkoutput.
QueuePacket(p, body) ==
    LET x == next(p.pscopy)
    IN  [p EXCEPT !.os[x] = {"READY"}, !.ob[x] = body, !.pscopy = x, !.xcount = @ + 1]

\* The part of pkgetpack after its label retransmit, up to its pkoutput.
RequestRetransmit(p) ==
    [p EXCEPT !.msg = IF @ \cup p.rmsg = {} THEN {"RR"} ELSE @ \cup p.rmsg,
              !.state = IF "LIVE" \in @ THEN @ \cup {"RXMIT"} ELSE @]
=============================================================================
