------------------------------ MODULE TftpSubs ------------------------------
(***************************************************************************)
(* tftpsubs.c: the two buffers between a TFTP transfer and its file, and   *)
(* the conversion to and from netascii.                                    *)
(*                                                                         *)
(* The statics of the file are one record.  A buffer holds a packet and    *)
(* its counter; file is what is still to be read from the file or what was *)
(* written to it, as a sequence of characters: other characters than CR,   *)
(* LF and NUL stand for themselves.                                        *)
(***************************************************************************)
EXTENDS Integers, SequencesExt

CONSTANT SEGSIZE    \* characters of a full block

ASSUME SegsizeAssumption == SEGSIZE \in Nat \ {0}

BF_ALLOC == -3
BF_FREE == -2

Packet(op, blk, data) == [op |-> op, blk |-> blk, data |-> data]
NoPacket == Packet("none", 0, <<>>)

\* w_init (x = 0) and r_init (x = 1).
rw_init(x, file) ==
    [bfs |-> [i \in 0..1 |-> [counter |-> IF i = 0 THEN BF_ALLOC ELSE BF_FREE, pkt |-> NoPacket]],
     current |-> 0, nextone |-> x, newline |-> FALSE, prevchar |-> "none", file |-> file]

-----------------------------------------------------------------------------
(***************************************************************************)
(* Reading: lf becomes cr,lf and cr becomes cr,nul.                        *)
(***************************************************************************)

\* One turn of the loop in read_ahead; at the end of the file nothing.
PutChar(a, i) ==
    IF a.newline
    THEN [a EXCEPT !.out = Append(@, IF a.prevchar = "LF" THEN "LF" ELSE "NUL"), !.newline = FALSE]
    ELSE IF a.file = <<>> THEN a
    ELSE IF Head(a.file) \in {"CR", "LF"}
    THEN [a EXCEPT !.out = Append(@, "CR"), !.prevchar = Head(a.file), !.newline = TRUE,
                   !.file = Tail(@)]
    ELSE [a EXCEPT !.out = Append(@, Head(a.file)), !.file = Tail(@)]

\* Mutant: a newline whose expansion is cut by the end of a block is forgotten.
NextBlock_Forgets(b, convert) ==
    FoldLeft(PutChar, [out |-> <<>>, newline |-> FALSE, prevchar |-> b.prevchar, file |-> b.file],
             [i \in 1..SEGSIZE |-> i])

\* The block that read_ahead takes from the file, and what is left.
NextBlock(b, convert) ==
    LET start == [out |-> <<>>, newline |-> b.newline, prevchar |-> b.prevchar, file |-> b.file]
        k == IF Len(b.file) < SEGSIZE THEN Len(b.file) ELSE SEGSIZE
    IN  IF convert
        THEN FoldLeft(PutChar, start, [i \in 1..SEGSIZE |-> i])
        ELSE [start EXCEPT !.out = SubSeq(b.file, 1, k), !.file = SubSeq(b.file, k + 1, Len(b.file))]

read_ahead(b, convert) ==
    LET n == NextBlock(b, convert)
    IN  IF b.bfs[b.nextone].counter # BF_FREE
        THEN b
        ELSE [b EXCEPT !.bfs[b.nextone] = [counter |-> Len(n.out), pkt |-> Packet("none", 0, n.out)],
                       !.nextone = 1 - @, !.newline = n.newline, !.prevchar = n.prevchar,
                       !.file = n.file]

\* readit: its caller finds the block with Current.
readit(b, convert) ==
    LET c == [b EXCEPT !.bfs[b.current].counter = BF_FREE, !.current = 1 - @]
    IN  IF c.bfs[c.current].counter = BF_FREE THEN read_ahead(c, convert) ELSE c

Current(b) == b.bfs[b.current].pkt

-----------------------------------------------------------------------------
(***************************************************************************)
(* Writing: cr,nul becomes cr and cr,lf becomes lf.                        *)
(***************************************************************************)

\* One turn of the loop in write_behind: lf is put over the cr before it.
GetChar(a, c) ==
    [file |-> IF a.prevchar = "CR" /\ c = "LF" THEN Append(Front(a.file), c)
              ELSE IF a.prevchar = "CR" /\ c = "NUL" THEN a.file
              ELSE Append(a.file, c),
     prevchar |-> c]

write_behind(b, convert) ==
    LET data == b.bfs[b.nextone].pkt.data
        w == IF convert
             THEN FoldLeft(GetChar, [file |-> b.file, prevchar |-> b.prevchar], data)
             ELSE [file |-> b.file \o data, prevchar |-> b.prevchar]
    IN  IF b.bfs[b.nextone].counter < -1
        THEN b
        ELSE [b EXCEPT !.bfs[b.nextone].counter = BF_FREE, !.nextone = 1 - @,
                       !.file = w.file, !.prevchar = w.prevchar]

\* A datagram is received into the current buffer.
Received(b, pkt) == [b EXCEPT !.bfs[b.current].pkt = pkt]

writeit(b, convert) ==
    LET c == [b EXCEPT !.bfs[b.current].counter = Len(Current(b).data), !.current = 1 - @]
        d == IF c.bfs[c.current].counter # BF_FREE THEN write_behind(c, convert) ELSE c
    IN  [d EXCEPT !.bfs[d.current].counter = BF_ALLOC]
=============================================================================
