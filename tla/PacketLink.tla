----------------------------- MODULE PacketLink -----------------------------
(***************************************************************************)
(* What the packet driver promises one writer and one reader, and no word  *)
(* of how: packets are numbered 1, 2, ... as pkwrite takes them, pkread    *)
(* hands them out in that order, each once, and the writer forgets a       *)
(* packet only when the reader has it.  At most W packets are remembered.  *)
(***************************************************************************)
EXTENDS Naturals, Sequences

CONSTANT W

VARIABLES
    written,    \* how many packets pkwrite took
    read,       \* the packets pkread handed out
    released    \* how many packets the writer has forgotten

linkVars == <<written, read, released>>

Init == written = 0 /\ read = <<>> /\ released = 0

Write ==
    /\ written < released + W
    /\ written' = written + 1
    /\ UNCHANGED <<read, released>>

Deliver ==
    /\ \E n \in Len(read)+1 .. written : read' = [i \in 1..n |-> i]
    /\ UNCHANGED <<written, released>>

Release ==
    /\ \E n \in released+1 .. Len(read) : released' = n
    /\ UNCHANGED <<written, read>>

Next == Write \/ Deliver \/ Release

Spec == Init /\ [][Next]_linkVars
=============================================================================
