------------------------------- MODULE MCUuSeq ------------------------------
(***************************************************************************)
(* Instances of UuSeq.                                                     *)
(***************************************************************************)
EXTENDS UuSeq, TLC

PidSymmetry == Permutations(Procs)

\* A file whose number is about to come round, no file, and a file without
\* a number.
Files == {65534, Absent, Empty}
=============================================================================
