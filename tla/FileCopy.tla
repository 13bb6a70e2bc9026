------------------------------ MODULE FileCopy ------------------------------
(***************************************************************************)
(* What a TFTP command promises: the copy is at every moment the beginning *)
(* of the file, and the command reports success only when it is all of it. *)
(***************************************************************************)
EXTENDS Integers, SequencesExt

VARIABLES source, copy, status
copyVars == <<source, copy, status>>

Init ==
    /\ source = <<>>
    /\ copy = <<>>
    /\ status = "idle"

\* A get or put command is given.
Begin ==
    /\ status # "busy"
    /\ status' = "busy"
    /\ source' \in Seq(STRING)
    /\ copy' = <<>>

\* More of the file arrives; a command that gave up may leave someone
\* writing at the other end.
Extend ==
    /\ status # "ok"
    /\ IsPrefix(copy, copy')
    /\ IsPrefix(copy', source)
    /\ UNCHANGED <<source, status>>

\* The command reports the end of the transfer.
Finish ==
    /\ status = "busy"
    /\ copy' = source
    /\ status' = "ok"
    /\ UNCHANGED source

\* The command reports an error, or that it timed out.
GiveUp ==
    /\ status = "busy"
    /\ status' \in {"error", "timed out"}
    /\ IsPrefix(copy, copy')
    /\ IsPrefix(copy', source)
    /\ UNCHANGED source

Next == Begin \/ Extend \/ Finish \/ GiveUp

Spec == Init /\ [][Next]_copyVars
=============================================================================
