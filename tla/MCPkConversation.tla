-------------------------- MODULE MCPkConversation --------------------------
(***************************************************************************)
(* Scenarios for PkConversation.                                           *)
(***************************************************************************)
EXTENDS PkConversation

\* A command and its answer.
Exchange == <<[by |-> "m", n |-> 1], [by |-> "s", n |-> 1]>>

\* A file of two packets and its end, and the answer.
Transfer == <<[by |-> "m", n |-> 3], [by |-> "s", n |-> 1]>>

\* A file long enough for the sequence numbers to come round, an answer of
\* two packets, and one more turn.
LongTransfer == <<[by |-> "m", n |-> 9], [by |-> "s", n |-> 2], [by |-> "m", n |-> 1]>>

AllKinds == {"delay", "lose", "header", "body", "noise", "cut", "hangup"}

\* A short transfer with two faults; one in which the sequence numbers come
\* round, with one; an opening between ends configured differently; one with a
\* size that pksizes[] does not have.
SafetyScenarios ==
    {[script |-> Transfer, windows |-> {2}, sizes |-> {64}, icount |-> 2,
      kinds |-> AllKinds \ {"cut"}, most |-> 2],
     [script |-> LongTransfer, windows |-> {7}, sizes |-> {64}, icount |-> 7,
      kinds |-> AllKinds, most |-> 1],
     [script |-> Exchange, windows |-> {1, 2}, sizes |-> {64, 128}, icount |-> 1,
      kinds |-> {"delay", "lose", "header", "noise"}, most |-> 1],
     [script |-> Exchange, windows |-> {2}, sizes |-> {64, 100}, icount |-> 1,
      kinds |-> {}, most |-> 0]}

\* Three damaged bodies; any two faults; an end that drops all data.
LivenessScenarios ==
    {[script |-> Transfer, windows |-> {3}, sizes |-> {64}, icount |-> 2,
      kinds |-> {"body"}, most |-> 3],
     [script |-> Exchange, windows |-> {2}, sizes |-> {64}, icount |-> 2,
      kinds |-> AllKinds, most |-> 2],
     [script |-> Exchange, windows |-> {2}, sizes |-> {64, 100}, icount |-> 2,
      kinds |-> {}, most |-> 0]}
=============================================================================
