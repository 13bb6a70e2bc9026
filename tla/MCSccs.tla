------------------------------- MODULE MCSccs -------------------------------
EXTENDS Sccs

CONSTANTS A, B, C

GetCmd(r, b) == [op |-> "get", r |-> r, b |-> b]
DeltaCmd(r) == [op |-> "delta", r |-> r, b |-> FALSE]
UngetCmd(r) == [op |-> "unget", r |-> r, b |-> FALSE]
RmdelCmd(r) == [op |-> "rmdel", r |-> r, b |-> FALSE]

get0 == GetCmd(NoSid, FALSE)
delta0 == DeltaCmd(NoSid)
unget0 == UngetCmd(NoSid)
Sid(r, l) == <<r, l, 0, 0>>

Script(a, b, c) == [u \in User |-> CASE u = A -> a [] u = B -> b [] u = C -> c]

\* Two edits and their deltas, of one version when the file has the j flag.
Pairs == [joint : BOOLEAN,
          script : {Script(<<get0, delta0>>, <<GetCmd(Sid(1, 1), FALSE), delta0>>, <<>>)}]

\* A delta that is tried again, and an edit that is given back.
Again == [joint : {FALSE},
          script : {Script(<<get0, delta0, delta0, unget0>>, <<get0>>, <<>>),
                    Script(<<get0, unget0, get0>>, <<get0, delta0>>, <<>>)}]

\* Two commands wait for the lock of a third.
Three == [joint : {TRUE}, script : {Script(<<get0>>, <<get0>>, <<get0>>)}]

\* A delta is removed while it may be edited, and made again.
Remove == [joint : {FALSE},
           script : {Script(<<get0, delta0, get0, delta0>>, <<RmdelCmd(Sid(1, 2))>>, <<>>)}]

\* A new release, then branches of the first one, by number and by -b.
Branch == [joint : {TRUE},
           script : {Script(<<GetCmd(Sid(2, 0), FALSE), DeltaCmd(Sid(2, 1)),
                              GetCmd(Sid(1, 1), FALSE), DeltaCmd(Sid(1, 1)),
                              GetCmd(<<1, 1, 1, 1>>, TRUE)>>,
                            <<>>, <<GetCmd(Sid(1, 1), FALSE)>>),
                     Script(<<GetCmd(Sid(1, 1), TRUE), delta0,
                              GetCmd(<<1, 1, 1, 0>>, FALSE), delta0>>,
                            <<>>, <<GetCmd(Sid(1, 1), FALSE)>>)}]

Scenarios == Pairs \cup Again \cup Three \cup Remove \cup Branch

\* A works on the trunk and B on a branch, without the j flag.
Overlap == [joint : {FALSE},
            script : {Script(<<get0, delta0, get0, delta0>>,
                             <<GetCmd(Sid(1, 1), FALSE), delta0>>, <<>>)}]
============================================================================
