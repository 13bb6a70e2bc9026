----------------------------- MODULE MCUuCntrl ------------------------------
EXTENDS UuCntrl

S(at, len, spooled, refuse) ==
    [at |-> at, type |-> "S", len |-> len, spooled |-> spooled, orig |-> ~spooled, refuse |-> refuse,
     statf |-> FALSE]
R(at, len, refuse) ==
    [at |-> at, type |-> "R", len |-> len, spooled |-> FALSE, orig |-> FALSE, refuse |-> refuse,
     statf |-> FALSE]

Faults(some) == [k \in Kinds |-> IF k \in DOMAIN some THEN some[k] ELSE 0]

Plan(jobs, files, restart, switch, some) ==
    [jobs |-> jobs, files |-> files, restart |-> restart, switch |-> switch, faults |-> Faults(some)]

\* One machine sends and fetches, the other sends.
Mixed == <<S(1, 3, TRUE, "no"), R(1, 3, "no"), S(2, 2, TRUE, "no")>>
MixedFiles == <<<<<<1, 2>>>>, <<<<3>>>>>>

\* One file is sent.
One == <<S(1, 3, TRUE, "no")>>
OneFile == <<<<<<1>>>>, <<>>>>

\* A longer one is sent.
Long == <<S(1, 5, TRUE, "no")>>

\* Jobs that are refused, and one without a D. file, in two C. files.
Refused == <<S(1, 1, TRUE, "there"), S(1, 3, FALSE, "no"), R(1, 1, "there"), S(2, 1, TRUE, "here")>>
RefusedFiles == <<<<<<1, 2>>, <<3>>>>, <<<<4>>>>>>

\* The same jobs, submitted with option o.
WithStatus(jobs) == [j \in DOMAIN jobs |-> [jobs[j] EXCEPT !.statf = TRUE]]

CntrlScenarios ==
    {Plan(Mixed, MixedFiles, r, s, [break |-> 1, kill |-> 2]) : r \in BOOLEAN, s \in BOOLEAN}
    \cup {Plan(Mixed, MixedFiles, TRUE, TRUE, f) :
             f \in {[kill |-> 1, killmark |-> 1], [break |-> 1, full |-> 1], [short |-> 1], [killmove |-> 1],
                   [kill |-> 1, notmp |-> 1], [break |-> 1, ulimit |-> 1]}}
    \cup {Plan(One, OneFile, TRUE, TRUE, f) :
             f \in {[kill |-> 2, killmove |-> 1, full |-> 1, notmp |-> 1],
                    [break |-> 2, ulimit |-> 1, nomove |-> 1]}}
    \cup {Plan(Long, OneFile, TRUE, TRUE, f) :
             f \in {[kill |-> 1, full |-> 2], [kill |-> 2, short |-> 1, full |-> 1]}}
    \cup {Plan(jobs, RefusedFiles, TRUE, s, [kill |-> 1, nomove |-> 1]) :
             jobs \in {Refused, WithStatus(Refused)}, s \in BOOLEAN}

\* A uucico is killed once, while it receives a file.
OneKill == {Plan(One, OneFile, TRUE, TRUE, [kill |-> 1])}
=============================================================================
