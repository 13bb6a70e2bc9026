------------------------------- MODULE MCSac --------------------------------
EXTENDS Sac

Lines(rsmax, D, X) == [rsmax |-> rsmax, D |-> D, X |-> X]
Cmd(type, tag) == [type |-> type, tag |-> tag]

One == <<Lines(1, FALSE, FALSE)>>
Less == <<Lines(0, FALSE, FALSE)>>
Off == <<Lines(1, TRUE, TRUE)>>
Two == <<Lines(1, FALSE, FALSE), Lines(0, TRUE, FALSE)>>

Scenario(tables, commands, kinds, most) ==
    [tables |-> tables, commands |-> commands, kinds |-> kinds, most |-> most]

Orders == {<<Cmd("KILL", 1), Cmd("START", 1)>>, <<Cmd("DISABLE", 1), Cmd("ENABLE", 1)>>,
             <<Cmd("DISABLE", 1), Cmd("PMREAD", 1)>>}

InTurn ==
    {Scenario(<<One>>, c, k, 2) : c \in Orders,
        k \in {{"die", "hang", "nofork"}, {"hang", "nopipe", "crash"}, {"slow", "die", "crash"}}}
    \cup {Scenario(<<Two>>, <<Cmd("DISABLE", 1)>>, {"die"}, 2)}
    \cup {Scenario(<<One, Two, One>>, <<Cmd("SACREAD", 1), Cmd("ENABLE", 2), Cmd("SACREAD", 1), Cmd("START", 2)>>, {"die", "hang"}, 1)}
    \cup {Scenario(<<One, Less>>, <<Cmd("SACREAD", 1)>>, {"die"}, 2)}
    \cup {Scenario(<<Off>>, <<Cmd("START", 1)>>, {"crash", "hang"}, 2)}

\* Signals that interrupt handlers.
Nest ==
    {Scenario(<<One>>, c, {"nest", "die"}, 2) : c \in Orders}
    \cup {Scenario(<<One>>, <<Cmd("DISABLE", 1)>>, {"nest", "hang", "die"}, 3)}
    \cup {Scenario(<<One, Two, One>>, <<Cmd("SACREAD", 1), Cmd("SACREAD", 1)>>, {"nest"}, 1)}
    \cup {Scenario(<<One>>, <<Cmd("DISABLE", 1)>>, {"nest", "crash"}, 2)}

SafScenarios == InTurn \cup Nest
=============================================================================
