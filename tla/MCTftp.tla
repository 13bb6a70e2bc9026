------------------------------- MODULE MCTftp -------------------------------
EXTENDS Tftp

Get(name, convert) == [op |-> "get", name |-> name, convert |-> convert, data |-> <<>>]
Put(name, convert, data) == [op |-> "put", name |-> name, convert |-> convert, data |-> data]

\* Empty and short files, a full block, a newline cut by the end of a block,
\* a file with as many blocks as th_block has values.
Empty == <<>>
Short == <<"a">>
Full == <<"a", "b">>
Text == <<"a", "LF", "CR">>
Long == [i \in 1..(BLOCKS * SEGSIZE) |-> IF i % 2 = 0 THEN "a" ELSE "b"]

files == [empty |-> Empty, short |-> Short, full |-> Full, text |-> Text, long |-> Long,
          new |-> <<>>, newer |-> <<>>]

Scenario(commands, kinds, most) ==
    [commands |-> commands, files |-> files, kinds |-> kinds, most |-> most]

AllFaults == {"lose", "dup", "early"}

CopyScenarios ==
    {Scenario(<<Get(n, FALSE)>>, AllFaults, IF n = "full" THEN 3 ELSE 2) : n \in {"empty", "full", "denied"}}
    \cup {Scenario(<<Get("text", TRUE)>>, AllFaults, 2), Scenario(<<Get("long", FALSE)>>, {"lose"}, 1)}
    \cup {Scenario(<<Put("new", FALSE, d)>>, AllFaults, 2) : d \in {Empty, Full}}
    \cup {Scenario(<<Put("new", FALSE, Long)>>, {}, 0), Scenario(<<Put("denied", FALSE, Full)>>, AllFaults, 1)}
    \cup {Scenario(<<Put("new", TRUE, Text), Get("new", TRUE), Put("newer", FALSE, Short)>>, {}, 0)}
    \cup {Scenario(<<Get("full", FALSE), Get("full", FALSE)>>, AllFaults, 1)}
=============================================================================
