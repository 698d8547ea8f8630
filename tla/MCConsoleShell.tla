---------------------------- MODULE MCConsoleShell ----------------------------
EXTENDS ConsoleShell

TwoBackends == {[url |-> "here", rate |-> 10], [url |-> "there", rate |-> 5]}
Here == [url |-> "here", rate |-> 10]

\* The other backend never has a task, the client's own data none of the directive.
HereAlone == {<<"all", "here">>, <<"d1", "here">>}

\* Loads of these views may overtake each other; the others begin one at a time.
Overlapping == [v \in Views |-> IF v \in Selecting \cup {"header"} THEN 2 ELSE 1]
=============================================================================
