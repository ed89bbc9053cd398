------------------------------ MODULE MCStateGraph ------------------------------
(* Graphs of four nodes: a fork, a router, a loop and a mixed first step.     *)
EXTENDS StateGraph, TLC
CONSTANTS a, b, c, d
Graph(start, ra, rb, rc, rd, parallel) ==
  [start |-> start, routes |-> (a :> ra) @@ (b :> rb) @@ (c :> rc) @@ (d :> rd),
   before |-> {}, after |-> {}, parallel |-> parallel, isolate |-> FALSE]
Fork == Graph(<<a>>, {<<b, c>>}, {<<d>>}, {<<d>>}, {<<END>>}, {b, c})
Routed == Graph(<<a>>, {<<b>>, <<c>>}, {<<c>>}, {<<d>>, <<END>>}, {<<END>>}, {b, c})
Loop == Graph(<<a>>, {<<b>>}, {<<a>>, <<END>>}, {<<END>>}, {<<END>>}, {})
Wide == Graph(<<a, b, c>>, {<<d>>}, {<<d>>}, {<<d>>, <<END>>}, {<<END>>}, {a, c})
Gating(g) == [g EXCEPT !.before = {b, d}, !.after = {a}]
Isolating(g) == [g EXCEPT !.isolate = TRUE]
AllGraphs == {Fork, Gating(Fork), Gating(Routed), Gating(Loop), Isolating(Fork), Isolating(Wide)}
IsolatingFork == {Isolating(Fork)}
=================================================================================
