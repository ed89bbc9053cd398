------------------------------ MODULE Supersteps ------------------------------
(***************************************************************************)
(* What the checkpoints of a graph run promise: durable progress is made of  *)
(* whole supersteps.  A superstep runs every scheduled node on the same      *)
(* state, merges the results in graph order and schedules the successors     *)
(* (portable/LANGGRAPH_PATTERN_ALIGNMENT.md:10, "Checkpoint after every      *)
(* completed superstep").  No thread, timeout, cancellation or crash is      *)
(* visible here.                                                             *)
(***************************************************************************)
EXTENDS Naturals, Sequences, SequencesExt

CONSTANTS Nodes,    \* the nodes of the graph
          END,      \* the end marker
          Results   \* what a node can return

VARIABLES graph,    \* start: the first nodes; routes: what may follow each node;
                    \* isolate: whether the failure of a node may be isolated
          durable   \* the last boundary: step, state, next, trace

(* The elements of s that are in set, in their order.                        *)
Only(s, set) ==
  LET kept[k \in 0..Len(s)] == IF k = 0 THEN <<>>
        ELSE IF s[k] \in set THEN Append(kept[k - 1], s[k]) ELSE kept[k - 1]
  IN kept[Len(s)]
Scheduled(next) == Only(next, Nodes)
First(g) == [step |-> 0, state |-> [n \in Nodes |-> "none"], next |-> g.start, trace |-> <<>>]

(* The successors of the nodes ns in order, without repetitions.             *)
Successors(ns, route) ==
  LET seen[k \in 0..Len(ns)] == IF k = 0 THEN <<>>
        ELSE seen[k - 1] \o Only(route[ns[k]], (Nodes \cup {END}) \ Range(seen[k - 1]))
  IN seen[Len(ns)]

(* What a router, or the edges, may answer for each of the nodes ns.         *)
Routings(ns) ==
  {route \in [ns -> UNION {graph.routes[n] : n \in ns}] :
     \A n \in ns : route[n] \in graph.routes[n]}

(* The boundary after `from` when the nodes `merged` returned `result`.      *)
Boundary(from, merged, result, next) ==
  [step  |-> from.step + 1,
   state |-> [n \in Nodes |-> IF Contains(merged, n) THEN result[n] ELSE from.state[n]],
   next  |-> next,
   trace |-> from.trace \o merged]

Superstep ==
  \E lost \in IF graph.isolate THEN SUBSET Range(Scheduled(durable.next)) ELSE {{}} :
    LET merged == Only(Scheduled(durable.next), Nodes \ lost) IN
    \E result \in [Range(merged) -> Results], route \in Routings(Range(merged)) :
      /\ durable' = Boundary(durable, merged, result, Successors(merged, route))
      /\ UNCHANGED graph

SuperstepSpec == durable = First(graph) /\ [][Superstep]_<<graph, durable>>
===============================================================================
