------------------------------- MODULE AgentTeam -------------------------------
(***************************************************************************)
(* GraphAgentTeam (.ai-harness/runtime/graph_agent_team.py): a team of agents*)
(* with dependencies, run as a StateGraph.  The graph has an edge per        *)
(* dependency, so an agent is scheduled after EVERY superstep in which one   *)
(* of its dependencies ran; when others are still open it reports "blocked". *)
(* Agents are numbered in the order of the team.                             *)
(***************************************************************************)
EXTENDS StateGraph

CONSTANTS Teams,   \* the dependencies of the teams to run
          ReadOnly, \* the agents that may run beside others
          Steward  \* the learning steward, which runs whatever its dependencies report
ASSUME AgentTeamAssumption ==
  /\ IsFiniteSet(Nodes) /\ Nodes = 1..Cardinality(Nodes) /\ Results = {"passed", "failed", "blocked"}
  /\ Teams \subseteq [Nodes -> SUBSET Nodes] /\ ReadOnly \subseteq Nodes
  /\ \A deps \in Teams, n \in Nodes : Steward \notin deps[n]

InOrder(agents) == Super!Only([n \in 1..Cardinality(Nodes) |-> n], agents)
Dependents(deps, n) == {m \in Nodes : n \in deps[m]}

(* _build_execution_graph: an agent nobody depends on may end the run.       *)
BugAfter(deps, n) == InOrder(Dependents(deps, n)) \o <<END>>    \* mutant: every agent may
After(deps, n) == IF Dependents(deps, n) = {} THEN <<END>> ELSE InOrder(Dependents(deps, n))
TeamGraph(deps) ==
  [start |-> InOrder({n \in Nodes : deps[n] = {}}), routes |-> [n \in Nodes |-> {After(deps, n)}],
   before |-> {}, after |-> {}, parallel |-> ReadOnly, isolate |-> FALSE, deps |-> deps]
TeamInit == GraphInitWith({TeamGraph(deps) : deps \in Teams})

(* The node of an agent: it works once what it depends on has passed.        *)
Open(n) == \E m \in graph.deps[n] : run.at.state[m] # "passed"
BugReport(n) == {"passed", "failed"}     \* mutant: the dependencies are not looked at
Report(n) == IF n # Steward /\ Open(n) THEN {"blocked"} ELSE {"passed", "failed"}

TeamNext == \/ Invoke \/ InvokeStep \/ GraphCrash
            \/ \E n \in Nodes : \/ ThreadStarts(n) \/ NodeRaises(n)
                                \/ \E report \in Report(n) : NodeReturns(n, report)
TeamSpec == TeamInit /\ [][TeamNext]_graphVars
-------------------------------------------------------------------------------
Completed == run.pc = "head" /\ run.at.next = <<>>
Worked == {"passed", "failed"}

(* Every dependency of an agent lies one level above it, and every agent     *)
(* nobody depends on lies on the last level.                                 *)
Levelled ==
  \E level \in [Nodes -> 1..Cardinality(Nodes)] :
    /\ \A n \in Nodes, m \in Nodes : n \in graph.deps[m] => level[m] = level[n] + 1
    /\ \A n \in Nodes : graph.deps[n] = {} => level[n] = 1
    /\ \A n, m \in Nodes : Dependents(graph.deps, n) = {} => level[m] <= level[n]

(* tests/test_graph_agent_team.py:194, "resume does not repeat completed     *)
(* agents": however often an agent is scheduled, and whatever crashes, it    *)
(* does not work again once the team holds its result.  And a levelled team  *)
(* comes to an end with every agent decided: it worked if and only if all    *)
(* its dependencies passed.                                                  *)
TeamSound ==
  /\ \A n \in Nodes \ {Steward} : run.at.state[n] \in Worked => threads[n] \notin Worked
  /\ Completed /\ Levelled => \A n \in Nodes \ {Steward} :
       run.at.state[n] \in Worked <=> \A m \in graph.deps[n] : run.at.state[m] = "passed"
================================================================================
