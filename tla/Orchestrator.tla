----------------------------- MODULE Orchestrator -----------------------------
(***************************************************************************)
(* Orchestrator.run of portable/orchestration.py: the nodes of a dependency  *)
(* graph one after the other, each with its own bounded attempts and repairs,*)
(* under one budget of attempts for the whole run.  Nodes are numbered by    *)
(* name.  Evidence, the trajectory and learning candidates are left out.     *)
(***************************************************************************)
EXTENDS Naturals, FiniteSets

CONSTANTS GraphNodes,        \* the names of the nodes, as numbers in their order
          Dags,              \* graphs to run, see GraphNode
          MaxTotalAttempts   \* max_total_attempts
GraphNode == [deps : SUBSET GraphNodes, limit : Nat \ {0}, critical : BOOLEAN, repairs : BOOLEAN]
ASSUME OrchestratorAssumption ==
  /\ IsFiniteSet(GraphNodes) /\ GraphNodes = 1..Cardinality(GraphNodes)
  /\ Dags \subseteq [GraphNodes -> GraphNode] /\ MaxTotalAttempts \in Nat \ {0}

VARIABLES dag,      \* dependencies, attempt limits (min of max_attempts and of the
                    \* limit an adaptive policy sets), critical, has a repair
          results,   \* the statuses of the nodes that are through
          spent,    \* attempts of the nodes
          working,  \* the node whose loop runs, or 0
          verdict   \* status of the run
orchestratorVars == <<dag, results, spent, working, verdict>>

(* _validate, order: rounds of nodes whose dependencies are all done, each   *)
(* round sorted by name; a cycle leaves a node without a round.              *)
DoneIn(g) ==
  LET done[k \in 0..Cardinality(GraphNodes)] ==
        IF k = 0 THEN {} ELSE {n \in GraphNodes : g[n].deps \subseteq done[k - 1]}
  IN done
Acyclic(g) == DoneIn(g)[Cardinality(GraphNodes)] = GraphNodes
RoundOf(n) == CHOOSE k \in 1..Cardinality(GraphNodes) :
  n \in DoneIn(dag)[k] /\ n \notin DoneIn(dag)[k - 1]
Precedes(m, n) == RoundOf(m) < RoundOf(n) \/ (RoundOf(m) = RoundOf(n) /\ m < n)

OrchestratorInit ==
  /\ dag \in {g \in Dags : Acyclic(g)}
  /\ results = [n \in GraphNodes |-> "pending"] /\ spent = [n \in GraphNodes |-> 0]
  /\ working = 0 /\ verdict = "running"
-------------------------------------------------------------------------------
Pending == {n \in GraphNodes : results[n] = "pending"}
IsNext(n) == n \in Pending /\ \A m \in Pending \ {n} : Precedes(n, m)
Broken(n) == \E d \in dag[n].deps : results[d] = "failed"
Totals(attempts) ==    \* of the nodes up to each one
  LET total[n \in 0..Cardinality(GraphNodes)] == IF n = 0 THEN 0 ELSE total[n - 1] + attempts[n]
  IN total
TotalAttempts == Totals(spent)[Cardinality(GraphNodes)]

(* A node that is through: a critical failure ends the run, then the budget. *)
BugThrough(n, status) ==    \* mutant: the run goes on after a critical failure
  /\ results' = [results EXCEPT ![n] = status] /\ working' = 0
  /\ verdict' = IF TotalAttempts' >= MaxTotalAttempts THEN "blocked"
                ELSE IF Pending = {n} THEN "accepted" ELSE "running"
Through(n, status) ==
  /\ results' = [results EXCEPT ![n] = status] /\ working' = 0
  /\ verdict' = IF status = "failed" /\ dag[n].critical THEN "failed"
                ELSE IF TotalAttempts' >= MaxTotalAttempts THEN "blocked"
                ELSE IF Pending = {n} THEN "accepted" ELSE "running"

Skip(n) ==
  /\ verdict = "running" /\ working = 0 /\ IsNext(n) /\ Broken(n)
  /\ results' = [results EXCEPT ![n] = "skipped"]
  /\ verdict' = IF dag[n].critical THEN "blocked"
                ELSE IF Pending = {n} THEN "accepted" ELSE "running"
  /\ UNCHANGED <<dag, spent, working>>
TakeUp(n) ==
  /\ verdict = "running" /\ working = 0 /\ IsNext(n) /\ ~Broken(n)
  /\ working' = n
  /\ UNCHANGED <<dag, results, spent, verdict>>

(* _execute_node: an attempt, its evaluation and, when it is rejected, the   *)
(* repair, after which the loop condition is looked at again.                *)
Attempts(n) == /\ working = n /\ spent' = [spent EXCEPT ![n] = @ + 1]
               /\ UNCHANGED dag
MayAttempt(n) == spent[n] < dag[n].limit /\ TotalAttempts < MaxTotalAttempts
Passes(n) == n = working /\ MayAttempt(n) /\ Attempts(n) /\ Through(n, "passed")
IsRejected(n) ==    \* for good: there is no repair, no attempt left, or the repair raises
  n = working /\ MayAttempt(n) /\ Attempts(n) /\ Through(n, "failed")
IsRepaired(n) ==
  /\ n = working /\ MayAttempt(n) /\ Attempts(n)
  /\ dag[n].repairs /\ spent[n] + 1 < dag[n].limit
  /\ UNCHANGED <<results, working, verdict>>
RunsOut(n) ==    \* the run has no attempt left for the node
  /\ n = working /\ ~MayAttempt(n) /\ UNCHANGED <<dag, spent>> /\ Through(n, "failed")

OrchestratorNext == \E n \in GraphNodes :
  Skip(n) \/ TakeUp(n) \/ Passes(n) \/ IsRejected(n) \/ IsRepaired(n) \/ RunsOut(n)
OrchestratorSpec == OrchestratorInit /\ [][OrchestratorNext]_orchestratorVars
-------------------------------------------------------------------------------
(* orchestration.py:421, "all critical graph nodes passed": an accepted run  *)
(* has no pending node, and every critical one has passed.                   *)
AcceptedIsComplete == verdict = "accepted" =>
  /\ Pending = {}
  /\ \A n \in GraphNodes : dag[n].critical => results[n] = "passed"

(* ORCHESTRATION_SPEC.md, "bounded node and run attempts", "failure          *)
(* propagation rules": the attempts stay within both budgets; a node is only *)
(* attempted when the nodes it depends on are through and none of them       *)
(* failed (one may have been skipped: skips do not propagate); and a run is  *)
(* blocked only for a skipped critical node or a spent budget.               *)
GraphContract ==
  /\ TotalAttempts <= MaxTotalAttempts
  /\ \A n \in GraphNodes :
       /\ spent[n] <= dag[n].limit
       /\ spent[n] > 0 => \A d \in dag[n].deps : results[d] \in {"passed", "skipped"}
  /\ verdict = "blocked" => \/ TotalAttempts = MaxTotalAttempts
                            \/ \E n \in GraphNodes : dag[n].critical /\ results[n] = "skipped"
OrchestrationSound == AcceptedIsComplete /\ GraphContract
===============================================================================
