-------------------------- MODULE Orchestration_proofs --------------------------
(***************************************************************************)
(* portable/orchestration.py for any graphs, budgets and attempt limits, and *)
(* for any number of engines, candidates and activations: the run of a       *)
(* dependency graph and the replacement of the active orchestration.         *)
(***************************************************************************)
EXTENDS Orchestrator, SelfModification, Recursion, FiniteSetTheorems

Size == Cardinality(GraphNodes)

(* The nodes are the numbers up to their count.                             *)
LEMMA NodesNumbered == Size \in Nat /\ GraphNodes = 1..Size
BY OrchestratorAssumption, FS_CardinalityType DEF Size

(* DoneIn is the function its recursive definition describes.                *)
LEMMA DoneInRounds ==
  ASSUME NEW g \in Dags
  PROVE  /\ DoneIn(g) \in [0..Size -> SUBSET GraphNodes]
         /\ DoneIn(g)[0] = {}
         /\ \A k \in 1..Size :
              DoneIn(g)[k] = {n \in GraphNodes : g[n].deps \subseteq DoneIn(g)[k - 1]}
<1> DEFINE Ready(D) == {n \in GraphNodes : g[n].deps \subseteq D}
           step == [k \in 1..Size |-> [D \in SUBSET GraphNodes |-> Ready(D)]]
           Rounds(f) == [k \in 0..Size |-> IF k = 0 THEN {} ELSE Ready(f[k - 1])]
<1>1. step \in [1..Size -> [SUBSET GraphNodes -> SUBSET GraphNodes]] /\ {} \in SUBSET GraphNodes
  OBVIOUS
<1> HIDE DEF step
<1>2. Size \in Nat
  BY NodesNumbered
<1>3. PICK f \in [0..Size -> SUBSET GraphNodes] : Recurs(f, Size, {}, step)
  BY <1>1, <1>2, IntervalRecursion
<1>4. f = Rounds(f)
  <2>1. \A k \in 1..Size : k - 1 \in 0..Size /\ step[k][f[k - 1]] = Ready(f[k - 1])
    BY <1>2 DEF step
  <2>2. \A k \in 0..Size : f[k] = IF k = 0 THEN {} ELSE Ready(f[k - 1])
    BY <1>3, <2>1, <1>2 DEF Recurs
  <2> QED
    BY <2>2
<1>5. DoneIn(g) = CHOOSE h : h = Rounds(h)
  BY DEF DoneIn, Size
<1>6. DoneIn(g) = Rounds(DoneIn(g))
  BY <1>4, <1>5
<1> HIDE DEF Rounds
<1>7. DOMAIN DoneIn(g) = 0..Size
  BY <1>6 DEF Rounds
<1>8. DoneIn(g)[0] = {}
  BY <1>6, NodesNumbered DEF Rounds
<1>9. \A k \in 1..Size : DoneIn(g)[k] = Ready(DoneIn(g)[k - 1])
  <2>1. \A k \in 0..Size :
          DoneIn(g)[k] = IF k = 0 THEN {} ELSE Ready(DoneIn(g)[k - 1])
    BY <1>6, Zenon DEF Rounds
  <2>2. \A k \in 1..Size : k \in 0..Size /\ k # 0
    BY NodesNumbered
  <2> QED
    BY <2>1, <2>2, Zenon
<1>10. \A k \in 0..Size : DoneIn(g)[k] \in SUBSET GraphNodes
  BY <1>8, <1>9, NodesNumbered
<1>11. DoneIn(g) \in [0..Size -> SUBSET GraphNodes]
  <2>1. DoneIn(g) = [k \in 0..Size |-> DoneIn(g)[k]]
    BY <1>6, <1>7 DEF Rounds
  <2> QED
    BY <1>10, <2>1
<1> QED
  BY <1>8, <1>9, <1>11

(* A round only adds nodes to those that are done.                           *)
LEMMA RoundsGrow ==
  ASSUME NEW g \in Dags, NEW j \in 0..Size, NEW k \in 0..Size, j <= k
  PROVE  DoneIn(g)[j] \subseteq DoneIn(g)[k]
<1> DEFINE D == DoneIn(g)
           Next1 == {m \in 0..Size : m = 0 \/ D[m - 1] \subseteq D[m]}
           Below == {m \in 0..Size : \A i \in 0..m : D[i] \subseteq D[m]}
<1>1. \A m \in 1..Size : m - 1 \in 0..Size /\ (m - 1 # 0 => m - 1 \in 1..Size)
  BY NodesNumbered
<1>2. ASSUME NEW m \in 1..Size, m - 1 \in Next1
      PROVE  m \in Next1
  <2>1. CASE m = 1
    BY <2>1, DoneInRounds, NodesNumbered
  <2>2. CASE m # 1
    <3>1. m - 1 \in 1..Size /\ D[m - 1 - 1] \subseteq D[m - 1]
      BY <1>2, <2>2
    <3>2. D[m] = {n \in GraphNodes : g[n].deps \subseteq D[m - 1]}
      BY DoneInRounds
    <3>3. D[m - 1] = {n \in GraphNodes : g[n].deps \subseteq D[m - 1 - 1]}
      BY <3>1, DoneInRounds
    <3>4. D[m - 1] \subseteq D[m]
      BY <3>1, <3>2, <3>3
    <3> QED
      BY <3>4, NodesNumbered
  <2> QED
    BY <2>1, <2>2
<1>3. 0 \in Next1
  BY NodesNumbered
<1> HIDE DEF Next1, D
<1>4. 0..Size \subseteq Next1
  <2>1. \A m \in 1..Size : m - 1 \in Next1 => m \in Next1
    BY <1>2
  <2> QED
    BY <1>3, <2>1, NodesNumbered, IntervalInduction, Zenon
<1>5. \A m \in 1..Size : D[m - 1] \subseteq D[m]
  BY <1>4, NodesNumbered DEF Next1
<1>6. 0 \in Below
  BY NodesNumbered
<1>7. ASSUME NEW m \in 1..Size, m - 1 \in Below
      PROVE  m \in Below
  BY <1>5, <1>7, NodesNumbered
<1> HIDE DEF Below
<1>8. 0..Size \subseteq Below
  <2>1. \A m \in 1..Size : m - 1 \in Below => m \in Below
    BY <1>7
  <2> QED
    BY <1>6, <2>1, NodesNumbered, IntervalInduction, Zenon
<1> QED
  BY <1>8, NodesNumbered DEF Below, D

(* In a graph without cycles every node has a round, after the rounds of the *)
(* nodes it depends on, so that Precedes puts it behind them.                *)
LEMMA DependenciesFirst ==
  ASSUME dag \in Dags, Acyclic(dag)
  PROVE  /\ \A n \in GraphNodes : RoundOf(n) \in 1..Size
         /\ \A n \in GraphNodes : \A d \in dag[n].deps : d \in GraphNodes /\ RoundOf(d) < RoundOf(n)
<1> DEFINE D == DoneIn(dag)
<1>1. \A n \in GraphNodes : dag[n].deps \subseteq GraphNodes
  BY OrchestratorAssumption DEF GraphNode
<1>2. ASSUME NEW n \in GraphNodes
      PROVE  \E k \in 1..Size : n \in D[k] /\ n \notin D[k - 1]
  <2> DEFINE Open == {k \in 0..Size : n \notin D[k]}
  <2>1. 0 \in Open
    BY DoneInRounds, NodesNumbered
  <2>2. Size \notin Open
    BY DEF Acyclic, Size
  <2> SUFFICES ASSUME \A k \in 1..Size : k - 1 \in Open => k \in Open
               PROVE  FALSE
    BY NodesNumbered
  <2> HIDE DEF Open
  <2>3. 0..Size \subseteq Open
    BY <2>1, NodesNumbered, IntervalInduction, Zenon
  <2> QED
    BY <2>2, <2>3, NodesNumbered
<1>3. ASSUME NEW n \in GraphNodes
      PROVE  RoundOf(n) \in 1..Size /\ n \in D[RoundOf(n)] /\ n \notin D[RoundOf(n) - 1]
  BY <1>2 DEF RoundOf, Size
<1>4. ASSUME NEW n \in GraphNodes, NEW d \in dag[n].deps
      PROVE  RoundOf(d) < RoundOf(n)
  <2>1. d \in GraphNodes
    BY <1>1
  <2>2. PICK i \in 1..Size : i = RoundOf(n) /\ n \in D[i]
    BY <1>3
  <2>3. PICK j \in 1..Size : j = RoundOf(d) /\ d \notin D[j - 1]
    BY <1>3, <2>1
  <2>4. d \in D[i - 1]
    BY <2>2, DoneInRounds
  <2>5. CASE i <= j
    <3>1. i - 1 \in 0..Size /\ j - 1 \in 0..Size /\ i - 1 <= j - 1
      BY <2>5, NodesNumbered
    <3>2. D[i - 1] \subseteq D[j - 1]
      BY <3>1, RoundsGrow
    <3> QED
      BY <2>3, <2>4, <3>2
  <2> QED
    BY <2>2, <2>3, <2>5, NodesNumbered
<1> QED
  BY <1>1, <1>3, <1>4
-------------------------------------------------------------------------------
(* The running totals of the attempts, from the equation that defines them. *)
LEMMA TotalsAddUp ==
  ASSUME NEW s \in [GraphNodes -> Nat]
  PROVE  /\ Totals(s) \in [0..Size -> Nat] /\ Totals(s)[0] = 0
         /\ \A k \in 1..Size : Totals(s)[k] = Totals(s)[k - 1] + s[k]
<1> DEFINE step == [k \in 1..Size |-> [total \in Nat |-> total + s[k]]]
           Sums(f) == [k \in 0..Size |-> IF k = 0 THEN 0 ELSE f[k - 1] + s[k]]
<1>1. Size \in Nat /\ \A k \in 1..Size : s[k] \in Nat
  BY NodesNumbered
<1>2. step \in [1..Size -> [Nat -> Nat]] /\ 0 \in Nat
  BY <1>1
<1> HIDE DEF step
<1>3. PICK f \in [0..Size -> Nat] : Recurs(f, Size, 0, step)
  BY <1>1, <1>2, IntervalRecursion
<1>4. f = Sums(f)
  <2>1. \A k \in 1..Size : k - 1 \in 0..Size /\ step[k][f[k - 1]] = f[k - 1] + s[k]
    BY <1>1 DEF step
  <2>2. \A k \in 0..Size : f[k] = IF k = 0 THEN 0 ELSE f[k - 1] + s[k]
    BY <1>1, <1>3, <2>1 DEF Recurs
  <2> QED
    BY <2>2
<1>5. Totals(s) = CHOOSE h : h = Sums(h)
  BY DEF Totals, Size
<1>6. Totals(s) = Sums(Totals(s))
  BY <1>4, <1>5
<1> HIDE DEF Sums
<1>7. \A k \in 0..Size : Totals(s)[k] = IF k = 0 THEN 0 ELSE Totals(s)[k - 1] + s[k]
  BY <1>6, Zenon DEF Sums
<1>8. Totals(s)[0] = 0 /\ \A k \in 1..Size : Totals(s)[k] = Totals(s)[k - 1] + s[k]
  BY <1>1, <1>7
<1> DEFINE Number == {k \in 0..Size : Totals(s)[k] \in Nat}
<1>9. 0 \in Number /\ \A k \in 1..Size : k - 1 \in Number => k \in Number
  <2>1. 0 \in Number
    BY <1>1, <1>8
  <2>2. ASSUME NEW k \in 1..Size, k - 1 \in Number
        PROVE  k \in Number
    <3>1. Totals(s)[k - 1] \in Nat /\ s[k] \in Nat /\ Totals(s)[k] = Totals(s)[k - 1] + s[k]
      BY <1>1, <1>8, <2>2
    <3> QED
      BY <1>1, <3>1
  <2> QED
    BY <2>1, <2>2
<1> HIDE DEF Number
<1>10. 0..Size \subseteq Number
  BY <1>1, <1>9, IntervalInduction, Zenon
<1>11. Totals(s) = [k \in 0..Size |-> Totals(s)[k]]
  BY <1>6, Zenon DEF Sums
<1>12. \A k \in 0..Size : Totals(s)[k] \in Nat
  BY <1>10 DEF Number
<1>13. Totals(s) \in [0..Size -> Nat]
  BY <1>11, <1>12
<1> QED
  BY <1>8, <1>13

(* One more attempt of any node is one more in all.                          *)
LEMMA OneMoreAttempt ==
  ASSUME NEW s \in [GraphNodes -> Nat], NEW n \in GraphNodes
  PROVE  Totals([s EXCEPT ![n] = @ + 1])[Size] = Totals(s)[Size] + 1
<1> DEFINE t == [s EXCEPT ![n] = @ + 1]
           Added == {k \in 0..Size : Totals(t)[k] = Totals(s)[k] + (IF n <= k THEN 1 ELSE 0)}
<1>1. Size \in Nat /\ n \in 1..Size /\ GraphNodes = 1..Size
  BY NodesNumbered
<1>2. t \in [GraphNodes -> Nat] /\ t[n] = s[n] + 1 /\ \A k \in 1..Size : k # n => t[k] = s[k]
  BY <1>1
<1> HIDE DEF t
<1>3. \A k \in 0..Size : Totals(s)[k] \in Nat /\ Totals(t)[k] \in Nat
  BY <1>2, TotalsAddUp
<1>4. 0 \in Added
  <2>1. Totals(s)[0] = 0 /\ Totals(t)[0] = 0
    BY <1>2, TotalsAddUp
  <2> QED
    BY <1>1, <2>1
<1>5. ASSUME NEW k \in 1..Size, k - 1 \in Added
      PROVE  k \in Added
  <2>1. Totals(s)[k] = Totals(s)[k - 1] + s[k] /\ Totals(t)[k] = Totals(t)[k - 1] + t[k]
    BY <1>2, TotalsAddUp
  <2>2. k - 1 \in 0..Size /\ s[k] \in Nat /\ Totals(s)[k - 1] \in Nat
    BY <1>1, <1>3
  <2>3. t[k] = s[k] + (IF n = k THEN 1 ELSE 0)
    BY <1>2, <2>2
  <2>4. Totals(t)[k - 1] = Totals(s)[k - 1] + (IF n <= k - 1 THEN 1 ELSE 0)
    BY <1>5
  <2> QED
    BY <1>1, <2>1, <2>2, <2>3, <2>4
<1> HIDE DEF Added
<1>6. \A k \in 1..Size : k - 1 \in Added => k \in Added
  BY <1>5
<1>7. 0..Size \subseteq Added
  BY <1>1, <1>4, <1>6, IntervalInduction, Zenon
<1>8. Totals(t)[Size] = Totals(s)[Size] + 1
  BY <1>1, <1>7 DEF Added
<1> QED
  BY <1>8 DEF t

(* Nobody tried, nothing to count.                                          *)
LEMMA NoAttemptYet == Totals([n \in GraphNodes |-> 0])[Size] = 0
<1> DEFINE s == [n \in GraphNodes |-> 0]
           None0 == {k \in 0..Size : Totals(s)[k] = 0}
<1>1. Size \in Nat /\ s \in [GraphNodes -> Nat] /\ \A k \in 1..Size : s[k] = 0
  BY NodesNumbered
<1> HIDE DEF s
<1>2. 0 \in None0 /\ \A k \in 1..Size : k - 1 \in None0 => k \in None0
  <2>1. Totals(s)[0] = 0 /\ \A k \in 1..Size : Totals(s)[k] = Totals(s)[k - 1] + s[k]
    BY <1>1, TotalsAddUp
  <2> QED
    BY <1>1, <2>1
<1> HIDE DEF None0
<1>3. 0..Size \subseteq None0
  BY <1>1, <1>2, IntervalInduction, Zenon
<1> QED
  BY <1>1, <1>3 DEF None0, s
-------------------------------------------------------------------------------
(* The inductive invariant of a run.  A node is attempted only while what it *)
(* depends on is through and did not fail; nothing makes that undone, as only*)
(* a pending node gets a result.                                             *)
RunTyped ==
  /\ dag \in Dags /\ Acyclic(dag)
  /\ results \in [GraphNodes -> {"pending", "passed", "failed", "skipped"}]
  /\ spent \in [GraphNodes -> Nat] /\ working \in GraphNodes \cup {0}
  /\ verdict \in {"running", "accepted", "failed", "blocked"}
Supported(n) == \A d \in dag[n].deps : results[d] \in {"passed", "skipped"}
OnTurn ==
  /\ working # 0 => verdict = "running" /\ results[working] = "pending" /\ Supported(working)
  /\ \A n \in GraphNodes : spent[n] > 0 => Supported(n)
InBudget ==
  TotalAttempts <= MaxTotalAttempts /\ \A n \in GraphNodes : spent[n] <= dag[n].limit
OnVerdict ==
  /\ verdict \in {"running", "accepted"} =>
       \A n \in GraphNodes : dag[n].critical => results[n] \in {"pending", "passed"}
  /\ verdict = "accepted" => Pending = {}
  /\ verdict = "blocked" => \/ TotalAttempts = MaxTotalAttempts
                            \/ \E n \in GraphNodes : dag[n].critical /\ results[n] = "skipped"
GraphInv == RunTyped /\ OnTurn /\ InBudget /\ OnVerdict

(* The invariant of a run carries what the runs check of it.                *)
LEMMA GraphInvImplies == GraphInv => OrchestrationSound
BY DEF GraphInv, RunTyped, OnTurn, InBudget, OnVerdict, Supported, OrchestrationSound,
       AcceptedIsComplete, GraphContract, Pending

(* Before the first node every result is pending.                           *)
LEMMA GraphInvInit == OrchestratorInit => GraphInv
<1> SUFFICES ASSUME OrchestratorInit PROVE GraphInv
  OBVIOUS
<1> USE DEF OrchestratorInit
<1>1. TotalAttempts = 0 /\ MaxTotalAttempts \in Nat /\ 0 <= MaxTotalAttempts
  BY NoAttemptYet, OrchestratorAssumption DEF TotalAttempts, Size
<1>2. 0 \notin GraphNodes
  BY NodesNumbered
<1>3. RunTyped /\ OnTurn
  BY <1>2 DEF RunTyped, OnTurn
<1>4. \A n \in GraphNodes : dag[n].limit \in Nat
  BY OrchestratorAssumption DEF GraphNode
<1>5. InBudget
  BY <1>1, <1>4 DEF InBudget
<1>6. OnVerdict
  BY DEF OnVerdict
<1> QED
  BY <1>3, <1>5, <1>6 DEF GraphInv

(* A node that is next depends on nothing that is pending.                   *)
LEMMA NextIsReady ==
  ASSUME RunTyped, NEW n \in GraphNodes, IsNext(n)
  PROVE  \A d \in dag[n].deps : d \in GraphNodes /\ results[d] # "pending"
<1> SUFFICES ASSUME NEW d \in dag[n].deps, results[d] = "pending" PROVE FALSE
  BY DependenciesFirst DEF RunTyped
<1>1. d \in GraphNodes /\ RoundOf(d) < RoundOf(n)
  BY DependenciesFirst DEF RunTyped
<1>2. RoundOf(d) \in Int /\ RoundOf(n) \in Int
  BY <1>1, DependenciesFirst, NodesNumbered DEF RunTyped
<1>3. d # n /\ d \in Pending
  BY <1>1, <1>2 DEF Pending
<1>4. Precedes(n, d)
  BY <1>3 DEF IsNext
<1> QED
  BY <1>1, <1>2, <1>4 DEF Precedes

(* What the end of a node's loop does to the invariant.                      *)
LEMMA ThroughKeeps ==
  ASSUME GraphInv, NEW n \in GraphNodes, n = working, NEW status \in {"passed", "failed"},
         dag' = dag, Through(n, status), spent' \in [GraphNodes -> Nat],
         InBudget', \A m \in GraphNodes \ {n} : spent'[m] = spent[m]
  PROVE  GraphInv'
<1> USE DEF GraphInv, RunTyped
<1>1. 0 \notin GraphNodes /\ TotalAttempts' \in Nat /\ MaxTotalAttempts \in Nat
  <2>1. Totals(spent')[Size] \in Nat
    BY TotalsAddUp, NodesNumbered
  <2> QED
    BY <2>1, NodesNumbered, OrchestratorAssumption DEF TotalAttempts, Size
<1>2. results[n] = "pending" /\ verdict = "running" /\ Supported(n)
  BY <1>1 DEF OnTurn
<1>3. results' = [results EXCEPT ![n] = status] /\ working' = 0
  BY DEF Through
<1>4. RunTyped'
  BY <1>3 DEF Through, Acyclic
<1>5. \A m \in GraphNodes : dag[m].deps \subseteq GraphNodes
  BY DependenciesFirst
<1>6. \A m \in GraphNodes : Supported(m) => Supported(m)'
  BY <1>2, <1>3, <1>5 DEF Supported
<1>7. OnTurn'
  <2>1. \A m \in GraphNodes : spent'[m] > 0 => Supported(m)
    BY <1>2 DEF OnTurn
  <2> QED
    BY <1>3, <1>6, <2>1 DEF OnTurn
<1>8. OnVerdict'
  <2>1. \A m \in GraphNodes : dag[m].critical => results[m] \in {"pending", "passed"}
    BY <1>2 DEF OnVerdict
  <2>2. TotalAttempts' >= MaxTotalAttempts => TotalAttempts' = MaxTotalAttempts
    BY <1>1 DEF InBudget
  <2>3. verdict' \in {"running", "accepted"} => ~(status = "failed" /\ dag[n].critical)
    BY DEF Through
  <2>4. verdict' \in {"running", "accepted"} =>
          \A m \in GraphNodes : dag'[m].critical => results'[m] \in {"pending", "passed"}
    BY <1>3, <2>1, <2>3
  <2>5. verdict' = "accepted" => Pending = {n}
    BY DEF Through
  <2>6. verdict' = "accepted" => Pending' = {}
    BY <1>3, <2>5 DEF Pending
  <2>7. verdict' = "blocked" => TotalAttempts' = MaxTotalAttempts
    BY <2>2 DEF Through
  <2> QED
    BY <2>4, <2>6, <2>7 DEF OnVerdict
<1> QED
  BY <1>4, <1>7, <1>8

(* An attempt, within both budgets.                                          *)
LEMMA AttemptCounts ==
  ASSUME GraphInv, NEW n \in GraphNodes, n = working, MayAttempt(n), Attempts(n)
  PROVE  /\ dag' = dag /\ spent' \in [GraphNodes -> Nat] /\ InBudget'
         /\ \A m \in GraphNodes \ {n} : spent'[m] = spent[m]
<1> USE DEF GraphInv, RunTyped
<1>1. spent' = [spent EXCEPT ![n] = @ + 1] /\ dag' = dag
  BY DEF Attempts
<1>2. TotalAttempts' = TotalAttempts + 1
  BY <1>1, OneMoreAttempt DEF TotalAttempts, Size
<1>3. TotalAttempts \in Nat /\ MaxTotalAttempts \in Nat
  <2>1. Totals(spent)[Size] \in Nat
    BY TotalsAddUp, NodesNumbered
  <2> QED
    BY <2>1, OrchestratorAssumption DEF TotalAttempts, Size
<1>4. \A m \in GraphNodes : dag[m].limit \in Nat
  BY OrchestratorAssumption DEF GraphNode
<1>5. spent' \in [GraphNodes -> Nat] /\ \A m \in GraphNodes \ {n} : spent'[m] = spent[m]
  BY <1>1
<1>6. \A m \in GraphNodes : spent'[m] <= dag'[m].limit
  <2>1. spent'[n] = spent[n] + 1 /\ spent[n] < dag[n].limit
    BY <1>1 DEF MayAttempt
  <2> QED
    BY <1>1, <1>4, <1>5, <2>1 DEF InBudget
<1>7. TotalAttempts' <= MaxTotalAttempts
  BY <1>2, <1>3 DEF MayAttempt
<1> QED
  BY <1>1, <1>5, <1>6, <1>7 DEF InBudget

(* One step for each action of the run.                                     *)
LEMMA GraphInvNext == GraphInv /\ [OrchestratorNext]_orchestratorVars => GraphInv'
<1> SUFFICES ASSUME GraphInv, [OrchestratorNext]_orchestratorVars PROVE GraphInv'
  OBVIOUS
<1> USE DEF GraphInv
<1>1. CASE UNCHANGED orchestratorVars
  BY <1>1 DEF orchestratorVars, RunTyped, OnTurn, InBudget, OnVerdict, Supported, Pending, Acyclic,
              TotalAttempts
<1>2. ASSUME NEW n \in GraphNodes, Skip(n) PROVE GraphInv'
  <2>1. /\ results' = [results EXCEPT ![n] = "skipped"] /\ results[n] = "pending" /\ working = 0
        /\ verdict = "running" /\ UNCHANGED <<dag, spent, working>>
    BY <1>2 DEF Skip, IsNext, Pending
  <2>2. verdict' = IF dag[n].critical THEN "blocked"
                   ELSE IF Pending = {n} THEN "accepted" ELSE "running"
    BY <1>2 DEF Skip
  <2>3. RunTyped'
    BY <2>1, <2>2 DEF RunTyped, Acyclic
  <2>4. \A m \in GraphNodes : Supported(m) => Supported(m)'
    BY <2>1, DependenciesFirst DEF RunTyped, Supported
  <2>5. OnTurn'
    BY <2>1, <2>4 DEF OnTurn
  <2>6. InBudget'
    BY <2>1 DEF InBudget, TotalAttempts
  <2>7. OnVerdict'
    <3>1. \A m \in GraphNodes : dag[m].critical => results[m] \in {"pending", "passed"}
      BY <2>1 DEF OnVerdict
    <3>2. verdict' \in {"running", "accepted"} =>
            \A m \in GraphNodes : dag'[m].critical => results'[m] \in {"pending", "passed"}
      BY <2>1, <2>2, <3>1 DEF RunTyped
    <3>3. verdict' = "accepted" => Pending' = {}
      BY <2>1, <2>2 DEF Pending, RunTyped
    <3>4. verdict' = "blocked" => dag'[n].critical /\ results'[n] = "skipped"
      BY <2>1, <2>2 DEF RunTyped
    <3> QED
      BY <3>2, <3>3, <3>4 DEF OnVerdict
  <2> QED
    BY <2>3, <2>5, <2>6, <2>7
<1>3. ASSUME NEW n \in GraphNodes, TakeUp(n) PROVE GraphInv'
  <2>1. working' = n /\ results[n] = "pending" /\ verdict = "running"
        /\ UNCHANGED <<dag, results, spent, verdict>>
    BY <1>3 DEF TakeUp, IsNext, Pending
  <2>2. Supported(n)
    BY <1>3, NextIsReady DEF TakeUp, Broken, RunTyped, Supported
  <2>3. RunTyped'
    BY <2>1 DEF RunTyped, Acyclic
  <2>4. OnTurn'
    BY <2>1, <2>2 DEF OnTurn, Supported
  <2>5. InBudget' /\ OnVerdict'
    BY <2>1 DEF InBudget, OnVerdict, TotalAttempts, Pending
  <2> QED
    BY <2>3, <2>4, <2>5
<1>4. ASSUME NEW n \in GraphNodes, Passes(n) \/ IsRejected(n) PROVE GraphInv'
  <2>1. PICK status \in {"passed", "failed"} :
          n = working /\ MayAttempt(n) /\ Attempts(n) /\ Through(n, status)
    BY <1>4 DEF Passes, IsRejected
  <2> QED
    BY <2>1, AttemptCounts, ThroughKeeps
<1>5. ASSUME NEW n \in GraphNodes, IsRepaired(n) PROVE GraphInv'
  <2>1. n = working /\ MayAttempt(n) /\ Attempts(n) /\ UNCHANGED <<results, working, verdict>>
    BY <1>5 DEF IsRepaired
  <2>2. dag' = dag /\ spent' \in [GraphNodes -> Nat] /\ InBudget'
        /\ \A m \in GraphNodes \ {n} : spent'[m] = spent[m]
    BY <2>1, AttemptCounts
  <2>3. RunTyped'
    BY <2>1, <2>2 DEF RunTyped, Acyclic
  <2>4. n # 0
    BY NodesNumbered
  <2>5. OnTurn'
    BY <2>1, <2>2, <2>4 DEF OnTurn, Supported
  <2>6. OnVerdict'
    <3>1. verdict' = "running"
      BY <2>1, <2>4 DEF OnTurn
    <3> QED
      BY <2>1, <2>2, <3>1 DEF OnVerdict
  <2> QED
    BY <2>2, <2>3, <2>5, <2>6
<1>6. ASSUME NEW n \in GraphNodes, RunsOut(n) PROVE GraphInv'
  <2>1. n = working /\ dag' = dag /\ spent' = spent /\ Through(n, "failed")
    BY <1>6 DEF RunsOut
  <2>2. InBudget'
    BY <2>1 DEF InBudget, TotalAttempts
  <2> QED
    BY <2>1, <2>2, ThroughKeeps DEF RunTyped
<1> QED
  BY <1>1, <1>2, <1>3, <1>4, <1>5, <1>6 DEF OrchestratorNext

(* orchestration.py:421 and ORCHESTRATION_SPEC.md: for any acyclic graph and *)
(* any budgets, an accepted run has passed every critical node, attempts stay*)
(* within the node's and the run's budget and rest on dependencies that did  *)
(* not fail, and a run is blocked only for the reasons it gives.             *)
THEOREM GraphRuns == OrchestratorSpec => []OrchestrationSound
<1>1. OrchestratorInit => GraphInv
  BY GraphInvInit
<1>2. GraphInv /\ [OrchestratorNext]_orchestratorVars => GraphInv'
  BY GraphInvNext
<1>3. GraphInv => OrchestrationSound
  BY GraphInvImplies
<1> QED
  BY <1>1, <1>2, <1>3, PTL DEF OrchestratorSpec
-------------------------------------------------------------------------------
(* The activation of orchestrations: versions, and what the journal holds.   *)
MaybeSource == Sources \cup {NoFile, Damaged}
Version == [active : MaybeSource, previous : MaybeSource]
Entry == [event : {"promote", "rollback"}, source : MaybeSource]

(* A journal entry leads from one pair of files to another.                 *)
LEMMA AppliedVersion ==
  ASSUME NEW at \in Version, NEW entry \in Entry
  PROVE  Applied(at, entry) \in Version
BY DEF Applied, Version, Entry

(* The replay of a journal, entry by entry, from the equation that defines  *)
(* it.                                                                      *)
LEMMA ReplaySteps ==
  ASSUME NEW s \in Seq(Entry)
  PROVE  /\ Replay(s) \in [0..Len(s) -> Version]
         /\ Replay(s)[0] = [active |-> NoFile, previous |-> NoFile]
         /\ \A k \in 1..Len(s) : Replay(s)[k] = Applied(Replay(s)[k - 1], s[k])
<1> DEFINE none == [active |-> NoFile, previous |-> NoFile]
           step == [k \in 1..Len(s) |-> [at \in Version |-> Applied(at, s[k])]]
           States(f) == [k \in 0..Len(s) |-> IF k = 0 THEN none ELSE Applied(f[k - 1], s[k])]
<1>1. Len(s) \in Nat /\ \A k \in 1..Len(s) : s[k] \in Entry
  OBVIOUS
<1>2. step \in [1..Len(s) -> [Version -> Version]]
  BY <1>1, AppliedVersion
<1>3. none \in Version
  BY DEF Version, MaybeSource
<1>4. Replay(s) = CHOOSE h : h = States(h)
  BY DEF Replay
<1> HIDE DEF step, none
<1>5. PICK f \in [0..Len(s) -> Version] : Recurs(f, Len(s), none, step)
  BY <1>1, <1>2, <1>3, IntervalRecursion
<1>6. f = States(f)
  <2>1. \A k \in 1..Len(s) : k - 1 \in 0..Len(s) /\ step[k][f[k - 1]] = Applied(f[k - 1], s[k])
    BY <1>1 DEF step
  <2>2. \A k \in 0..Len(s) : f[k] = IF k = 0 THEN none ELSE Applied(f[k - 1], s[k])
    BY <1>1, <1>5, <2>1 DEF Recurs
  <2> QED
    BY <2>2
<1>7. Replay(s) = States(Replay(s))
  BY <1>4, <1>6
<1> HIDE DEF States
<1>8. \A k \in 0..Len(s) :
        Replay(s)[k] = IF k = 0 THEN none ELSE Applied(Replay(s)[k - 1], s[k])
  BY <1>7, Zenon DEF States
<1>9. Replay(s)[0] = none /\ \A k \in 1..Len(s) : Replay(s)[k] = Applied(Replay(s)[k - 1], s[k])
  BY <1>1, <1>8
<1> DEFINE Typed == {k \in 0..Len(s) : Replay(s)[k] \in Version}
<1>10. 0 \in Typed
  BY <1>1, <1>3, <1>9
<1>11. ASSUME NEW k \in 1..Len(s), k - 1 \in Typed
       PROVE  k \in Typed
  BY <1>1, <1>9, <1>11, AppliedVersion
<1> HIDE DEF Typed
<1>12. \A k \in 1..Len(s) : k - 1 \in Typed => k \in Typed
  BY <1>11
<1>13. 0..Len(s) \subseteq Typed
  BY <1>1, <1>10, <1>12, IntervalInduction, Zenon
<1>14. Replay(s) = [k \in 0..Len(s) |-> Replay(s)[k]]
  BY <1>7, Zenon DEF States
<1>15. \A k \in 0..Len(s) : Replay(s)[k] \in Version
  BY <1>13 DEF Typed
<1>16. Replay(s) \in [0..Len(s) -> Version]
  BY <1>14, <1>15
<1> QED
  BY <1>9, <1>16 DEF none

(* One more entry is applied to what the journal said before.                *)
LEMMA ReplayAppend ==
  ASSUME NEW s \in Seq(Entry), NEW entry \in Entry
  PROVE  Replay(Append(s, entry))[Len(s) + 1] = Applied(Replay(s)[Len(s)], entry)
<1> DEFINE t == Append(s, entry)
           Same == {k \in 0..Len(s) : Replay(t)[k] = Replay(s)[k]}
<1>1. /\ t \in Seq(Entry) /\ Len(t) = Len(s) + 1 /\ Len(s) \in Nat /\ t[Len(s) + 1] = entry
      /\ \A k \in 1..Len(s) : t[k] = s[k]
  OBVIOUS
<1> HIDE DEF t
<1>2. 0 \in Same
  BY <1>1, ReplaySteps
<1>3. ASSUME NEW k \in 1..Len(s), k - 1 \in Same
      PROVE  k \in Same
  <2>1. k \in 1..Len(t) /\ t[k] = s[k]
    BY <1>1
  <2>2. Replay(t)[k] = Applied(Replay(t)[k - 1], t[k])
    BY <1>1, <2>1, ReplaySteps
  <2>3. Replay(s)[k] = Applied(Replay(s)[k - 1], s[k])
    BY ReplaySteps
  <2> QED
    BY <1>3, <2>1, <2>2, <2>3
<1> HIDE DEF Same
<1>4. \A k \in 1..Len(s) : k - 1 \in Same => k \in Same
  BY <1>3
<1>5. 0..Len(s) \subseteq Same
  BY <1>1, <1>2, <1>4, IntervalInduction, Zenon
<1>6. Replay(t)[Len(s)] = Replay(s)[Len(s)]
  BY <1>1, <1>5 DEF Same
<1>7. Len(s) + 1 \in 1..Len(t) /\ Len(s) + 1 - 1 = Len(s)
  BY <1>1
<1>8. Replay(t)[Len(s) + 1] = Applied(Replay(t)[Len(s)], t[Len(s) + 1])
  BY <1>1, <1>7, ReplaySteps
<1> QED
  BY <1>1, <1>6, <1>8 DEF t
-------------------------------------------------------------------------------
(* The inductive invariant of the activations.  Every file holds what passed *)
(* both gates, or what is not the whole of a source.  While activations come *)
(* one at a time, the temporary file holds what the engine at work has put   *)
(* there; and when none of them died, the files are, step by step, on the    *)
(* way from what the journal says to what it will say with the entry of that *)
(* engine.                                                                   *)
FileNames == {"active", "previous", "temp", "rollbackTemp"}
Stage == [pc : {"idle", "move", "open", "write", "validate", "replace", "journal"},
          event : {"none", "promote", "rollback"}, source : MaybeSource,
          open : FileNames \cup {"none"}]
EngineTyped(e) ==
  /\ engine[e] \in Stage
  /\ engine[e] # AtRest =>
       /\ engine[e].pc # "idle"
       /\ \/ engine[e].event = "promote" /\ engine[e].source \in gated
          \/ /\ engine[e].event = "rollback" /\ engine[e].source \in gated \cup {Damaged}
             /\ engine[e].pc \notin {"move", "validate"}
ActivationTyped ==
  /\ files \in [FileNames -> MaybeSource \cup Engines] /\ journal \in Seq(Entry)
  /\ engine = [e \in Engines |-> engine[e]] /\ \A e \in Engines : EngineTyped(e)
  /\ gated \subseteq Sources /\ crossed \in BOOLEAN /\ halted \in BOOLEAN
AllGated == \A f \in FileNames : files[f] \in Sources => files[f] \in gated
OnFile == [active |-> files.active, previous |-> files.previous]
Told(e) == Applied(Replayed, [event |-> engine[e].event, source |-> engine[e].source])
Prepared(e) ==
  /\ engine[e].pc # "idle" => engine[e].source \in gated
  /\ engine[e].pc = "write" => engine[e].open = Temp(e) /\ files[Temp(e)] = e
  /\ engine[e].pc \in {"validate", "replace"} => files[Temp(e)] = engine[e].source
OnTheWay(e) ==
  /\ engine[e].pc = "move" => OnFile = Replayed
  /\ engine[e].pc \in {"open", "write", "validate", "replace"} =>
       IF engine[e].event = "promote" THEN files.previous = Told(e).previous
       ELSE OnFile = Replayed /\ engine[e].source = files.previous
  /\ engine[e].pc = "journal" => OnFile = Told(e)
OneAtATime == ~crossed =>
  /\ \A d, e \in Engines : engine[d] # AtRest /\ engine[e] # AtRest => d = e
  /\ {files.active, files.previous} \subseteq gated \cup {NoFile}
  /\ \A e \in Engines : Prepared(e)
Undisturbed == ~crossed /\ ~halted =>
  /\ (\A e \in Engines : engine[e] = AtRest) => OnFile = Replayed
  /\ \A e \in Engines : OnTheWay(e)
ActivationInv == ActivationTyped /\ AllGated /\ OneAtATime /\ Undisturbed

(* The invariant of the activations carries what the runs check of them.    *)
LEMMA ActivationInvImplies == ActivationInv => ActivationSound
BY DEF ActivationInv, ActivationTyped, AllGated, OneAtATime, Undisturbed, ActivationSound, OnFile,
  FileNames

(* An empty journal knows of no file.                                       *)
LEMMA NothingReplayed == journal = <<>> => Replayed = [active |-> NoFile, previous |-> NoFile]
<1>1. <<>> \in Seq(Entry) /\ Len(<<>>) = 0
  OBVIOUS
<1>2. Replay(<<>>)[0] = [active |-> NoFile, previous |-> NoFile]
  BY <1>1, ReplaySteps
<1> QED
  BY <1>1, <1>2 DEF Replayed

(* Replaying a journal yields an active and a previous source, or none.     *)
LEMMA ReplayedVersion == journal \in Seq(Entry) => Replayed \in Version
<1> SUFFICES ASSUME journal \in Seq(Entry) PROVE Replayed \in Version
  OBVIOUS
<1>1. Len(journal) \in 0..Len(journal) /\ Replay(journal) \in [0..Len(journal) -> Version]
  BY ReplaySteps
<1> QED
  BY <1>1 DEF Replayed

(* No file, no entry and no engine at work.                                 *)
LEMMA ActivationInvInit == ActivationInit => ActivationInv
<1> SUFFICES ASSUME ActivationInit PROVE ActivationInv
  OBVIOUS
<1> USE DEF ActivationInit
<1>1. ActivationTyped
  <2>1. files \in [FileNames -> MaybeSource \cup Engines] /\ journal \in Seq(Entry)
    BY DEF FileNames, MaybeSource
  <2>2. \A e \in Engines : EngineTyped(e)
    BY DEF EngineTyped, Stage, AtRest, MaybeSource
  <2> QED
    BY <2>1, <2>2 DEF ActivationTyped
<1>2. AllGated
  BY ActivationAssumption DEF AllGated, FileNames
<1>3. OneAtATime
  BY DEF OneAtATime, Prepared, AtRest
<1>4. Undisturbed
  BY NothingReplayed DEF Undisturbed, OnFile, OnTheWay, AtRest
<1> QED
  BY <1>1, <1>2, <1>3, <1>4 DEF ActivationInv

(* A step of the only engine at work: what it leaves behind has to be        *)
(* prepared and on the way, or be what the journal says once the engine      *)
(* rests.                                                                    *)
LEMMA LoneStep ==
  ASSUME NEW e \in Engines, \A d \in Engines \ {e} : engine'[d] = AtRest,
         {files'.active, files'.previous} \subseteq gated' \cup {NoFile}, Prepared(e)',
         ~halted' => OnTheWay(e)' /\ (engine'[e] = AtRest => OnFile' = Replayed')
  PROVE  OneAtATime' /\ Undisturbed'
<1>1. ASSUME NEW d \in Engines \ {e} PROVE Prepared(d)' /\ OnTheWay(d)'
  <2>1. engine'[d].pc = "idle"
    BY DEF AtRest
  <2> QED
    BY <2>1 DEF Prepared, OnTheWay
<1>2. \A d \in Engines : Prepared(d)'
  BY <1>1
<1>3. ~halted' => \A d \in Engines : OnTheWay(d)'
  BY <1>1
<1>4. \A c, d \in Engines : engine'[c] # AtRest /\ engine'[d] # AtRest => c = d
  OBVIOUS
<1> QED
  BY <1>2, <1>3, <1>4 DEF OneAtATime, Undisturbed

(* No step takes a gated source back, so that an engine keeps its type when  *)
(* another one moves.                                                        *)
LEMMA TypedStep ==
  ASSUME ActivationTyped, NEW e \in Engines, NEW x, engine' = [engine EXCEPT ![e] = x],
         files' \in [FileNames -> MaybeSource \cup Engines], journal' \in Seq(Entry),
         gated \subseteq gated', gated' \subseteq Sources, crossed' \in BOOLEAN,
         halted' \in BOOLEAN, EngineTyped(e)'
  PROVE  ActivationTyped'
<1>1. \A d \in Engines \ {e} : engine'[d] = engine[d]
  BY DEF ActivationTyped
<1>2. ASSUME NEW d \in Engines \ {e} PROVE EngineTyped(d)'
  <2>1. EngineTyped(d)
    BY DEF ActivationTyped
  <2> QED
    BY <1>1, <2>1 DEF EngineTyped
<1>3. engine' = [d \in Engines |-> engine'[d]]
  BY DEF ActivationTyped
<1> QED
  BY <1>2, <1>3 DEF ActivationTyped

(* What an engine holds while it is at work.                                 *)
LEMMA EngineAt ==
  ASSUME ActivationTyped, NEW e \in Engines, engine[e].pc # "idle"
  PROVE  /\ engine[e] # AtRest /\ engine[e] \in Stage
         /\ \/ engine[e].event = "promote" /\ engine[e].source \in gated
            \/ /\ engine[e].event = "rollback" /\ engine[e].source \in gated \cup {Damaged}
               /\ engine[e].pc \notin {"move", "validate"}
         /\ [event |-> engine[e].event, source |-> engine[e].source] \in Entry
         /\ Temp(e) \in {"temp", "rollbackTemp"}
<1>1. EngineTyped(e) /\ gated \subseteq Sources
  BY DEF ActivationTyped
<1>2. engine[e] # AtRest
  BY DEF AtRest
<1> QED
  BY <1>1, <1>2 DEF EngineTyped, Entry, MaybeSource, Temp

(* As long as activations come one at a time the others rest.               *)
LEMMA OthersRest ==
  ASSUME OneAtATime, Undisturbed, ~crossed, NEW e \in Engines, engine[e] # AtRest
  PROVE  /\ Prepared(e) /\ \A d \in Engines \ {e} : engine[d] = AtRest
         /\ {files.active, files.previous} \subseteq gated \cup {NoFile}
         /\ ~halted => OnTheWay(e)
BY DEF OneAtATime, Undisturbed

(* os.replace keeps the types, whoever has one of the two files open, and    *)
(* engines at rest stay so.                                                  *)
LEMMA ReplaceStep ==
  ASSUME ActivationTyped, AllGated, NEW e \in Engines, engine[e].pc # "idle",
         NEW from \in FileNames, NEW to \in FileNames, from # to,
         NEW pc \in {"open", "journal"}, Replace(e, from, to, pc),
         UNCHANGED <<journal, gated, begun, crossed, halted>>
  PROVE  /\ ActivationTyped' /\ AllGated'
         /\ engine'[e].pc = pc /\ engine'[e].event = engine[e].event
         /\ engine'[e].source = engine[e].source /\ engine'[e] # AtRest
         /\ files'[to] = files[from]
         /\ \A f \in FileNames \ {from, to} : files'[f] = files[f]
         /\ \A d \in Engines \ {e} : engine[d] = AtRest => engine'[d] = AtRest
<1> DEFINE Open(d) == Renamed(engine[d].open, from, to)
           Pc(d) == IF d = e THEN pc ELSE engine[d].pc
<1>1. /\ files \in [FileNames -> MaybeSource \cup Engines] /\ gated' = gated
      /\ files' = [files EXCEPT ![to] = files[from], ![from] = NoFile]
      /\ engine' = [d \in Engines |-> [engine[d] EXCEPT !.open = Open(d), !.pc = Pc(d)]]
      /\ \A d \in Engines : EngineTyped(d)
  BY DEF ActivationTyped, Replace
<1>2. files' \in [FileNames -> MaybeSource \cup Engines]
  BY <1>1 DEF MaybeSource
<1>3. /\ files'[to] = files[from] /\ files'[from] = NoFile
      /\ \A f \in FileNames \ {from, to} : files'[f] = files[f]
  BY <1>1
<1>4. AllGated'
  BY <1>1, <1>3, ActivationAssumption DEF AllGated
<1>5. ASSUME NEW d \in Engines
      PROVE  /\ engine'[d] \in Stage /\ engine'[d].event = engine[d].event
             /\ engine'[d].source = engine[d].source /\ engine'[d].pc = Pc(d)
             /\ engine'[d].open = Open(d)
  <2>1. engine[d] \in Stage
    BY <1>1 DEF EngineTyped
  <2>2. engine'[d] = [engine[d] EXCEPT !.open = Open(d), !.pc = Pc(d)]
    BY <1>1
  <2>3. Open(d) \in FileNames \cup {"none"}
    BY <2>1 DEF Renamed, Stage
  <2>4. Pc(d) \in {"idle", "move", "open", "write", "validate", "replace", "journal"}
    BY <2>1 DEF Stage
  <2> HIDE DEF Open, Pc
  <2> QED
    BY <2>1, <2>2, <2>3, <2>4 DEF Stage
<1>6. ASSUME NEW d \in Engines \ {e}, engine[d] = AtRest PROVE engine'[d] = AtRest
  <2>1. engine[d].open = "none" /\ "none" \notin FileNames
    BY <1>6 DEF AtRest, FileNames
  <2>2. Open(d) = "none" /\ Pc(d) = "idle"
    BY <1>6, <2>1 DEF Renamed, AtRest
  <2>3. engine'[d] = [engine[d] EXCEPT !.open = Open(d), !.pc = Pc(d)]
    BY <1>1
  <2> HIDE DEF Open, Pc
  <2>4. engine'[d] = [AtRest EXCEPT !.open = "none", !.pc = "idle"]
    BY <1>6, <2>2, <2>3
  <2> QED
    BY <2>4 DEF AtRest
<1>7. engine'[e] # AtRest
  BY <1>5 DEF AtRest
<1>8. ASSUME NEW d \in Engines PROVE EngineTyped(d)'
  <2>1. CASE d # e /\ engine[d] = AtRest
    BY <1>5, <1>6, <2>1 DEF EngineTyped
  <2>2. CASE d # e /\ engine[d] # AtRest
    <3>1. EngineTyped(d) /\ Pc(d) = engine[d].pc
      BY <1>1, <2>2
    <3>2. engine'[d].pc = engine[d].pc
      BY <1>5, <3>1
    <3> HIDE DEF Open, Pc
    <3> QED
      BY <1>1, <1>5, <2>2, <3>1, <3>2 DEF EngineTyped, AtRest
  <2>3. CASE d = e
    <3>1. engine[e] # AtRest
      BY DEF AtRest
    <3> QED
      BY <1>1, <1>5, <2>3, <3>1 DEF EngineTyped
  <2> QED
    BY <2>1, <2>2, <2>3
<1>9. engine' = [d \in Engines |-> engine'[d]]
  BY <1>1
<1>10. ActivationTyped'
  BY <1>1, <1>2, <1>8, <1>9 DEF ActivationTyped
<1> HIDE DEF Open
<1> QED
  BY <1>3, <1>4, <1>5, <1>6, <1>7, <1>10

(* An engine that gives up, or dies, leaves the files as they are; only the  *)
(* journal does not explain them any more.                                   *)
LEMMA RaiseStep ==
  ASSUME ActivationInv, NEW e \in Engines, Raise(e), UNCHANGED <<journal, gated, begun, crossed>>,
         halted' \in BOOLEAN, ~crossed => halted'
  PROVE  ActivationInv'
<1>1. /\ engine' = [engine EXCEPT ![e] = AtRest] /\ files' = files /\ journal' = journal
      /\ gated' = gated /\ crossed' = crossed /\ engine = [d \in Engines |-> engine[d]]
      /\ ActivationTyped /\ AllGated /\ OneAtATime
      /\ files \in [FileNames -> MaybeSource \cup Engines] /\ journal \in Seq(Entry)
      /\ gated \subseteq Sources /\ crossed \in BOOLEAN
  BY DEF Raise, ActivationInv, ActivationTyped
<1>2. engine'[e] = AtRest /\ \A d \in Engines \ {e} : engine'[d] = engine[d]
  BY <1>1
<1>3. EngineTyped(e)'
  BY <1>2 DEF EngineTyped, Stage, AtRest, MaybeSource
<1>4. ActivationTyped'
  BY <1>1, <1>3, TypedStep
<1>5. AllGated'
  BY <1>1 DEF AllGated
<1>6. ASSUME NEW d \in Engines, Prepared(d) PROVE Prepared(d)'
  <2>1. CASE d = e
    BY <1>2, <2>1 DEF Prepared, AtRest
  <2>2. CASE d # e
    BY <1>1, <1>2, <1>6, <2>2 DEF Prepared, Temp
  <2> QED
    BY <2>1, <2>2
<1>7. OneAtATime'
  BY <1>1, <1>2, <1>6 DEF OneAtATime
<1>8. Undisturbed'
  BY <1>1 DEF Undisturbed
<1> QED
  BY <1>4, <1>5, <1>7, <1>8 DEF ActivationInv

(* One step for each file operation of an engine.                           *)
LEMMA ActivationInvNext == ActivationInv /\ [ActivationNext]_activationVars => ActivationInv'
<1> SUFFICES ASSUME ActivationInv, [ActivationNext]_activationVars PROVE ActivationInv'
  OBVIOUS
<1>1. ActivationTyped /\ AllGated /\ OneAtATime /\ Undisturbed
  BY DEF ActivationInv
<1>2. /\ files = [f \in FileNames |-> files[f]] /\ files \in [FileNames -> MaybeSource \cup Engines]
      /\ engine = [d \in Engines |-> engine[d]] /\ gated \subseteq Sources /\ journal \in Seq(Entry)
      /\ NoFile \notin Sources /\ crossed \in BOOLEAN /\ halted \in BOOLEAN
  BY <1>1, ActivationAssumption DEF ActivationTyped
<1>3. CASE UNCHANGED activationVars
  <2>1. /\ files' = files /\ journal' = journal /\ engine' = engine /\ gated' = gated
        /\ crossed' = crossed /\ halted' = halted
    BY <1>3 DEF activationVars
  <2>2. ActivationTyped' /\ AllGated'
    BY <1>1, <2>1 DEF ActivationTyped, EngineTyped, AllGated
  <2>3. Replayed' = Replayed /\ \A e \in Engines : Prepared(e)' = Prepared(e)
    BY <2>1 DEF Replayed, Prepared, Temp
  <2>4. \A e \in Engines : OnTheWay(e)' = OnTheWay(e)
    BY <2>1, <2>3 DEF OnTheWay, OnFile, Told
  <2>5. OneAtATime' /\ Undisturbed'
    BY <1>1, <2>1, <2>3, <2>4 DEF OneAtATime, Undisturbed, OnFile
  <2> QED
    BY <2>2, <2>5 DEF ActivationInv
<1>4. ASSUME NEW e \in Engines, NEW source \in Sources, NEW regression \in BOOLEAN,
             NEW safety \in BOOLEAN, Evaluate(e, source, regression, safety)
      PROVE  ActivationInv'
  <2> DEFINE x == [pc |-> "move", event |-> "promote", source |-> source, open |-> "none"]
  <2>1. /\ engine' = [engine EXCEPT ![e] = x] /\ gated' = gated \cup {source} /\ halted' = halted
        /\ files' = files /\ journal' = journal
        /\ crossed' = (crossed \/ \E d \in Engines : engine[d] # AtRest)
    BY <1>4 DEF Evaluate, StartActivation
  <2>2. engine'[e] = x /\ \A d \in Engines \ {e} : engine'[d] = engine[d]
    BY <1>2, <2>1
  <2>3. ActivationTyped'
    <3>1. EngineTyped(e)'
      BY <2>1, <2>2 DEF EngineTyped, Stage, MaybeSource
    <3> QED
      BY <1>1, <1>2, <2>1, <3>1, TypedStep
  <2>4. AllGated'
    BY <1>1, <2>1 DEF AllGated
  <2>5. ASSUME ~crossed' PROVE OneAtATime' /\ Undisturbed'
    <3>1. ~crossed /\ \A d \in Engines : engine[d] = AtRest
      BY <2>1, <2>5
    <3>2. \A d \in Engines \ {e} : engine'[d] = AtRest
      BY <2>2, <3>1
    <3>3. {files'.active, files'.previous} \subseteq gated' \cup {NoFile}
      BY <1>1, <2>1, <3>1 DEF OneAtATime
    <3>4. Prepared(e)' /\ engine'[e] # AtRest
      BY <2>1, <2>2 DEF Prepared, AtRest
    <3>5. ASSUME ~halted' PROVE OnTheWay(e)'
      <4>1. OnFile' = Replayed'
        BY <1>1, <2>1, <3>1, <3>5 DEF OnFile, Replayed, Undisturbed
      <4> QED
        BY <2>2, <4>1 DEF OnTheWay
    <3> QED
      BY <3>2, <3>3, <3>4, <3>5, LoneStep
  <2> QED
    BY <2>3, <2>4, <2>5 DEF ActivationInv, OneAtATime, Undisturbed
<1>5. ASSUME NEW e \in Engines, BeginRollback(e)
      PROVE  ActivationInv'
  <2> DEFINE read == IF files.previous \in Sources THEN files.previous ELSE Damaged
             x == [pc |-> "open", event |-> "rollback", source |-> read, open |-> "none"]
  <2>1. /\ engine' = [engine EXCEPT ![e] = x] /\ gated' = gated /\ halted' = halted
        /\ files' = files /\ journal' = journal /\ files.previous # NoFile
        /\ crossed' = (crossed \/ \E d \in Engines : engine[d] # AtRest)
    BY <1>5 DEF BeginRollback, StartActivation
  <2>2. engine'[e] = x /\ \A d \in Engines \ {e} : engine'[d] = engine[d]
    BY <1>2, <2>1
  <2>3. read \in gated \cup {Damaged}
    BY <1>1 DEF AllGated, FileNames
  <2>4. ActivationTyped'
    <3>1. EngineTyped(e)'
      BY <1>2, <2>1, <2>2, <2>3 DEF EngineTyped, Stage, MaybeSource
    <3> QED
      BY <1>1, <1>2, <2>1, <3>1, TypedStep
  <2>5. AllGated'
    BY <1>1, <2>1 DEF AllGated
  <2>6. ASSUME ~crossed' PROVE OneAtATime' /\ Undisturbed'
    <3>1. ~crossed /\ \A d \in Engines : engine[d] = AtRest
      BY <2>1, <2>6
    <3>2. \A d \in Engines \ {e} : engine'[d] = AtRest
      BY <2>2, <3>1
    <3>3. {files'.active, files'.previous} \subseteq gated' \cup {NoFile}
      BY <1>1, <2>1, <3>1 DEF OneAtATime
    <3>4. files.previous \in gated /\ read = files.previous
      BY <1>2, <2>1, <3>3
    <3>5. Prepared(e)' /\ engine'[e] # AtRest
      BY <2>1, <2>2, <3>4 DEF Prepared, AtRest
    <3>6. ASSUME ~halted' PROVE OnTheWay(e)'
      <4>1. OnFile' = Replayed' /\ files'.previous = files.previous
        BY <1>1, <2>1, <3>1, <3>6 DEF OnFile, Replayed, Undisturbed
      <4> QED
        BY <2>2, <3>4, <4>1 DEF OnTheWay
    <3> QED
      BY <3>2, <3>3, <3>5, <3>6, LoneStep
  <2> QED
    BY <2>4, <2>5, <2>6 DEF ActivationInv, OneAtATime, Undisturbed
<1>6. ASSUME NEW e \in Engines, Move(e), UNCHANGED <<journal, gated, begun, crossed, halted>>
      PROVE  ActivationInv'
  <2>1. engine[e].pc = "move" /\ gated' = gated /\ crossed' = crossed /\ halted' = halted
    BY <1>6 DEF Move
  <2>2. engine[e] # AtRest /\ engine[e] \in Stage /\ engine[e].event = "promote"
        /\ engine[e].source \in gated
    BY <1>1, <2>1, EngineAt
  <2>3. /\ ActivationTyped' /\ AllGated' /\ engine'[e] # AtRest
        /\ engine'[e].pc = "open" /\ engine'[e].event = "promote"
        /\ engine'[e].source = engine[e].source
        /\ files'.previous = IF files.active = NoFile THEN files.previous ELSE files.active
        /\ files'.active \in {files.active, NoFile}
        /\ \A d \in Engines \ {e} : engine[d] = AtRest => engine'[d] = AtRest
    <3>1. CASE files.active = NoFile
      <4> DEFINE x == [engine[e] EXCEPT !.pc = "open"]
      <4>1. engine' = [engine EXCEPT ![e] = x] /\ files' = files
        BY <1>2, <1>6, <3>1 DEF Move, ToStep
      <4>2. x \in Stage /\ x.pc = "open" /\ x.event = "promote" /\ x.source = engine[e].source
        BY <2>2 DEF Stage
      <4> HIDE DEF x
      <4>3. engine'[e] = x /\ \A d \in Engines \ {e} : engine'[d] = engine[d]
        BY <1>2, <4>1
      <4>4. EngineTyped(e)' /\ engine'[e] # AtRest
        BY <2>1, <2>2, <4>2, <4>3 DEF EngineTyped, AtRest
      <4>5. ActivationTyped'
        BY <1>1, <1>2, <1>6, <4>1, <4>4, TypedStep
      <4>6. AllGated'
        BY <1>1, <2>1, <4>1 DEF AllGated
      <4> QED
        BY <3>1, <4>1, <4>2, <4>3, <4>4, <4>5, <4>6
    <3>2. CASE files.active # NoFile
      <4>1. Replace(e, "active", "previous", "open") /\ engine[e].pc # "idle"
        BY <1>6, <2>1, <3>2 DEF Move
      <4>2. files'.active = NoFile
        BY <1>2, <4>1 DEF Replace, FileNames
      <4>3. "active" \in FileNames /\ "previous" \in FileNames /\ "active" # "previous"
        BY DEF FileNames
      <4> QED
        BY <1>1, <1>6, <2>2, <3>2, <4>1, <4>2, <4>3, ReplaceStep
    <3> QED
      BY <3>1, <3>2
  <2>4. ASSUME ~crossed' PROVE OneAtATime' /\ Undisturbed'
    <3>1. /\ {files.active, files.previous} \subseteq gated \cup {NoFile}
          /\ \A d \in Engines \ {e} : engine[d] = AtRest
          /\ ~halted => OnTheWay(e)
      BY <1>1, <2>1, <2>2, <2>4, OthersRest
    <3>2. \A d \in Engines \ {e} : engine'[d] = AtRest
      BY <2>3, <3>1
    <3>3. {files'.active, files'.previous} \subseteq gated' \cup {NoFile}
      BY <2>1, <2>3, <3>1
    <3>4. Prepared(e)'
      BY <2>1, <2>2, <2>3 DEF Prepared
    <3>5. ASSUME ~halted' PROVE OnTheWay(e)'
      <4>1. OnFile = Replayed /\ Replayed' = Replayed
        BY <1>6, <2>1, <3>1, <3>5 DEF OnTheWay, Replayed
      <4>2. Told(e)'.previous = IF Replayed.active = NoFile THEN Replayed.previous
                                ELSE Replayed.active
        BY <2>3, <4>1 DEF Told, Applied
      <4>3. files'.previous = Told(e)'.previous
        BY <2>3, <4>1, <4>2 DEF OnFile
      <4> QED
        BY <2>3, <4>3 DEF OnTheWay
    <3> QED
      BY <2>3, <3>2, <3>3, <3>4, <3>5, LoneStep
  <2> QED
    BY <2>3, <2>4 DEF ActivationInv, OneAtATime, Undisturbed
<1>7. ASSUME NEW e \in Engines, OpenTemp(e), UNCHANGED <<journal, gated, begun, crossed, halted>>
      PROVE  ActivationInv'
  <2> DEFINE x == [engine[e] EXCEPT !.pc = "write", !.open = Temp(e)]
  <2>1. /\ engine' = [engine EXCEPT ![e] = x] /\ files' = [files EXCEPT ![Temp(e)] = e]
        /\ engine[e].pc = "open" /\ gated' = gated /\ crossed' = crossed /\ halted' = halted
    BY <1>2, <1>7 DEF OpenTemp
  <2>2. /\ engine[e] # AtRest /\ engine[e] \in Stage /\ Temp(e) \in {"temp", "rollbackTemp"}
        /\ \/ engine[e].event = "promote" /\ engine[e].source \in gated
           \/ engine[e].event = "rollback" /\ engine[e].source \in gated \cup {Damaged}
    BY <1>1, <2>1, EngineAt
  <2>3. /\ x \in Stage /\ x.pc = "write" /\ x.open = Temp(e) /\ x.event = engine[e].event
        /\ x.source = engine[e].source
    BY <2>2 DEF Stage, FileNames
  <2> HIDE DEF x
  <2>4. engine'[e] = x /\ x # AtRest /\ \A d \in Engines \ {e} : engine'[d] = engine[d]
    BY <1>2, <2>1, <2>3 DEF AtRest
  <2>5. /\ files' \in [FileNames -> MaybeSource \cup Engines] /\ files'[Temp(e)] = e
        /\ files'.active = files.active /\ files'.previous = files.previous
    BY <1>2, <2>1, <2>2 DEF FileNames
  <2>6. ActivationTyped'
    <3>1. EngineTyped(e)'
      BY <2>1, <2>2, <2>3, <2>4 DEF EngineTyped
    <3> QED
      BY <1>1, <1>2, <1>7, <2>1, <2>5, <3>1, TypedStep
  <2>7. AllGated'
    BY <1>1, <1>2, <2>1, <2>2, ActivationAssumption DEF AllGated, FileNames
  <2>8. ASSUME ~crossed' PROVE OneAtATime' /\ Undisturbed'
    <3>1. /\ {files.active, files.previous} \subseteq gated \cup {NoFile} /\ Prepared(e)
          /\ \A d \in Engines \ {e} : engine[d] = AtRest
          /\ ~halted => OnTheWay(e)
      BY <1>1, <2>1, <2>2, <2>8, OthersRest
    <3>2. \A d \in Engines \ {e} : engine'[d] = AtRest
      BY <2>4, <3>1
    <3>3. {files'.active, files'.previous} \subseteq gated' \cup {NoFile}
      BY <2>1, <2>5, <3>1
    <3>4. Temp(e)' = Temp(e)
      BY <2>3, <2>4 DEF Temp
    <3>5. Prepared(e)'
      BY <2>1, <2>3, <2>4, <2>5, <3>1, <3>4 DEF Prepared
    <3>6. ASSUME ~halted' PROVE OnTheWay(e)'
      <4>1. Told(e)' = Told(e) /\ OnFile' = OnFile /\ Replayed' = Replayed
        BY <1>7, <2>3, <2>4, <2>5 DEF Told, OnFile, Replayed
      <4> QED
        BY <2>1, <2>3, <2>4, <2>5, <3>1, <3>6, <4>1 DEF OnTheWay
    <3> QED
      BY <2>4, <3>2, <3>3, <3>5, <3>6, LoneStep
  <2> QED
    BY <2>6, <2>7, <2>8 DEF ActivationInv, OneAtATime, Undisturbed
<1>8. ASSUME NEW e \in Engines, WriteTemp(e), UNCHANGED <<journal, gated, begun, crossed, halted>>
      PROVE  ActivationInv'
  <2> DEFINE next == IF engine[e].event = "promote" THEN "validate" ELSE "replace"
             x == [engine[e] EXCEPT !.open = "none", !.pc = next]
             file == engine[e].open
  <2>1. /\ engine' = [engine EXCEPT ![e] = x] /\ engine[e].pc = "write"
        /\ gated' = gated /\ crossed' = crossed /\ halted' = halted
    BY <1>2, <1>8 DEF WriteTemp
  <2>2. /\ engine[e] # AtRest /\ engine[e] \in Stage /\ Temp(e) \in {"temp", "rollbackTemp"}
        /\ file \in FileNames \cup {"none"}
        /\ \/ engine[e].event = "promote" /\ engine[e].source \in gated
           \/ engine[e].event = "rollback" /\ engine[e].source \in gated \cup {Damaged}
    BY <1>1, <2>1, EngineAt DEF Stage
  <2>3. /\ x \in Stage /\ x.pc = next /\ x.event = engine[e].event
        /\ x.source = engine[e].source
    BY <2>2 DEF Stage
  <2> HIDE DEF x
  <2>4. engine'[e] = x /\ x # AtRest /\ \A d \in Engines \ {e} : engine'[d] = engine[d]
    BY <1>2, <2>1, <2>3 DEF AtRest
  <2>5. \/ file = "none" /\ files' = files
        \/ /\ file # "none"
           /\ \E content \in Written(e, file) : files' = [files EXCEPT ![file] = content]
    BY <1>8 DEF WriteTemp
  <2>6. Written(e, file) \subseteq gated \cup {Damaged}
    BY <2>2 DEF Written
  <2>7. files' \in [FileNames -> MaybeSource \cup Engines]
    BY <1>2, <2>2, <2>5, <2>6 DEF MaybeSource
  <2>8. ActivationTyped'
    <3>1. EngineTyped(e)'
      BY <2>1, <2>2, <2>3, <2>4 DEF EngineTyped
    <3> QED
      BY <1>1, <1>2, <1>8, <2>1, <2>7, <3>1, TypedStep
  <2>9. AllGated'
    <3>1. CASE files' = files
      BY <1>1, <2>1, <3>1 DEF AllGated
    <3>2. ASSUME NEW content \in Written(e, file), files' = [files EXCEPT ![file] = content]
          PROVE  AllGated'
      BY <1>1, <1>2, <2>1, <2>6, <3>2, ActivationAssumption DEF AllGated
    <3> QED
      BY <2>5, <3>1, <3>2
  <2>10. ASSUME ~crossed' PROVE OneAtATime' /\ Undisturbed'
    <3>1. /\ {files.active, files.previous} \subseteq gated \cup {NoFile} /\ Prepared(e)
          /\ \A d \in Engines \ {e} : engine[d] = AtRest
          /\ ~halted => OnTheWay(e)
      BY <1>1, <2>1, <2>2, <2>10, OthersRest
    <3>2. file = Temp(e) /\ files[file] = e /\ engine[e].source \in gated
      BY <2>1, <3>1 DEF Prepared
    <3>3. files' = [files EXCEPT ![Temp(e)] = engine[e].source]
      BY <2>2, <2>5, <3>2 DEF Written
    <3>4. /\ files'[Temp(e)] = engine[e].source
          /\ files'.active = files.active /\ files'.previous = files.previous
      BY <1>2, <2>2, <3>3 DEF FileNames
    <3>5. \A d \in Engines \ {e} : engine'[d] = AtRest
      BY <2>4, <3>1
    <3>6. {files'.active, files'.previous} \subseteq gated' \cup {NoFile}
      BY <2>1, <3>1, <3>4
    <3>7. Temp(e)' = Temp(e)
      BY <2>3, <2>4 DEF Temp
    <3>8. Prepared(e)'
      BY <2>1, <2>3, <2>4, <3>2, <3>4, <3>7 DEF Prepared
    <3>9. ASSUME ~halted' PROVE OnTheWay(e)'
      <4>1. Told(e)' = Told(e) /\ OnFile' = OnFile /\ Replayed' = Replayed
        BY <1>8, <2>3, <2>4, <3>4 DEF Told, OnFile, Replayed
      <4> QED
        BY <2>1, <2>3, <2>4, <3>1, <3>4, <3>9, <4>1 DEF OnTheWay
    <3> QED
      BY <2>4, <3>5, <3>6, <3>8, <3>9, LoneStep
  <2> QED
    BY <2>8, <2>9, <2>10 DEF ActivationInv, OneAtATime, Undisturbed
<1>9. ASSUME NEW e \in Engines, Validate(e), UNCHANGED <<journal, gated, begun, crossed, halted>>
      PROVE  ActivationInv'
  <2>1. engine[e].pc = "validate" /\ gated' = gated /\ crossed' = crossed /\ halted' = halted
    BY <1>9 DEF Validate
  <2>2. /\ engine[e] # AtRest /\ engine[e] \in Stage
        /\ engine[e].event = "promote" /\ engine[e].source \in gated
    BY <1>1, <2>1, EngineAt
  <2>3. ~crossed =>
          /\ {files.active, files.previous} \subseteq gated \cup {NoFile} /\ Prepared(e)
          /\ \A d \in Engines \ {e} : engine[d] = AtRest
          /\ ~halted => OnTheWay(e)
    BY <1>1, <2>2, OthersRest
  <2>4. CASE ToStep(e, "replace") /\ UNCHANGED files
    <3> DEFINE x == [engine[e] EXCEPT !.pc = "replace"]
    <3>1. engine' = [engine EXCEPT ![e] = x] /\ files' = files
      BY <1>2, <2>4 DEF ToStep
    <3>2. x \in Stage /\ x.pc = "replace" /\ x.event = "promote" /\ x.source = engine[e].source
      BY <2>2 DEF Stage
    <3> HIDE DEF x
    <3>3. engine'[e] = x /\ x # AtRest /\ \A d \in Engines \ {e} : engine'[d] = engine[d]
      BY <1>2, <3>1, <3>2 DEF AtRest
    <3>4. EngineTyped(e)'
      BY <2>1, <2>2, <3>2, <3>3 DEF EngineTyped
    <3>5. ActivationTyped' /\ AllGated'
      <4>1. AllGated'
        BY <1>1, <2>1, <3>1 DEF AllGated
      <4> QED
        BY <1>1, <1>2, <1>9, <3>1, <3>4, <4>1, TypedStep
    <3>6. ASSUME ~crossed' PROVE OneAtATime' /\ Undisturbed'
      <4>1. \A d \in Engines \ {e} : engine'[d] = AtRest
        BY <2>1, <2>3, <3>3, <3>6
      <4>2. {files'.active, files'.previous} \subseteq gated' \cup {NoFile}
        BY <2>1, <2>3, <3>1, <3>6
      <4>3. Temp(e)' = Temp(e)
        BY <2>2, <3>2, <3>3 DEF Temp
      <4>4. Prepared(e)'
        BY <2>1, <2>2, <2>3, <3>1, <3>2, <3>3, <3>6, <4>3 DEF Prepared
      <4>5. ASSUME ~halted' PROVE OnTheWay(e)'
        <5>1. Told(e)' = Told(e) /\ OnFile' = OnFile /\ Replayed' = Replayed
          BY <1>9, <2>2, <3>1, <3>2, <3>3 DEF Told, OnFile, Replayed
        <5> QED
          BY <2>1, <2>2, <2>3, <3>1, <3>2, <3>3, <3>6, <4>5, <5>1 DEF OnTheWay
      <4> QED
        BY <3>3, <4>1, <4>2, <4>4, <4>5, LoneStep
    <3> QED
      BY <3>5, <3>6 DEF ActivationInv, OneAtATime, Undisturbed
  <2>5. CASE files.temp \notin Sources /\ Raise(e)
    <3>1. crossed
      BY <1>2, <2>1, <2>2, <2>3, <2>5 DEF Prepared, Temp
    <3> QED
      BY <1>2, <1>9, <2>5, <3>1, RaiseStep
  <2> QED
    BY <1>9, <2>4, <2>5 DEF Validate
<1>10. ASSUME NEW e \in Engines, Swap(e), UNCHANGED <<journal, gated, begun, crossed, halted>>
       PROVE  ActivationInv'
  <2>1. engine[e].pc = "replace" /\ gated' = gated /\ crossed' = crossed /\ halted' = halted
    BY <1>10 DEF Swap
  <2>2. /\ engine[e] # AtRest /\ engine[e].pc # "idle" /\ Temp(e) \in {"temp", "rollbackTemp"}
        /\ engine[e].event \in {"promote", "rollback"}
    BY <1>1, <2>1, EngineAt
  <2>3. ~crossed =>
          /\ {files.active, files.previous} \subseteq gated \cup {NoFile} /\ Prepared(e)
          /\ \A d \in Engines \ {e} : engine[d] = AtRest
          /\ ~halted => OnTheWay(e)
    BY <1>1, <2>2, OthersRest
  <2>4. CASE files[Temp(e)] # NoFile /\ Replace(e, Temp(e), "active", "journal")
    <3>1. /\ Temp(e) \in FileNames /\ "active" \in FileNames /\ "previous" \in FileNames
          /\ Temp(e) # "active" /\ Temp(e) # "previous"
      BY <2>2 DEF FileNames
    <3>2. /\ ActivationTyped' /\ AllGated' /\ engine'[e] # AtRest
          /\ engine'[e].pc = "journal" /\ engine'[e].event = engine[e].event
          /\ engine'[e].source = engine[e].source
          /\ files'.active = files[Temp(e)] /\ files'.previous = files.previous
          /\ \A d \in Engines \ {e} : engine[d] = AtRest => engine'[d] = AtRest
      BY <1>1, <1>10, <2>2, <2>4, <3>1, ReplaceStep
    <3>3. ASSUME ~crossed' PROVE OneAtATime' /\ Undisturbed'
      <4>1. \A d \in Engines \ {e} : engine'[d] = AtRest
        BY <2>1, <2>3, <3>2, <3>3
      <4>2. files[Temp(e)] = engine[e].source /\ engine[e].source \in gated
        BY <2>1, <2>3, <3>3 DEF Prepared
      <4>3. {files'.active, files'.previous} \subseteq gated' \cup {NoFile}
        BY <2>1, <2>3, <3>2, <3>3, <4>2
      <4>4. Prepared(e)'
        BY <2>1, <3>2, <4>2 DEF Prepared
      <4>5. ASSUME ~halted' PROVE OnTheWay(e)'
        <5>1. OnTheWay(e) /\ Replayed' = Replayed
          BY <1>10, <2>1, <2>3, <3>3, <4>5 DEF Replayed
        <5>2. Told(e)' = Told(e)
          BY <3>2, <5>1 DEF Told
        <5>3. CASE engine[e].event = "promote"
          <6>1. files.previous = Told(e).previous
            BY <2>1, <5>1, <5>3 DEF OnTheWay
          <6>2. Told(e) = [active |-> engine[e].source, previous |-> Told(e).previous]
            BY <5>3 DEF Told, Applied
          <6>3. OnFile' = Told(e)'
            BY <3>2, <4>2, <5>2, <6>1, <6>2 DEF OnFile
          <6> QED
            BY <3>2, <6>3 DEF OnTheWay
        <5>4. CASE engine[e].event = "rollback"
          <6>1. OnFile = Replayed /\ engine[e].source = files.previous
            BY <2>1, <5>1, <5>4 DEF OnTheWay
          <6>2. Told(e) = [active |-> files.previous, previous |-> files.previous]
            BY <5>4, <6>1 DEF Told, Applied, OnFile
          <6>3. OnFile' = Told(e)'
            BY <3>2, <4>2, <5>2, <6>1, <6>2 DEF OnFile
          <6> QED
            BY <3>2, <6>3 DEF OnTheWay
        <5> QED
          BY <2>2, <5>3, <5>4
      <4> QED
        BY <3>2, <4>1, <4>3, <4>4, <4>5, LoneStep
    <3> QED
      BY <3>2, <3>3 DEF ActivationInv, OneAtATime, Undisturbed
  <2>5. CASE files[Temp(e)] = NoFile /\ Raise(e)
    <3>1. crossed
      BY <1>2, <2>1, <2>3, <2>5 DEF Prepared
    <3> QED
      BY <1>2, <1>10, <2>5, <3>1, RaiseStep
  <2> QED
    BY <1>10, <2>4, <2>5 DEF Swap
<1>11. ASSUME NEW e \in Engines, Journal(e)
       PROVE  ActivationInv'
  <2> DEFINE entry == [event |-> engine[e].event, source |-> engine[e].source]
  <2>1. /\ engine' = [engine EXCEPT ![e] = AtRest] /\ journal' = Append(journal, entry)
        /\ UNCHANGED <<files, gated, crossed, halted>> /\ engine[e].pc = "journal"
    BY <1>11 DEF Journal
  <2>2. engine[e] # AtRest /\ entry \in Entry
    BY <1>1, <2>1, EngineAt
  <2>3. journal' \in Seq(Entry) /\ Len(journal') = Len(journal) + 1
    BY <1>2, <2>1, <2>2
  <2>4. engine'[e] = AtRest /\ \A d \in Engines \ {e} : engine'[d] = engine[d]
    BY <1>2, <2>1
  <2>5. ActivationTyped'
    <3>1. EngineTyped(e)'
      BY <2>4 DEF EngineTyped, Stage, AtRest, MaybeSource
    <3> QED
      BY <1>1, <1>2, <2>1, <2>3, <3>1, TypedStep
  <2>6. AllGated'
    BY <1>1, <2>1 DEF AllGated
  <2>7. ASSUME ~crossed' PROVE OneAtATime' /\ Undisturbed'
    <3>1. /\ {files.active, files.previous} \subseteq gated \cup {NoFile}
          /\ \A d \in Engines \ {e} : engine[d] = AtRest
          /\ ~halted => OnTheWay(e)
      BY <1>1, <2>1, <2>2, <2>7, OthersRest
    <3>2. \A d \in Engines \ {e} : engine'[d] = AtRest
      BY <2>4, <3>1
    <3>3. {files'.active, files'.previous} \subseteq gated' \cup {NoFile}
      BY <2>1, <3>1
    <3>4. engine'[e].pc = "idle"
      BY <2>4 DEF AtRest
    <3>5. Prepared(e)' /\ OnTheWay(e)'
      BY <3>4 DEF Prepared, OnTheWay
    <3>6. ASSUME ~halted' PROVE OnFile' = Replayed'
      <4>1. OnFile = Told(e)
        BY <2>1, <3>1, <3>6 DEF OnTheWay
      <4>2. Replayed' = Told(e)
        BY <1>2, <2>1, <2>2, <2>3, ReplayAppend DEF Replayed, Told
      <4> QED
        BY <2>1, <4>1, <4>2 DEF OnFile
    <3> QED
      BY <3>2, <3>3, <3>5, <3>6, LoneStep
  <2> QED
    BY <2>5, <2>6, <2>7 DEF ActivationInv, OneAtATime, Undisturbed
<1>12. ASSUME NEW e \in Engines, EngineDies(e)
       PROVE  ActivationInv'
  BY <1>12, RaiseStep DEF EngineDies
<1> QED
  BY <1>3, <1>4, <1>5, <1>6, <1>7, <1>8, <1>9, <1>10, <1>11, <1>12 DEF ActivationNext, Activate

(* orchestration.py:162 and 220: for any number of engines on the directory, *)
(* any candidates and any number of activations, what is the whole of a      *)
(* source, active or kept for a rollback, has passed both gates; activations *)
(* that do not overlap leave nothing else there, wherever an engine dies,    *)
(* and, when none does, what the journal tells.                              *)
THEOREM Activations == ActivationSpec => []ActivationSound
<1>1. ActivationInit => ActivationInv
  BY ActivationInvInit
<1>2. ActivationInv /\ [ActivationNext]_activationVars => ActivationInv'
  BY ActivationInvNext
<1>3. ActivationInv => ActivationSound
  BY ActivationInvImplies
<1> QED
  BY <1>1, <1>2, <1>3, PTL DEF ActivationSpec
================
