--------------------------- MODULE StateGraph_proofs ---------------------------
(***************************************************************************)
(* What holds of a graph run and of a team of agents for any graph, team,    *)
(* pool, number of steps, invocations, cancellations and crashes: the run is *)
(* sound (GraphKept), its checkpoints keep the promise of Supersteps         *)
(* (GraphRefinement), and nobody of a team works twice, and who worked had   *)
(* what it depends on (TeamKept).                                            *)
(*                                                                           *)
(* The inductive invariant of a run, GraphInv, ties three things together:   *)
(* the run stands at its last durable boundary (or past it, when the graph   *)
(* has ended); the threads, the nodes still to be awaited and those lost are *)
(* members of the superstep of that boundary; and between them they account  *)
(* for every member.  That of a team, TeamInv, adds what a boundary holds of *)
(* the team's dependencies and levels, and what the threads may report.      *)
(***************************************************************************)
EXTENDS AgentTeam, Recursion, FiniteSetTheorems, SequenceTheorems, TLAPS

(* Only keeps the elements of a sequence that are in a set.                  *)
LEMMA OnlyKeeps ==
  ASSUME NEW T, NEW s \in Seq(T), NEW set
  PROVE  /\ Super!Only(s, set) \in Seq(T \cap set)
         /\ Range(Super!Only(s, set)) = Range(s) \cap set
         /\ Range(s) \subseteq set => Super!Only(s, set) = s
<1> DEFINE N == Len(s)
           step == [k \in 1..N |-> [kept \in Seq(T) |-> IF s[k] \in set THEN Append(kept, s[k]) ELSE kept]]
           Kept(f) == [k \in 0..N |-> IF k = 0 THEN <<>>
                         ELSE IF s[k] \in set THEN Append(f[k - 1], s[k]) ELSE f[k - 1]]
           kept == CHOOSE f : f = Kept(f)
<1>1. N \in Nat /\ DOMAIN s = 1..N /\ \A k \in 1..N : s[k] \in T
  BY LenProperties
<1>2. step \in [1..N -> [Seq(T) -> Seq(T)]] /\ <<>> \in Seq(T)
  <2>1. \A k \in 1..N, t \in Seq(T) : Append(t, s[k]) \in Seq(T)
    BY <1>1
  <2> QED
    BY <2>1
<1> HIDE DEF step, N
<1>3. PICK f \in [0..N -> Seq(T)] : Recurs(f, N, <<>>, step)
  BY <1>1, <1>2, IntervalRecursion
<1>4. f = Kept(f)
  <2>1. \A k \in 1..N : k - 1 \in 0..N /\ step[k][f[k - 1]] = IF s[k] \in set THEN Append(f[k - 1], s[k]) ELSE f[k - 1]
    BY <1>1 DEF step
  <2>2. \A k \in 0..N : f[k] = IF k = 0 THEN <<>> ELSE IF s[k] \in set THEN Append(f[k - 1], s[k]) ELSE f[k - 1]
    <3>1. f[0] = <<>> /\ \A k \in 1..N : f[k] = step[k][f[k - 1]]
      BY <1>3 DEF Recurs
    <3>2. \A k \in 0..N : k = 0 \/ k \in 1..N
      BY <1>1
    <3>3. \A k \in 1..N : k # 0
      BY <1>1
    <3> QED
      BY <2>1, <3>1, <3>2, <3>3
  <2> QED
    BY <2>2
<1>5. kept = Kept(kept)
  BY <1>4
<1>6. Super!Only(s, set) = kept[N]
  BY DEF Super!Only, N
<1> HIDE DEF kept
<1>7. \A k \in 0..N : kept[k] = IF k = 0 THEN <<>>
                         ELSE IF s[k] \in set THEN Append(kept[k - 1], s[k]) ELSE kept[k - 1]
  BY <1>5, Zenon
<1>8. /\ kept[0] = <<>>
      /\ \A k \in 1..N : kept[k] = IF s[k] \in set THEN Append(kept[k - 1], s[k]) ELSE kept[k - 1]
  BY <1>1, <1>7
<1> HIDE DEF Kept
<1> DEFINE From(k) == {s[i] : i \in 1..k}
           Good == {k \in 0..N : /\ kept[k] \in Seq(T \cap set) /\ Range(kept[k]) = From(k) \cap set
                                 /\ Range(s) \subseteq set => kept[k] = [i \in 1..k |-> s[i]]}
<1>9. 0 \in Good
  <2>1. From(0) = {}
    OBVIOUS
  <2>2. <<>> \in Seq(T \cap set) /\ Range(<<>>) = {} /\ <<>> = [i \in 1..0 |-> s[i]]
    BY DEF Range
  <2>3. kept[0] \in Seq(T \cap set) /\ Range(kept[0]) = {} \cap set /\ kept[0] = [i \in 1..0 |-> s[i]]
    BY <1>8, <2>2
  <2>4. 0 \in 0..N
    BY <1>1
  <2> HIDE DEF From
  <2> QED
    BY <2>1, <2>3, <2>4, Zenon
<1>10. ASSUME NEW k \in 1..N, k - 1 \in Good PROVE k \in Good
  <2>1. PICK t \in Seq(T \cap set) : t = kept[k - 1]
    BY <1>10
  <2>2. Range(t) = From(k - 1) \cap set
    BY <1>10, <2>1
  <2>3. Range(s) \subseteq set => t = [i \in 1..k - 1 |-> s[i]]
    BY <1>10, <2>1
  <2>4. From(k) = From(k - 1) \cup {s[k]}
    <3>1. \A i \in 1..k : i \in 1..k - 1 \/ i = k
      BY <1>1
    <3>2. \A i \in 1..k - 1 : i \in 1..k
      BY <1>1
    <3> QED
      BY <1>1, <3>1, <3>2
  <2>5. CASE s[k] \notin set
    <3>1. kept[k] = t
      BY <1>8, <2>1, <2>5
    <3>2. s[k] \in Range(s)
      BY <1>1 DEF Range
    <3>3. From(k) \cap set = From(k - 1) \cap set
      BY <2>4, <2>5
    <3> HIDE DEF From
    <3> QED
      BY <2>2, <2>5, <3>1, <3>2, <3>3
  <2>6. CASE s[k] \in set
    <3>1. kept[k] = Append(t, s[k])
      BY <1>8, <2>1, <2>6
    <3>2. s[k] \in T \cap set
      BY <1>1, <2>6
    <3>3. kept[k] \in Seq(T \cap set) /\ Len(kept[k]) = Len(t) + 1 /\ Len(t) \in Nat
      BY <3>1, <3>2
    <3>4. \A i \in 1..Len(t) + 1 : kept[k][i] = IF i = Len(t) + 1 THEN s[k] ELSE t[i]
      BY <3>1, <3>2, <3>3
    <3>5. DOMAIN t = 1..Len(t) /\ DOMAIN kept[k] = 1..Len(t) + 1
      BY <3>3, LenProperties
    <3>6. Range(kept[k]) = Range(t) \cup {s[k]}
      <4>1. \A i \in DOMAIN t : i \in DOMAIN kept[k] /\ kept[k][i] = t[i]
        BY <3>3, <3>4, <3>5
      <4>2. \A i \in DOMAIN kept[k] : i \in DOMAIN t \/ (i = Len(t) + 1 /\ kept[k][i] = s[k])
        BY <3>3, <3>4, <3>5
      <4>3. Len(t) + 1 \in DOMAIN kept[k] /\ kept[k][Len(t) + 1] = s[k]
        BY <3>3, <3>4, <3>5
      <4> QED
        BY <4>1, <4>2, <4>3 DEF Range
    <3>7. From(k) \cap set = (From(k - 1) \cap set) \cup {s[k]}
      BY <2>4, <2>6
    <3>8. ASSUME Range(s) \subseteq set PROVE kept[k] = [i \in 1..k |-> s[i]]
      <4>1. t = [i \in 1..k - 1 |-> s[i]] /\ DOMAIN t = 1..k - 1
        BY <2>3, <3>8
      <4>2. Len(t) = k - 1
        BY <1>1, <3>3, <3>5, <4>1
      <4>3. \A i \in 1..k : kept[k][i] = s[i]
        <5>1. \A i \in 1..k - 1 : t[i] = s[i]
          BY <4>1
        <5>2. \A i \in 1..k : (i = k \/ i \in 1..k - 1) /\ kept[k][i] = IF i = k THEN s[k] ELSE t[i]
          BY <1>1, <3>4, <4>2
        <5> QED
          BY <5>1, <5>2
      <4>4. kept[k] = [i \in 1..k |-> kept[k][i]]
        BY <1>1, <3>3, <3>5, <4>2, LenProperties
      <4> QED
        BY <4>3, <4>4
    <3> HIDE DEF From
    <3> QED
      BY <2>2, <3>3, <3>6, <3>7, <3>8
  <2> QED
    BY <2>5, <2>6
<1> HIDE DEF Good
<1>11. \A k \in 1..N : k - 1 \in Good => k \in Good
  BY <1>10
<1>12. 0..N \subseteq Good
  BY <1>1, <1>9, <1>11, IntervalInduction, Zenon
<1>13. N \in Good
  BY <1>1, <1>12
<1>14. From(N) = Range(s)
  BY <1>1 DEF Range
<1>15. s = [i \in 1..N |-> s[i]]
  BY <1>1, LenProperties
<1> QED
  BY <1>6, <1>13, <1>14, <1>15 DEF Good

(* The elements of two sequences joined.                                    *)
LEMMA RangeOfConcat ==
  ASSUME NEW T, NEW s \in Seq(T), NEW t \in Seq(T)
  PROVE  s \o t \in Seq(T) /\ Range(s \o t) = Range(s) \cup Range(t)
<1>1. PICK u \in Seq(T) : u = s \o t
  BY ConcatProperties
<1>2. /\ Len(s) \in Nat /\ Len(t) \in Nat /\ Len(u) = Len(s) + Len(t)
      /\ \A i \in 1..Len(s) + Len(t) : u[i] = IF i <= Len(s) THEN s[i] ELSE t[i - Len(s)]
  BY <1>1, ConcatProperties, LenProperties
<1>3. DOMAIN s = 1..Len(s) /\ DOMAIN t = 1..Len(t) /\ DOMAIN u = 1..Len(u)
  BY LenProperties
<1>4. \A i \in DOMAIN s : i \in DOMAIN u /\ u[i] = s[i]
  BY <1>2, <1>3
<1>5. \A i \in DOMAIN t : i + Len(s) \in DOMAIN u /\ u[i + Len(s)] = t[i]
  BY <1>2, <1>3
<1>6. \A i \in DOMAIN u : (i \in DOMAIN s /\ u[i] = s[i]) \/ (i - Len(s) \in DOMAIN t /\ u[i] = t[i - Len(s)])
  BY <1>2, <1>3
<1>7. Range(u) \subseteq Range(s) \cup Range(t)
  BY <1>6 DEF Range
<1>8. Range(s) \subseteq Range(u) /\ Range(t) \subseteq Range(u)
  BY <1>4, <1>5 DEF Range
<1> QED
  BY <1>1, <1>7, <1>8

(* The elements of a sequence without its first.                            *)
LEMMA RangeOfTail ==
  ASSUME NEW T, NEW s \in Seq(T), s # <<>>
  PROVE  /\ Head(s) \in T /\ Tail(s) \in Seq(T) /\ Range(s) = {Head(s)} \cup Range(Tail(s))
         /\ Tail(s) = <<>> <=> Len(s) = 1
<1>1. PICK t \in Seq(T) : t = Tail(s)
  BY HeadTailProperties
<1>2. /\ Len(s) \in Nat /\ Len(t) \in Nat /\ Len(t) = Len(s) - 1
      /\ \A i \in 1..Len(t) : t[i] = s[i + 1]
  BY <1>1, HeadTailProperties, LenProperties
<1>3. DOMAIN s = 1..Len(s) /\ DOMAIN t = 1..Len(t)
  BY LenProperties
<1>4. 1 \in DOMAIN s /\ s[1] = Head(s)
  BY <1>2, <1>3
<1>5. \A i \in DOMAIN t : i + 1 \in DOMAIN s /\ t[i] = s[i + 1]
  BY <1>2, <1>3
<1>6. \A i \in DOMAIN s : i = 1 \/ (i - 1 \in DOMAIN t /\ s[i] = t[i - 1])
  BY <1>2, <1>3
<1>7. Range(s) \subseteq {Head(s)} \cup Range(t)
  BY <1>4, <1>6 DEF Range
<1>8. {Head(s)} \cup Range(t) \subseteq Range(s)
  BY <1>4, <1>5 DEF Range
<1>9. t = <<>> <=> Len(t) = 0
  BY <1>2, LenProperties
<1> QED
  BY <1>1, <1>2, <1>7, <1>8, <1>9, HeadTailProperties

(* Successors lists what follows the nodes of a sequence.                    *)
Targets == Nodes \cup {END}

(* The next nodes of a superstep are those its nodes route to, and a node   *)
(* alone decides them.                                                      *)
LEMMA SuccessorsOf ==
  ASSUME NEW ns \in Seq(Nodes), NEW route, \A n \in Range(ns) : route[n] \in Seq(Targets)
  PROVE  /\ Super!Successors(ns, route) \in Seq(Targets)
         /\ Range(Super!Successors(ns, route)) = UNION {Range(route[n]) : n \in Range(ns)}
         /\ Len(ns) = 1 => Super!Successors(ns, route) = route[ns[1]]
<1> DEFINE N == Len(ns)
           All == Nodes \cup {END}
           more(k, seen) == seen \o Super!Only(route[ns[k]], All \ Super!Range(seen))
           step == [k \in 1..N |-> [seen \in Seq(All) |-> more(k, seen)]]
           Seen(f) == [k \in 0..N |-> IF k = 0 THEN <<>> ELSE more(k, f[k - 1])]
           seen == CHOOSE f : f = Seen(f)
<1>1. N \in Nat /\ DOMAIN ns = 1..N
  BY LenProperties
<1>2. \A k \in 1..N : route[ns[k]] \in Seq(All) /\ ns[k] \in Range(ns)
  BY <1>1 DEF Range, Targets
<1>3. ASSUME NEW k \in 1..N, NEW t \in Seq(All)
      PROVE  /\ more(k, t) \in Seq(All) /\ Range(more(k, t)) = Range(t) \cup Range(route[ns[k]])
             /\ t = <<>> => more(k, t) = route[ns[k]]
  <2>1. PICK r \in Seq(All) : r = route[ns[k]]
    BY <1>2
  <2>0. Super!Range(t) = Range(t)
    BY DEF Super!Range, Range
  <2> HIDE DEF All
  <2>2. PICK u : u = Super!Only(r, All \ Range(t))
    OBVIOUS
  <2>3. /\ u \in Seq(All \cap (All \ Range(t))) /\ Range(u) = Range(r) \cap (All \ Range(t))
        /\ Range(r) \subseteq All \ Range(t) => u = r
    BY <2>2, OnlyKeeps
  <2>4. u \in Seq(All)
    BY <2>3, SeqMonotonic
  <2>5. Range(r) \subseteq All
    BY RangeOfSeq
  <2>6. t \o u \in Seq(All) /\ Range(t \o u) = Range(t) \cup Range(u)
    BY <2>4, RangeOfConcat
  <2>7. t = <<>> => Range(t) = {} /\ t \o u = u
    BY <2>4, ConcatEmptySeq DEF Range
  <2>8. more(k, t) = t \o u
    BY <2>0, <2>1, <2>2
  <2> HIDE DEF more
  <2> QED
    BY <2>1, <2>3, <2>5, <2>6, <2>7, <2>8
<1>4. step \in [1..N -> [Seq(All) -> Seq(All)]] /\ <<>> \in Seq(All)
  <2> HIDE DEF more
  <2>1. \A k \in 1..N, t \in Seq(All) : more(k, t) \in Seq(All)
    BY <1>3
  <2> HIDE DEF All
  <2> QED
    BY <2>1
<1> HIDE DEF step, N
<1>5. PICK f \in [0..N -> Seq(All)] : Recurs(f, N, <<>>, step)
  BY <1>1, <1>4, IntervalRecursion
<1>6. Super!Successors(ns, route) = seen[N]
  BY DEF Super!Successors, N
<1> HIDE DEF more, All
<1>7. f = Seen(f)
  <2>1. \A k \in 1..N : k # 0 /\ k - 1 \in 0..N /\ step[k][f[k - 1]] = more(k, f[k - 1])
    BY <1>1 DEF step
  <2>2. f[0] = <<>> /\ \A k \in 1..N : f[k] = step[k][f[k - 1]]
    BY <1>5 DEF Recurs
  <2>3. \A k \in 0..N : k = 0 \/ k \in 1..N
    BY <1>1
  <2>4. \A k \in 0..N : f[k] = IF k = 0 THEN <<>> ELSE more(k, f[k - 1])
    BY <2>1, <2>2, <2>3
  <2> QED
    BY <2>4
<1>8. seen = Seen(seen)
  BY <1>7
<1> HIDE DEF seen
<1>9. \A k \in 0..N : seen[k] = IF k = 0 THEN <<>> ELSE more(k, seen[k - 1])
  BY <1>8, Zenon
<1>10. seen[0] = <<>> /\ \A k \in 1..N : seen[k] = more(k, seen[k - 1])
  BY <1>1, <1>9
<1> HIDE DEF Seen
<1> DEFINE From(k) == UNION {Range(route[ns[i]]) : i \in 1..k}
           Good == {k \in 0..N : /\ seen[k] \in Seq(All) /\ Range(seen[k]) = From(k)
                                 /\ k = 1 => seen[k] = route[ns[1]]}
<1>11. 0 \in Good
  <2>1. 0 \in 0..N /\ From(0) = {}
    BY <1>1
  <2>2. seen[0] \in Seq(All) /\ Range(seen[0]) = {}
    BY <1>10 DEF Range
  <2>3. ~(0 = 1)
    OBVIOUS
  <2> HIDE DEF From
  <2> QED
    BY <2>1, <2>2, <2>3, Zenon
<1>12. ASSUME NEW k \in 1..N, k - 1 \in Good PROVE k \in Good
  <2>1. PICK t \in Seq(All) : t = seen[k - 1]
    BY <1>12
  <2>2. Range(t) = From(k - 1) /\ seen[k] = more(k, t) /\ k \in 0..N
    BY <1>1, <1>10, <1>12, <2>1
  <2>3. \A i \in 1..k : i \in 1..k - 1 \/ i = k
    BY <1>1
  <2>4. k \in 1..k /\ \A i \in 1..k - 1 : i \in 1..k
    BY <1>1
  <2>5. From(k) = From(k - 1) \cup Range(route[ns[k]])
    BY <2>3, <2>4
  <2>6. k = 1 => t = <<>>
    BY <1>10, <2>1
  <2>7. k = 1 => seen[k] = route[ns[1]]
    BY <1>3, <2>2, <2>6
  <2> HIDE DEF From
  <2> QED
    BY <1>3, <2>2, <2>5, <2>7
<1> HIDE DEF Good
<1>13. \A k \in 1..N : k - 1 \in Good => k \in Good
  BY <1>12
<1>14. 0..N \subseteq Good
  BY <1>1, <1>11, <1>13, IntervalInduction, Zenon
<1>15. N \in Good
  BY <1>1, <1>14
<1>16. From(N) = UNION {Range(route[n]) : n \in Range(ns)}
  <2>1. Range(ns) = {ns[i] : i \in 1..N}
    BY <1>1 DEF Range
  <2>2. \A x : x \in From(N) <=> \E i \in 1..N : x \in Range(route[ns[i]])
    OBVIOUS
  <2> QED
    BY <2>1, <2>2
<1> QED
  BY <1>6, <1>15, <1>16 DEF Good, N, All, Targets
-------------------------------------------------------------------------------
(* The types of the run, and the members of a superstep.                     *)
RunState == [pc : {"idle", "head", "check", "wait", "merge"}, at : Boundaries, skip : BOOLEAN,
             todo : Seq(Nodes), lost : SUBSET Nodes, resumed : SUBSET Nat,
             outcome : {"none", "completed", "interrupted", "failed", "paused", "crashed"}]
ThreadStates == Results \cup {"unused", "queued", "running", "raised"}
GraphTyped ==
  /\ IsGraph(graph) /\ (saved = <<>> \/ \E b \in Boundaries : saved = <<b>>)
  /\ run \in RunState /\ threads \in [Nodes -> ThreadStates]
Members(b) == Range(b.next) \cap Nodes
InStep == run.pc \in {"check", "wait", "merge"}

(* A run stands at its last boundary, and past it when the graph has ended.  *)
AtBoundary == run.pc # "idle" =>
  run.at = Durable \/ (run.pc = "head" /\ run.at = [Durable EXCEPT !.next = <<>>])
(* What is under way at boundary b is of its superstep: every member is to   *)
(* be awaited, lost or has its result; the gates hold or this is the first   *)
(* superstep after a resumption.                                             *)
UnderWay(b) ==
  /\ Range(run.todo) \subseteq Members(b) /\ run.lost \subseteq Members(b) \cap graph.parallel
  /\ run.lost # {} => graph.isolate
  /\ \A n \in Nodes : threads[n] # "unused" => InStep /\ n \in Members(b)
  /\ InStep => \A n \in Members(b) : n \in Range(run.todo) \/ n \in run.lost \/ threads[n] \in Results
  /\ InStep => b.step < MaxSteps /\ (Range(b.next) \cap graph.before = {} \/ b.step \in run.resumed)
  /\ run.skip => b.step \in run.resumed
GraphInv ==
  /\ GraphTyped /\ AtBoundary /\ SequentialAlone
  /\ run.pc \in {"check", "wait"} <=> run.todo # <<>>
  /\ (~InStep => run.lost = {}) /\ (InStep => ~run.skip)
  /\ \A n \in Nodes : threads[n] = "queued" => n \in graph.parallel
  /\ \A b \in Boundaries : run.at = b => UnderWay(b)

(* What a node returns is none of the states of its thread.                 *)
LEMMA StatesApart ==
  /\ "unused" \notin Results /\ "queued" \notin Results /\ "running" \notin Results
  /\ "raised" \notin Results /\ "none" \notin Results
BY StateGraphAssumption

(* A run starts at a boundary.                                              *)
LEMMA StartTyped == ASSUME IsGraph(graph) PROVE Start \in Boundaries
<1>1. 0 \in 0..MaxSteps /\ <<>> \in Seq(Nodes)
  BY StateGraphAssumption
<1> QED
  BY <1>1 DEF Start, Boundaries, IsGraph

(* What a crash leaves is a boundary.                                       *)
LEMMA DurableTyped == ASSUME GraphTyped PROVE Durable \in Boundaries
<1>1. CASE saved = <<>>
  BY <1>1, StartTyped DEF Durable, GraphTyped
<1>2. CASE \E b \in Boundaries : saved = <<b>>
  BY <1>2 DEF Durable
<1> QED
  BY <1>1, <1>2 DEF GraphTyped

(* The nodes that are submitted are the members of the superstep.           *)
LEMMA ScheduledMembers ==
  ASSUME NEW b \in Boundaries
  PROVE  Super!Scheduled(b.next) \in Seq(Nodes) /\ Range(Super!Scheduled(b.next)) = Members(b)
<1>1. b.next \in Seq(Targets)
  BY DEF Boundaries, Targets
<1>2. Super!Only(b.next, Nodes) \in Seq(Targets \cap Nodes)
  BY <1>1, OnlyKeeps
<1>3. Range(Super!Only(b.next, Nodes)) = Members(b)
  BY <1>1, OnlyKeeps DEF Members
<1>4. Targets \cap Nodes = Nodes
  BY DEF Targets
<1> QED
  BY <1>2, <1>3, <1>4 DEF Super!Scheduled

(* The nodes whose results are merged are its members without the lost      *)
(* ones.                                                                    *)
LEMMA MergedMembers ==
  ASSUME NEW b \in Boundaries, NEW lost
  PROVE  /\ Super!Only(Super!Scheduled(b.next), Nodes \ lost) \in Seq(Nodes)
         /\ Range(Super!Only(Super!Scheduled(b.next), Nodes \ lost)) = Members(b) \ lost
<1>1. PICK s \in Seq(Nodes) : s = Super!Scheduled(b.next) /\ Range(s) = Members(b)
  BY ScheduledMembers
<1>2. PICK rest : rest = Nodes \ lost
  OBVIOUS
<1>3. Super!Only(s, rest) \in Seq(Nodes \cap rest) /\ Range(Super!Only(s, rest)) = Range(s) \cap rest
  BY OnlyKeeps
<1>4. Super!Only(s, rest) \in Seq(Nodes)
  BY <1>3, SeqMonotonic
<1>5. Range(s) \subseteq Nodes
  BY RangeOfSeq
<1> QED
  BY <1>1, <1>2, <1>3, <1>4, <1>5

(* A boundary that has gone on by nodes with results.                        *)
LEMMA BoundaryTyped ==
  ASSUME NEW b \in Boundaries, b.step < MaxSteps, NEW merged \in Seq(Nodes),
         NEW result, \A n \in Range(merged) : result[n] \in Results, NEW next \in Seq(Targets)
  PROVE  Super!Boundary(b, merged, result, next) \in Boundaries
<1>1. b.step + 1 \in 0..MaxSteps
  BY StateGraphAssumption DEF Boundaries
<1>2. b.trace \o merged \in Seq(Nodes)
  BY ConcatProperties DEF Boundaries
<1>3. \A n \in Nodes : Super!Contains(merged, n) => n \in Range(merged)
  BY LenProperties DEF Super!Contains, Range
<1>4. [n \in Nodes |-> IF Super!Contains(merged, n) THEN result[n] ELSE b.state[n]]
        \in [Nodes -> Results \cup {"none"}]
  BY <1>3 DEF Boundaries
<1> QED
  BY <1>1, <1>2, <1>4 DEF Super!Boundary, Boundaries, Targets

(* No checkpoint and no invocation under way.                               *)
LEMMA GraphInvInit ==
  ASSUME NEW graphs, \A g \in graphs : IsGraph(g)
  PROVE  GraphInitWith(graphs) => GraphInv
<1> SUFFICES ASSUME GraphInitWith(graphs) PROVE GraphInv
  OBVIOUS
<1>1. IsGraph(graph) /\ Start \in Boundaries
  BY StartTyped DEF GraphInitWith
<1>2. run = NoRun("none") /\ threads = Unused /\ saved = <<>>
  BY DEF GraphInitWith
<1>3. run \in RunState /\ run.pc = "idle" /\ run.todo = <<>> /\ run.lost = {} /\ run.skip = FALSE
  BY <1>1, <1>2 DEF NoRun, RunState
<1>4. threads \in [Nodes -> ThreadStates] /\ \A n \in Nodes : threads[n] = "unused"
  BY <1>2 DEF Unused, ThreadStates
<1>5. Range(<<>>) = {}
  BY DEF Range
<1> QED
  BY <1>1, <1>2, <1>3, <1>4, <1>5 DEF GraphInv, GraphTyped, AtBoundary, SequentialAlone, RunningNodes,
     InStep, UnderWay

(* A call of invoke that ends leaves nothing of its superstep behind.        *)
LEMMA LeaveStep ==
  ASSUME GraphInv, NEW outcome \in {"completed", "interrupted", "failed", "paused", "crashed"},
         Leave(outcome), graph' = graph, saved' = saved \/ \E b \in Boundaries : saved' = <<b>>
  PROVE  GraphInv'
<1>1. IsGraph(graph)' /\ Start' = Start /\ Start \in Boundaries
  BY StartTyped DEF GraphInv, GraphTyped, IsGraph, Start
<1>2. PICK s \in Boundaries : s = Start
  BY <1>1
<1>3. run' = [pc |-> "idle", at |-> s, skip |-> FALSE, todo |-> <<>>, lost |-> {},
              resumed |-> {}, outcome |-> outcome]
  BY <1>2 DEF Leave, NoRun
<1>4. run' \in RunState
  BY <1>3 DEF RunState
<1>5. threads' \in [Nodes -> ThreadStates] /\ \A n \in Nodes : threads'[n] = "unused"
  BY DEF Leave, Unused, ThreadStates
<1>6. saved' = <<>> \/ \E b \in Boundaries : saved' = <<b>>
  BY DEF GraphInv, GraphTyped
<1>7. Range(<<>>) = {}
  BY DEF Range
<1> QED
  BY <1>1, <1>3, <1>4, <1>5, <1>6, <1>7 DEF GraphInv, GraphTyped, AtBoundary, SequentialAlone,
     RunningNodes, InStep, UnderWay

(* An invocation starts at the checkpoint, or at the start of the graph;    *)
(* only a resumed one skips a gate.                                         *)
LEMMA InvokeStarts == ASSUME GraphInv, Invoke PROVE GraphInv'
<1>1. PICK b \in Boundaries : b = Durable
  BY DurableTyped DEF GraphInv
<1>2. Durable' = Durable /\ graph' = graph /\ saved' = saved /\ threads' = threads
  BY DEF Invoke, Durable, Start
<1>3. PICK resumed \in SUBSET Nat : /\ resumed = {boundary.step : boundary \in Range(saved)}
                                    /\ saved # <<>> => b.step \in resumed
  <2>1. CASE saved = <<>>
    <3>1. {boundary.step : boundary \in Range(saved)} = {}
      BY <2>1 DEF Range
    <3> QED
      BY <2>1, <3>1
  <2>2. CASE \E c \in Boundaries : saved = <<c>>
    <3>1. PICK c \in Boundaries : saved = <<c>>
      BY <2>2
    <3>2. Range(saved) = {c} /\ b = c
      BY <1>1, <3>1 DEF Range, Durable
    <3>3. c.step \in Nat
      BY StateGraphAssumption DEF Boundaries
    <3>4. {boundary.step : boundary \in Range(saved)} = {c.step}
      BY <3>2
    <3> QED
      BY <3>2, <3>3, <3>4
  <2> QED
    BY <2>1, <2>2 DEF GraphInv, GraphTyped
<1>4. PICK skip \in BOOLEAN : skip = (saved # <<>>)
  OBVIOUS
<1>5. run' = [pc |-> "head", at |-> b, skip |-> skip, todo |-> <<>>, lost |-> {},
              resumed |-> resumed, outcome |-> "none"]
  BY <1>1, <1>3, <1>4 DEF Invoke, NoRun
<1>6. run' \in RunState
  BY <1>5 DEF RunState
<1>7. \A n \in Nodes : threads[n] = "unused"
  <2>1. run.pc = "idle" /\ run.at \in Boundaries
    BY DEF Invoke, GraphInv, GraphTyped, RunState
  <2> QED
    BY <2>1 DEF GraphInv, UnderWay, InStep
<1>8. Range(<<>>) = {}
  BY DEF Range
<1>9. IsGraph(graph)'
  BY <1>2 DEF GraphInv, GraphTyped, IsGraph
<1>10. GraphTyped'
  BY <1>2, <1>6, <1>9 DEF GraphInv, GraphTyped
<1> QED
  BY <1>1, <1>2, <1>3, <1>4, <1>5, <1>7, <1>8, <1>10 DEF GraphInv, AtBoundary, SequentialAlone,
     RunningNodes, InStep, UnderWay

(* At the head the run stands at the last boundary, unless nothing follows.  *)
LEMMA AtHeadDurable == ASSUME GraphInv, run.pc # "idle", run.at.next # <<>> PROVE run.at = Durable
<1>1. PICK b \in Boundaries : b = Durable
  BY DurableTyped DEF GraphInv
<1>2. [b EXCEPT !.next = <<>>].next = <<>>
  BY DEF Boundaries
<1> QED
  BY <1>1, <1>2 DEF GraphInv, AtBoundary

(* Within a superstep the run stands at its durable boundary.               *)
LEMMA InStepDurable == ASSUME GraphInv, InStep PROVE run.at = Durable
BY DEF GraphInv, AtBoundary, InStep

(* Submission makes every member one to be awaited.                         *)
LEMMA SubmitStep == ASSUME GraphInv, Submit PROVE GraphInv'
<1>1. PICK b \in Boundaries : b = run.at /\ b = Durable /\ run.pc = "head"
  BY AtHeadDurable DEF Submit, AtHead, GraphInv, GraphTyped, RunState
<1>2. PICK s \in Seq(Nodes) : s = Super!Scheduled(b.next) /\ Range(s) = Members(b)
  BY ScheduledMembers
<1>3. PICK rest : rest = Nodes \ graph.parallel
  OBVIOUS
<1>4. PICK todo \in Seq(Nodes) : /\ todo = Super!Only(s, graph.parallel) \o Super!Only(s, rest)
                                 /\ Range(todo) = Members(b)
  <2>1. PICK p : p = Super!Only(s, graph.parallel)
    OBVIOUS
  <2>2. PICK r : r = Super!Only(s, rest)
    OBVIOUS
  <2>3. p \in Seq(Nodes) /\ Range(p) = Range(s) \cap graph.parallel
    <3>1. p \in Seq(Nodes \cap graph.parallel) /\ Range(p) = Range(s) \cap graph.parallel
      BY <2>1, OnlyKeeps
    <3> QED
      BY <3>1, SeqMonotonic
  <2>4. r \in Seq(Nodes) /\ Range(r) = Range(s) \cap rest
    <3>1. r \in Seq(Nodes \cap rest) /\ Range(r) = Range(s) \cap rest
      BY <2>2, OnlyKeeps
    <3> QED
      BY <3>1, SeqMonotonic
  <2>5. Range(s) \subseteq Nodes
    BY RangeOfSeq
  <2>6. p \o r \in Seq(Nodes) /\ Range(p \o r) = Range(p) \cup Range(r)
    BY <2>3, <2>4, RangeOfConcat
  <2> QED
    BY <1>2, <1>3, <2>1, <2>2, <2>3, <2>4, <2>5, <2>6
<1>5. s = <<>> <=> todo = <<>>
  <2>1. \A t \in Seq(Nodes) : t = <<>> <=> Range(t) = {}
    <3> SUFFICES ASSUME NEW t \in Seq(Nodes) PROVE t = <<>> <=> Range(t) = {}
      OBVIOUS
    <3>1. Len(t) \in Nat /\ DOMAIN t = 1..Len(t) /\ (t = <<>> <=> Len(t) = 0)
      BY LenProperties
    <3>2. Len(t) # 0 => 1 \in DOMAIN t
      BY <3>1
    <3>3. t = <<>> => Range(t) = {}
      BY DEF Range
    <3>4. 1 \in DOMAIN t => t[1] \in Range(t)
      BY DEF Range
    <3> QED
      BY <3>1, <3>2, <3>3, <3>4
  <2> QED
    BY <1>2, <1>4, <2>1
<1>6. PICK pc : pc = IF s = <<>> THEN "merge" ELSE "check"
  OBVIOUS
<1>7. /\ run' = [run EXCEPT !.pc = pc, !.skip = FALSE, !.todo = todo]
      /\ graph' = graph /\ saved' = saved
      /\ threads' = [n \in Nodes |-> IF Contains(s, n) /\ n \in graph.parallel THEN "queued" ELSE "unused"]
  BY <1>1, <1>2, <1>3, <1>4, <1>6 DEF Submit, StepNodes
<1>8. \A n \in Nodes : Contains(s, n) => n \in Members(b)
  BY <1>2, LenProperties DEF Contains, Range
<1>9. /\ run'.pc = pc /\ run'.at = b /\ run'.skip = FALSE /\ run'.todo = todo /\ run'.lost = run.lost
      /\ run'.resumed = run.resumed /\ run' \in RunState
  BY <1>1, <1>4, <1>6, <1>7 DEF GraphInv, GraphTyped, RunState
<1>10. \A n \in Nodes : threads'[n] = "unused" \/ (threads'[n] = "queued" /\ n \in Members(b) /\ n \in graph.parallel)
  BY <1>7, <1>8
<1>11. threads' \in [Nodes -> ThreadStates]
  BY <1>7 DEF ThreadStates
<1>12. Durable' = Durable /\ IsGraph(graph)' /\ InStep' /\ run.lost = {}
  BY <1>1, <1>6, <1>7, <1>9 DEF Durable, Start, GraphInv, GraphTyped, IsGraph, InStep
<1>13. GraphTyped'
  BY <1>7, <1>9, <1>11, <1>12 DEF GraphInv, GraphTyped
<1>14. b.step < MaxSteps /\ (Range(b.next) \cap graph.before = {} \/ b.step \in run.resumed)
  BY <1>1 DEF Submit, AtHead, Gated, Gates, GraphInv, UnderWay, Boundaries
<1>15. UnderWay(b)'
  BY <1>4, <1>7, <1>9, <1>10, <1>12, <1>14 DEF UnderWay, Members
<1>16. \A c \in Boundaries : run'.at = c => UnderWay(c)'
  BY <1>9, <1>15
<1>17. AtBoundary' /\ SequentialAlone'
  BY <1>1, <1>9, <1>10, <1>12 DEF AtBoundary, SequentialAlone, RunningNodes
<1>18. run'.pc \in {"check", "wait"} <=> run'.todo # <<>>
  BY <1>5, <1>6, <1>9
<1> QED
  BY <1>7, <1>10, <1>12, <1>13, <1>16, <1>17, <1>18 DEF GraphInv

(* The node that is awaited is a member of the superstep.                    *)
LEMMA HeadMember ==
  ASSUME GraphInv, run.todo # <<>>, NEW b \in Boundaries, b = run.at
  PROVE  /\ InStep /\ run.at = Durable /\ Head(run.todo) \in Members(b) /\ Head(run.todo) \in Nodes
         /\ Tail(run.todo) \in Seq(Nodes)
         /\ Range(run.todo) = {Head(run.todo)} \cup Range(Tail(run.todo))
         /\ Tail(run.todo) = <<>> <=> Len(run.todo) = 1
<1>1. InStep /\ run.at = Durable
  BY InStepDurable DEF GraphInv, InStep
<1>2. run.todo \in Seq(Nodes)
  BY DEF GraphInv, GraphTyped, RunState
<1>3. Range(run.todo) \subseteq Members(b)
  BY DEF GraphInv, UnderWay
<1> QED
  BY <1>1, <1>2, <1>3, RangeOfTail

(* A wait begins; nobody is dropped.                                        *)
LEMMA AwaitStep == ASSUME GraphInv, Await PROVE GraphInv'
<1>1. PICK b \in Boundaries : b = run.at
  BY DEF GraphInv, GraphTyped, RunState
<1>2. run.pc = "check" /\ run.todo # <<>>
  BY DEF Await, Looks, GraphInv
<1>3. PICK h \in Nodes : h = Head(run.todo) /\ h \in Members(b)
  BY <1>1, <1>2, HeadMember
<1>4. h \in graph.parallel \/ Busy = {}
  BY <1>3 DEF Await, Looks
<1>5. /\ run' = [run EXCEPT !.pc = "wait"] /\ graph' = graph /\ saved' = saved
      /\ threads' = IF h \in graph.parallel THEN threads ELSE [threads EXCEPT ![h] = "running"]
  BY <1>3 DEF Await
<1>6. /\ run'.pc = "wait" /\ run'.at = b /\ run'.skip = run.skip /\ run'.todo = run.todo
      /\ run'.lost = run.lost /\ run'.resumed = run.resumed /\ run' \in RunState
  BY <1>1, <1>5 DEF GraphInv, GraphTyped, RunState
<1>7. threads' \in [Nodes -> ThreadStates]
  BY <1>5 DEF GraphInv, GraphTyped, ThreadStates
<1>8. \A n \in Nodes : threads'[n] = threads[n] \/ (n = h /\ threads'[n] = "running" /\ h \notin graph.parallel)
  BY <1>5 DEF GraphInv, GraphTyped
<1>9. Durable' = Durable /\ IsGraph(graph)' /\ InStep /\ InStep'
  BY <1>2, <1>5, <1>6 DEF Durable, Start, GraphInv, GraphTyped, IsGraph, InStep
<1>10. GraphTyped'
  BY <1>5, <1>6, <1>7, <1>9 DEF GraphInv, GraphTyped
<1>11. h \in Range(run.todo)
  BY <1>1, <1>2, <1>3, HeadMember
<1>12. UnderWay(b) /\ UnderWay(b)'
  <2>1. UnderWay(b)
    BY <1>1 DEF GraphInv
  <2> QED
    BY <1>3, <1>5, <1>6, <1>8, <1>9, <1>11, <2>1 DEF UnderWay, Members
<1>13. \A c \in Boundaries : run'.at = c => UnderWay(c)'
  BY <1>6, <1>12
<1>14. AtBoundary'
  BY <1>1, <1>6, <1>9, InStepDurable DEF AtBoundary
<1>15. SequentialAlone'
  <2>1. CASE h \in graph.parallel
    BY <1>5, <2>1 DEF GraphInv, SequentialAlone, RunningNodes, Busy
  <2>2. CASE h \notin graph.parallel
    <3>1. \A n \in Nodes : n # h => threads'[n] \notin {"queued", "running"}
      BY <1>4, <1>8, <2>2 DEF Busy
    <3>2. threads'[h] = "running"
      BY <1>5, <2>2 DEF GraphInv, GraphTyped
    <3> QED
      BY <3>1, <3>2 DEF SequentialAlone, RunningNodes, Busy
  <2> QED
    BY <2>1, <2>2
<1>16. \A n \in Nodes : threads'[n] = "queued" => n \in graph'.parallel
  BY <1>5, <1>8 DEF GraphInv
<1>17. run'.pc \in {"check", "wait"} <=> run'.todo # <<>>
  BY <1>2, <1>6
<1>18. InStep' => ~run'.skip
  BY <1>6, <1>9 DEF GraphInv
<1> QED
  BY <1>9, <1>10, <1>13, <1>14, <1>15, <1>16, <1>17, <1>18 DEF GraphInv

(* The node that was awaited has its result or is lost: it is accounted for *)
(* in the same step.                                                        *)
LEMMA CollectStep == ASSUME GraphInv, Collect PROVE GraphInv'
<1>1. PICK b \in Boundaries : b = run.at
  BY DEF GraphInv, GraphTyped, RunState
<1>2. run.pc = "wait" /\ run.todo # <<>>
  BY DEF Collect, GraphInv
<1>3. PICK h \in Nodes : h = Head(run.todo) /\ h \in Members(b)
  BY <1>1, <1>2, HeadMember
<1>4. PICK todo \in Seq(Nodes) : todo = Tail(run.todo)
  BY <1>1, <1>2, HeadMember
<1>5. Range(run.todo) = {h} \cup Range(todo) /\ (todo = <<>> <=> Len(run.todo) = 1)
  BY <1>1, <1>2, <1>3, <1>4, HeadMember
<1>6. threads[h] \in Results \/ (graph.isolate /\ h \in graph.parallel)
  BY <1>3 DEF Collect, Isolated
<1>7. PICK lost : lost = IF threads[h] \in Results THEN run.lost ELSE run.lost \cup {h}
  OBVIOUS
<1>8. PICK pc : pc = IF todo = <<>> THEN "merge" ELSE "check"
  OBVIOUS
<1>9. /\ run' = [run EXCEPT !.pc = pc, !.todo = todo, !.lost = lost]
      /\ graph' = graph /\ saved' = saved /\ threads' = threads
  BY <1>3, <1>4, <1>5, <1>7, <1>8 DEF Collect
<1>10. /\ run'.pc = pc /\ run'.at = b /\ run'.skip = run.skip /\ run'.todo = todo
       /\ run'.lost = lost /\ run'.resumed = run.resumed /\ run' \in RunState
  BY <1>1, <1>3, <1>7, <1>8, <1>9 DEF GraphInv, GraphTyped, RunState
<1>11. Durable' = Durable /\ IsGraph(graph)' /\ InStep /\ InStep'
  BY <1>2, <1>8, <1>9, <1>10 DEF Durable, Start, GraphInv, GraphTyped, IsGraph, InStep
<1>12. GraphTyped'
  BY <1>9, <1>10, <1>11 DEF GraphInv, GraphTyped
<1>13. UnderWay(b)'
  <2>1. UnderWay(b)
    BY <1>1 DEF GraphInv
  <2>2. lost \subseteq Members(b) \cap graph.parallel /\ (lost # {} => graph.isolate)
    BY <1>3, <1>6, <1>7, <2>1 DEF UnderWay
  <2>3. \A n \in Members(b) : n \in Range(todo) \/ n \in lost \/ threads[n] \in Results
    BY <1>5, <1>7, <1>11, <2>1 DEF UnderWay
  <2>4. Range(todo) \subseteq Members(b)
    BY <1>5, <2>1 DEF UnderWay
  <2> QED
    BY <1>9, <1>10, <1>11, <2>1, <2>2, <2>3, <2>4 DEF UnderWay, Members
<1>14. \A c \in Boundaries : run'.at = c => UnderWay(c)'
  BY <1>10, <1>13
<1>15. AtBoundary' /\ SequentialAlone'
  BY <1>1, <1>9, <1>10, <1>11, InStepDurable DEF AtBoundary, GraphInv, SequentialAlone, RunningNodes, Busy
<1>16. run'.pc \in {"check", "wait"} <=> run'.todo # <<>>
  BY <1>8, <1>10
<1>17. InStep' => ~run'.skip
  BY <1>10, <1>11 DEF GraphInv
<1> QED
  BY <1>9, <1>11, <1>12, <1>14, <1>15, <1>16, <1>17 DEF GraphInv

(* Every node that is merged has its result.                                 *)
LEMMA MergedResults ==
  ASSUME GraphInv, Ready, NEW b \in Boundaries, b = run.at
  PROVE  /\ run.at = Durable /\ b.step < MaxSteps /\ ~run.skip
         /\ Merged = Super!Only(Super!Scheduled(b.next), Nodes \ run.lost)
         /\ Merged \in Seq(Nodes) /\ Range(Merged) = Members(b) \ run.lost
         /\ \A n \in Range(Merged) : threads[n] \in Results
<1>1. InStep /\ run.todo = <<>>
  BY DEF Ready, InStep, GraphInv
<1>2. Range(run.todo) = {}
  BY <1>1 DEF Range
<1>3. UnderWay(b)
  BY DEF GraphInv
<1>4. \A n \in Members(b) \ run.lost : threads[n] \in Results
  BY <1>1, <1>2, <1>3 DEF UnderWay
<1>5. PICK lost : lost = run.lost
  OBVIOUS
<1>6. Merged = Super!Only(Super!Scheduled(b.next), Nodes \ lost)
  BY <1>5 DEF Merged, StepNodes
<1>7. Merged \in Seq(Nodes) /\ Range(Merged) = Members(b) \ lost
  BY <1>6, MergedMembers
<1> QED
  BY <1>1, <1>3, <1>4, <1>5, <1>6, <1>7, InStepDurable DEF UnderWay, GraphInv

(* A routing picks one of the routes its nodes have.                        *)
LEMMA RoutingsTyped ==
  ASSUME IsGraph(graph), NEW ns \in SUBSET Nodes, NEW route \in Super!Routings(ns)
  PROVE  \A n \in ns : route[n] \in graph.routes[n] /\ route[n] \in Seq(Targets)
BY DEF Super!Routings, IsGraph, Targets

(* With nobody left to await, the results of all members but the lost ones  *)
(* make the next boundary.                                                  *)
LEMMA MergeStep == ASSUME GraphInv, Merge PROVE GraphInv'
<1>1. PICK b \in Boundaries : b = run.at
  BY DEF GraphInv, GraphTyped, RunState
<1>2. PICK merged \in Seq(Nodes) : /\ merged = Merged /\ Range(merged) = Members(b) \ run.lost
                                   /\ \A n \in Range(merged) : threads[n] \in Results
  BY <1>1, MergedResults DEF Merge
<1>3. PICK route \in Super!Routings(Range(merged)) :
        LET next == Super!Successors(merged, route)
            boundary == Super!Boundary(b, merged, threads, next) IN
        /\ saved' = <<boundary>>
        /\ run' = [run EXCEPT !.pc = "head", !.lost = {},
                    !.at = IF Contains(next, END) THEN [boundary EXCEPT !.next = <<>>] ELSE boundary]
  BY <1>1, <1>2 DEF Merge, Save
<1>4. PICK next : next = Super!Successors(merged, route)
  OBVIOUS
<1>5. next \in Seq(Targets)
  <2>1. Range(merged) \subseteq Nodes
    BY RangeOfSeq
  <2>2. \A n \in Range(merged) : route[n] \in Seq(Targets)
    BY <2>1, RoutingsTyped DEF GraphInv, GraphTyped
  <2> QED
    BY <1>4, <2>2, SuccessorsOf
<1>6. PICK boundary \in Boundaries : boundary = Super!Boundary(b, merged, threads, next)
  BY <1>1, <1>2, <1>5, BoundaryTyped, MergedResults DEF Merge
<1>7. PICK at : at = IF Contains(next, END) THEN [boundary EXCEPT !.next = <<>>] ELSE boundary
  OBVIOUS
<1>8. at \in Boundaries
  <2>1. <<>> \in Seq(Nodes \cup {END})
    OBVIOUS
  <2>2. [boundary EXCEPT !.next = <<>>] \in Boundaries
    BY <2>1 DEF Boundaries
  <2> QED
    BY <1>7, <2>2
<1>9. /\ saved' = <<boundary>> /\ run' = [run EXCEPT !.pc = "head", !.lost = {}, !.at = at]
      /\ graph' = graph /\ threads' = Unused
  BY <1>3, <1>4, <1>6, <1>7 DEF Merge
<1>10. /\ run'.pc = "head" /\ run'.at = at /\ run'.skip = run.skip /\ run'.todo = run.todo
       /\ run'.lost = {} /\ run' \in RunState
  BY <1>8, <1>9 DEF GraphInv, GraphTyped, RunState
<1>11. threads' \in [Nodes -> ThreadStates] /\ \A n \in Nodes : threads'[n] = "unused"
  BY <1>9 DEF Unused, ThreadStates
<1>12. Durable' = boundary /\ IsGraph(graph)' /\ ~InStep'
  BY <1>9, <1>10 DEF Durable, GraphInv, GraphTyped, IsGraph, InStep
<1>13. GraphTyped'
  BY <1>9, <1>10, <1>11, <1>12 DEF GraphTyped
<1>14. ~run.skip /\ run.todo = <<>> /\ Range(run.todo) = {}
  <2>1. run.todo = <<>>
    BY DEF Merge, Ready, GraphInv
  <2> QED
    BY <1>1, <2>1, MergedResults DEF Merge, Range
<1>15. \A c \in Boundaries : UnderWay(c)'
  BY <1>10, <1>11, <1>12, <1>14 DEF UnderWay
<1>16. AtBoundary' /\ SequentialAlone'
  BY <1>7, <1>10, <1>11, <1>12 DEF AtBoundary, SequentialAlone, RunningNodes
<1> QED
  BY <1>10, <1>11, <1>12, <1>13, <1>14, <1>15, <1>16 DEF GraphInv

(* The threads.                                                              *)
LEMMA ThreadStep ==
  ASSUME GraphInv, NEW n \in Nodes,
         \/ ThreadStarts(n) \/ NodeRaises(n) \/ \E result \in Results : NodeReturns(n, result)
  PROVE  GraphInv'
<1>1. PICK b \in Boundaries : b = run.at /\ UnderWay(b)
  BY DEF GraphInv, GraphTyped, RunState
<1>2. PICK x \in ThreadStates : /\ threads' = [threads EXCEPT ![n] = x] /\ x # "unused" /\ x # "queued"
                                /\ threads[n] \in {"queued", "running"}
                                /\ x = "running" => threads[n] = "queued"
  BY StatesApart DEF ThreadStarts, NodeRaises, NodeReturns, ThreadStates
<1>3. graph' = graph /\ saved' = saved /\ run' = run
  BY DEF ThreadStarts, NodeRaises, NodeReturns
<1>4. Durable' = Durable /\ IsGraph(graph)' /\ (InStep' <=> InStep)
  BY <1>3 DEF Durable, Start, GraphInv, GraphTyped, IsGraph, InStep
<1>5. \A m \in Nodes : threads'[m] = IF m = n THEN x ELSE threads[m]
  BY <1>2 DEF GraphInv, GraphTyped
<1>6. threads' \in [Nodes -> ThreadStates]
  BY <1>2 DEF GraphInv, GraphTyped
<1>7. GraphTyped'
  BY <1>3, <1>4, <1>6 DEF GraphInv, GraphTyped
<1>8. threads[n] \notin Results /\ threads[n] # "unused"
  BY <1>2, StatesApart
<1>9. UnderWay(b)'
  BY <1>1, <1>3, <1>4, <1>5, <1>8 DEF UnderWay, Members
<1>10. \A c \in Boundaries : run'.at = c => UnderWay(c)'
  BY <1>1, <1>3, <1>9
<1>11. SequentialAlone'
  <2> SUFFICES ASSUME NEW m \in Nodes, threads'[m] = "running", m \notin graph.parallel
               PROVE  Busy' = {m}
    BY <1>3 DEF SequentialAlone, RunningNodes
  <2>1. m # n
    BY <1>2, <1>5 DEF GraphInv
  <2>2. Busy = {m}
    BY <1>5, <2>1 DEF GraphInv, SequentialAlone, RunningNodes
  <2>3. n \in Busy
    BY <1>2 DEF Busy
  <2> QED
    BY <2>1, <2>2, <2>3
<1>12. AtBoundary'
  BY <1>3, <1>4 DEF GraphInv, AtBoundary
<1> QED
  BY <1>2, <1>3, <1>4, <1>5, <1>7, <1>10, <1>11, <1>12 DEF GraphInv

(* The calls of invoke that end, by how they leave the checkpoint.           *)
LEMMA EndStep ==
  ASSUME GraphInv, Return \/ StepsExceeded \/ Fail \/ GraphCrash PROVE GraphInv'
BY LeaveStep DEF Return, StepsExceeded, Fail, GraphCrash

(* A pause or a cancellation writes the boundary at which the run stands.   *)
LEMMA SaveStep ==
  ASSUME GraphInv, CancelledAtHead \/ PauseBefore \/ CancelledInStep
  PROVE  GraphInv' /\ graph' = graph /\ Durable' = Durable
<1>1. PICK b \in Boundaries : b = run.at
  BY DEF GraphInv, GraphTyped, RunState
<1>2. run.at = Durable
  BY AtHeadDurable, InStepDurable DEF CancelledAtHead, PauseBefore, CancelledInStep, AtHead, Looks, InStep
<1>3. saved' = <<b>> /\ graph' = graph
  BY <1>1 DEF CancelledAtHead, PauseBefore, CancelledInStep, Save
<1>4. GraphInv'
  BY <1>3, LeaveStep DEF CancelledAtHead, PauseBefore, CancelledInStep
<1>5. Durable' = b
  BY <1>3 DEF Durable
<1> QED
  BY <1>1, <1>2, <1>3, <1>4, <1>5

(* A pause after a node writes the boundary the merge has made so far.      *)
LEMMA PauseAfterStep == ASSUME GraphInv, PauseAfter PROVE GraphInv'
<1>1. PICK b \in Boundaries : b = run.at
  BY DEF GraphInv, GraphTyped, RunState
<1>2. PICK merged \in Seq(Nodes) : /\ merged = Merged
                                   /\ \A n \in Range(merged) : threads[n] \in Results
  BY <1>1, MergedResults DEF PauseAfter
<1>3. PICK stop \in Stops : \E next \in graph.routes[merged[stop]] :
        saved' = <<Super!Boundary(b, SubSeq(merged, 1, stop), threads, next)>>
  BY <1>1, <1>2 DEF PauseAfter, Save
<1>4. PICK next \in graph.routes[merged[stop]] :
        saved' = <<Super!Boundary(b, SubSeq(merged, 1, stop), threads, next)>>
  BY <1>3
<1>5. Len(merged) \in Nat /\ DOMAIN merged = 1..Len(merged) /\ \A i \in 1..Len(merged) : merged[i] \in Nodes
  BY LenProperties
<1>6. stop \in 1..Len(merged)
  BY <1>2, <1>5 DEF Stops
<1>7. next \in Seq(Targets)
  BY <1>5, <1>6 DEF GraphInv, GraphTyped, IsGraph, Targets
<1>8. PICK part \in Seq(Nodes) : /\ part = SubSeq(merged, 1, stop)
                                 /\ \A n \in Range(part) : threads[n] \in Results
  <2>1. stop \in Int /\ 1 \in Int /\ \A i \in 1..stop : i \in 1..Len(merged) /\ merged[i] \in Nodes
    BY <1>5, <1>6
  <2>2. PICK part : part = SubSeq(merged, 1, stop)
    OBVIOUS
  <2>3. /\ part \in Seq(Nodes) /\ Len(part) = stop
        /\ \A i \in 1..stop : part[i] = merged[i]
    <3>1. /\ part \in Seq(Nodes) /\ Len(part) = IF 1 <= stop THEN stop - 1 + 1 ELSE 0
          /\ \A i \in 1..stop - 1 + 1 : part[i] = merged[1 + i - 1]
      BY <2>1, <2>2, SubSeqProperties
    <3> QED
      BY <1>5, <1>6, <3>1
  <2>4. DOMAIN part = 1..stop
    BY <2>3, LenProperties
  <2>5. \A i \in 1..stop : part[i] \in Range(merged)
    BY <1>5, <2>1, <2>3 DEF Range
  <2> QED
    BY <1>2, <2>2, <2>3, <2>4, <2>5 DEF Range
<1>9. PICK boundary \in Boundaries : boundary = Super!Boundary(b, part, threads, next)
  BY <1>1, <1>7, <1>8, BoundaryTyped, MergedResults DEF PauseAfter
<1>10. saved' = <<boundary>>
  BY <1>4, <1>8, <1>9
<1> QED
  BY <1>10, LeaveStep DEF PauseAfter

(* Setting the cancellation event changes nothing else.                     *)
LEMMA CancelStep == ASSUME GraphInv, UNCHANGED <<graph, saved, run, threads>> PROVE GraphInv'
<1>1. PICK b \in Boundaries : b = run.at /\ UnderWay(b)
  BY DEF GraphInv, GraphTyped, RunState
<1>2. graph' = graph /\ saved' = saved /\ run' = run /\ threads' = threads
  OBVIOUS
<1>3. Durable' = Durable /\ IsGraph(graph)' /\ (InStep' <=> InStep)
  BY <1>2 DEF Durable, Start, GraphInv, GraphTyped, IsGraph, InStep
<1>4. GraphTyped'
  BY <1>2, <1>3 DEF GraphInv, GraphTyped
<1>5. UnderWay(b)'
  BY <1>1, <1>2, <1>3 DEF UnderWay, Members
<1>6. \A c \in Boundaries : run'.at = c => UnderWay(c)'
  BY <1>1, <1>2, <1>5
<1>7. AtBoundary' /\ SequentialAlone'
  BY <1>2, <1>3 DEF GraphInv, AtBoundary, SequentialAlone, RunningNodes, Busy
<1> QED
  BY <1>2, <1>3, <1>4, <1>6, <1>7 DEF GraphInv

(* One step for each action of a run and its threads.                       *)
LEMMA GraphInvNext == GraphInv /\ [GraphNext]_graphVars => GraphInv'
<1> SUFFICES ASSUME GraphInv, [GraphNext]_graphVars PROVE GraphInv'
  OBVIOUS
<1>1. CASE UNCHANGED graphVars \/ Cancel
  BY <1>1, CancelStep DEF graphVars, Cancel
<1>2. CASE Invoke \/ Submit \/ Await \/ Collect \/ Merge
  BY <1>2, InvokeStarts, SubmitStep, AwaitStep, CollectStep, MergeStep
<1>3. CASE Return \/ StepsExceeded \/ Fail \/ GraphCrash
  BY <1>3, EndStep
<1>4. CASE CancelledAtHead \/ PauseBefore \/ CancelledInStep \/ PauseAfter
  BY <1>4, SaveStep, PauseAfterStep
<1>5. CASE \E n \in Nodes : \/ ThreadStarts(n) \/ NodeRaises(n)
                            \/ \E result \in Results : NodeReturns(n, result)
  BY <1>5, ThreadStep
<1> QED
  BY <1>1, <1>2, <1>3, <1>4, <1>5 DEF GraphNext, InvokeStep

(* The invariant of a run carries what the run checks of it.                *)
LEMMA GraphInvImplies == GraphInv => GraphSound
<1> SUFFICES ASSUME GraphInv PROVE GraphSound
  OBVIOUS
<1>1. GraphTypeOK
  <2>1. Len(saved) <= 1
    <3>1. CASE saved = <<>>
      BY <3>1
    <3>2. CASE \E b \in Boundaries : saved = <<b>>
      <4>1. PICK b \in Boundaries : saved = <<b>>
        BY <3>2
      <4> QED
        BY <4>1
    <3> QED
      BY <3>1, <3>2 DEF GraphInv, GraphTyped
  <2>2. run.lost \subseteq graph.parallel
    BY DEF GraphInv, UnderWay, GraphTyped, RunState
  <2> QED
    BY <2>1, <2>2, DurableTyped DEF GraphTypeOK, GraphInv, GraphTyped, RunState, ThreadStates
<1>2. GateHonoured
  <2> SUFFICES ASSUME NEW n \in graph.before, threads[n] # "unused" PROVE run.at.step \in run.resumed
    BY DEF GateHonoured
  <2>1. PICK b \in Boundaries : b = run.at /\ UnderWay(b)
    BY DEF GraphInv, GraphTyped, RunState
  <2>2. n \in Nodes
    BY DEF GraphInv, GraphTyped, IsGraph
  <2>3. InStep /\ n \in Range(b.next)
    BY <2>1, <2>2 DEF UnderWay, Members
  <2> QED
    BY <2>1, <2>3 DEF UnderWay
<1> QED
  BY <1>1, <1>2 DEF GraphSound, GraphInv

(* The run stays within its bounds and types, sequential nodes run beside no *)
(* other (README.md, "Mutating agents are serialized") and a resumed run     *)
(* passes one gate (LANGGRAPH_PATTERN_ALIGNMENT.md:11): for any graphs, pool *)
(* and number of invocations, cancellations and crashes.                     *)
THEOREM GraphKept == GraphSpec => []GraphSound
<1>1. GraphInit => GraphInv
  BY GraphInvInit, StateGraphAssumption DEF GraphInit
<1>2. GraphInv /\ [GraphNext]_graphVars => GraphInv'
  BY GraphInvNext
<1>3. GraphInv => GraphSound
  BY GraphInvImplies
<1> QED
  BY <1>1, <1>2, <1>3, PTL DEF GraphSpec
-------------------------------------------------------------------------------
(* A node of interrupt_after is alone among those merged.  Otherwise the     *)
(* results behind it are dropped, and the checkpoint is of a part of the     *)
(* superstep.                                                                *)
StopsAlone == Ready => Stops = {} \/ Len(Merged) = 1

(* A boundary depends on the results of the nodes merged only.              *)
LEMMA ResultsOf ==
  ASSUME NEW b, NEW merged, NEW next
  PROVE  Super!Boundary(b, merged, threads, next)
         = Super!Boundary(b, merged, [n \in Range(merged) |-> threads[n]], next)
<1>1. \A n \in Nodes : Super!Contains(merged, n) => n \in Range(merged)
  BY DEF Super!Contains, Range
<1> QED
  BY <1>1 DEF Super!Boundary

(* To merge results is a superstep of the promise.                           *)
LEMMA MergesAll ==
  ASSUME GraphInv, Ready, NEW route \in Super!Routings(Range(Merged)), graph' = graph,
         Durable' = Super!Boundary(run.at, Merged, threads, Super!Successors(Merged, route))
  PROVE  Super!Superstep
<1>1. PICK b \in Boundaries : b = run.at
  BY DEF GraphInv, GraphTyped, RunState
<1>2. PICK lost : lost = run.lost
  OBVIOUS
<1>3. PICK merged \in Seq(Nodes) :
        /\ merged = Merged /\ merged = Super!Only(Super!Scheduled(b.next), Nodes \ lost)
        /\ \A n \in Range(merged) : threads[n] \in Results
  BY <1>1, <1>2, MergedResults
<1>4. PICK result : result = [n \in Range(merged) |-> threads[n]]
  OBVIOUS
<1>5. result \in [Super!Range(merged) -> Results]
  BY <1>3, <1>4 DEF Super!Range, Range
<1>6. route \in Super!Routings(Super!Range(merged))
  BY <1>3 DEF Super!Range, Range
<1>7. lost \in IF graph.isolate THEN SUBSET Super!Range(Super!Scheduled(b.next)) ELSE {{}}
  <2>1. Super!Range(Super!Scheduled(b.next)) = Members(b)
    BY ScheduledMembers DEF Super!Range, Range
  <2> QED
    BY <1>1, <1>2, <2>1 DEF GraphInv, UnderWay, GraphTyped, IsGraph
<1>8. Durable' = Super!Boundary(b, merged, result, Super!Successors(merged, route)) /\ b = Durable
  <2>1. PICK next : next = Super!Successors(merged, route)
    OBVIOUS
  <2>2. Super!Boundary(b, merged, threads, next) = Super!Boundary(b, merged, result, next)
    BY <1>4, ResultsOf
  <2>3. b = Durable
    BY <1>1, MergedResults
  <2> QED
    BY <1>1, <1>3, <2>1, <2>2, <2>3
<1> QED
  BY <1>3, <1>5, <1>6, <1>7, <1>8 DEF Super!Superstep

(* Merging a superstep is one of the contract; all other steps leave the    *)
(* durable boundary where it is.                                            *)
LEMMA RefinementStep ==
  GraphInv /\ StopsAlone /\ [GraphNext]_graphVars => [Super!Superstep]_<<graph, Durable>>
<1> SUFFICES ASSUME GraphInv, StopsAlone, [GraphNext]_graphVars
             PROVE  Super!Superstep \/ UNCHANGED <<graph, Durable>>
  OBVIOUS
<1>1. CASE graph' = graph /\ saved' = saved
  BY <1>1 DEF Durable, Start
<1>2. CASE CancelledAtHead \/ PauseBefore \/ CancelledInStep
  BY <1>2, SaveStep
<1>3. CASE Merge
  <2>1. PICK route \in Super!Routings(Range(Merged)) :
          saved' = <<Super!Boundary(run.at, Merged, threads, Super!Successors(Merged, route))>>
    BY <1>3 DEF Merge, Save
  <2>2. Durable' = Super!Boundary(run.at, Merged, threads, Super!Successors(Merged, route))
    BY <2>1 DEF Durable
  <2> QED
    BY <1>3, <2>1, <2>2, MergesAll DEF Merge
<1>4. CASE PauseAfter
  <2>1. PICK b \in Boundaries : b = run.at
    BY DEF GraphInv, GraphTyped, RunState
  <2>2. PICK merged \in Seq(Nodes) : merged = Merged
    BY <1>4, <2>1, MergedResults DEF PauseAfter
  <2>3. PICK stop \in Stops : \E next \in graph.routes[merged[stop]] :
          saved' = <<Super!Boundary(b, SubSeq(merged, 1, stop), threads, next)>>
    BY <1>4, <2>1, <2>2 DEF PauseAfter, Save
  <2>4. PICK next \in graph.routes[merged[stop]] :
          saved' = <<Super!Boundary(b, SubSeq(merged, 1, stop), threads, next)>>
    BY <2>3
  <2>5. Len(merged) = 1 /\ stop = 1 /\ DOMAIN merged = {1} /\ merged[1] \in Nodes
    <3>1. Len(merged) = 1
      BY <1>4, <2>2, <2>4 DEF PauseAfter, StopsAlone
    <3>2. DOMAIN merged = 1..Len(merged) /\ \A i \in 1..Len(merged) : merged[i] \in Nodes
      BY LenProperties
    <3> QED
      BY <2>2, <2>4, <3>1, <3>2 DEF Stops
  <2>6. SubSeq(merged, 1, stop) = merged
    BY <2>5, SubSeqFull
  <2>7. Range(merged) = {merged[1]}
    BY <2>5 DEF Range
  <2>8. PICK route : route = [n \in Range(merged) |-> next]
    OBVIOUS
  <2>9. route[merged[1]] = next /\ route \in Super!Routings(Range(merged))
    BY <2>4, <2>5, <2>7, <2>8 DEF Super!Routings
  <2>10. next \in Seq(Targets)
    BY <2>4, <2>5 DEF GraphInv, GraphTyped, IsGraph, Targets
  <2>11. Super!Successors(merged, route) = next
    BY <2>5, <2>7, <2>9, <2>10, SuccessorsOf
  <2>12. saved' = <<Super!Boundary(b, merged, threads, Super!Successors(merged, route))>>
    BY <2>4, <2>6, <2>11
  <2>13. Durable' = Super!Boundary(run.at, Merged, threads, Super!Successors(Merged, route))
    BY <2>1, <2>2, <2>12 DEF Durable
  <2> QED
    BY <1>4, <2>2, <2>9, <2>13, MergesAll DEF PauseAfter
<1> QED
  BY <1>1, <1>2, <1>3, <1>4 DEF GraphNext, InvokeStep, graphVars, Invoke, Return, StepsExceeded, Submit,
     Await, Collect, Fail, Cancel, GraphCrash, ThreadStarts, NodeRaises, NodeReturns

(* A run that has not started is at the first boundary.                     *)
LEMMA RefinementInit == ASSUME NEW graphs PROVE GraphInitWith(graphs) => Durable = Super!First(graph)
BY DEF GraphInitWith, Durable, Start, Super!First

(* LANGGRAPH_PATTERN_ALIGNMENT.md:10: whatever fails, hangs, is cancelled or *)
(* crashes, the checkpoint moves by one whole superstep or not at all, as    *)
(* long as the nodes of interrupt_after are merged alone.                    *)
THEOREM GraphRefinement == GraphSpec /\ []StopsAlone => ImplementsSupersteps
<1>1. GraphInit => GraphInv /\ Durable = Super!First(graph)
  BY GraphInvInit, RefinementInit, StateGraphAssumption DEF GraphInit
<1>2. GraphInv /\ [GraphNext]_graphVars => GraphInv'
  BY GraphInvNext
<1>3. GraphInv /\ StopsAlone /\ [GraphNext]_graphVars => [Super!Superstep]_<<graph, Durable>>
  BY RefinementStep
<1> QED
  BY <1>1, <1>2, <1>3, PTL DEF GraphSpec, ImplementsSupersteps, Super!SuperstepSpec
-------------------------------------------------------------------------------
(* The team.  Who follows whom in its graph.                                 *)
Size == Cardinality(Nodes)

(* The agents are the numbers up to their count.                            *)
LEMMA TeamSize == Size \in Nat /\ Nodes = 1..Size
BY AgentTeamAssumption, FS_CardinalityType DEF Size

(* Listing a set of agents in their order loses and adds none.              *)
LEMMA InOrderOf ==
  ASSUME NEW agents \in SUBSET Nodes
  PROVE  InOrder(agents) \in Seq(Nodes) /\ Range(InOrder(agents)) = agents
<1>1. PICK team : team = [n \in 1..Cardinality(Nodes) |-> n]
  OBVIOUS
<1>2. team \in Seq(Nodes) /\ Range(team) = Nodes
  BY <1>1, TeamSize, SeqDef DEF Size, Range
<1>3. Super!Only(team, agents) \in Seq(Nodes \cap agents) /\ Range(Super!Only(team, agents)) = Range(team) \cap agents
  BY <1>2, OnlyKeeps
<1>4. InOrder(agents) = Super!Only(team, agents)
  BY <1>1 DEF InOrder
<1> QED
  BY <1>2, <1>3, <1>4, SeqMonotonic

(* After an agent come those that depend on it, or the end.                 *)
LEMMA AfterOf ==
  ASSUME NEW deps, NEW n \in Nodes
  PROVE  /\ After(deps, n) \in Seq(Targets)
         /\ Range(After(deps, n)) = IF Dependents(deps, n) = {} THEN {END} ELSE Dependents(deps, n)
<1>1. PICK agents \in SUBSET Nodes : agents = Dependents(deps, n)
  BY DEF Dependents
<1>2. InOrder(agents) \in Seq(Nodes) /\ Range(InOrder(agents)) = agents
  BY InOrderOf
<1>3. InOrder(agents) \in Seq(Targets)
  BY <1>2, SeqMonotonic DEF Targets
<1>4. <<END>> \in Seq(Targets) /\ Range(<<END>>) = {END}
  BY DEF Targets, Range
<1> QED
  BY <1>1, <1>2, <1>3, <1>4 DEF After

(* The graph built for a team is one the engine accepts.                    *)
LEMMA TeamGraphs == ASSUME NEW deps PROVE IsGraph(TeamGraph(deps))
<1>1. PICK agents \in SUBSET Nodes : agents = {n \in Nodes : deps[n] = {}}
  OBVIOUS
<1>2. InOrder(agents) \in Seq(Nodes)
  BY InOrderOf
<1>3. InOrder(agents) \in Seq(Nodes \cup {END})
  BY <1>2, SeqMonotonic
<1>4. \A n \in Nodes : {After(deps, n)} \in SUBSET Seq(Nodes \cup {END})
  BY AfterOf DEF Targets
<1> QED
  BY <1>1, <1>3, <1>4, AgentTeamAssumption DEF TeamGraph, IsGraph

(* What a boundary d of a team holds: who worked had all it depends on, and  *)
(* is not scheduled any more; and in a levelled team one level is scheduled  *)
(* at a time, and all below it are decided.                                  *)
Passed(deps, d, n) == \A m \in deps[n] : d.state[m] = "passed"
Settled(deps, d) == \A n \in Nodes \ {Steward} :
  d.state[n] \in Worked => Passed(deps, d, n) /\ n \notin Range(d.next)
Levels(deps, level) ==
  /\ level \in [Nodes -> 1..Size]
  /\ \A n \in Nodes, m \in Nodes : n \in deps[m] => level[m] = level[n] + 1
  /\ \A n \in Nodes : deps[n] = {} => level[n] = 1
  /\ \A n, m \in Nodes : Dependents(deps, n) = {} => level[m] <= level[n]
Reached(deps, level, d) ==
  /\ \A n \in Nodes : n \in Range(d.next) <=> level[n] = d.step + 1
  /\ END \in Range(d.next) \/ Members(d) = {} => \A n \in Nodes : level[n] <= d.step
  /\ \A n \in Nodes \ {Steward} : level[n] <= d.step /\ Passed(deps, d, n) => d.state[n] \in Worked
(* What the threads report at boundary b.                                    *)
Reports(deps, b, thread) == \A n \in Nodes \ {Steward} :
  /\ thread[n] \in Worked => Passed(deps, b, n)
  /\ thread[n] = "blocked" => ~Passed(deps, b, n)

(* At the start nobody has worked and those without dependencies are next.  *)
LEMMA TeamStart ==
  ASSUME NEW deps \in Teams, graph = TeamGraph(deps)
  PROVE  Settled(deps, Start) /\ \A level : Levels(deps, level) => Reached(deps, level, Start)
<1>1. PICK agents \in SUBSET Nodes : agents = {n \in Nodes : deps[n] = {}}
  OBVIOUS
<1>2. Start.next = InOrder(agents) /\ Start.step = 0 /\ \A n \in Nodes : Start.state[n] = "none"
  BY <1>1 DEF Start, TeamGraph
<1>3. Range(Start.next) = agents /\ Members(Start) = agents /\ END \notin agents
  BY <1>2, InOrderOf, StateGraphAssumption DEF Members
<1>4. Settled(deps, Start)
  BY <1>2 DEF Settled, Worked
<1>5. ASSUME NEW level, Levels(deps, level) PROVE Reached(deps, level, Start)
  <2>1. \A n \in Nodes : level[n] \in 1..Size /\ level[n] \in Nat /\ level[n] > 0
    BY <1>5, TeamSize DEF Levels
  <2>2. deps \in [Nodes -> SUBSET Nodes]
    BY AgentTeamAssumption
  <2>3. \A n \in Nodes : deps[n] = {} <=> level[n] = 1
    <3>1. \A n \in Nodes : \A m \in deps[n] : level[n] = level[m] + 1 /\ level[m] > 0
      BY <1>5, <2>1, <2>2 DEF Levels
    <3> QED
      BY <1>5, <2>1, <2>2, <3>1 DEF Levels
  <2>4. ASSUME agents = {} PROVE Nodes = {}
    <3> DEFINE Above == {k \in 0..Size : \A n \in Nodes : level[n] > k}
    <3>1. 0 \in Above
      BY <2>1, TeamSize
    <3>2. ASSUME NEW k \in 1..Size, k - 1 \in Above PROVE k \in Above
      <4>1. \A n \in Nodes : level[n] # k
        <5> SUFFICES ASSUME NEW n \in Nodes, level[n] = k PROVE FALSE
          OBVIOUS
        <5>1. PICK m \in deps[n] : TRUE
          BY <1>1, <2>4
        <5>2. m \in Nodes /\ level[n] = level[m] + 1
          BY <1>5, <2>2 DEF Levels
        <5>3. level[m] > k - 1
          BY <3>2, <5>2
        <5> QED
          BY <2>1, <5>2, <5>3, TeamSize
      <4>2. \A n \in Nodes : level[n] > k - 1
        BY <3>2
      <4> QED
        BY <2>1, <4>1, <4>2, TeamSize
    <3> HIDE DEF Above
    <3>3. \A k \in 1..Size : k - 1 \in Above => k \in Above
      BY <3>2
    <3>4. 0..Size \subseteq Above
      BY <3>1, <3>3, TeamSize, IntervalInduction, Zenon
    <3>5. Size \in Above
      BY <3>4, TeamSize
    <3> QED
      BY <2>1, <3>5, TeamSize DEF Above
  <2>5. \A n \in Nodes : ~(level[n] <= 0)
    BY <2>1
  <2>6. \A n \in Nodes : n \in Range(Start.next) <=> level[n] = Start.step + 1
    BY <1>1, <1>2, <1>3, <2>3
  <2>7. END \in Range(Start.next) \/ Members(Start) = {} => \A n \in Nodes : level[n] <= Start.step
    BY <1>3, <2>4
  <2>8. \A n \in Nodes \ {Steward} : ~(level[n] <= Start.step)
    BY <1>2, <2>5
  <2> QED
    BY <2>6, <2>7, <2>8 DEF Reached
<1> QED
  BY <1>4, <1>5

(* From a boundary to the next: who worked stays as it is, and in a         *)
(* levelled team the next level has been reached.                           *)
LEMMA TeamBoundary ==
  ASSUME NEW deps \in Teams, NEW d \in Boundaries, NEW e \in Boundaries, NEW thread,
         e.step = d.step + 1,
         \A n \in Nodes : e.state[n] = IF n \in Members(d) THEN thread[n] ELSE d.state[n],
         Range(e.next) = UNION {Range(After(deps, n)) : n \in Members(d)},
         \A n \in Members(d) : thread[n] \in Results,
         Reports(deps, d, thread), Settled(deps, d)
  PROVE  /\ Settled(deps, e)
         /\ \A level : Levels(deps, level) /\ Reached(deps, level, d) => Reached(deps, level, e)
<1>1. deps \in [Nodes -> SUBSET Nodes] /\ \A n \in Nodes : Steward \notin deps[n]
  BY AgentTeamAssumption
(* The dependencies of who worked do not change.                             *)
<1>2. ASSUME NEW n \in Nodes \ {Steward}, Passed(deps, d, n)
      PROVE  Passed(deps, e, n) /\ \A m \in deps[n] : m \notin Members(d)
  <2>1. \A m \in deps[n] : m \in Nodes \ {Steward} /\ d.state[m] = "passed"
    BY <1>1, <1>2 DEF Passed
  <2>2. \A m \in deps[n] : m \notin Members(d)
    BY <2>1 DEF Settled, Worked, Members
  <2> QED
    BY <2>1, <2>2 DEF Passed
<1>3. \A n \in Nodes \ {Steward} : e.state[n] \in Worked => Passed(deps, d, n)
  BY DEF Reports, Settled
<1>4. \A n \in Nodes : n \in Range(e.next) <=> \E m \in Members(d) : m \in deps[n]
  <2> SUFFICES ASSUME NEW n \in Nodes PROVE n \in Range(e.next) <=> \E m \in Members(d) : m \in deps[n]
    OBVIOUS
  <2>1. \A m \in Members(d) : n \in Range(After(deps, m)) <=> m \in deps[n]
    BY AfterOf, StateGraphAssumption DEF Members, Dependents
  <2>2. n \in Range(e.next) <=> \E m \in Members(d) : n \in Range(After(deps, m))
    OBVIOUS
  <2> QED
    BY <2>1, <2>2
<1>5. Settled(deps, e)
  BY <1>2, <1>3, <1>4 DEF Settled
<1>6. ASSUME NEW level, Levels(deps, level), Reached(deps, level, d) PROVE Reached(deps, level, e)
  <2>1. \A n \in Nodes : level[n] \in Nat /\ level[n] > 0
    BY <1>6, TeamSize DEF Levels
  <2>2. d.step \in Nat
    BY StateGraphAssumption DEF Boundaries
  <2>3. \A n \in Nodes : n \in Members(d) <=> level[n] = d.step + 1
    BY <1>6 DEF Reached, Members
  <2>4. \A n \in Nodes : n \in Range(e.next) <=> level[n] = e.step + 1
    <3> SUFFICES ASSUME NEW n \in Nodes PROVE n \in Range(e.next) <=> level[n] = e.step + 1
      OBVIOUS
    <3>1. \A m \in deps[n] : m \in Nodes /\ level[n] = level[m] + 1 /\ level[m] \in Nat
      BY <1>1, <1>6, <2>1 DEF Levels
    <3>2. ASSUME n \in Range(e.next) PROVE level[n] = e.step + 1
      BY <1>4, <2>3, <3>1, <3>2
    <3>3. ASSUME level[n] = e.step + 1 PROVE n \in Range(e.next)
      <4>1. deps[n] # {}
        BY <1>6, <2>1, <2>2, <3>3 DEF Levels
      <4>2. PICK m \in deps[n] : TRUE
        BY <4>1
      <4>3. m \in Members(d)
        BY <2>2, <2>3, <3>1, <3>3, <4>2
      <4> QED
        BY <1>4, <4>2, <4>3
    <3> QED
      BY <3>2, <3>3
  <2>5. ASSUME END \in Range(e.next) \/ Members(e) = {}, NEW n \in Nodes PROVE level[n] <= e.step
    <3>1. CASE Members(d) = {}
      <4>1. level[n] <= d.step
        BY <1>6, <3>1 DEF Reached
      <4> QED
        BY <2>1, <2>2, <4>1
    <3>2. CASE Members(d) # {}
      <4>1. PICK m \in Members(d) : Dependents(deps, m) = {}
        <5>1. CASE END \in Range(e.next)
          <6>1. PICK m \in Members(d) : END \in Range(After(deps, m))
            BY <5>1
          <6>2. Dependents(deps, m) = {}
            BY <6>1, AfterOf, StateGraphAssumption DEF Members, Dependents
          <6> QED
            BY <6>2
        <5>2. CASE Members(e) = {}
          <6>1. PICK m \in Members(d) : TRUE
            BY <3>2
          <6>2. \A x \in Dependents(deps, m) : x \in Members(e)
            BY <1>4, <6>1 DEF Dependents, Members
          <6> QED
            BY <5>2, <6>1, <6>2
        <5> QED
          BY <2>5, <5>1, <5>2
      <4>2. m \in Nodes /\ level[m] = e.step
        BY <2>3, <4>1 DEF Members
      <4> QED
        BY <1>6, <4>1, <4>2 DEF Levels
    <3> QED
      BY <3>1, <3>2
  <2>6. ASSUME NEW n \in Nodes \ {Steward}, level[n] <= e.step, Passed(deps, e, n)
        PROVE  e.state[n] \in Worked
    <3>1. \A m \in deps[n] : m \in Nodes /\ m \notin Members(d)
      <4>1. \A m \in deps[n] : m \in Nodes /\ level[n] = level[m] + 1 /\ level[m] \in Nat
        BY <1>1, <1>6, <2>1 DEF Levels
      <4> QED
        BY <2>1, <2>2, <2>3, <2>6, <4>1
    <3>2. Passed(deps, d, n)
      BY <2>6, <3>1 DEF Passed
    <3>3. CASE n \in Members(d)
      <4>1. thread[n] \in Results /\ thread[n] # "blocked"
        BY <3>2, <3>3 DEF Reports
      <4> QED
        BY <3>3, <4>1, AgentTeamAssumption DEF Worked
    <3>4. CASE n \notin Members(d)
      <4>1. level[n] <= d.step
        BY <2>1, <2>2, <2>3, <2>6, <3>4
      <4>2. d.state[n] \in Worked
        BY <1>6, <3>2, <4>1 DEF Reached
      <4> QED
        BY <3>4, <4>2
    <3> QED
      BY <3>3, <3>4
  <2> QED
    BY <2>4, <2>5, <2>6 DEF Reached
<1> QED
  BY <1>5, <1>6
-------------------------------------------------------------------------------
(* The team at its last boundary d, and what its threads report there.       *)
Holds(deps, d) == Settled(deps, d) /\ \A level : Levels(deps, level) => Reached(deps, level, d)
Ends == run.pc = "head" => run.at = Durable \/ END \in Range(Durable.next)
TeamAt(deps) ==
  /\ graph = TeamGraph(deps) /\ Ends
  /\ \A d \in Boundaries : Durable = d => Holds(deps, d)
  /\ \A b \in Boundaries : run.at = b => Reports(deps, b, threads)
TeamInv == GraphInv /\ \E deps \in Teams : TeamAt(deps)

(* A step of a team is a step of its graph with restricted results.         *)
LEMMA TeamSteps == TeamNext => GraphNext
<1>1. \A n \in Nodes : Report(n) \subseteq Results
  BY AgentTeamAssumption DEF Report
<1> QED
  BY <1>1 DEF TeamNext, GraphNext

(* A team that has not started.                                             *)
LEMMA TeamInvInit == TeamInit => TeamInv
<1> SUFFICES ASSUME TeamInit PROVE TeamInv
  OBVIOUS
<1>1. PICK deps \in Teams : graph = TeamGraph(deps)
  BY DEF TeamInit, GraphInitWith
<1>2. GraphInv
  BY TeamGraphs, GraphInvInit DEF TeamInit
<1>3. Durable = Start /\ run.pc = "idle" /\ \A n \in Nodes : threads[n] = "unused"
  BY DEF TeamInit, GraphInitWith, Durable, NoRun, Unused
<1>4. Holds(deps, Start)
  BY <1>1, TeamStart DEF Holds
<1>5. \A b \in Boundaries : Reports(deps, b, threads)
  BY <1>3 DEF Reports, Worked
<1> QED
  BY <1>1, <1>2, <1>3, <1>4, <1>5 DEF TeamInv, TeamAt, Ends

(* Nobody of a team is lost, and no team pauses.                             *)
LEMMA TeamStays ==
  ASSUME GraphInv, NEW deps, graph = TeamGraph(deps), [TeamNext]_graphVars, ~Merge
  PROVE  Durable' = Durable
<1>1. ~PauseAfter
  BY DEF PauseAfter, Stops, TeamGraph
<1>2. CASE graph' = graph /\ saved' = saved
  BY <1>2 DEF Durable, Start
<1>3. CASE CancelledAtHead \/ PauseBefore \/ CancelledInStep
  BY <1>3, SaveStep
<1> QED
  BY <1>1, <1>2, <1>3 DEF TeamNext, InvokeStep, graphVars, Invoke, Return, StepsExceeded, Submit,
     Await, Collect, Fail, GraphCrash, ThreadStarts, NodeRaises, NodeReturns

(* Merging a superstep of agents makes a boundary of the team.              *)
LEMMA TeamMerge ==
  ASSUME GraphInv, NEW deps \in Teams, TeamAt(deps), Merge
  PROVE  /\ \A e \in Boundaries : Durable' = e => Holds(deps, e)
         /\ Ends'
<1>1. PICK b \in Boundaries : b = run.at
  BY DEF GraphInv, GraphTyped, RunState
<1>2. run.lost = {}
  BY <1>1 DEF GraphInv, UnderWay, TeamAt, TeamGraph
<1>3. PICK merged \in Seq(Nodes) : /\ merged = Merged /\ Range(merged) = Members(b)
                                   /\ \A n \in Range(merged) : threads[n] \in Results
  BY <1>1, <1>2, MergedResults DEF Merge
<1>4. b = Durable /\ b.step < MaxSteps
  BY <1>1, MergedResults DEF Merge
<1>5. PICK route \in Super!Routings(Range(merged)) :
        LET next == Super!Successors(merged, route)
            boundary == Super!Boundary(b, merged, threads, next) IN
        /\ saved' = <<boundary>>
        /\ run' = [run EXCEPT !.pc = "head", !.lost = {},
                    !.at = IF Contains(next, END) THEN [boundary EXCEPT !.next = <<>>] ELSE boundary]
  BY <1>1, <1>3 DEF Merge, Save
<1>6. PICK next : next = Super!Successors(merged, route)
  OBVIOUS
<1>7. \A n \in Members(b) : route[n] = After(deps, n) /\ n \in Nodes /\ route[n] \in Seq(Targets)
  BY <1>3, <1>5, AfterOf DEF Super!Routings, TeamAt, TeamGraph, Members
<1>8. next \in Seq(Targets) /\ Range(next) = UNION {Range(After(deps, n)) : n \in Members(b)}
  <2>1. \A n \in Range(merged) : route[n] \in Seq(Targets)
    BY <1>3, <1>7
  <2>2. next \in Seq(Targets) /\ Range(next) = UNION {Range(route[n]) : n \in Range(merged)}
    BY <1>6, <2>1, SuccessorsOf
  <2>3. {Range(route[n]) : n \in Members(b)} = {Range(After(deps, n)) : n \in Members(b)}
    BY <1>7
  <2> QED
    BY <1>3, <2>2, <2>3
<1>9. PICK e \in Boundaries : e = Super!Boundary(b, merged, threads, next)
  BY <1>3, <1>4, <1>8, BoundaryTyped
<1>10. \A n \in Nodes : Super!Contains(merged, n) <=> n \in Members(b)
  BY <1>3, LenProperties DEF Super!Contains, Range
<1>11. /\ e.step = b.step + 1 /\ e.next = next
       /\ \A n \in Nodes : e.state[n] = IF n \in Members(b) THEN threads[n] ELSE b.state[n]
  BY <1>9, <1>10 DEF Super!Boundary
<1>12. Reports(deps, b, threads) /\ Holds(deps, b)
  BY <1>1, <1>4 DEF TeamAt
<1>13. Holds(deps, e)
  BY <1>3, <1>8, <1>11, <1>12, TeamBoundary DEF Holds
<1>14. saved' = <<e>> /\ run'.at = IF Contains(next, END) THEN [e EXCEPT !.next = <<>>] ELSE e
  BY <1>5, <1>6, <1>9 DEF GraphInv, GraphTyped, RunState
<1>15. Durable' = e
  BY <1>14 DEF Durable
<1>16. Contains(next, END) => END \in Range(e.next)
  BY <1>11 DEF Contains, Range
<1> QED
  BY <1>13, <1>14, <1>15, <1>16 DEF Ends

(* What is in a thread was reported at the boundary the run stands at.       *)
LEMMA TeamReports ==
  ASSUME GraphInv, NEW deps \in Teams, TeamAt(deps), [TeamNext]_graphVars, GraphInv',
         NEW b \in Boundaries, run'.at = b
  PROVE  Reports(deps, b, threads')
<1>1. CASE ~InStep'
  <2>1. \A n \in Nodes : threads'[n] = "unused"
    BY <1>1 DEF GraphInv, UnderWay
  <2> QED
    BY <2>1 DEF Reports, Worked
<1>2. CASE Submit
  <2>1. \A n \in Nodes : threads'[n] \in {"queued", "unused"}
    BY <1>2 DEF Submit
  <2> QED
    BY <2>1 DEF Reports, Worked
<1>3. CASE run'.at = run.at /\ \A n \in Nodes : threads'[n] = threads[n] \/ threads'[n] \in {"running", "raised"}
  <2>1. Reports(deps, b, threads)
    BY <1>3 DEF TeamAt
  <2> QED
    BY <1>3, <2>1 DEF Reports, Worked
<1>4. ASSUME NEW n \in Nodes, NEW report \in Report(n), NodeReturns(n, report) PROVE Reports(deps, b, threads')
  <2>1. run.at = b /\ Reports(deps, b, threads)
    BY <1>4 DEF NodeReturns, TeamAt
  <2>2. \A m \in Nodes : threads'[m] = IF m = n THEN report ELSE threads[m]
    BY <1>4 DEF NodeReturns, GraphInv, GraphTyped
  <2>3. n # Steward => (report = "blocked" <=> ~Passed(deps, b, n))
    <3>1. graph.deps = deps
      BY DEF TeamAt, TeamGraph
    <3> QED
      BY <1>4, <2>1, <3>1 DEF Report, Open, Passed
  <2>4. report \in {"blocked", "passed", "failed"}
    BY <1>4 DEF Report
  <2> QED
    BY <2>1, <2>2, <2>3, <2>4 DEF Reports, Worked
<1>5. CASE Await \/ Collect \/ \E n \in Nodes : ThreadStarts(n) \/ NodeRaises(n)
  <2>1. run'.at = run.at
    BY <1>5 DEF Await, Collect, ThreadStarts, NodeRaises, GraphInv, GraphTyped, RunState
  <2>2. \A n \in Nodes : threads'[n] = threads[n] \/ threads'[n] \in {"running", "raised"}
    BY <1>5 DEF Await, Collect, ThreadStarts, NodeRaises, GraphInv, GraphTyped
  <2> QED
    BY <1>3, <2>1, <2>2
<1>6. CASE UNCHANGED graphVars
  BY <1>3, <1>6 DEF graphVars
<1>7. CASE Invoke \/ Return \/ CancelledAtHead \/ StepsExceeded \/ PauseBefore \/ CancelledInStep
           \/ Fail \/ PauseAfter \/ Merge \/ GraphCrash
  <2>1. ASSUME Invoke PROVE run'.pc = "head"
    BY <2>1 DEF Invoke, NoRun
  <2>2. ASSUME Merge PROVE run'.pc = "head"
    <3>1. PICK at : \E route \in Super!Routings(Range(Merged)) :
                      run' = [run EXCEPT !.pc = "head", !.lost = {}, !.at = at]
      BY <2>2 DEF Merge
    <3> QED
      BY <3>1 DEF GraphInv, GraphTyped, RunState
  <2>3. ASSUME NEW outcome, Leave(outcome) PROVE run'.pc = "idle"
    BY <2>3 DEF Leave, NoRun
  <2>5. Invoke \/ Merge \/ \E outcome : Leave(outcome)
    BY <1>7 DEF Return, CancelledAtHead, StepsExceeded, PauseBefore, CancelledInStep, Fail,
       PauseAfter, GraphCrash
  <2>6. run'.pc \in {"head", "idle"}
    BY <2>1, <2>2, <2>3, <2>5
  <2> QED
    BY <1>1, <2>6 DEF InStep
<1> QED
  BY <1>2, <1>4, <1>5, <1>6, <1>7 DEF TeamNext, InvokeStep

(* A run is past its last boundary only when the end was next there; steps  *)
(* that merge nothing keep that.                                            *)
LEMMA TeamEnds ==
  ASSUME GraphInv, Ends, [TeamNext]_graphVars, Durable' = Durable, ~Merge
  PROVE  Ends'
<1>1. CASE Invoke
  BY <1>1 DEF Invoke, NoRun, Ends
<1>2. CASE run' = run
  BY <1>2 DEF Ends
<1>3. CASE run'.pc # "head"
  BY <1>3 DEF Ends
<1>4. ASSUME NEW outcome, Leave(outcome) PROVE Ends'
  BY <1>4 DEF Ends, Leave, NoRun
<1>5. CASE Submit \/ Await \/ Collect
  BY <1>3, <1>5 DEF Submit, Await, Collect, GraphInv, GraphTyped, RunState
<1>6. CASE \E outcome : Leave(outcome)
  BY <1>4, <1>6
<1>7. CASE Return \/ CancelledAtHead \/ StepsExceeded \/ PauseBefore \/ CancelledInStep
           \/ Fail \/ PauseAfter \/ GraphCrash
  BY <1>6, <1>7 DEF Return, CancelledAtHead, StepsExceeded, PauseBefore, CancelledInStep, Fail,
     PauseAfter, GraphCrash
<1> QED
  BY <1>1, <1>2, <1>5, <1>7 DEF TeamNext, InvokeStep, graphVars, ThreadStarts, NodeRaises, NodeReturns

(* Every step of a team keeps its graph and its boundary.                   *)
LEMMA TeamInvNext == TeamInv /\ [TeamNext]_graphVars => TeamInv'
<1> SUFFICES ASSUME TeamInv, [TeamNext]_graphVars PROVE TeamInv'
  OBVIOUS
<1>1. GraphInv /\ GraphInv'
  BY TeamSteps, GraphInvNext DEF TeamInv
<1>2. PICK deps \in Teams : TeamAt(deps)
  BY DEF TeamInv
<1>3. graph' = graph
  BY DEF TeamNext, InvokeStep, graphVars, Invoke, Return, CancelledAtHead, StepsExceeded, PauseBefore,
     Submit, CancelledInStep, Await, Collect, Fail, PauseAfter, Merge, GraphCrash, ThreadStarts,
     NodeRaises, NodeReturns
<1>4. (\A d \in Boundaries : Durable' = d => Holds(deps, d)) /\ Ends'
  <2>1. CASE Merge
    BY <1>1, <1>2, <2>1, TeamMerge
  <2>2. CASE ~Merge
    <3>1. Durable' = Durable
      BY <1>1, <1>2, <2>2, TeamStays DEF TeamAt
    <3> QED
      BY <1>1, <1>2, <2>2, <3>1, TeamEnds DEF TeamAt
  <2> QED
    BY <2>1, <2>2
<1>5. \A b \in Boundaries : run'.at = b => Reports(deps, b, threads')
  BY <1>1, <1>2, TeamReports
<1>6. TeamAt(deps)'
  BY <1>2, <1>3, <1>4, <1>5 DEF TeamAt, TeamGraph
<1> QED
  BY <1>1, <1>6 DEF TeamInv

(* The invariant of a team carries what the run checks of it.               *)
LEMMA TeamInvImplies == TeamInv => TeamSound
<1> SUFFICES ASSUME TeamInv PROVE TeamSound
  OBVIOUS
<1>1. PICK deps \in Teams : TeamAt(deps)
  BY DEF TeamInv
<1>2. PICK b \in Boundaries : b = run.at
  BY DEF TeamInv, GraphInv, GraphTyped, RunState
<1>3. PICK d \in Boundaries : d = Durable
  BY DurableTyped DEF TeamInv, GraphInv
<1>4. Settled(deps, d) /\ \A level : Levels(deps, level) => Reached(deps, level, d)
  BY <1>1, <1>3 DEF TeamAt, Holds
<1>5. ASSUME NEW n \in Nodes \ {Steward}, b.state[n] \in Worked, threads[n] \in Worked PROVE FALSE
  <2>1. InStep /\ n \in Members(b)
    BY <1>2, <1>5 DEF TeamInv, GraphInv, UnderWay, Worked
  <2>2. b = d
    BY <1>2, <1>3, <2>1, InStepDurable DEF TeamInv
  <2> QED
    BY <1>4, <1>5, <2>1, <2>2 DEF Settled, Members
<1>6. ASSUME Completed, Levelled, NEW n \in Nodes \ {Steward}
      PROVE  b.state[n] \in Worked <=> \A m \in graph.deps[n] : b.state[m] = "passed"
  <2>1. graph.deps = deps
    BY <1>1 DEF TeamAt, TeamGraph
  <2>2. PICK level : Levels(deps, level)
    BY <1>6, <2>1 DEF Levelled, Levels, Size
  <2>3. b.state = d.state
    <3>1. b = d \/ b = [d EXCEPT !.next = <<>>]
      BY <1>2, <1>3, <1>6 DEF TeamInv, GraphInv, AtBoundary, Completed
    <3> QED
      BY <3>1 DEF Boundaries
  <2>4. END \in Range(d.next) \/ Members(d) = {}
    <3>1. b = d \/ END \in Range(d.next)
      BY <1>1, <1>2, <1>3, <1>6 DEF TeamAt, Ends, Completed
    <3>2. Members(b) = {}
      BY <1>2, <1>6 DEF Completed, Members, Range
    <3> QED
      BY <3>1, <3>2
  <2>5. level[n] <= d.step /\ (Passed(deps, d, n) => d.state[n] \in Worked)
    BY <1>4, <2>2, <2>4 DEF Reached
  <2>6. d.state[n] \in Worked <=> Passed(deps, d, n)
    BY <1>4, <2>5 DEF Settled
  <2> QED
    BY <2>1, <2>3, <2>6 DEF Passed
<1> QED
  BY <1>2, <1>5, <1>6 DEF TeamSound

(* tests/test_graph_agent_team.py:194, "resume does not repeat completed     *)
(* agents", and a levelled team ends with every agent decided: for a team of *)
(* any size and dependencies, and any crashes.                               *)
THEOREM TeamKept == TeamSpec => []TeamSound
<1>1. TeamInit => TeamInv
  BY TeamInvInit
<1>2. TeamInv /\ [TeamNext]_graphVars => TeamInv'
  BY TeamInvNext
<1>3. TeamInv => TeamSound
  BY TeamInvImplies
<1> QED
  BY <1>1, <1>2, <1>3, PTL DEF TeamSpec

(* A team has no node of interrupt_after: it keeps the promise as it is.     *)
THEOREM TeamRefinement == TeamSpec => ImplementsSupersteps
<1>1. TeamInit => TeamInv /\ Durable = Super!First(graph)
  BY TeamInvInit, RefinementInit DEF TeamInit
<1>2. TeamInv /\ [TeamNext]_graphVars => TeamInv'
  BY TeamInvNext
<1>3. TeamInv /\ [TeamNext]_graphVars => [Super!Superstep]_<<graph, Durable>>
  <2>1. TeamInv => StopsAlone
    BY DEF TeamInv, TeamAt, TeamGraph, StopsAlone, Stops
  <2>2. TeamInv => GraphInv
    BY DEF TeamInv
  <2> QED
    BY <2>1, <2>2, TeamSteps, RefinementStep
<1> QED
  BY <1>1, <1>2, <1>3, PTL DEF TeamSpec, ImplementsSupersteps, Super!SuperstepSpec
===============================================================================
