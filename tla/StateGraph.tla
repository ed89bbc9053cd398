------------------------------ MODULE StateGraph ------------------------------
(***************************************************************************)
(* CompiledStateGraph.invoke (portable/agency_state_graph.py): one run id,   *)
(* invoked, interrupted, cancelled, crashed and resumed from its checkpoint. *)
(* Parallel nodes run in the threads of an executor.  A thread that the      *)
(* invocation no longer waits for is left out: nobody reads its result.      *)
(***************************************************************************)
EXTENDS Naturals, Sequences, FiniteSets, SequencesExt

CONSTANTS Nodes, END, Results,
          Graphs,          \* the graphs to run, and how
          Workers,         \* max_parallel_nodes
          TimeoutSet,      \* node_timeout_seconds is given
          MaxSteps,        \* max_steps
          MaxInvocations,  \* bound of the calls of invoke
          MaxCancels,      \* bound of the cancellations
          GraphCrashes       \* bound of the crashes of the process
(* Edges and routers name nodes or the end (_validate_target).               *)
IsGraph(g) ==
  /\ g.start \in Seq(Nodes \cup {END}) /\ g.routes \in [Nodes -> SUBSET Seq(Nodes \cup {END})]
  /\ g.before \subseteq Nodes /\ g.after \subseteq Nodes /\ g.parallel \subseteq Nodes
  /\ g.isolate \in BOOLEAN
ASSUME StateGraphAssumption ==
  /\ END \notin Nodes /\ Results \cap {"none", "unused", "queued", "running", "raised"} = {}
  /\ \A g \in Graphs : IsGraph(g)
  /\ Workers \in Nat \ {0} /\ MaxSteps \in Nat \ {0} /\ TimeoutSet \in BOOLEAN
  /\ MaxInvocations \in Nat /\ MaxCancels \in Nat /\ GraphCrashes \in Nat

VARIABLES graph,      \* the graph that runs: start, routes, before and after (the nodes
                      \* of interrupt_before and interrupt_after), parallel (those of
                      \* parallel_nodes), isolate (parallel_failure_mode)
          saved,      \* the checkpoint store's entry of the run: at most one
          run,        \* the invocation under way
          threads,    \* the nodes of the current superstep
          cancelled,  \* the cancellation event of the invocation
          used        \* invocations, cancellations and crashes so far
graphVars == <<graph, saved, run, threads, cancelled, used>>

(* The last durable boundary: the checkpoint, or the start of the graph.     *)
Start == [step |-> 0, state |-> [n \in Nodes |-> "none"], next |-> graph.start, trace |-> <<>>]
Durable == IF saved = <<>> THEN Start ELSE saved[1]
Super == INSTANCE Supersteps WITH durable <- Durable

Unused == [n \in Nodes |-> "unused"]
(* skip: skip_before_once; todo: the nodes still to be awaited; lost: the     *)
(* isolated failures; resumed (history): the step this invocation resumed at.*)
NoRun(outcome) == [pc |-> "idle", at |-> Start, skip |-> FALSE, todo |-> <<>>,
                   lost |-> {}, resumed |-> {}, outcome |-> outcome]

GraphInitWith(graphs) ==
  /\ graph \in graphs
  /\ saved = <<>> /\ run = NoRun("none")
  /\ threads = Unused /\ cancelled = FALSE
  /\ used = [invocations |-> 0, cancels |-> 0, crashes |-> 0]
GraphInit == GraphInitWith(Graphs)
-------------------------------------------------------------------------------
Busy == {n \in Nodes : threads[n] \in {"queued", "running"}}
RunningNodes == {n \in Nodes : threads[n] = "running"}
StepNodes == Super!Scheduled(run.at.next)          \* the nodes of this superstep

(* invoke is over: nobody reads the futures of its threads any more.         *)
Leave(outcome) == run' = NoRun(outcome) /\ threads' = Unused
Save(boundary) == saved' = <<boundary>>

(* invoke: the first call starts at the entry, a later one resumes.          *)
Invoke ==
  /\ run.pc = "idle" /\ used.invocations < MaxInvocations
  /\ run' = [NoRun("none") EXCEPT !.pc = "head", !.at = Durable, !.skip = saved # <<>>,
                                  !.resumed = {boundary.step : boundary \in Range(saved)}]
  /\ cancelled' = FALSE
  /\ used' = [used EXCEPT !.invocations = @ + 1]
  /\ UNCHANGED <<graph, saved, threads>>

(* The head of the loop: nothing is scheduled, the run is cancelled, out of  *)
(* steps, held at a gate, or the next superstep begins.  The gates of the    *)
(* first superstep of a resumed run are skipped.                             *)
AtHead == run.pc = "head" /\ run.at.next # <<>>
Gates == Range(run.at.next) \cap graph.before
Gated == Gates # {} /\ ~run.skip
Return ==
  /\ run.pc = "head" /\ run.at.next = <<>>
  /\ Leave("completed")
  /\ UNCHANGED <<graph, saved, cancelled, used>>
CancelledAtHead ==
  /\ AtHead /\ cancelled
  /\ Save(run.at) /\ Leave("interrupted")
  /\ UNCHANGED <<graph, cancelled, used>>
StepsExceeded ==
  /\ AtHead /\ ~cancelled /\ run.at.step >= MaxSteps
  /\ Leave("failed")
  /\ UNCHANGED <<graph, saved, cancelled, used>>
PauseBefore ==
  /\ AtHead /\ ~cancelled /\ run.at.step < MaxSteps /\ Gated
  /\ Save(run.at) /\ Leave("paused")
  /\ UNCHANGED <<graph, cancelled, used>>
BugSubmit ==    \* mutant: skip_before_once is never reset
  /\ AtHead /\ ~cancelled /\ run.at.step < MaxSteps /\ ~Gated
  /\ run' = [run EXCEPT !.pc = IF StepNodes = <<>> THEN "merge" ELSE "check",
       !.todo = Super!Only(StepNodes, graph.parallel) \o Super!Only(StepNodes, Nodes \ graph.parallel)]
  /\ threads' = [n \in Nodes |->
       IF Contains(StepNodes, n) /\ n \in graph.parallel THEN "queued" ELSE "unused"]
  /\ UNCHANGED <<graph, saved, cancelled, used>>
Submit ==
  /\ AtHead /\ ~cancelled /\ run.at.step < MaxSteps /\ ~Gated
  /\ run' = [run EXCEPT !.pc = IF StepNodes = <<>> THEN "merge" ELSE "check", !.skip = FALSE,
       !.todo = Super!Only(StepNodes, graph.parallel) \o Super!Only(StepNodes, Nodes \ graph.parallel)]
  /\ threads' = [n \in Nodes |->
       IF Contains(StepNodes, n) /\ n \in graph.parallel THEN "queued" ELSE "unused"]
  /\ UNCHANGED <<graph, saved, cancelled, used>>
-------------------------------------------------------------------------------
(* Before it waits for a parallel node, or runs a sequential one, invoke     *)
(* looks for a cancellation.  The executor is joined before the first        *)
(* sequential node.                                                          *)
Looks == run.pc = "check" /\ (Head(run.todo) \in graph.parallel \/ Busy = {})
BugCancelledInStep ==    \* mutant: what is collected so far is saved
  /\ Looks /\ cancelled
  /\ LET got == Super!Only(StepNodes, {n \in Nodes : threads[n] \in Results}) IN
     Save(Super!Boundary(run.at, got, threads, run.at.next))
  /\ Leave("interrupted")
  /\ UNCHANGED <<graph, cancelled, used>>
CancelledInStep ==
  /\ Looks /\ cancelled
  /\ Save(run.at) /\ Leave("interrupted")
  /\ UNCHANGED <<graph, cancelled, used>>
Await ==
  /\ Looks /\ ~cancelled
  /\ run' = [run EXCEPT !.pc = "wait"]
  /\ LET n == Head(run.todo) IN
     threads' = IF n \in graph.parallel THEN threads ELSE [threads EXCEPT ![n] = "running"]
  /\ UNCHANGED <<graph, saved, cancelled, used>>

(* The node awaited has returned, or its failure is isolated ...             *)
BugFailed(n) == threads[n] = "raised"    \* mutant: the timeout is not passed on
Failed(n) == threads[n] = "raised" \/ (TimeoutSet /\ n \in Busy)
Isolated(n) == graph.isolate /\ n \in graph.parallel
Collect ==
  /\ run.pc = "wait"
  /\ LET n == Head(run.todo) IN
     /\ threads[n] \in Results \/ (Failed(n) /\ Isolated(n))
     /\ run' = [run EXCEPT !.pc = IF Len(run.todo) = 1 THEN "merge" ELSE "check",
                           !.todo = Tail(@),
                           !.lost = IF threads[n] \in Results THEN @ ELSE @ \cup {n}]
  /\ UNCHANGED <<graph, saved, threads, cancelled, used>>
(* ... or its exception or timeout ends the run.                             *)
Fail ==
  /\ run.pc = "wait"
  /\ LET n == Head(run.todo) IN
     /\ Failed(n) /\ ~Isolated(n)
     /\ Leave("failed")
  /\ UNCHANGED <<graph, saved, cancelled, used>>

(* The results are merged in graph order, up to a node of interrupt_after.   *)
Merged == Super!Only(StepNodes, Nodes \ run.lost)
Stops == {i \in DOMAIN Merged : Merged[i] \in graph.after}
Ready == run.pc = "merge" /\ Busy = {}
PauseAfter ==
  /\ Ready
  /\ \E stop \in Stops : /\ \A i \in Stops : stop <= i
                         /\ \E next \in graph.routes[Merged[stop]] :
                              Save(Super!Boundary(run.at, SubSeq(Merged, 1, stop), threads, next))
  /\ Leave("paused")
  /\ UNCHANGED <<graph, cancelled, used>>
Merge ==
  /\ Ready /\ Stops = {}
  /\ \E route \in Super!Routings(Range(Merged)) :
       LET next == Super!Successors(Merged, route)
           boundary == Super!Boundary(run.at, Merged, threads, next) IN
       /\ Save(boundary)
       /\ run' = [run EXCEPT !.pc = "head", !.lost = {},
                    !.at = IF Contains(next, END) THEN [boundary EXCEPT !.next = <<>>]
                                                 ELSE boundary]
  /\ threads' = Unused
  /\ UNCHANGED <<graph, cancelled, used>>
-------------------------------------------------------------------------------
(* The threads: a pool of Workers, and _run_node with all its attempts.      *)
ThreadStarts(n) ==
  /\ threads[n] = "queued" /\ Cardinality(RunningNodes) < Workers
  /\ threads' = [threads EXCEPT ![n] = "running"]
  /\ UNCHANGED <<graph, saved, run, cancelled, used>>
NodeReturns(n, result) ==
  /\ threads[n] = "running"
  /\ threads' = [threads EXCEPT ![n] = result]
  /\ UNCHANGED <<graph, saved, run, cancelled, used>>
NodeRaises(n) ==
  /\ threads[n] = "running"
  /\ threads' = [threads EXCEPT ![n] = "raised"]
  /\ UNCHANGED <<graph, saved, run, cancelled, used>>

Cancel ==
  /\ run.pc # "idle" /\ ~cancelled /\ used.cancels < MaxCancels
  /\ cancelled' = TRUE
  /\ used' = [used EXCEPT !.cancels = @ + 1]
  /\ UNCHANGED <<graph, saved, run, threads>>
GraphCrash ==
  /\ run.pc # "idle" /\ used.crashes < GraphCrashes
  /\ Leave("crashed")
  /\ used' = [used EXCEPT !.crashes = @ + 1]
  /\ UNCHANGED <<graph, saved, cancelled>>

InvokeStep == \/ Return \/ CancelledAtHead \/ StepsExceeded \/ PauseBefore \/ Submit
              \/ CancelledInStep \/ Await \/ Collect \/ Fail \/ PauseAfter \/ Merge
GraphNext ==
  \/ Invoke \/ InvokeStep \/ Cancel \/ GraphCrash
  \/ \E n \in Nodes : \/ ThreadStarts(n)
                      \/ NodeRaises(n)
                      \/ \E result \in Results : NodeReturns(n, result)

(* invoke goes on while it can and idle pool threads take queued nodes.      *)
Scheduling == /\ WF_graphVars(InvokeStep)
              /\ \A n \in Nodes : WF_graphVars(ThreadStarts(n))
(* A node need not ever return ...                                           *)
GraphSpec == GraphInit /\ [][GraphNext]_graphVars /\ Scheduling
(* ... but where its failure may be isolated, it does (see InvocationEnds).  *)
Answers(n) == graph.isolate /\ (NodeRaises(n) \/ \E result \in Results : NodeReturns(n, result))
AnsweringSpec == GraphSpec /\ \A n \in Nodes : WF_graphVars(Answers(n))
-------------------------------------------------------------------------------
(* Types of the run, its checkpoint and its threads.                         *)
Boundaries == [step : 0..MaxSteps, state : [Nodes -> Results \cup {"none"}],
               next : Seq(Nodes \cup {END}), trace : Seq(Nodes)]
GraphTypeOK ==
  /\ Len(saved) <= 1 /\ Durable \in Boundaries
  /\ run.pc \in {"idle", "head", "check", "wait", "merge"}
  /\ run.at \in Boundaries /\ run.lost \subseteq graph.parallel
  /\ run.pc \in {"check", "wait"} <=> run.todo # <<>>
  /\ threads \in [Nodes -> Results \cup {"unused", "queued", "running", "raised"}]

(* LANGGRAPH_PATTERN_ALIGNMENT.md:10: whatever fails, hangs, is cancelled or *)
(* crashes, the checkpoint moves by one whole superstep or not at all.       *)
ImplementsSupersteps == Super!SuperstepSpec

(* README.md, "Mutating agents are serialized": a node that is not parallel  *)
(* runs beside no other node of its superstep.                               *)
SequentialAlone == \A n \in RunningNodes \ graph.parallel : Busy = {n}

(* LANGGRAPH_PATTERN_ALIGNMENT.md:11, interrupts are "human approval and     *)
(* controlled pauses": an invocation runs a gated node only in the superstep *)
(* it resumed at, so one resumption never passes two gates.                  *)
GateHonoured == \A n \in graph.before :
  threads[n] # "unused" => run.at.step \in run.resumed

(* The run stays within its bounds and types, sequential nodes run alone and *)
(* gates hold.                                                               *)
GraphSound == GraphTypeOK /\ SequentialAlone /\ GateHonoured

(* docs/STATE_GRAPH_HARDENING.md:5, "Per-node timeouts return control to the *)
(* caller without waiting for the worker": every call of invoke ends, though *)
(* nodes hang, when failures are not isolated.  (When they are, the executor *)
(* is joined after a timeout, and invoke ends only if the nodes do.)         *)
InvocationEnds == run.pc # "idle" ~> run.pc = "idle"
===============================================================================
