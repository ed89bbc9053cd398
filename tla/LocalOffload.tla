----------------------------- MODULE LocalOffload -----------------------------
(***************************************************************************)
(* LocalOffloadBroker of portable/local_offload.py: jobs run by the threads  *)
(* of the agents that share the broker, or by the pool of one batch, and the *)
(* counters that routing reads as pressure.  The two critical sections and   *)
(* the finally block are steps of their own.                                 *)
(***************************************************************************)
EXTENDS Naturals, FiniteSets

CONSTANTS Jobs,        \* jobs handed to run by threads of their own
          Batch,       \* jobs handed to run_many
          MaxWorkers,  \* max_workers of the budget
          QueueFactor  \* a batch holds at most max_workers * 8 jobs
ASSUME OffloadAssumption ==
  /\ IsFiniteSet(Jobs \cup Batch) /\ Jobs \cap Batch = {}
  /\ MaxWorkers \in Nat \ {0} /\ QueueFactor \in Nat \ {0}

VARIABLES job,      \* stage of every job
          batch,    \* run_many: "none", "refused", "open" or "returned"
          counter   \* _queued_jobs, _active_jobs, _completed_jobs
offloadVars == <<job, batch, counter>>

Ended == {"rejected", "failed", "done"}
AllJobs == Jobs \cup Batch
In(stages) == Cardinality({j \in AllJobs : job[j] \in stages})
OffloadInit ==
  /\ job = [j \in AllJobs |-> "new"] /\ batch = "none"
  /\ counter = [queued |-> 0, active |-> 0, completed |-> 0]
-------------------------------------------------------------------------------
(* run_many: a pool of max_workers threads; the result when all jobs are done.*)
RunMany ==
  /\ batch = "none"
  /\ batch' = IF Cardinality(Batch) > MaxWorkers * QueueFactor THEN "refused" ELSE "open"
  /\ UNCHANGED <<job, counter>>
BugReturnMany ==    \* mutant: waits for successes
  /\ batch = "open" /\ (\A j \in Batch : job[j] = "done") /\ batch' = "returned"
  /\ UNCHANGED <<job, counter>>
ReturnMany ==
  /\ batch = "open" /\ (\A j \in Batch : job[j] \in Ended) /\ batch' = "returned"
  /\ UNCHANGED <<job, counter>>
PoolThread(j) == /\ batch = "open"
                 /\ Cardinality({k \in Batch : job[k] \in {"queued", "active"}}) < MaxWorkers

(* run: the job is counted as queued, checked (and its workspace copied),    *)
(* counted as active and started.                                            *)
Enqueue(j) ==
  /\ job[j] = "new" /\ (j \in Batch => PoolThread(j))
  /\ job' = [job EXCEPT ![j] = "queued"] /\ counter' = [counter EXCEPT !.queued = @ + 1]
  /\ UNCHANGED batch
Launch(j) ==
  /\ job[j] = "queued" /\ job' = [job EXCEPT ![j] = "active"]
  /\ counter' = [counter EXCEPT !.queued = @ - 1, !.active = @ + 1]
  /\ UNCHANGED batch
(* The check raises, the program cannot be started or fails, or it ends: the *)
(* finally block counts the job out as an active one.                        *)
BugCountOut(j, outcome) ==    \* mutant: the active job is counted out twice
  /\ job' = [job EXCEPT ![j] = outcome]
  /\ counter' = [counter EXCEPT !.active = IF @ > 1 THEN @ - 2 ELSE 0, !.completed = @ + 1]
  /\ UNCHANGED batch
CountOut(j, outcome) ==
  /\ job' = [job EXCEPT ![j] = outcome]
  /\ counter' = [counter EXCEPT !.active = IF @ > 0 THEN @ - 1 ELSE 0, !.completed = @ + 1]
  /\ UNCHANGED batch
Reject(j) == job[j] = "queued" /\ CountOut(j, "rejected")
End(j) == job[j] = "active" /\ (CountOut(j, "done") \/ CountOut(j, "failed"))

OffloadStep(j) == Enqueue(j) \/ Launch(j) \/ Reject(j) \/ End(j)
OffloadNext == RunMany \/ ReturnMany \/ \E j \in AllJobs : OffloadStep(j)
(* Every job ends by its timeout, and the pool serves what is submitted.     *)
OffloadFairness == WF_offloadVars(ReturnMany) /\ \A j \in Batch : WF_offloadVars(OffloadStep(j))
-------------------------------------------------------------------------------
(* local_offload.py:137, "a cheap, bounded snapshot for resource-aware       *)
(* routing": whatever interleaves and fails, the queue pressure (queued and  *)
(* active) is never understated, the cpu pressure (active) never overstated, *)
(* no counter turns negative, and all are exact until the first rejection.   *)
(* (A rejected job stays in the queued counter for ever, and takes the place *)
(* of an active one.)                                                        *)
PressureBounded ==
  /\ counter.queued + counter.active >= In({"queued", "active"})
  /\ counter.active \in 0..In({"active"}) /\ counter.queued >= In({"queued"})
  /\ counter.completed = In(Ended)
  /\ In({"rejected"}) = 0 => counter.queued = In({"queued"}) /\ counter.active = In({"active"})

(* docs/LOCAL_OFFLOAD.md:35, "intentionally bounded": a batch never has more *)
(* jobs under way than workers, and it returns only with all its results.    *)
BatchBounded ==
  /\ Cardinality({j \in Batch : job[j] \in {"queued", "active"}}) <= MaxWorkers
  /\ batch = "returned" => \A j \in Batch : job[j] \in Ended
OffloadSound == PressureBounded /\ BatchBounded
(* Every job ends by its timeout (line 188), so a batch that was taken in    *)
(* returns, however many of its jobs are rejected or fail.                   *)
BatchReturns == batch = "open" ~> batch = "returned"
===============================================================================
