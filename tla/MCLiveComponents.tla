---------------------------- MODULE MCLiveComponents ----------------------------
(* Components with liveness properties, one per behaviour: two threads and a *)
(* batch that share the broker; two lanes that learn from deferred outcomes; *)
(* a harness run of every mode; one maintenance process.  The others rest in *)
(* a state in which none of their actions is enabled.                        *)
EXTENDS LocalOffload, DeferredLearning, MCHarnessRun, MCLearningMaintenance

VARIABLE system     \* the component that runs
OffloadRests ==
  /\ job = [j \in AllJobs |-> "done"] /\ batch = "refused"
  /\ counter = [queued |-> 0, active |-> 0, completed |-> Cardinality(AllJobs)]
HarnessRests ==
  /\ plan = <<"context", "learn">> /\ checkpoint = NoCheckpoint /\ manifest = Fresh
  /\ process = [pc |-> "new", at |-> 1, tries |-> 0, memory |-> Fresh, save |-> NoCheckpoint, code |-> 0]
  /\ lives = 0 /\ done = {} /\ tested = "none" /\ lost = FALSE /\ learned = 0

MaintenanceRests ==    \* a monthly schedule beyond the modelled time, and no process
  /\ now = Max(Moments) /\ issued = [i \in Ids |-> 0] /\ crashes = 0 /\ disables = 0
  /\ schedule = [i \in Ids |-> IF i = Legacy THEN Absent ELSE New("calendar", LastDay(now))]
  /\ runs = [i \in Ids |-> [n |-> 0, last |-> "none"]]
  /\ proc = [p \in Procs |-> [Idle EXCEPT !.pc = "ended"]]

LiveInit ==
  /\ system \in {"offload", "learning", "harness", "maintenance"} /\ LearningInit
  /\ IF system = "offload" THEN OffloadInit ELSE OffloadRests
  /\ IF system = "harness" THEN HarnessInit ELSE HarnessRests
  /\ IF system = "maintenance" THEN MaintenanceInit ELSE MaintenanceRests
(* Only one of them runs: the variables of the others stay.                  *)
Stays(name, variables) == system # name => UNCHANGED variables
LiveNext ==
  /\ UNCHANGED system
  /\ \/ system = "offload" /\ OffloadNext
     \/ system = "learning" /\ LearningNext
     \/ system = "harness" /\ HarnessNext
     \/ system = "maintenance" /\ MaintenanceNext
  /\ Stays("offload", offloadVars) /\ Stays("learning", learningVars)
  /\ Stays("harness", harnessVars) /\ Stays("maintenance", schedulerVars)
liveVars ==
  <<system, offloadVars, learningVars, harnessVars, schedulerVars>>
(* What rests has no step to be fair to.                                     *)
LiveSpec ==
  /\ LiveInit /\ [][LiveNext]_liveVars
  /\ OffloadFairness /\ LearningFairness /\ HarnessFairness /\ Fairness
================================================================================
