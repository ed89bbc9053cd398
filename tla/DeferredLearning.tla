--------------------------- MODULE DeferredLearning ---------------------------
(***************************************************************************)
(* AdaptiveLearningStore (portable/adaptive_learning.py): outcomes of tasks  *)
(* are deferred as jobs, and every process that runs the maintenance lane    *)
(* reads a batch and works it off, one SQLite transaction after the other:   *)
(* CognitiveLearningLoop.record (a signal, the evidence, the belief it gives *)
(* rise to, an outcome of the self model), the profile, the job's status.    *)
(* Every job has a capability and one piece of evidence, all of it about one *)
(* hypothesis.                                                               *)
(***************************************************************************)
EXTENDS Naturals, FiniteSets, Sequences, SequencesExt

CONSTANTS Outcomes,    \* outcomes that tasks may defer
          Unverified,  \* those whose payload is not verified
          Orphaned,    \* those whose evidence names no hypothesis
          Processes,   \* processes that call process_learning
          Limit,       \* jobs of one batch
          MaxJobs,     \* max_jobs: pending jobs
          MaxSignals,  \* max_signals
          MaxAborts    \* bound of the calls that end in an exception or a crash
ASSUME LearningAssumption ==
  /\ IsFiniteSet(Outcomes) /\ IsFiniteSet(Processes) /\ Unverified \subseteq Outcomes
  /\ Orphaned \subseteq Outcomes \ Unverified
  /\ {Limit, MaxJobs, MaxSignals} \subseteq Nat \ {0} /\ MaxAborts \in Nat

VARIABLES pending,     \* the pending jobs, oldest first
          admitted,    \* outcomes that were counted and are still to be stored
          completed,   \* the completed jobs
          count,       \* rows: signals and self-model outcomes; observations of the profile
          evidence,    \* jobs whose evidence is stored
          belief,      \* jobs whose evidence the hypothesis' confidence stands for
          lane,        \* the call every process is in
          overlapped,  \* two calls have been under way at once
          aborts
learningVars == <<pending, admitted, completed, count, evidence, belief, lane, overlapped, aborts>>

Away == [pc |-> "away", batch |-> <<>>, read |-> {}, observed |-> 0]
LearningInit ==
  /\ pending = <<>> /\ admitted = {} /\ completed = {} /\ evidence = {} /\ belief = {}
  /\ count = [signals |-> 0, outcomes |-> 0, observations |-> 0]
  /\ lane = [p \in Processes |-> Away] /\ overlapped = FALSE /\ aborts = 0
-------------------------------------------------------------------------------
(* record_outcome counts the pending jobs in one statement and inserts the   *)
(* new one in another: tasks of several processes overrun max_jobs.          *)
Admit(j) ==
  /\ j \notin admitted \cup completed \cup ToSet(pending) /\ Len(pending) < MaxJobs
  /\ admitted' = admitted \cup {j}
  /\ UNCHANGED <<pending, completed, count, evidence, belief, lane, overlapped, aborts>>
StoreOutcome(j) ==
  /\ j \in admitted /\ admitted' = admitted \ {j} /\ pending' = Append(pending, j)
  /\ UNCHANGED <<completed, count, evidence, belief, lane, overlapped, aborts>>

(* process: the oldest pending jobs.                                         *)
Fetch(p) ==
  /\ lane[p] = Away /\ pending # <<>>
  /\ lane' = [lane EXCEPT ![p].pc = "job",
                          ![p].batch = SubSeq(pending, 1, IF Len(pending) < Limit THEN Len(pending) ELSE Limit)]
  /\ overlapped' = (overlapped \/ \E q \in Processes : lane[q] # Away)
  /\ UNCHANGED <<pending, admitted, completed, count, evidence, belief, aborts>>

IsIn(p, pc) == lane[p].pc = pc
Job(p) == Head(lane[p].batch)
Go(p, pc) == lane' = [lane EXCEPT ![p].pc = pc]
(* The next job of the batch, or the end of the call.                        *)
NextJob(p) == lane' = [lane EXCEPT ![p] =
  IF Len(@.batch) = 1 THEN Away ELSE [Away EXCEPT !.pc = "job", !.batch = Tail(lane[p].batch)]]

(* CognitiveLearningLoop.record: what a statement raises is caught, and the  *)
(* job is left pending, whatever has been stored for it by then.  Signals    *)
(* are counted and inserted one after the other, too.                        *)
CountSignals(p) ==
  /\ IsIn(p, "job") /\ Job(p) \notin Unverified
  /\ IF count.signals < MaxSignals THEN Go(p, "signal") ELSE NextJob(p)
  /\ UNCHANGED <<pending, admitted, completed, count, evidence, belief, overlapped, aborts>>
Signal(p) ==
  /\ IsIn(p, "signal") /\ Go(p, "evidence")
  /\ count' = [count EXCEPT !.signals = @ + 1]
  /\ UNCHANGED <<pending, admitted, completed, evidence, belief, overlapped, aborts>>
BugAddEvidence(p) ==    \* mutant: errors of the learning loop are ignored
  /\ IsIn(p, "evidence")
  /\ IF Job(p) \in Orphaned THEN Go(p, "outcome") /\ UNCHANGED evidence
                            ELSE Go(p, "assess") /\ evidence' = evidence \cup {Job(p)}
  /\ UNCHANGED <<pending, admitted, completed, count, belief, overlapped, aborts>>
AddEvidence(p) ==
  /\ IsIn(p, "evidence")
  /\ IF Job(p) \in Orphaned THEN NextJob(p) /\ UNCHANGED evidence
                            ELSE Go(p, "assess") /\ evidence' = evidence \cup {Job(p)}
  /\ UNCHANGED <<pending, admitted, completed, count, belief, overlapped, aborts>>
(* assess weighs the evidence it has read and writes in another transaction. *)
AssessRead(p) ==
  /\ IsIn(p, "assess")
  /\ lane' = [lane EXCEPT ![p].pc = "believe", ![p].read = evidence]
  /\ UNCHANGED <<pending, admitted, completed, count, evidence, belief, overlapped, aborts>>
AssessWrite(p) ==
  /\ IsIn(p, "believe") /\ belief' = lane[p].read /\ Go(p, "outcome")
  /\ UNCHANGED <<pending, admitted, completed, count, evidence, overlapped, aborts>>
SelfModelOutcome(p) ==
  /\ IsIn(p, "outcome") /\ Go(p, "profile")
  /\ count' = [count EXCEPT !.outcomes = @ + 1]
  /\ UNCHANGED <<pending, admitted, completed, evidence, belief, overlapped, aborts>>

(* _apply_profile reads the profile and writes the one it has computed.      *)
ReadProfile(p) ==
  /\ IsIn(p, "profile")
  /\ lane' = [lane EXCEPT ![p].pc = "apply", ![p].observed = count.observations]
  /\ UNCHANGED <<pending, admitted, completed, count, evidence, belief, overlapped, aborts>>
WriteProfile(p) ==
  /\ IsIn(p, "apply") /\ Go(p, "complete")
  /\ count' = [count EXCEPT !.observations = lane[p].observed + 1]
  /\ UNCHANGED <<pending, admitted, completed, evidence, belief, overlapped, aborts>>

(* The UPDATE of the job, which a job that is completed already survives.    *)
MarkCompleted(j) ==
  /\ completed' = completed \cup {j}
  /\ IF j \in ToSet(pending)
       THEN \E i \in DOMAIN pending : pending[i] = j /\ pending' = RemoveAt(pending, i)
       ELSE UNCHANGED pending
BugComplete(p) ==    \* mutant: only what was learned from is completed
  /\ \/ IsIn(p, "complete") /\ MarkCompleted(Job(p))
     \/ IsIn(p, "job") /\ Job(p) \in Unverified /\ UNCHANGED <<pending, completed>>
  /\ NextJob(p)
  /\ UNCHANGED <<admitted, count, evidence, belief, overlapped, aborts>>
Complete(p) ==
  /\ IsIn(p, "complete") \/ (IsIn(p, "job") /\ Job(p) \in Unverified)
  /\ MarkCompleted(Job(p)) /\ NextJob(p)
  /\ UNCHANGED <<admitted, count, evidence, belief, overlapped, aborts>>

(* The process dies, or a statement outside the try blocks raises.           *)
Abort(p) ==
  /\ lane[p] # Away /\ aborts < MaxAborts /\ aborts' = aborts + 1
  /\ lane' = [lane EXCEPT ![p] = Away]
  /\ UNCHANGED <<pending, admitted, completed, count, evidence, belief, overlapped>>

Learn(p) == \/ Fetch(p) \/ CountSignals(p) \/ Signal(p) \/ AddEvidence(p) \/ AssessRead(p) \/ AssessWrite(p)
            \/ SelfModelOutcome(p) \/ ReadProfile(p) \/ WriteProfile(p) \/ Complete(p)
LearningNext == (\E j \in Outcomes : Admit(j) \/ StoreOutcome(j)) \/ \E p \in Processes : Learn(p) \/ Abort(p)
(* The maintenance lane polls for ever; tasks need not end.                  *)
LearningFairness == \A p \in Processes : WF_learningVars(Learn(p))
-------------------------------------------------------------------------------
Learned == completed \ Unverified

(* README.md:164, "processes deferred learning": whatever interleaves or     *)
(* dies, the evidence of a completed job is stored, and nothing counts more  *)
(* often than it was recorded.  Of calls that never overlapped, none is lost *)
(* either: the hypothesis and the profile stand for every completed job; and *)
(* they count it exactly once if, besides, no call has been cut short.       *)
LearningSound ==
  /\ Learned \subseteq evidence /\ belief \subseteq evidence
  /\ count.observations <= count.outcomes /\ count.outcomes <= count.signals
  /\ ~overlapped => /\ Learned \subseteq belief
                    /\ Cardinality(Learned) <= count.observations
  /\ ~overlapped /\ aborts = 0 /\ (\A p \in Processes : lane[p] = Away) =>
       /\ evidence = belief /\ belief = Learned
       /\ count.observations = Cardinality(Learned) /\ count.outcomes = Cardinality(Learned)

(* A job that can be learned from is completed some day, unless as many      *)
(* orphaned jobs as fit into a batch are pending, or the signals are used up *)
(* (every pass over an orphaned job costs one; without them the jobs that    *)
(* need one fill the batches for ever).                                      *)
JobsCompleted == \A j \in Outcomes \ Orphaned :
  j \in ToSet(pending) ~>
    (\/ j \in completed \/ Cardinality(Orphaned \cap ToSet(pending)) >= Limit
     \/ count.signals >= MaxSignals)
===============================================================================
