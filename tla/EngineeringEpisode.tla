--------------------------- MODULE EngineeringEpisode ---------------------------
(***************************************************************************)
(* ContinuousEngineeringRuntime (portable/continuous_engineering_runtime.py) *)
(* around AutonomousEngineeringLoop (autonomous_engineering_loop.py): one    *)
(* episode and its row in SQLite, the loop that predicts, plans, executes,   *)
(* verifies, reviews and learns, and the remediation backlog it works off.   *)
(* Every load, save and upsert is a transaction; a call may die between any  *)
(* two.  Evidence, digests, threshold and the evolution trigger are left out.*)
(***************************************************************************)
EXTENDS Naturals, FiniteSets, FiniteSetsExt

CONSTANTS Engineers,      \* processes that call run for the episode
          Families,       \* task families a call may name
          Findings,       \* ids of findings
          Backlogs,       \* what the backlog may hold at first
          MaxIterations,  \* max_iterations
          MaxCalls,       \* bound of the calls of run
          MaxMeddling     \* bound of the changes others make to the backlog
NoFamily == "none"
FindingStatuses == {"pending", "in_progress", "blocked", "resolved", "accepted", "deferred"}
ASSUME EpisodeAssumption ==
  /\ MaxIterations \in Nat \ {0} /\ MaxCalls \in Nat /\ MaxMeddling \in Nat
  /\ IsFiniteSet(Findings)
  /\ Backlogs \subseteq [Findings -> [status : FindingStatuses \cup {"absent"}, attempts : Nat,
                                     severe : BOOLEAN, family : Families \cup {NoFamily}]]

VARIABLES episode,     \* the row of engineering_episodes
          engineer,    \* the call every process is in
          backlog,     \* the rows of remediation_backlog
          calls,       \* calls of run so far
          work,        \* for every execution: its call, family and iteration
          verified,    \* what the last verification said
          owner,       \* the family the episode was first stored for
          overlapped,  \* two calls of run have overlapped
          meddled      \* changes others made to the backlog
episodeVars == <<episode, engineer, backlog, calls, work, verified, owner, overlapped, meddled>>

Ended == {"completed", "escalated", "failed"}
Free == [pc |-> "free", call |-> 0, family |-> NoFamily, seen |-> 0, start |-> 0, round |-> 0,
         todo |-> {}, passed |-> FALSE, accepted |-> FALSE]
EpisodeInit ==
  /\ episode = [state |-> "absent", iteration |-> 0, family |-> NoFamily]
  /\ engineer = [e \in Engineers |-> Free] /\ backlog \in Backlogs
  /\ calls = 0 /\ work = {} /\ verified = "never" /\ owner = NoFamily
  /\ overlapped = FALSE /\ meddled = 0
-------------------------------------------------------------------------------
InCall(e, pc) == engineer[e].pc = pc
Continue(e, call) == engineer' = [engineer EXCEPT ![e] = call]
SaveEpisode(e, state, iteration) ==
  episode' = [state |-> state, iteration |-> iteration, family |-> engineer[e].family]

(* run loads the row.  An ended episode is returned as it is and another     *)
(* family is refused, but an execution without a result escalates first.     *)
Called(e) ==
  /\ engineer[e] = Free /\ calls < MaxCalls /\ calls' = calls + 1
  /\ overlapped' = (overlapped \/ \E other \in Engineers : engineer[other] # Free)
  /\ UNCHANGED <<episode, backlog, work, verified, owner, meddled>>
Mine(family, pc) ==
  [Free EXCEPT !.pc = pc, !.call = calls + 1, !.family = family, !.start = episode.iteration]
Refused(family) ==
  episode.state \in Ended \/ (episode.state = "running" /\ episode.family # family)
BugBeginEpisode(e, family) ==    \* mutant: an execution without a result is done again
  Called(e) /\ IF Refused(family) THEN UNCHANGED engineer ELSE Continue(e, Mine(family, "start"))
BeginEpisode(e, family) ==
  Called(e) /\ IF Refused(family) THEN UNCHANGED engineer
               ELSE Continue(e, Mine(family, IF episode.state = "verifying" THEN "escalate" ELSE "start"))
Escalate(e) ==
  /\ InCall(e, "escalate") /\ SaveEpisode(e, "escalated", engineer[e].start) /\ Continue(e, Free)
  /\ UNCHANGED <<backlog, calls, work, verified, owner, overlapped, meddled>>
SaveRunning(e) ==
  /\ InCall(e, "start") /\ SaveEpisode(e, "running", engineer[e].start)
  /\ Continue(e, [engineer[e] EXCEPT !.pc = "predict", !.round = 1])
  /\ owner' = IF owner = NoFamily THEN engineer[e].family ELSE owner
  /\ UNCHANGED <<backlog, calls, work, verified, overlapped, meddled>>
-------------------------------------------------------------------------------
(* One iteration of the loop.  A risk of 50 % stops it before the execution, *)
(* and a plan without findings completes it.                                 *)
Unresolved == {"pending", "in_progress", "blocked", "deferred"}
FindingsOf(family) == {f \in Findings : backlog[f].family = family}
PendingOf(family) == {f \in FindingsOf(family) : backlog[f].status \in Unresolved}
Risky(family) ==
  LET risk(f) == 25 * (IF backlog[f].severe THEN 1 ELSE 0)
                 + 15 * (IF f \in PendingOf(family) THEN 1 ELSE 0) + 5 * backlog[f].attempts
      rows == FindingsOf(family)
  IN rows # {} /\ MapThenSumSet(risk, rows) >= 50 * Cardinality(rows)
Unwritten == UNCHANGED <<episode, backlog, calls, work, verified, owner, overlapped, meddled>>
Predict(e) ==
  /\ InCall(e, "predict")
  /\ Continue(e, [engineer[e] EXCEPT !.pc = IF Risky(engineer[e].family) THEN "final" ELSE "plan"])
  /\ Unwritten
Plan(e) ==
  /\ InCall(e, "plan")
  /\ LET findings == PendingOf(engineer[e].family) IN
     Continue(e, IF findings = {} THEN [engineer[e] EXCEPT !.pc = "final", !.accepted = TRUE]
                 ELSE [engineer[e] EXCEPT !.pc = "load", !.todo = findings])
  /\ Unwritten
(* _execute_checkpointed: the row says "verifying" before the work begins.   *)
LoadCheckpoint(e) ==
  /\ InCall(e, "load")
  /\ Continue(e, [engineer[e] EXCEPT !.pc = "checkpoint", !.seen = episode.iteration]) /\ Unwritten
Checkpoint(e) ==
  /\ InCall(e, "checkpoint") /\ SaveEpisode(e, "verifying", engineer[e].seen + 1)
  /\ Continue(e, [engineer[e] EXCEPT !.pc = "execute"])
  /\ UNCHANGED <<backlog, calls, work, verified, owner, overlapped, meddled>>
Execute(e) ==
  /\ InCall(e, "execute") /\ Continue(e, [engineer[e] EXCEPT !.pc = "verify"])
  /\ work' = work \cup {[call |-> engineer[e].call, family |-> engineer[e].family,
                         round |-> engineer[e].round]}
  /\ UNCHANGED <<episode, backlog, calls, verified, owner, overlapped, meddled>>
VerifyWork(e, passed) ==
  /\ InCall(e, "verify") /\ verified' = IF passed THEN "passed" ELSE "failed"
  /\ Continue(e, [engineer[e] EXCEPT !.pc = "record", !.passed = passed])
  /\ UNCHANGED <<episode, backlog, calls, work, owner, overlapped, meddled>>
(* upsert of one planned finding, then of one the review has found; the row  *)
(* of a finding moves to the family of the call.                             *)
Upserted(e, f, status, severe) ==
  backlog' = [backlog EXCEPT ![f] = [@ EXCEPT !.status = status, !.severe = severe,
                                              !.family = engineer[e].family]]
RecordFinding(e, f) ==
  /\ InCall(e, "record") /\ f \in engineer[e].todo
  /\ Upserted(e, f, IF engineer[e].passed THEN "resolved" ELSE "pending", TRUE)
  /\ Continue(e, [engineer[e] EXCEPT !.todo = @ \ {f},
       !.pc = IF engineer[e].todo # {f} THEN "record"
              ELSE IF engineer[e].passed THEN "review" ELSE "learn"])
  /\ UNCHANGED <<episode, calls, work, verified, owner, overlapped, meddled>>
Reviewed(e, decision) ==
  Continue(e, [engineer[e] EXCEPT !.pc = IF decision = "accept" THEN "learn" ELSE "final"])
ReviewFinds(e, f, severe, decision) ==
  /\ InCall(e, "review") /\ Upserted(e, f, "pending", severe) /\ Reviewed(e, decision)
  /\ UNCHANGED <<episode, calls, work, verified, owner, overlapped, meddled>>
ReviewClean(e) == InCall(e, "review") /\ Reviewed(e, "accept") /\ Unwritten
(* learn, and promote or the next iteration.                                 *)
LearnWork(e, promoted) ==
  /\ InCall(e, "learn")
  /\ Continue(e, IF engineer[e].passed THEN [engineer[e] EXCEPT !.pc = "final", !.accepted = promoted]
                 ELSE IF engineer[e].round < MaxIterations
                 THEN [engineer[e] EXCEPT !.pc = "predict", !.round = @ + 1]
                 ELSE [engineer[e] EXCEPT !.pc = "final"])
  /\ Unwritten
-------------------------------------------------------------------------------
SaveReceipt(e) ==
  /\ InCall(e, "final") /\ Continue(e, Free)
  /\ SaveEpisode(e, IF engineer[e].accepted THEN "completed" ELSE "escalated",
          engineer[e].start + engineer[e].round)
  /\ UNCHANGED <<backlog, calls, work, verified, owner, overlapped, meddled>>
(* An exception in the loop: the row becomes "failed".                       *)
InLoop == {"predict", "plan", "load", "checkpoint", "execute", "verify", "record", "review", "learn"}
LoopRaises(e) ==
  /\ engineer[e].pc \in InLoop /\ Continue(e, [engineer[e] EXCEPT !.pc = "raised"]) /\ Unwritten
SaveFailed(e) ==
  /\ InCall(e, "raised") /\ SaveEpisode(e, "failed", episode.iteration) /\ Continue(e, Free)
  /\ UNCHANGED <<backlog, calls, work, verified, owner, overlapped, meddled>>
(* The process dies; or the evolution trigger raises, after the loop.        *)
EngineerDies(e) == engineer[e] # Free /\ Continue(e, Free) /\ Unwritten
(* Another episode or the operator changes the status of a finding.          *)
Meddle(f, status) ==
  /\ meddled < MaxMeddling /\ meddled' = meddled + 1
  /\ backlog[f].family # NoFamily /\ backlog' = [backlog EXCEPT ![f].status = status]
  /\ UNCHANGED <<episode, engineer, calls, work, verified, owner, overlapped>>

EpisodeNext ==
  \/ \E e \in Engineers :
       \/ \E family \in Families : BeginEpisode(e, family)
       \/ Escalate(e) \/ SaveRunning(e) \/ Predict(e) \/ Plan(e) \/ LoadCheckpoint(e) \/ Checkpoint(e)
       \/ Execute(e) \/ (\E passed \in BOOLEAN : VerifyWork(e, passed))
       \/ (\E f \in Findings : RecordFinding(e, f)) \/ ReviewClean(e)
       \/ \E f \in Findings, severe \in BOOLEAN, decision \in {"accept", "address", "stop"} :
            ReviewFinds(e, f, severe, decision)
       \/ (\E promoted \in BOOLEAN : LearnWork(e, promoted))
       \/ SaveReceipt(e) \/ LoopRaises(e) \/ SaveFailed(e) \/ EngineerDies(e)
  \/ \E f \in Findings, status \in {"pending", "resolved"} : Meddle(f, status)
EpisodeSpec == EpisodeInit /\ [][EpisodeNext]_episodeVars
-------------------------------------------------------------------------------
(* continuous_engineering_runtime.py:185, "Re-executing unknown work could   *)
(* risk duplicate mutation, so recovery is explicitly fail-closed": unless   *)
(* two calls overlap, all executions of an episode belong to one call, for   *)
(* the family it was first stored for, whatever crashes or is called again;  *)
(* the row counts them while they are unconfirmed; and an episode that       *)
(* executed completes only after a verification that passed (while nobody    *)
(* else settles its findings).                                               *)
EpisodeSound == ~overlapped =>
  /\ \A one, other \in work : one.call = other.call
  /\ \A execution \in work : execution.family = owner
  /\ episode.state = "running" => work = {}
  /\ episode.state = "verifying" => episode.iteration - Cardinality(work) \in {0, 1}
  /\ episode.state = "completed" /\ meddled = 0 /\ work # {} => verified = "passed"
===============================================================================
