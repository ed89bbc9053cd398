-------------------------- MODULE LearningMaintenance --------------------------
(***************************************************************************)
(* The maintenance lane on top of the scheduler.  Every poll of a           *)
(* MaintenanceService process asks AutomationScheduler.find_task for the     *)
(* learning schedule of the project (which migrates or creates it), claims   *)
(* exactly the schedule it was handed, runs it and finishes it.  The legacy  *)
(* schedule is an "interval" one whose task is the learning task itself; the *)
(* "calendar" ones wrap that task.                                           *)
(***************************************************************************)
EXTENDS Scheduler, FiniteSetsExt

CONSTANTS Legacy,    \* the id of the legacy schedule
          Installed  \* whether an earlier release has created it
ASSUME MaintenanceAssumption ==
  Ids \subseteq Nat /\ Legacy \in Ids /\ Installed \in BOOLEAN

MaintenanceInit ==
  InitWith([i \in Ids |-> IF i = Legacy /\ Installed THEN New("interval", 0) ELSE Absent])

LegacyRow == schedule[Legacy].kind = "interval"
MonthlyRows == {i \in Ids : schedule[i].kind = "calendar" /\ schedule[i].enabled}
-------------------------------------------------------------------------------
At(p, pc) == proc[p].pc = pc
Move(p, pc) == /\ proc' = [proc EXCEPT ![p].pc = pc]
               /\ UNCHANGED <<now, schedule, issued, runs, crashes, disables>>
Handed(p, i) == proc' = [proc EXCEPT ![p] = [Idle EXCEPT !.pc = "tick", !.id = i]]

(* find_task, the SELECTs.  The monthly schedules are looked at only when a  *)
(* row with the bare task exists: without one a schedule is always added.    *)
BugFindOnce(p) ==    \* mutant: what failures have exhausted is not replaced
  /\ At(p, "idle")
  /\ \/ /\ LegacyRow /\ MonthlyRows # {}
        /\ Handed(p, Min(MonthlyRows))
        /\ UNCHANGED <<now, schedule, issued, runs, crashes, disables>>
     \/ /\ LegacyRow /\ MonthlyRows = {} /\ schedule[Legacy].enabled
        /\ Move(p, "migrate")
Find(p) ==
  /\ At(p, "idle")
  /\ \/ /\ LegacyRow /\ MonthlyRows # {}
        /\ Handed(p, Min(MonthlyRows))                        \* ORDER BY id
        /\ UNCHANGED <<now, schedule, issued, runs, crashes, disables>>
     \/ /\ LegacyRow /\ MonthlyRows = {} /\ schedule[Legacy].enabled
        /\ Move(p, "migrate")
     \/ /\ LegacyRow => MonthlyRows = {} /\ ~schedule[Legacy].enabled
        /\ Move(p, "add")

(* find_task, the UPDATE of the legacy schedule, committed on its own ...    *)
Migrate(p) ==
  /\ At(p, "migrate")
  /\ schedule' = [schedule EXCEPT ![Legacy].enabled = FALSE, ![Legacy].claim = 0]
  /\ proc' = [proc EXCEPT ![p].pc = "add"]
  /\ UNCHANGED <<now, issued, runs, crashes, disables>>

(* ... and the INSERT of the monthly one, under a new random id.             *)
AddMonthly(p, i) ==
  /\ At(p, "add")
  /\ schedule[i] = Absent /\ i # Legacy
  /\ schedule' = [schedule EXCEPT ![i] = New("calendar", LastDay(now))]
  /\ Handed(p, i)
  /\ UNCHANGED <<now, issued, runs, crashes, disables>>

(* maintenance_tick: claim the schedule that was handed out, or do nothing.  *)
TickClaim(p) ==
  /\ At(p, "tick")
  /\ IF Claimable(schedule[proc[p].id])
       THEN ClaimRead(p, proc[p].id)
       ELSE /\ proc' = [proc EXCEPT ![p] = Idle]
            /\ UNCHANGED <<now, schedule, issued, runs, crashes, disables>>

Poll(p) == \/ Find(p) \/ Migrate(p) \/ (\E i \in Ids : AddMonthly(p, i)) \/ TickClaim(p)
           \/ ClaimWrite(p) \/ (\E status \in {"success", "retryable"} : Run(p, status))
           \/ FinishRead(p) \/ FinishWrite(p) \/ Advance(p)
MaintenanceNext == Tick \/ \E p \in Procs : Poll(p) \/ Crash(p)

(* MaintenanceService.loop polls for ever, whatever a poll raises.           *)
Fairness == WF_schedulerVars(Tick) /\ \A p \in Procs : WF_schedulerVars(Poll(p))
MaintenanceSpec == MaintenanceInit /\ [][MaintenanceNext]_schedulerVars /\ Fairness
-------------------------------------------------------------------------------
(* adaptive_runtime.py:122, "Create the project learning schedule once": at  *)
(* most one enabled schedule carries the learning task.                      *)
RegisteredOnce == Cardinality(MonthlyRows) <= 1

(* Once migrated, the legacy five-minute schedule is never run again.        *)
LegacyRetired == MonthlyRows # {} =>
  ~schedule[Legacy].enabled /\ schedule[Legacy].claim = 0
(* README.md:286, "remains retryable [...] instead of being silently         *)
(* discarded": when failures have exhausted a schedule, a new one replaces   *)
(* it, so the project is registered again and again, in the place of the     *)
(* legacy schedule; and a monthly schedule that is free and whose day lies   *)
(* within the modelled time is claimed, unless it is retired or moved on.    *)
ComesDue(i) == \E t \in Moments : schedule[i].next_run <= t
MaintenanceRuns ==
  /\ []LegacyRetired /\ []<>(MonthlyRows # {})
  /\ \A i \in Ids :
       (i \in MonthlyRows /\ schedule[i].claim = 0 /\ ComesDue(i))
         ~> (schedule[i].claim # 0 \/ i \notin MonthlyRows \/ ~ComesDue(i))

(* README.md:164, "releases the durable scheduler claim": a claim ends,      *)
(* unless its holder has died: no lease ends it and nobody takes it over.    *)
ClaimsReleased == \A i \in Ids :
  schedule[i].claim # 0 ~> (schedule[i].claim = 0 \/ crashes > 0)
===============================================================================
