------------------------------ MODULE Scheduler ------------------------------
(***************************************************************************)
(* The durable scheduler: portable/agent_capabilities.py (AutomationScheduler*)
(* with its claim/run ledger) under its facade automation_scheduler.py       *)
(* (monthly schedules).  Its transactions are not the methods: claim and     *)
(* finish first SELECT outside a transaction and then write, and a monthly   *)
(* schedule is advanced by a second write.  Every statement is a step here,  *)
(* and several processes, each with its own lock, interleave.                *)
(***************************************************************************)
EXTENDS Calendar, FiniteSets

CONSTANTS Ids,          \* schedule ids
          Procs,        \* processes that run what is due
          MaxAttempts,  \* max_attempts of every schedule
          Retry,        \* interval_seconds (retry_interval_seconds of a monthly one)
          Moments,      \* bound of the clock: the instants at which something happens
          MaxCrashes,   \* bound of the runs that end without finish
          MaxDisables   \* bound of the disable_task calls
ASSUME SchedulerAssumption ==
  /\ MaxAttempts \in Nat \ {0} /\ Retry \in Nat \ {0}
  /\ Moments \subseteq Nat /\ MaxCrashes \in Nat /\ MaxDisables \in Nat
  /\ IsFiniteSet(Procs)

VARIABLES now,        \* the clock
          schedule,   \* the table schedules
          issued,     \* claims handed out per schedule
          runs,       \* the table runs: how many per schedule, and the last status
          proc,       \* local state of the processes
          crashes, disables
schedulerVars == <<now, schedule, issued, runs, proc, crashes, disables>>

Statuses == {"success", "retryable", "failed", "cancelled"}
Absent == [kind |-> "absent", enabled |-> FALSE, next_run |-> 0, attempts |-> 0, claim |-> 0]
Schedule == [kind : {"interval", "calendar"}, enabled : BOOLEAN, next_run : Nat,
             attempts : 0..MaxAttempts, claim : Nat]
Idle == [pc |-> "idle", id |-> "none", claim |-> 0, status |-> "none", attempts |-> 0, at |-> 0]

InitWith(table) ==
        /\ now \in Moments
        /\ schedule = table
        /\ issued = [i \in Ids |-> 0]
        /\ runs = [i \in Ids |-> [n |-> 0, last |-> "none"]]
        /\ proc = [p \in Procs |-> Idle]
        /\ crashes = 0 /\ disables = 0
Init == InitWith([i \in Ids |-> Absent])
-------------------------------------------------------------------------------
(* add, add_last_day_of_month *)
New(kind, start) == [kind |-> kind, enabled |-> TRUE, next_run |-> start,
                     attempts |-> 0, claim |-> 0]
Add(i, kind) ==
  /\ schedule[i] = Absent
  /\ schedule' = [schedule EXCEPT ![i] =
                    New(kind, IF kind = "calendar" THEN LastDay(now) ELSE now)]
  /\ UNCHANGED <<now, issued, runs, proc, crashes, disables>>

(* claim, the SELECT: is the schedule free, due and within its budget?       *)
Claimable(s) == /\ s.enabled /\ s.claim = 0
                /\ s.next_run <= now /\ s.attempts < MaxAttempts
ClaimRead(p, i) ==
  /\ schedule[i].kind # "absent"
  /\ Claimable(schedule[i])
  /\ proc' = [proc EXCEPT ![p] = [Idle EXCEPT !.pc = "claim", !.id = i]]
  /\ UNCHANGED <<now, schedule, issued, runs, crashes, disables>>

(* claim, the UPDATE: only `claim IS NULL AND enabled=1` is looked at again. *)
BugUpdates(s) == s.enabled                            \* mutant: no `claim IS NULL`
Updates(s) == s.enabled /\ s.claim = 0
ClaimWrite(p) ==
  /\ proc[p].pc = "claim"
  /\ LET i == proc[p].id IN
     IF Updates(schedule[i])
       THEN /\ issued' = [issued EXCEPT ![i] = @ + 1]
            /\ schedule' = [schedule EXCEPT ![i].attempts = @ + 1,
                                            ![i].claim = issued'[i]]
            /\ proc' = [proc EXCEPT ![p].pc = "run", ![p].claim = issued'[i]]
       ELSE /\ proc' = [proc EXCEPT ![p] = Idle]
            /\ UNCHANGED <<issued, schedule>>
  /\ UNCHANGED <<now, runs, crashes, disables>>

(* The task itself.                                                          *)
Run(p, status) ==
  /\ proc[p].pc = "run"
  /\ proc' = [proc EXCEPT ![p].pc = "finish", ![p].status = status]
  /\ UNCHANGED <<now, schedule, issued, runs, crashes, disables>>

(* finish, the SELECT: KeyError unless the claim is the recorded one.        *)
BugFinishRead(p) ==    \* mutant: id and claim swapped, so the row is never found
  /\ proc[p].pc = "finish"
  /\ proc' = [proc EXCEPT ![p] = Idle]
  /\ UNCHANGED <<now, schedule, issued, runs, crashes, disables>>
FinishRead(p) ==
  /\ proc[p].pc = "finish"
  /\ LET s == schedule[proc[p].id] IN
     proc' = [proc EXCEPT ![p] = IF s.claim = @.claim
                THEN [@ EXCEPT !.pc = "write", !.attempts = s.attempts, !.at = now]
                ELSE Idle]
  /\ UNCHANGED <<now, schedule, issued, runs, crashes, disables>>

(* finish, the UPDATE by id and the INSERT into runs (one transaction).      *)
BugEnabledAfter(status, attempts) == status \in {"success", "retryable"}
                                             \* mutant: the exhausted case forgotten
EnabledAfter(status, attempts) ==
  status = "success" \/ (status = "retryable" /\ attempts < MaxAttempts)
FinishWrite(p) ==
  /\ proc[p].pc = "write"
  /\ LET q == proc[p]  i == q.id IN
     /\ schedule' = [schedule EXCEPT ![i] =
          [@ EXCEPT !.claim = 0, !.enabled = EnabledAfter(q.status, q.attempts),
                    !.next_run = q.at + Retry,
                    !.attempts = IF q.status = "success" THEN 0 ELSE q.attempts]]
     /\ runs' = [runs EXCEPT ![i] = [n |-> @.n + 1, last |-> q.status]]
     /\ proc' = [proc EXCEPT ![p] =
          IF q.status = "success" /\ schedule[i].kind = "calendar"
            THEN [q EXCEPT !.pc = "advance"] ELSE Idle]
  /\ UNCHANGED <<now, issued, crashes, disables>>

(* finish_calendar: the second UPDATE, by id.                                *)
BugAdvance(p) ==    \* mutant: advances by 31 days, to the same day of a month
  /\ proc[p].pc = "advance"
  /\ schedule' = [schedule EXCEPT ![proc[p].id] =
       [@ EXCEPT !.next_run = proc[p].at + 93, !.enabled = TRUE, !.attempts = 0]]
  /\ proc' = [proc EXCEPT ![p] = Idle]
  /\ UNCHANGED <<now, issued, runs, crashes, disables>>
Advance(p) ==
  /\ proc[p].pc = "advance"
  /\ schedule' = [schedule EXCEPT ![proc[p].id] =
       [@ EXCEPT !.next_run = LastDay(proc[p].at), !.enabled = TRUE, !.attempts = 0]]
  /\ proc' = [proc EXCEPT ![p] = Idle]
  /\ UNCHANGED <<now, issued, runs, crashes, disables>>

(* disable_task of the schedule's own task, by whoever.                      *)
Disable(i) ==
  /\ schedule[i].kind # "absent" /\ disables < MaxDisables
  /\ disables' = disables + 1
  /\ schedule' = [schedule EXCEPT ![i].enabled = FALSE, ![i].claim = 0]
  /\ UNCHANGED <<now, issued, runs, proc, crashes>>

(* The process dies, or something between claim and finish raises.           *)
Crash(p) ==
  /\ proc[p].pc # "idle" /\ crashes < MaxCrashes
  /\ crashes' = crashes + 1
  /\ proc' = [proc EXCEPT ![p] = Idle]
  /\ UNCHANGED <<now, schedule, issued, runs, disables>>

Tick == /\ \E t \in Moments : t > now /\ now' = t
        /\ UNCHANGED <<schedule, issued, runs, proc, crashes, disables>>

Step(p) == ClaimWrite(p) \/ (\E status \in Statuses : Run(p, status)) \/ FinishRead(p)
           \/ FinishWrite(p) \/ Advance(p)
Next == \/ \E i \in Ids : Disable(i) \/ \E kind \in {"interval", "calendar"} : Add(i, kind)
        \/ \E p \in Procs : \/ proc[p].pc = "idle" /\ \E i \in Ids : ClaimRead(p, i)
                            \/ Step(p)
                            \/ Crash(p)
        \/ Tick
Spec == Init /\ [][Next]_schedulerVars
-------------------------------------------------------------------------------
(* Types of the tables and of the local states.                              *)
TypeOK == /\ now \in Moments
          /\ schedule \in [Ids -> Schedule \cup {Absent}]
          /\ issued \in [Ids -> Nat]
          /\ runs \in [Ids -> [n : Nat, last : Statuses \cup {"none"}]]
          /\ \A p \in Procs : proc[p].pc # "idle" => schedule[proc[p].id] # Absent

Running(p, i) == proc[p].pc \in {"run", "finish", "write"} /\ proc[p].id = i

(* .ai-harness/HERMES_CAPABILITY_CONTRACT.md:28, "claim-before-run": two     *)
(* processes never run one schedule at the same time, crashes and stale      *)
(* reads included, as long as disable_task is not called: it drops the claim *)
(* of a run under way, and finish_calendar may then enable the schedule.     *)
SingleRunner == disables = 0 => \A p, q \in Procs, i \in Ids :
  Running(p, i) /\ Running(q, i) => p = q

(* "bounded retry count": a schedule that is enabled and free has an attempt *)
(* left, so it is never due for ever and refused for ever.                   *)
EnabledCanRun == \A i \in Ids :
  schedule[i].enabled /\ schedule[i].claim = 0 => schedule[i].attempts < MaxAttempts

(* "records run outcomes": as long as disable_task is not called, a claim     *)
(* ends in one row of the ledger, or its run is under way, or its process    *)
(* died: no result is refused by finish, and no row is written twice.  And a *)
(* claim in the table is the one of a run under way, or the one a death left *)
(* behind, which nothing ends.                                               *)
NoRunLost == disables = 0 => \A i \in Ids :
  LET known == runs[i].n + Cardinality({p \in Procs : Running(p, i)}) IN
  /\ known <= issued[i] /\ issued[i] <= known + crashes
  /\ \/ schedule[i].claim = 0 \/ crashes > 0
     \/ \E p \in Procs : Running(p, i) /\ proc[p].claim = schedule[i].claim

(* automation_scheduler.py:172, "advance a monthly schedule only after       *)
(* success": when the last run succeeded and nobody is between the two       *)
(* writes, or has died there, a free monthly schedule waits for the last day *)
(* of a month.                                                               *)
MonthlyAfterSuccess == crashes = 0 => \A i \in Ids :
  (/\ schedule[i].kind = "calendar" /\ schedule[i].claim = 0
   /\ runs[i].last = "success"
   /\ \A p \in Procs : ~(proc[p].pc = "advance" /\ proc[p].id = i))
  => MonthEnd(schedule[i].next_run)

(* No month is skipped and none is served twice: the second write of a       *)
(* successful run moves the schedule to the first last day of a month after  *)
(* the end of the run, whatever the lengths of the months and the year.      *)
NoMonthSkipped == [][\A p \in Procs :
  (proc[p].pc = "advance" /\ proc'[p].pc = "idle" /\ crashes' = crashes)
    => LET next == schedule'[proc[p].id].next_run IN
       /\ next > proc[p].at /\ MonthEnd(next)
       /\ \A t \in (proc[p].at + 1)..(next - 1) : ~MonthEnd(t)]_schedulerVars
===============================================================================
