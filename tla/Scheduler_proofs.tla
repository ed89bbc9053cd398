--------------------------- MODULE Scheduler_proofs ---------------------------
(***************************************************************************)
(* The safety of the scheduler's claim ledger for any schedules, processes, *)
(* budgets and clock.  Sound is the inductive invariant: the types of the   *)
(* tables and of what a process holds between two statements, and           *)
(* EnabledCanRun, without which the unguarded UPDATE of claim could push a  *)
(* schedule past its budget.  Exclusion adds, for executions in which       *)
(* disable_task is not called, that the schedule of a running task carries  *)
(* a claim; Books, that a running process holds the claim of the table, and  *)
(* how claims, runs, rows and deaths add up.  NextMonthEnd is the calendar.  *)
(* RetiredInv is about the maintenance lane on top of it, which finds,       *)
(* migrates or creates the schedule it claims.                               *)
(***************************************************************************)
EXTENDS LearningMaintenance, FiniteSetTheorems, WellFoundedInduction, TLAPS

(* The numbering of the instants is taken apart the way it is put together.  *)
LEMMA DateOf ==
  ASSUME NEW y \in Nat, NEW m \in 1..12, NEW d \in 1..31, NEW p \in 0..2
  PROVE  /\ Moment(y, m, d, p) \in Nat
         /\ Moment(y, m, d, p) = (y * 12 + m - 1) * 93 + (d - 1) * 3 + p
         /\ Year(Moment(y, m, d, p)) = y /\ Month(Moment(y, m, d, p)) = m
         /\ Day(Moment(y, m, d, p)) = d /\ Part(Moment(y, m, d, p)) = p
<1> PICK k \in Nat : k = y * 12 + m - 1
  OBVIOUS
<1> PICK t : t = Moment(y, m, d, p)
  OBVIOUS
<1>1. t \in Nat /\ t = (k * 31 + d - 1) * 3 + p
  BY DEF Moment
<1>2. t \div 3 = k * 31 + d - 1 /\ t % 3 = p
  BY <1>1
<1>3. t \div 93 = k /\ (t \div 3) % 31 = d - 1
  BY <1>1, <1>2
<1>4. k \div 12 = y /\ k % 12 = m - 1
  OBVIOUS
<1> QED
  BY <1>1, <1>2, <1>3, <1>4 DEF Year, Month, Day, Part

(* Every instant is one of a year, a month, a day and a part of the day.     *)
LEMMA Dates ==
  ASSUME NEW t \in Nat
  PROVE  /\ Year(t) \in Nat /\ Month(t) \in 1..12 /\ Day(t) \in 1..31 /\ Part(t) \in 0..2
         /\ t = Moment(Year(t), Month(t), Day(t), Part(t))
<1>1. PICK a \in Nat, p \in 0..2 : t = a * 3 + p /\ a = t \div 3 /\ p = t % 3
  <2>1. t \div 3 \in Nat /\ t % 3 \in 0..2 /\ t = (t \div 3) * 3 + (t % 3)
    OBVIOUS
  <2> QED
    BY <2>1
<1>2. PICK b \in Nat, d \in 0..30 : a = b * 31 + d /\ d = a % 31
  <2>1. a \div 31 \in Nat /\ a % 31 \in 0..30 /\ a = (a \div 31) * 31 + (a % 31)
    BY <1>1
  <2> QED
    BY <2>1
<1>3. PICK y \in Nat, m \in 0..11 : b = y * 12 + m /\ y = b \div 12 /\ m = b % 12
  <2>1. b \div 12 \in Nat /\ b % 12 \in 0..11 /\ b = (b \div 12) * 12 + (b % 12)
    BY <1>2
  <2> QED
    BY <2>1
<1>4. t \div 93 = b
  <2>1. PICK r \in 0..92 : t = b * 93 + r
    <3>1. d * 3 + p \in 0..92 /\ t = b * 93 + (d * 3 + p)
      BY <1>1, <1>2
    <3> QED
      BY <3>1
  <2> QED
    BY <1>2, <2>1
<1>5. Year(t) = y /\ Month(t) = m + 1 /\ Day(t) = d + 1 /\ Part(t) = p
  BY <1>1, <1>2, <1>3, <1>4 DEF Year, Month, Day, Part
<1>6. t = Moment(y, m + 1, d + 1, p)
  BY <1>1, <1>2, <1>3 DEF Moment
<1>7. y \in Nat /\ m + 1 \in 1..12 /\ d + 1 \in 1..31 /\ p \in 0..2
  BY <1>1, <1>2, <1>3
<1>8. PICK n, e : n = m + 1 /\ e = d + 1
  OBVIOUS
<1>9. Moment(y, n, e, p) = Moment(Year(t), Month(t), Day(t), Part(t))
  BY <1>5, <1>8
<1> QED
  BY <1>5, <1>6, <1>7, <1>8, <1>9

(* The last day of a month, at the schedule's time, lies in that month.      *)
LEMMA LastOfIs ==
  ASSUME NEW y \in Nat, NEW m \in 1..12
  PROVE  /\ LastOf(y, m) \in Nat /\ MonthEnd(LastOf(y, m))
         /\ Year(LastOf(y, m)) = y /\ Month(LastOf(y, m)) = m
         /\ (y * 12 + m - 1) * 93 < LastOf(y, m)
         /\ LastOf(y, m) < (y * 12 + m) * 93
<1>1. PICK n \in 28..31 : n = MonthRange(y, m)
  <2>1. PICK leap \in BOOLEAN : leap = Leap(y)
    BY DEF Leap
  <2>2. MonthRange(y, m) \in 28..31
    BY <2>1 DEF MonthRange
  <2> QED
    BY <2>2
<1>2. LastOf(y, m) = Moment(y, m, n, 1) /\ 1 \in 0..2 /\ n \in 1..31
  BY <1>1 DEF LastOf, OnTime
<1>3. /\ Moment(y, m, n, 1) \in Nat
      /\ Moment(y, m, n, 1) = (y * 12 + m - 1) * 93 + (n - 1) * 3 + 1
      /\ Year(Moment(y, m, n, 1)) = y /\ Month(Moment(y, m, n, 1)) = m
      /\ Day(Moment(y, m, n, 1)) = n /\ Part(Moment(y, m, n, 1)) = 1
  BY <1>2, DateOf
<1>4. MonthEnd(LastOf(y, m))
  BY <1>1, <1>2, <1>3 DEF MonthEnd, OnTime
<1> QED
  BY <1>2, <1>3, <1>4

(* last_day_datetime, for every instant and over every change of the year:    *)
(* what it returns is the schedule's time on the last day of a month, lies    *)
(* after the instant, and is the first of that kind, so an instant exactly on *)
(* a last day gives that of the next month and no month is left out.          *)
THEOREM NextMonthEnd ==
  ASSUME NEW t \in Nat
  PROVE  /\ LastDay(t) \in Nat /\ LastDay(t) > t /\ MonthEnd(LastDay(t))
         /\ \A x \in Nat : t < x /\ x < LastDay(t) => ~MonthEnd(x)
<1> DEFINE No(y, m) == y * 12 + m
<1>1. ASSUME NEW x \in Nat
      PROVE  /\ Year(x) \in Nat /\ Month(x) \in 1..12
             /\ (No(Year(x), Month(x)) - 1) * 93 <= x /\ x < No(Year(x), Month(x)) * 93
  <2> PICK y, m, d, p : y = Year(x) /\ m = Month(x) /\ d = Day(x) /\ p = Part(x)
    OBVIOUS
  <2>1. y \in Nat /\ m \in 1..12 /\ d \in 1..31 /\ p \in 0..2 /\ x = Moment(y, m, d, p)
    BY Dates
  <2>2. Moment(y, m, d, p) = (y * 12 + m - 1) * 93 + (d - 1) * 3 + p
    BY <2>1 DEF Moment
  <2> QED
    BY <2>1, <2>2
<1>2. ASSUME NEW x \in Nat, MonthEnd(x)
      PROVE  x = LastOf(Year(x), Month(x))
  BY <1>2, Dates DEF MonthEnd, LastOf
<1>3. PICK y \in Nat, m \in 1..12 : y = Year(t) /\ m = Month(t)
  BY <1>1
<1>4. PICK z \in Nat, k \in 1..12 :
        /\ LastDay(t) = LastOf(z, k)
        /\ \/ z = y /\ k = m /\ LastOf(y, m) > t
           \/ No(z, k) = No(y, m) + 1 /\ ~(LastOf(y, m) > t)
  <2>1. CASE LastOf(y, m) > t
    BY <1>3, <2>1 DEF LastDay
  <2>2. CASE ~(LastOf(y, m) > t) /\ m = 12
    <3>1. LastDay(t) = LastOf(y + 1, 1) /\ y + 1 \in Nat /\ No(y + 1, 1) = No(y, m) + 1
      BY <1>3, <2>2 DEF LastDay
    <3> QED
      BY <2>2, <3>1
  <2>3. CASE ~(LastOf(y, m) > t) /\ m # 12
    <3>1. LastDay(t) = LastOf(y, m + 1) /\ m + 1 \in 1..12 /\ No(y, m + 1) = No(y, m) + 1
      BY <1>3, <2>3 DEF LastDay
    <3> QED
      BY <2>3, <3>1
  <2> QED
    BY <2>1, <2>2, <2>3
<1>5. PICK n \in Nat : n = LastDay(t) /\ n = LastOf(z, k)
  BY <1>4, LastOfIs
<1>6. /\ (No(z, k) - 1) * 93 < n /\ n < No(z, k) * 93
      /\ (No(y, m) - 1) * 93 <= t /\ t < No(y, m) * 93
  <2>1. (z * 12 + k - 1) * 93 < n /\ n < (z * 12 + k) * 93
    <3>1. z \in Nat /\ k \in 1..12
      BY <1>4
    <3>2. (z * 12 + k - 1) * 93 < LastOf(z, k) /\ LastOf(z, k) < (z * 12 + k) * 93
      BY <3>1, LastOfIs
    <3> QED
      BY <1>5, <3>2
  <2>2. (No(Year(t), Month(t)) - 1) * 93 <= t /\ t < No(Year(t), Month(t)) * 93
    BY <1>1
  <2> QED
    BY <1>3, <2>1, <2>2
<1>7. n > t
  BY <1>4, <1>5, <1>6
<1>8. ASSUME NEW x \in Nat, t < x, x < n, MonthEnd(x)
      PROVE  FALSE
  <2>1. PICK u \in Nat, w \in 1..12 : u = Year(x) /\ w = Month(x)
    BY <1>1
  <2>2. (No(u, w) - 1) * 93 <= x /\ x < No(u, w) * 93 /\ x = LastOf(u, w)
    BY <1>1, <1>2, <1>8, <2>1
  <2>3. No(u, w) = No(y, m) \/ No(u, w) = No(z, k)
    BY <1>4, <1>6, <1>8, <2>2
  <2>4. (u = y /\ w = m) \/ (u = z /\ w = k)
    BY <2>3
  <2> QED
    BY <1>4, <1>5, <1>8, <2>2, <2>4
<1>9. MonthEnd(n)
  BY <1>5, LastOfIs
<1> QED
  BY <1>5, <1>7, <1>8, <1>9
-------------------------------------------------------------------------------
Local == [pc : {"idle", "claim", "run", "finish", "write", "advance"},
          id : Ids \cup {"none"}, claim : Nat, status : Statuses \cup {"none"},
          attempts : 0..MaxAttempts, at : Nat]
Sound == /\ TypeOK /\ EnabledCanRun
         /\ disables \in Nat
         /\ proc \in [Procs -> Local]
         /\ \A p \in Procs : proc[p].pc # "idle" => proc[p].id \in Ids

(* No schedule is stored and no process at work.                            *)
LEMMA InitSound == Init => Sound
BY SchedulerAssumption
   DEF Init, InitWith, Sound, TypeOK, EnabledCanRun, Local, Idle, Absent, Schedule, Statuses

(* add inserts a typed row that may run.                                     *)
LEMMA AddSound ==
  ASSUME Sound, NEW i \in Ids, NEW kind \in {"interval", "calendar"}, Add(i, kind)
  PROVE  Sound'
<1>1. now \in Nat /\ LastDay(now) \in Nat
  BY NextMonthEnd, SchedulerAssumption DEF Sound, TypeOK
<1> DEFINE new == New(kind, IF kind = "calendar" THEN LastDay(now) ELSE now)
<1>2. /\ new \in Schedule /\ new.kind # "absent" /\ new.attempts = 0
  BY <1>1, SchedulerAssumption DEF New, Schedule
<1> HIDE DEF new
<1>3. schedule' = [schedule EXCEPT ![i] = new]
      /\ UNCHANGED <<now, issued, runs, proc, disables>>
  BY DEF Add, new
<1>4. TypeOK'
  BY <1>2, <1>3 DEF Sound, TypeOK, Absent
<1>5. EnabledCanRun'
  BY <1>2, <1>3, SchedulerAssumption DEF Sound, TypeOK, EnabledCanRun
<1> QED
  BY <1>3, <1>4, <1>5 DEF Sound

(* Steps that only move a process on: what it keeps stays typed and points   *)
(* to an existing schedule.                                                  *)
LEMMA MoveSound ==
  ASSUME Sound, NEW p \in Procs, NEW q \in Local,
         q.pc # "idle" => q.id \in Ids /\ schedule[q.id] # Absent,
         proc' = [proc EXCEPT ![p] = q],
         UNCHANGED <<now, schedule, issued, runs, disables>>
  PROVE  Sound'
BY DEF Sound, TypeOK, EnabledCanRun

(* What a process holds that is between two calls.                          *)
LEMMA IdleIsLocal == Idle \in Local /\ Idle.pc = "idle"
BY SchedulerAssumption DEF Idle, Local

(* The SELECT of claim writes nothing.                                      *)
LEMMA ClaimReadSound ==
  ASSUME Sound, NEW p \in Procs, NEW i \in Ids, ClaimRead(p, i)
  PROVE  Sound'
<1> DEFINE q == [Idle EXCEPT !.pc = "claim", !.id = i]
<1>1. q \in Local /\ q.id = i
  BY IdleIsLocal DEF Local
<1>2. schedule[i] # Absent
  BY DEF ClaimRead, Absent
<1>3. proc' = [proc EXCEPT ![p] = q] /\ UNCHANGED <<now, schedule, issued, runs, disables>>
  BY DEF ClaimRead
<1> HIDE DEF q
<1> QED
  BY <1>1, <1>2, <1>3, MoveSound

(* The UPDATE of claim stays within the budget because an enabled, free      *)
(* schedule has an attempt left (EnabledCanRun).                             *)
LEMMA ClaimWriteSound ==
  ASSUME Sound, NEW p \in Procs, ClaimWrite(p)
  PROVE  Sound'
<1> DEFINE i == proc[p].id
<1>1. i \in Ids /\ proc[p] \in Local /\ schedule[i] # Absent
  BY DEF ClaimWrite, Sound, TypeOK
<1>2. CASE Updates(schedule[i])
  <2> DEFINE c == issued[i] + 1
             new == [schedule[i] EXCEPT !.attempts = @ + 1, !.claim = c]
             q == [proc[p] EXCEPT !.pc = "run", !.claim = c]
  <2>1. /\ schedule[i] \in Schedule /\ c \in Nat /\ c # 0
        /\ schedule[i].attempts + 1 \in 0..MaxAttempts
    BY <1>1, <1>2, SchedulerAssumption DEF Updates, Sound, TypeOK, EnabledCanRun, Schedule
  <2>2. /\ new \in Schedule /\ new.claim = c
    BY <2>1 DEF Schedule
  <2>3. q \in Local /\ q.id = i
    BY <1>1, <2>1 DEF Local
  <2>4. /\ schedule' = [schedule EXCEPT ![i] = new]
        /\ issued' = [issued EXCEPT ![i] = c]
        /\ proc' = [proc EXCEPT ![p] = q]
        /\ UNCHANGED <<now, runs, disables>>
    BY <1>1, <1>2 DEF ClaimWrite, Sound, TypeOK
  <2> HIDE DEF new, q, c
  <2>5. new # Absent
    BY <2>2 DEF Schedule, Absent
  <2>6. TypeOK'
    BY <1>1, <2>1, <2>2, <2>3, <2>4, <2>5 DEF Sound, TypeOK
  <2>7. EnabledCanRun'
    BY <1>1, <2>1, <2>2, <2>4 DEF Sound, TypeOK, EnabledCanRun
  <2> QED
    BY <1>1, <2>3, <2>4, <2>6, <2>7 DEF Sound
<1>3. CASE ~Updates(schedule[i])
  <2>1. proc' = [proc EXCEPT ![p] = Idle] /\ UNCHANGED <<now, schedule, issued, runs, disables>>
    BY <1>3 DEF ClaimWrite
  <2> QED
    BY <2>1, IdleIsLocal, MoveSound
<1> QED
  BY <1>2, <1>3

(* Running the task writes nothing.                                         *)
LEMMA RunSound ==
  ASSUME Sound, NEW p \in Procs, NEW status \in Statuses, Run(p, status)
  PROVE  Sound'
<1> DEFINE q == [proc[p] EXCEPT !.pc = "finish", !.status = status]
<1>1. q \in Local /\ q.id = proc[p].id
  BY DEF Sound, Local
<1>2. proc[p].id \in Ids /\ schedule[proc[p].id] # Absent
  BY DEF Run, Sound, TypeOK
<1>3. proc' = [proc EXCEPT ![p] = q] /\ UNCHANGED <<now, schedule, issued, runs, disables>>
  BY DEF Run, Sound
<1> HIDE DEF q
<1> QED
  BY <1>1, <1>2, <1>3, MoveSound

(* Reading the claimed row writes nothing; what is read may be out of date  *)
(* when it is used.                                                         *)
LEMMA FinishReadSound ==
  ASSUME Sound, NEW p \in Procs, FinishRead(p)
  PROVE  Sound'
<1> DEFINE s == schedule[proc[p].id]
           q == IF s.claim = proc[p].claim
                THEN [proc[p] EXCEPT !.pc = "write", !.attempts = s.attempts, !.at = now]
                ELSE Idle
<1>1. proc[p] \in Local /\ proc[p].id \in Ids /\ s # Absent
  BY DEF FinishRead, Sound, TypeOK
<1>2. s.attempts \in 0..MaxAttempts /\ now \in Nat
  BY <1>1, SchedulerAssumption DEF Sound, TypeOK, Schedule
<1>3. q \in Local /\ (q.pc # "idle" => q.id = proc[p].id)
  BY <1>1, <1>2, IdleIsLocal DEF Local
<1>4. proc' = [proc EXCEPT ![p] = q] /\ UNCHANGED <<now, schedule, issued, runs, disables>>
  BY DEF FinishRead, Sound
<1> HIDE DEF q
<1> QED
  BY <1>1, <1>3, <1>4, MoveSound

(* finish leaves a schedule enabled only with an attempt left.               *)
LEMMA FinishWriteSound ==
  ASSUME Sound, NEW p \in Procs, FinishWrite(p)
  PROVE  Sound'
<1> DEFINE q == proc[p]
           i == q.id
           left == IF q.status = "success" THEN 0 ELSE q.attempts
           new == [schedule[i] EXCEPT !.claim = 0, !.enabled = EnabledAfter(q.status, q.attempts),
                                      !.next_run = q.at + Retry, !.attempts = left]
           row == [n |-> runs[i].n + 1, last |-> q.status]
           r == IF q.status = "success" /\ schedule[i].kind = "calendar"
                THEN [q EXCEPT !.pc = "advance"] ELSE Idle
<1>1. /\ i \in Ids /\ q \in Local /\ schedule[i] # Absent /\ schedule[i] \in Schedule
  BY DEF FinishWrite, Sound, TypeOK
<1>2. /\ left \in 0..MaxAttempts /\ q.at + Retry \in Nat
      /\ EnabledAfter(q.status, q.attempts) \in BOOLEAN
      /\ EnabledAfter(q.status, q.attempts) => left < MaxAttempts
  BY <1>1, SchedulerAssumption DEF Local, EnabledAfter
<1> HIDE DEF left
<1>3. new \in Schedule /\ (new.enabled => new.attempts < MaxAttempts)
  BY <1>1, <1>2 DEF Schedule
<1>4. row \in [n : Nat, last : Statuses \cup {"none"}]
  BY <1>1 DEF Sound, TypeOK, Local
<1>5. r \in Local /\ (r.pc # "idle" => r.id = i)
  BY <1>1, IdleIsLocal DEF Local
<1>6. /\ schedule' = [schedule EXCEPT ![i] = new]
      /\ runs' = [runs EXCEPT ![i] = row]
      /\ proc' = [proc EXCEPT ![p] = r]
      /\ UNCHANGED <<now, issued, disables>>
  BY <1>1 DEF FinishWrite, Sound, TypeOK, left
<1>7. new # Absent
  BY <1>3 DEF Schedule, Absent
<1> HIDE DEF new, row, r
<1>8. TypeOK'
  BY <1>1, <1>3, <1>4, <1>5, <1>6, <1>7 DEF Sound, TypeOK
<1>9. EnabledCanRun'
  BY <1>1, <1>3, <1>6 DEF Sound, TypeOK, EnabledCanRun
<1> QED
  BY <1>1, <1>5, <1>6, <1>8, <1>9 DEF Sound

(* The second write of finish_calendar resets the attempts it enables with.  *)
LEMMA AdvanceSound ==
  ASSUME Sound, NEW p \in Procs, Advance(p)
  PROVE  Sound'
<1> DEFINE i == proc[p].id
           due == LastDay(proc[p].at)
           new == [schedule[i] EXCEPT !.next_run = due, !.enabled = TRUE, !.attempts = 0]
<1>1. i \in Ids /\ schedule[i] # Absent /\ schedule[i] \in Schedule /\ proc[p].at \in Nat
  BY DEF Advance, Sound, TypeOK, Local
<1>2. due \in Nat /\ 0 \in 0..MaxAttempts
  BY <1>1, NextMonthEnd, SchedulerAssumption
<1> HIDE DEF due
<1>3. new \in Schedule /\ new.attempts = 0
  BY <1>1, <1>2 DEF Schedule
<1>4. /\ schedule' = [schedule EXCEPT ![i] = new]
      /\ proc' = [proc EXCEPT ![p] = Idle]
      /\ UNCHANGED <<now, issued, runs, disables>>
  BY <1>1 DEF Advance, Sound, TypeOK, due
<1>5. new # Absent
  BY <1>3 DEF Schedule, Absent
<1> HIDE DEF new
<1>6. TypeOK'
  BY <1>1, <1>3, <1>4, <1>5, IdleIsLocal DEF Sound, TypeOK
<1>7. EnabledCanRun'
  BY <1>1, <1>3, <1>4, SchedulerAssumption DEF Sound, TypeOK, EnabledCanRun
<1> QED
  BY <1>4, <1>6, <1>7, IdleIsLocal DEF Sound

(* disable_task clears the claim and the flag, so nothing enabled is left   *)
(* without an attempt.                                                      *)
LEMMA DisableSound ==
  ASSUME Sound, NEW i \in Ids, Disable(i)
  PROVE  Sound'
<1> DEFINE new == [schedule[i] EXCEPT !.enabled = FALSE, !.claim = 0]
<1>1. schedule[i] # Absent /\ schedule[i] \in Schedule
  BY DEF Disable, Absent, Sound, TypeOK
<1>2. new \in Schedule /\ ~new.enabled
  BY <1>1 DEF Schedule
<1>3. /\ schedule' = [schedule EXCEPT ![i] = new]
      /\ disables' = disables + 1
      /\ UNCHANGED <<now, issued, runs, proc>>
  BY DEF Disable, Sound, TypeOK
<1>4. new # Absent
  BY <1>2 DEF Schedule, Absent
<1> HIDE DEF new
<1>5. TypeOK'
  BY <1>2, <1>3, <1>4 DEF Sound, TypeOK
<1>6. EnabledCanRun'
  BY <1>2, <1>3 DEF Sound, TypeOK, EnabledCanRun
<1> QED
  BY <1>3, <1>5, <1>6 DEF Sound

(* One step for each statement of the scheduler.                            *)
LEMMA NextSound == Sound /\ [Next]_schedulerVars => Sound'
<1> SUFFICES ASSUME Sound, [Next]_schedulerVars PROVE Sound'
  OBVIOUS
<1>1. CASE \E i \in Ids : Disable(i)
  BY <1>1, DisableSound
<1>2. CASE \E i \in Ids, kind \in {"interval", "calendar"} : Add(i, kind)
  BY <1>2, AddSound
<1>3. CASE \E p \in Procs, i \in Ids : ClaimRead(p, i)
  BY <1>3, ClaimReadSound
<1>4. CASE \E p \in Procs : Step(p)
  BY <1>4, ClaimWriteSound, RunSound, FinishReadSound, FinishWriteSound, AdvanceSound DEF Step
<1>5. CASE \E p \in Procs : Crash(p)
  BY <1>5, IdleIsLocal, MoveSound DEF Crash
<1>6. CASE Tick
  BY <1>6, SchedulerAssumption DEF Tick, Sound, TypeOK, EnabledCanRun
<1>7. CASE UNCHANGED schedulerVars
  BY <1>7 DEF schedulerVars, Sound, TypeOK, EnabledCanRun
<1> QED
  BY <1>1, <1>2, <1>3, <1>4, <1>5, <1>6, <1>7 DEF Next

(* The tables keep their types and every enabled, free schedule has an       *)
(* attempt left, crashes, stale reads and disable_task included.             *)
THEOREM Soundness == Spec => [](TypeOK /\ EnabledCanRun)
<1>1. Sound => TypeOK /\ EnabledCanRun
  BY DEF Sound
<1> QED
  BY <1>1, InitSound, NextSound, PTL DEF Spec
-------------------------------------------------------------------------------
(* While disable_task is not called, the schedule of a running task carries  *)
(* a claim: together with SingleRunner this is inductive.                    *)
Active == {"run", "finish", "write"}
Guarded == disables = 0 => \A p \in Procs :
  proc[p].pc \in Active => schedule[proc[p].id].claim # 0
Exclusion == SingleRunner /\ Guarded

(* A step that starts no run and leaves the claims alone keeps Exclusion.    *)
LEMMA QuietKeepsExclusion ==
  ASSUME Sound, Exclusion, disables' = disables,
         \A p \in Procs : proc'[p].pc \in Active =>
            proc[p].pc \in Active /\ proc'[p].id = proc[p].id,
         \A i \in Ids : schedule[i] # Absent => schedule'[i].claim = schedule[i].claim
  PROVE  Exclusion'
<1>1. SingleRunner'
  BY DEF Exclusion, SingleRunner, Running, Active
<1>2. Guarded'
  BY DEF Sound, TypeOK, Exclusion, Guarded, Active
<1> QED
  BY <1>1, <1>2 DEF Exclusion

(* The UPDATE of claim finds the column empty, so nobody runs the schedule.  *)
LEMMA ClaimWriteKeepsExclusion ==
  ASSUME Sound, Exclusion, NEW p \in Procs, ClaimWrite(p), Updates(schedule[proc[p].id])
  PROVE  Exclusion'
<1> DEFINE i == proc[p].id
<1>1. /\ i \in Ids /\ issued[i] + 1 # 0 /\ schedule[i].claim = 0
      /\ schedule[i] \in Schedule
  BY DEF ClaimWrite, Updates, Sound, TypeOK
<1>2. /\ proc'[p].id = i /\ disables' = disables
      /\ \A q \in Procs \ {p} : proc'[q] = proc[q]
      /\ schedule'[i].claim # 0
      /\ \A j \in Ids \ {i} : schedule'[j] = schedule[j]
  BY <1>1 DEF ClaimWrite, Sound, TypeOK, Schedule, Local
<1>3. disables = 0 => \A q \in Procs : proc[q].pc \in Active => proc[q].id # i
  BY <1>1 DEF Exclusion, Guarded
<1>4. SingleRunner'
  BY <1>2, <1>3 DEF Exclusion, SingleRunner, Running, Active
<1>5. Guarded'
  BY <1>2, <1>3 DEF Sound, TypeOK, Exclusion, Guarded, Active
<1> QED
  BY <1>4, <1>5 DEF Exclusion

(* finish empties the column when the only runner stops.                     *)
LEMMA FinishWriteKeepsExclusion ==
  ASSUME Sound, Exclusion, NEW p \in Procs, FinishWrite(p)
  PROVE  Exclusion'
<1> DEFINE i == proc[p].id
<1>1. /\ i \in Ids /\ disables' = disables
      /\ proc'[p].pc \notin Active
      /\ \A q \in Procs \ {p} : proc'[q] = proc[q]
      /\ \A j \in Ids \ {i} : schedule'[j] = schedule[j]
  BY DEF FinishWrite, Sound, TypeOK, Local, Idle, Active
<1>2. disables = 0 => \A q \in Procs \ {p} : proc[q].pc \in Active => proc[q].id # i
  BY <1>1 DEF FinishWrite, Exclusion, SingleRunner, Running, Active
<1>3. SingleRunner'
  BY <1>1 DEF Exclusion, SingleRunner, Running, Active
<1>4. Guarded'
  BY <1>1, <1>2 DEF Sound, TypeOK, Exclusion, Guarded, Active
<1> QED
  BY <1>3, <1>4 DEF Exclusion

(* One step for each statement; only the UPDATE of claim starts a runner.   *)
LEMMA NextKeepsExclusion == Sound /\ Exclusion /\ [Next]_schedulerVars => Exclusion'
<1> SUFFICES ASSUME Sound, Exclusion, [Next]_schedulerVars PROVE Exclusion'
  OBVIOUS
<1>1. CASE \E i \in Ids : Disable(i)
  <2>1. disables' # 0
    BY <1>1 DEF Disable, Sound
  <2> QED
    BY <2>1 DEF Exclusion, SingleRunner, Guarded
<1>2. CASE \E i \in Ids, kind \in {"interval", "calendar"} : Add(i, kind)
  <2>1. \A i \in Ids : schedule[i] # Absent => schedule'[i] = schedule[i]
    BY <1>2 DEF Add, Sound, TypeOK
  <2>2. proc' = proc /\ disables' = disables
    BY <1>2 DEF Add
  <2> QED
    BY <2>1, <2>2, QuietKeepsExclusion
<1>3. CASE \E p \in Procs, i \in Ids : ClaimRead(p, i)
  BY <1>3, QuietKeepsExclusion DEF ClaimRead, Idle, Active, Sound
<1>4. ASSUME NEW p \in Procs, ClaimWrite(p)
      PROVE  Exclusion'
  <2>1. CASE ~Updates(schedule[proc[p].id])
    <3>1. proc' = [proc EXCEPT ![p] = Idle] /\ UNCHANGED <<schedule, disables>>
      BY <1>4, <2>1 DEF ClaimWrite
    <3> QED
      BY <3>1, QuietKeepsExclusion DEF Idle, Active, Sound
  <2> QED
    BY <1>4, <2>1, ClaimWriteKeepsExclusion
<1>5. ASSUME NEW p \in Procs, NEW status \in Statuses, Run(p, status)
      PROVE  Exclusion'
  BY <1>5, QuietKeepsExclusion DEF Run, Active, Sound, Local
<1>6. ASSUME NEW p \in Procs, FinishRead(p)
      PROVE  Exclusion'
  BY <1>6, QuietKeepsExclusion DEF FinishRead, Idle, Active, Sound, Local
<1>7. ASSUME NEW p \in Procs, Advance(p)
      PROVE  Exclusion'
  <2>1. \A i \in Ids : schedule[i] # Absent => schedule'[i].claim = schedule[i].claim
    BY <1>7 DEF Advance, Sound, TypeOK, Schedule
  <2> QED
    BY <1>7, <2>1, QuietKeepsExclusion DEF Advance, Idle, Active, Sound
<1>8. CASE \E p \in Procs : Crash(p)
  BY <1>8, QuietKeepsExclusion DEF Crash, Idle, Active, Sound
<1>9. CASE Tick \/ UNCHANGED schedulerVars
  BY <1>9, QuietKeepsExclusion DEF Tick, schedulerVars
<1> QED
  BY <1>1, <1>2, <1>3, <1>4, <1>5, <1>6, <1>7, <1>8, <1>9, FinishWriteKeepsExclusion
     DEF Next, Step

(* Two processes never run one schedule at the same time while disable_task  *)
(* is not called, although claim decides on a read outside its transaction.  *)
THEOREM Exclusive == Spec => []SingleRunner
<1>1. Init => Exclusion
  BY DEF Init, InitWith, Exclusion, SingleRunner, Guarded, Running, Active, Idle
<1>2. Exclusion => SingleRunner
  BY DEF Exclusion
<1> QED
  BY <1>1, <1>2, InitSound, NextSound, NextKeepsExclusion, PTL DEF Spec
-------------------------------------------------------------------------------
(* The ledger.  Runners(i) is the set whose size NoRunLost adds to the rows  *)
(* of schedule i.  While disable_task is not called, what a running process  *)
(* holds is the claim of the table, so finish refuses no result: only a      *)
(* death takes a claim away from both.                                       *)
Runners(i) == {p \in Procs : Running(p, i)}
Known(i) == runs[i].n + Cardinality(Runners(i))
Balanced(i) == Known(i) <= issued[i] /\ issued[i] <= Known(i) + crashes
Accounted(i) == \/ schedule[i].claim = 0 \/ crashes > 0
                \/ \E p \in Procs : Running(p, i) /\ proc[p].claim = schedule[i].claim
Owned == \A p \in Procs : proc[p].pc \in Active => proc[p].claim = schedule[proc[p].id].claim
Books == /\ crashes \in Nat
         /\ disables = 0 => Owned /\ \A i \in Ids : Balanced(i) /\ Accounted(i)

(* Runners can be counted, as processes can.                                *)
LEMMA FiniteRunners ==
  ASSUME NEW i \in Ids
  PROVE  IsFiniteSet(Runners(i)) /\ Cardinality(Runners(i)) \in Nat
BY SchedulerAssumption, FS_Subset, FS_CardinalityType DEF Runners

(* A step that starts and ends no run and leaves the claims alone.           *)
LEMMA QuietKeepsBooks ==
  ASSUME Sound, Books, runs' = runs, issued' = issued, crashes' = crashes, disables' = disables,
         \A p \in Procs : proc'[p].pc \in Active <=> proc[p].pc \in Active,
         \A p \in Procs : proc[p].pc \in Active =>
            proc'[p].id = proc[p].id /\ proc'[p].claim = proc[p].claim,
         \A i \in Ids : schedule'[i].claim = schedule[i].claim
  PROVE  Books'
<1> SUFFICES ASSUME disables = 0
             PROVE  Owned' /\ \A i \in Ids : Balanced(i)' /\ Accounted(i)'
  BY DEF Books
<1>1. Owned'
  BY DEF Books, Owned, Sound, Active
<1>2. ASSUME NEW i \in Ids PROVE Balanced(i)' /\ Accounted(i)'
  <2>1. Runners(i)' = Runners(i)
    BY DEF Runners, Running, Active
  <2>2. Balanced(i)'
    BY <2>1 DEF Books, Balanced, Known
  <2>3. Accounted(i)'
    BY DEF Books, Accounted, Running, Active
  <2> QED
    BY <2>2, <2>3
<1> QED
  BY <1>1, <1>2

(* A claim that is granted adds one runner and one number, and finds no     *)
(* runner of the schedule.                                                  *)
LEMMA ClaimWriteKeepsBooks ==
  ASSUME Sound, Exclusion, Books, NEW p \in Procs, ClaimWrite(p), Updates(schedule[proc[p].id])
  PROVE  Books'
<1> SUFFICES ASSUME disables = 0
             PROVE  crashes' \in Nat /\ Owned' /\ \A i \in Ids : Balanced(i)' /\ Accounted(i)'
  BY DEF Books, ClaimWrite
<1> PICK k, c : k = proc[p].id /\ c = issued[k] + 1
  OBVIOUS
<1>1. /\ k \in Ids /\ issued[k] \in Nat /\ schedule[k].claim = 0 /\ schedule[k] \in Schedule
  BY DEF ClaimWrite, Updates, Sound, TypeOK
<1>2. /\ runs' = runs /\ crashes' = crashes
      /\ proc[p].pc = "claim" /\ proc'[p].pc = "run" /\ proc'[p].id = k /\ proc'[p].claim = c
      /\ \A q \in Procs \ {p} : proc'[q] = proc[q]
      /\ issued' = [issued EXCEPT ![k] = @ + 1] /\ issued'[k] = c
      /\ schedule'[k].claim = c
      /\ \A j \in Ids \ {k} : schedule'[j] = schedule[j] /\ issued'[j] = issued[j]
  BY <1>1 DEF ClaimWrite, Sound, TypeOK, Schedule, Local
<1>3. \A q \in Procs : proc[q].pc \in Active => proc[q].id \in Ids \ {k}
  BY <1>1 DEF Exclusion, Guarded, Sound, Active
<1>4. Owned'
  BY <1>2, <1>3 DEF Books, Owned, Active
<1>5. ASSUME NEW i \in Ids PROVE Balanced(i)' /\ Accounted(i)'
  <2>1. /\ Known(i) <= issued[i] /\ issued[i] <= Known(i) + crashes
        /\ runs[i].n \in Nat /\ issued[i] \in Nat /\ crashes \in Nat
    BY DEF Books, Balanced, Sound, TypeOK
  <2>2. CASE i = k
    <3>1. Runners(i)' = Runners(i) \cup {p} /\ p \notin Runners(i)
      BY <1>2, <2>2 DEF Runners, Running
    <3>2. Cardinality(Runners(i)') = Cardinality(Runners(i)) + 1
      BY <3>1, FiniteRunners, FS_AddElement
    <3>3. Known(i)' = Known(i) + 1 /\ Known(i) \in Nat
      BY <1>2, <2>1, <3>2, FiniteRunners DEF Known
    <3>4. Balanced(i)'
      BY <1>2, <2>1, <2>2, <3>3 DEF Balanced
    <3>5. Accounted(i)'
      BY <1>2, <2>2 DEF Accounted, Running
    <3> QED
      BY <3>4, <3>5
  <2>3. CASE i # k
    <3>1. Runners(i)' = Runners(i)
      BY <1>2, <2>3 DEF Runners, Running
    <3>2. Balanced(i)'
      BY <1>2, <2>1, <2>3, <3>1 DEF Balanced, Known
    <3>3. Accounted(i)'
      BY <1>2, <2>3 DEF Books, Accounted, Running
    <3> QED
      BY <3>2, <3>3
  <2> QED
    BY <2>2, <2>3
<1>6. crashes' \in Nat
  BY <1>2 DEF Books
<1> QED
  BY <1>4, <1>5, <1>6

(* A finish turns the only runner of its schedule into a row.                *)
LEMMA FinishWriteKeepsBooks ==
  ASSUME Sound, Exclusion, Books, NEW p \in Procs, FinishWrite(p)
  PROVE  Books'
<1> SUFFICES ASSUME disables = 0
             PROVE  crashes' \in Nat /\ Owned' /\ \A i \in Ids : Balanced(i)' /\ Accounted(i)'
  BY DEF Books, FinishWrite
<1> PICK k : k = proc[p].id
  OBVIOUS
<1>1. k \in Ids /\ schedule[k] \in Schedule /\ runs[k].n \in Nat
  BY DEF FinishWrite, Sound, TypeOK
<1>2. /\ issued' = issued /\ crashes' = crashes
      /\ proc[p].pc = "write" /\ proc'[p].pc \in {"advance", "idle"}
      /\ \A q \in Procs \ {p} : proc'[q] = proc[q]
      /\ runs'[k].n = runs[k].n + 1
      /\ schedule'[k].claim = 0
      /\ \A j \in Ids \ {k} : schedule'[j] = schedule[j] /\ runs'[j] = runs[j]
  BY <1>1 DEF FinishWrite, Sound, TypeOK, Schedule, Local, Idle
<1>3. \A q \in Procs \ {p} : proc[q].pc \in Active => proc[q].id \in Ids \ {k}
  BY <1>1, <1>2 DEF Exclusion, SingleRunner, Running, Sound, Active
<1>4. Owned'
  BY <1>2, <1>3 DEF Books, Owned, Active
<1>5. ASSUME NEW i \in Ids PROVE Balanced(i)' /\ Accounted(i)'
  <2>1. /\ Known(i) <= issued[i] /\ issued[i] <= Known(i) + crashes
        /\ runs[i].n \in Nat /\ issued[i] \in Nat /\ crashes \in Nat
    BY DEF Books, Balanced, Sound, TypeOK
  <2>2. CASE i = k
    <3>1. Runners(i)' = Runners(i) \ {p} /\ p \in Runners(i)
      BY <1>2, <2>2 DEF Runners, Running
    <3>2. Cardinality(Runners(i)') = Cardinality(Runners(i)) - 1
      BY <3>1, FiniteRunners, FS_RemoveElement
    <3>3. Known(i)' = Known(i)
      BY <1>2, <2>1, <2>2, <3>2, FiniteRunners DEF Known
    <3>4. Balanced(i)'
      BY <1>2, <2>1, <3>3 DEF Balanced
    <3>5. Accounted(i)'
      BY <1>2, <2>2 DEF Accounted
    <3> QED
      BY <3>4, <3>5
  <2>3. CASE i # k
    <3>1. Runners(i)' = Runners(i)
      BY <1>2, <2>3 DEF Runners, Running
    <3>2. Balanced(i)'
      BY <1>2, <2>1, <2>3, <3>1 DEF Balanced, Known
    <3>3. Accounted(i)'
      BY <1>2, <2>3 DEF Books, Accounted, Running
    <3> QED
      BY <3>2, <3>3
  <2> QED
    BY <2>2, <2>3
<1>6. crashes' \in Nat
  BY <1>2 DEF Books
<1> QED
  BY <1>4, <1>5, <1>6

(* A death takes at most one runner, and is counted.                         *)
LEMMA CrashKeepsBooks ==
  ASSUME Sound, Books, NEW p \in Procs, Crash(p)
  PROVE  Books'
<1>1. /\ crashes \in Nat /\ crashes' = crashes + 1 /\ UNCHANGED <<schedule, issued, runs, disables>>
      /\ proc'[p].pc = "idle" /\ \A q \in Procs \ {p} : proc'[q] = proc[q]
  BY DEF Crash, Books, Sound, Idle
<1> SUFFICES ASSUME disables = 0
             PROVE  Owned' /\ \A i \in Ids : Balanced(i)' /\ Accounted(i)'
  BY <1>1 DEF Books
<1>2. Owned'
  BY <1>1 DEF Books, Owned, Active
<1>3. ASSUME NEW i \in Ids PROVE Balanced(i)' /\ Accounted(i)'
  <2>1. /\ Known(i) <= issued[i] /\ issued[i] <= Known(i) + crashes
        /\ runs[i].n \in Nat /\ issued[i] \in Nat
    BY DEF Books, Balanced, Sound, TypeOK
  <2>2. Cardinality(Runners(i)') \in {Cardinality(Runners(i)) - 1, Cardinality(Runners(i))}
    <3>1. CASE p \in Runners(i)
      <4>1. Runners(i)' = Runners(i) \ {p}
        BY <1>1, <3>1 DEF Runners, Running
      <4> QED
        BY <3>1, <4>1, FiniteRunners, FS_RemoveElement
    <3>2. CASE p \notin Runners(i)
      <4>1. Runners(i)' = Runners(i)
        BY <1>1, <3>2 DEF Runners, Running
      <4> QED
        BY <4>1
    <3> QED
      BY <3>1, <3>2
  <2>3. Balanced(i)'
    BY <1>1, <2>1, <2>2, FiniteRunners DEF Balanced, Known
  <2>4. Accounted(i)'
    BY <1>1 DEF Accounted
  <2> QED
    BY <2>3, <2>4
<1> QED
  BY <1>2, <1>3

(* One step for each statement; finish always finds its own claim.           *)
LEMMA NextKeepsBooks == Sound /\ Exclusion /\ Books /\ [Next]_schedulerVars => Books'
<1> SUFFICES ASSUME Sound, Exclusion, Books, [Next]_schedulerVars PROVE Books'
  OBVIOUS
<1>1. CASE \E i \in Ids : Disable(i)
  BY <1>1 DEF Disable, Books, Sound
<1>2. CASE Tick \/ UNCHANGED schedulerVars
  <2>1. UNCHANGED <<schedule, issued, runs, proc, crashes, disables>>
    BY <1>2 DEF Tick, schedulerVars
  <2> QED
    BY <2>1, QuietKeepsBooks
<1>3. ASSUME NEW i \in Ids, NEW kind \in {"interval", "calendar"}, Add(i, kind)
      PROVE  Books'
  <2>1. schedule[i].claim = 0 /\ schedule'[i].claim = 0 /\ \A j \in Ids \ {i} : schedule'[j] = schedule[j]
    BY <1>3 DEF Add, New, Absent, Sound, TypeOK
  <2>2. UNCHANGED <<issued, runs, proc, crashes, disables>>
    BY <1>3 DEF Add
  <2>3. \A j \in Ids : schedule'[j].claim = schedule[j].claim
    BY <2>1
  <2> QED
    BY <2>2, <2>3, QuietKeepsBooks
<1>4. ASSUME NEW p \in Procs, NEW i \in Ids, proc[p].pc = "idle", ClaimRead(p, i)
      PROVE  Books'
  BY <1>4, QuietKeepsBooks DEF ClaimRead, Idle, Active, Sound
<1>5. ASSUME NEW p \in Procs, ClaimWrite(p)
      PROVE  Books'
  <2>1. CASE ~Updates(schedule[proc[p].id])
    <3>1. proc' = [proc EXCEPT ![p] = Idle] /\ UNCHANGED <<schedule, runs, issued, crashes, disables>>
      BY <1>5, <2>1 DEF ClaimWrite
    <3>2. proc[p].pc = "claim"
      BY <1>5 DEF ClaimWrite
    <3> QED
      BY <3>1, <3>2, QuietKeepsBooks DEF Idle, Active, Sound
  <2> QED
    BY <1>5, <2>1, ClaimWriteKeepsBooks
<1>6. ASSUME NEW p \in Procs, NEW status \in Statuses, Run(p, status)
      PROVE  Books'
  BY <1>6, QuietKeepsBooks DEF Run, Active, Sound, Local
<1>7. ASSUME NEW p \in Procs, FinishRead(p)
      PROVE  Books'
  <2> SUFFICES ASSUME disables = 0 PROVE Books'
    BY <1>7 DEF Books, FinishRead
  <2>1. schedule[proc[p].id].claim = proc[p].claim /\ proc[p].pc = "finish"
    BY <1>7 DEF FinishRead, Books, Owned, Active
  <2>2. /\ proc'[p].pc = "write" /\ proc'[p].id = proc[p].id /\ proc'[p].claim = proc[p].claim
        /\ \A q \in Procs \ {p} : proc'[q] = proc[q]
    BY <1>7, <2>1 DEF FinishRead, Sound, Local
  <2>3. UNCHANGED <<schedule, issued, runs, crashes, disables>>
    BY <1>7 DEF FinishRead
  <2> QED
    BY <2>1, <2>2, <2>3, QuietKeepsBooks DEF Active
<1>8. ASSUME NEW p \in Procs, Advance(p)
      PROVE  Books'
  <2>1. \A i \in Ids : schedule'[i].claim = schedule[i].claim
    BY <1>8 DEF Advance, Sound, TypeOK, Schedule, Absent
  <2> QED
    BY <1>8, <2>1, QuietKeepsBooks DEF Advance, Idle, Active, Sound
<1> QED
  BY <1>1, <1>2, <1>3, <1>4, <1>5, <1>6, <1>7, <1>8, FinishWriteKeepsBooks, CrashKeepsBooks
     DEF Next, Step

(* While disable_task is not called, the outcome of a claim is recorded      *)
(* exactly once unless its process dies, and a claim nobody runs is one that *)
(* a death left behind: this rests on Exclusion, by which nobody takes a     *)
(* claim over, although finish and claim decide on reads of their own.       *)
THEOREM Ledger == Spec => []NoRunLost
<1>1. Init => Books
  <2> SUFFICES ASSUME Init, NEW i \in Ids PROVE Balanced(i)
    BY DEF Init, InitWith, Books, Owned, Accounted, Idle, Active, Absent
  <2>1. Runners(i) = {} /\ runs[i].n = 0 /\ issued[i] = 0 /\ crashes = 0
    BY DEF Init, InitWith, Runners, Running, Idle
  <2> QED
    BY <2>1, FS_EmptySet DEF Balanced, Known
<1>2. Books => NoRunLost
  BY DEF Books, Balanced, Accounted, Known, Runners, NoRunLost
<1>3. Init => Exclusion
  BY DEF Init, InitWith, Exclusion, SingleRunner, Guarded, Running, Active, Idle
<1> QED
  BY <1>1, <1>2, <1>3, InitSound, NextSound, NextKeepsExclusion, NextKeepsBooks, PTL DEF Spec
-------------------------------------------------------------------------------
(* The second write of a successful monthly run moves the schedule to the    *)
(* first end of a month after the run, never further.                        *)
THEOREM MonthKept == Spec => NoMonthSkipped
<1> DEFINE Kept == \A p \in Procs :
      (proc[p].pc = "advance" /\ proc'[p].pc = "idle" /\ crashes' = crashes)
        => LET next == schedule'[proc[p].id].next_run IN
           /\ next > proc[p].at /\ MonthEnd(next)
           /\ \A t \in (proc[p].at + 1)..(next - 1) : ~MonthEnd(t)
<1> DEFINE Counted == crashes \in Nat
<1>1. Init => Counted
  BY DEF Init, InitWith
<1>2. Counted /\ [Next]_schedulerVars => Counted'
  <2> SUFFICES ASSUME Counted, [Next]_schedulerVars PROVE crashes' \in Nat
    OBVIOUS
  <2>1. crashes' = crashes \/ \E p \in Procs : Crash(p)
    BY DEF Next, Disable, Add, ClaimRead, Step, ClaimWrite, Run, FinishRead, FinishWrite,
       Advance, Tick, schedulerVars
  <2> QED
    BY <2>1 DEF Crash
<1>3. Sound /\ Counted /\ [Next]_schedulerVars => [Kept]_schedulerVars
  <2> SUFFICES ASSUME Sound, crashes \in Nat, Next, NEW p \in Procs,
                      proc[p].pc = "advance", proc'[p].pc = "idle", crashes' = crashes
               PROVE  LET next == schedule'[proc[p].id].next_run IN
                      /\ next > proc[p].at /\ MonthEnd(next)
                      /\ \A t \in (proc[p].at + 1)..(next - 1) : ~MonthEnd(t)
    OBVIOUS
  <2>1. Advance(p)
    <3>1. \A q \in Procs : ~Crash(q)
      BY DEF Crash
    <3>2. proc'[p] # proc[p]
      OBVIOUS
    <3>3. \A q \in Procs, i \in Ids : ~(proc[q].pc = "idle" /\ ClaimRead(q, i))
      BY DEF ClaimRead, Sound, Idle
    <3>4. ~Tick /\ \A i \in Ids : ~Disable(i) /\ \A kind \in {"interval", "calendar"} : ~Add(i, kind)
      BY <3>2 DEF Tick, Disable, Add
    <3>5. PICK q \in Procs : Step(q)
      BY <3>1, <3>3, <3>4 DEF Next
    <3>6. q = p
      BY <3>2, <3>5 DEF Step, ClaimWrite, Run, FinishRead, FinishWrite, Advance, Sound
    <3> QED
      BY <3>5, <3>6 DEF Step, ClaimWrite, Run, FinishRead, FinishWrite
  <2>2. /\ proc[p].id \in Ids /\ proc[p].at \in Nat
        /\ schedule[proc[p].id] \in Schedule
    BY DEF Sound, TypeOK, Local
  <2>3. schedule'[proc[p].id].next_run = LastDay(proc[p].at)
    BY <2>1, <2>2 DEF Advance, Sound, TypeOK, Schedule
  <2> QED
    BY <2>2, <2>3, NextMonthEnd
<1> HIDE DEF Counted
<1>4. Spec => [][Kept]_schedulerVars
  <2> HIDE DEF Kept
  <2> QED
    BY <1>1, <1>2, <1>3, InitSound, NextSound, PTL DEF Spec
<1> QED
  BY <1>4 DEF NoMonthSkipped
-------------------------------------------------------------------------------
(* What MonthlyAfterSuccess says also holds of a schedule that is claimed:   *)
(* a claim does not move it.  A process that succeeds is between the two     *)
(* writes until it moves the schedule to an end of a month; when another one *)
(* ran the schedule meanwhile, that one failed or is between them, too.      *)
Between(i) == \E p \in Procs : proc[p].pc = "advance" /\ proc[p].id = i
Due(i) == schedule[i].kind = "calendar" /\ runs[i].last = "success" /\ ~Between(i)
            => MonthEnd(schedule[i].next_run)
Monthly == crashes \in Nat /\ (crashes = 0 => \A i \in Ids : Due(i))

(* A schedule that is not moved, and that nobody stopped moving, stays due.  *)
LEMMA QuietKeepsMonthly ==
  ASSUME Sound, Monthly, crashes' = crashes, NEW i \in Ids, crashes = 0,
         schedule'[i].kind = schedule[i].kind, schedule'[i].next_run = schedule[i].next_run,
         runs'[i].last = runs[i].last, Between(i) => Between(i)'
  PROVE  Due(i)'
BY DEF Monthly, Due

(* One step for each statement; the two writes of finish_calendar are those *)
(* that matter.                                                             *)
LEMMA NextKeepsMonthly == Sound /\ Monthly /\ [Next]_schedulerVars => Monthly'
<1> SUFFICES ASSUME Sound, Monthly, [Next]_schedulerVars PROVE Monthly'
  OBVIOUS
<1>1. CASE \E p \in Procs : Crash(p)
  BY <1>1 DEF Crash, Monthly
<1>2. CASE ~ \E p \in Procs : Crash(p)
  <2>1. crashes' = crashes
    BY <1>2 DEF Next, Disable, Add, ClaimRead, Step, ClaimWrite, Run, FinishRead, FinishWrite,
       Advance, Tick, schedulerVars
  <2> SUFFICES ASSUME crashes = 0, NEW i \in Ids PROVE Due(i)'
    BY <2>1 DEF Monthly
  <2>2. CASE Tick \/ UNCHANGED schedulerVars
    BY <2>1, <2>2, QuietKeepsMonthly DEF Tick, schedulerVars, Between
  <2>3. ASSUME NEW j \in Ids, Disable(j) PROVE Due(i)'
    <3>1. schedule'[i].kind = schedule[i].kind /\ schedule'[i].next_run = schedule[i].next_run
      BY <2>3 DEF Disable, Sound, TypeOK, Schedule, Absent
    <3> QED
      BY <2>1, <2>3, <3>1, QuietKeepsMonthly DEF Disable, Between
  <2>4. ASSUME NEW j \in Ids, NEW kind \in {"interval", "calendar"}, Add(j, kind) PROVE Due(i)'
    <3>1. CASE i = j
      <4>1. schedule'[i] = New(kind, IF kind = "calendar" THEN LastDay(now) ELSE now)
        BY <2>4, <3>1 DEF Add, Sound, TypeOK
      <4>2. now \in Nat
        BY SchedulerAssumption DEF Sound, TypeOK
      <4>3. schedule'[i].kind = "calendar" => MonthEnd(schedule'[i].next_run)
        BY <4>1, <4>2, NextMonthEnd DEF New
      <4> QED
        BY <4>3 DEF Due
    <3>2. CASE i # j
      <4>1. schedule'[i] = schedule[i]
        BY <2>4, <3>2 DEF Add, Sound, TypeOK
      <4> QED
        BY <2>1, <2>4, <4>1, QuietKeepsMonthly DEF Add, Between
    <3> QED
      BY <3>1, <3>2
  <2>5. ASSUME NEW p \in Procs, proc[p].pc # "advance", schedule' = schedule, runs' = runs,
               \A q \in Procs \ {p} : proc'[q] = proc[q]
        PROVE  Due(i)'
    BY <2>1, <2>5, QuietKeepsMonthly DEF Between
  <2>6. ASSUME NEW p \in Procs, proc[p].pc = "idle" /\ \E j \in Ids : ClaimRead(p, j) PROVE Due(i)'
    BY <2>5, <2>6 DEF ClaimRead, Sound
  <2>7. ASSUME NEW p \in Procs, NEW status \in Statuses, Run(p, status) PROVE Due(i)'
    BY <2>5, <2>7 DEF Run, Sound
  <2>8. ASSUME NEW p \in Procs, FinishRead(p) PROVE Due(i)'
    BY <2>5, <2>8 DEF FinishRead, Sound
  <2>9. ASSUME NEW p \in Procs, ClaimWrite(p) PROVE Due(i)'
    <3>1. schedule'[i].kind = schedule[i].kind /\ schedule'[i].next_run = schedule[i].next_run
      BY <2>9 DEF ClaimWrite, Sound, TypeOK, Schedule, Absent
    <3>2. Between(i) => Between(i)'
      <4>1. \A q \in Procs \ {p} : proc'[q] = proc[q]
        BY <2>9 DEF ClaimWrite, Sound
      <4> QED
        BY <2>9, <4>1 DEF ClaimWrite, Between
    <3> QED
      BY <2>1, <2>9, <3>1, <3>2, QuietKeepsMonthly DEF ClaimWrite
  <2>10. ASSUME NEW p \in Procs, FinishWrite(p) PROVE Due(i)'
    <3>1. \A q \in Procs \ {p} : proc'[q] = proc[q]
      BY <2>10 DEF FinishWrite, Sound
    <3>2. CASE proc[p].id # i
      <4>1. schedule'[i] = schedule[i] /\ runs'[i] = runs[i]
        BY <2>10, <3>2 DEF FinishWrite, Sound, TypeOK
      <4>2. Between(i) => Between(i)'
        BY <2>10, <3>1 DEF FinishWrite, Between
      <4> QED
        BY <2>1, <4>1, <4>2, QuietKeepsMonthly
    <3>3. CASE proc[p].id = i
      <4>1. /\ runs'[i].last = proc[p].status /\ schedule'[i].kind = schedule[i].kind
            /\ proc[p].status = "success" /\ schedule[i].kind = "calendar" =>
                 proc'[p].pc = "advance" /\ proc'[p].id = i
        BY <2>10, <3>3 DEF FinishWrite, Sound, TypeOK, Schedule, Absent, Local
      <4> QED
        BY <4>1 DEF Due, Between
    <3> QED
      BY <3>2, <3>3
  <2>11. ASSUME NEW p \in Procs, Advance(p) PROVE Due(i)'
    <3>1. \A q \in Procs \ {p} : proc'[q] = proc[q]
      BY <2>11 DEF Advance, Sound
    <3>2. CASE proc[p].id # i
      <4>1. schedule'[i] = schedule[i] /\ runs' = runs
        BY <2>11, <3>2 DEF Advance, Sound, TypeOK
      <4>2. Between(i) => Between(i)'
        BY <3>1, <3>2 DEF Between
      <4> QED
        BY <2>1, <4>1, <4>2, QuietKeepsMonthly
    <3>3. CASE proc[p].id = i
      <4>1. proc[p].at \in Nat
        BY DEF Sound, Local
      <4>2. schedule[i] \in Schedule
        BY <2>11, <3>3 DEF Advance, Sound, TypeOK
      <4>3. schedule'[i].next_run = LastDay(proc[p].at)
        BY <2>11, <3>3, <4>2 DEF Advance, Sound, TypeOK, Schedule
      <4> QED
        BY <4>1, <4>3, NextMonthEnd DEF Due
    <3> QED
      BY <3>2, <3>3
  <2> QED
    BY <1>2, <2>2, <2>3, <2>4, <2>6, <2>7, <2>8, <2>9, <2>10, <2>11 DEF Next, Step
<1> QED
  BY <1>1, <1>2

(* automation_scheduler.py:172: when no run died, a free monthly schedule    *)
(* that succeeded last waits for the last day of a month, whoever runs it.   *)
THEOREM AdvanceKept == Spec => []MonthlyAfterSuccess
<1>1. Init => Monthly
  BY DEF Init, InitWith, Monthly, Due
<1>2. Monthly => MonthlyAfterSuccess
  BY DEF Monthly, Due, Between, MonthlyAfterSuccess
<1> QED
  BY <1>1, <1>2, InitSound, NextSound, NextKeepsMonthly, PTL DEF Spec

-------------------------------------------------------------------------------
(* The maintenance lane.  Its tables, and what its processes hold.           *)
Row == [kind : {"absent", "interval", "calendar"}, enabled : BOOLEAN, next_run : Nat,
        attempts : Nat, claim : Nat]
Held == [pc : {"idle", "migrate", "add", "tick", "claim", "run", "finish", "write", "advance"},
         id : Ids \cup {"none"}, claim : Nat, status : Statuses \cup {"none"}, attempts : Nat, at : Nat]
Tables == /\ now \in Nat /\ issued \in [Ids -> Nat]
          /\ schedule \in [Ids -> Row] /\ proc \in [Procs -> Held]
(* Nobody claims or runs another schedule than a monthly one, and there is   *)
(* none, nor anybody about to add one, before the legacy one is disabled.    *)
Retired ==
  /\ schedule[Legacy].claim = 0 /\ schedule[Legacy].kind # "calendar"
  /\ schedule[Legacy].kind = "interval" \/ ~schedule[Legacy].enabled
  /\ \A p \in Procs : proc[p].pc \notin {"idle", "migrate", "add"} =>
       proc[p].id \in Ids /\ schedule[proc[p].id].kind = "calendar"
  /\ (\E i \in Ids : schedule[i].kind = "calendar") \/ (\E p \in Procs : proc[p].pc = "add") =>
       ~schedule[Legacy].enabled
RetiredInv == Tables /\ Retired

(* A process moves on while the table of the schedules stays as it is.       *)
LEMMA ProcessKeeps ==
  ASSUME RetiredInv, NEW p \in Procs, NEW q \in Held, proc' = [proc EXCEPT ![p] = q],
         q.pc \notin {"idle", "migrate", "add"} => q.id \in Ids /\ schedule[q.id].kind = "calendar",
         q.pc = "add" => ~schedule[Legacy].enabled,
         UNCHANGED <<now, issued, schedule>>
  PROVE  RetiredInv'
<1>1. /\ proc'[p] = q /\ \A r \in Procs \ {p} : proc'[r] = proc[r]
  BY DEF RetiredInv, Tables
<1>2. Tables'
  BY DEF RetiredInv, Tables
<1>3. Retired'
  BY <1>1 DEF RetiredInv, Retired
<1> QED
  BY <1>2, <1>3 DEF RetiredInv

(* A process writes the row of a monthly schedule and has no other then.     *)
LEMMA RowKeeps ==
  ASSUME RetiredInv, NEW p \in Procs, NEW i \in Ids, NEW row \in Row, NEW q \in Held,
         issued' \in [Ids -> Nat], UNCHANGED now,
         schedule' = [schedule EXCEPT ![i] = row], proc' = [proc EXCEPT ![p] = q],
         row.kind = "calendar", q.pc \notin {"migrate", "add"}, q.pc # "idle" => q.id = i,
         i # Legacy, ~schedule[Legacy].enabled
  PROVE  RetiredInv'
<1>1. /\ proc'[p] = q /\ \A r \in Procs \ {p} : proc'[r] = proc[r]
      /\ schedule'[i] = row /\ \A k \in Ids \ {i} : schedule'[k] = schedule[k]
  BY DEF RetiredInv, Tables
<1>2. Tables'
  BY DEF RetiredInv, Tables
<1>3. schedule'[Legacy] = schedule[Legacy] /\ row.kind = "calendar"
  BY <1>1, MaintenanceAssumption
<1>4. \A r \in Procs : proc'[r].pc \notin {"idle", "migrate", "add"} =>
        proc'[r].id \in Ids /\ schedule'[proc'[r].id].kind = "calendar"
  BY <1>1, <1>3 DEF RetiredInv, Retired
<1> QED
  BY <1>2, <1>3, <1>4 DEF RetiredInv, Retired

(* The id find_task returns, of a schedule that is there or just added.      *)
Given(i) == [pc |-> "tick", id |-> i, claim |-> 0, status |-> "none", attempts |-> 0, at |-> 0]

(* The record a process gets with the schedule it was given.                *)
LEMMA HandedOut ==
  ASSUME NEW i
  PROVE  /\ [Idle EXCEPT !.pc = "tick", !.id = i] = Given(i)
         /\ [Idle EXCEPT !.pc = "claim", !.id = i] = [Given(i) EXCEPT !.pc = "claim"]
<1> PICK q, r, s : /\ q = [Idle EXCEPT !.pc = "tick", !.id = i] /\ r = [Idle EXCEPT !.pc = "claim", !.id = i]
                   /\ s = [Given(i) EXCEPT !.pc = "claim"]
  OBVIOUS
<1>1. q = [pc |-> "tick", id |-> i, claim |-> 0, status |-> "none", attempts |-> 0, at |-> 0]
  BY DEF Idle
<1>2. r = [pc |-> "claim", id |-> i, claim |-> 0, status |-> "none", attempts |-> 0, at |-> 0]
  BY DEF Idle
<1>3. s = [pc |-> "claim", id |-> i, claim |-> 0, status |-> "none", attempts |-> 0, at |-> 0]
  BY DEF Given
<1> QED
  BY <1>1, <1>2, <1>3 DEF Given

(* Of several rows SQL's ORDER BY id LIMIT 1 gives one.                      *)
LEMMA MinIsMember ==
  ASSUME NEW S \in SUBSET Nat, S # {}
  PROVE  Min(S) \in S
<1>1. PICK x \in S : \A y \in S : ~(<<y, x>> \in OpToRel(<, Nat))
  BY NatLessThanWellFounded, WFMin
<1>2. ASSUME NEW y \in S, y < x PROVE FALSE
  <2>1. <<y, x>> \in OpToRel(<, Nat)
    BY <1>2 DEF OpToRel
  <2> QED
    BY <1>1, <2>1
<1>3. \A y \in S : x <= y
  BY <1>2
<1> QED
  BY <1>3 DEF Min

(* The statements of find_task, of which one retires the legacy schedule.    *)
LEMMA FindKeeps ==
  ASSUME RetiredInv, NEW p \in Procs, Find(p) \/ Migrate(p) \/ \E i \in Ids : AddMonthly(p, i)
  PROVE  RetiredInv'
<1>1. Tables /\ Retired
  BY DEF RetiredInv
<1>2. CASE Find(p)
  <2>1. CASE LegacyRow /\ MonthlyRows # {} /\ Handed(p, Min(MonthlyRows)) /\ UNCHANGED <<now, schedule, issued>>
    <3> PICK i, q : i = Min(MonthlyRows) /\ q = Given(i)
      OBVIOUS
    <3>1. i \in Ids /\ schedule[i].kind = "calendar"
      BY <2>1, MaintenanceAssumption, MinIsMember DEF MonthlyRows
    <3>2. proc' = [proc EXCEPT ![p] = q]
      BY <2>1, HandedOut DEF Handed
    <3>3. q.pc = "tick" /\ q.id = i /\ q \in Held
      BY <3>1 DEF Given, Held
    <3> QED
      BY <1>1, <2>1, <3>1, <3>2, <3>3, ProcessKeeps
  <2>2. CASE Move(p, "migrate")
    <3>1. proc' = [proc EXCEPT ![p] = [proc[p] EXCEPT !.pc = "migrate"]] /\ UNCHANGED <<now, schedule, issued>>
      BY <1>1, <2>2 DEF Move, Tables
    <3> PICK q : q = [proc[p] EXCEPT !.pc = "migrate"]
      OBVIOUS
    <3>2. q.pc = "migrate" /\ q \in Held
      BY <1>1 DEF Tables, Held
    <3> QED
      BY <3>1, <3>2, ProcessKeeps
  <2>3. CASE Move(p, "add") /\ (LegacyRow => ~schedule[Legacy].enabled)
    <3>1. proc' = [proc EXCEPT ![p] = [proc[p] EXCEPT !.pc = "add"]] /\ UNCHANGED <<now, schedule, issued>>
      BY <1>1, <2>3 DEF Move, Tables
    <3> PICK q : q = [proc[p] EXCEPT !.pc = "add"]
      OBVIOUS
    <3>2. q.pc = "add" /\ q \in Held
      BY <1>1 DEF Tables, Held
    <3>3. ~schedule[Legacy].enabled
      BY <1>1, <2>3 DEF LegacyRow, Retired
    <3> QED
      BY <3>1, <3>2, <3>3, ProcessKeeps
  <2> QED
    BY <1>2, <2>1, <2>2, <2>3 DEF Find
<1>3. CASE Migrate(p)
  <2> PICK row, q : row = [schedule[Legacy] EXCEPT !.enabled = FALSE, !.claim = 0] /\ q = [proc[p] EXCEPT !.pc = "add"]
    OBVIOUS
  <2>1. /\ schedule' = [schedule EXCEPT ![Legacy] = row] /\ proc' = [proc EXCEPT ![p] = q]
        /\ UNCHANGED <<now, issued>>
    BY <1>1, <1>3, MaintenanceAssumption DEF Migrate, Tables
  <2>2. /\ row \in Row /\ ~row.enabled /\ row.claim = 0
        /\ row.kind = schedule[Legacy].kind
        /\ q.pc = "add" /\ q \in Held
    BY <1>1, MaintenanceAssumption DEF Tables, Held, Row
  <2>3. /\ schedule'[Legacy] = row /\ ~row.enabled /\ row.claim = 0
        /\ (\A k \in Ids \ {Legacy} : schedule'[k] = schedule[k])
        /\ proc'[p] = q /\ \A r \in Procs \ {p} : proc'[r] = proc[r]
    BY <1>1, <2>1, <2>2, MaintenanceAssumption DEF Tables
  <2>4. Tables'
    BY <1>1, <2>1, <2>2 DEF Tables
  <2>5. Retired'
    <3>1. schedule'[Legacy].claim = 0 /\ schedule'[Legacy].kind # "calendar" /\ ~schedule'[Legacy].enabled
      BY <1>1, <2>2, <2>3 DEF Retired
    <3>2. ASSUME NEW r \in Procs, proc'[r].pc \notin {"idle", "migrate", "add"}
          PROVE  proc'[r].id \in Ids /\ schedule'[proc'[r].id].kind = "calendar"
      <4>1. proc'[r] = proc[r] /\ proc[r].id \in Ids \ {Legacy} /\ schedule[proc[r].id].kind = "calendar"
        BY <1>1, <2>2, <2>3, <3>2 DEF Retired
      <4> QED
        BY <2>3, <4>1
    <3> QED
      BY <3>1, <3>2 DEF Retired
  <2> QED
    BY <2>4, <2>5 DEF RetiredInv
<1>4. ASSUME NEW i \in Ids, AddMonthly(p, i) PROVE RetiredInv'
  <2> PICK row, q : /\ row = New("calendar", LastDay(now))
                    /\ q = Given(i)
    OBVIOUS
  <2>1. /\ schedule' = [schedule EXCEPT ![i] = row] /\ UNCHANGED <<now, issued>> /\ i # Legacy
        /\ proc[p].pc = "add"
    BY <1>4 DEF AddMonthly, At
  <2>2. proc' = [proc EXCEPT ![p] = q]
    BY <1>4, HandedOut DEF AddMonthly, Handed
  <2>3. LastDay(now) \in Nat
    BY <1>1, NextMonthEnd DEF Tables
  <2>4. row \in Row /\ row.kind = "calendar"
    BY <2>3 DEF New, Row
  <2>5. issued' \in [Ids -> Nat] /\ ~schedule[Legacy].enabled
    BY <1>1, <2>1 DEF Tables, Retired
  <2>6. q.pc = "tick" /\ q.id = i /\ q \in Held
    BY DEF Given, Held
  <2> QED
    BY <2>1, <2>2, <2>4, <2>5, <2>6, RowKeeps DEF Held, Row
<1> QED
  BY <1>2, <1>3, <1>4

(* Claiming, running and finishing the monthly schedule.                     *)
LEMMA WorkKeeps ==
  ASSUME RetiredInv, NEW p \in Procs,
         TickClaim(p) \/ ClaimWrite(p) \/ (\E status \in {"success", "retryable"} : Run(p, status))
           \/ FinishRead(p) \/ FinishWrite(p) \/ Advance(p) \/ Crash(p)
  PROVE  RetiredInv'
<1> PICK o, i : o = proc[p] /\ i = proc[p].id
  OBVIOUS
<1> PICK s : s = schedule[i]
  OBVIOUS
<1>1. /\ o \in Held /\ Idle \in Held /\ Idle.pc = "idle" /\ now \in Nat /\ issued \in [Ids -> Nat]
      /\ proc \in [Procs -> Held] /\ schedule \in [Ids -> Row]
  BY DEF RetiredInv, Tables, Idle, Held
<1>2. o.pc \notin {"idle", "migrate", "add"} =>
        i \in Ids /\ s \in Row /\ s.kind = "calendar" /\ i # Legacy /\ ~schedule[Legacy].enabled
  BY DEF RetiredInv, Retired, Tables
<1>3. CASE Crash(p) \/ (TickClaim(p) /\ ~Claimable(s))
  BY <1>1, <1>3, ProcessKeeps DEF Crash, TickClaim
<1>4. CASE TickClaim(p) /\ Claimable(s)
  <2> PICK q : q = [Given(i) EXCEPT !.pc = "claim"]
    OBVIOUS
  <2>1. proc' = [proc EXCEPT ![p] = q] /\ UNCHANGED <<now, issued, schedule>> /\ o.pc = "tick"
    BY <1>4, HandedOut DEF TickClaim, ClaimRead, At
  <2>2. q \in Held /\ q.pc = "claim" /\ q.id = i
    BY <1>2, <2>1 DEF Given, Held
  <2> QED
    BY <1>2, <2>1, <2>2, ProcessKeeps
<1>5. ASSUME NEW status \in {"success", "retryable"}, Run(p, status) PROVE RetiredInv'
  <2> PICK q : q = [o EXCEPT !.pc = "finish", !.status = status]
    OBVIOUS
  <2>1. proc' = [proc EXCEPT ![p] = q] /\ UNCHANGED <<now, issued, schedule>> /\ o.pc = "run"
    BY <1>1, <1>5 DEF Run
  <2>2. q \in Held /\ q.pc = "finish" /\ q.id = i
    BY <1>1 DEF Statuses, Held
  <2> QED
    BY <1>2, <2>1, <2>2, ProcessKeeps
<1>6. CASE FinishRead(p)
  <2> PICK q : q = IF s.claim = o.claim THEN [o EXCEPT !.pc = "write", !.attempts = s.attempts, !.at = now] ELSE Idle
    OBVIOUS
  <2>1. proc' = [proc EXCEPT ![p] = q] /\ UNCHANGED <<now, issued, schedule>> /\ o.pc = "finish"
    BY <1>1, <1>6 DEF FinishRead
  <2>2. q \in Held /\ (q.pc = "idle" \/ (q.pc = "write" /\ q.id = i))
    BY <1>1, <1>2, <2>1 DEF Held, Row
  <2> QED
    BY <1>2, <2>1, <2>2, ProcessKeeps
<1>7. CASE ClaimWrite(p) /\ ~Updates(s)
  BY <1>1, <1>7, ProcessKeeps DEF ClaimWrite
<1>8. CASE ClaimWrite(p) /\ Updates(s)
  <2> PICK c : c = issued[i] + 1
    OBVIOUS
  <2> PICK a : a = s.attempts + 1
    OBVIOUS
  <2> PICK row, q : row = [s EXCEPT !.attempts = a, !.claim = c] /\ q = [o EXCEPT !.pc = "run", !.claim = c]
    OBVIOUS
  <2>1. o.pc = "claim" /\ issued' = [issued EXCEPT ![i] = c] /\ UNCHANGED now
    BY <1>1, <1>8 DEF ClaimWrite
  <2>2. i \in Ids /\ s \in Row /\ c \in Nat /\ issued'[i] = c
    BY <1>1, <1>2, <2>1
  <2>3. proc' = [proc EXCEPT ![p] = q]
    BY <1>1, <1>8, <2>2 DEF ClaimWrite
  <2>4. schedule' = [schedule EXCEPT ![i].attempts = @ + 1, ![i].claim = c]
    BY <1>8, <2>2 DEF ClaimWrite
  <2>5. schedule' = [schedule EXCEPT ![i] = row]
    BY <1>1, <2>2, <2>4
  <2>6. row \in Row /\ row.kind = s.kind
    <3>1. a \in Nat
      BY <2>2 DEF Row
    <3> QED
      BY <2>2, <3>1 DEF Row
  <2>7. q \in Held /\ q.pc = "run" /\ q.id = i
    BY <1>1, <2>2 DEF Held
  <2>8. issued' \in [Ids -> Nat] /\ s.kind = "calendar" /\ i # Legacy /\ ~schedule[Legacy].enabled
    BY <1>1, <1>2, <2>1, <2>2
  <2> QED
    BY <2>1, <2>2, <2>3, <2>5, <2>6, <2>7, <2>8, RowKeeps
<1>9. CASE FinishWrite(p)
  <2> PICK a, n, e : /\ a = (IF o.status = "success" THEN 0 ELSE o.attempts) /\ n = o.at + Retry
                     /\ e = EnabledAfter(o.status, o.attempts)
    OBVIOUS
  <2> PICK row, q :
        /\ row = [s EXCEPT !.claim = 0, !.enabled = e, !.next_run = n, !.attempts = a]
        /\ q = IF o.status = "success" /\ s.kind = "calendar" THEN [o EXCEPT !.pc = "advance"] ELSE Idle
    OBVIOUS
  <2>1. /\ o.pc = "write" /\ schedule' = [schedule EXCEPT ![i] = row] /\ proc' = [proc EXCEPT ![p] = q]
        /\ UNCHANGED <<now, issued>>
    BY <1>1, <1>2, <1>9 DEF FinishWrite
  <2>2. row \in Row /\ row.kind = s.kind
    <3>1. a \in Nat /\ n \in Nat /\ e \in BOOLEAN
      BY <1>1, SchedulerAssumption DEF EnabledAfter, Held
    <3>2. s \in Row
      BY <1>2, <2>1
    <3> QED
      BY <3>1, <3>2 DEF Row
  <2>3. q \in Held /\ (q.pc = "idle" \/ (q.pc = "advance" /\ q.id = i))
    BY <1>1 DEF Held
  <2> QED
    BY <1>1, <1>2, <2>1, <2>2, <2>3, RowKeeps
<1>10. CASE Advance(p)
  <2> PICK n : n = LastDay(o.at)
    OBVIOUS
  <2> PICK row : row = [s EXCEPT !.next_run = n, !.enabled = TRUE, !.attempts = 0]
    OBVIOUS
  <2>1. /\ o.pc = "advance" /\ schedule' = [schedule EXCEPT ![i] = row] /\ proc' = [proc EXCEPT ![p] = Idle]
        /\ UNCHANGED <<now, issued>>
    BY <1>1, <1>2, <1>10 DEF Advance
  <2>2. row \in Row /\ row.kind = s.kind
    <3>1. n \in Nat
      BY <1>1, NextMonthEnd DEF Held
    <3>2. s \in Row
      BY <1>2, <2>1
    <3> QED
      BY <3>1, <3>2 DEF Row
  <2> QED
    BY <1>1, <1>2, <2>1, <2>2, RowKeeps
<1> QED
  BY <1>3, <1>4, <1>5, <1>6, <1>7, <1>8, <1>9, <1>10

(* However many processes poll, interleave and die: while a monthly schedule *)
(* is enabled, the legacy one, which AutomationScheduler.find_task migrates  *)
(* in two statements, is disabled and claimed by nobody.                     *)
THEOREM LegacyStaysRetired == MaintenanceInit /\ [][MaintenanceNext]_schedulerVars => []LegacyRetired
<1>1. MaintenanceInit => RetiredInv
  <2> SUFFICES ASSUME MaintenanceInit PROVE RetiredInv
    OBVIOUS
  <2>1. Tables
    BY SchedulerAssumption DEF MaintenanceInit, InitWith, Tables, New, Absent, Idle, Row, Held
  <2>2. Retired
    BY MaintenanceAssumption DEF MaintenanceInit, InitWith, Retired, New, Absent, Idle
  <2> QED
    BY <2>1, <2>2 DEF RetiredInv
<1>2. RetiredInv /\ [MaintenanceNext]_schedulerVars => RetiredInv'
  <2> SUFFICES ASSUME RetiredInv, [MaintenanceNext]_schedulerVars PROVE RetiredInv'
    OBVIOUS
  <2>1. CASE Tick
    <3>1. now' \in Nat
      BY <2>1, SchedulerAssumption DEF Tick
    <3> QED
      BY <2>1, <3>1 DEF Tick, RetiredInv, Tables, Retired
  <2>2. CASE UNCHANGED schedulerVars
    BY <2>2 DEF schedulerVars, RetiredInv, Tables, Retired
  <2>3. ASSUME NEW p \in Procs, Poll(p) \/ Crash(p) PROVE RetiredInv'
    BY <2>3, FindKeeps, WorkKeeps DEF Poll
  <2> QED
    BY <2>1, <2>2, <2>3 DEF MaintenanceNext
<1>3. RetiredInv => LegacyRetired
  BY DEF RetiredInv, Retired, LegacyRetired, MonthlyRows
<1> QED
  BY <1>1, <1>2, <1>3, PTL
===============================================================================
