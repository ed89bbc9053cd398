------------------------------- MODULE Calendar -------------------------------
(***************************************************************************)
(* The calendar arithmetic of a monthly schedule, last_day_datetime of       *)
(* automation_scheduler.py.  An instant is a natural number: the wall-clock  *)
(* day in the zone of the schedule and the part of that day, before, at or   *)
(* after the schedule's time of day.  Months have 31 numbers, whether they   *)
(* have 31 days or not, so later instants have larger numbers.               *)
(***************************************************************************)
EXTENDS Naturals

Before == 0
OnTime == 1     \* the very time of day of the schedule
After == 2
Moment(year, month, day, part) == ((year * 12 + month - 1) * 31 + day - 1) * 3 + part
Year(t) == (t \div 93) \div 12
Month(t) == ((t \div 93) % 12) + 1
Day(t) == ((t \div 3) % 31) + 1
Part(t) == t % 3

(* calendar.monthrange(year, month)[1]                                       *)
Leap(year) == year % 4 = 0 /\ (year % 100 # 0 \/ year % 400 = 0)
MonthRange(year, month) ==
  CASE month = 2 -> IF Leap(year) THEN 29 ELSE 28
    [] month \in {4, 6, 9, 11} -> 30
    [] OTHER -> 31

(* datetime.combine(date(year, month, day), scheduled_time) of the last day  *)
LastOf(year, month) == Moment(year, month, MonthRange(year, month), OnTime)

(* This month's last day, or next month's when that is not in the future.    *)
BugLastDay(t) ==    \* mutant: the year is not carried over December
  LET candidate == LastOf(Year(t), Month(t)) IN
  IF candidate > t THEN candidate ELSE LastOf(Year(t), (Month(t) % 12) + 1)
LastDay(t) ==
  LET candidate == LastOf(Year(t), Month(t)) IN
  IF candidate > t THEN candidate
  ELSE IF Month(t) = 12 THEN LastOf(Year(t) + 1, 1)
  ELSE LastOf(Year(t), Month(t) + 1)

(* What it is to find: an instant at the schedule's time on the last day.    *)
MonthEnd(t) == Part(t) = OnTime /\ Day(t) = MonthRange(Year(t), Month(t))
===============================================================================
