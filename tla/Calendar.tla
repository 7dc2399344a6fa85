------------------------------ MODULE Calendar ------------------------------
(***************************************************************************)
(* When a schedule runs (invoices/invoice.totals.ts): nextRunDate adds a   *)
(* period to the date of the last run, and advancePastNow does so until    *)
(* the date is in the future.  A date is an instant: a time of a day of a  *)
(* month of a year; a period goes by days or months and keeps the time.    *)
(***************************************************************************)
EXTENDS Integers

CONSTANTS
  Starts,      \* first run dates
  Times,       \* times of day of a sweep
  Cadences, Intervals,
  MaxMonths,   \* bound: months that a behaviour lasts
  Backlogs,    \* months the sweep may come late
  GUARD        \* 240: periods advancePastNow goes through at most

Cadence == {"WEEKLY", "MONTHLY", "QUARTERLY", "YEARLY"}

Leap(y) == y % 4 = 0 /\ (y % 100 # 0 \/ y % 400 = 0)
lastDay(y, m) == IF m = 1 THEN IF Leap(y) THEN 29 ELSE 28
                 ELSE IF m \in {3, 5, 8, 10} THEN 30 ELSE 31

ASSUME CalendarAssumption ==
  /\ Cadences \subseteq Cadence /\ Intervals \subseteq Int
  /\ Times \subseteq Nat
  /\ Starts \subseteq [y : Nat, m : 0..11, d : 1..31, t : Nat]
  /\ \A date \in Starts : date.d <= lastDay(date.y, date.m)
  /\ MaxMonths \in Nat /\ Backlogs \subseteq Nat /\ GUARD \in Nat

VARIABLES
  plan,     \* the schedule: its start, cadence and interval
  nextRun,  \* nextRunAt
  now,      \* the instant of the last sweep
  periods   \* periods from the start to nextRun

calendarVars == <<plan, nextRun, now, periods>>

MonthOf(date) == 12 * date.y + date.m
Before(a, b) == \/ MonthOf(a) < MonthOf(b)
                \/ MonthOf(a) = MonthOf(b) /\ a.d < b.d
                \/ MonthOf(a) = MonthOf(b) /\ a.d = b.d /\ a.t < b.t

\* Mutant: the day runs over into the month after, as Date.UTC has it.
RunOver(date, y, m) ==
  IF date.d <= lastDay(y, m) THEN [y |-> y, m |-> m, d |-> date.d, t |-> date.t]
  ELSE [y |-> IF m = 11 THEN y + 1 ELSE y, m |-> (m + 1) % 12,
        d |-> date.d - lastDay(y, m), t |-> date.t]
Clamp(date, y, m) ==
  [y |-> y, m |-> m, d |-> IF date.d <= lastDay(y, m) THEN date.d ELSE lastDay(y, m),
   t |-> date.t]

addMonthsUtc(date, months) ==
  LET month == date.m + months IN Clamp(date, date.y + month \div 12, month % 12)

\* The day after n days, n at most the length of a month.
AddDaysInMonth(date, n) ==
  LET last == lastDay(date.y, date.m) IN
    IF date.d + n <= last THEN [date EXCEPT !.d = @ + n]
    ELSE [date EXCEPT !.y = IF date.m = 11 THEN @ + 1 ELSE @,
                      !.m = (@ + 1) % 12, !.d = @ + n - last]

addDaysUtc(date, days) ==
  LET after[n \in 0..days \div 28] ==
        IF n = 0 THEN AddDaysInMonth(date, days % 28)
        ELSE AddDaysInMonth(after[n - 1], 28)
  IN after[days \div 28]

Step(interval) == IF interval < 1 THEN 1 ELSE interval
Months(cadence) == CASE cadence = "MONTHLY" -> 1 [] cadence = "QUARTERLY" -> 3
                     [] cadence = "YEARLY" -> 12
nextRunDate(cadence, interval, from) ==
  IF cadence = "WEEKLY" THEN addDaysUtc(from, 7 * Step(interval))
  ELSE addMonthsUtc(from, Months(cadence) * Step(interval))

Future(next, today) == Before(today, next)

\* The dates the loop goes through; the first that is in the future, or the
\* last that the guard allows.
Dates(cadence, interval, from) ==
  LET date[n \in 1..GUARD + 1] ==
        nextRunDate(cadence, interval, IF n = 1 THEN from ELSE date[n - 1])
  IN date
LoopsOf(dates, today) ==
  IF \E n \in 1..GUARD + 1 : Future(dates[n], today)
  THEN CHOOSE n \in 1..GUARD + 1 :
         Future(dates[n], today) /\ \A k \in 1..n - 1 : ~Future(dates[k], today)
  ELSE GUARD + 1

-----------------------------------------------------------------------------
\* Instants at which a sweep can come: a week or some months later, on any day
\* and at any time that matter to a comparison.
Todays(late) ==
  LET then == addMonthsUtc(nextRun, late)
      days == {then, [then EXCEPT !.d = lastDay(then.y, then.m)], addDaysUtc(nextRun, 7)}
  IN {[day EXCEPT !.t = time] : day \in days, time \in Times}

CalendarInit ==
  /\ plan \in [start : Starts, cadence : Cadences, interval : Intervals]
  /\ nextRun = plan.start /\ now = plan.start
  /\ periods = 0

\* The schedule is due; advancePastNow gives its next date.
AdvancePastNow ==
  \E late \in Backlogs :
  \E today \in Todays(late) :
    LET dates == Dates(plan.cadence, plan.interval, nextRun)
        loops == LoopsOf(dates, today)
    IN /\ ~Before(today, nextRun) /\ ~Before(today, now)
       /\ MonthOf(nextRun) - MonthOf(plan.start) < MaxMonths
       /\ now' = today
       /\ nextRun' = dates[loops]
       /\ periods' = periods + loops
       /\ UNCHANGED plan

CalendarSpec == CalendarInit /\ [][AdvancePastNow]_calendarVars

-----------------------------------------------------------------------------
\* The number of a day in the calendar.
DaysBefore == <<0, 31, 59, 90, 120, 151, 181, 212, 243, 273, 304, 334>>
StartOf(y, m) ==
  365 * (y - 1) + (y - 1) \div 4 - (y - 1) \div 100 + (y - 1) \div 400
  + DaysBefore[m + 1] + IF m > 1 /\ Leap(y) THEN 1 ELSE 0
CalendarDay(date) == StartOf(date.y, date.m) + date.d

KeptPeriods ==
  LET gone == periods' - periods IN
    /\ nextRun'.t = nextRun.t
    /\ plan.cadence = "WEEKLY" =>
         CalendarDay(nextRun') = CalendarDay(nextRun) + gone * (7 * Step(plan.interval))
    /\ plan.cadence # "WEEKLY" =>
         /\ MonthOf(nextRun') = MonthOf(nextRun)
                                  + gone * (Months(plan.cadence) * Step(plan.interval))
         /\ nextRun'.d <= nextRun.d /\ nextRun'.d <= lastDay(nextRun'.y, nextRun'.m)
         /\ nextRun'.d >= 28 \/ nextRun'.d = nextRun.d
    /\ Before(now', nextRun') \/ gone = GUARD + 1
    /\ \A k \in 1..gone - 1 :
         ~Before(now', Dates(plan.cadence, plan.interval, nextRun)[k])

\* A sweep moves a schedule on by whole periods and leaves its time of day, to the
\* first date that is later than the sweep (one later on the same day is due again
\* that day), unless it had fallen behind by more than the guard allows.  By weeks
\* it keeps to the calendar's weeks, over the ends of months, years and a leap
\* February; by months it visits every month it should and no other, so that a
\* start on the 31st neither skips a shorter month nor falls twice into the longer
\* one after it (the day it loses there it never gets back).
PeriodsAreKept == [][KeptPeriods]_calendarVars
=============================================================================
