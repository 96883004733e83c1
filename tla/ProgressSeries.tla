---------------------------- MODULE ProgressSeries ----------------------------
(***************************************************************************)
(* The figures that work/services.py derives from one assignment and its   *)
(* entries: the daily series of the charts, the workload split, the        *)
(* deadline level, the projection of the remaining work and the snapshot   *)
(* of a reporting period.  Nothing here is stored: an assignment is a      *)
(* record of what the functions read, loads are counted in ten-thousandths *)
(* of a day, as the field stores them, and a day is a number.              *)
(***************************************************************************)
EXTENDS Integers, FiniteSets

CONSTANT
    Absent  \* no entry on a day, no completion date, no observed pace

Larger(a, b) == IF a > b THEN a ELSE b
Smaller(a, b) == IF a < b THEN a ELSE b
Latest(days) == CHOOSE d \in days : \A e \in days : e <= d
First(days) == CHOOSE d \in days : \A e \in days : e >= d

OneDay == 10000
Tenth == 1000

\* quantize(Decimal("0.1"), ROUND_HALF_UP) of n / d, for d positive: to the
\* nearest tenth of a day, and away from zero between two.
RoundedUp(n, d) == Tenth * ((2 * n + Tenth * d) \div (2 * Tenth * d))
Rounded(n, d) == IF n < 0 THEN - RoundedUp(- n, d) ELSE RoundedUp(n, d)

\* ceil of a load, in days.
WholeDays(load) == (load + (OneDay - 1)) \div OneDay

-----------------------------------------------------------------------------
(* daily_progress_rows_from_entries *)

\* Open work goes on to the current day, finished work stops at its date.
SeriesEnd(a, day) ==
    Larger(a.start, IF a.completed = Absent THEN day ELSE Smaller(day, a.completed))

\* One row a day from the start on: what no entry says is carried over.
DailyRows(a, day) ==
    LET rows[d \in a.start..SeriesEnd(a, day)] ==
          LET before == IF d = a.start THEN [elapsed |-> 0, percentage |-> 0]
                                       ELSE rows[d - 1]
              seen == d \in DOMAIN a.entries /\ a.entries[d] # Absent
              elapsed == before.elapsed +
                         (IF d > a.start /\ d \notin a.closed THEN 1 ELSE 0)
          IN [working |-> d \notin a.closed,
              observed |-> seen,
              percentage |-> IF seen THEN a.entries[d] ELSE before.percentage,
              due |-> a.due,
              planned |-> a.load,
              elapsed |-> elapsed,
              remaining |-> Larger(0, a.load - OneDay * elapsed),
              overdue |-> Larger(0, elapsed - WholeDays(a.load))]
    IN rows

-----------------------------------------------------------------------------
(* current_progress, workload_breakdown, deadline_level *)

RecordedUntil(a, day) == {d \in DOMAIN a.entries : d <= day /\ a.entries[d] # Absent}

ProgressUntil(a, day) ==
    LET days == RecordedUntil(a, day)
    IN IF days = {} THEN 0 ELSE a.entries[Latest(days)]

\* Each part is rounded to a tenth, the second from the rounded first.
WorkloadBreakdown(load, percentage) ==
    LET completed == Rounded(load * percentage, 100)
    IN [total |-> load, completed |-> completed, remaining |-> Rounded(load - completed, 1)]

\* business_days_between: the working days after from, to included.
BusinessDaysBetween(a, from, to) == Cardinality({d \in (from + 1)..to : d \notin a.closed})

DeadlineLevel(a, day, percentage) ==
    LET total == Larger(1, BusinessDaysBetween(a, a.start, a.due))
        consumed == 100 * BusinessDaysBetween(a, a.start, day)
    IN CASE percentage = 100 -> "completed"
         [] percentage # 100 /\ day > a.due -> "overdue"
         [] percentage # 100 /\ day <= a.due /\ day <= a.start -> "normal"
         [] OTHER -> CASE consumed >= 90 * total -> "urgent"
                       [] consumed >= 75 * total /\ consumed < 90 * total -> "warning"
                       [] consumed >= 50 * total /\ consumed < 75 * total -> "attention"
                       [] OTHER -> "normal"

\* remaining_projection: the planned pace, and the pace observed between the
\* first and the last entry when there are two and work went forward.
RemainingProjection(a, until) ==
    LET days == RecordedUntil(a, until)
        current == ProgressUntil(a, until)
        elapsed == BusinessDaysBetween(a, First(days), Latest(days))
        gained == current - a.entries[First(days)]
        observed ==
            IF Cardinality(days) < 2 THEN Absent
            ELSE IF current = 100 THEN 0
            ELSE IF elapsed > 0 /\ gained > 0
                 THEN Rounded(OneDay * (100 - current) * elapsed, gained)
            ELSE Absent
    IN [current |-> current,
        baseline |-> Rounded(a.load * (100 - current), 100),
        observed |-> observed]

-----------------------------------------------------------------------------
(* task_progress_series and assignment_snapshot *)

\* A plausible slip: a task is late on the day it is due.
LateOnDueDay(a, end, percentage) == a.due <= end /\ percentage < 100

Late(a, end, percentage) == a.due < end /\ percentage < 100

\* What a chart shows of the task on a day.
TaskProgressSeries(a, day) ==
    LET rows == DailyRows(a, day)
        end == SeriesEnd(a, day)
        last == rows[end]
    IN [percentage |-> last.percentage,
        observations |-> Cardinality({d \in DOMAIN rows : rows[d].observed}),
        overrun |-> last.overdue,
        workload |-> WorkloadBreakdown(a.load, last.percentage),
        level |-> DeadlineLevel(a, end, last.percentage),
        late |-> Late(a, end, last.percentage)]

\* What a card or a list shows of it for the period from..to, on a day of it
\* or later.
AssignmentSnapshot(a, from, to, day) ==
    LET current == ProgressUntil(a, to)
    IN [percentage |-> current,
        delta |-> current - ProgressUntil(a, from - 1),
        projection |-> RemainingProjection(a, to),
        workload |-> WorkloadBreakdown(a.load, current),
        level |-> DeadlineLevel(a, Smaller(to, day), current)]

\* weekly_assignments and period_assignments: the tasks listed in a period.
InPeriod(a, from, to) ==
    a.start <= to /\ (a.completed = Absent \/ a.completed >= from)
=============================================================================
