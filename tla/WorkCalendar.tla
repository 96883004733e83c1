---------------------------- MODULE WorkCalendar ----------------------------
(***************************************************************************)
(* One version of the working calendar of work/models.py and the schedules *)
(* it gives to tasks and to their weekly repetition.                       *)
(***************************************************************************)
EXTENDS Integers, FiniteSets

CONSTANTS
    MaxDay,  \* bound on the days that may be closed
    Closed,  \* the non-working days; those past MaxDay are working days
    Period   \* days between two anchors of a series, 7 in the code

ASSUME CalendarAssumption ==
    /\ MaxDay \in Nat \ {0}
    /\ Closed \subseteq 1..MaxDay
    /\ Period \in Nat \ {0}

IsWorkingDay(day) == day \notin Closed

\* next_working_day: the first working day from the planned one on.
NextWorkingDay(day) ==
    CHOOSE d \in day..(day + MaxDay) :
        IsWorkingDay(d) /\ \A e \in day..(d - 1) : ~ IsWorkingDay(e)

\* The working days that a cursor moving from start to end has counted.
WorkingDaysAfter(start, end) == {d \in (start + 1)..end : IsWorkingDay(d)}

\* due_date_for: the working day reached load working days after the start.
DueDateFor(start, load) ==
    CHOOSE d \in start..(start + load + MaxDay) :
        IsWorkingDay(d) /\ Cardinality(WorkingDaysAfter(start, d)) = load

\* A plausible slip: an occurrence may be due the day the next one starts.
FitsPeriodInclusive(due, anchor) == due <= NextWorkingDay(anchor + Period)

\* The due date of an occurrence falls before the effective start of the next.
FitsPeriod(due, anchor) == due < NextWorkingDay(anchor + Period)

\* validate_recurrence_schedule
ValidSchedule(start, load, end) ==
    /\ end >= start + Period
    /\ FitsPeriod(DueDateFor(start, load), start)
=============================================================================
