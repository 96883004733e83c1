----------------------------- MODULE ProgressCache -----------------------------
(***************************************************************************)
(* The stored daily series of one assignment, work/progress_cache.py, and  *)
(* the signals of work/signals.py that delete it whenever a row it was     *)
(* computed from is written.                                               *)
(*                                                                         *)
(* A write deletes the row inside its transaction and shows its change     *)
(* when it commits.  Readers hold no lock and no transaction: they read    *)
(* the assignment, then its history, and store what they computed.         *)
(***************************************************************************)
EXTENDS ProgressSeries

CONSTANTS
    Readers,      \* requests and commands that read the series
    Reported,     \* the percentages reported
    Plans,        \* the schedules of the task: a start and a load
    Holiday,      \* the days the calendar's administrator opens and closes
    LastDate,     \* bound on the calendar
    MaxWrites     \* bound on the writes of a behaviour

ASSUME SeriesAssumption ==
    /\ LastDate \in Nat \ {0}
    /\ \A plan \in Plans : plan.start \in 1..LastDate /\ plan.load \in Nat \ {0}
    /\ Reported \subseteq 0..100
    /\ Holiday \subseteq 1..LastDate
    /\ MaxWrites \in Nat

VARIABLES
    localdate,   \* timezone.localdate()
    task,        \* the committed assignment, its entries and its calendar
    writing,     \* the transaction under way, Absent without one
    writes,      \* how many were begun
    seriesCache, \* the ProgressSeriesCache row, Absent without one
    reads,       \* by reader, what it has read, Absent outside a request
    overtaken,   \* the readers that read before the last commit
    origin       \* when the row was stored: on what is committed ("sound"),
                 \* during a write ("early") or after one its reader missed ("stale")

cacheVars == <<localdate, task, writing, writes, seriesCache, reads, overtaken, origin>>

SeriesDays == 1..LastDate

Worked(days) == INSTANCE WorkCalendar WITH MaxDay <- LastDate, Closed <- days, Period <- 7

DueDate(plan, closed) == Worked(closed)!DueDateFor(plan.start, WholeDays(plan.load))

CacheInit ==
    /\ localdate = 1
    /\ \E plan \in Plans :
          task = [start |-> plan.start, load |-> plan.load, due |-> DueDate(plan, {}),
                  completed |-> Absent, closed |-> {},
                  entries |-> [d \in SeriesDays |-> Absent]]
    /\ writing = Absent
    /\ writes = 0
    /\ seriesCache = Absent
    /\ reads = [r \in Readers |-> Absent]
    /\ overtaken = {}
    /\ origin = "sound"

-----------------------------------------------------------------------------
(* Writes: the services change the rows, the signals delete the cache.     *)

\* A plausible slip: the signals do not know the calendar's days.
BeginUnlessCalendar(new) ==
    /\ writing = Absent
    /\ writes < MaxWrites
    /\ writes' = writes + 1
    /\ writing' = [to |-> new,
                   erased |-> seriesCache # Absent /\ new.closed = task.closed]
    /\ UNCHANGED <<localdate, task, seriesCache, reads, overtaken, origin>>

\* The row that the signal deletes stays visible and locked until the commit.
Begin(new) ==
    /\ writing = Absent
    /\ writes < MaxWrites
    /\ writes' = writes + 1
    /\ writing' = [to |-> new, erased |-> seriesCache # Absent]
    /\ UNCHANGED <<localdate, task, seriesCache, reads, overtaken, origin>>

\* ProgressEntry and TaskAssignment saved by record_progress, which reopens a
\* completed task below 100 percent.
Report(d, p) ==
    Begin([task EXCEPT !.entries[d] = p,
                       !.completed = IF p = 100 THEN @ ELSE Absent])

\* validate_completion, and close_early, which dates a done task again.
Complete == Begin([task EXCEPT !.completed = localdate])

\* update_assignment_details: the due date follows the calendar of the task.
Reschedule(plan) ==
    Begin([task EXCEPT !.start = plan.start, !.load = plan.load,
                       !.due = DueDate(plan, task.closed)])

\* WorkCalendarDay saved or deleted in the administration.
EditCalendar(d) ==
    Begin([task EXCEPT !.closed = IF d \in @ THEN @ \ {d} ELSE @ \cup {d}])

\* A row that a reader inserted after the deletion survives the commit.
Commit ==
    /\ writing # Absent
    /\ task' = writing.to
    /\ writing' = Absent
    /\ seriesCache' = IF writing.erased THEN Absent ELSE seriesCache
    /\ origin' = IF seriesCache' # Absent /\ origin # "sound" THEN "stale" ELSE "sound"
    /\ overtaken' = {r \in Readers : reads[r] # Absent}
    /\ UNCHANGED <<localdate, writes, reads>>

-----------------------------------------------------------------------------
(* cached_daily_progress_rows *)

\* The stored series is served when it ends on the day the reader expects.
Hit(a, day) == seriesCache # Absent /\ seriesCache.through = SeriesEnd(a, day)

\* A request that finds no usable row, or rebuild_progress_caches, reads the
\* assignment...
Open(r) ==
    /\ reads[r] = Absent
    /\ reads' = [reads EXCEPT ![r] = [day |-> localdate, of |-> task, rows |-> Absent]]
    /\ overtaken' = overtaken \ {r}
    /\ UNCHANGED <<localdate, task, writing, writes, seriesCache, origin>>

Miss(r) == ~ Hit(task, localdate) /\ Open(r)

Refresh(r) == Open(r)

\* ... then its entries and the days of its calendar, and computes the rows...
Compute(r) ==
    /\ reads[r] # Absent
    /\ reads[r].rows = Absent
    /\ LET a == [reads[r].of EXCEPT !.entries = task.entries, !.closed = task.closed]
       IN reads' = [reads EXCEPT ![r].rows = DailyRows(a, reads[r].day)]
    /\ UNCHANGED <<localdate, task, writing, writes, seriesCache, overtaken, origin>>

\* ... then update_or_create waits for the transaction that deleted the row.
Store(r) ==
    /\ reads[r] # Absent
    /\ reads[r].rows # Absent
    /\ writing # Absent => ~ writing.erased
    /\ seriesCache' = [through |-> SeriesEnd(reads[r].of, reads[r].day),
                       rows |-> reads[r].rows]
    /\ origin' = CASE r \in overtaken -> "stale"
                  [] r \notin overtaken /\ writing # Absent -> "early"
                  [] OTHER -> "sound"
    /\ reads' = [reads EXCEPT ![r] = Absent]
    /\ overtaken' = overtaken \ {r}
    /\ UNCHANGED <<localdate, task, writing, writes>>

\* rebuild_progress_caches --clear.
ClearCaches ==
    /\ seriesCache # Absent
    /\ writing # Absent => ~ writing.erased
    /\ seriesCache' = Absent
    /\ origin' = "sound"
    /\ UNCHANGED <<localdate, task, writing, writes, reads, overtaken>>

NextDate ==
    /\ localdate + 1 \in SeriesDays
    /\ localdate' = localdate + 1
    /\ UNCHANGED <<task, writing, writes, seriesCache, reads, overtaken, origin>>

CacheNext ==
    \/ \E d \in SeriesDays, p \in Reported : Report(d, p)
    \/ Complete
    \/ \E plan \in Plans : Reschedule(plan)
    \/ \E d \in Holiday : EditCalendar(d)
    \/ Commit
    \/ \E r \in Readers : Miss(r) \/ Refresh(r) \/ Compute(r) \/ Store(r)
    \/ ClearCaches
    \/ NextDate

CacheSpec == CacheInit /\ [][CacheNext]_cacheVars

-----------------------------------------------------------------------------
(* Properties *)

\* What a row says, read off the entries and the calendar: the last entry
\* since the start, and the working days since then.
TrueRow(a, d) ==
    LET days == {e \in a.start..d : e \in SeriesDays /\ a.entries[e] # Absent}
        worked == BusinessDaysBetween(a, a.start, d)
    IN [percentage |-> IF days = {} THEN 0
                       ELSE a.entries[CHOOSE e \in days : \A f \in days : f <= e],
        elapsed |-> worked,
        working |-> d \notin a.closed,
        observed |-> d \in days,
        due |-> a.due,
        planned |-> a.load,
        remaining |-> IF OneDay * worked > a.load THEN 0 ELSE a.load - OneDay * worked,
        overdue |-> IF worked > WholeDays(a.load) THEN worked - WholeDays(a.load) ELSE 0]

\* A stored series that is served says of every day what the committed rows
\* say, whatever was written, on whatever day it was stored: it is stale only
\* when a write committed between what its reader read and what it stored, or
\* between the deletion of the row and the commit of the write.
StaleOnlyByRace ==
    Hit(task, localdate) /\ origin # "stale"
      => seriesCache.rows = [d \in task.start..SeriesEnd(task, localdate) |-> TrueRow(task, d)]

\* The figures shown of one task agree: the chart is late exactly when the
\* deadline level says so, the parts of a load make it up but for half a tenth
\* of a day, nothing remains of a finished task unless its load ends between two
\* tenths (the rounding takes one too many: minus a tenth remains), an overrun of the load means a passed due date
\* unless the calendar changed after the date was computed, the deltas of two
\* consecutive periods add up, the chart and the lists give one percentage
\* when no entry is outside the dates of the task, and a task that was not
\* closed before its start is listed on every day of its series.
IndicatorsAgree ==
    LET shown == TaskProgressSeries(task, localdate)
        listed == AssignmentSnapshot(task, 1, LastDate, localdate)
        end == SeriesEnd(task, localdate)
    IN /\ shown.late <=> shown.level = "overdue"
       /\ LET gap == 2 * (shown.workload.completed + shown.workload.remaining - task.load)
          IN gap >= - Tenth /\ gap <= Tenth
       /\ shown.level = "completed" =>
            shown.workload.remaining = IF 2 * (task.load % Tenth) = Tenth THEN - Tenth ELSE 0
       /\ shown.overrun > 0 /\ task.due = DueDate(task, task.closed)
            => end > task.due
       /\ \A d \in SeriesDays \ {LastDate} :
             AssignmentSnapshot(task, 1, d, localdate).delta
               + AssignmentSnapshot(task, d + 1, LastDate, localdate).delta = listed.delta
       /\ RecordedUntil(task, LastDate) \subseteq task.start..end
            => shown.percentage = listed.percentage
               /\ shown.workload = listed.workload
               /\ (listed.percentage = 100 => listed.projection.baseline = 0)
       /\ task.completed = Absent \/ task.completed >= task.start
            => \A d \in task.start..end : InPeriod(task, d, d)
=============================================================================
