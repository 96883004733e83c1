--------------------------- MODULE TaskRecurrence ---------------------------
(***************************************************************************)
(* A weekly series of work/services.py: one employee's occurrences, each   *)
(* followed in the phases of TaskLifecycle, and the TaskRecurrence row     *)
(* that plans the next occurrence when one is decided.                     *)
(*                                                                         *)
(* An API transition is two transactions of one web worker: the decision   *)
(* commits, then advance_task_recurrence locks the series and plans.       *)
(* Others act in between, and the worker may die there.  The classic pages *)
(* decide without the second transaction, and date an occurrence again     *)
(* without a look at its series.                                           *)
(***************************************************************************)
EXTENDS WorkCalendar

CONSTANTS
    Workers,        \* web workers that carry API transitions
    Loads,          \* estimated_work_days, rounded up
    Starts,         \* the start dates that are submitted
    Ends,           \* the recurrence end dates that are submitted
    MaxOccurrence,  \* bound on the occurrences of the series
    Deletable,      \* occurrences that batch deletions may take
    ClassicEdits,   \* the schedules that the classic page submits: number, start, load
    MaxRevision,    \* bound on the series' revision
    None            \* no occurrence, no worker request, no form, no anchor

ASSUME RecurrenceAssumption ==
    /\ Loads \subseteq Nat \ {0}
    /\ Starts \subseteq 1..MaxDay
    /\ Ends \subseteq 1..MaxDay
    /\ MaxOccurrence \in Nat \ {0}
    /\ Deletable \subseteq Nat
    /\ ClassicEdits \subseteq [number : 1..MaxOccurrence, start : Starts, load : Loads]
    /\ MaxRevision \in Nat \ {0}

Days == 1..MaxDay
Numbers == 1..MaxOccurrence
Dates == Nat \ {0}
Phases == {"open", "review", "done", "abandoned"}
Terminal == {"done", "abandoned"}

\* decided: the assignment's journal holds a VALIDATED or CLOSED activity.
\* moved: history, its dates are those of the classic page.
Occurrence == [phase : Phases, decided : BOOLEAN, moved : BOOLEAN,
               start : Dates, due : Dates, anchor : Dates]
Series == [status : {"active", "finished", "cancelled"}, revision : 1..MaxRevision,
           end : Ends, load : Loads]

\* deleted: the decided assignment is gone, its number may be another's.
Request == [number : Numbers, anchor : Dates \cup {None}, deleted : BOOLEAN]
Screen == [revision : 1..MaxRevision, last : Numbers]

ASSUME NoneIsNothing ==
    None \notin Dates \cup Occurrence \cup Series \cup Request \cup Screen

VARIABLES
    today,        \* timezone.localdate()
    hasNPlus1,    \* whether primary_manager finds a supervisor today
    series,       \* the TaskRecurrence row, None while the task is unique
    occurrences,  \* by recurrence_occurrence, the assignments of the series
    request,      \* by worker, the decided occurrence it has to advance
    form          \* a screen: the series revision and the occurrences planned then

vars == <<today, hasNPlus1, series, occurrences, request, form>>

Planned == {n \in Numbers : occurrences[n] # None}
IsLast(n) == n \in Planned /\ \A m \in Planned : m <= n
Form == [revision |-> series.revision, last |-> CHOOSE n \in Planned : IsLast(n)]

\* Type invariant: dates, revisions, requests and forms keep their domains.
TypeOK ==
    /\ today \in Days
    /\ hasNPlus1 \in BOOLEAN
    /\ series \in Series \cup {None}
    /\ occurrences \in [Numbers -> Occurrence \cup {None}]
    /\ request \in [Workers -> Request \cup {None}]
    /\ form \in Screen \cup {None}

NewOccurrence(start, load, anchor) ==
    [phase |-> "open", decided |-> FALSE, moved |-> FALSE, start |-> start,
     due |-> DueDateFor(start, load), anchor |-> anchor]

NewSeries(load, end) ==
    [status |-> "active", revision |-> 1, end |-> end, load |-> load]

-----------------------------------------------------------------------------

Init ==
    /\ today = 1
    /\ hasNPlus1 = TRUE
    /\ series = None
    /\ occurrences = [n \in Numbers |-> None]
    /\ request = [w \in Workers |-> None]
    /\ form = None

\* create_assignment_for_user: a task without repetition.
CreateUnique(start, load) ==
    /\ Planned = {} /\ series = None
    /\ occurrences' = [occurrences EXCEPT ![1] = NewOccurrence(start, load, start)]
    /\ UNCHANGED <<today, hasNPlus1, series, request, form>>

\* create_recurring_assignment_for_user; an accepted recurring proposal
\* creates its task and series in one transaction too.
CreateRecurring(start, load, end) ==
    /\ Planned = {} /\ series = None
    /\ ValidSchedule(start, load, end)
    /\ occurrences' = [occurrences EXCEPT ![1] = NewOccurrence(start, load, start)]
    /\ series' = NewSeries(load, end)
    /\ UNCHANGED <<today, hasNPlus1, request, form>>

LoadForm ==
    /\ series # None /\ Planned # {}
    /\ form' = Form
    /\ UNCHANGED <<today, hasNPlus1, series, occurrences, request>>

\* A plausible slip: the series is saved without moving its revision.
BumpForgotten == series

Bump == [series EXCEPT !.revision = @ + 1]

\* The series may still be saved within the bound.
SeriesRoom == series # None /\ series.revision < MaxRevision

-----------------------------------------------------------------------------
(* update_assignment_details_with_recurrence, on any occurrence.  The      *)
(* schedule of the occurrence and the template of the series change in the *)
(* same transaction; a unique task becomes a series.                       *)

Reschedule(n, start, load) ==
    occurrences' = [occurrences EXCEPT
        ![n] = [@ EXCEPT !.start = start, !.due = DueDateFor(start, load), !.anchor = start,
                         !.moved = FALSE]]

AttachSeries(n, start, load, end) ==
    /\ series = None
    /\ n \in Planned
    /\ ValidSchedule(start, load, end)
    /\ Reschedule(n, start, load)
    /\ series' = NewSeries(load, end)
    /\ UNCHANGED <<today, hasNPlus1, request, form>>

UpdateSeries(n, start, load, end) ==
    /\ SeriesRoom
    /\ form # None /\ form.revision = series.revision
    /\ n \in Planned
    /\ ValidSchedule(start, load, end)
    /\ Reschedule(n, start, load)
    /\ series' = [Bump EXCEPT !.load = load, !.end = end]
    /\ form' = None
    /\ UNCHANGED <<today, hasNPlus1, request>>

\* edit_assignment, the classic page: the occurrence is dated and its workload
\* changed without the validation of the repetition, and its anchor stays.
EditClassic(n, start, load) ==
    /\ n \in Planned
    /\ occurrences' = [occurrences EXCEPT
           ![n] = [@ EXCEPT !.start = start, !.due = DueDateFor(start, load), !.moved = TRUE]]
    /\ UNCHANGED <<today, hasNPlus1, series, request, form>>

-----------------------------------------------------------------------------
(* The occurrences' own transitions, as TaskLifecycle allows them *)

Report(n) ==
    /\ n \in Planned
    /\ occurrences[n].phase # "abandoned"
    /\ \E phase \in {"open", "review"} :
          /\ occurrences[n].phase = "done" => phase = "open"
          /\ occurrences' = [occurrences EXCEPT ![n].phase = phase]
    /\ UNCHANGED <<today, hasNPlus1, series, request, form>>

SendBack(n) ==
    /\ n \in Planned
    /\ occurrences[n].phase = "review"
    /\ occurrences' = [occurrences EXCEPT ![n].phase = "open"]
    /\ UNCHANGED <<today, hasNPlus1, series, request, form>>

\* The first transaction of validate_completion and close_early.
Decide(n) ==
    /\ n \in Planned
    /\ \E phase \in Terminal :
          /\ phase = "done" => occurrences[n].phase = "review"
          /\ occurrences' = [occurrences EXCEPT ![n].phase = phase, ![n].decided = TRUE]

\* The classic pages call validate_completion and close_early directly.
DecideClassic(n) ==
    /\ Decide(n)
    /\ UNCHANGED <<today, hasNPlus1, series, request, form>>

NewRequest(n) == [number |-> n, anchor |-> None, deleted |-> FALSE]

\* A plausible slip: the series advances after a rejection as well.
AdvanceWithoutDecision(w, n) ==
    /\ request[w] = None
    /\ n \in Planned
    /\ request' = [request EXCEPT ![w] = NewRequest(n)]
    /\ UNCHANGED <<today, hasNPlus1, series, occurrences, form>>

\* The API goes through the functions with recurrence.
DecideThroughApi(w, n) ==
    /\ request[w] = None
    /\ Decide(n)
    /\ request' = [request EXCEPT ![w] = NewRequest(n)]
    /\ UNCHANGED <<today, hasNPlus1, series, form>>

\* The worker reads the decided assignment again, without a lock.
ReadDecided(w) ==
    /\ request[w] # None
    /\ request[w].anchor = None
    /\ request' = [request EXCEPT ![w] =
           IF series = None \/ request[w].deleted THEN None
           ELSE [@ EXCEPT !.anchor = occurrences[request[w].number].anchor]]
    /\ UNCHANGED <<today, hasNPlus1, series, occurrences, form>>

\* The worker dies between its two transactions.
Crash(w) ==
    /\ request[w] # None
    /\ request' = [request EXCEPT ![w] = None]
    /\ UNCHANGED <<today, hasNPlus1, series, occurrences, form>>

-----------------------------------------------------------------------------
(* advance_task_recurrence, on the series locked with select_for_update    *)
(* and the assignment as the worker read it.                               *)

Stop(status) ==
    /\ series' = [Bump EXCEPT !.status = status]
    /\ UNCHANGED occurrences

\* Plausible slips: one of the two tests is missing.
NothingAfterSuccessor(number) == \E n \in Planned : n > number
NothingAfterStop(number) == number \in Numbers /\ series.status # "active"

\* The series has stopped, or a later occurrence exists: nothing to do.
NothingToPlan(number) ==
    series.status # "active" \/ \E n \in Planned : n > number

\* Why the series stops instead of planning on the anchor.
TooLate(anchor) == today >= NextWorkingDay(anchor)
Overlaps(anchor) ==
    ~ FitsPeriod(DueDateFor(NextWorkingDay(anchor), series.load), anchor)

\* The activity written beside a new occurrence points at the decided one: if
\* a batch deletion has removed that one, the transaction is rolled back.
PlanNext(number, anchor, deleted) ==
    \/ /\ NothingToPlan(number)
       /\ UNCHANGED <<series, occurrences>>
    \/ /\ ~ NothingToPlan(number)
       /\ anchor > series.end
       /\ Stop("finished")
    \/ /\ ~ NothingToPlan(number)
       /\ anchor <= series.end
       /\ TooLate(anchor) \/ Overlaps(anchor) \/ ~ hasNPlus1
       /\ Stop("cancelled")
    \/ /\ ~ NothingToPlan(number)
       /\ anchor <= series.end
       /\ ~ (TooLate(anchor) \/ Overlaps(anchor)) /\ hasNPlus1
       /\ deleted
       /\ UNCHANGED <<series, occurrences>>
    \/ /\ ~ NothingToPlan(number)
       /\ anchor <= series.end
       /\ ~ (TooLate(anchor) \/ Overlaps(anchor)) /\ hasNPlus1
       /\ ~ deleted
       /\ number < MaxOccurrence
       /\ occurrences' = [occurrences EXCEPT ![number + 1] =
              NewOccurrence(NextWorkingDay(anchor), series.load, anchor)]
       /\ series' = Bump

Advance(w) ==
    /\ request[w] # None
    /\ request[w].anchor # None
    /\ SeriesRoom
    /\ PlanNext(request[w].number, request[w].anchor + Period, request[w].deleted)
    /\ request' = [request EXCEPT ![w] = None]
    /\ UNCHANGED <<today, hasNPlus1, form>>

\* cancel_task_recurrence, by the employee who created it or a manager.
CancelSeries ==
    /\ SeriesRoom /\ Planned # {}
    /\ form # None /\ form.revision = series.revision
    /\ series.status = "active"
    /\ Stop("cancelled")
    /\ form' = None
    /\ UNCHANGED <<today, hasNPlus1, request>>

-----------------------------------------------------------------------------

\* delete_task_assignments, by a technical administrator: the occurrence, its
\* task and its journal.  The series is left as it is.  The deletion of a task
\* without a series is left out: nothing would remain to follow.
DeleteOccurrence(n) ==
    /\ series # None
    /\ n \in Planned \cap Deletable
    /\ occurrences' = [occurrences EXCEPT ![n] = None]
    /\ request' = [w \in Workers |->
           IF request[w] # None /\ request[w].number = n
           THEN [request[w] EXCEPT !.deleted = TRUE] ELSE request[w]]
    /\ UNCHANGED <<today, hasNPlus1, series, form>>

NextDay ==
    /\ today < MaxDay
    /\ today' = today + 1
    /\ UNCHANGED <<hasNPlus1, series, occurrences, request, form>>

\* The employee's primary line ends or a new one starts.
Reorganise ==
    /\ hasNPlus1' = ~ hasNPlus1
    /\ UNCHANGED <<today, series, occurrences, request, form>>

Edit(n) ==
    \E start \in Starts, load \in Loads, end \in Ends :
        AttachSeries(n, start, load, end) \/ UpdateSeries(n, start, load, end)

Create ==
    \E start \in Starts, load \in Loads :
        \/ CreateUnique(start, load)
        \/ \E end \in Ends : CreateRecurring(start, load, end)

Next ==
    \/ Create
    \/ \E n \in Numbers : Edit(n) \/ Report(n) \/ SendBack(n) \/ DecideClassic(n)
                          \/ DeleteOccurrence(n)
    \/ \E edit \in ClassicEdits : EditClassic(edit.number, edit.start, edit.load)
    \/ \E w \in Workers :
          \/ \E n \in Numbers : DecideThroughApi(w, n)
          \/ ReadDecided(w) \/ Advance(w) \/ Crash(w)
    \/ LoadForm \/ CancelSeries
    \/ NextDay \/ Reorganise

Spec == Init /\ [][Next]_vars

-----------------------------------------------------------------------------
(* Properties *)

\* Planning only adds: a decision repeated after a reopening, or two workers
\* advancing the same occurrence, never overwrite the work done on the next.
PlanningOnlyAdds ==
    [][\A w \in Workers : request[w] # None /\ request'[w] = None
         => \A n \in Planned : occurrences'[n] = occurrences[n]]_vars

\* Occurrences are planned without gap, each after a decision on the one
\* before, whoever reopened that one meanwhile: only a deletion leaves a gap,
\* and nothing is planned on a deleted occurrence.
SuccessorsFollowDecisions ==
    \A n \in Planned :
        \/ n = 1
        \/ n - 1 \in Planned /\ occurrences[n - 1].decided
        \/ n - 1 \in Deletable \ Planned

\* A stopped series stays stopped and plans nothing, even for a worker that
\* decided an occurrence before the stop.
StoppedForGood ==
    [][series # None /\ series.status # "active"
         => series'.status = series.status /\ Planned' \subseteq Planned]_vars

\* Nobody cancels a series over an occurrence planned after their screen was
\* loaded: planning moves the revision the cancellation checks.
NoBlindCancel ==
    [][CancelSeries => form.revision = series.revision /\ form.last >= Form.last]_vars

\* An occurrence is due before the next one starts, with holidays moving both
\* and edits of either: only an edit that moves the anchor of one of the two
\* after the second was planned, or the dates the classic page gave to one of
\* them, can make them overlap.
OccurrencesDoNotOverlap ==
    \A m, n \in Planned :
        (/\ n = m + 1 /\ occurrences[n].anchor = occurrences[m].anchor + Period
         /\ ~ occurrences[m].moved /\ ~ occurrences[n].moved)
          => occurrences[m].due < occurrences[n].start

\* One occurrence at a time is open.
OneOpenOccurrence ==
    \A m, n \in Planned :
        occurrences[m].phase \notin Terminal /\ occurrences[n].phase \notin Terminal => m = n

\* When every API request has ended, an active series has an occurrence to do.
SeriesGoesOn ==
    /\ series # None => series.status # "active"
    \/ \E w \in Workers : request[w] # None
    \/ \E n \in Planned : occurrences[n].phase \notin Terminal
=============================================================================
