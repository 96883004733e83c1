------------------------ MODULE TaskRecurrence_proofs ------------------------
(***************************************************************************)
(* Theorems about WorkCalendar and TaskRecurrence for any calendar, load,  *)
(* number of workers, of occurrences and of revisions.                     *)
(*                                                                         *)
(* What orders the series is its planning: it adds after the last          *)
(* occurrence only, on a decided one, and moves the revision.  What orders *)
(* the dates is that a due date is a working day: if it falls before the   *)
(* effective start of the next occurrence, it falls before its anchor.     *)
(***************************************************************************)
EXTENDS TaskRecurrence, TLAPS, FiniteSetTheorems, WellFoundedInduction

-----------------------------------------------------------------------------
(* Numbers *)

LEMMA Least ==
    ASSUME NEW S \in SUBSET Nat, S # {}
    PROVE  \E m \in S : \A k \in S : m <= k
<1> DEFINE R == {ss \in Nat \X Nat : ss[1] < ss[2]}
<1>1. IsWellFoundedOn(R, Nat)
  BY NatLessThanWellFounded DEF OpToRel
<1>2. \A x, y \in Nat : y < x => <<y, x>> \in R
  OBVIOUS
<1> HIDE DEF R
<1>3. PICK x \in S : \A y \in S : ~ (<<y, x>> \in R)
  BY <1>1, WFMin
<1>4. ASSUME NEW k \in S PROVE x <= k
  <2>1. x \in Nat /\ k \in Nat /\ ~ (k < x)
    BY <1>2, <1>3
  <2> QED BY <2>1
<1> QED BY <1>4

\* The occurrences that are planned have a last one.
LEMMA LastExists ==
    ASSUME Planned # {}
    PROVE  \E n \in Planned : IsLast(n)
<1> DEFINE Above == {k \in Nat : \A n \in Planned : n <= k}
<1>1. Planned \subseteq Nat /\ Above \subseteq Nat /\ MaxOccurrence \in Above
  BY RecurrenceAssumption DEF Planned, Numbers
<1>2. PICK m \in Above : \A k \in Above : m <= k
  BY <1>1, Least
<1>3. CASE m \in Planned
  BY <1>2, <1>3 DEF IsLast
<1>4. CASE m \notin Planned
  <2>1. \A n \in Planned : n \in Nat /\ n <= m /\ n # m
    BY <1>1, <1>2, <1>4
  <2>2. m \in Nat /\ m # 0
    BY <2>1, <1>2
  <2>3. m - 1 \in Above
    BY <2>1, <2>2
  <2> QED BY <2>2, <2>3, <1>2
<1> QED BY <1>3, <1>4

-----------------------------------------------------------------------------
(* The working calendar *)

\* next_working_day ends, on the first working day.
LEMMA NextWorkingDayIsFirst ==
    ASSUME NEW day \in Dates
    PROVE  /\ NextWorkingDay(day) \in Dates
           /\ NextWorkingDay(day) >= day
           /\ IsWorkingDay(NextWorkingDay(day))
           /\ \A e \in Int : e >= day /\ IsWorkingDay(e) => NextWorkingDay(day) <= e
<1> DEFINE S == {d \in day..(day + MaxDay) : IsWorkingDay(d)}
           First(d) == IsWorkingDay(d) /\ \A e \in day..(d - 1) : ~ IsWorkingDay(e)
<1>1. day \in Nat \ {0} /\ MaxDay \in Nat \ {0} /\ Closed \subseteq 1..MaxDay
  BY CalendarAssumption DEF Dates
<1>2. day + MaxDay \in S
  BY <1>1 DEF IsWorkingDay
<1>3. S \in SUBSET Nat
  BY <1>1
<1>4. PICK m \in S : \A k \in S : m <= k
  BY <1>2, <1>3, Least
<1>5. First(m)
  BY <1>1, <1>4
<1>6. \E d \in day..(day + MaxDay) : First(d)
  BY <1>4, <1>5
<1>7. NextWorkingDay(day) = CHOOSE d \in day..(day + MaxDay) : First(d)
  BY DEF NextWorkingDay
<1>8. NextWorkingDay(day) \in day..(day + MaxDay) /\ First(NextWorkingDay(day))
  BY <1>6, <1>7
<1> QED BY <1>8, <1>1 DEF Dates

\* due_date_for ends, on a working day, not before the start.
LEMMA DueDateIsWorked ==
    ASSUME NEW start \in Dates, NEW load \in Nat \ {0}
    PROVE  /\ DueDateFor(start, load) \in Dates
           /\ DueDateFor(start, load) >= start
           /\ IsWorkingDay(DueDateFor(start, load))
           /\ Cardinality(WorkingDaysAfter(start, DueDateFor(start, load))) = load
<1> DEFINE W(d) == WorkingDaysAfter(start, d)
           end == start + load + MaxDay
           S == {d \in start..end : Cardinality(W(d)) >= load}
           Reached(d) == IsWorkingDay(d) /\ Cardinality(W(d)) = load
<1>1. /\ start \in Nat \ {0} /\ MaxDay \in Nat \ {0} /\ Closed \subseteq 1..MaxDay
      /\ end \in Nat /\ end >= start
  BY CalendarAssumption DEF Dates
<1>2. ASSUME NEW d \in Int
      PROVE  IsFiniteSet(W(d)) /\ Cardinality(W(d)) \in Nat
  <2>1. IsFiniteSet((start + 1)..d)
    BY <1>1, FS_Interval
  <2>2. W(d) \subseteq (start + 1)..d
    BY DEF WorkingDaysAfter
  <2> QED BY <2>1, <2>2, FS_Subset, FS_CardinalityType
<1>3. Cardinality(W(start)) = 0
  <2>1. W(start) = {}
    BY <1>1 DEF WorkingDaysAfter
  <2> QED BY <2>1, FS_EmptySet
<1>4. ASSUME NEW d \in (start + 1)..end
      PROVE  Cardinality(W(d)) = Cardinality(W(d - 1)) + (IF IsWorkingDay(d) THEN 1 ELSE 0)
  <2>1. d \notin W(d - 1)
    BY <1>1 DEF WorkingDaysAfter
  <2>2. CASE IsWorkingDay(d)
    <3>1. W(d) = W(d - 1) \cup {d}
      BY <1>1, <2>2 DEF WorkingDaysAfter
    <3>2. IsFiniteSet(W(d - 1)) /\ Cardinality(W(d - 1)) \in Nat
      BY <1>1, <1>2
    <3> HIDE DEF W
    <3>3. Cardinality(W(d - 1) \cup {d}) = Cardinality(W(d - 1)) + 1
      BY <3>2, <2>1, FS_AddElement
    <3> QED BY <3>1, <3>3, <2>2
  <2>3. CASE ~ IsWorkingDay(d)
    <3>1. W(d) = W(d - 1)
      BY <1>1, <2>3 DEF WorkingDaysAfter
    <3>2. Cardinality(W(d)) \in Nat
      BY <1>1, <1>2
    <3> QED BY <3>1, <3>2, <2>3
  <2> QED BY <2>2, <2>3
<1>5. Cardinality(W(end)) >= load
  <2> DEFINE all == (start + 1)..end
             off == all \cap Closed
  <2>1. IsFiniteSet(all) /\ Cardinality(all) = load + MaxDay
    BY <1>1, FS_Interval
  <2>2. IsFiniteSet(1..MaxDay) /\ Cardinality(1..MaxDay) = MaxDay
    BY <1>1, FS_Interval
  <2>3. IsFiniteSet(off) /\ Cardinality(off) <= MaxDay
    BY <2>2, <1>1, FS_Subset
  <2>4. W(end) = all \ off
    BY DEF WorkingDaysAfter, IsWorkingDay
  <2>5. all \cap off = off
    OBVIOUS
  <2> HIDE DEF all, off
  <2>6. Cardinality(W(end)) = Cardinality(all) - Cardinality(off)
    BY <2>1, <2>4, <2>5, FS_Difference
  <2>7. Cardinality(off) \in Nat
    BY <2>3, FS_CardinalityType
  <2> QED BY <2>1, <2>3, <2>6, <2>7, <1>1
<1> HIDE DEF W, end
<1>6. PICK m \in S : \A k \in S : m <= k
  <2>1. S \in SUBSET Nat /\ end \in S
    BY <1>1, <1>5
  <2> QED BY <2>1, Least
<1>7. m \in (start + 1)..end /\ m - 1 \in start..end /\ m - 1 \notin S
  BY <1>1, <1>3, <1>6
<1>8. Cardinality(W(m - 1)) < load /\ Cardinality(W(m)) >= load
      /\ Cardinality(W(m - 1)) \in Nat
  BY <1>1, <1>2, <1>6, <1>7
<1>9. Reached(m)
  BY <1>4, <1>7, <1>8
<1>10. \E d \in start..end : Reached(d)
  BY <1>6, <1>9
<1>11. DueDateFor(start, load) = CHOOSE d \in start..end : Reached(d)
  BY DEF DueDateFor, W, end
<1>12. DueDateFor(start, load) \in start..end /\ Reached(DueDateFor(start, load))
  BY <1>10, <1>11
<1> QED BY <1>12, <1>1 DEF Dates, W

\* A due date that precedes the effective start of the next occurrence
\* precedes every day from the anchor of the next occurrence on.
LEMMA FittingIsBeforeTheAnchor ==
    ASSUME NEW due \in Dates, NEW anchor \in Dates, IsWorkingDay(due),
           FitsPeriod(due, anchor)
    PROVE  due < anchor + Period
<1>1. anchor + Period \in Dates /\ due \in Int
  BY CalendarAssumption DEF Dates
<1>2. due < NextWorkingDay(anchor + Period) /\ NextWorkingDay(anchor + Period) \in Dates
  BY <1>1, NextWorkingDayIsFirst DEF FitsPeriod
<1>3. due >= anchor + Period => NextWorkingDay(anchor + Period) <= due
  BY <1>1, NextWorkingDayIsFirst
<1> QED BY <1>1, <1>2, <1>3 DEF Dates

-----------------------------------------------------------------------------
(* The inductive invariant *)

\* A task without a series is alone, and nobody's screen shows a series.
UniqueIsAlone == series = None => Planned \subseteq {1} /\ form = None

\* A screen that still holds the revision of the series shows its last
\* occurrence.
ScreensAreBehind ==
    form # None =>
        /\ form.revision <= series.revision
        /\ form.revision = series.revision => \A n \in Planned : n <= form.last

\* A request advances from an occurrence that was decided, or that is deleted.
RequestsAreDecided ==
    \A w \in Workers : request[w] # None /\ ~ request[w].deleted
        => request[w].number \in Planned /\ occurrences[request[w].number].decided

\* An occurrence that the classic page has not moved is due on a working day,
\* starts on its anchor or on the first working day from there, and is due before
\* the next one would start.
Fits(o) == ~ o.moved =>
    /\ IsWorkingDay(o.due)
    /\ o.start \in {o.anchor, NextWorkingDay(o.anchor)}
    /\ series # None => FitsPeriod(o.due, o.anchor)

SchedulesFit == \A n \in Planned : Fits(occurrences[n])

IInv ==
    /\ TypeOK
    /\ UniqueIsAlone
    /\ ScreensAreBehind
    /\ RequestsAreDecided
    /\ SuccessorsFollowDecisions
    /\ SchedulesFit

-----------------------------------------------------------------------------
(* What the actions write *)

LEMMA Constants ==
    /\ MaxOccurrence \in Nat \ {0} /\ 1 \in Numbers
    /\ MaxRevision \in Nat \ {0}
    /\ Numbers \subseteq Nat
    /\ Starts \subseteq Dates /\ Loads \subseteq Nat \ {0} /\ Ends \subseteq Dates
    /\ Period \in Nat \ {0}
BY RecurrenceAssumption, CalendarAssumption DEF Numbers, Dates

LEMMA ClassicEditsAre ==
    \A edit \in ClassicEdits :
        edit.number \in Numbers /\ edit.start \in Starts /\ edit.load \in Loads
BY RecurrenceAssumption DEF Numbers

LEMMA NoneIsNoRow ==
    /\ None \notin Dates /\ None \notin Occurrence /\ None \notin Series
    /\ None \notin Request /\ None \notin Screen
BY NoneIsNothing

\* Writing one occurrence of the series.
LEMMA OneWritten ==
    ASSUME TypeOK, NEW n \in Numbers, NEW o \in Occurrence \cup {None},
           occurrences' = [occurrences EXCEPT ![n] = o]
    PROVE  /\ occurrences' \in [Numbers -> Occurrence \cup {None}]
           /\ occurrences'[n] = o
           /\ \A m \in Numbers : m # n => occurrences'[m] = occurrences[m]
           /\ o # None => Planned' = Planned \cup {n}
           /\ o = None => Planned' = Planned \ {n}
BY DEF TypeOK, Planned

LEMMA PlannedType ==
    ASSUME TypeOK, NEW n \in Planned
    PROVE  n \in Numbers /\ n \in Nat /\ occurrences[n] \in Occurrence
BY Constants DEF TypeOK, Planned

\* A new occurrence, and a new schedule, are due on a working day.
LEMMA Scheduled ==
    ASSUME NEW start \in Dates, NEW load \in Nat \ {0}, NEW anchor \in Dates
    PROVE  /\ NewOccurrence(start, load, anchor) \in Occurrence
           /\ NewOccurrence(start, load, anchor).due = DueDateFor(start, load)
           /\ NewOccurrence(start, load, anchor).start = start
           /\ NewOccurrence(start, load, anchor).anchor = anchor
           /\ DueDateFor(start, load) \in Dates
           /\ IsWorkingDay(DueDateFor(start, load))
<1>1. DueDateFor(start, load) \in Dates /\ IsWorkingDay(DueDateFor(start, load))
  BY DueDateIsWorked
<1> QED BY <1>1 DEF NewOccurrence, Occurrence, Phases

LEMMA Bumped ==
    ASSUME TypeOK, SeriesRoom, NEW status \in {"active", "finished", "cancelled"},
           NEW load \in Loads, NEW end \in Ends
    PROVE  /\ series \in Series /\ series.revision \in Nat
           /\ Bump \in Series
           /\ Bump.revision = series.revision + 1
           /\ Bump.status = series.status
           /\ [Bump EXCEPT !.status = status] \in Series
           /\ [Bump EXCEPT !.status = status].revision = series.revision + 1
           /\ [Bump EXCEPT !.status = status].status = status
           /\ [Bump EXCEPT !.load = load, !.end = end] \in Series
           /\ [Bump EXCEPT !.load = load, !.end = end].revision = series.revision + 1
           /\ [Bump EXCEPT !.load = load, !.end = end].status = series.status
<1>1. series \in Series /\ series.revision < MaxRevision
  BY DEF TypeOK, SeriesRoom
<1>2. series.revision + 1 \in 1..MaxRevision /\ series.revision \in Nat
  BY <1>1, Constants DEF Series
<1>3. Bump = [series EXCEPT !.revision = series.revision + 1]
  BY DEF Bump
<1> QED BY <1>1, <1>2, <1>3 DEF Series

-----------------------------------------------------------------------------
(* The invariant is inductive *)

LEMMA InitIInv == Init => IInv
<1> SUFFICES ASSUME Init PROVE IInv
  OBVIOUS
<1>1. Planned = {}
  BY DEF Init, Planned
<1>2. TypeOK
  BY RecurrenceAssumption, CalendarAssumption DEF Init, TypeOK, Days
<1> QED BY <1>1, <1>2 DEF Init, IInv, UniqueIsAlone, ScreensAreBehind,
           RequestsAreDecided, SuccessorsFollowDecisions, SchedulesFit

\* The occurrences a step may write without touching the series: their
\* schedule stays, a decision is not forgotten, a request that appears follows
\* a decision.
LEMMA WorkStep ==
    ASSUME IInv, NEW n \in Planned, NEW o \in Occurrence,
           o.start = occurrences[n].start, o.due = occurrences[n].due,
           o.anchor = occurrences[n].anchor, o.moved = occurrences[n].moved,
           occurrences[n].decided => o.decided,
           occurrences' = [occurrences EXCEPT ![n] = o],
           UNCHANGED <<today, hasNPlus1, series, form>>,
           \/ request' = request
           \/ /\ o.decided
              /\ \E w \in Workers : request' = [request EXCEPT ![w] = NewRequest(n)]
    PROVE  IInv'
<1>1. /\ TypeOK /\ n \in Numbers /\ o # None
      /\ UniqueIsAlone /\ ScreensAreBehind /\ RequestsAreDecided
      /\ SuccessorsFollowDecisions /\ SchedulesFit
  BY PlannedType, NoneIsNoRow DEF IInv
<1>2. /\ occurrences' \in [Numbers -> Occurrence \cup {None}]
      /\ occurrences'[n] = o
      /\ \A m \in Numbers : m # n => occurrences'[m] = occurrences[m]
      /\ Planned' = Planned
      /\ Planned \subseteq Numbers
  <2>1. Planned \subseteq Numbers
    BY DEF Planned
  <2>2. /\ occurrences' \in [Numbers -> Occurrence \cup {None}]
        /\ occurrences'[n] = o
        /\ \A m \in Numbers : m # n => occurrences'[m] = occurrences[m]
        /\ Planned' = Planned \cup {n}
    BY <1>1, OneWritten
  <2> QED BY <2>1, <2>2
<1>3. request' \in [Workers -> Request \cup {None}]
  <2>1. NewRequest(n) \in Request
    BY <1>1 DEF NewRequest, Request
  <2>2. request \in [Workers -> Request \cup {None}]
    BY <1>1 DEF TypeOK
  <2> QED BY <2>1, <2>2
<1>4. TypeOK'
  BY <1>1, <1>2, <1>3 DEF TypeOK
<1>5. UniqueIsAlone' /\ ScreensAreBehind'
  BY <1>1, <1>2 DEF UniqueIsAlone, ScreensAreBehind
<1>6. RequestsAreDecided'
  <2>1. CASE request' = request
    BY <2>1, <1>1, <1>2 DEF RequestsAreDecided
  <2>2. CASE /\ o.decided
             /\ \E w \in Workers : request' = [request EXCEPT ![w] = NewRequest(n)]
    <3>1. NewRequest(n).number = n
      BY DEF NewRequest
    <3>2. \A w \in Workers : request'[w] = request[w] \/ request'[w] = NewRequest(n)
      BY <2>2, <1>1 DEF TypeOK
    <3> QED BY <2>2, <3>1, <3>2, <1>1, <1>2 DEF RequestsAreDecided
  <2> QED BY <2>1, <2>2
<1>7. SuccessorsFollowDecisions'
  BY <1>1, <1>2 DEF SuccessorsFollowDecisions
<1>8. SchedulesFit'
  BY <1>1, <1>2 DEF SchedulesFit, Fits
<1> QED BY <1>4, <1>5, <1>6, <1>7, <1>8 DEF IInv

LEMMA DecideWrites ==
    ASSUME TypeOK, NEW n, Decide(n)
    PROVE  /\ n \in Planned
           /\ \E o \in Occurrence :
                 /\ o.start = occurrences[n].start /\ o.due = occurrences[n].due
                 /\ o.anchor = occurrences[n].anchor /\ o.decided
                 /\ o.moved = occurrences[n].moved
                 /\ occurrences' = [occurrences EXCEPT ![n] = o]
<1>1. PICK phase \in Terminal :
        occurrences' = [occurrences EXCEPT ![n].phase = phase, ![n].decided = TRUE]
  BY DEF Decide
<1> DEFINE o == [occurrences[n] EXCEPT !.phase = phase, !.decided = TRUE]
<1>2. n \in Planned /\ n \in Numbers /\ occurrences[n] \in Occurrence
  BY PlannedType DEF Decide
<1>3. /\ o \in Occurrence
      /\ o.start = occurrences[n].start /\ o.due = occurrences[n].due
      /\ o.anchor = occurrences[n].anchor /\ o.decided
      /\ o.moved = occurrences[n].moved
  BY <1>2 DEF Occurrence, Phases, Terminal
<1>4. occurrences' = [occurrences EXCEPT ![n] = o]
  BY <1>1, <1>2 DEF TypeOK
<1> QED BY <1>2, <1>3, <1>4

\* Reports and reviews move the phase only.
LEMMA PhaseStep ==
    ASSUME IInv, NEW n \in Planned, NEW phase \in Phases,
           occurrences' = [occurrences EXCEPT ![n].phase = phase],
           UNCHANGED <<today, hasNPlus1, series, request, form>>
    PROVE  IInv'
<1> DEFINE o == [occurrences[n] EXCEPT !.phase = phase]
<1>1. n \in Numbers /\ occurrences[n] \in Occurrence /\ TypeOK
  BY PlannedType DEF IInv
<1>2. /\ o \in Occurrence
      /\ o.start = occurrences[n].start /\ o.due = occurrences[n].due
      /\ o.anchor = occurrences[n].anchor /\ o.decided = occurrences[n].decided
      /\ o.moved = occurrences[n].moved
  BY <1>1 DEF Occurrence
<1>3. occurrences' = [occurrences EXCEPT ![n] = o]
  BY <1>1 DEF TypeOK
<1> HIDE DEF o
<1> QED BY <1>2, <1>3, WorkStep

LEMMA ReportStep == ASSUME IInv, NEW n \in Numbers, Report(n) PROVE IInv'
<1>1. n \in Planned /\ \E phase \in Phases :
        occurrences' = [occurrences EXCEPT ![n].phase = phase]
  BY DEF Report, Phases
<1> QED BY <1>1, PhaseStep DEF Report

LEMMA SendBackStep == ASSUME IInv, NEW n \in Numbers, SendBack(n) PROVE IInv'
<1>1. n \in Planned /\ "open" \in Phases
  BY DEF SendBack, Phases
<1> QED BY <1>1, PhaseStep DEF SendBack

LEMMA DecideClassicStep ==
    ASSUME IInv, NEW n \in Numbers, DecideClassic(n) PROVE IInv'
<1>1. TypeOK
  BY DEF IInv
<1> QED BY <1>1, DecideWrites, WorkStep DEF DecideClassic

LEMMA DecideThroughApiStep ==
    ASSUME IInv, NEW w \in Workers, NEW n \in Numbers, DecideThroughApi(w, n)
    PROVE  IInv'
<1>1. TypeOK
  BY DEF IInv
<1>2. \E v \in Workers : request' = [request EXCEPT ![v] = NewRequest(n)]
  BY DEF DecideThroughApi
<1>3. Decide(n) /\ UNCHANGED <<today, hasNPlus1, series, form>>
  BY DEF DecideThroughApi
<1>4. n \in Planned
  BY <1>1, <1>3, DecideWrites
<1>5. PICK o \in Occurrence :
        /\ o.start = occurrences[n].start /\ o.due = occurrences[n].due
        /\ o.anchor = occurrences[n].anchor /\ o.decided
        /\ o.moved = occurrences[n].moved
        /\ occurrences' = [occurrences EXCEPT ![n] = o]
  BY <1>1, <1>3, DecideWrites
<1> QED BY <1>2, <1>3, <1>4, <1>5, WorkStep

\* The first occurrence, of a unique task or of a series that it starts.
LEMMA FirstStep ==
    ASSUME IInv, Planned = {}, series = None,
           NEW start \in Starts, NEW load \in Loads,
           occurrences' = [occurrences EXCEPT ![1] = NewOccurrence(start, load, start)],
           UNCHANGED <<today, hasNPlus1, request, form>>,
           series' \in Series \cup {None},
           series' # None => FitsPeriod(DueDateFor(start, load), start)
    PROVE  IInv'
<1> DEFINE o == NewOccurrence(start, load, start)
<1>1. TypeOK /\ start \in Dates /\ load \in Nat \ {0} /\ 1 \in Numbers /\ form = None
  BY Constants DEF IInv, UniqueIsAlone
<1>2. /\ o \in Occurrence /\ o.due = DueDateFor(start, load)
      /\ o.start = start /\ o.anchor = start
      /\ IsWorkingDay(DueDateFor(start, load))
  BY <1>1, Scheduled
<1> HIDE DEF o
<1>3. o # None /\ occurrences' = [occurrences EXCEPT ![1] = o]
  BY <1>2, NoneIsNoRow DEF o
<1>4. /\ occurrences' \in [Numbers -> Occurrence \cup {None}]
      /\ occurrences'[1] = o
      /\ Planned' = {1}
  <2>1. o \in Occurrence \cup {None}
    BY <1>2
  <2>2. /\ occurrences' \in [Numbers -> Occurrence \cup {None}]
        /\ occurrences'[1] = o
        /\ Planned' = Planned \cup {1}
    <3> DEFINE first == 1
    <3>1. first \in Numbers /\ occurrences' = [occurrences EXCEPT ![first] = o]
      BY <1>1, <1>3
    <3> HIDE DEF first
    <3>2. /\ occurrences' \in [Numbers -> Occurrence \cup {None}]
          /\ occurrences'[first] = o
          /\ Planned' = Planned \cup {first}
      BY <3>1, <2>1, <1>1, <1>3, OneWritten
    <3> QED BY <3>2 DEF first
  <2> QED BY <2>2
<1>5. TypeOK'
  BY <1>1, <1>4 DEF TypeOK
<1>6. UniqueIsAlone' /\ ScreensAreBehind'
  BY <1>1, <1>4 DEF UniqueIsAlone, ScreensAreBehind
<1>7. RequestsAreDecided'
  BY DEF IInv, RequestsAreDecided
<1>8. SuccessorsFollowDecisions'
  BY <1>4 DEF SuccessorsFollowDecisions
<1>9. SchedulesFit'
  BY <1>2, <1>4 DEF SchedulesFit, Fits
<1> QED BY <1>5, <1>6, <1>7, <1>8, <1>9 DEF IInv

LEMMA NewSeriesType ==
    ASSUME NEW load \in Loads, NEW end \in Ends
    PROVE  NewSeries(load, end) \in Series
<1>1. 1 \in 1..MaxRevision
  BY Constants
<1> QED BY <1>1 DEF NewSeries, Series

LEMMA CreateStep == ASSUME IInv, Create PROVE IInv'
<1>1. PICK start \in Starts, load \in Loads :
        \/ CreateUnique(start, load)
        \/ \E end \in Ends : CreateRecurring(start, load, end)
  BY DEF Create
<1>2. CASE CreateUnique(start, load)
  BY <1>2, FirstStep DEF CreateUnique
<1>3. ASSUME NEW end \in Ends, CreateRecurring(start, load, end)
      PROVE  IInv'
  <2>1. NewSeries(load, end) \in Series
    BY NewSeriesType
  <2> QED BY <1>3, <2>1, FirstStep DEF CreateRecurring, ValidSchedule
<1> QED BY <1>1, <1>2, <1>3

\* A new schedule for an occurrence, the same or a new one for the series: with
\* the first series no other occurrence exists.
LEMMA EditStep == ASSUME IInv, NEW n \in Numbers, Edit(n) PROVE IInv'
<1>1. PICK start \in Starts, load \in Loads, end \in Ends :
        AttachSeries(n, start, load, end) \/ UpdateSeries(n, start, load, end)
  BY DEF Edit
<1> DEFINE o == [occurrences[n] EXCEPT !.start = start, !.due = DueDateFor(start, load),
                                       !.anchor = start, !.moved = FALSE]
<1>2. /\ TypeOK /\ n \in Planned /\ occurrences[n] \in Occurrence
      /\ start \in Dates /\ load \in Nat \ {0}
      /\ ValidSchedule(start, load, end)
      /\ Reschedule(n, start, load)
      /\ UNCHANGED <<today, hasNPlus1, request>>
      /\ UniqueIsAlone /\ RequestsAreDecided /\ SuccessorsFollowDecisions
      /\ SchedulesFit
      /\ Planned \subseteq Numbers
  BY <1>1, PlannedType, Constants DEF IInv, AttachSeries, UpdateSeries, Planned
<1>3. DueDateFor(start, load) \in Dates /\ IsWorkingDay(DueDateFor(start, load))
  BY <1>2, DueDateIsWorked
<1>4. /\ o \in Occurrence /\ o # None /\ o.decided = occurrences[n].decided
      /\ o.start = start /\ o.anchor = start /\ o.due = DueDateFor(start, load)
  BY <1>2, <1>3, NoneIsNoRow DEF Occurrence
<1>5. occurrences' = [occurrences EXCEPT ![n] = o]
  BY <1>2 DEF Reschedule
<1> HIDE DEF o
<1>6. /\ occurrences' \in [Numbers -> Occurrence \cup {None}]
      /\ occurrences'[n] = o
      /\ \A m \in Numbers : m # n => occurrences'[m] = occurrences[m]
      /\ Planned' = Planned
  <2>1. /\ occurrences' \in [Numbers -> Occurrence \cup {None}]
        /\ occurrences'[n] = o
        /\ \A m \in Numbers : m # n => occurrences'[m] = occurrences[m]
        /\ Planned' = Planned \cup {n}
    BY <1>2, <1>4, <1>5, OneWritten
  <2> QED BY <2>1, <1>2
<1>7. RequestsAreDecided' /\ SuccessorsFollowDecisions'
  BY <1>2, <1>4, <1>6 DEF RequestsAreDecided, SuccessorsFollowDecisions
<1>8. FitsPeriod(o.due, o.anchor) /\ IsWorkingDay(o.due) /\ o.start = o.anchor
  BY <1>2, <1>3, <1>4 DEF ValidSchedule
<1>9. CASE AttachSeries(n, start, load, end)
  <2>1. series = None /\ series' = NewSeries(load, end) /\ form' = form
    BY <1>9 DEF AttachSeries
  <2>2. series' \in Series /\ series' # None
    BY <2>1, NewSeriesType, NoneIsNoRow
  <2>3. Planned = {n} /\ form = None
    BY <2>1, <1>2 DEF UniqueIsAlone
  <2>4. TypeOK'
    BY <1>2, <1>6, <2>1, <2>2 DEF TypeOK
  <2>5. UniqueIsAlone' /\ ScreensAreBehind'
    BY <2>1, <2>2, <2>3 DEF UniqueIsAlone, ScreensAreBehind
  <2>6. SchedulesFit'
    BY <2>3, <1>6, <1>8 DEF SchedulesFit, Fits
  <2> QED BY <1>7, <2>4, <2>5, <2>6 DEF IInv
<1>10. CASE UpdateSeries(n, start, load, end)
  <2>1. /\ SeriesRoom /\ series # None /\ form' = None
        /\ series' = [Bump EXCEPT !.load = load, !.end = end]
    BY <1>10 DEF UpdateSeries, SeriesRoom
  <2>2. series' \in Series /\ series' # None
    <3>1. [Bump EXCEPT !.load = load, !.end = end] \in Series
      BY <2>1, <1>2, Bumped
    <3> QED BY <3>1, <2>1, NoneIsNoRow
  <2>3. TypeOK'
    BY <1>2, <1>6, <2>1, <2>2 DEF TypeOK
  <2>4. UniqueIsAlone' /\ ScreensAreBehind'
    BY <2>1, <2>2 DEF UniqueIsAlone, ScreensAreBehind
  <2>5. SchedulesFit'
    BY <2>1, <1>2, <1>6, <1>8 DEF SchedulesFit, Fits
  <2> QED BY <1>7, <2>3, <2>4, <2>5 DEF IInv
<1> QED BY <1>1, <1>9, <1>10

\* The classic page moves the dates of one occurrence and nothing else.
LEMMA EditClassicStep ==
    ASSUME IInv, NEW n \in Numbers, NEW start \in Starts, NEW load \in Loads,
           EditClassic(n, start, load)
    PROVE  /\ IInv'
           /\ Planned' = Planned
<1> DEFINE o == [occurrences[n] EXCEPT !.start = start, !.due = DueDateFor(start, load),
                                       !.moved = TRUE]
<1>1. /\ TypeOK /\ n \in Planned /\ occurrences[n] \in Occurrence
      /\ start \in Dates /\ load \in Nat \ {0}
      /\ UNCHANGED <<today, hasNPlus1, series, request, form>>
      /\ occurrences' = [occurrences EXCEPT ![n] = o]
      /\ Planned \subseteq Numbers
  BY PlannedType, Constants DEF IInv, EditClassic, Planned
<1>2. DueDateFor(start, load) \in Dates
  BY <1>1, DueDateIsWorked
<1>3. o \in Occurrence /\ o # None /\ o.decided = occurrences[n].decided /\ o.moved
  BY <1>1, <1>2, NoneIsNoRow DEF Occurrence
<1> HIDE DEF o
<1>4. /\ occurrences' \in [Numbers -> Occurrence \cup {None}]
      /\ occurrences'[n] = o
      /\ \A m \in Numbers : m # n => occurrences'[m] = occurrences[m]
      /\ Planned' = Planned
  <2>1. /\ occurrences' \in [Numbers -> Occurrence \cup {None}]
        /\ occurrences'[n] = o
        /\ \A m \in Numbers : m # n => occurrences'[m] = occurrences[m]
        /\ Planned' = Planned \cup {n}
    BY <1>1, <1>3, OneWritten
  <2> QED BY <2>1, <1>1
<1>5. TypeOK' /\ UniqueIsAlone' /\ ScreensAreBehind'
  BY <1>1, <1>4 DEF IInv, TypeOK, UniqueIsAlone, ScreensAreBehind
<1>6. RequestsAreDecided' /\ SuccessorsFollowDecisions'
  BY <1>1, <1>3, <1>4 DEF IInv, RequestsAreDecided, SuccessorsFollowDecisions
<1>7. SchedulesFit'
  BY <1>1, <1>3, <1>4 DEF IInv, SchedulesFit, Fits
<1> QED BY <1>4, <1>5, <1>6, <1>7 DEF IInv

\* Steps that leave the occurrences and the series, and end or fill requests.
LEMMA RequestStep ==
    ASSUME IInv, NEW w \in Workers, NEW r \in Request \cup {None},
           request[w] # None,
           request' = [request EXCEPT ![w] = r],
           r # None => r.number = request[w].number /\ r.deleted = request[w].deleted,
           UNCHANGED <<today, hasNPlus1, series, occurrences, form>>
    PROVE  IInv'
<1>1. Planned' = Planned
  BY DEF Planned
<1>2. TypeOK'
  BY DEF IInv, TypeOK
<1>3. RequestsAreDecided'
  BY <1>1 DEF IInv, RequestsAreDecided, TypeOK
<1>4. UniqueIsAlone' /\ ScreensAreBehind' /\ SuccessorsFollowDecisions' /\ SchedulesFit'
  BY <1>1 DEF IInv, UniqueIsAlone, ScreensAreBehind, SuccessorsFollowDecisions,
              SchedulesFit, Fits
<1> QED BY <1>2, <1>3, <1>4 DEF IInv

LEMMA ReadDecidedStep ==
    ASSUME IInv, NEW w \in Workers, ReadDecided(w) PROVE IInv'
<1>1. TypeOK /\ request[w] \in Request /\ request[w] # None
  BY DEF ReadDecided, IInv, TypeOK
<1>2. CASE series = None \/ request[w].deleted
  <2>1. request' = [request EXCEPT ![w] = None]
    BY <1>2 DEF ReadDecided
  <2> QED BY <2>1, <1>1, RequestStep DEF ReadDecided
<1>3. CASE ~ (series = None \/ request[w].deleted)
  <2> DEFINE r == [request[w] EXCEPT !.anchor = occurrences[request[w].number].anchor]
  <2>1. request[w].number \in Planned
    BY <1>1, <1>3 DEF IInv, RequestsAreDecided
  <2>2. occurrences[request[w].number].anchor \in Dates
    BY <2>1, <1>1, PlannedType DEF Occurrence
  <2>3. /\ r \in Request /\ r.number = request[w].number
        /\ r.deleted = request[w].deleted
    BY <2>2, <1>1 DEF Request
  <2>4. request' = [request EXCEPT ![w] = r]
    BY <1>3, <1>1 DEF ReadDecided, TypeOK
  <2> HIDE DEF r
  <2> QED BY <2>3, <2>4, <1>1, RequestStep DEF ReadDecided
<1> QED BY <1>2, <1>3

LEMMA CrashStep == ASSUME IInv, NEW w \in Workers, Crash(w) PROVE IInv'
BY RequestStep DEF Crash

-----------------------------------------------------------------------------
(* Planning *)

\* The series stops: its revision moves, its occurrences stay.
LEMMA StopStep ==
    ASSUME IInv, SeriesRoom, NEW status \in {"finished", "cancelled"}, Stop(status),
           form' = form \/ form' = None,
           \/ request' = request
           \/ \E w \in Workers : request' = [request EXCEPT ![w] = None],
           UNCHANGED <<today, hasNPlus1>>
    PROVE  IInv'
<1>1. /\ TypeOK /\ series # None /\ occurrences' = occurrences
      /\ series' = [Bump EXCEPT !.status = status]
      /\ series.revision \in Nat
      /\ series' \in Series /\ series'.revision = series.revision + 1
  <2>1. /\ TypeOK /\ series # None /\ occurrences' = occurrences
        /\ series' = [Bump EXCEPT !.status = status]
    BY DEF Stop, IInv, SeriesRoom
  <2>2. series.load \in Loads /\ series.end \in Ends
    BY <2>1 DEF TypeOK, Series
  <2> QED BY <2>1, <2>2, Bumped
<1>2. Planned' = Planned /\ series' # None
  BY <1>1, NoneIsNoRow DEF Planned
<1>3. /\ request' \in [Workers -> Request \cup {None}]
      /\ \A w \in Workers : request'[w] = request[w] \/ request'[w] = None
  BY <1>1 DEF TypeOK
<1>4. TypeOK'
  BY <1>1, <1>3 DEF TypeOK
<1>5. ScreensAreBehind'
  <2> SUFFICES ASSUME form' # None
               PROVE  form'.revision < series'.revision
                      /\ form'.revision \in Int /\ series'.revision \in Int
    BY DEF ScreensAreBehind
  <2>1. form' = form /\ form \in Screen /\ form.revision <= series.revision
    BY <1>1 DEF IInv, TypeOK, ScreensAreBehind
  <2>2. form.revision \in Int
    BY <2>1, Constants DEF Screen
  <2> QED BY <2>1, <2>2, <1>1
<1>6. RequestsAreDecided'
  BY <1>1, <1>2, <1>3 DEF IInv, RequestsAreDecided
<1>7. UniqueIsAlone' /\ SuccessorsFollowDecisions' /\ SchedulesFit'
  BY <1>1, <1>2 DEF IInv, UniqueIsAlone, SuccessorsFollowDecisions, SchedulesFit, Fits
<1> QED BY <1>4, <1>5, <1>6, <1>7 DEF IInv

\* The next occurrence: planned after the last one, which was decided.
LEMMA PlanStep ==
    ASSUME IInv, NEW w \in Workers, request[w] # None, request[w].anchor # None,
           SeriesRoom,
           ~ NothingToPlan(request[w].number),
           ~ request[w].deleted,
           request[w].number < MaxOccurrence,
           ~ Overlaps(request[w].anchor + Period),
           occurrences' = [occurrences EXCEPT ![request[w].number + 1] =
              NewOccurrence(NextWorkingDay(request[w].anchor + Period), series.load,
                            request[w].anchor + Period)],
           series' = Bump,
           request' = [request EXCEPT ![w] = None],
           UNCHANGED <<today, hasNPlus1, form>>
    PROVE  IInv'
<1> DEFINE number == request[w].number
           next == number + 1
           anchor == request[w].anchor + Period
           start == NextWorkingDay(anchor)
           o == NewOccurrence(start, series.load, anchor)
<1>1. /\ TypeOK /\ series # None /\ request[w] \in Request
      /\ series \in Series
  BY DEF IInv, TypeOK, SeriesRoom
<1>2. /\ next \in Numbers /\ next # 1 /\ number \in Numbers /\ number \in Nat
      /\ anchor \in Dates
      /\ series.load \in Loads /\ series.load \in Nat \ {0} /\ series.end \in Ends
  <2>1. number \in Numbers /\ number \in Nat \ {0}
    BY <1>1, Constants DEF Request, Numbers
  <2>2. number < MaxOccurrence
    OBVIOUS
  <2>3. next \in Numbers /\ next # 1
    BY <2>1, <2>2, Constants DEF Numbers
  <2>4. anchor \in Dates
    BY <1>1, Constants, NoneIsNoRow DEF Request, Dates
  <2>5. series.load \in Loads /\ series.load \in Nat \ {0} /\ series.end \in Ends
    BY <1>1, Constants DEF Series
  <2> QED BY <2>1, <2>3, <2>4, <2>5
<1>3. number \in Planned /\ occurrences[number].decided
  BY DEF IInv, RequestsAreDecided
<1>4. \A n \in Planned : n <= number
  BY <1>2, PlannedType, <1>1 DEF NothingToPlan
<1>5. start \in Dates
  BY <1>2, NextWorkingDayIsFirst
<1>6. /\ o \in Occurrence /\ o.due = DueDateFor(start, series.load)
      /\ o.start = start /\ o.anchor = anchor
      /\ IsWorkingDay(DueDateFor(start, series.load))
  <2> DEFINE load == series.load
  <2>1. o = NewOccurrence(start, load, anchor) /\ load \in Nat \ {0}
    BY <1>2
  <2> HIDE DEF start, anchor, load
  <2>2. /\ NewOccurrence(start, load, anchor) \in Occurrence
        /\ NewOccurrence(start, load, anchor).due = DueDateFor(start, load)
        /\ NewOccurrence(start, load, anchor).start = start
        /\ NewOccurrence(start, load, anchor).anchor = anchor
        /\ IsWorkingDay(DueDateFor(start, load))
    BY <2>1, <1>2, <1>5, Scheduled
  <2> QED BY <2>1, <2>2 DEF load
<1>7. FitsPeriod(o.due, o.anchor)
  BY <1>6 DEF Overlaps
<1>8. o # None /\ occurrences' = [occurrences EXCEPT ![next] = o]
  BY <1>6, NoneIsNoRow
<1>9. series' \in Series /\ series' # None
      /\ series.revision \in Nat /\ series'.revision = series.revision + 1
  <2>1. Bump \in Series /\ series.revision \in Nat /\ Bump.revision = series.revision + 1
    BY <1>1, <1>2, Bumped
  <2> QED BY <2>1, NoneIsNoRow
<1> HIDE DEF o, start, anchor, next, number
<1>10. /\ occurrences' \in [Numbers -> Occurrence \cup {None}]
       /\ occurrences'[next] = o
       /\ \A m \in Numbers : m # next => occurrences'[m] = occurrences[m]
       /\ Planned' = Planned \cup {next}
  <2>1. o \in Occurrence \cup {None}
    BY <1>6
  <2> QED BY <2>1, <1>1, <1>2, <1>8, OneWritten
<1>11. next \notin Planned /\ Planned \subseteq Numbers
       /\ next = number + 1 /\ (\A n \in Planned : n <= number)
  BY <1>2, <1>4 DEF next, Planned
<1>12. TypeOK'
  <2>1. request' \in [Workers -> Request \cup {None}]
    BY <1>1 DEF TypeOK
  <2> QED BY <2>1, <1>1, <1>9, <1>10 DEF TypeOK
<1>13. UniqueIsAlone'
  BY <1>9 DEF UniqueIsAlone
<1>14. ScreensAreBehind'
  <2> SUFFICES ASSUME form # None
               PROVE  form.revision < series'.revision
                      /\ form.revision \in Int /\ series'.revision \in Int
    BY DEF ScreensAreBehind
  <2>1. form \in Screen /\ form.revision <= series.revision
    BY <1>1 DEF IInv, TypeOK, ScreensAreBehind
  <2>2. form.revision \in Int
    BY <2>1, Constants DEF Screen
  <2> QED BY <2>1, <2>2, <1>9
<1>15. RequestsAreDecided'
  <2>1. \A v \in Workers : request'[v] = request[v] \/ request'[v] = None
    BY <1>1 DEF TypeOK
  <2> QED BY <2>1, <1>10, <1>11 DEF IInv, RequestsAreDecided
<1>16. SuccessorsFollowDecisions'
  <2> SUFFICES ASSUME NEW n \in Planned'
               PROVE  \/ n = 1
                      \/ n - 1 \in Planned' /\ occurrences'[n - 1].decided
                      \/ n - 1 \in Deletable \ Planned'
    BY DEF SuccessorsFollowDecisions
  <2>1. CASE n = next
    <3>1. n - 1 = number
      BY <2>1, <1>2, <1>11
    <3>2. number # next
      BY <1>2, <1>11
    <3> QED BY <3>1, <3>2, <1>2, <1>3, <1>10
  <2>2. CASE n # next
    <3>1. n \in Planned /\ n \in Nat /\ n <= number
      BY <2>2, <1>10, <1>11, Constants
    <3>2. n - 1 # next
      BY <3>1, <1>2, <1>11
    <3> QED BY <3>1, <3>2, <1>10, <1>11 DEF IInv, SuccessorsFollowDecisions
  <2> QED BY <2>1, <2>2
<1>17. SchedulesFit'
  <2>1. o.start \in {o.anchor, NextWorkingDay(o.anchor)} /\ IsWorkingDay(o.due)
    BY <1>6 DEF start
  <2> QED BY <2>1, <1>1, <1>7, <1>10, <1>11 DEF IInv, SchedulesFit, Fits
<1> QED BY <1>12, <1>13, <1>14, <1>15, <1>16, <1>17 DEF IInv

LEMMA AdvanceStep ==
    ASSUME IInv, NEW w \in Workers, Advance(w) PROVE IInv'
<1> DEFINE number == request[w].number
           anchor == request[w].anchor + Period
<1>1. /\ request[w] # None /\ request[w].anchor # None /\ SeriesRoom
      /\ PlanNext(number, anchor, request[w].deleted)
      /\ request' = [request EXCEPT ![w] = None]
      /\ UNCHANGED <<today, hasNPlus1, form>>
  BY DEF Advance
<1>2. CASE UNCHANGED <<series, occurrences>>
  BY <1>1, <1>2, RequestStep
<1>3. ASSUME NEW status \in {"finished", "cancelled"}, Stop(status)
      PROVE  IInv'
  BY <1>1, <1>3, StopStep
<1>4. CASE /\ ~ NothingToPlan(number)
           /\ ~ Overlaps(anchor)
           /\ ~ request[w].deleted
           /\ number < MaxOccurrence
           /\ occurrences' = [occurrences EXCEPT ![number + 1] =
                  NewOccurrence(NextWorkingDay(anchor), series.load, anchor)]
           /\ series' = Bump
  BY <1>1, <1>4, PlanStep
<1> HIDE DEF number, anchor
<1> QED BY <1>1, <1>2, <1>3, <1>4 DEF PlanNext

LEMMA CancelStep == ASSUME IInv, CancelSeries PROVE IInv'
BY StopStep DEF CancelSeries

LEMMA DeleteStep ==
    ASSUME IInv, NEW n \in Numbers, DeleteOccurrence(n) PROVE IInv'
<1>1. /\ TypeOK /\ series # None /\ n \in Planned /\ n \in Deletable
      /\ occurrences' = [occurrences EXCEPT ![n] = None]
      /\ UNCHANGED <<today, hasNPlus1, series, form>>
  BY DEF IInv, DeleteOccurrence
<1>2. /\ occurrences' \in [Numbers -> Occurrence \cup {None}]
      /\ \A m \in Numbers : m # n => occurrences'[m] = occurrences[m]
      /\ Planned' = Planned \ {n}
      /\ Planned \subseteq Numbers
  BY <1>1, OneWritten DEF Planned
<1>3. ASSUME NEW w \in Workers
      PROVE  /\ request'[w] \in Request \cup {None}
             /\ request'[w] # None /\ ~ request'[w].deleted
                  => /\ request'[w] = request[w]
                     /\ request[w].number # n
  <2>1. CASE request[w] # None /\ request[w].number = n
    <3>1. request'[w] = [request[w] EXCEPT !.deleted = TRUE] /\ request[w] \in Request
      BY <2>1, <1>1 DEF DeleteOccurrence, TypeOK
    <3> QED BY <3>1 DEF Request
  <2>2. CASE ~ (request[w] # None /\ request[w].number = n)
    <3>1. request'[w] = request[w]
      BY <2>2 DEF DeleteOccurrence
    <3> QED BY <3>1, <2>2, <1>1 DEF TypeOK
  <2> QED BY <2>1, <2>2
<1>4. TypeOK'
  <2>1. request' = [w \in Workers |-> request'[w]]
    BY DEF DeleteOccurrence
  <2>2. request' \in [Workers -> Request \cup {None}]
    BY <2>1, <1>3
  <2> QED BY <2>2, <1>1, <1>2 DEF TypeOK
<1>5. UniqueIsAlone' /\ ScreensAreBehind'
  BY <1>1, <1>2 DEF IInv, UniqueIsAlone, ScreensAreBehind
<1>6. RequestsAreDecided'
  BY <1>2, <1>3 DEF IInv, RequestsAreDecided
<1>7. SuccessorsFollowDecisions'
  BY <1>1, <1>2 DEF IInv, SuccessorsFollowDecisions
<1>8. SchedulesFit'
  BY <1>1, <1>2 DEF IInv, SchedulesFit, Fits
<1> QED BY <1>4, <1>5, <1>6, <1>7, <1>8 DEF IInv

LEMMA LoadFormStep == ASSUME IInv, LoadForm PROVE IInv'
<1>1. PICK n \in Planned : IsLast(n)
  BY LastExists DEF LoadForm
<1>2. IsLast(form'.last) /\ form' = [revision |-> series.revision, last |-> form'.last]
  BY <1>1 DEF LoadForm, Form
<1>3. /\ TypeOK /\ series # None /\ Planned' = Planned
      /\ UNCHANGED <<today, hasNPlus1, series, occurrences, request>>
      /\ form'.revision = series.revision
  BY <1>2 DEF IInv, LoadForm, Planned
<1>4. series \in Series /\ series.revision \in 1..MaxRevision
  BY <1>3 DEF TypeOK, Series
<1>5. form' \in Screen /\ form' # None
  BY <1>2, <1>3, <1>4, NoneIsNoRow DEF Screen, IsLast, Planned
<1>6. TypeOK'
  BY <1>3, <1>5 DEF TypeOK
<1>7. ScreensAreBehind'
  <2>1. series.revision \in Int /\ \A m \in Planned : m <= form'.last
    BY <1>2, <1>4 DEF IsLast
  <2> QED BY <2>1, <1>3 DEF ScreensAreBehind
<1>8. UniqueIsAlone' /\ RequestsAreDecided' /\ SuccessorsFollowDecisions' /\ SchedulesFit'
  BY <1>3 DEF IInv, UniqueIsAlone, RequestsAreDecided, SuccessorsFollowDecisions,
              SchedulesFit, Fits
<1> QED BY <1>6, <1>7, <1>8 DEF IInv

\* The day and the organisation change nothing of the series.
LEMMA WorldStep ==
    ASSUME IInv, today' \in Days, hasNPlus1' \in BOOLEAN,
           UNCHANGED <<series, occurrences, request, form>>
    PROVE  IInv'
<1>1. Planned' = Planned
  BY DEF Planned
<1> QED BY <1>1 DEF IInv, TypeOK, UniqueIsAlone, ScreensAreBehind, RequestsAreDecided,
                    SuccessorsFollowDecisions, SchedulesFit, Fits

LEMMA NextIInv == IInv /\ [Next]_vars => IInv'
<1> SUFFICES ASSUME IInv, [Next]_vars PROVE IInv'
  OBVIOUS
<1>1. today \in Days /\ hasNPlus1 \in BOOLEAN /\ MaxDay \in Nat
  BY CalendarAssumption DEF IInv, TypeOK
<1>2. CASE Create
  BY <1>2, CreateStep
<1>3. ASSUME NEW n \in Numbers,
             Edit(n) \/ Report(n) \/ SendBack(n) \/ DecideClassic(n) \/ DeleteOccurrence(n)
      PROVE  IInv'
  BY <1>3, EditStep, ReportStep, SendBackStep, DecideClassicStep, DeleteStep
<1>4. ASSUME NEW w \in Workers,
             \/ \E n \in Numbers : DecideThroughApi(w, n)
             \/ ReadDecided(w) \/ Advance(w) \/ Crash(w)
      PROVE  IInv'
  BY <1>4, DecideThroughApiStep, ReadDecidedStep, AdvanceStep, CrashStep
<1>5. CASE LoadForm \/ CancelSeries
  BY <1>5, LoadFormStep, CancelStep
<1>6. CASE NextDay
  <2>1. today' \in Days /\ UNCHANGED <<hasNPlus1, series, occurrences, request, form>>
    BY <1>1, <1>6 DEF NextDay, Days
  <2> QED BY <2>1, <1>1, WorldStep
<1>7. CASE Reorganise
  <2>1. hasNPlus1' \in BOOLEAN /\ UNCHANGED <<today, series, occurrences, request, form>>
    BY <1>7 DEF Reorganise
  <2> QED BY <2>1, <1>1, WorldStep
<1>8. ASSUME NEW edit \in ClassicEdits, EditClassic(edit.number, edit.start, edit.load)
      PROVE  IInv'
  BY <1>8, ClassicEditsAre, EditClassicStep
<1>9. CASE UNCHANGED vars
  BY <1>1, <1>9, WorldStep DEF vars
<1> QED BY <1>2, <1>3, <1>4, <1>5, <1>6, <1>7, <1>8, <1>9 DEF Next

THEOREM Inductive == Spec => []IInv
BY InitIInv, NextIInv, PTL DEF Spec

-----------------------------------------------------------------------------
(* Theorems *)

\* Dates, revisions, requests and screens keep their domains: due_date_for and
\* next_working_day give a date, planning respects the bounds.
THEOREM TypeCorrect == Spec => []TypeOK
<1>1. IInv => TypeOK
  BY DEF IInv
<1> QED BY <1>1, Inductive, PTL

\* advance_task_recurrence plans after decisions only and without gap, for any
\* number of workers and however many of them are late.
THEOREM SuccessorsAlwaysFollow == Spec => []SuccessorsFollowDecisions
<1>1. IInv => SuccessorsFollowDecisions
  BY DEF IInv
<1> QED BY <1>1, Inductive, PTL

\* validate_recurrence_schedule and the test of advance_task_recurrence compare
\* the due date with the effective start of the next occurrence: that is enough
\* for any holidays, whether the next one starts there or on its anchor, as long
\* as the classic page dates neither again.
THEOREM OccurrencesNeverOverlap == Spec => []OccurrencesDoNotOverlap
<1>1. IInv => OccurrencesDoNotOverlap
  <2> SUFFICES ASSUME IInv PROVE OccurrencesDoNotOverlap
    OBVIOUS
  <2> SUFFICES ASSUME NEW m \in Planned, NEW n \in Planned,
                      /\ n = m + 1 /\ occurrences[n].anchor = occurrences[m].anchor + Period
                      /\ ~ occurrences[m].moved /\ ~ occurrences[n].moved
               PROVE  occurrences[m].due < occurrences[n].start
    BY Zenon DEF OccurrencesDoNotOverlap
  <2>1. /\ occurrences[m] \in Occurrence /\ occurrences[n] \in Occurrence
        /\ m \in Nat /\ n \in Nat /\ m \in Numbers
    BY PlannedType DEF IInv
  <2>2. series # None
    BY <2>1 DEF IInv, UniqueIsAlone, Numbers
  <2>3. Fits(occurrences[m]) /\ Fits(occurrences[n])
    BY DEF IInv, SchedulesFit
  <2>4. /\ occurrences[m].due \in Dates /\ occurrences[m].anchor \in Dates
        /\ occurrences[n].start \in Dates /\ occurrences[n].anchor \in Dates
    BY <2>1 DEF Occurrence
  <2>5. occurrences[m].due < occurrences[n].anchor
    BY <2>2, <2>3, <2>4, FittingIsBeforeTheAnchor DEF Fits
  <2>6. occurrences[n].anchor <= occurrences[n].start
    BY <2>3, <2>4, NextWorkingDayIsFirst DEF Fits, Dates
  <2> QED BY <2>4, <2>5, <2>6 DEF Dates
<1> QED BY <1>1, Inductive, PTL

\* A worker that ends its request, by planning, by giving up or by dying, leaves
\* every occurrence that exists.
THEOREM PlanningNeverOverwrites == Spec => PlanningOnlyAdds
<1> DEFINE Adds == \A w \in Workers : request[w] # None /\ request'[w] = None
                     => \A n \in Planned : occurrences'[n] = occurrences[n]
<1>1. IInv /\ [Next]_vars => Adds
  <2> SUFFICES ASSUME IInv, [Next]_vars,
                      NEW w \in Workers, request[w] # None, request'[w] = None,
                      NEW n \in Planned
               PROVE  occurrences'[n] = occurrences[n]
    OBVIOUS
  <2>1. TypeOK /\ n \in Numbers /\ n \in Nat
    BY PlannedType DEF IInv
  <2>2. ASSUME NEW m, NewRequest(m) = None, m \in Numbers
        PROVE  FALSE
    <3>1. NewRequest(m) \in Request
      BY <2>2 DEF NewRequest, Request
    <3> QED BY <3>1, <2>2, NoneIsNoRow
  <2>3. request' # request
    OBVIOUS
  <2>4. ASSUME NEW v \in Workers, NEW m \in Numbers, DecideThroughApi(v, m)
        PROVE  FALSE
    BY <2>1, <2>2, <2>4 DEF DecideThroughApi, TypeOK
  <2>5. ASSUME NEW v \in Workers, ReadDecided(v) \/ Crash(v)
        PROVE  occurrences' = occurrences
    BY <2>5 DEF ReadDecided, Crash
  <2>6. ASSUME NEW v \in Workers, Advance(v)
        PROVE  occurrences'[n] = occurrences[n]
    <3>1. CASE occurrences' = occurrences
      BY <3>1
    <3>2. CASE occurrences' # occurrences
      <4>1. PICK o : occurrences' = [occurrences EXCEPT ![request[v].number + 1] = o]
        BY <2>6, <3>2 DEF Advance, PlanNext, Stop
      <4>2. ~ NothingToPlan(request[v].number)
        BY <2>6, <3>2 DEF Advance, PlanNext, Stop
      <4>3. request[v].number \in Nat
        BY <2>1, <2>6, Constants DEF Advance, TypeOK, Request
      <4>4. n # request[v].number + 1
        BY <4>2, <4>3, <2>1 DEF NothingToPlan
      <4> QED BY <4>1, <4>4, <2>1 DEF TypeOK
    <3> QED BY <3>1, <3>2
  <2>7. ASSUME NEW m \in Numbers, DeleteOccurrence(m)
        PROVE  FALSE
    <3>1. request'[w] = request[w] \/ request'[w] = [request[w] EXCEPT !.deleted = TRUE]
      BY <2>7 DEF DeleteOccurrence
    <3>2. request[w] \in Request
      BY <2>1 DEF TypeOK
    <3>3. [request[w] EXCEPT !.deleted = TRUE] \in Request
      BY <3>2 DEF Request
    <3> QED BY <3>1, <3>3, NoneIsNoRow
  <2>8. CASE Create
    BY <2>3, <2>8 DEF Create, CreateUnique, CreateRecurring
  <2>9. ASSUME NEW m \in Numbers,
               Edit(m) \/ Report(m) \/ SendBack(m) \/ DecideClassic(m)
        PROVE  FALSE
    BY <2>3, <2>9 DEF Edit, AttachSeries, UpdateSeries, Report, SendBack, DecideClassic
  <2>10. CASE LoadForm \/ CancelSeries \/ NextDay \/ Reorganise \/ UNCHANGED vars
    BY <2>3, <2>10 DEF LoadForm, CancelSeries, NextDay, Reorganise, vars
  <2>11. ASSUME NEW edit \in ClassicEdits, EditClassic(edit.number, edit.start, edit.load)
         PROVE  FALSE
    BY <2>3, <2>11 DEF EditClassic
  <2> QED BY <2>4, <2>5, <2>6, <2>7, <2>8, <2>9, <2>10, <2>11 DEF Next
<1>2. [][Adds]_vars => PlanningOnlyAdds
  BY PTL DEF PlanningOnlyAdds
<1> QED BY <1>1, <1>2, Inductive, PTL DEF Spec

\* A stopped series stays stopped and gets no occurrence: advance_task_recurrence
\* tests the status on the locked row, whatever the worker knew before.
THEOREM StoppedSeriesPlansNothing == Spec => StoppedForGood
<1> DEFINE Stays == series # None /\ series.status # "active"
                      => series'.status = series.status /\ Planned' \subseteq Planned
<1>1. IInv /\ [Next]_vars => Stays
  <2> SUFFICES ASSUME IInv, [Next]_vars, series # None, series.status # "active"
               PROVE  series'.status = series.status /\ Planned' \subseteq Planned
    OBVIOUS
  <2>1. TypeOK /\ series \in Series /\ series.load \in Loads /\ series.end \in Ends
    BY DEF IInv, TypeOK, Series
  <2>2. CASE UNCHANGED <<series, occurrences>>
    BY <2>2 DEF Planned
  <2>3. ASSUME NEW m \in Planned, NEW o \in Occurrence,
               occurrences' = [occurrences EXCEPT ![m] = o]
        PROVE  Planned' = Planned
    <3>1. m \in Numbers /\ o # None /\ o \in Occurrence \cup {None}
      BY <2>1, PlannedType, NoneIsNoRow
    <3>2. Planned' = Planned \cup {m}
      BY <2>1, <2>3, <3>1, OneWritten
    <3> QED BY <3>2
  <2>4. ASSUME NEW m \in Planned, NEW phase \in Phases,
               occurrences' = [occurrences EXCEPT ![m].phase = phase]
        PROVE  Planned' = Planned
    <3> DEFINE o == [occurrences[m] EXCEPT !.phase = phase]
    <3>1. o \in Occurrence
      BY <2>1, PlannedType DEF Occurrence
    <3>2. occurrences' = [occurrences EXCEPT ![m] = o]
      BY <2>4
    <3> HIDE DEF o
    <3> QED BY <3>1, <3>2, <2>3
  <2>5. ASSUME NEW m, Decide(m) PROVE Planned' = Planned
    BY <2>1, <2>3, <2>5, DecideWrites
  <2>6. ASSUME NEW m \in Numbers, Edit(m)
        PROVE  series'.status = series.status /\ Planned' = Planned
    <3>1. PICK start \in Starts, load \in Loads, end \in Ends :
            UpdateSeries(m, start, load, end)
      BY <2>6 DEF Edit, AttachSeries
    <3> DEFINE o == [occurrences[m] EXCEPT !.start = start, !.due = DueDateFor(start, load),
                                           !.anchor = start, !.moved = FALSE]
    <3>2. m \in Planned /\ start \in Dates /\ load \in Nat \ {0}
          /\ occurrences' = [occurrences EXCEPT ![m] = o]
      BY <3>1, Constants DEF UpdateSeries, Reschedule
    <3>3. DueDateFor(start, load) \in Dates
      BY <3>2, DueDateIsWorked
    <3>4. o \in Occurrence
      BY <2>1, <3>2, <3>3, PlannedType DEF Occurrence
    <3> HIDE DEF o
    <3>5. Planned' = Planned
      BY <3>2, <3>4, <2>3
    <3>6. series' = [Bump EXCEPT !.load = load, !.end = end] /\ SeriesRoom
      BY <3>1 DEF UpdateSeries
    <3> QED BY <3>5, <3>6, <2>1, Bumped
  <2>7. ASSUME NEW m \in Numbers, Report(m) \/ SendBack(m) PROVE Planned' = Planned
    BY <2>4, <2>7 DEF Report, SendBack, Phases
  <2>8. ASSUME NEW m \in Numbers, DeleteOccurrence(m) PROVE Planned' \subseteq Planned
    BY <2>1, <2>8, OneWritten DEF DeleteOccurrence
  <2>9. ASSUME NEW v \in Workers, Advance(v) PROVE UNCHANGED <<series, occurrences>>
    BY <2>9 DEF Advance, PlanNext, NothingToPlan
  <2>10. CASE Create
    BY <2>10 DEF Create, CreateUnique, CreateRecurring
  <2>11. ASSUME NEW m \in Numbers,
                Edit(m) \/ Report(m) \/ SendBack(m) \/ DecideClassic(m) \/ DeleteOccurrence(m)
         PROVE  series'.status = series.status /\ Planned' \subseteq Planned
    BY <2>5, <2>6, <2>7, <2>8, <2>11 DEF Report, SendBack, DecideClassic, DeleteOccurrence
  <2>12. ASSUME NEW v \in Workers,
                \/ \E m \in Numbers : DecideThroughApi(v, m)
                \/ ReadDecided(v) \/ Advance(v) \/ Crash(v)
         PROVE  series'.status = series.status /\ Planned' \subseteq Planned
    BY <2>2, <2>5, <2>9, <2>12 DEF DecideThroughApi, ReadDecided, Crash
  <2>13. CASE LoadForm \/ CancelSeries \/ NextDay \/ Reorganise \/ UNCHANGED vars
    BY <2>2, <2>13 DEF LoadForm, CancelSeries, NextDay, Reorganise, vars
  <2>14. ASSUME NEW edit \in ClassicEdits, EditClassic(edit.number, edit.start, edit.load)
         PROVE  series'.status = series.status /\ Planned' \subseteq Planned
    <3>1. series' = series
      BY <2>14 DEF EditClassic
    <3> QED BY <3>1, <2>14, ClassicEditsAre, EditClassicStep
  <2> QED BY <2>10, <2>11, <2>12, <2>13, <2>14 DEF Next
<1>2. [][Stays]_vars => StoppedForGood
  BY PTL DEF StoppedForGood
<1> QED BY <1>1, <1>2, Inductive, PTL DEF Spec

\* cancel_task_recurrence compares the revision, and planning moves it: whoever
\* cancels has seen the last occurrence.
THEOREM NobodyCancelsBlindly == Spec => NoBlindCancel
<1> DEFINE Seen == CancelSeries => form.revision = series.revision /\ form.last >= Form.last
<1>1. IInv /\ [Next]_vars => Seen
  <2> SUFFICES ASSUME IInv, CancelSeries
               PROVE  form.revision = series.revision /\ form.last >= Form.last
    OBVIOUS
  <2>1. form # None /\ form.revision = series.revision /\ Planned # {}
    BY DEF CancelSeries
  <2>2. \A n \in Planned : n <= form.last
    BY <2>1 DEF IInv, ScreensAreBehind
  <2>3. Form.last = CHOOSE n \in Planned : IsLast(n)
    BY DEF Form
  <2>4. Form.last \in Planned
    BY <2>1, <2>3, LastExists
  <2>5. Form.last \in Int /\ form.last \in Int
    <3>1. form \in Screen /\ Form.last \in Numbers
      BY <2>1, <2>4 DEF IInv, TypeOK, Planned
    <3> HIDE DEF Form
    <3>2. form.last \in Numbers
      BY <3>1 DEF Screen
    <3>3. \A n \in Numbers : n \in Int
      BY Constants
    <3> QED BY <3>1, <3>2, <3>3
  <2> HIDE DEF Form
  <2> QED BY <2>1, <2>2, <2>4, <2>5
<1>2. [][Seen]_vars => NoBlindCancel
  BY PTL DEF NoBlindCancel
<1> QED BY <1>1, <1>2, Inductive, PTL DEF Spec
=============================================================================
