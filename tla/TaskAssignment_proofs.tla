------------------------ MODULE TaskAssignment_proofs ------------------------
(***************************************************************************)
(* Theorems about TaskAssignment for every set of users, days, percentages *)
(* and contents, and every bound.                                          *)
(***************************************************************************)
EXTENDS TaskAssignment, TLAPS, FiniteSetTheorems, WellFoundedInduction

-----------------------------------------------------------------------------
(* The latest day of the progress series *)

\* A non-empty set of days has a latest one: among the sets of the days from
\* d on, one is minimal for strict inclusion.
LEMMA LatestExists ==
    ASSUME NEW S \in SUBSET Days, S # {}
    PROVE  \E d \in S : \A e \in S : e <= d
<1> DEFINE From(d) == {e \in S : d <= e}
           T == {From(d) : d \in S}
           Sub == StrictSubsetOrdering(Days)
<1>1. S \subseteq Int
  BY LinesAssumption DEF Days
<1>2. \E x \in T : \A y \in T : ~ (<<y, x>> \in Sub)
  <2>1. IsFiniteSet(Days)
    BY LinesAssumption, FS_Interval DEF Days
  <2>2. T \subseteq FiniteSubsetsOf(Days) /\ T # {}
    <3>1. \A d \in S : From(d) \in SUBSET Days
      OBVIOUS
    <3>2. \A U \in SUBSET Days : IsFiniteSet(U)
      BY <2>1, FS_Subset
    <3> HIDE DEF From
    <3> QED BY <3>1, <3>2 DEF FiniteSubsetsOf
  <2>3. IsWellFoundedOn(Sub, FiniteSubsetsOf(Days))
    BY FS_StrictSubsetOrderingWellFounded
  <2> HIDE DEF T, Sub
  <2> QED BY <2>2, <2>3, WFMin
<1>3. PICK d \in S : \A y \in T : ~ (<<y, From(d)>> \in Sub)
  BY <1>2
<1>4. ASSUME NEW e \in S, d < e
      PROVE  FALSE
  <2>1. /\ \A x \in S : e <= x => d <= x
        /\ d <= d /\ ~ (e <= d)
    BY <1>1, <1>4
  <2>2. From(e) \subseteq From(d) /\ From(e) # From(d)
    BY <2>1
  <2>3. <<From(e), From(d)>> \in Sub
    BY <2>2 DEF StrictSubsetOrdering
  <2> QED BY <1>3, <2>3
<1> QED BY <1>1, <1>4

-----------------------------------------------------------------------------
(* Type correctness *)

\* Every write leaves the reporting lines and the manager alone.
LEMMA SaveFrame ==
    ASSUME TypeOK, NEW via \in Channels, Save(via)
    PROVE  /\ revision' \in 1..MaxRevision
           /\ revision' = revision + 1
           /\ form' \in Form \cup {None}
           /\ administered' = administered
           /\ LinesTypeOK'
           /\ manager' \in Users
  BY AssignmentAssumption DEF TypeOK, LinesTypeOK, Save, FormAfter, lineVars

LEMMA FeedType ==
    ASSUME TypeOK, NEW d \in Days, NEW p \in Percentages
    PROVE  FeedAfterReport(d, p) \in [Days -> Seq(Percentages)]
<1>1. feed[d] \in Seq(Percentages)
  BY DEF TypeOK
<1>2. SubSeq(feed[d], 1, Len(feed[d]) - 1) \in Seq(Percentages)
  BY <1>1
<1> QED BY <1>1, <1>2 DEF FeedAfterReport, TypeOK

\* The supervisors of the lines are users, whatever their dates.
LEMMA ManagersAreUsers ==
    ASSUME TypeOK, NEW day \in Days
    PROVE  PrimaryManagers(day) \subseteq Users
  BY LinesAssumption DEF TypeOK, LinesTypeOK, Line, PrimaryManagers, ActiveLines

LEMMA SetLineType ==
    ASSUME TypeOK, NEW s \in Supervisors, NEW eff \in Days, SetLine(s, eff)
    PROVE  lines' \in SUBSET Line
<1> USE LinesAssumption DEF Line, Days, OpenEnd, OpenLines
<1>1. lines \in SUBSET Line
  BY DEF TypeOK, LinesTypeOK
<1>2. CASE RewriteOpenLine(s, eff)
  BY <1>1, <1>2 DEF RewriteOpenLine
<1>3. CASE ReplaceOpenLine(s, eff)
  <2>1. \A l \in OpenLines : [l EXCEPT !.end = eff - 1] \in Line
    BY <1>1, <1>3 DEF ReplaceOpenLine
  <2>2. [supervisor |-> s, start |-> eff, end |-> OpenEnd] \in Line
    OBVIOUS
  <2> QED BY <1>1, <1>3, <2>1, <2>2 DEF ReplaceOpenLine
<1> QED BY <1>2, <1>3 DEF SetLine

LEMMA EndLineType ==
    ASSUME TypeOK, NEW eff \in Days, EndLine(eff)
    PROVE  lines' \in SUBSET Line
<1> USE LinesAssumption DEF Line, Days, OpenEnd, OpenLines
<1> DEFINE ended(l) == IF l.start > eff - 1 THEN l.start ELSE eff - 1
<1>1. lines \in SUBSET Line
  BY DEF TypeOK, LinesTypeOK
<1>2. PICK l \in OpenLines : lines' = (lines \ {l}) \cup {[l EXCEPT !.end = ended(l)]}
  BY DEF EndLine
<1>3. ended(l) \in 1..OpenEnd
  BY <1>1
<1>4. [l EXCEPT !.end = ended(l)] \in Line
  <2> HIDE DEF ended
  <2> QED BY <1>1, <1>3
<1> QED BY <1>1, <1>2, <1>4

LEMMA TypeInit == Init => TypeOK
<1> SUFFICES ASSUME Init PROVE TypeOK
  OBVIOUS
<1> USE LinesAssumption, AssignmentAssumption DEF Init, LinesInit
<1>1. LinesTypeOK
  BY DEF LinesTypeOK, Days
<1>2. entries \in [Days -> Percentages \cup {None}] /\ feed \in [Days -> Seq(Percentages)]
  OBVIOUS
<1>3. /\ status \in Statuses \cup {"absent"} /\ manager \in Users
      /\ revision \in 1..MaxRevision /\ details \in Details
      /\ decision \in Decisions /\ form \in Form \cup {None}
      /\ administered \in Administrations
  BY DEF Decisions, Administrations
<1>4. completedAt \in BOOLEAN
  BY Zenon
<1> QED BY <1>1, <1>2, <1>3, <1>4 DEF TypeOK

LEMMA TypeStep == TypeOK /\ [Next]_vars => TypeOK'
<1> SUFFICES ASSUME TypeOK, [Next]_vars
             PROVE  TypeOK'
  OBVIOUS
<1> USE LinesAssumption, AssignmentAssumption
<1>1. ASSUME NEW u \in Users, NEW via \in Channels, NEW note \in Texts,
             RecordProgress(u, via, note)
      PROVE  TypeOK'
  <2>1. PICK d \in Days, p \in Percentages : RecordEntry(d, p)
    BY <1>1 DEF RecordProgress
  <2>2. feed' \in [Days -> Seq(Percentages)]
    BY <2>1, FeedType DEF RecordEntry
  <2>3. status' \in Statuses
    BY <2>1, <1>1 
       DEF RecordEntry, StatusAfterReport, Statuses, ActiveStates, RecordProgress
  <2>4. entries' \in [Days -> Percentages \cup {None}]
    BY <2>1 DEF RecordEntry, TypeOK
  <2>5. completedAt' \in BOOLEAN /\ decision' \in Decisions
    BY <2>1 DEF RecordEntry, TypeOK, Decisions
  <2> QED BY <1>1, <2>2, <2>3, <2>4, <2>5, SaveFrame DEF RecordProgress, TypeOK
<1>2. ASSUME NEW u \in Users, NEW via \in Channels, ValidateCompletion(u, via)
      PROVE  TypeOK'
  BY <1>2, SaveFrame DEF ValidateCompletion, TypeOK, Statuses, Decisions
<1>3. ASSUME NEW u \in Users, NEW via \in Channels, NEW reason \in Texts,
             RejectCompletion(u, via, reason)
      PROVE  TypeOK'
  BY <1>3, SaveFrame DEF RejectCompletion, TypeOK, Statuses, ActiveStates, Decisions
<1>4. ASSUME NEW u \in Users, NEW via \in Channels, NEW reason \in Texts,
             CloseEarly(u, via, reason)
      PROVE  TypeOK'
  BY <1>4, SaveFrame DEF CloseEarly, TypeOK, Statuses, Decisions
<1>5. ASSUME NEW u \in Users, NEW via \in Channels, NEW message \in Texts,
             AddObservation(u, via, message)
      PROVE  TypeOK'
  BY <1>5, SaveFrame DEF AddObservation, contentVars, TypeOK
<1>6. ASSUME NEW u \in Users, NEW via \in Channels, NEW new \in Details,
             UpdateDetails(u, via, new)
      PROVE  TypeOK'
  BY <1>6, SaveFrame DEF UpdateDetails, TypeOK
<1>7. ASSUME NEW u \in Users, NEW start \in Days, Create(u, start)
      PROVE  TypeOK'
  <2>1. manager' \in Users
    BY <1>7, ManagersAreUsers DEF Create
  <2> QED BY <1>7, <2>1
          DEF Create, TypeOK, LinesTypeOK, lineVars, Statuses, ActiveStates
<1>8. ASSUME LoadForm
      PROVE  TypeOK'
  BY <1>8 DEF LoadForm, TypeOK, LinesTypeOK, lineVars, contentVars, Form, Content, Contents
<1>9. ASSUME NEW s \in Supervisors, NEW eff \in Days, SetPrimarySupervisor(s, eff)
      PROVE  TypeOK'
  <2>1. manager' \in Users
    BY <1>9 DEF SetPrimarySupervisor, TransferActiveAssignments, TypeOK
  <2>2. lines' \in SUBSET Line
    BY <1>9, SetLineType DEF SetPrimarySupervisor
  <2> QED BY <1>9, <2>1, <2>2
          DEF SetPrimarySupervisor, TypeOK, LinesTypeOK, contentVars
<1>10. ASSUME NEW eff \in Days, ClearPrimarySupervisor(eff)
       PROVE  TypeOK'
  <2>1. lines' \in SUBSET Line
    BY <1>10, EndLineType DEF ClearPrimarySupervisor
  <2> QED BY <1>10, <2>1
          DEF ClearPrimarySupervisor, TypeOK, LinesTypeOK, contentVars
<1>11. ASSUME NextDay
       PROVE  TypeOK'
  BY <1>11 DEF NextDay, TypeOK, LinesTypeOK, contentVars, Days
<1>12. ASSUME Administer
       PROVE  TypeOK'
  <2>1. form' \in Form \cup {None}
    BY <1>12 DEF Administer, TypeOK, Form
  <2>2. status' \in Statuses \cup {"absent"} /\ administered' \in Administrations
    BY <1>12, TypedAssumption DEF Administer, TypeOK, Administrations
  <2>3. completedAt' \in BOOLEAN /\ manager' \in Users /\ revision' \in 1..MaxRevision
    BY <1>12 DEF Administer, TypeOK
  <2> QED BY <1>12, <2>1, <2>2, <2>3 DEF Administer, TypeOK, LinesTypeOK, lineVars
<1>13. ASSUME UNCHANGED vars
       PROVE  TypeOK'
  BY <1>13 DEF vars, lineVars, contentVars, TypeOK, LinesTypeOK
<1> QED BY <1>1, <1>2, <1>3, <1>4, <1>5, <1>6, <1>7, <1>8, <1>9, <1>10, <1>11, <1>12, <1>13
        DEF Next, Write

\* Every reachable state of an assignment is well typed: the lines have
\* consistent dates, forms and feeds hold what the handlers store.
THEOREM TypeCorrect == Spec => []TypeOK
  BY TypeInit, TypeStep, PTL DEF Spec

-----------------------------------------------------------------------------
(* The inductive invariant.  FormIsRecent is what makes revisions mean      *)
(* anything: a form the administration has not saved over carries a         *)
(* revision the row once had, and equal revisions mean equal content,       *)
(* because no service changes the content without incrementing the          *)
(* revision, except Create, before any form.                                *)

FormIsRecent ==
    /\ status = "absent" => form = None
    /\ form # None /\ form.shown # None =>
         /\ form.revision <= revision
         /\ form.revision = revision => form.shown = Content

IInv ==
    /\ TypeOK
    /\ CompletedIsFull
    /\ DecisionOnRecord
    /\ FeedShowsEntries
    /\ FormIsRecent

LEMMA InitIInv == Init => IInv
<1> SUFFICES ASSUME Init PROVE IInv
  OBVIOUS
<1>1. status = "absent" /\ form = None /\ decision = "none" /\ completedAt = FALSE
  BY DEF Init
<1>2. FeedShowsEntries
  BY DEF Init, FeedShowsEntries
<1>3. CompletedIsFull /\ FormIsRecent
  BY <1>1 DEF CompletedIsFull, FormIsRecent
<1>4. DecisionOnRecord
  BY <1>1 DEF DecisionOnRecord
<1> QED BY TypeInit, <1>2, <1>3, <1>4 DEF IInv

\* The day LatestDay chooses is a recorded day, and the last one.
LEMMA LatestIsLast ==
    ASSUME NEW S \in SUBSET Days, S # {},
           NEW m, m = CHOOSE d \in S : \A e \in S : e <= d
    PROVE  m \in S /\ \A e \in S : e <= m
  BY LatestExists

\* A report never leaves a done task below 100 percent: it stays done only on
\* a report of 100, and the latest entry was at 100 already.
LEMMA ReportKeepsFull ==
    ASSUME TypeOK, CompletedIsFull, UNCHANGED administered,
           NEW d \in Days, NEW p \in Percentages, RecordEntry(d, p)
    PROVE  CompletedIsFull'
<1> SUFFICES ASSUME ~ Overruled, status' = "completed"
             PROVE  CurrentProgress' = 100
  BY DEF CompletedIsFull, Overruled
<1> USE AssignmentAssumption
<1>1. status = "completed" /\ p = 100
  BY DEF RecordEntry, StatusAfterReport
<1>2. CurrentProgress = 100
  BY <1>1 DEF CompletedIsFull
<1>3. RecordedDays # {} /\ entries[LatestDay] = 100
  BY <1>2 DEF CurrentProgress
<1>4. p # None /\ entries' = [entries EXCEPT ![d] = p]
  BY DEF RecordEntry
<1>5. RecordedDays' = RecordedDays \cup {d}
  BY <1>4 DEF RecordedDays, TypeOK
<1>6. RecordedDays \in SUBSET Days /\ RecordedDays' \in SUBSET Days /\ RecordedDays' # {}
  BY <1>5 DEF RecordedDays
<1>7. LatestDay \in RecordedDays /\ \A e \in RecordedDays : e <= LatestDay
  BY <1>3, <1>6, LatestIsLast DEF LatestDay
<1>8. LatestDay' \in RecordedDays' /\ \A e \in RecordedDays' : e <= LatestDay'
  BY <1>6, LatestIsLast DEF LatestDay
<1>9. LatestDay' = d \/ LatestDay' = LatestDay
  BY <1>5, <1>6, <1>7, <1>8, LinesAssumption DEF Days
<1>10. entries'[LatestDay'] = 100
  BY <1>1, <1>3, <1>4, <1>5, <1>6, <1>7, <1>9 DEF TypeOK
<1> QED BY <1>6, <1>10 DEF CurrentProgress

\* A correction hides the one activity shown for its day and shows its own.
LEMMA ReportKeepsFeed ==
    ASSUME TypeOK, FeedShowsEntries,
           NEW d \in Days, NEW p \in Percentages, RecordEntry(d, p)
    PROVE  FeedShowsEntries'
<1> USE AssignmentAssumption
<1>1. p # None /\ entries' = [entries EXCEPT ![d] = p] /\ feed' = FeedAfterReport(d, p)
  BY DEF RecordEntry
<1>2. FeedAfterReport(d, p)[d] = <<p>>
  <2>1. CASE entries[d] = None
    <3>1. feed[d] = <<>>
      BY <2>1 DEF FeedShowsEntries
    <3> QED BY <2>1, <3>1 DEF FeedAfterReport, TypeOK
  <2>2. CASE entries[d] # None
    <3>1. feed[d] = <<entries[d]>>
      BY <2>2 DEF FeedShowsEntries
    <3>2. SubSeq(feed[d], 1, Len(feed[d]) - 1) = <<>> /\ feed[d] # <<>>
      BY <3>1
    <3>3. FeedAfterReport(d, p) = [feed EXCEPT ![d] = Append(<<>>, p)]
      BY <2>2, <3>2, Zenon DEF FeedAfterReport
    <3>4. Append(<<>>, p) = <<p>>
      OBVIOUS
    <3> QED BY <3>3, <3>4 DEF TypeOK
  <2> QED BY <2>1, <2>2
<1>3. \A e \in Days \ {d} : FeedAfterReport(d, p)[e] = feed[e]
  BY DEF FeedAfterReport, TypeOK
<1> QED BY <1>1, <1>2, <1>3 DEF FeedShowsEntries, TypeOK

LEMMA ReportKeepsDecision ==
    ASSUME TypeOK, DecisionOnRecord, UNCHANGED administered,
           status \in Statuses \ {"closed_early"},
           NEW d \in Days, NEW p \in Percentages, RecordEntry(d, p)
    PROVE  DecisionOnRecord'
  BY DEF DecisionOnRecord, Overruled, RecordEntry, StatusAfterReport, TypeOK, Decisions

\* Every write moves the row past the revision of any form on screen that the
\* administration has not saved over.
LEMMA SaveKeepsForm ==
    ASSUME TypeOK, FormIsRecent, NEW via \in Channels, Save(via), status' # "absent"
    PROVE  FormIsRecent'
<1>1. form' # None /\ form.shown # None => form' = form /\ form.revision < revision'
  <2>1. form # None /\ form.shown # None
          => form.revision \in Nat /\ form.revision <= revision
    BY DEF TypeOK, Form, FormIsRecent
  <2> QED BY <2>1, AssignmentAssumption DEF Save, FormAfter, TypeOK
<1>4. form' # None => form' = form
  BY DEF Save, FormAfter
<1>2. form' # None /\ form'.shown # None
        => form'.revision < revision' /\ form'.revision \in Nat
  BY <1>1, <1>4 DEF TypeOK, Form
<1>3. revision' \in Nat
  BY SaveFrame
<1> QED BY <1>2, <1>3 DEF FormIsRecent

\* What a write that leaves entries and feed alone has to show.
LEMMA WriteKeepsIInv ==
    ASSUME IInv, NEW via \in Channels, Save(via), TypeOK', status' # "absent",
           UNCHANGED <<entries, feed>>,
           status' = "completed" => status = "completed" \/ CurrentProgress = 100,
           DecisionOnRecord'
    PROVE  IInv'
<1>1. CurrentProgress' = CurrentProgress
  BY DEF CurrentProgress, LatestDay, RecordedDays
<1>2. CompletedIsFull'
  BY <1>1, SaveFrame DEF IInv, CompletedIsFull, Overruled
<1>3. FeedShowsEntries'
  BY DEF IInv, FeedShowsEntries
<1> QED BY <1>2, <1>3, SaveKeepsForm DEF IInv

\* What a step that leaves the content and the form alone has to show.
LEMMA FrameKeepsIInv ==
    ASSUME IInv, TypeOK', UNCHANGED <<contentVars, revision, form, administered>>
    PROVE  IInv'
<1> USE DEF contentVars
<1>1. CurrentProgress' = CurrentProgress /\ Content' = Content
  BY DEF CurrentProgress, LatestDay, RecordedDays, Content
<1> QED BY <1>1 DEF IInv, CompletedIsFull, DecisionOnRecord, Overruled, FeedShowsEntries,
                    FormIsRecent

\* The administration's forms: what was promised holds as long as it held and
\* neither the status nor the date is another.
LEMMA AdministerKeepsIInv ==
    ASSUME IInv, TypeOK', Administer
    PROVE  IInv'
<1>1. CurrentProgress' = CurrentProgress
  BY DEF Administer, CurrentProgress, LatestDay, RecordedDays
<1>2. ~ Overruled' => ~ Overruled /\ status' = status /\ completedAt' = completedAt
  BY DEF Administer, Overruled
<1>3. CompletedIsFull'
  BY <1>1, <1>2 DEF IInv, CompletedIsFull
<1>4. DecisionOnRecord'
  BY <1>2 DEF IInv, DecisionOnRecord, Administer
<1>5. FeedShowsEntries'
  BY DEF IInv, FeedShowsEntries, Administer
<1>6. FormIsRecent'
  <2>1. form' # None => form'.shown = None
    BY DEF Administer, IInv, TypeOK, Form
  <2>2. status' # "absent"
    BY TypedAssumption DEF Administer, Statuses, ActiveStates
  <2> QED BY <2>1, <2>2 DEF FormIsRecent
<1> QED BY <1>3, <1>4, <1>5, <1>6 DEF IInv

LEMMA StepIInv == IInv /\ [Next]_vars => IInv'
<1> SUFFICES ASSUME IInv, [Next]_vars
             PROVE  IInv'
  OBVIOUS
<1>1. TypeOK /\ CompletedIsFull /\ DecisionOnRecord /\ FeedShowsEntries /\ FormIsRecent
  BY DEF IInv
<1>2. TypeOK'
  BY <1>1, TypeStep
<1>3. ASSUME NEW u \in Users, NEW via \in Channels, NEW note \in Texts,
             RecordProgress(u, via, note)
      PROVE  IInv'
  <2>1. PICK d \in Days, p \in Percentages : RecordEntry(d, p)
    BY <1>3 DEF RecordProgress
  <2>2. Save(via) /\ status \in Statuses \ {"closed_early"}
    BY <1>3 DEF RecordProgress
  <2>3. status' # "absent"
    BY <2>1, AssignmentAssumption DEF RecordEntry, StatusAfterReport
  <2>4. UNCHANGED administered
    BY <2>2 DEF Save
  <2> QED BY <1>1, <1>2, <2>1, <2>2, <2>3, <2>4, ReportKeepsFull, ReportKeepsFeed,
             ReportKeepsDecision, SaveKeepsForm
          DEF IInv
<1>4. ASSUME NEW u \in Users, NEW via \in Channels, ValidateCompletion(u, via)
      PROVE  IInv'
  <2>1. DecisionOnRecord'
    BY <1>1, <1>4 DEF ValidateCompletion, DecisionOnRecord, Overruled, Save
  <2> QED BY <1>2, <1>4, <2>1, WriteKeepsIInv DEF ValidateCompletion
<1>5. ASSUME NEW u \in Users, NEW via \in Channels, NEW reason \in Texts,
             RejectCompletion(u, via, reason)
      PROVE  IInv'
  <2>1. DecisionOnRecord'
    BY <1>1, <1>5 DEF RejectCompletion, DecisionOnRecord, Overruled, Save
  <2> QED BY <1>2, <1>5, <2>1, WriteKeepsIInv DEF RejectCompletion
<1>6. ASSUME NEW u \in Users, NEW via \in Channels, NEW reason \in Texts,
             CloseEarly(u, via, reason)
      PROVE  IInv'
  <2>1. DecisionOnRecord'
    BY <1>1, <1>6 DEF CloseEarly, DecisionOnRecord, Overruled, Save
  <2> QED BY <1>2, <1>6, <2>1, WriteKeepsIInv DEF CloseEarly
<1>7. ASSUME NEW u \in Users, NEW via \in Channels, NEW message \in Texts,
             AddObservation(u, via, message)
      PROVE  IInv'
  <2>1. DecisionOnRecord'
    BY <1>1, <1>7 DEF AddObservation, contentVars, DecisionOnRecord, Overruled, Save
  <2> QED BY <1>2, <1>7, <2>1, WriteKeepsIInv DEF AddObservation, contentVars
<1>8. ASSUME NEW u \in Users, NEW via \in Channels, NEW new \in Details,
             UpdateDetails(u, via, new)
      PROVE  IInv'
  <2>1. DecisionOnRecord'
    BY <1>1, <1>8 DEF UpdateDetails, DecisionOnRecord, Overruled, Save
  <2> QED BY <1>2, <1>8, <2>1, WriteKeepsIInv DEF UpdateDetails
<1>9. ASSUME NEW u \in Users, NEW start \in Days, Create(u, start)
      PROVE  IInv'
  <2>1. form' = None /\ status' = "planned"
    BY <1>1, <1>9 DEF Create, FormIsRecent
  <2>2. DecisionOnRecord'
    BY <1>1, <1>9 DEF Create, DecisionOnRecord, Overruled
  <2>3. FeedShowsEntries'
    BY <1>1, <1>9 DEF Create, FeedShowsEntries
  <2>4. CompletedIsFull' /\ FormIsRecent'
    BY <2>1 DEF CompletedIsFull, FormIsRecent
  <2> QED BY <1>2, <2>2, <2>3, <2>4 DEF IInv
<1>10. ASSUME LoadForm
       PROVE  IInv'
  <2>1. /\ status' # "absent" /\ form'.shown = Content' /\ form'.revision = revision'
        /\ revision' \in Int
    BY <1>1, <1>10 DEF LoadForm, contentVars, Content, TypeOK
  <2>2. FormIsRecent'
    BY <2>1 DEF FormIsRecent
  <2>3. CompletedIsFull' /\ DecisionOnRecord' /\ FeedShowsEntries'
    BY <1>1, <1>10
       DEF LoadForm, contentVars, CompletedIsFull, DecisionOnRecord, Overruled, FeedShowsEntries,
           CurrentProgress, LatestDay, RecordedDays
  <2> QED BY <1>2, <2>2, <2>3 DEF IInv
<1>11. ASSUME NEW s \in Supervisors, NEW eff \in Days, SetPrimarySupervisor(s, eff)
       PROVE  IInv'
  BY <1>2, <1>11, FrameKeepsIInv DEF SetPrimarySupervisor
<1>12. ASSUME NEW eff \in Days, ClearPrimarySupervisor(eff)
       PROVE  IInv'
  BY <1>2, <1>12, FrameKeepsIInv DEF ClearPrimarySupervisor
<1>13. ASSUME NextDay
       PROVE  IInv'
  BY <1>2, <1>13, FrameKeepsIInv DEF NextDay
<1>14. ASSUME Administer
       PROVE  IInv'
  BY <1>2, <1>14, AdministerKeepsIInv
<1>15. ASSUME UNCHANGED vars
       PROVE  IInv'
  BY <1>2, <1>15, FrameKeepsIInv DEF vars
<1> QED BY <1>3, <1>4, <1>5, <1>6, <1>7, <1>8, <1>9, <1>10, <1>11, <1>12, <1>13, <1>14, <1>15
        DEF Next, Write

LEMMA InductiveInvariant == Spec => []IInv
  BY InitIInv, StepIInv, PTL DEF Spec

\* A completed task is at 100 percent, whoever corrects which day and in
\* whatever order the reviews and the corrections commit, unless the
\* administration has overruled the services.
THEOREM CompletedIsAlwaysFull == Spec => []CompletedIsFull
<1>1. IInv => CompletedIsFull
  BY DEF IInv
<1> QED BY <1>1, InductiveInvariant, PTL

\* The journal of decisions and the completion date always explain the status,
\* unless the administration has overruled the services.
THEOREM DecisionAlwaysOnRecord == Spec => []DecisionOnRecord
<1>1. IInv => DecisionOnRecord
  BY DEF IInv
<1> QED BY <1>1, InductiveInvariant, PTL

\* Readers see exactly one progress activity for every recorded day, the
\* current one, after any number of corrections.
THEOREM FeedAlwaysShowsEntries == Spec => []FeedShowsEntries
<1>1. IInv => FeedShowsEntries
  BY DEF IInv
<1> QED BY <1>1, InductiveInvariant, PTL

-----------------------------------------------------------------------------
(* Action properties *)

\* One step of NoBlindOverwrite: only a write from the API closes a form, and
\* then the form has the current revision, so the current content.
LEMMA StepNoBlindOverwrite ==
    ASSUME IInv, [Next]_vars, form # None, form' = None, form.shown # None
    PROVE  form.shown = Content
<1>1. ASSUME NEW via \in Channels, Save(via)
      PROVE  form.shown = Content
  BY <1>1 DEF IInv, FormIsRecent, Save, FormAfter, EnsureRevision
<1>2. ASSUME LoadForm \/ Administer
      PROVE  form' \in Form
  <2>1. /\ status \in Statuses \cup {"absent"} /\ details \in Details
        /\ entries \in [Days -> Percentages \cup {None}]
        /\ revision \in 1..MaxRevision /\ form \in Form
    BY DEF IInv, TypeOK
  <2>2. CASE LoadForm
    <3>1. Content \in Contents
      BY <2>1, <2>2 DEF LoadForm, Content, Contents
    <3> QED BY <2>1, <2>2, <3>1 DEF LoadForm, Form
  <2>3. CASE Administer
    BY <2>1, <2>3 DEF Administer, Form
  <2> QED BY <1>2, <2>2, <2>3
<1>3. \/ \E via \in Channels : Save(via)
      \/ LoadForm \/ Administer
      \/ UNCHANGED form
  BY DEF Next, Write, RecordProgress, ValidateCompletion, RejectCompletion, CloseEarly,
         AddObservation, UpdateDetails, Create, SetPrimarySupervisor,
         ClearPrimarySupervisor, NextDay, vars
<1> QED BY <1>1, <1>2, <1>3, NoneIsNoForm

\* An API write never overwrites content its client has not seen, except what the
\* administration saved since the client loaded its form.
THEOREM NeverBlindOverwrite == Spec => NoBlindOverwrite
<1>1. IInv /\ [Next]_vars =>
        [form # None /\ form' = None /\ form.shown # None => form.shown = Content]_vars
  BY StepNoBlindOverwrite
<1> QED BY <1>1, InductiveInvariant, PTL DEF Spec, NoBlindOverwrite

LEMMA StepOneOpenLine == TypeOK /\ OneOpenLine /\ [Next]_vars => OneOpenLine'
<1> SUFFICES ASSUME TypeOK, OneOpenLine, [Next]_vars
             PROVE  OneOpenLine'
  OBVIOUS
<1> USE LinesAssumption DEF Days, OpenEnd, OpenLines
<1>1. \A l \in lines : l \in Line
  BY DEF TypeOK, LinesTypeOK
<1>2. ASSUME NEW s \in Supervisors, NEW eff \in Days, RewriteOpenLine(s, eff)
      PROVE  OneOpenLine'
  BY <1>2 DEF RewriteOpenLine, OneOpenLine
<1>3. ASSUME NEW s \in Supervisors, NEW eff \in Days, ReplaceOpenLine(s, eff)
      PROVE  OneOpenLine'
  <2>1. \A l \in OpenLines : [l EXCEPT !.end = eff - 1].end # OpenEnd
    BY <1>1 DEF Line
  <2> DEFINE opened == [supervisor |-> s, start |-> eff, end |-> OpenEnd]
  <2>2. lines' = (lines \ OpenLines) \cup {[l EXCEPT !.end = eff - 1] : l \in OpenLines}
                   \cup {opened}
    BY <1>3 DEF ReplaceOpenLine
  <2> HIDE DEF opened
  <2>3. \A l \in lines' : l.end = OpenEnd => l = opened
    BY <2>1, <2>2
  <2> QED BY <2>3 DEF OneOpenLine
<1>4. ASSUME NEW eff \in Days, EndLine(eff)
      PROVE  OneOpenLine'
  <2> DEFINE ended(l) == IF l.start > eff - 1 THEN l.start ELSE eff - 1
  <2>1. PICK l \in OpenLines : lines' = (lines \ {l}) \cup {[l EXCEPT !.end = ended(l)]}
    BY <1>4 DEF EndLine
  <2>2. ended(l) # OpenEnd
    BY <1>1 DEF Line
  <2>3. [l EXCEPT !.end = ended(l)].end = ended(l)
    <3> HIDE DEF ended
    <3> QED BY <1>1 DEF Line
  <2> QED BY <2>1, <2>2, <2>3 DEF OneOpenLine
<1>5. ASSUME UNCHANGED lines
      PROVE  OneOpenLine'
  BY <1>5 DEF OneOpenLine
<1>6. \/ \E s \in Supervisors, eff \in Days : SetLine(s, eff)
      \/ \E eff \in Days : EndLine(eff)
      \/ UNCHANGED lines
  BY DEF Next, Write, Save, lineVars, RecordProgress, ValidateCompletion,
         RejectCompletion, CloseEarly, AddObservation, UpdateDetails, Create, LoadForm,
         Administer, SetPrimarySupervisor, ClearPrimarySupervisor, NextDay, vars
<1> QED BY <1>2, <1>3, <1>4, <1>5, <1>6 DEF SetLine

\* The uniqueness constraint on open primary lines is never what stops an edit.
THEOREM AlwaysOneOpenLine == Spec => []OneOpenLine
<1>1. Init => OneOpenLine
  BY DEF Init, LinesInit, OneOpenLine, OpenLines
<1> QED BY <1>1, StepOneOpenLine, TypeCorrect, PTL DEF Spec

\* A replacement leaves one open line, the new supervisor's.
LEMMA SetLineOpens ==
    ASSUME TypeOK, OneOpenLine, NEW s \in Supervisors, NEW eff \in Days, SetLine(s, eff),
           NEW new \in OpenLines'
    PROVE  new.supervisor = s
<1> USE LinesAssumption DEF Days, OpenEnd, OpenLines
<1>1. \A l \in lines : l \in Line
  BY DEF TypeOK, LinesTypeOK
<1>2. CASE RewriteOpenLine(s, eff)
  <2>1. PICK l \in OpenLines : lines' = (lines \ {l}) \cup {[l EXCEPT !.supervisor = s]}
    BY <1>2 DEF RewriteOpenLine
  <2>2. [l EXCEPT !.supervisor = s].supervisor = s
    BY <1>1 DEF Line
  <2> QED BY <2>1, <2>2 DEF OneOpenLine
<1>3. CASE ReplaceOpenLine(s, eff)
  <2>1. \A l \in OpenLines : [l EXCEPT !.end = eff - 1].end # OpenEnd
    BY <1>1 DEF Line
  <2>2. new = [supervisor |-> s, start |-> eff, end |-> OpenEnd]
    <3>1. new \notin {[l EXCEPT !.end = eff - 1] : l \in OpenLines}
      BY <2>1
    <3>2. new \notin lines \ OpenLines
      OBVIOUS
    <3> HIDE DEF OpenLines
    <3>3. new \in lines'
      BY DEF OpenLines
    <3> QED BY <1>3, <3>1, <3>2, <3>3 DEF ReplaceOpenLine
  <2> QED BY <2>2
<1> QED BY <1>2, <1>3 DEF SetLine

LEMMA StepFollowsNPlus1 ==
    ASSUME TypeOK, OneOpenLine, [Next]_vars, lines' # lines,
           NEW old \in OpenLines, NEW new \in OpenLines',
           status \in ActiveStates, manager = old.supervisor
    PROVE  manager' = new.supervisor
<1>1. ASSUME NEW s \in Supervisors, NEW eff \in Days, SetPrimarySupervisor(s, eff)
      PROVE  manager' = new.supervisor
  <2>1. manager' = s
    BY <1>1 DEF SetPrimarySupervisor, TransferActiveAssignments
  <2> QED BY <1>1, <2>1, SetLineOpens DEF SetPrimarySupervisor
<1>2. ASSUME NEW eff \in Days, ClearPrimarySupervisor(eff)
      PROVE  manager' = new.supervisor
  <2>1. new \in OpenLines
    <3> DEFINE ended(l) == IF l.start > eff - 1 THEN l.start ELSE eff - 1
    <3>1. PICK l \in OpenLines : lines' = (lines \ {l}) \cup {[l EXCEPT !.end = ended(l)]}
      BY <1>2 DEF ClearPrimarySupervisor, EndLine
    <3>2. ended(l) # OpenEnd /\ l \in Line
      BY LinesAssumption DEF TypeOK, LinesTypeOK, OpenLines, Line, Days, OpenEnd
    <3>3. [l EXCEPT !.end = ended(l)].end = ended(l)
      <4> HIDE DEF ended
      <4> QED BY <3>2 DEF Line
    <3> QED BY <3>1, <3>2, <3>3 DEF OpenLines
  <2> QED BY <1>2, <2>1 DEF ClearPrimarySupervisor, OneOpenLine
<1>3. \/ \E s \in Supervisors, eff \in Days : SetPrimarySupervisor(s, eff)
      \/ \E eff \in Days : ClearPrimarySupervisor(eff)
      \/ UNCHANGED lines
  BY ZenonT(60) DEF Next, Write, Save, lineVars, RecordProgress, ValidateCompletion,
         RejectCompletion, CloseEarly, AddObservation, UpdateDetails, Create, LoadForm,
         Administer, NextDay, vars
<1> QED BY <1>1, <1>2, <1>3

\* When the N+1 who manages an open task is replaced, the new N+1 manages it.
THEOREM OpenTaskAlwaysFollows == Spec => OpenTaskFollowsNPlus1
<1>1. TypeOK /\ OneOpenLine /\ [Next]_vars =>
        [lines' # lines => \A old \in OpenLines, new \in OpenLines' :
            status \in ActiveStates /\ manager = old.supervisor
              => manager' = new.supervisor]_vars
  BY StepFollowsNPlus1
<1> QED BY <1>1, TypeCorrect, AlwaysOneOpenLine, PTL DEF Spec, OpenTaskFollowsNPlus1

-----------------------------------------------------------------------------
(* Refinement of TaskLifecycle *)

ProgressOK == CurrentProgress \in 0..100

LEMMA ProgressType == TypeOK => ProgressOK
<1> SUFFICES ASSUME TypeOK PROVE CurrentProgress \in 0..100
  BY DEF ProgressOK
<1>1. CASE RecordedDays = {}
  BY <1>1 DEF CurrentProgress
<1>2. CASE RecordedDays # {}
  <2>1. RecordedDays \in SUBSET Days
    BY DEF RecordedDays
  <2>2. LatestDay \in RecordedDays
    BY <1>2, <2>1, LatestIsLast DEF LatestDay
  <2>3. entries[LatestDay] \in Percentages
    BY <2>2 DEF RecordedDays, TypeOK
  <2> QED BY <1>2, <2>3, AssignmentAssumption DEF CurrentProgress
<1> QED BY <1>1, <1>2

LEMMA LifecycleInit == Init => Lifecycle!Init
  BY AssignmentAssumption
     DEF Init, Lifecycle!Init, SeenPhase, SeenProgress, Overruled, Phase, CurrentProgress,
         RecordedDays

\* As long as the administration has not overruled the services, each service is
\* one step of the lifecycle, or none its readers can see.
LEMMA ServiceStep ==
    ASSUME IInv, IInv', ProgressOK', Next, ~ Administer, ~ Overruled, ~ Overruled'
    PROVE  Lifecycle!Next \/ UNCHANGED <<SeenPhase, SeenProgress>>
<1>0. /\ SeenPhase = Phase /\ SeenPhase' = Phase'
      /\ SeenProgress = CurrentProgress /\ SeenProgress' = CurrentProgress'
  BY DEF SeenPhase, SeenProgress
<1>1. CurrentProgress' \in 0..100
  BY DEF ProgressOK
<1>2. ASSUME UNCHANGED entries
      PROVE  UNCHANGED CurrentProgress
  BY <1>2 DEF CurrentProgress, LatestDay, RecordedDays
<1>3. ASSUME UNCHANGED <<status, entries>>
      PROVE  UNCHANGED <<SeenPhase, SeenProgress>>
  BY <1>0, <1>2, <1>3 DEF Phase
<1>4. ASSUME NEW u \in Users, NEW via \in Channels, NEW note \in Texts,
             RecordProgress(u, via, note)
      PROVE  Lifecycle!Report
  <2>1. PICK d \in Days, p \in Percentages : RecordEntry(d, p)
    BY <1>4 DEF RecordProgress
  <2>2. /\ status \in {"planned", "active", "awaiting_validation", "completed"}
        /\ status' = StatusAfterReport(p)
    BY <1>4, <2>1 DEF RecordProgress, RecordEntry, Statuses, ActiveStates
  <2>3. status' = "completed" => CurrentProgress' = 100
    BY DEF IInv, CompletedIsFull
  <2>4. p = 100 \/ p # 100
    OBVIOUS
  <2> QED BY <1>0, <1>1, <2>2, <2>3, <2>4 DEF Phase, Lifecycle!Report, StatusAfterReport
<1>5. ASSUME NEW u \in Users, NEW via \in Channels, ValidateCompletion(u, via)
      PROVE  Lifecycle!Approve
  BY <1>0, <1>2, <1>5 DEF Phase, ValidateCompletion, Lifecycle!Approve
<1>6. ASSUME NEW u \in Users, NEW via \in Channels, NEW reason \in Texts,
             RejectCompletion(u, via, reason)
      PROVE  Lifecycle!SendBack
  BY <1>0, <1>2, <1>6 DEF Phase, RejectCompletion, Lifecycle!SendBack
<1>7. ASSUME NEW u \in Users, NEW via \in Channels, NEW reason \in Texts,
             CloseEarly(u, via, reason)
      PROVE  Lifecycle!Abandon \/ UNCHANGED <<SeenPhase, SeenProgress>>
  BY <1>0, <1>2, <1>7
     DEF Phase, CloseEarly, Lifecycle!Abandon, IInv, TypeOK, Statuses, ActiveStates
<1>8. ASSUME NEW u \in Users, NEW start \in Days, Create(u, start)
      PROVE  Lifecycle!Assign
  BY <1>0, <1>2, <1>8 DEF Phase, Create, Lifecycle!Assign
<1>9. CASE UNCHANGED <<status, entries>>
  BY <1>3, <1>9
<1>10. \/ UNCHANGED <<status, entries>>
       \/ \E u \in Users, via \in Channels :
             \/ \E note \in Texts : RecordProgress(u, via, note)
             \/ ValidateCompletion(u, via)
             \/ \E reason \in Texts : RejectCompletion(u, via, reason)
             \/ \E reason \in Texts : CloseEarly(u, via, reason)
       \/ \E u \in Users, start \in Days : Create(u, start)
  BY DEF Next, Write, AddObservation, UpdateDetails, LoadForm, SetPrimarySupervisor,
         ClearPrimarySupervisor, NextDay, contentVars
<1> QED BY <1>4, <1>5, <1>6, <1>7, <1>8, <1>9, <1>10 DEF Lifecycle!Next

\* Nothing of an overruled task is seen, and overruling is a step of the
\* lifecycle.
LEMMA LifecycleStep ==
    IInv /\ IInv' /\ ProgressOK' /\ [Next]_vars
      => [Lifecycle!Next]_<<SeenPhase, SeenProgress>>
<1> SUFFICES ASSUME IInv, IInv', ProgressOK', [Next]_vars
             PROVE  Lifecycle!Next \/ UNCHANGED <<SeenPhase, SeenProgress>>
  OBVIOUS
<1>1. CASE Administer
  <2>1. CASE Overruled
    <3>1. Overruled'
      BY <1>1, <2>1 DEF Administer, Overruled
    <3> QED BY <2>1, <3>1 DEF SeenPhase, SeenProgress
  <2>2. CASE ~ Overruled /\ Overruled'
    <3>1. SeenPhase' = "overruled" /\ SeenProgress' = 0
      BY <2>2 DEF SeenPhase, SeenProgress
    <3>2. SeenPhase \in {"open", "review", "done", "abandoned"}
      BY <1>1, <2>2
         DEF SeenPhase, Phase, Administer, IInv, TypeOK, Statuses, ActiveStates
    <3> QED BY <3>1, <3>2 DEF Lifecycle!Next, Lifecycle!Overrule
  <2>3. CASE ~ Overruled'
    <3>1. ~ Overruled /\ UNCHANGED <<status, entries>>
      BY <1>1, <2>3 DEF Administer, Overruled
    <3>2. UNCHANGED CurrentProgress
      BY <3>1 DEF CurrentProgress, LatestDay, RecordedDays
    <3>3. Phase' = Phase
      BY <3>1 DEF Phase
    <3> QED BY <2>3, <3>1, <3>2, <3>3 DEF SeenPhase, SeenProgress
  <2> QED BY <2>1, <2>2, <2>3
<1>2. CASE Next /\ ~ Administer
  <2>1. UNCHANGED administered
    BY <1>2, ZenonT(60)
       DEF Next, Write, Save, RecordProgress, ValidateCompletion, RejectCompletion,
           CloseEarly, AddObservation, UpdateDetails, Create, LoadForm,
           SetPrimarySupervisor, ClearPrimarySupervisor, NextDay
  <2>2. CASE Overruled
    BY <2>1, <2>2 DEF SeenPhase, SeenProgress, Overruled
  <2>3. CASE ~ Overruled
    BY <1>2, <2>1, <2>3, ServiceStep DEF Overruled
  <2> QED BY <2>2, <2>3
<1>3. CASE UNCHANGED vars
  <2>1. UNCHANGED <<status, entries, administered>>
    BY <1>3 DEF vars, contentVars
  <2>2. UNCHANGED CurrentProgress
    BY <2>1 DEF CurrentProgress, LatestDay, RecordedDays
  <2> QED BY <2>1, <2>2 DEF SeenPhase, SeenProgress, Phase, Overruled
<1> QED BY <1>1, <1>2, <1>3

\* The assignment implements TaskLifecycle for every instance.
THEOREM ImplementsLifecycle == Spec => LifecycleSpec
  BY LifecycleInit, LifecycleStep, ProgressType, TypeCorrect, InductiveInvariant, PTL
     DEF Spec, LifecycleSpec, Lifecycle!Spec
=============================================================================
