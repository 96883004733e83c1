------------------------- MODULE TaskProposal_proofs -------------------------
(***************************************************************************)
(* Theorems about TaskProposal and TaskCodes for any number of people,     *)
(* plans, proposals, tasks, actions and transactions.                      *)
(*                                                                         *)
(* A proposal that has a task stays accepted unless an administration form *)
(* takes it back.  A counter that is locked by the transaction which reads *)
(* it never falls behind a number it gave.                                 *)
(***************************************************************************)
EXTENDS TaskProposal, TaskCodes, TLAPS, FiniteSetTheorems, WellFoundedInduction

-----------------------------------------------------------------------------
(* The inductive invariant *)

\* The fields of rows, whatever day they are due.
IsRow(r) ==
    /\ {"status", "plan", "due", "revision", "task", "reopened"} \subseteq DOMAIN r
    /\ r.status \in Statuses /\ r.plan \in Plans
    /\ r.revision \in Nat /\ r.reopened \in BOOLEAN

IsTask(r) ==
    /\ {"proposal", "plan", "due", "thawed"} \subseteq DOMAIN r
    /\ r.thawed \in BOOLEAN

IsScreen(s) ==
    /\ {"id", "revision", "plan", "overtaken"} \subseteq DOMAIN s
    /\ s.id \in Ids /\ s.revision \in Nat /\ s.overtaken \in BOOLEAN

RowsAndScreens ==
    /\ submitted \in Nat /\ created \in Nat
    /\ proposals = [p \in Ids |-> proposals[p]]
    /\ tasks = [t \in TaskIds |-> tasks[t]]
    /\ screens = [r \in Supervisors |-> screens[r]]
    /\ \A p \in Live : IsRow(proposals[p])
    /\ \A t \in Made : IsTask(tasks[t])
    /\ \A r \in Supervisors : screens[r] # None => IsScreen(screens[r])
    /\ form # None => form.id \in Ids /\ form.status \in Statuses /\ form.revision \in Nat

\* Ids are given in order, and nothing points at one that was not given.
IdsAreOld ==
    /\ \A p \in Live : p <= submitted
    /\ \A t \in Made : t <= created /\ tasks[t].proposal \in 1..submitted
    /\ \A r \in Supervisors : screens[r] # None => screens[r].id <= submitted

\* A task keeps its proposal accepted, unless a form took it back.
TasksAreAccepted ==
    \A t \in Made : tasks[t].proposal \in Live
        => proposals[tasks[t].proposal].status = "accepted"
           \/ proposals[tasks[t].proposal].reopened

\* A screen that still holds the revision of its proposal shows its plan.
ScreensShowTheirRevision ==
    \A r \in Supervisors :
        screens[r] # None /\ ~ screens[r].overtaken /\ screens[r].id \in Live
        => /\ screens[r].revision <= proposals[screens[r].id].revision
           /\ screens[r].revision = proposals[screens[r].id].revision
                => screens[r].plan = proposals[screens[r].id].plan

IInv ==
    /\ RowsAndScreens
    /\ IdsAreOld
    /\ TasksAreAccepted
    /\ OneTaskPerProposal
    /\ TasksFollowTheirCalendar
    /\ ScreensShowTheirRevision

\* The transaction that holds a number holds its counter, which is not past it.
HeldNumbers ==
    /\ \A t, u \in Allocators :
          allocating[t] # NoCode /\ allocating[u] # NoCode
          /\ allocating[t].action = allocating[u].action => t = u
    /\ \A t \in Allocators : allocating[t] # NoCode
          => sequences[allocating[t].action] <= allocating[t].number

\* What a counter of an action with its own slug has given, it has passed.
GivenNumbersArePassed ==
    \A a \in Actions, n \in Numbers : ~ SharedSlug(Code(a, n))
        => /\ given[Code(a, n)] <= 1
           /\ given[Code(a, n)] = 1 => n < sequences[a]

CodesIInv ==
    /\ sequences \in [Actions -> Nat]
    /\ codes \subseteq Codes
    /\ allocating \in [Allocators -> Allocation \cup {NoCode}]
    /\ given \in [Codes -> Nat]
    /\ HeldNumbers
    /\ GivenNumbersArePassed

BothIInv == IInv /\ CodesIInv

-----------------------------------------------------------------------------
(* Operators *)

LEMMA Least ==
    ASSUME NEW S \in SUBSET Nat, S # {}
    PROVE  \E m \in S : \A k \in S : m <= k
<1> DEFINE R == {ss \in Nat \X Nat : ss[1] < ss[2]}
<1>1. IsWellFoundedOn(R, Nat)
  BY NatLessThanWellFounded DEF OpToRel
<1>2. \A x, y \in Nat : y < x => <<y, x>> \in R
  OBVIOUS
<1> HIDE DEF R
<1>3. PICK x \in S : \A y \in S : ~ (<<y, x>> \in R)
  BY <1>1, WFMin
<1>4. ASSUME NEW k \in S PROVE x <= k
  <2>1. x \in Nat /\ k \in Nat /\ ~ (k < x)
    BY <1>2, <1>3
  <2> QED BY <2>1
<1> QED BY <1>4

\* The least of some naturals is one of them.
LEMMA MinIsIn ==
    ASSUME NEW S \in SUBSET Nat, S # {}
    PROVE  Min(S) \in S
<1>1. \E m \in S : \A k \in S : m <= k
  BY Least
<1> QED BY <1>1 DEF Min

\* The end of a repetition does not move the due date.
LEMMA DueOnce ==
    ASSUME NEW plan \in Plans
    PROVE  Due(Once(plan)) = Due(plan)
<1>1. Once(plan).start = plan.start /\ Once(plan).load = plan.load
  BY ProposalAssumption DEF Once
<1> QED BY <1>1 DEF Due

LEMMA SavedKeeps ==
    ASSUME NEW r, IsRow(r), NEW status \in Statuses, NEW task
    PROVE  /\ IsRow(Saved([r EXCEPT !.status = status]))
           /\ Saved([r EXCEPT !.status = status]).status = status
           /\ Saved([r EXCEPT !.status = status]).plan = r.plan
           /\ Saved([r EXCEPT !.status = status]).reopened = r.reopened
           /\ Saved([r EXCEPT !.status = status]).revision = r.revision + 1
           /\ IsRow(Saved([r EXCEPT !.status = status, !.task = task]))
           /\ Saved([r EXCEPT !.status = status, !.task = task]).status = status
           /\ Saved([r EXCEPT !.status = status, !.task = task]).plan = r.plan
           /\ Saved([r EXCEPT !.status = status, !.task = task]).reopened = r.reopened
           /\ Saved([r EXCEPT !.status = status, !.task = task]).revision = r.revision + 1
<1>1. r.revision + 1 \in Nat /\ r.plan \in Plans /\ r.reopened \in BOOLEAN
  BY DEF IsRow
<1> QED BY <1>1 DEF IsRow, Saved

-----------------------------------------------------------------------------
(* The invariant of TaskProposal is inductive *)

LEMMA Sizes ==
    /\ MaxProposal \in Nat /\ MaxTask \in Nat
    /\ Ids \subseteq Nat /\ TaskIds \subseteq Nat
BY ProposalAssumption DEF Ids, TaskIds

LEMMA InitIInv == Init => IInv
<1> SUFFICES ASSUME Init PROVE IInv
  OBVIOUS
<1>1. Live = {} /\ Made = {}
  BY DEF Init, Live, Made
<1>2. RowsAndScreens
  BY <1>1 DEF Init, RowsAndScreens
<1> QED BY <1>1, <1>2 DEF Init, IInv, IdsAreOld, TasksAreAccepted, OneTaskPerProposal,
           TasksFollowTheirCalendar, ScreensShowTheirRevision

\* A live row is saved by a service: it keeps how it was reopened, moves its
\* revision, and was not an accepted one.
LEMMA SavedStep ==
    ASSUME IInv, NEW p \in Live, NEW row, IsRow(row),
           proposals[p].status # "accepted",
           row.revision = proposals[p].revision + 1,
           row.reopened = proposals[p].reopened,
           proposals' = [proposals EXCEPT ![p] = row],
           UNCHANGED <<nPlus1, closed, adding, submitted, tasks, created, screens, form>>
    PROVE  IInv'
<1>1. /\ p \in Ids /\ IsRow(proposals[p]) /\ proposals[p].revision \in Nat
      /\ proposals' = [q \in Ids |-> proposals'[q]]
      /\ proposals'[p] = row
      /\ \A q \in Ids : q # p => proposals'[q] = proposals[q]
      /\ Live' \subseteq Live /\ Live \subseteq Ids
      /\ Made' = Made
  BY DEF IInv, RowsAndScreens, Live, Made, IsRow
<1>2. RowsAndScreens'
  BY <1>1 DEF IInv, RowsAndScreens
<1>3. IdsAreOld'
  BY <1>1 DEF IInv, IdsAreOld
<1>4. TasksAreAccepted' /\ OneTaskPerProposal'
  BY <1>1 DEF IInv, TasksAreAccepted, OneTaskPerProposal
<1>5. TasksFollowTheirCalendar'
  BY <1>1 DEF IInv, TasksFollowTheirCalendar, Due
<1>6. ScreensShowTheirRevision'
  <2> SUFFICES ASSUME NEW r \in Supervisors, screens[r] # None, ~ screens[r].overtaken,
                      screens[r].id \in Live'
               PROVE  /\ screens[r].revision <= proposals'[screens[r].id].revision
                      /\ screens[r].revision = proposals'[screens[r].id].revision
                           => screens[r].plan = proposals'[screens[r].id].plan
    BY DEF ScreensShowTheirRevision
  <2>1. /\ screens[r].revision \in Nat /\ screens[r].id \in Live
        /\ screens[r].revision <= proposals[screens[r].id].revision
        /\ screens[r].revision = proposals[screens[r].id].revision
             => screens[r].plan = proposals[screens[r].id].plan
    BY <1>1 DEF IInv, RowsAndScreens, IsScreen, ScreensShowTheirRevision
  <2>2. CASE screens[r].id = p
    BY <2>1, <2>2, <1>1
  <2>3. CASE screens[r].id # p
    BY <2>1, <2>3, <1>1
  <2> QED BY <2>2, <2>3
<1> QED BY <1>2, <1>3, <1>4, <1>5, <1>6 DEF IInv

LEMMA CorrectStep ==
    ASSUME IInv, NEW user \in People, NEW p \in Live, NEW plan \in Plans,
           Correct(user, p, plan)
    PROVE  IInv'
<1> DEFINE first == [proposals[p] EXCEPT !.due = Due(plan),
                         !.plan = [plan EXCEPT !.end = proposals[p].plan.end]]
           second == [first EXCEPT !.plan = plan]
           row == Saved(second)
<1>1. IsRow(proposals[p])
  BY DEF IInv, RowsAndScreens
<1>2. /\ {"status", "plan", "due", "revision", "task", "reopened"} \subseteq DOMAIN first
      /\ first.status \in Statuses /\ first.revision \in Nat /\ first.reopened \in BOOLEAN
      /\ first.revision = proposals[p].revision
      /\ first.reopened = proposals[p].reopened
  BY <1>1 DEF IsRow
<1>3. proposals' = [proposals EXCEPT ![p] = row] /\ proposals[p].status # "accepted"
  BY DEF Correct
<1> HIDE DEF first
<1>4. IsRow(row) /\ row.revision = proposals[p].revision + 1
      /\ row.reopened = proposals[p].reopened
  BY <1>2 DEF IsRow, Saved
<1> HIDE DEF row
<1> QED BY <1>3, <1>4, SavedStep DEF Correct

LEMMA ResubmitStep == ASSUME IInv, NEW p \in Live, Resubmit(p) PROVE IInv'
<1> DEFINE row == Saved([proposals[p] EXCEPT !.status = "submitted"])
<1>1. IsRow(proposals[p]) /\ "submitted" \in Statuses
  BY DEF IInv, RowsAndScreens, Statuses
<1>2. IsRow(row) /\ row.revision = proposals[p].revision + 1
      /\ row.reopened = proposals[p].reopened
  BY <1>1, SavedKeeps
<1>3. proposals' = [proposals EXCEPT ![p] = row] /\ proposals[p].status # "accepted"
  BY DEF Resubmit
<1> HIDE DEF row
<1> QED BY <1>2, <1>3, SavedStep DEF Resubmit

LEMMA RejectStep ==
    ASSUME IInv, NEW user \in Supervisors, NEW p \in Live, Reject(user, p) PROVE IInv'
<1> DEFINE row == Saved([proposals[p] EXCEPT !.status = "rejected"])
<1>1. IsRow(proposals[p]) /\ "rejected" \in Statuses
  BY DEF IInv, RowsAndScreens, Statuses
<1>2. IsRow(row) /\ row.revision = proposals[p].revision + 1
      /\ row.reopened = proposals[p].reopened
  BY <1>1, SavedKeeps
<1>3. proposals' = [proposals EXCEPT ![p] = row] /\ proposals[p].status # "accepted"
  BY DEF Reject, Decidable, Pending
<1> HIDE DEF row
<1> QED BY <1>2, <1>3, SavedStep DEF Reject

\* A new proposal, under an id that nothing knows.
LEMMA ProposeStep == ASSUME IInv, NEW plan \in Plans, Propose(plan) PROVE IInv'
<1> DEFINE p == submitted + 1
           row == NewProposal(plan)
<1>1. /\ submitted \in Nat /\ p \in Ids /\ p \in Nat /\ submitted < p
      /\ proposals' = [proposals EXCEPT ![p] = row]
      /\ submitted' = p
      /\ UNCHANGED <<nPlus1, closed, adding, tasks, created, screens, form>>
  BY Sizes DEF Propose, IInv, RowsAndScreens, Ids
<1>2. IsRow(row) /\ row.revision = 1
  BY DEF NewProposal, IsRow, Statuses
<1> HIDE DEF p, row
<1>3. /\ proposals' = [q \in Ids |-> proposals'[q]]
      /\ proposals'[p] = row
      /\ \A q \in Ids : q # p => proposals'[q] = proposals[q]
      /\ Live' \subseteq Live \cup {p} /\ Live \subseteq Ids
      /\ Made' = Made
  BY <1>1 DEF IInv, RowsAndScreens, Live, Made
<1>4. RowsAndScreens'
  BY <1>1, <1>2, <1>3 DEF IInv, RowsAndScreens
<1>5. /\ \A q \in Live : q \in Nat /\ q <= submitted /\ q # p
      /\ \A t \in Made : tasks[t].proposal \in 1..submitted /\ tasks[t].proposal # p
      /\ \A r \in Supervisors : screens[r] # None
            => screens[r].id \in Nat /\ screens[r].id <= submitted /\ screens[r].id # p
  BY <1>1, Sizes DEF IInv, IdsAreOld, RowsAndScreens, IsScreen, Live
<1>6. IdsAreOld'
  BY <1>1, <1>3, <1>5 DEF IInv, IdsAreOld
<1>7. TasksAreAccepted' /\ OneTaskPerProposal'
  BY <1>1, <1>3, <1>5 DEF IInv, TasksAreAccepted, OneTaskPerProposal
<1>8. TasksFollowTheirCalendar'
  BY <1>1, <1>3 DEF IInv, TasksFollowTheirCalendar, Due
<1>9. ScreensShowTheirRevision'
  BY <1>1, <1>3, <1>5 DEF IInv, ScreensShowTheirRevision
<1> QED BY <1>4, <1>6, <1>7, <1>8, <1>9 DEF IInv

LEMMA ReceiveStep ==
    ASSUME IInv, NEW user \in Supervisors, NEW p \in Live, Receive(user, p) PROVE IInv'
<1> DEFINE s == [id |-> p, revision |-> proposals[p].revision, plan |-> proposals[p].plan,
                 overtaken |-> FALSE]
<1>1. /\ p \in Ids /\ p <= submitted /\ IsRow(proposals[p])
      /\ screens' = [screens EXCEPT ![user] = s]
      /\ UNCHANGED <<nPlus1, closed, adding, proposals, submitted, tasks, created, form>>
      /\ Live' = Live /\ Made' = Made
  BY DEF Receive, IInv, RowsAndScreens, IdsAreOld, Live, Made
<1>2. /\ IsScreen(s) /\ s.id = p /\ s.revision = proposals[p].revision
      /\ s.plan = proposals[p].plan /\ s.revision \in Nat
  BY <1>1 DEF IsScreen, IsRow
<1> HIDE DEF s
<1>3. /\ screens' = [r \in Supervisors |-> screens'[r]]
      /\ screens'[user] = s
      /\ \A r \in Supervisors : r # user => screens'[r] = screens[r]
  BY <1>1 DEF IInv, RowsAndScreens
<1>4. RowsAndScreens'
  BY <1>1, <1>2, <1>3 DEF IInv, RowsAndScreens
<1>5. IdsAreOld'
  BY <1>1, <1>2, <1>3 DEF IInv, IdsAreOld
<1>6. TasksAreAccepted' /\ OneTaskPerProposal' /\ TasksFollowTheirCalendar'
  BY <1>1 DEF IInv, TasksAreAccepted, OneTaskPerProposal, TasksFollowTheirCalendar, Due
<1>7. ScreensShowTheirRevision'
  BY <1>1, <1>2, <1>3 DEF IInv, ScreensShowTheirRevision
<1> QED BY <1>4, <1>5, <1>6, <1>7 DEF IInv

\* An acceptance: the pending proposal has no task unless it was reopened.
LEMMA MakeTaskStep ==
    ASSUME IInv, NEW user, NEW p \in Live, NEW plan,
           plan = proposals[p].plan \/ plan = Once(proposals[p].plan),
           Decidable(user, p), MakeTask(p, plan),
           screens' = screens \/ \E r \in Supervisors : screens' = [screens EXCEPT ![r] = None],
           UNCHANGED <<nPlus1, closed, adding, submitted, form>>
    PROVE  IInv'
<1> DEFINE t == created + 1
           task == [proposal |-> p, plan |-> plan, due |-> proposals[p].due, thawed |-> FALSE]
           old == proposals[p]
           row == Saved([old EXCEPT !.status = "accepted", !.task = t])
<1>1. /\ created \in Nat /\ created < t /\ t \in Nat /\ t \in TaskIds
      /\ created' = t
      /\ tasks' = [tasks EXCEPT ![t] = task]
      /\ proposals' = [proposals EXCEPT ![p] = row]
  BY Sizes DEF MakeTask, IInv, RowsAndScreens, TaskIds
<1>2. /\ IsTask(task) /\ task.proposal = p
      /\ task.plan = plan /\ task.due = proposals[p].due
  BY DEF IsTask
<1>3. /\ p \in Ids /\ IsRow(proposals[p]) /\ proposals[p].plan \in Plans
      /\ proposals[p].revision \in Nat /\ p \in 1..submitted
      /\ "accepted" \in Statuses
      /\ submitted \in Nat
  BY Sizes DEF IInv, RowsAndScreens, IdsAreOld, Live, IsRow, Statuses, Ids
<1>4. /\ IsRow(row) /\ row.status = "accepted" /\ row.reopened = proposals[p].reopened
      /\ row.revision = proposals[p].revision + 1
  <2>1. IsRow(old)
    BY <1>3
  <2> HIDE DEF old, t
  <2>2. /\ IsRow(row) /\ row.status = "accepted" /\ row.reopened = old.reopened
        /\ row.revision = old.revision + 1
    BY <2>1, <1>3 DEF IsRow, Saved
  <2> QED BY <2>2 DEF old
<1> HIDE DEF t
<1>5. task.due = Due(task.plan)
  BY <1>2, <1>3, DueOnce DEF Decidable, Valid
<1> HIDE DEF task, row
<1>6. /\ proposals' = [q \in Ids |-> proposals'[q]]
      /\ proposals'[p] = row
      /\ \A q \in Ids : q # p => proposals'[q] = proposals[q]
      /\ Live' \subseteq Live /\ Live \subseteq Ids
  BY <1>1, <1>3 DEF IInv, RowsAndScreens, Live
<1>7. /\ tasks' = [u \in TaskIds |-> tasks'[u]]
      /\ tasks'[t] = task
      /\ \A u \in TaskIds : u # t => tasks'[u] = tasks[u]
      /\ Made' \subseteq Made \cup {t} /\ Made \subseteq TaskIds
      /\ \A u \in Made : u # t /\ u \in Nat /\ u <= created
  BY <1>1, Sizes DEF IInv, RowsAndScreens, IdsAreOld, Made
<1>8. /\ screens' = [r \in Supervisors |-> screens'[r]]
      /\ \A r \in Supervisors : screens'[r] = screens[r] \/ screens'[r] = None
  BY DEF IInv, RowsAndScreens
<1>9. RowsAndScreens'
  BY <1>1, <1>2, <1>4, <1>6, <1>7, <1>8 DEF IInv, RowsAndScreens
<1>10. IdsAreOld'
  BY <1>1, <1>2, <1>3, <1>6, <1>7, <1>8 DEF IInv, IdsAreOld
<1>11. proposals[p].status = "submitted"
  BY DEF Decidable, Pending
<1>12. ASSUME NEW u \in Made, tasks[u].proposal = p
       PROVE  proposals[p].reopened
  BY <1>11, <1>12 DEF IInv, TasksAreAccepted
<1>13. TasksAreAccepted'
  BY <1>2, <1>4, <1>6, <1>7 DEF IInv, TasksAreAccepted
<1>14. OneTaskPerProposal'
  BY <1>2, <1>4, <1>6, <1>7, <1>12 DEF IInv, OneTaskPerProposal
<1>15. TasksFollowTheirCalendar'
  <2> SUFFICES ASSUME NEW u \in Made'
               PROVE  tasks'[u].due = Due(tasks[u].plan)' \/ tasks'[u].thawed
    BY DEF TasksFollowTheirCalendar
  <2>1. CASE u = t
    BY <2>1, <1>5, <1>7 DEF Due
  <2>2. CASE u # t
    BY <2>2, <1>7 DEF IInv, TasksFollowTheirCalendar, Due
  <2> QED BY <2>1, <2>2
<1>16. ScreensShowTheirRevision'
  <2> SUFFICES ASSUME NEW r \in Supervisors, screens'[r] # None, ~ screens'[r].overtaken,
                      screens'[r].id \in Live'
               PROVE  /\ screens'[r].revision <= proposals'[screens'[r].id].revision
                      /\ screens'[r].revision = proposals'[screens'[r].id].revision
                           => screens'[r].plan = proposals'[screens'[r].id].plan
    BY DEF ScreensShowTheirRevision
  <2>1. /\ screens'[r] = screens[r] /\ screens[r].revision \in Nat /\ screens[r].id \in Live
        /\ screens[r].revision <= proposals[screens[r].id].revision
        /\ screens[r].revision = proposals[screens[r].id].revision
             => screens[r].plan = proposals[screens[r].id].plan
    BY <1>6, <1>8 DEF IInv, RowsAndScreens, IsScreen, ScreensShowTheirRevision
  <2>2. CASE screens[r].id = p
    BY <2>1, <2>2, <1>3, <1>4, <1>6
  <2>3. CASE screens[r].id # p
    BY <2>1, <2>3, <1>6
  <2> QED BY <2>2, <2>3
<1> QED BY <1>9, <1>10, <1>13, <1>14, <1>15, <1>16 DEF IInv

LEMMA AcceptStep == ASSUME IInv, NEW user \in Supervisors, Accept(user) PROVE IInv'
<1>1. screens[user].id \in Live
  BY DEF Accept, EnsureRevision
<1> QED BY <1>1, MakeTaskStep DEF Accept

LEMMA AcceptOnClassicPageStep ==
    ASSUME IInv, NEW user \in Supervisors, NEW p \in Live, AcceptOnClassicPage(user, p)
    PROVE  IInv'
BY MakeTaskStep DEF AcceptOnClassicPage

\* Rows disappear with what shows them, tasks disappear or stay.
LEMMA RemovalStep ==
    ASSUME IInv, NEW gone \in SUBSET Ids, NEW lost \in SUBSET TaskIds,
           proposals' = [p \in Ids |-> IF p \in gone THEN None ELSE proposals[p]],
           tasks' = [t \in TaskIds |-> IF t \in lost THEN None ELSE tasks[t]],
           screens' = Dropped(gone),
           form' = DroppedForm(gone),
           UNCHANGED <<nPlus1, closed, adding, submitted, created>>
    PROVE  IInv'
<1>1. /\ Live' \subseteq Live /\ Made' \subseteq Made
      /\ Live \subseteq Ids /\ Made \subseteq TaskIds
      /\ \A p \in Live' : proposals'[p] = proposals[p]
      /\ \A t \in Made' : tasks'[t] = tasks[t]
      /\ \A r \in Supervisors : screens'[r] = screens[r] \/ screens'[r] = None
      /\ form' = form \/ form' = None
  BY DEF Live, Made, Dropped, DroppedForm
<1>2. RowsAndScreens'
  <2>1. screens' = [r \in Supervisors |-> screens'[r]]
    BY DEF Dropped
  <2> QED BY <1>1, <2>1 DEF IInv, RowsAndScreens
<1>3. IdsAreOld'
  BY <1>1 DEF IInv, IdsAreOld
<1>4. TasksAreAccepted'
  BY <1>1 DEF IInv, TasksAreAccepted
<1>5. OneTaskPerProposal'
  BY <1>1 DEF IInv, OneTaskPerProposal
<1>6. TasksFollowTheirCalendar'
  BY <1>1 DEF IInv, TasksFollowTheirCalendar, Due
<1>7. ScreensShowTheirRevision'
  BY <1>1 DEF IInv, ScreensShowTheirRevision
<1> QED BY <1>2, <1>3, <1>4, <1>5, <1>6, <1>7 DEF IInv

LEMMA WithdrawStep == ASSUME IInv, NEW p \in Live, Withdraw(p) PROVE IInv'
<1>1. p \in Ids /\ {p} \in SUBSET Ids /\ {} \in SUBSET TaskIds
  BY DEF Live
<1>2. proposals' = [q \in Ids |-> IF q \in {p} THEN None ELSE proposals[q]]
  BY DEF Withdraw, IInv, RowsAndScreens
<1>3. tasks' = [t \in TaskIds |-> IF t \in {} THEN None ELSE tasks[t]]
  BY DEF Withdraw, IInv, RowsAndScreens
<1> QED BY <1>1, <1>2, <1>3, RemovalStep DEF Withdraw

LEMMA ResetStep == ASSUME IInv, Reset PROVE IInv'
<1>1. Ids \in SUBSET Ids /\ TaskIds \in SUBSET TaskIds
  OBVIOUS
<1>2. proposals' = [q \in Ids |-> IF q \in Ids THEN None ELSE proposals[q]]
  BY DEF Reset
<1>3. tasks' = [t \in TaskIds |-> IF t \in TaskIds THEN None ELSE tasks[t]]
  BY DEF Reset
<1> QED BY <1>1, <1>2, <1>3, RemovalStep DEF Reset

\* The rows stay; the day that is added, the form or the N+1 move.
LEMMA ScreenStep ==
    ASSUME IInv, UNCHANGED <<closed, proposals, submitted, tasks, created, screens>>,
           form' # None => form'.id \in Ids /\ form'.status \in Statuses
                            /\ form'.revision \in Nat
    PROVE  IInv'
<1>1. Live' = Live /\ Made' = Made
  BY DEF Live, Made
<1>2. RowsAndScreens'
  BY <1>1 DEF IInv, RowsAndScreens
<1>3. IdsAreOld' /\ TasksAreAccepted' /\ OneTaskPerProposal' /\ ScreensShowTheirRevision'
  BY <1>1 DEF IInv, IdsAreOld, TasksAreAccepted, OneTaskPerProposal, ScreensShowTheirRevision
<1>4. TasksFollowTheirCalendar'
  BY <1>1 DEF IInv, TasksFollowTheirCalendar, Due
<1> QED BY <1>2, <1>3, <1>4 DEF IInv

LEMMA FormType ==
    ASSUME IInv, form # None
    PROVE  form.id \in Ids /\ form.status \in Statuses /\ form.revision \in Nat
BY DEF IInv, RowsAndScreens

LEMMA OpenFormStep == ASSUME IInv, NEW p \in Live, OpenForm(p) PROVE IInv'
<1>1. IsRow(proposals[p]) /\ p \in Ids
  BY DEF IInv, RowsAndScreens, Live
<1>2. form'.id = p /\ form'.status = proposals[p].status
      /\ form'.revision = proposals[p].revision
  BY DEF OpenForm
<1> QED BY <1>1, <1>2, ScreenStep DEF OpenForm, IsRow

\* The administration saves a form: a row that stops being accepted is marked,
\* and the screens that show it too.
LEMMA SaveFormStep == ASSUME IInv, NEW plan \in Plans, SaveForm(plan) PROVE IInv'
<1> DEFINE p == form.id
           reopens == proposals[p].status = "accepted" /\ form.status # "accepted"
           row == [status |-> form.status, plan |-> plan, due |-> Due(plan),
                   revision |-> form.revision, task |-> form.task,
                   reopened |-> proposals[p].reopened \/ reopens]
           shown(r) == [screens[r] EXCEPT !.overtaken = TRUE, !.plan = plan]
<1>1. /\ p \in Live /\ p \in Ids /\ IsRow(proposals[p])
      /\ form.status \in Statuses /\ form.revision \in Nat
      /\ proposals' = [proposals EXCEPT ![p] = row]
      /\ screens' = [r \in Supervisors |->
             IF screens[r] # None /\ screens[r].id = p THEN shown(r) ELSE screens[r]]
      /\ form' = None
      /\ UNCHANGED <<nPlus1, closed, adding, submitted, tasks, created>>
  BY FormType DEF SaveForm, IInv, RowsAndScreens
<1>2. /\ IsRow(row) /\ row.status = form.status
      /\ row.reopened = (proposals[p].reopened \/ reopens)
  BY <1>1 DEF IsRow
<1>3. ASSUME NEW r \in Supervisors, screens[r] # None
      PROVE  /\ IsScreen(screens[r]) /\ IsScreen(shown(r))
             /\ shown(r).id = screens[r].id /\ shown(r).overtaken
  BY <1>3 DEF IInv, RowsAndScreens, IsScreen
<1> HIDE DEF row, shown, p
<1>4. ASSUME NEW r \in Supervisors
      PROVE  /\ screens[r] = None => screens'[r] = None
             /\ screens[r] # None => /\ IsScreen(screens'[r]) /\ screens'[r].id = screens[r].id
                                     /\ \/ screens'[r].overtaken
                                        \/ screens'[r] = screens[r] /\ screens[r].id # p
  BY <1>1, <1>3
<1>5. /\ proposals' = [q \in Ids |-> proposals'[q]]
      /\ proposals'[p] = row
      /\ \A q \in Ids : q # p => proposals'[q] = proposals[q]
      /\ Live' \subseteq Live /\ Live \subseteq Ids
      /\ Made' = Made
  BY <1>1 DEF IInv, RowsAndScreens, Live, Made
<1>6. RowsAndScreens'
  <2>1. screens' = [r \in Supervisors |-> screens'[r]]
    BY <1>1
  <2> QED BY <2>1, <1>1, <1>2, <1>4, <1>5 DEF IInv, RowsAndScreens
<1>7. IdsAreOld'
  BY <1>1, <1>4, <1>5 DEF IInv, IdsAreOld
<1>8. ASSUME NEW t \in Made, tasks[t].proposal = p
      PROVE  row.status = "accepted" \/ row.reopened
  BY <1>1, <1>2, <1>8 DEF IInv, TasksAreAccepted
<1>9. TasksAreAccepted'
  BY <1>1, <1>5, <1>8 DEF IInv, TasksAreAccepted
<1>10. OneTaskPerProposal'
  <2> SUFFICES ASSUME NEW t \in Made, NEW u \in Made, t # u,
                      tasks[t].proposal = tasks[u].proposal,
                      tasks[t].proposal \in Live'
               PROVE  proposals'[tasks[t].proposal].reopened
    BY <1>1, <1>5 DEF OneTaskPerProposal
  <2>1. proposals[tasks[t].proposal].reopened
    BY <1>5 DEF IInv, OneTaskPerProposal
  <2>2. CASE tasks[t].proposal = p
    BY <2>1, <2>2, <1>2, <1>5
  <2>3. CASE tasks[t].proposal # p
    BY <2>1, <2>3, <1>5
  <2> QED BY <2>2, <2>3
<1>11. TasksFollowTheirCalendar'
  BY <1>1, <1>5 DEF IInv, TasksFollowTheirCalendar, Due
<1>12. ScreensShowTheirRevision'
  BY <1>4, <1>5 DEF IInv, ScreensShowTheirRevision
<1> QED BY <1>6, <1>7, <1>9, <1>10, <1>11, <1>12 DEF IInv

\* The calendar changes: the tasks that follow it are marked.
LEMMA ThawStep ==
    ASSUME IInv, tasks' = Thawed,
           UNCHANGED <<nPlus1, proposals, submitted, created, screens, form>>
    PROVE  IInv'
<1>1. ASSUME NEW t \in TaskIds
      PROVE  /\ t \in Made => /\ IsTask(tasks'[t]) /\ tasks'[t].thawed
                              /\ tasks'[t].proposal = tasks[t].proposal
             /\ t \notin Made => tasks'[t] = None
  <2>1. CASE t \in Made
    <3>1. tasks'[t] = [tasks[t] EXCEPT !.thawed = TRUE] /\ IsTask(tasks[t])
      BY <2>1 DEF Thawed, IInv, RowsAndScreens
    <3> QED BY <3>1, <2>1 DEF IsTask
  <2>2. CASE t \notin Made
    BY <2>2 DEF Thawed
  <2> QED BY <2>1, <2>2
<1>2. Live' = Live /\ Made' \subseteq Made /\ Made \subseteq TaskIds
  BY <1>1 DEF Live, Made
<1>3. RowsAndScreens'
  <2>1. tasks' = [t \in TaskIds |-> tasks'[t]]
    BY DEF Thawed
  <2> QED BY <2>1, <1>1, <1>2 DEF IInv, RowsAndScreens
<1>4. IdsAreOld'
  BY <1>1, <1>2 DEF IInv, IdsAreOld
<1>5. TasksAreAccepted' /\ OneTaskPerProposal'
  BY <1>1, <1>2 DEF IInv, TasksAreAccepted, OneTaskPerProposal
<1>6. TasksFollowTheirCalendar'
  BY <1>1, <1>2 DEF TasksFollowTheirCalendar
<1>7. ScreensShowTheirRevision'
  BY <1>2 DEF IInv, ScreensShowTheirRevision
<1> QED BY <1>3, <1>4, <1>5, <1>6, <1>7 DEF IInv

\* A task goes and its proposal loses the link.
LEMMA DeleteTaskStep == ASSUME IInv, NEW t \in TaskIds, DeleteTask(t) PROVE IInv'
<1> DEFINE unlinked(p) == [proposals[p] EXCEPT !.task = None]
<1>1. /\ tasks' = [tasks EXCEPT ![t] = None]
      /\ proposals' = [p \in Ids |->
             IF p \in Live /\ proposals[p].task = t THEN unlinked(p) ELSE proposals[p]]
      /\ form' = form \/ form' = None
      /\ UNCHANGED <<nPlus1, closed, adding, submitted, created, screens>>
  BY DEF DeleteTask
<1>2. ASSUME NEW p \in Live
      PROVE  /\ p \in Ids /\ IsRow(proposals[p]) /\ IsRow(unlinked(p))
             /\ unlinked(p).status = proposals[p].status
             /\ unlinked(p).reopened = proposals[p].reopened
             /\ unlinked(p).revision = proposals[p].revision
             /\ unlinked(p).plan = proposals[p].plan
  BY DEF IInv, RowsAndScreens, IsRow, Live
<1> HIDE DEF unlinked
<1>3. ASSUME NEW p \in Live
      PROVE  /\ IsRow(proposals'[p])
             /\ proposals'[p].status = proposals[p].status
             /\ proposals'[p].reopened = proposals[p].reopened
             /\ proposals'[p].revision = proposals[p].revision
             /\ proposals'[p].plan = proposals[p].plan
  BY <1>1, <1>2
<1>4. /\ Live' \subseteq Live /\ Live \subseteq Ids
      /\ Made' \subseteq Made /\ Made \subseteq TaskIds
      /\ \A u \in Made' : tasks'[u] = tasks[u]
      /\ tasks' = [u \in TaskIds |-> tasks'[u]]
      /\ proposals' = [p \in Ids |-> proposals'[p]]
  BY <1>1 DEF IInv, RowsAndScreens, Live, Made
<1>5. RowsAndScreens'
  BY <1>1, <1>3, <1>4 DEF IInv, RowsAndScreens
<1>6. IdsAreOld'
  BY <1>1, <1>4 DEF IInv, IdsAreOld
<1>7. TasksAreAccepted' /\ OneTaskPerProposal'
  BY <1>3, <1>4 DEF IInv, TasksAreAccepted, OneTaskPerProposal
<1>8. TasksFollowTheirCalendar'
  BY <1>1, <1>4 DEF IInv, TasksFollowTheirCalendar, Due
<1>9. ScreensShowTheirRevision'
  <2> SUFFICES ASSUME NEW r \in Supervisors, screens[r] # None, ~ screens[r].overtaken,
                      screens[r].id \in Live'
               PROVE  /\ screens[r].revision <= proposals'[screens[r].id].revision
                      /\ screens[r].revision = proposals'[screens[r].id].revision
                           => screens[r].plan = proposals'[screens[r].id].plan
    BY <1>1 DEF ScreensShowTheirRevision
  <2> DEFINE p == screens[r].id
  <2>1. p \in Live
    BY <1>4
  <2>2. /\ screens[r].revision <= proposals[p].revision
        /\ screens[r].revision = proposals[p].revision
             => screens[r].plan = proposals[p].plan
    BY <2>1 DEF IInv, ScreensShowTheirRevision
  <2>3. proposals'[p].revision = proposals[p].revision /\ proposals'[p].plan = proposals[p].plan
    BY <1>3, <2>1
  <2> QED BY <2>2, <2>3
<1> QED BY <1>5, <1>6, <1>7, <1>8, <1>9 DEF IInv

LEMMA NextIInv == IInv /\ [Next]_vars => IInv'
<1> SUFFICES ASSUME IInv, [Next]_vars PROVE IInv'
  OBVIOUS
<1>1. ASSUME NEW plan \in Plans, Propose(plan) \/ SaveForm(plan) PROVE IInv'
  BY <1>1, ProposeStep, SaveFormStep
<1>2. ASSUME NEW p \in Live,
             \/ \E user \in People, plan \in Plans : Correct(user, p, plan)
             \/ \E user \in Supervisors :
                   Receive(user, p) \/ AcceptOnClassicPage(user, p) \/ Reject(user, p)
             \/ Resubmit(p) \/ Withdraw(p) \/ OpenForm(p)
      PROVE  IInv'
  BY <1>2, CorrectStep, ReceiveStep, AcceptOnClassicPageStep, RejectStep, ResubmitStep,
     WithdrawStep, OpenFormStep
<1>3. ASSUME NEW user \in Supervisors, Accept(user) PROVE IInv'
  BY <1>3, AcceptStep
<1>4. ASSUME NEW user \in Supervisors, Reorganise(user) PROVE IInv'
  BY <1>4, FormType, ScreenStep DEF Reorganise
<1>5. ASSUME NEW day \in Holidays, CheckDay(day) PROVE IInv'
  BY <1>5, FormType, ScreenStep DEF CheckDay
<1>6. ASSUME NEW day \in Holidays, DeleteDay(day) PROVE IInv'
  BY <1>6, ThawStep DEF DeleteDay
<1>7. CASE InsertDay
  BY <1>7, ThawStep DEF InsertDay
<1>8. ASSUME NEW t \in TaskIds, DeleteTask(t) PROVE IInv'
  BY <1>8, DeleteTaskStep
<1>9. CASE Reset
  BY <1>9, ResetStep
<1>10. CASE UNCHANGED vars
  BY <1>10, FormType, ScreenStep DEF vars
<1> QED BY <1>1, <1>2, <1>3, <1>4, <1>5, <1>6, <1>7, <1>8, <1>9, <1>10 DEF Next

THEOREM Inductive == Spec => []IInv
BY InitIInv, NextIInv, PTL DEF Spec

\* A proposal has a second task only after an administration form that was
\* opened before its acceptance was saved after it.
THEOREM OneTaskForEachProposal == Spec => []OneTaskPerProposal
BY Inductive, PTL DEF IInv

\* A task is due on the day its calendar gives, until a day of the calendar is
\* inserted or deleted under it.
THEOREM TasksAlwaysFollowTheirCalendar == Spec => []TasksFollowTheirCalendar
BY Inductive, PTL DEF IInv

LEMMA AcceptShown ==
    ASSUME IInv, NEW u \in Supervisors, Accept(u), ~ screens[u].overtaken
    PROVE  /\ tasks'[created'].plan = screens[u].plan
           /\ tasks'[created'].proposal = screens[u].id
<1>1. /\ screens[u] # None /\ screens[u].id \in Live
      /\ screens[u].plan = proposals[screens[u].id].plan
  BY DEF Accept, EnsureRevision, IInv, ScreensShowTheirRevision
<1>2. /\ created \in Nat /\ created + 1 \in TaskIds /\ created' = created + 1
      /\ tasks = [t \in TaskIds |-> tasks[t]]
  BY Sizes DEF Accept, MakeTask, IInv, RowsAndScreens, TaskIds
<1>3. tasks'[created + 1] =
         [proposal |-> screens[u].id, plan |-> proposals[screens[u].id].plan,
          due |-> proposals[screens[u].id].due, thawed |-> FALSE]
  BY <1>2 DEF Accept, MakeTask
<1> QED BY <1>1, <1>2, <1>3

\* What an acceptance of the API makes is what its N+1 had on screen.
THEOREM AlwaysAcceptedAsShown == Spec => AcceptedAsShown
<1> DEFINE Shown == \A u \in Supervisors : Accept(u) /\ ~ screens[u].overtaken
                       => /\ tasks'[created'].plan = screens[u].plan
                          /\ tasks'[created'].proposal = screens[u].id
<1>1. IInv /\ [Next]_vars => Shown
  BY AcceptShown
<1>2. [][Shown]_vars => AcceptedAsShown
  BY PTL DEF AcceptedAsShown
<1> QED BY <1>1, <1>2, Inductive, PTL DEF Spec

-----------------------------------------------------------------------------
(* The invariant of TaskCodes is inductive *)

LEMMA InitCodes == CodesInit => CodesIInv
<1> SUFFICES ASSUME CodesInit PROVE CodesIInv
  OBVIOUS
<1>1. \A a \in Actions, n \in Numbers : Code(a, n) \in Codes
  BY DEF Code, Codes
<1>2. HeldNumbers
  BY DEF CodesInit, HeldNumbers
<1>3. GivenNumbersArePassed
  BY <1>1 DEF CodesInit, GivenNumbersArePassed
<1> QED BY <1>2, <1>3 DEF CodesInit, CodesIInv

\* The number found is one, and not before the counter.
LEMMA FirstFreeIsAhead ==
    ASSUME CodesIInv, NEW a \in Actions, FirstFree(a) # 0
    PROVE  FirstFree(a) \in Numbers /\ sequences[a] <= FirstFree(a)
<1> DEFINE from == IF sequences[a] = 0 THEN 1 ELSE sequences[a]
           free == {n \in from..MaxNumber : Code(a, n) \notin codes}
<1>1. /\ sequences[a] \in Nat /\ MaxNumber \in Nat
      /\ from \in Nat \ {0} /\ sequences[a] <= from
  BY CodesAssumption DEF CodesIInv
<1> HIDE DEF from
<1>2. free \in SUBSET Nat /\ free \subseteq from..MaxNumber
  BY <1>1
<1>3. free # {} /\ FirstFree(a) = Min(free)
  BY DEF FirstFree, from
<1> HIDE DEF free
<1>4. Min(free) \in free
  BY <1>2, <1>3, MinIsIn
<1>5. PICK m \in from..MaxNumber : m = FirstFree(a)
  BY <1>2, <1>3, <1>4
<1>6. m \in Numbers /\ sequences[a] <= m
  BY <1>1 DEF Numbers
<1> QED BY <1>5, <1>6

LEMMA AllocateStep ==
    ASSUME CodesIInv, NEW t \in Allocators, NEW a \in Actions, Allocate(t, a)
    PROVE  CodesIInv'
<1> DEFINE new == [action |-> a, number |-> FirstFree(a)]
<1>1. /\ new \in Allocation /\ new.action = a /\ sequences[a] <= new.number
  BY FirstFreeIsAhead DEF Allocate, Allocation
<1>2. /\ allocating' = [allocating EXCEPT ![t] = new]
      /\ UNCHANGED <<sequences, codes, given>>
      /\ \A u \in Allocators : allocating[u].action # a
  BY DEF Allocate, Locked
<1> HIDE DEF new
<1>3. /\ allocating' \in [Allocators -> Allocation \cup {NoCode}]
      /\ allocating'[t] = new
      /\ \A u \in Allocators : u # t => allocating'[u] = allocating[u]
  BY <1>1, <1>2 DEF CodesIInv
<1>4. HeldNumbers'
  BY <1>1, <1>2, <1>3 DEF CodesIInv, HeldNumbers
<1>5. GivenNumbersArePassed'
  BY <1>2 DEF CodesIInv, GivenNumbersArePassed, SharedSlug
<1> QED BY <1>2, <1>3, <1>4, <1>5 DEF CodesIInv

\* A transaction ends and leaves its number.
LEMMA ReleaseStep ==
    ASSUME CodesIInv, NEW t \in Allocators,
           allocating' = [allocating EXCEPT ![t] = NoCode],
           UNCHANGED <<sequences, codes, given>>
    PROVE  CodesIInv'
<1>1. /\ allocating' \in [Allocators -> Allocation \cup {NoCode}]
      /\ \A u \in Allocators : allocating'[u] = NoCode \/ allocating'[u] = allocating[u]
  BY DEF CodesIInv
<1>2. HeldNumbers'
  BY <1>1 DEF CodesIInv, HeldNumbers
<1>3. GivenNumbersArePassed'
  BY DEF CodesIInv, GivenNumbersArePassed, SharedSlug
<1> QED BY <1>1, <1>2, <1>3 DEF CodesIInv

LEMMA InsertStep ==
    ASSUME CodesIInv, NEW t \in Allocators, Insert(t)
    PROVE  CodesIInv'
<1> DEFINE a == allocating[t].action
           n == allocating[t].number
           c == Code(a, n)
<1>1. /\ a \in Actions /\ n \in Numbers /\ n \in Nat /\ c \in Codes
      /\ c.slug = Slug[a] /\ c.number = n
      /\ sequences[a] \in Nat /\ sequences[a] <= n
      /\ allocating[t] # NoCode
  BY DEF Insert, CodesIInv, HeldNumbers, Allocation, Numbers, Code, Codes
<1>2. /\ allocating' = [allocating EXCEPT ![t] = NoCode]
      /\ \/ /\ codes' = codes \cup {c}
            /\ sequences' = [sequences EXCEPT ![a] = n + 1]
            /\ given' = [given EXCEPT ![c] = @ + 1]
         \/ UNCHANGED <<sequences, codes, given>>
  BY DEF Insert, NextValue
<1>3. \A u \in Allocators : u # t /\ allocating[u] # NoCode => allocating[u].action # a
  BY <1>1 DEF CodesIInv, HeldNumbers
<1> HIDE DEF a, n, c
<1>4. CASE UNCHANGED <<sequences, codes, given>>
  BY <1>2, <1>4, ReleaseStep
<1>5. CASE /\ codes' = codes \cup {c}
           /\ sequences' = [sequences EXCEPT ![a] = n + 1]
           /\ given' = [given EXCEPT ![c] = @ + 1]
  <2>1. /\ allocating' \in [Allocators -> Allocation \cup {NoCode}]
        /\ \A u \in Allocators :
              allocating'[u] = NoCode \/ (u # t /\ allocating'[u] = allocating[u])
    BY <1>2 DEF CodesIInv
  <2>2. /\ sequences' \in [Actions -> Nat] /\ sequences'[a] = n + 1
        /\ \A b \in Actions : b # a => sequences'[b] = sequences[b]
    BY <1>1, <1>5 DEF CodesIInv
  <2>3. /\ given' \in [Codes -> Nat] /\ given'[c] = given[c] + 1
        /\ \A d \in Codes : d # c => given'[d] = given[d]
    BY <1>1, <1>5 DEF CodesIInv
  <2>4. HeldNumbers'
    <3>1. \A u \in Allocators : allocating[u] # NoCode => allocating[u].action \in Actions
      BY DEF CodesIInv, Allocation
    <3> QED BY <2>1, <2>2, <1>3, <3>1 DEF CodesIInv, HeldNumbers
  <2>5. ASSUME NEW b \in Actions, NEW m \in Numbers, ~ SharedSlug(Code(b, m))
        PROVE  /\ given'[Code(b, m)] <= 1
               /\ given'[Code(b, m)] = 1 => m < sequences'[b]
    <3>0. /\ Code(b, m) \in Codes /\ Code(b, m).slug = Slug[b] /\ Code(b, m).number = m
          /\ m \in Nat
      BY DEF Numbers, Code, Codes
    <3>1. /\ sequences[b] \in Nat /\ given[Code(b, m)] \in Nat
          /\ given[Code(b, m)] <= 1
          /\ given[Code(b, m)] = 1 => m < sequences[b]
      BY <2>5, <3>0 DEF CodesIInv, GivenNumbersArePassed
    <3>2. sequences[b] <= sequences'[b] /\ sequences'[b] \in Nat
      BY <1>1, <2>2, <3>1
    <3>3. CASE Code(b, m) # c
      BY <3>0, <3>1, <3>2, <3>3, <2>3
    <3>4. CASE Code(b, m) = c
      <4>1. m = n /\ b = a
        BY <3>0, <3>4, <1>1, <2>5 DEF SharedSlug
      <4>2. given[c] = 0
        BY <4>1, <3>0, <3>1, <3>4, <1>1
      <4> QED BY <4>1, <4>2, <3>4, <2>2, <2>3, <1>1
    <3> QED BY <3>3, <3>4
  <2>6. GivenNumbersArePassed'
    BY <2>5 DEF GivenNumbersArePassed, SharedSlug, Code
  <2>7. codes' \subseteq Codes
    BY <1>1, <1>5 DEF CodesIInv
  <2> QED BY <2>1, <2>2, <2>3, <2>4, <2>6, <2>7 DEF CodesIInv
<1> QED BY <1>2, <1>4, <1>5

\* The codes of the rows change, not what the counters have given.
LEMMA RowsStep ==
    ASSUME CodesIInv, codes' \subseteq Codes, UNCHANGED <<sequences, allocating, given>>
    PROVE  CodesIInv'
BY DEF CodesIInv, HeldNumbers, GivenNumbersArePassed, SharedSlug

LEMMA CommitEmptyingStep == ASSUME CodesIInv, CommitEmptying PROVE CodesIInv'
<1>1. \A t \in Allocators : allocating[t] = NoCode
  BY DEF CommitEmptying, Locked, CodesIInv, Allocation
<1>2. /\ codes' \subseteq Codes /\ allocating' = allocating
      /\ sequences' = [a \in Actions |-> 0] /\ given' = [c \in Codes |-> 0]
  BY DEF CommitEmptying, CodesIInv
<1>3. HeldNumbers'
  BY <1>1, <1>2 DEF HeldNumbers
<1>4. \A a \in Actions, n \in Numbers : Code(a, n) \in Codes
  BY DEF Code, Codes
<1>5. GivenNumbersArePassed'
  BY <1>2, <1>4 DEF GivenNumbersArePassed
<1> QED BY <1>2, <1>3, <1>5 DEF CodesIInv

LEMMA NextCodes == CodesIInv /\ [CodesNext]_codeVars => CodesIInv'
<1> SUFFICES ASSUME CodesIInv, [CodesNext]_codeVars PROVE CodesIInv'
  OBVIOUS
<1>1. ASSUME NEW t \in Allocators, NEW a \in Actions, Allocate(t, a) PROVE CodesIInv'
  BY <1>1, AllocateStep
<1>2. ASSUME NEW t \in Allocators, Insert(t) PROVE CodesIInv'
  BY <1>2, InsertStep
<1>3. ASSUME NEW t \in Allocators, Undo(t) PROVE CodesIInv'
  BY <1>3, ReleaseStep DEF Undo
<1>4. ASSUME NEW c \in Codes, TypeCode(c) \/ DeleteCode(c) PROVE CodesIInv'
  BY <1>4, RowsStep DEF TypeCode, DeleteCode, CodesIInv
<1>5. CASE BeginEmptying
  BY <1>5, RowsStep DEF BeginEmptying, CodesIInv
<1>6. CASE CommitEmptying
  BY <1>6, CommitEmptyingStep
<1>7. CASE UNCHANGED codeVars
  BY <1>7, RowsStep DEF codeVars, CodesIInv
<1> QED BY <1>1, <1>2, <1>3, <1>4, <1>5, <1>6, <1>7 DEF CodesNext

THEOREM CodesInductive == CodesSpec => []CodesIInv
BY InitCodes, NextCodes, PTL DEF CodesSpec

\* Between two resets, only actions of the same slug give a code twice.
THEOREM NoCodeGivenTwice == CodesSpec => []NoCodeTwice
<1>1. ASSUME CodesIInv PROVE NoCodeTwice
  <2> SUFFICES ASSUME NEW c \in Codes, given[c] > 1, ~ SharedSlug(c) PROVE FALSE
    BY DEF NoCodeTwice
  <2>1. PICK a \in Actions, n \in Numbers : c = Code(a, n)
    BY DEF Codes, Code
  <2>2. given[c] <= 1 /\ given[c] \in Nat
    BY <1>1, <2>1 DEF CodesIInv, GivenNumbersArePassed
  <2> QED BY <2>2
<1> QED BY <1>1, CodesInductive, PTL
=============================================================================
