---------------------------- MODULE TaskProposal ----------------------------
(***************************************************************************)
(* The proposals an employee submits to their N+1 (work/services.py,       *)
(* api/views.py), the tasks they become, and the working calendar both     *)
(* were planned on, which is frozen from its first task on.                *)
(*                                                                         *)
(* Every service locks the proposal's row, so that one request is one      *)
(* step; what goes wrong comes from screens and administration forms that  *)
(* are older than the row, and from a calendar day that is checked in one  *)
(* statement and inserted in another.  A supervisor's screen holds what     *)
(* they last received and is compared by its revision, except on the       *)
(* classic pages.  The administration's form holds, and saves, every field *)
(* of the row; here it changes the schedule.  Titles, actions, the unit    *)
(* and the accountable manager are left out.                               *)
(***************************************************************************)
EXTENDS Integers, FiniteSets

CONSTANTS
    Author,       \* the employee whose proposals these are
    Supervisors,  \* people who may be the author's N+1
    Plans,        \* the schedules submitted: [start, load, end], end None if once
    MaxDay,       \* bound on the days that may be closed
    Period,       \* days between two anchors of a series, 7 in the code
    Holidays,     \* the days of the calendar that the administration closes
    MaxProposal,  \* bound on the proposals ever made
    MaxTask,      \* bound on the tasks ever made
    MaxRevision,  \* bound on a proposal's revision before it is accepted
    None          \* no row, task, repetition, screen, form or day

ASSUME ProposalAssumption ==
    /\ Author \notin Supervisors
    /\ Plans \subseteq [start : Nat \ {0}, load : Nat \ {0}, end : Nat \cup {None}]
    /\ {MaxDay, Period, MaxProposal, MaxTask, MaxRevision} \subseteq Nat \ {0}
    /\ Holidays \subseteq 1..MaxDay

VARIABLES
    nPlus1,     \* the current primary N+1 of the author
    closed,     \* the non-working days of the calendar
    adding,     \* the day the administration has checked and not yet inserted
    proposals,  \* by id, the TaskProposal row
    submitted,  \* how many proposals were ever made
    tasks,      \* by id, the task with its only assignment
    created,    \* how many tasks were ever made
    screens,    \* by supervisor, the proposal last received
    form        \* the proposal open in the administration

vars == <<nPlus1, closed, adding, proposals, submitted, tasks, created, screens, form>>

People == Supervisors \cup {Author}
Ids == 1..MaxProposal
TaskIds == 1..MaxTask
Revisions == 1..(MaxRevision + 1)
Statuses == {"submitted", "accepted", "rejected"}

Once(plan) == [plan EXCEPT !.end = None]

\* reopened: a form opened before the row was accepted was saved after it.
Row == [status : Statuses, plan : Plans, due : Nat, revision : Revisions,
        task : TaskIds \cup {None}, reopened : BOOLEAN]

\* thawed: the calendar changed under the task.
PlannedTask == [proposal : Ids, plan : Plans \cup {Once(plan) : plan \in Plans}, due : Nat, thawed : BOOLEAN]

\* What the administration's form saves beside the schedule typed in it.
Form == [id : Ids, status : Statuses, revision : Revisions, task : TaskIds \cup {None}]

\* overtaken: the administration saved the row since it was received.
Screen == [id : Ids, revision : Revisions, plan : Plans, overtaken : BOOLEAN]

\* Type invariant: rows, tasks, screens and the form keep their domains.
TypeOK ==
    /\ nPlus1 \in Supervisors
    /\ closed \subseteq Holidays
    /\ adding \in Holidays \cup {None}
    /\ proposals \in [Ids -> Row \cup {None}]
    /\ submitted \in 0..MaxProposal
    /\ tasks \in [TaskIds -> PlannedTask \cup {None}]
    /\ created \in 0..MaxTask
    /\ screens \in [Supervisors -> Screen \cup {None}]
    /\ form \in Form \cup {None}

-----------------------------------------------------------------------------
(* The calendar's rules, as the rows are validated by them *)

Calendar(days) == INSTANCE WorkCalendar WITH Closed <- days

Due(plan) == Calendar(closed)!DueDateFor(plan.start, plan.load)

\* A repetition reaches a second occurrence, which the first does not meet.
Repeatable(plan) ==
    plan.end # None => Calendar(closed)!ValidSchedule(plan.start, plan.load, plan.end)

\* A plausible slip: the due date is only compared when the row is created.
ValidRepetition(row) == Repeatable(row.plan)

\* TaskProposal.clean, which every save of the row runs, and the assignment's.
Valid(row) == row.due = Due(row.plan) /\ Repeatable(row.plan)

-----------------------------------------------------------------------------

Live == {p \in Ids : proposals[p] # None}
Made == {t \in TaskIds : tasks[t] # None}

Init ==
    /\ nPlus1 \in Supervisors
    /\ closed = Holidays
    /\ adding = None
    /\ proposals = [p \in Ids |-> None]
    /\ submitted = 0
    /\ tasks = [t \in TaskIds |-> None]
    /\ created = 0
    /\ screens = [r \in Supervisors |-> None]
    /\ form = None

NewProposal(plan) ==
    [status |-> "submitted", plan |-> plan, due |-> Due(plan), revision |-> 1,
     task |-> None, reopened |-> FALSE]

\* ProposalListCreateView.post and create_proposal, whose form knows no
\* repetition.
Propose(plan) ==
    /\ submitted < MaxProposal
    /\ Valid(NewProposal(plan))
    /\ proposals' = [proposals EXCEPT ![submitted + 1] = NewProposal(plan)]
    /\ submitted' = submitted + 1
    /\ UNCHANGED <<nPlus1, closed, adding, tasks, created, screens, form>>

\* A proposal is received; the other supervisors read it by a delegation.
Receive(user, p) ==
    /\ p \in Live
    /\ screens' = [screens EXCEPT ![user] =
           [id |-> p, revision |-> proposals[p].revision, plan |-> proposals[p].plan,
            overtaken |-> FALSE]]
    /\ UNCHANGED <<nPlus1, closed, adding, proposals, submitted, tasks, created, form>>

\* ensure_revision, on the row locked by the service.  Only the acceptance
\* changes more than what its request says: the other requests are taken with
\* the current revision, and a stale one changes nothing.
EnsureRevision(user) ==
    /\ screens[user].id \in Live
    /\ proposals[screens[user].id].revision = screens[user].revision

\* A row saved by a service, beside the field it changes.
SavedSilently(row) == row
Saved(row) == [row EXCEPT !.revision = @ + 1]
Room(p) == p \in Live /\ proposals[p].revision < MaxRevision

\* Ids are not used twice: what shows a deleted row leads nowhere.
Dropped(deleted) == [r \in Supervisors |->
    IF screens[r] # None /\ screens[r].id \in deleted THEN None ELSE screens[r]]
DroppedForm(deleted) == IF form # None /\ form.id \in deleted THEN None ELSE form

-----------------------------------------------------------------------------
(* What the author and the N+1 do *)

CanReview(user) == user # Author /\ user = nPlus1

\* update_proposal_with_recurrence, in one transaction: the first save keeps
\* the previous end of the repetition, the second writes the new one.
Correct(user, p, plan) ==
    /\ user = Author \/ CanReview(user)
    /\ Room(p)
    /\ LET first == [proposals[p] EXCEPT !.due = Due(plan),
                         !.plan = [plan EXCEPT !.end = proposals[p].plan.end]]
           second == [first EXCEPT !.plan = plan]
       IN /\ proposals[p].status \in {"submitted", "rejected"}
          /\ Valid(first) /\ Valid(second)
          /\ proposals' = [proposals EXCEPT ![p] = Saved(second)]
    /\ UNCHANGED <<nPlus1, closed, adding, submitted, tasks, created, screens, form>>

\* resubmit_proposal, by the author.
Resubmit(p) ==
    /\ Room(p)
    /\ proposals[p].status = "rejected"
    /\ Valid(proposals[p])
    /\ proposals' = [proposals EXCEPT ![p] = Saved([@ EXCEPT !.status = "submitted"])]
    /\ UNCHANGED <<nPlus1, closed, adding, submitted, tasks, created, screens, form>>

\* delete_submitted_proposal, by the author: the row and its history.
Withdraw(p) ==
    /\ p \in Live
    /\ proposals[p].status = "submitted"
    /\ proposals' = [proposals EXCEPT ![p] = None]
    /\ screens' = Dropped({p})
    /\ form' = DroppedForm({p})
    /\ UNCHANGED <<nPlus1, closed, adding, submitted, tasks, created>>

\* A plausible slip: only a rejection is final.
PendingUnlessRejected(p) == proposals[p].status # "rejected"

Pending(p) == proposals[p].status = "submitted"

\* What a decision checks on the locked row, whatever page it comes from.
Decidable(user, p) == CanReview(user) /\ Pending(p) /\ Valid(proposals[p])

\* accept_proposal, and what accept_proposal_with_recurrence adds in the same
\* transaction when the plan has an end.
MakeTask(p, plan) ==
    /\ created < MaxTask
    /\ created' = created + 1
    /\ tasks' = [tasks EXCEPT ![created + 1] =
           [proposal |-> p, plan |-> plan, due |-> proposals[p].due, thawed |-> FALSE]]
    /\ proposals' = [proposals EXCEPT
           ![p] = Saved([@ EXCEPT !.status = "accepted", !.task = created + 1])]

Accept(user) ==
    /\ screens[user] # None
    /\ EnsureRevision(user)
    /\ Decidable(user, screens[user].id)
    /\ MakeTask(screens[user].id, proposals[screens[user].id].plan)
    /\ screens' = [screens EXCEPT ![user] = None]
    /\ UNCHANGED <<nPlus1, closed, adding, submitted, form>>

\* decide_proposal, a classic page, which sends no revision and knows no
\* repetition.
AcceptOnClassicPage(user, p) ==
    /\ p \in Live
    /\ Decidable(user, p)
    /\ MakeTask(p, Once(proposals[p].plan))
    /\ UNCHANGED <<nPlus1, closed, adding, submitted, screens, form>>

\* reject_proposal, from either page.
Reject(user, p) ==
    /\ Room(p)
    /\ Decidable(user, p)
    /\ proposals' = [proposals EXCEPT ![p] = Saved([@ EXCEPT !.status = "rejected"])]
    /\ UNCHANGED <<nPlus1, closed, adding, submitted, tasks, created, screens, form>>

-----------------------------------------------------------------------------
(* What the administration does *)

OpenForm(p) ==
    /\ p \in Live
    /\ form' = [id |-> p, status |-> proposals[p].status,
                revision |-> proposals[p].revision, task |-> proposals[p].task]
    /\ UNCHANGED <<nPlus1, closed, adding, proposals, submitted, tasks, created, screens>>

\* TaskProposalAdmin: every field of the form is saved as it was opened.  What
\* an overtaken screen showed is not followed further.
SaveForm(plan) ==
    /\ form # None
    /\ form.id \in Live
    /\ LET p == form.id
           reopens == proposals[p].status = "accepted" /\ form.status # "accepted"
           row == [status |-> form.status, plan |-> plan, due |-> Due(plan),
                   revision |-> form.revision, task |-> form.task,
                   reopened |-> proposals[p].reopened \/ reopens]
       IN /\ Valid(row)
          /\ proposals' = [proposals EXCEPT ![p] = row]
          /\ screens' = [r \in Supervisors |->
                 IF screens[r] # None /\ screens[r].id = p
                 THEN [screens[r] EXCEPT !.overtaken = TRUE, !.plan = plan] ELSE screens[r]]
    /\ form' = None
    /\ UNCHANGED <<nPlus1, closed, adding, submitted, tasks, created>>

\* WorkCalendarDay.save: the calendar is unused when the day is validated.
CheckDay(day) ==
    /\ adding = None
    /\ Made = {}
    /\ day \in Holidays \ closed
    /\ adding' = day
    /\ UNCHANGED <<nPlus1, closed, proposals, submitted, tasks, created, screens, form>>

Thawed == [t \in TaskIds |-> IF t \in Made THEN [tasks[t] EXCEPT !.thawed = TRUE] ELSE None]

InsertDay ==
    /\ adding # None
    /\ closed' = closed \cup {adding}
    /\ adding' = None
    /\ tasks' = Thawed
    /\ UNCHANGED <<nPlus1, proposals, submitted, created, screens, form>>

\* WorkCalendarDayAdmin: a deletion does not run clean.
DeleteDay(day) ==
    /\ day \in closed
    /\ closed' = closed \ {day}
    /\ tasks' = Thawed
    /\ UNCHANGED <<nPlus1, adding, proposals, submitted, created, screens, form>>

\* delete_task_assignments: the accepted proposal loses its link, and a form
\* that holds it is refused, the task being no choice of its field any more.
DeleteTask(t) ==
    /\ t \in Made
    /\ tasks' = [tasks EXCEPT ![t] = None]
    /\ proposals' = [p \in Ids |->
           IF p \in Live /\ proposals[p].task = t
           THEN [proposals[p] EXCEPT !.task = None] ELSE proposals[p]]
    /\ form' = IF form # None /\ form.task = t THEN None ELSE form
    /\ UNCHANGED <<nPlus1, closed, adding, submitted, created, screens>>

\* reset_reporting_data
Reset ==
    /\ Live # {} \/ Made # {}
    /\ proposals' = [p \in Ids |-> None]
    /\ tasks' = [t \in TaskIds |-> None]
    /\ screens' = Dropped(Ids)
    /\ form' = DroppedForm(Ids)
    /\ UNCHANGED <<nPlus1, closed, adding, submitted, created>>

\* The author's primary line moves, as ReportingLines and Organization say.
Reorganise(supervisor) ==
    /\ nPlus1' = supervisor
    /\ UNCHANGED <<closed, adding, proposals, submitted, tasks, created, screens, form>>

-----------------------------------------------------------------------------

Next ==
    \/ \E plan \in Plans : Propose(plan) \/ SaveForm(plan)
    \/ \E p \in Live :
          \/ \E user \in People, plan \in Plans : Correct(user, p, plan)
          \/ \E user \in Supervisors :
                Receive(user, p) \/ AcceptOnClassicPage(user, p) \/ Reject(user, p)
          \/ Resubmit(p) \/ Withdraw(p) \/ OpenForm(p)
    \/ \E user \in Supervisors : Accept(user) \/ Reorganise(user)
    \/ \E day \in Holidays : CheckDay(day) \/ DeleteDay(day)
    \/ InsertDay
    \/ \E t \in TaskIds : DeleteTask(t)
    \/ Reset

Spec == Init /\ [][Next]_vars

-----------------------------------------------------------------------------
(* Properties *)

\* An acceptance of the API makes the task and the repetition its N+1 had on
\* screen, whatever the author, a former N+1 or a reset did meanwhile.  Only
\* the administration moves a proposal without moving its revision.
AcceptedAsShown ==
    [][\A u \in Supervisors : Accept(u) /\ ~ screens[u].overtaken
         => /\ tasks'[created'].plan = screens[u].plan
            /\ tasks'[created'].proposal = screens[u].id]_vars

\* A proposal becomes one task, across rejections, resubmissions, a change of
\* N+1 and the deletion of the task: a second one takes an administration form
\* that was opened before the acceptance and saved after it.
OneTaskPerProposal ==
    \A t, u \in Made :
        /\ t # u
        /\ tasks[t].proposal = tasks[u].proposal
        /\ tasks[t].proposal \in Live
        => proposals[tasks[t].proposal].reopened

\* A task is due on the day its calendar gives, although the calendar may
\* change between the proposal and its acceptance: only a day inserted or
\* deleted under an existing task separates them.
TasksFollowTheirCalendar ==
    \A t \in Made : tasks[t].due = Due(tasks[t].plan) \/ tasks[t].thawed

\* The days of a calendar version that a task uses do not change.
UsedCalendarIsReadOnly == [][Made # {} => closed' = closed]_vars
=============================================================================
