# CSRS Report in TLA+

CSRS Report is a Django application in which the employees of a research
centre report the progress of their tasks, their managers (N+1) review them,
and the direction follows the work, the missions and the agendas. This
directory models the parts of it whose correctness depends on the order in
which people act: what may happen to a task while several people write to it
and the organisation moves underneath.

Paths are relative to the repository (`work/services.py` is
`src/work/services.py` in `PROJECT.json`, which also maps every definition to
the lines it models).

## Inventory

State and operations, and what would make each part correct. "Hard" names the
behaviour a unit test hardly reaches.

| Part | State | Operations | Hard | Should hold |
|---|---|---|---|---|
| Task assignments (`work/services.py`) | `TaskAssignment`, `ProgressEntry`, `TaskActivity` | create, record_progress, validate, reject, close_early, observation, details | several writers, corrections of past days, API and classic pages | status, journal, feed and percentage agree; nobody overwrites what they have not seen |
| Reporting lines (`ReportingLine`) | dated primary and secondary lines | set_primary_supervisor, removal, transfer of open tasks | effective dates in the past or future, in any sequence | one open primary line; open tasks follow |
| Recurrences (`TaskRecurrence`) | series row, numbered occurrences | create, edit, advance, cancel | decision and planning are two transactions; crash, reopening, concurrent workers, holidays | each occurrence planned once, after a decision, without overlap; a stopped series stays stopped |
| Proposals (`TaskProposal`) | status, revision, recurrence fields | submit, edit, resubmit, delete, accept, reject | author and N+1 act at once; N+1 changes | accepted once, as last shown; nothing after acceptance |
| Organisation | units, links, memberships | unit hierarchy, memberships, collaborators | concurrent administrators, state tokens, acyclicity | no cycle, one parent, one primary membership, no silent overwrite |
| Missions (`processes/`) | case, work items, queues, participants, documents, signature | edit, submit, claim, takeover, send to signature, correct, sign, distribute, fleet, close | delegations that expire, take-overs, document replacement | one open item while the case runs, the signature covers what is distributed, terminal cases frozen |
| Document storage | private files or Microsoft Graph, antivirus | save, read, delete | file and row are written apart | no row without an object |
| Notifications (`work/notifications.py`) | `NotificationDelivery` | queue, deliver with retries | two notifiers, crash between mail and commit | sent or failed in the end, at most five attempts |
| Progress cache | `ProgressSeriesCache` | read-through, invalidate by signals | rebuild racing a write | what is served is the projection of the rows |
| Charts and calendar | none (pure) | daily rows, projection, due dates | holidays, zero, rounding | agree with their definition |
| Agendas (`agenda/`) | drafts, versions, visits, absences | save, generate, cancel | overlap checks without a lock, version numbers | immutable versions, no overlapping absence |
| Grants (`access/`) | `RoleGrant` | grant, revoke, expiry | authority lost between two steps | every act is authorised when it commits |
| Accounts (`accounts/`) | `User`, activation tokens | close, reopen, delete, reset, activate, administer | requests authorised before their transaction, forms that save every column | somebody can always administer; the password of a reset is replaced |
| Role simulation (`access/`) | `RoleSimulation`, its actions, the session | start, replace, stop, act | several tabs on one session, rights that change, a crash | the journal tells who acted as whom |
| Export, seeds, scripts | - | - | little | - |

Parts interact through the database only: services call one another inside
one transaction (a proposal creates an assignment, a transition queues a
notification), through signals (the cache), or in two transactions (a
decision, then the series). Two kinds of writers share every service: the
REST API, whose writes carry the revision the client loaded, and the classic
pages and Django admin, which carry none; the admin goes through no service for
most rows, and saves every column of them, an old revision included. `ATOMIC_REQUESTS` is not set, so a
request is as many transactions as it makes service calls.

## What is modelled

| Module | Models | Built on |
|---|---|---|
| `ReportingLines` | primary lines of one employee | |
| `TaskAssignment` | one assignment, all its writers, its readers' feed | `ReportingLines` |
| `TaskLifecycle` | abstract: what an assignment promises | |
| `TaskAssignment_proofs` | theorems about `TaskAssignment` | `TaskAssignment` |
| `WorkCalendar` | working days, due dates, schedules of a repetition | |
| `ProgressSeries` | the daily series and the indicators, as pure operators | |
| `ProgressCache` | the stored series, its readers and its invalidation | `ProgressSeries`, `WorkCalendar` |
| `ProgressCache_proofs` | theorems about the series, the indicators and the stored series | `ProgressCache` |
| `TaskRecurrence` | a weekly series and its occurrences | `WorkCalendar` |
| `TaskRecurrence_proofs` | theorems about `TaskRecurrence` and the calendar | `TaskRecurrence` |
| `TaskProposal` | proposals, the tasks they become, the calendar they use | `WorkCalendar` |
| `TaskCodes` | the counters behind the codes of tasks | |
| `TaskProposal_proofs` | theorems about proposals and codes | `TaskProposal`, `TaskCodes` |
| `NotificationOutbox` | the e-mail outbox and its notifiers | |
| `NotificationOutbox_proofs` | theorems about `NotificationOutbox` | `NotificationOutbox` |
| `Hierarchy` | what is read in the organisation: visibility, choices, team page | |
| `Organization` | the writers of the organisation | `Hierarchy` |
| `Accounts` | accounts, passwords, activation | |
| `Organization_proofs` | theorems about the organisation and the accounts | `Organization`, `Accounts` |
| `RoleSimulation` | a superuser's session that acts as somebody else | |
| `Agenda` | drafts, versions and PDFs of the direction agendas | |
| `Presence` | absences | |
| `Agenda_proofs` | theorems about agendas, absences and simulations | `Agenda`, `Presence`, `RoleSimulation` |
| `MissionProcess` | one mission order, from its draft to its end | refines `CaseLifecycle` |
| `CaseLifecycle` | what a case promises | |
| `MissionProcess_proofs` | theorems about `MissionProcess` | `MissionProcess` |
| `MC...` | TLC instances; four of them put parts side by side | |

Parts that share no state and no property are checked by one run: in
`MCTaskAssignment`, `MCOrganization`, `MCTaskProposal` and `MCAgenda` an
execution takes the steps of one part, from one initial state of the others.
Interleaving them would multiply states and show nothing more.

### TaskAssignment and ReportingLines

Each service is `@transaction.atomic` on a row locked with
`select_for_update`, hence one action. `Save` is the part the writes share:
revision checked when one is passed, then incremented. `RecordProgress` is
`record_progress` with everything it does: permissions, the day an employee
may report, the note of a regression, the entry, the superseded activity, the
four branches of the status. `SetPrimarySupervisor` is the line change and
the transfer of the assignment in the same transaction, whatever the
effective date; the transfer does not move the revision, and the model
neither.

`form` is what one API client has loaded. Equality of revisions is all the
code checks; `NoBlindOverwrite` says what it is for. The read of a task is
several queries; a write between them makes the form older than what it
shows, never newer, so an atomic `LoadForm` loses nothing.

The administration's forms of `Task` and `TaskAssignment` go through no service:
`Administer` saves the columns as typed, the revision among them, without a
journal. A form of the API loaded before shows nothing that can be compared any
more (`shown` is `None`), whatever its revision, since the administration leaves
the revision or puts back an old one. `administered` is history: `saved`, or
`overruled` once the administration has typed another status or completion date
than the services had. `CompletedIsFull`, `DecisionOnRecord`,
`AwaitingHasReviewer` and the refinement say nothing of an overruled row;
`FeedShowsEntries`, the supervision and the rest go on. The history screens of
the two tables do the same to the row. Left out: rows added or deleted in the
administration (of entries and activities too), and its exchange of a row's
employee, task or calendar. What it saves of progress entries goes through
`record_progress` and is modelled there. A line added by the administration is
`SetPrimarySupervisor`; the edition there of an existing line, which transfers
nothing, is left out.

Abstractions: wording, dates and workload are one value of `Details`; the
`blocked` flag only asks for a note and is not kept; unit scopes are the
constant `ScopedManagers`; `OpenEnd` stands for a NULL end date; secondary
lines, units and the cycle check of `ReportingLine.clean` are left to the
organisation module. `PrimaryManagers` is a set, because the model's ordering
leaves two lines of the same start date in any order.

`TaskLifecycle` is the promise to readers: absent, open, review, done or
abandoned, with a percentage; or overruled, and then nothing is promised.
`TaskAssignment` implements it under
`phase <- SeenPhase, progress <- SeenProgress`.

### TaskRecurrence

Occurrences are reduced to the phases of `TaskLifecycle`, their schedule and
whether a decision was ever taken. A decision by the API is `DecideThroughApi`
(first transaction), `ReadDecided` (the assignment read again, without a
lock) and `Advance` (second transaction, on the locked series); `Crash` ends
a request between any two. `DecideClassic` is the first transaction alone, as
`assignment_action` runs it. `PlanNext` keeps the order of the code's tests:
stopped, already planned, past the end date, too late, overlapping, no N+1,
and only then the new occurrence. `Edit` is the edit that validates the
repetition and moves the anchor. `EditClassic` is the classic page's
(`edit_assignment` through `update_assignment_schedule`): it dates an occurrence
and its work without validating the repetition, and leaves the anchor where it
was. `moved` marks such an occurrence: `OccurrencesDoNotOverlap` is about the
others, which the code plans or validates. The administration's form of an
occurrence does to its dates what `EditClassic` does and is left out here.

The calendar is the real algorithm (`is_working_day`, `due_date_for`,
`next_working_day`, in `WorkCalendar`) over days 1..`MaxDay` with the closed
days as a constant, one calendar version for the whole run, and a period that
is 7 in the code. `DeleteOccurrence` is `delete_task_assignments`: an
occurrence disappears with its journal, and the series is left as it is. A
request remembers that its occurrence is `deleted`: the number may be planned
again meanwhile, but the task the worker holds is gone and the activity written
beside a successor would point at it, so that the transaction rolls back.

### ProgressSeries and ProgressCache

`ProgressSeries` translates the functions that compute the daily rows, the
split of the workload, the deadline level, the projection and the snapshot of a
period. Loads are in ten-thousandths of a day, the four decimals that the field
and the API accept; `Rounded` is the rounding to tenths, half away from zero, and
`WholeDays` the rounding up to whole days. `ProgressCache` stores their result for
one assignment. A write is two actions: `Begin` runs the signals, which delete
the row inside the transaction, `Commit` shows the change. A reader that finds
no valid row reads the assignment (`Miss`, or `Refresh` for the command), then
the entries and the calendar (`Compute`), then stores (`Store`), without a lock
or a transaction. `origin` remembers whether a stored row was overtaken.

One write is in flight at a time, as the assignment's lock makes it for the
services; an edition of the calendar interleaved with another write is left
out, and so is the deletion of the assignment. The entries and the calendar are
read in one step. A reader's insertion is never blocked by a deletion that found
no row, as PostgreSQL has it under READ COMMITTED.

### TaskProposal and TaskCodes

Each service locks the proposal, so that one request is one step. What may go
wrong comes from what is older than the row: the screen of a supervisor, whose
revision the API checks and the classic page does not; the form of the
administration, which saves the status, the revision and the accepted task as
they were when it was opened, and is limited here to changes of the schedule.
`Accept` creates the task with the repetition of the row,
`AcceptOnClassicPage` without. `Correct` saves twice, the first time under the previous repetition,
as `update_proposal` does, and is refused where the code refuses.
`DeleteTask` and `Reset` release it. A calendar day is checked in one
step and inserted in another; it is deleted without a check. Screens and forms
of deleted rows are dropped: the code answers 404. Titles, actions, the unit,
the accountable manager, and the deletion and the history screen of the
administration are left out.

`TaskCodes` keeps the counters, the codes of the rows and the transactions
that hold a code not yet inserted. `Slug` may send two actions to the same code,
as `slugify` does. The reset deletes the tasks it has seen and then waits for the
counters' locks.

### NotificationOutbox

A notifier reads a batch of ids without a lock, kept as a set because it is
attempted from the oldest on; each id is attempted in a transaction of its own, on the locked row, whose status is not looked at
again. `Deliver`, `Fail` and `CrashAfterMail` are what may become of a mail:
recorded, refused (and perhaps taken by the server all the same), or sent by a
process that died before its commit. `CrashOnMissing` is the uncaught
`DoesNotExist` of a row that a reset deleted. Time is relative: the minutes a
row still waits, the minutes since a batch was read, because the code counts the
next attempt from the batch's `now`. Queued kinds and recipients only decide
whether a row is made.

### Hierarchy and Organization

`Hierarchy` holds the open rows of units, links, memberships, lines and grants,
and what the code computes from them: `VisibleEmployees`, the choices of the
pages, `TeamTree`. Each breadth-first walk of the code is `Reachable`, the
least closed set. `Organization` has the writers. Each is a transaction in two
steps: it decides on what is committed, holding its locks, then commits;
between the two another may decide. User, team and unit pages carry the state token of
the moment they were loaded (`PersonToken`, `TeamToken`, `UnitToken`); the
administration's forms and the reconciliation command carry none. The wait at the commit for the accounts of
a new line is the deferred foreign key of PostgreSQL. `raced` remembers
the first writer that committed a decision taken before another commit. A row
is fresh when it starts today, which decides between rewriting and ending it.
A row carries a key, its primary key, so that a screen may point at a row that
was rewritten since; memberships and links have none, which lets the model
take one for another of the same content. Other effective dates are in
`ReportingLines`; the edition of existing rows in the administration, its history
screens and the validity windows of grants are left out.

### Accounts

An administrator's request is authenticated (`Ask`) before the transaction that
carries it out (`CarryOut`), which compares the state tokens under the locks of
the rows. The stock administration's form holds the whole row since it was
opened; `PostForm` reads it again without a lock and `SaveForm` saves every
column, so that it may reactivate or even reinsert an account. Two other screens of
the stock administration save the row in the same way: `PostPassword`, which
gives somebody a password or takes it away and leaves `password_change_required`
as it was, and `PostEarlier`, the history screen, which puts an earlier version
back with its flag (the history does not hold the password, which stays the
row's). A password is therefore `temporary` after a reset, `given` from the stock
screen, or `chosen`; `TemporaryMustBeReplaced` is about the first: the code
obliges nobody to replace one that was given. An activation saves the row as read
(`SaveActivation`), then clears the flag in a second save (`ClearRequired`).
`excused` and `crossed` are history: a former administrator's request was
carried out, or the administration's form took away rights; a temporary password
was given between the two saves of an activation, or the history screen put an
earlier flag back. `PostEarlier` allows any flags as an earlier version, which is
more than the history holds. A new
account takes the model value of a deleted one that no page mentions. Identity
fields, the owner's profile, the superuser box and sign-in are left out.

### RoleSimulation

One superuser's session, used from several tabs. `Enter` is the middleware
before the view: it reads the session and the simulation, ends the one that is
no longer valid, and decides as whom the request runs. `Record` writes the
journal before the view runs. `Replace` and `Start` are the two transactions of the
start view, `Stop` and `Logout` the ends. `Respond` is the session middleware of
Django, which saves a changed session over whatever is stored: two tabs that
change it at once leave a simulation open that nobody acts under. `Die` may end
a request anywhere. `alone` and `adrift` are history: who overlapped, and which
simulations an overlap, a death or an expiry lost. A new session after a logout
shares nothing with the old one and is not followed.

### Agenda and Presence

A generation locks or inserts the draft (`BeginGeneration`), numbers and stores
the PDF (`StorePdf`), inserts the version (`CommitGeneration`), and may fail or die
between any two, leaving an object behind. The reset lists the files, deletes
the rows, then the files. `screen` is what a preview shows and whether the
draft's revision has told every change since. `SaveDraft` is the API's save: with
the revision on screen, or with none (`expected` is `None`), which the serializer
allows and `ensure_revision` then does not check. `AgendaDraftAdmin` is two
steps: `AdminRead` takes the row without a lock, `AdminSave` writes every column,
the text and the period as typed and the revision as read, and inserts the row
again when a reset has deleted it. A save of a secretary in between is lost, and
its revision comes again. `overruled` is history: the periods whose draft the
administration has moved or put back to an earlier revision since the last reset;
`LaterVersionsShowLaterDrafts` is about the others. `AgendaDraftAdmin` has no
history screen; one of its requests is under way at a time. The
reset restarts revisions. `Presence` has the absences:
each writer validates against what is committed (`against` remembers it) and saves
in a second step; updates lock their own row, which protects nothing from a
creation. Visits, the content of the snapshots, and drafts added or deleted
in the administration are left out.

### MissionProcess

The services of `processes/` are complete and tested, but their API is
switched off for now (`tests/test_mission_process.py`): the model is of the
services. `act_on_case` becomes one action per branch, `Write` is what they
share: the revision is checked and spent. `status` stands for `current_step`
too, which the code always sets with it. `items` holds the open and claimed
work items only; completed ones matter to reading rights, which are left out,
and nothing deletes an item. `NewWorkItem` fails when `resolve_queue` does
(no queue, or two equally near): `routed` says for which kinds it succeeds, and
changes at any time. `delegated` is what `can_work_queue` computes from the
grants, and also changes at any time. `dossier.documents` keeps, for each
kind, the document that none replaces.

The revision number is abstracted. Every write increments it and every write
must present the current one, so a form is valid until the next write and never
again: `form` is the form of one client while it is valid. Everybody else acts
on a form just loaded. The writes on one case are serialised by the row lock,
so one long-lived form is enough to say what a signer may have read.

A transaction is one action, guarded by everything that may refuse it. That a
refusal late in the transaction undoes what was written before is what
`@transaction.atomic` promises: it is assumed here, not shown.

Participants are validated with the
writer as initiator, at every edit (`ValidPeople`); the requester is only
required at submission and before the signature (`ReadyToSubmit`). Abstracted:
texts and dates of the mission, due dates, the journal, the exact confirmation
phrase and the checklist (a client that omits them is refused and nothing
changes), accounts that are deactivated.

`CaseLifecycle` has five phases; its dossier may change in the first two only,
and `signed` is set once, to the dossier of that moment.

## Runs

| Run | Result | Shows |
|---|---|---|
| `assignment` | passes, 637 287 states | type, `CompletedIsFull`, `DecisionOnRecord`, `FeedShowsEntries`, `OneOpenLine`, `NoBlindOverwrite`, `OpenTaskFollowsNPlus1`, refinement of `TaskLifecycle`; `StaleOnlyByRace`, `IndicatorsAgree` |
| `awaiting_reviewer` | violated | see Findings |
| `recurrence` | passes, 1 685 894 states | `SuccessorsFollowDecisions`, `OccurrencesDoNotOverlap`, `PlanningOnlyAdds`, `StoppedForGood`, `NoBlindCancel` |
| `recurrence_restart` | violated | see Findings |
| `recurrence_stalled` | violated | see Findings |
| `proposals` | passes, 772 725 states | `OneTaskPerProposal`, `AcceptedAsShown`, `TasksFollowTheirCalendar`; `NoCodeTwice` |
| `calendar_used` | violated | see Findings |
| `delivery` | passes, 30 843 states | `AttemptsBounded`, `RecordedAtMostOncePerNotifier`, `StatusIsTruthful`, and that every row is sent or given up (`EveryRowSettles`) |
| `organization` | passes, 189 741 states | `LoopsOnlyByRace`, `MutualSupervisionNeedsTheAdministration`, `OfferedMovesAreAccepted`, `TeamTreeIsWhole`, `NoBlindTeamEdit`; `AdministratorRemains`, `TemporaryMustBeReplaced` |
| `agenda` | passes, 1 027 255 states | `NumberedWithoutGap`, `EveryVersionHasItsPdf`, `LaterVersionsShowLaterDrafts`, `NoBlindSave`; `OverlapOnlyByRace`; `JournalTellsSimulations` |
| `mission` | passes, 217 600 states | `OneOpenItem`, `SignatureCovers`, `NoBlindSignature`, refinement of `CaseLifecycle` |
| `mission_traveller` | violated | see Findings |

Several properties allow what the code does not prevent, and only that: a loop in
the organisation, an overlap of absences, a stale series, an open
simulation are accepted when a history variable says that two writers decided
without seeing each other, and never otherwise. `moved`, `administered`,
`overruled` and `crossed` are of the same kind: they tell that a screen which
validates nothing has written the row. Each module
has a type invariant, in the module or, with the rest of the inductive
invariant, in its proofs; where no run names it, the theorems do.

Bounds of `assignment`: five accounts, one for each way of being allowed to
act (employee, two N+1, IT administrator, scoped manager); two days, so that
an entry may be past, current or future and a line may start before, on or
after another; percentages 50 and 100, because the code only compares with
100 and with the previous value (the step of 5 percent is in the guard but
never bites here); two wordings; `MaxRevision` 4, three writes, enough for
report, decision, reopening, and for a stale form after each. The two N+1 are
symmetric. Reorganisation is not counted by the revision and is unbounded
within the two days. The administration may type `completed`, one manager, and the
revisions 1 and 2, so that an old revision comes back; to keep the run small it
saves only rows that nobody supervises, and types another status only when no form is
on screen, after which the behaviour stops, since little is said of it. The
proofs have none of these limits.

Bounds of `recurrence`: a period of 3 days around one holiday on day 4, which
falls on the second anchor and moves its start and due date; loads 1 and 2,
one of which overlaps there; start dates 1 and 2, end dates 5 and 7, so that
a series finishes, is cancelled or goes on to a third occurrence; two
symmetric workers; `MaxRevision` 3, two saves of the series. The classic page has one
edit, at any time: the first occurrence starts a day later and takes longer, so
that it may be due when the second starts. The two runs that look for a
counterexample need no such edit and have none (`ClassicEdits = {}`).

Bounds of `mission`: nothing is counted, so correction rounds, take-overs and
reconfigurations are unlimited. Four accounts: the requester, an assistant, an
assistant who is also the signer, an administrator who may work every queue;
delegations of the two agents come and go; the queues of the first and of the
fourth step disappear and come back; terms of reference in two editions, so
that a document is replaced, and the other pieces in one; the requester and
the signer as possible travellers.

Bounds of the cached series in `assignment`: three days, of which the second
may be closed; plans of a day and a half from the first day and of a quarter of
a day from the second, so that the holiday moves one due date and not the other and
that a part is rounded past its load; two
writes and two symmetric readers, enough for a reader that computes before a
write, stores after another and is read by the second.

Bounds of `proposals`: a period of 3 days, a holiday on day 3; one proposal,
its second life included, and two tasks; three revisions; two plans, of which
the repetition is refused with the load of the other; two symmetric
supervisors. For the codes: two transactions, three actions of which two share
a slug, numbers up to 2, so that a number is reused by hand, by the counter
and by the other action.

Bounds of `delivery`: the watch loop and one run by hand, two rows, batches of
two, three attempts in place of five (so delays of one and two minutes), one lost
mail for each row.

Bounds of `organization`: a direction and a service, three people, from three
charts (a chain of lines, nobody under anybody, a secondary line and a delegation over the
tree); two symmetric sessions; two commits, which is what a race needs. For the
accounts: two symmetric administrators, superusers or not, and an agent; two
pages, forms, posts or activations begun.

Bounds of `agenda`: the period of the secretaries, a second one to which the
administration may move the draft, and one that is too long; the administration
types the empty text and opens nothing during a reset; after it has
overruled the secretaries no version is generated before a reset, since nothing
would be said of it; two symmetric secretaries, of whom one at a time has a preview
on screen while the other saves without a revision; two texts, draft revision 2, two PDFs; absences of one employee
over two days, two symmetric writers, two absences, revision 2; two symmetric
tabs, one employee to act as, two simulations, so that one replaces another,
and one audited request in each.

The runs `assignment`, `recurrence`, `mission` and `delivery` check deadlock: a
day passes or the organisation changes in every state until the bounds are
reached, lines can always be changed, a closed mission can still be read, minutes
pass. In `proposals`, `organization` and `agenda` the bounds on revisions, commits and
numbers stop everything in the end, so that the configurations do not check it.

Fairness is assumed in `delivery` only. The notifier is a loop of the compose
file that is restarted when it dies: it reads a batch again and again while some
row is due (`WF_vars(ReadBatch(Watch))`), and it does not die forever before its
next attempt ends (`SF_vars(Attempt(Watch))`); minutes pass
(`WF_vars(Tick)`). Runs by hand promise nothing. Elsewhere people are not
obliged to act, and nothing in the code retries a lost planning or a failed
generation, so no other liveness property would be justified.

## Findings

- *A review without reviewer* (`awaiting_reviewer`). `DEV.org` and
  `docs/MANUAL.org:41` say the responsible manager decides a task at 100
  percent and that open tasks follow a change of manager. A task created while
  its employee had no N+1, by the employee or by an IT administrator, keeps its
  manager when a first N+1 is set: there is no old line, so
  `_transfer_active_assignments` returns. Once it waits for review neither the
  employee, nor the manager of record, nor the N+1 may validate.
- *Two open occurrences* (`recurrence_restart`). `DEV.org:37` says an
  occurrence cannot start before the previous one is closed. Between the two
  transactions of a decision, or after them, a report reopens the decided
  occurrence, and planning does not look at its status.
- *A series without successor* (`recurrence_stalled`). `DEV.org:51` expects
  the next occurrence in the same transaction and no scheduler. Classic pages
  never plan, and a worker that dies between the transactions does not either.
- *The assistant travels* (`mission_traveller`). An international mission
  concerns its requester only, says `processes/services.py:134`, and
  `DEV.org:510` lets assistance correct the preparation. `update_mission_draft`
  validates the participants with whoever writes as the initiator: an
  assistant's correction makes the assistant the only traveller and refuses the
  requester. The case cannot be sent to signature any more, nor abandoned or
  rejected; only turning it into a domestic mission gets it out.

- *A used calendar that changes* (`calendar_used`).
  `docs/calendrier-ouvrable.md:3` says that the days of a used version are
  read-only. The check is in `WorkCalendarDay.clean`: a deletion in the
  administration never runs it, and an insertion runs it before it inserts,
  without a lock, so that a task may be planned in between.

Other divergences met while modelling, which no run is spent on. The models do
what the code does:

- `docs/api.md:539` lets only the author change a proposal; the code lets its
  N+1 too.
- A recurring proposal accepted on the classic page makes a single task.
- After a change of the calendar a pending proposal whose repetition no longer
  fits cannot even be rejected before it is corrected.
- `reset_reporting_data` leaves the `TaskRecurrence` rows.
- `docs/api.md:604` refuses overlapping absences; the check takes no lock.
- `README.md:93` and `docs/api.md:608` keep in an agenda the tasks that were not
  closed before its period; the code keeps those that are open on the day it is
  generated.
- `assignable_employee_ids` offers people by their secondary memberships, whom
  `can_assign_employee` then refuses.
- The team page lists inactive collaborators whose own page answers 404.
- The unit of an N+1 is checked when the line is made and not when units or
  memberships move afterwards; a user page without unit leaves the primary membership open.
- The chart ignores entries before the start or after the completion, which the lists'
  percentage counts; a period's summary counts a task as late when its due
  date is before the end of the period, even if that day has not come; a task
  closed before it starts is in the list of no period.
- The state token of an account does not cover the password: two
  administrators may both reset one already marked, and the first password shown
  is dead.
- Two tabs that start a simulation at once leave one open in the journal.
- `DEV.org:37` lets no occurrence start before the previous one is closed; the
  classic page dates an occurrence without looking at its neighbours, so that the
  schedules themselves may overlap.
- The parts of a workload are rounded one after the other
  (`work/services.py:632-639`): a quarter of a day that is done shows 0.3 day
  completed and -0.1 remaining. `IndicatorsAgree` says exactly how far
  they may be from the load.
- The revision is optional where a draft is saved (`agenda/api.py:107`): a client
  that leaves it out overwrites what it has not seen.
- The administration's forms of tasks, assignments and drafts leave the revision or
  put an old one back: a form of the API loaded before them is accepted.
- The stock password screen gives an account a password that nobody has to replace,
  where a reset by the user pages obliges its owner to; the history screen can take
  that obligation away.

## Proofs

Every property of the passing runs is a theorem, for all values of the
constants that the named assumptions allow, but for `EveryRowSettles` (see the
end of this section). The assumptions are the types and signs of the constants,
that percentages are at most 100, that the organisation starts from charts
that the models' validations accept (`ChartsAssumption`), and that the markers `None`,
`Idle` and their like are none of the values they stand beside.

Each argument is an inductive invariant. A run checks none of the
strengthenings, but each was checked with TLC on the instance of its run before
it was proved.

`TaskAssignment_proofs`: `IInv == TypeOK /\ CompletedIsFull /\
DecisionOnRecord /\ FeedShowsEntries /\ FormIsRecent`. `CompletedIsFull`,
`DecisionOnRecord` and `FeedShowsEntries` are nearly inductive: each needs the
types and, for a correction, that the feed of a day is the entry it shows.
`FormIsRecent` is the strengthening behind `NoBlindOverwrite`: a form is never
newer than the row, and a form as new as the row shows exactly the row, unless
the administration has saved it since (`shown` is then `None`). It
also holds across transfers, which change the manager without a revision,
because the manager is not part of what a form overwrites. `CurrentProgress`
chooses the latest recorded day; that there is one is the lemma `LatestExists`.
`OneOpenLine` is inductive by itself, `OpenTaskFollowsNPlus1` follows from the
transfer, and the refinement of `TaskLifecycle` from `IInv`, action by action:
`Administer` keeps the phase or overrules it.

`MissionProcess_proofs`: the four invariants of the run and `FormIsCurrent`,
the form on screen shows the case as it is, because every write takes the
revision away from it. `OneOpenItem` and the type are inductive together (each
step completes the only item before it files the next, so the sequence is empty
in between); `SignatureCovers` needs that only the draft and the preparation
are edited, and that no case leaves the execution for another round. The
refinement of `CaseLifecycle` follows action by action.

`TaskRecurrence_proofs`: the calendar comes first. `NextWorkingDayIsFirst` and
`DueDateIsWorked` prove that `next_working_day` and `due_date_for` end, and
where, for any closed days. The invariant adds to `SuccessorsFollowDecisions`
that a request advances from a decided occurrence or one that is deleted
(`RequestsAreDecided`), that every occurrence the classic page has not moved fits
its period (`SchedulesFit`), which gives `OccurrencesDoNotOverlap`, and that a screen with the revision of
the series shows its last occurrence (`ScreensAreBehind`), which gives
`NoBlindCancel`. The attempt showed that the deletion of an occurrence has to
reach the requests that hold it, which the small instance is too short to tell.

`TaskProposal_proofs`: a task keeps its proposal accepted unless an old form
took it back (`TasksAreAccepted`), ids are given in order, and a screen with
the revision of a row shows its plan. For the codes, the holder of a number
holds its counter (`HeldNumbers`) and what a counter has given it has passed
(`GivenNumbersArePassed`).

`NotificationOutbox_proofs`: the bounds are paid. `Holders(d)` are the notifiers
with the row in their batch; attempts and holders together stay below
`MaxAttempts` plus the notifiers (`HoldersPay`), because a row enters a batch
only while it has attempts left, and every attempt takes it out of one.

`Agenda_proofs`: one generation holds a period (`OneGenerationPerPeriod`), so
that a number once computed stays the next one (`NumbersAreNext`); a file has
one owner and a reset deletes only what nobody owns (`FilesAreOwned`);
generations show the current draft and, in a period that is not overruled, no
version is ahead of it (`ShownIsCurrent`). `DraftStep` covers whatever changes
drafts that no generation holds: a save, with a revision or without, and the
administration's. For the absences, a row is apart from what it was compared
with. For the simulations, every write under way is paid by an entry of the
journal (`RecordedBeforeWritten`), and a request that overlaps nobody finds the
session as it read it (`AloneSeesTheSession`, `ChangesAreSeen`).

`Organization_proofs`: `OrgInv` has the types, the locks (`Exclusive`), and for
each property what a decision taken but not committed would make of the rows:
`LoopFree` and `PairFree` say of the rows after each pending decision what the
properties say of the committed ones, as long as nothing was committed in
between. That a change keeps a graph without loops is proved from the
definition of `Reachable` as the least closed set (`SourceOfASet` finds the top of
a set of nodes), and the team tree is whole because a walk from the reader
reaches whoever is below. `Pages` and `TeamsSeen` follow the keys of the rows
that a team page shows. `AccountsInv` follows the last administrator through
activations and through the stock administration's forms, and of a row about to
be saved, from whichever screen, that `crossed` will tell of it when it holds a
temporary password without the obligation to replace it (`FormKnowsCrossed`,
which keeps `OnlyCrossedIsFree`).

`ProgressCache_proofs`: `RowsAreTrue` proves that the daily loop, which carries
the figures of the day before, computes what the entries and the calendar say
of each day: its recursive function is the only solution of its equation, shown
at the first day where two solutions would differ. The invariant says of a
reader that no write has overtaken that it read the committed rows, and of a
row that the transaction under way will not delete that it came after it began.
`IndicatorsAgree` then needs only the types, the order of the percentages and
`DueDateIsWorked`.

What the proofs changed in the models: the deleted occurrence above; the batch
of a notifier is a set; `WorkCalendar` states due dates by what they are and not
by a loop; rows of the organisation have keys. Two exceptions were found by
proofs that failed and are in the properties: a team page may move somebody
whose secondary line of the same day was promoted to primary after it was
loaded, because `collaborator_state_token` leaves `is_primary` out
(`work/services.py:1221`); an account whose password was given between the two
saves of an activation keeps it, also when a form of the administration that
was posted before puts the row back (`crossed` in the forms).

Only model-checked: `EveryRowSettles`, a liveness property under fairness, which
the prover cannot reach; and, in no run's list, the bound on the delay of a
waiting row in `TypeOK` of the outbox, which needs that powers of two grow: the
prover's arithmetic does not know powers (the proofs use `LooseRow`, which has no
bound, and no property rests on it).

## Not modelled

Sign-in, the owner's profile and identity fields; visits and the content of
aggregated snapshots; the aggregates of a team and the drawing of charts; the
validity windows of grants and the check of equivalent ones; the choice among
versions of the calendar; the nearest queue of a mission (`resolve_queue`), its
due dates, reading rights and export; the two storage backends and the
antivirus. They are pure reads, or state that no property above depends
on. Seeds, deployment scripts, the observable export, serialisation and layout
are not planned.

## Plan

1. Done, checked and proved: all modules of the table.
2. To prove: the bound on the delays of the outbox; when planning does follow a
   decision in one request (the converse of `recurrence_restart`); abstract
   specifications of the outbox and of the agenda's versions, and that the
   modules implement them.
3. To model: the nearest queue of a mission; validity windows of grants, with
   the expiry of an authority between two steps.
