--------------------------- MODULE TaskAssignment ---------------------------
(***************************************************************************)
(* One TaskAssignment of work/services.py: its status, its dated progress  *)
(* entries, the feed its readers see, the manager who answers for it and   *)
(* the optimistic revision that protects API writes.  Every service is one *)
(* transaction on a row locked with select_for_update: one action each.    *)
(*                                                                         *)
(* A write arrives either from the API, with the revision of the form the  *)
(* client has on screen, or from the classic pages and the administration  *)
(* of progress entries, which pass no revision.  The administration of the *)
(* Task and TaskAssignment rows goes through no service: it saves every    *)
(* column as its form has it.                                              *)
(***************************************************************************)
EXTENDS ReportingLines, Sequences

CONSTANTS
    ItAdmins,        \* is_it_admin or is_superuser
    ScopedManagers,  \* hold MANAGE_PERMISSION on the assignment's unit
    Percentages,     \* the percentages that are submitted
    Details,         \* wordings and schedules of the task
    TypedStatuses,   \* what the administration may type over the row's status,
    TypedManagers,   \* over its manager
    TypedRevisions,  \* and over its revision
    MaxRevision,     \* bound on the writes of a behaviour
    None             \* no entry on a day, no form on screen

ASSUME AssignmentAssumption ==
    /\ ItAdmins \subseteq Users
    /\ ScopedManagers \subseteq Users
    /\ Percentages \subseteq 0..100
    /\ Details # {}
    /\ TypedManagers \subseteq Users
    /\ MaxRevision \in Nat \ {0}
    /\ TypedRevisions \subseteq 1..MaxRevision
    /\ None \notin Percentages

VARIABLES
    status,       \* TaskAssignment.status, "absent" before its creation
    manager,      \* TaskAssignment.manager
    revision,     \* TaskAssignment.revision
    completedAt,  \* whether TaskAssignment.completed_at is set
    details,      \* Task wording and the assignment's dates and workload
    entries,      \* ProgressEntry.percentage by entry_date
    feed,         \* by entry_date, the PROGRESS activities nothing supersedes
    decision,     \* the last VALIDATED, REJECTED, REOPENED or CLOSED activity
    form,         \* what one API client has on screen
    administered  \* history: what the administration's forms have done to the row

contentVars == <<status, completedAt, details, entries, feed, decision>>
vars == <<lineVars, contentVars, manager, revision, form, administered>>

ActiveStates == {"planned", "active", "awaiting_validation"}
Statuses == ActiveStates \cup {"completed", "closed_early"}

ASSUME TypedAssumption == TypedStatuses \subseteq Statuses

Decisions == {"none", "validated", "rejected", "reopened", "closed"}
Administrations == {"never", "saved", "overruled"}
Texts == {"", "text"}
Channels == {"api", "classic"}

Content == [status |-> status, details |-> details, entries |-> entries]
Contents == [status : Statuses, details : Details,
             entries : [Days -> Percentages \cup {None}]]

\* shown: None once the administration saved the row since the form was loaded.
Form == [revision : 1..MaxRevision, shown : Contents \cup {None}]

\* The administration has put another status or completion date on the row.
Overruled == administered = "overruled"

ASSUME NoneIsNoForm == None \notin Contents \cup Form

-----------------------------------------------------------------------------
(* current_progress: the percentage of the latest entry, 0 without any *)

RecordedDays == {d \in Days : entries[d] # None}

LatestDay == CHOOSE d \in RecordedDays : \A e \in RecordedDays : e <= d

CurrentProgress == IF RecordedDays = {} THEN 0 ELSE entries[LatestDay]

-----------------------------------------------------------------------------
(* Permissions, read inside the transaction of the write they guard *)

CanSelfAssign(u) == u \notin ItAdmins /\ u = Employee /\ ~HasNPlus1(today)

IsSelfManaged(u) == u = Employee /\ manager = u /\ CanSelfAssign(u)

IsManagerAndNPlus1(u) == manager = u /\ IsPrimarySupervisor(u)

CanManage(u) ==
    u \in ItAdmins \/ IsSelfManaged(u) \/ u \in ScopedManagers \/ IsManagerAndNPlus1(u)

CanValidate(u) == IsSelfManaged(u) \/ IsManagerAndNPlus1(u)

CanComment(u) ==
    u = Employee \/ u \in ItAdmins \/ IsPrimarySupervisor(u) \/ u \in ScopedManagers

CanAssign(u, start) ==
    \/ u \in ItAdmins
    \/ CanSelfAssign(u)
    \/ \E l \in ActiveLines(start) : l.supervisor = u
    \/ u \in ScopedManagers

-----------------------------------------------------------------------------
(* ensure_revision: an API write carries the revision of the form on       *)
(* screen and is refused when it is stale; the form closes on success.     *)

\* A plausible slip: the expected revision is not passed on.
EnsureRevisionDropped(via) == via \in Channels

EnsureRevision(via) == via = "api" => form # None /\ form.revision = revision

FormAfter(via) == IF via = "api" THEN None ELSE form

\* Common to the writes: the revision is checked, then incremented and saved.
Save(via) ==
    /\ revision < MaxRevision
    /\ EnsureRevision(via)
    /\ revision' = revision + 1
    /\ form' = FormAfter(via)
    /\ UNCHANGED <<lineVars, manager, administered>>

Init ==
    /\ LinesInit
    /\ status = "absent"
    /\ manager = Employee
    /\ revision = 1
    /\ completedAt = FALSE
    /\ details \in Details
    /\ entries = [d \in Days |-> None]
    /\ feed = [d \in Days |-> <<>>]
    /\ decision = "none"
    /\ form = None
    /\ administered = "never"

\* create_assignment_for_user: the manager is the N+1 on the start date.
Create(u, start) ==
    /\ status = "absent"
    /\ CanAssign(u, start)
    /\ manager' \in IF u = Employee \/ PrimaryManagers(start) = {}
                    THEN {u} ELSE PrimaryManagers(start)
    /\ status' = "planned"
    /\ UNCHANGED <<lineVars, revision, completedAt, details, entries, feed,
                   decision, form, administered>>

LoadForm ==
    /\ status # "absent"
    /\ form' = [revision |-> revision, shown |-> Content]
    /\ UNCHANGED <<lineVars, contentVars, manager, revision, administered>>

-----------------------------------------------------------------------------
(* record_progress *)

\* Plausible slips: a done task is not reopened; it is sent back to review.
StatusNeverReopened(p) ==
    IF status = "completed" THEN "completed"
    ELSE IF p = 100 THEN "awaiting_validation" ELSE "active"
StatusAlwaysReviewed(p) == IF p = 100 THEN "awaiting_validation" ELSE "active"

StatusAfterReport(p) ==
    CASE status = "completed" /\ p = 100 -> "completed"
      [] status # "completed" /\ p = 100 -> "awaiting_validation"
      [] p # 100 -> "active"

\* A plausible slip: the corrected activity stays visible.
FeedKeepsCorrected(d, p) == [feed EXCEPT ![d] = Append(@, p)]

\* A correction supersedes the activity its readers see for that day.
FeedAfterReport(d, p) ==
    LET seen == feed[d]
        kept == IF entries[d] # None /\ seen # <<>>
                THEN SubSeq(seen, 1, Len(seen) - 1) ELSE seen
    IN [feed EXCEPT ![d] = Append(kept, p)]

\* The entry is written and the status, the completion date and the journal
\* follow.
RecordEntry(d, p) ==
    /\ entries' = [entries EXCEPT ![d] = p]
    /\ feed' = FeedAfterReport(d, p)
    /\ status' = StatusAfterReport(p)
    /\ completedAt' = (completedAt /\ (status = "completed" <=> p = 100))
    /\ decision' = IF status = "completed" /\ p # 100 THEN "reopened" ELSE decision

\* The employee reports for today, a manager for any day.  A regression needs
\* a note; a blocked report needs one too, and the flag changes nothing else.
RecordProgress(u, via, note) ==
    /\ Save(via)
    /\ status \in Statuses \ {"closed_early"}
    /\ u = Employee \/ CanManage(u)
    /\ \E d \in Days, p \in Percentages :
          /\ u = Employee => d = today
          /\ u \notin ItAdmins => p % 5 = 0
          /\ p < CurrentProgress => note # ""
          /\ RecordEntry(d, p)
    /\ UNCHANGED details

-----------------------------------------------------------------------------
(* validate_completion, reject_completion, close_early *)

\* A plausible slip: any task at 100 percent can be validated.
ValidateAnyStatus(u, via) ==
    /\ Save(via)
    /\ CanValidate(u)
    /\ status # "absent"
    /\ CurrentProgress = 100
    /\ status' = "completed"
    /\ completedAt' = TRUE
    /\ decision' = "validated"
    /\ UNCHANGED <<details, entries, feed>>

ValidateCompletion(u, via) ==
    /\ Save(via)
    /\ CanValidate(u)
    /\ status = "awaiting_validation"
    /\ CurrentProgress = 100
    /\ status' = "completed"
    /\ completedAt' = TRUE
    /\ decision' = "validated"
    /\ UNCHANGED <<details, entries, feed>>

RejectCompletion(u, via, reason) ==
    /\ Save(via)
    /\ CanValidate(u)
    /\ status = "awaiting_validation"
    /\ reason # ""
    /\ status' = "active"
    /\ decision' = "rejected"
    /\ UNCHANGED <<completedAt, details, entries, feed>>

\* No status is refused: a done or already closed task can be closed.
CloseEarly(u, via, reason) ==
    /\ Save(via)
    /\ status # "absent"
    /\ CanManage(u)
    /\ reason # ""
    /\ status' = "closed_early"
    /\ completedAt' = TRUE
    /\ decision' = "closed"
    /\ UNCHANGED <<details, entries, feed>>

-----------------------------------------------------------------------------
(* add_observation and update_assignment_details *)

AddObservation(u, via, message) ==
    /\ Save(via)
    /\ status # "absent"
    /\ CanComment(u)
    /\ message # ""
    /\ UNCHANGED contentVars

\* Wording and schedule change together; no status is refused here either.
UpdateDetails(u, via, new) ==
    /\ Save(via)
    /\ status # "absent"
    /\ CanManage(u)
    /\ details' = new
    /\ UNCHANGED <<status, completedAt, entries, feed, decision>>

-----------------------------------------------------------------------------
(* TaskAdmin and TaskAssignmentAdmin: every column of the row is a field of *)
(* the form, the revision too.  Whatever the row has become since the form *)
(* was opened, it is saved as typed, without a journal.                    *)

Administer ==
    /\ status # "absent"
    /\ status' \in TypedStatuses \cup {status}
    /\ manager' \in TypedManagers \cup {manager}
    /\ revision' \in TypedRevisions \cup {revision}
    /\ completedAt' \in BOOLEAN
    /\ details' \in Details
    /\ administered' = IF Overruled \/ status' # status \/ completedAt' # completedAt
                       THEN "overruled" ELSE "saved"
    /\ form' = IF form = None THEN None ELSE [form EXCEPT !.shown = None]
    /\ UNCHANGED <<lineVars, entries, feed, decision>>

-----------------------------------------------------------------------------
(* Reorganisation *)

\* A plausible slip: tasks in review stay with the former manager.
TransferAllButReviews(s, oldManagers) ==
    manager' = IF status \in {"planned", "active"} /\ manager \in oldManagers
               THEN s ELSE manager

\* _transfer_active_assignments: the open work of the managers whose lines
\* were open follows the new N+1.  The revision does not change.
TransferActiveAssignments(s, oldManagers) ==
    manager' = IF status \in ActiveStates /\ manager \in oldManagers
               THEN s ELSE manager

SetPrimarySupervisor(s, eff) ==
    /\ SetLine(s, eff)
    /\ TransferActiveAssignments(s, {l.supervisor : l \in OpenLines})
    /\ UNCHANGED <<today, contentVars, revision, form, administered>>

ClearPrimarySupervisor(eff) ==
    /\ EndLine(eff)
    /\ UNCHANGED <<today, contentVars, manager, revision, form, administered>>

NextDay ==
    /\ today < MaxDay
    /\ today' = today + 1
    /\ UNCHANGED <<lines, contentVars, manager, revision, form, administered>>

-----------------------------------------------------------------------------

Write(u, via) ==
    \/ \E note \in Texts : RecordProgress(u, via, note)
    \/ ValidateCompletion(u, via)
    \/ \E reason \in Texts : RejectCompletion(u, via, reason)
    \/ \E reason \in Texts : CloseEarly(u, via, reason)
    \/ \E message \in Texts : AddObservation(u, via, message)
    \/ \E new \in Details : UpdateDetails(u, via, new)

Next ==
    \/ \E u \in Users, via \in Channels : Write(u, via)
    \/ \E u \in Users, start \in Days : Create(u, start)
    \/ LoadForm
    \/ Administer
    \/ \E s \in Supervisors, eff \in Days : SetPrimarySupervisor(s, eff)
    \/ \E eff \in Days : ClearPrimarySupervisor(eff)
    \/ NextDay

Spec == Init /\ [][Next]_vars

-----------------------------------------------------------------------------
(* Properties *)

\* Type invariant: statuses, revisions, entries and forms keep their domains.
TypeOK ==
    /\ LinesTypeOK
    /\ status \in Statuses \cup {"absent"}
    /\ manager \in Users
    /\ revision \in 1..MaxRevision
    /\ completedAt \in BOOLEAN
    /\ details \in Details
    /\ entries \in [Days -> Percentages \cup {None}]
    /\ feed \in [Days -> Seq(Percentages)]
    /\ decision \in Decisions
    /\ form \in Form \cup {None}
    /\ administered \in Administrations

\* A completed task is at 100 percent: whatever the order of validations and
\* of corrections of past or future days, no entry leaves it completed below
\* (effective_assignment_status calls the other case impossible).  Only the
\* administration may put a status that no service would.
CompletedIsFull == ~ Overruled /\ status = "completed" => CurrentProgress = 100

\* The journal explains the row: a task is completed exactly when its last
\* decision is a validation, closed exactly when it is a closure, and it is
\* dated exactly when it is one of the two, until the administration writes
\* another status or date.
DecisionOnRecord ==
    \/ Overruled
    \/ /\ status = "completed" <=> decision = "validated"
       /\ status = "closed_early" <=> decision = "closed"
       /\ completedAt <=> status \in {"completed", "closed_early"}

\* For every day readers see one progress activity, the current one: each
\* correction hides exactly the activity it replaces.
FeedShowsEntries ==
    \A d \in Days : feed[d] = IF entries[d] = None THEN <<>> ELSE <<entries[d]>>

\* An API write commits only over the content its client had on screen: equal
\* revisions mean equal content, so no write of another user is overwritten
\* unseen, whichever service made it.  The exception is the administration, which
\* leaves the revision or puts back an old one.
NoBlindOverwrite ==
    [][form # None /\ form' = None /\ form.shown # None => form.shown = Content]_vars

\* When the N+1 who manages an open task is replaced, the new N+1 manages it.
OpenTaskFollowsNPlus1 ==
    [][lines' # lines => \A old \in OpenLines, new \in OpenLines' :
          status \in ActiveStates /\ manager = old.supervisor
            => manager' = new.supervisor]_vars

\* A task waiting for a decision whose employee has an N+1 can be decided by
\* someone, as long as the administration did not choose its status.
AwaitingHasReviewer ==
    ~ Overruled /\ status = "awaiting_validation" /\ HasNPlus1(today)
      => \E u \in Users : CanValidate(u)

-----------------------------------------------------------------------------
(* What the readers of the task see of it *)

Phase ==
    CASE status = "absent" -> "absent"
      [] status \in {"planned", "active"} -> "open"
      [] status = "awaiting_validation" -> "review"
      [] status = "completed" -> "done"
      [] status = "closed_early" -> "abandoned"

SeenPhase == IF Overruled THEN "overruled" ELSE Phase
SeenProgress == IF Overruled THEN 0 ELSE CurrentProgress

Lifecycle == INSTANCE TaskLifecycle WITH phase <- SeenPhase, progress <- SeenProgress

\* The assignment implements TaskLifecycle: done only through a review at 100
\* percent, abandoned for good, progress frozen once abandoned, as long as the
\* administration does not overrule the services.
LifecycleSpec == Lifecycle!Spec
=============================================================================
