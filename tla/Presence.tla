------------------------------- MODULE Presence -------------------------------
(***************************************************************************)
(* The absences that agenda/services.py and the Django administration       *)
(* write.  A write checks that no active absence of the same employee       *)
(* overlaps, then saves: the check locks nothing but the row it updates,    *)
(* and the administration locks nothing at all.                             *)
(***************************************************************************)
EXTENDS Integers, FiniteSets

CONSTANTS
    Writers,       \* HR requests and administration requests in progress
    Employees,
    MaxDay,        \* bound on the dates
    MaxAbsence,    \* bound on the rows created
    MaxAbsenceRevision,  \* bound on the revision of a row
    NoRow          \* no absence, no request

ASSUME PresenceAssumption ==
    /\ MaxDay \in Nat \ {0}
    /\ MaxAbsence \in Nat \ {0}
    /\ MaxAbsenceRevision \in Nat \ {0}

VARIABLES
    absences,   \* by id, the StaffAvailability row
    writing     \* by writer, the row it has validated and not saved yet

presence == <<absences, writing>>

AbsenceIds == 1..MaxAbsence
Period == {p \in [start : 1..MaxDay, end : 1..MaxDay] : p.start <= p.end}

\* against: history, the active absences of others the check compared the
\* dates with when they were last written.
Absence == [employee : Employees, period : Period, cancelled : BOOLEAN,
            revision : 1..MaxAbsenceRevision,
            against : SUBSET [id : AbsenceIds, period : Period]]

\* A request: the row it will save, and whether select_for_update holds it.
Request == [id : AbsenceIds, row : Absence, locks : BOOLEAN]

Rows == {a \in AbsenceIds : absences[a] # NoRow}

\* Type invariant: rows and requests keep their domains, and no row was
\* compared with itself.
PresenceTypeOK ==
    /\ absences \in [AbsenceIds -> Absence \cup {NoRow}]
    /\ writing \in [Writers -> Request \cup {NoRow}]
    /\ \A a \in Rows : \A other \in absences[a].against : other.id # a

PresenceInit ==
    /\ absences = [a \in AbsenceIds |-> NoRow]
    /\ writing = [w \in Writers |-> NoRow]

Active(employee) ==
    {a \in Rows : absences[a].employee = employee /\ ~ absences[a].cancelled}

\* A plausible slip: an absence may start the day the previous one ends.
OverlapStrict(p, q) == p.start < q.end /\ p.end > q.start

Overlap(p, q) == p.start <= q.end /\ p.end >= q.start

RowLocked(a) == \E w \in Writers : writing[w] # NoRow /\ writing[w].id = a /\ writing[w].locks

\* full_clean: what the validation of row a compares its dates with.
Against(a, employee) ==
    {[id |-> b, period |-> absences[b].period] : b \in Active(employee) \ {a}}

Validated(a, employee, period, revision) ==
    [employee |-> employee, period |-> period, cancelled |-> FALSE,
     revision |-> revision, against |-> Against(a, employee)]

NoOverlap(a, employee, period) ==
    \A other \in Against(a, employee) : ~ Overlap(period, other.period)

-----------------------------------------------------------------------------
(* The transactions, up to their validation *)

BeginCreate(w, a, employee, period) ==
    /\ writing[w] = NoRow
    /\ a \notin Rows
    /\ \A v \in Writers : writing[v] # NoRow => writing[v].id # a
    /\ NoOverlap(a, employee, period)
    /\ writing' = [writing EXCEPT ![w] =
          [id |-> a, row |-> Validated(a, employee, period, 1), locks |-> FALSE]]
    /\ UNCHANGED absences

\* update_availability, from the screen that shows revision.
BeginUpdate(w, a, period, revision) ==
    /\ writing[w] = NoRow
    /\ a \in Rows /\ ~ RowLocked(a)
    /\ revision = absences[a].revision /\ revision < MaxAbsenceRevision
    /\ ~ absences[a].cancelled
    /\ NoOverlap(a, absences[a].employee, period)
    /\ writing' = [writing EXCEPT ![w] =
          [id |-> a, row |-> Validated(a, absences[a].employee, period, revision + 1),
           locks |-> TRUE]]
    /\ UNCHANGED absences

\* StaffAvailabilityAdmin: read without a lock, every column saved as read.
BeginAdminEdit(w, a, period) ==
    /\ writing[w] = NoRow
    /\ a \in Rows
    /\ ~ absences[a].cancelled
    /\ NoOverlap(a, absences[a].employee, period)
    /\ writing' = [writing EXCEPT ![w] =
          [id |-> a, row |-> Validated(a, absences[a].employee, period, absences[a].revision),
           locks |-> FALSE]]
    /\ UNCHANGED absences

\* The row is saved and the transaction commits.
Save(w) ==
    /\ writing[w] # NoRow
    /\ ~ writing[w].locks => ~ RowLocked(writing[w].id)
    /\ absences' = [absences EXCEPT ![writing[w].id] = writing[w].row]
    /\ writing' = [writing EXCEPT ![w] = NoRow]

\* The worker dies, or the database refuses.
Abort(w) ==
    /\ writing[w] # NoRow
    /\ writing' = [writing EXCEPT ![w] = NoRow]
    /\ UNCHANGED absences

Cancelled(row) == [row EXCEPT !.cancelled = TRUE, !.revision = @ + 1]

\* cancel_availability: nothing overlaps a cancelled absence.
CancelAbsence(a, revision) ==
    /\ a \in Rows /\ ~ RowLocked(a)
    /\ revision = absences[a].revision /\ revision < MaxAbsenceRevision
    /\ ~ absences[a].cancelled
    /\ absences' = [absences EXCEPT ![a] = Cancelled(@)]
    /\ UNCHANGED writing

PresenceNext ==
    \/ \E w \in Writers, a \in AbsenceIds, period \in Period :
          \/ \E employee \in Employees : BeginCreate(w, a, employee, period)
          \/ \E revision \in 1..MaxAbsenceRevision : BeginUpdate(w, a, period, revision)
          \/ BeginAdminEdit(w, a, period)
    \/ \E w \in Writers : Save(w) \/ Abort(w)
    \/ \E a \in AbsenceIds, revision \in 1..MaxAbsenceRevision : CancelAbsence(a, revision)

PresenceSpec == PresenceInit /\ [][PresenceNext]_presence

-----------------------------------------------------------------------------

CoversDay(a, day) == absences[a].period.start <= day /\ day <= absences[a].period.end

\* An employee is absent twice on one day only when each of the two absences
\* was validated before the other was saved: a check that saw the other's
\* dates refused.
OverlapOnlyByRace ==
    \A e \in Employees, day \in 1..MaxDay : \A a, b \in Active(e) :
        a # b /\ CoversDay(a, day) /\ CoversDay(b, day)
          => [id |-> b, period |-> absences[b].period] \notin absences[a].against
=============================================================================
