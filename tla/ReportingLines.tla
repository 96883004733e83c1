--------------------------- MODULE ReportingLines ---------------------------
(***************************************************************************)
(* The dated primary reporting lines of one employee (work/models.py,      *)
(* ReportingLine) and the two operations of work/services.py that change   *)
(* them.  Days are numbered 1..MaxDay.  A line whose end_date is NULL ends *)
(* at OpenEnd, the day after the last one, so that "end is null or end >=  *)
(* day" is just "end >= day".                                              *)
(***************************************************************************)
EXTENDS Integers

CONSTANTS
    Users,        \* every account that acts on the task
    Employee,     \* the account the task is assigned to
    Supervisors,  \* the accounts that may become the employee's N+1
    MaxDay        \* bound on the calendar

ASSUME LinesAssumption ==
    /\ Employee \in Users
    /\ Supervisors \subseteq Users \ {Employee}
    /\ MaxDay \in Nat \ {0}

VARIABLES
    today,   \* timezone.localdate()
    lines    \* the primary ReportingLine rows of the employee

lineVars == <<today, lines>>

Days == 1..MaxDay
OpenEnd == MaxDay + 1
Line == [supervisor : Supervisors, start : Days, end : 1..OpenEnd]

LinesTypeOK ==
    /\ today \in Days
    /\ lines \in SUBSET Line

-----------------------------------------------------------------------------
(* active_lines, primary_manager and is_primary_supervisor *)

ActiveLines(day) == {l \in lines : l.start <= day /\ l.end >= day}

OpenLines == {l \in lines : l.end = OpenEnd}

\* primary_manager takes the first active line in the model's ordering, the
\* latest start first; nothing orders two lines that start on the same day,
\* so it is a set.
PrimaryManagers(day) ==
    {l.supervisor : l \in {k \in ActiveLines(day) :
                             \A m \in ActiveLines(day) : m.start <= k.start}}

HasNPlus1(day) == ActiveLines(day) # {}

IsPrimarySupervisor(u) == \E l \in ActiveLines(today) : l.supervisor = u

-----------------------------------------------------------------------------
(* set_primary_supervisor and the branch of update_user_organization that  *)
(* removes the supervisor.  eff is the administrator's effective date, in  *)
(* the past, today or in the future.  Units are left out: the early return *)
(* for an unchanged line is a stutter, and the same supervisor in another  *)
(* unit is a step like the others.                                         *)

LinesInit ==
    /\ today = 1
    /\ lines = {}

\* The open line already starts on the effective date: it is rewritten.
RewriteOpenLine(s, eff) ==
    \E l \in OpenLines :
        /\ l.start = eff
        /\ lines' = (lines \ {l}) \cup {[l EXCEPT !.supervisor = s]}

\* A plausible slip: the line of the former supervisor is left open.
ReplaceKeepsOpenLine(s, eff) ==
    /\ \A l \in OpenLines : l.start < eff
    /\ lines' = lines \cup {[supervisor |-> s, start |-> eff, end |-> OpenEnd]}

\* Otherwise the open line, which must be older, ends the day before and a
\* new line opens.  Lines that ended earlier are not looked at.
ReplaceOpenLine(s, eff) ==
    /\ \A l \in OpenLines : l.start < eff
    /\ lines' = (lines \ OpenLines)
                  \cup {[l EXCEPT !.end = eff - 1] : l \in OpenLines}
                  \cup {[supervisor |-> s, start |-> eff, end |-> OpenEnd]}

SetLine(s, eff) ==
    /\ s # Employee
    /\ RewriteOpenLine(s, eff) \/ ReplaceOpenLine(s, eff)

\* A plausible slip: the line ends the day before, even when it starts later.
EndLineUnclamped(eff) ==
    \E l \in OpenLines : lines' = (lines \ {l}) \cup {[l EXCEPT !.end = eff - 1]}

EndLine(eff) ==
    \E l \in OpenLines :
        lines' = (lines \ {l})
                   \cup {[l EXCEPT !.end = IF l.start > eff - 1
                                           THEN l.start ELSE eff - 1]}

-----------------------------------------------------------------------------

\* No sequence of effective dates leaves an employee with two open primary
\* lines: the database constraint one_active_primary_supervisor never has to
\* refuse what the services do.
OneOpenLine == \A k, l \in OpenLines : k = l

=============================================================================
