------------------------------ MODULE Hierarchy ------------------------------
(***************************************************************************)
(* The organisation that work/models.py stores and what the services read  *)
(* in it: the tree of units, who belongs to them, who reports to whom,     *)
(* whom a delegated role lets somebody see, and the team page.             *)
(*                                                                         *)
(* Only the rows that are open today are kept: ReportingLines treats       *)
(* effective dates.  A row is fresh when it starts today, which is what    *)
(* decides whether a change rewrites it or ends it; the key tells the rows *)
(* of one employee apart.                                                  *)
(***************************************************************************)
EXTENDS Integers, FiniteSets

CONSTANTS
    People,    \* the accounts, by primary key
    Units,     \* the organisation units
    Worked,    \* the <<person, unit>> of the assignments of the period
    None       \* no unit, parent, N+1, form or transaction

ASSUME HierarchyAssumption ==
    /\ People \subseteq Nat /\ IsFiniteSet(People)
    /\ IsFiniteSet(Units)
    /\ Worked \subseteq People \X Units

VARIABLES
    parent,     \* by unit, the supervising unit of its OrganizationUnitLink
    archived,   \* the units that are not active
    primary,    \* by person, the unit of the open primary membership
    secondary,  \* the <<person, unit>> of the other open memberships
    lines,      \* the open ReportingLine rows
    grants,     \* the RoleGrant rows in force that carry view_unit_scope
    inactive    \* the deactivated accounts

orgVars == <<parent, archived, primary, secondary, lines, grants, inactive>>

Line == [employee : People, supervisor : People, primary : BOOLEAN, fresh : BOOLEAN,
         key : Int]
Grant == [user : People, unit : Units, scope : {"unit", "tree"}]

\* The constraints of ReportingLine: two people, one key, one primary line.
Rows(rows) ==
    /\ rows \subseteq Line
    /\ \A l \in rows : l.employee # l.supervisor
    /\ \A k, l \in rows :
          k.employee = l.employee /\ (k.key = l.key \/ (k.primary /\ l.primary)) => k = l

HierarchyTypeOK ==
    /\ parent \in [Units -> Units \cup {None}]
    /\ archived \subseteq Units
    /\ primary \in [People -> Units \cup {None}]
    /\ secondary \subseteq People \X Units
    /\ Rows(lines)
    /\ grants \subseteq Grant
    /\ inactive \subseteq People

-----------------------------------------------------------------------------
(* Every walk of the code, with its queue and its visited set, computes    *)
(* the smallest set that contains its start and is closed under the edges. *)

Reachable(edges, from, nodes) ==
    {n \in nodes : \A C \in SUBSET nodes :
        /\ from \subseteq C
        /\ \A e \in edges : e[1] \in C => e[2] \in C
        => n \in C}

UnitEdges(up) == {<<up[u], u>> : u \in {v \in Units : up[v] # None}}
Below(up, u) == Reachable(UnitEdges(up), {u}, Units)

LineEdges(rows) == {<<l.supervisor, l.employee>> : l \in rows}
Subordinates(rows, p) == Reachable(LineEdges(rows), {p}, People)

\* The edges, walked from a node, come back to it.
Loop(edges, nodes) ==
    \E n \in nodes : n \in Reachable(edges, {e[2] : e \in {d \in edges : d[1] = n}}, nodes)

-----------------------------------------------------------------------------
(* What the models' clean methods refuse.                                  *)

\* OrganizationUnitLink.clean, for a link from q to u among the links "up",
\* where u has no other parent: q must not be below u.
LinkAllowed(up, q, u) == q # u /\ up[u] = None /\ q \notin Below(up, u)

\* A plausible slip: the walk follows the primary lines only.
LineAllowedPrimaryOnly(rows, e, s) ==
    e # s /\ s \notin Subordinates({l \in rows : l.primary}, e)

\* ReportingLine.clean among the open rows that are not the row itself.
LineAllowed(rows, e, s) == e # s /\ s \notin Subordinates(rows, e)

\* validate_supervisor_unit, with a membership required of the supervisor.
SupervisesUnit(members, s, u) == members[s] # None /\ u \in Below(parent, members[s])

NPlus1(rows, p) == {l \in rows : l.employee = p /\ l.primary}
Team(rows, s) == {l.employee : l \in {k \in rows : k.supervisor = s /\ k.primary}}

-----------------------------------------------------------------------------
(* access/services.py: the scope of a delegated role *)

\* The grants of active accounts on active units; the tree of a grant stops
\* at an archived unit.
UnitsInScope(g) ==
    IF g.scope = "unit" THEN {g.unit}
    ELSE Reachable({e \in UnitEdges(parent) : e[2] \notin archived}, {g.unit}, Units)

ScopedUnits(u) ==
    UNION {UnitsInScope(g) : g \in {h \in grants : /\ h.user = u
                                                   /\ u \notin inactive
                                                   /\ h.unit \notin archived}}

MemberUsers(units) ==
    {p \in People \ inactive : primary[p] \in units \/ \E u \in units : <<p, u>> \in secondary}

\* visible_employee_ids: the hierarchy, the members of the scoped units, and
\* those whose work was done there.
VisibleEmployees(m) ==
    Subordinates(lines, m) \cup MemberUsers(ScopedUnits(m))
        \cup {w[1] : w \in {x \in Worked : x[2] \in ScopedUnits(m)}}

-----------------------------------------------------------------------------
(* team_tree_overview: the primary lines between visible people; who hangs *)
(* from nobody there hangs from the manager.  The recursion never follows  *)
(* a person twice on one branch.                                           *)

TeamPeople(m) == VisibleEmployees(m) \ {m}

TeamEdges(m) ==
    {<<l.supervisor, l.employee>> :
        l \in {k \in lines : /\ k.primary
                             /\ k.employee \in TeamPeople(m)
                             /\ k.supervisor \in TeamPeople(m) \cup {m}}}

\* A plausible slip: only those without any N+1 hang from the manager.
DetachedWithoutNPlus1(m) == {p \in TeamPeople(m) : NPlus1(lines, p) = {}}

Detached(m) == TeamPeople(m) \ {e[2] : e \in TeamEdges(m)}

TeamTree(m) ==
    Reachable(TeamEdges(m) \cup ({m} \X Detached(m)), {m}, People) \ {m}

\* The team page shows everybody whom its reader may see, wherever the path
\* of lines to them leaves what the reader sees, and nobody else.
TeamTreeIsWhole ==
    ~Loop(LineEdges(lines), People) =>
        \A m \in People : TeamTree(m) = VisibleEmployees(m) \ {m}

-----------------------------------------------------------------------------
(* The choices of the user administration.                                 *)

\* A plausible slip: only the supervisor's own N+1 is left out, not the chain.
EligibleButTheNPlus1(s) ==
    IF s \in inactive \/ primary[s] = None THEN {}
    ELSE {p \in People \ (inactive \cup {s}) :
             /\ primary[p] \in Below(parent, primary[s])
             /\ ~\E l \in lines : l.employee = s /\ l.supervisor = p}

\* eligible_primary_collaborator_ids
EligibleCollaborators(s) ==
    IF s \in inactive \/ primary[s] = None THEN {}
    ELSE LET below == Reachable({e \in UnitEdges(parent) : e[2] \notin archived},
                                {primary[s]}, Units)
         IN {p \in People \ (inactive \cup {s}) :
                primary[p] \in below /\ s \notin Subordinates(lines, p)}

\* eligible_primary_supervisor_ids
EligibleSupervisors(e) ==
    IF primary[e] = None THEN {}
    ELSE {s \in People \ (inactive \cup Subordinates(lines, e)) :
             SupervisesUnit(primary, s, primary[e])}

=============================================================================
