---------------------------- MODULE Organization ----------------------------
(***************************************************************************)
(* The writers of the organisation: the user pages (update_user_           *)
(* organization), the team page (update_primary_collaborators), the unit   *)
(* page (update_unit_hierarchy), the administration forms and the          *)
(* reconciliation command.                                                 *)
(*                                                                         *)
(* A writer is a transaction in two steps: it takes its locks and decides, *)
(* reading what is committed; then it commits.  PostgreSQL makes it wait   *)
(* for the rows others have locked, and at its commit, where the deferred  *)
(* foreign keys are checked, for the accounts of a new line; who waits     *)
(* too long, is chosen in a deadlock or breaks a constraint is aborted.    *)
(* The transfer of the tasks to a new N+1 belongs to TaskAssignment.       *)
(***************************************************************************)
EXTENDS Hierarchy

CONSTANTS
    Admins,     \* the sessions of the technical administrators
    Charts,     \* the organisations to start from
    Selections, \* the [units, main] that a user page may submit
    MaxEdits    \* bound on the committed changes

ASSUME OrganizationAssumption ==
    /\ MaxEdits \in Nat
    /\ \A s \in Selections : s.units \subseteq Units /\ s.main \in s.units \cup {None}

\* An organisation to start from is one that the database and the models'
\* clean methods let in, and its rows have the keys below those to come.
ASSUME ChartsAssumption ==
    \A c \in Charts :
        /\ c.parent \in [Units -> Units \cup {None}] /\ ~Loop(UnitEdges(c.parent), Units)
        /\ c.primary \in [People -> Units \cup {None}]
        /\ Rows(c.lines) /\ ~Loop(LineEdges(c.lines), People)
        /\ \A l \in c.lines : l.key <= 0
        /\ c.grants \subseteq Grant

ASSUME NoneIsNothing == None \notin Units \cup People

VARIABLES
    form,     \* by session, the page it has open, with the token it carries
    tx,       \* by session, the transaction that has decided and not committed
    edits,    \* how many changes were committed
    raced     \* who took part in commits of decisions taken before another

vars == <<orgVars, form, tx, edits, raced>>

Racers == {"nobody", "services", "administration"}

\* What the writers hand over from their decision to their commit.
PersonWrites == [person : People, selection : Selections,
                 supervisor : People \cup {None}, rows : BOOLEAN]
TeamWrites == [supervisor : People, by : UNION {[D -> People] : D \in SUBSET People}]
UnitWrites == [unit : Units, parent : Units \cup {None}, children : SUBSET Units]
LineWrites == [employee : People, supervisor : People, primary : BOOLEAN]
LinkWrites == [unit : Units, parent : Units, new : BOOLEAN]

Decided(kind, writes) ==
    [kind : {kind}, writes : writes, users : SUBSET People, rows : SUBSET People,
     alone : Racers]

Transaction ==
    Decided("person", PersonWrites) \cup Decided("team", TeamWrites)
        \cup Decided("unit", UnitWrites) \cup Decided("line", LineWrites)
        \cup Decided("link", LinkWrites)

ASSUME NoneIsNoTransaction == None \notin Transaction

-----------------------------------------------------------------------------
(* The tokens of the pages *)

\* organization_state_token: the open rows of one person.
PersonToken(p) ==
    <<primary[p], {m \in secondary : m[1] = p}, {l \in lines : l.employee = p}>>

\* A plausible slip: only the rows about the team.
TeamTokenOfTeam(s) == <<PersonToken(s), primary, {l \in lines : l.supervisor = s}>>

\* collaborator_state_token: every open line and primary membership, but not
\* whether the line is primary.
TeamToken(s) ==
    <<PersonToken(s), primary,
      {<<l.employee, l.key, l.supervisor, l.fresh>> : l \in lines}>>

\* unit_hierarchy_state_token: the links of one unit, here without their keys,
\* as the memberships above: what is removed and made again passes unseen.
UnitToken(u) == {e \in UnitEdges(parent) : u \in {e[1], e[2]}}

Token(kind, target) ==
    CASE kind = "person" -> PersonToken(target)
      [] kind = "team" -> TeamToken(target)
      [] kind = "unit" -> UnitToken(target)

\* shown is what the page displays; the service never reads it.
OpenPage(a, kind, target) ==
    /\ form[a] = None /\ tx[a] = None
    /\ edits < MaxEdits
    /\ form' = [form EXCEPT ![a] =
                  [kind |-> kind, target |-> target, token |-> Token(kind, target),
                   shown |-> IF kind = "team" THEN lines ELSE {}]]
    /\ UNCHANGED <<orgVars, tx, edits, raced>>

Posts(a, kind) ==
    /\ form[a] # None /\ tx[a] = None
    /\ form[a].kind = kind
    /\ form[a].token = Token(kind, form[a].target)

-----------------------------------------------------------------------------
(* Locks *)

Busy == {a \in Admins : tx[a] # None}
Bound == edits + Cardinality(Busy) < MaxEdits
OpenRows(p) == primary[p] # None \/ \E l \in lines : l.employee = p

\* The accounts locked FOR UPDATE, and those whose open rows are locked.
UserLocked(p) == \E a \in Busy : p \in tx[a].users
RowsLocked(p) == OpenRows(p) /\ \E a \in Busy : p \in tx[a].rows
LinksLocked == \E a \in Busy : tx[a].kind = "unit" /\ UnitEdges(parent) # {}

\* A plausible slip: a user page that does not lock the account it edits.
LockedAccountNone(p) == {}
LockedAccount(p) == {p}

\* The decision of a session: what it will write, and what it has locked.
\* alone: which writers, if any, have committed since.
Decide(a, kind, users, rows, writes) ==
    /\ tx' = [tx EXCEPT ![a] = [kind |-> kind, users |-> users, rows |-> rows,
                                writes |-> writes, alone |-> "nobody"]]
    /\ UNCHANGED <<orgVars, form, edits, raced>>

-----------------------------------------------------------------------------
(* set_primary_supervisor on the open rows of e: the primary line that     *)
(* starts today is rewritten; otherwise it ends, and the line to the new   *)
(* N+1 is the first secondary one to the same person, if it starts today,  *)
(* or one with a new key in its place.                                     *)

NewLine(e, s, key) ==
    [employee |-> e, supervisor |-> s, primary |-> TRUE, fresh |-> TRUE, key |-> key]

Own(rows, e) == {l \in rows : l.employee = e}

\* The latest first; rows of the same day come in no order.
First(rows) ==
    CHOOSE l \in rows : l.fresh \/ \A k \in rows : ~k.fresh

Rewritten(own, e, s, key) ==
    LET old == {l \in own : l.primary}
        same == {l \in own \ old : l.supervisor = s}
    IN  IF \E l \in old : l.supervisor = s THEN own
        ELSE IF \E l \in old : l.fresh
             THEN (own \ old) \cup {[l EXCEPT !.supervisor = s] : l \in old}
        ELSE IF same = {} THEN (own \ old) \cup {NewLine(e, s, key)}
        ELSE (own \ (old \cup {First(same)}))
               \cup {IF First(same).fresh THEN [First(same) EXCEPT !.primary = TRUE]
                                          ELSE NewLine(e, s, key)}

WithSupervisor(rows, e, s, key) ==
    (rows \ Own(rows, e)) \cup Rewritten(Own(rows, e), e, s, key)

\* The key of the row that the next change opens.
NextKey == edits + 1

\* Its refusals, members being the primary memberships once e's is set.
SupervisorAllowed(rows, members, e, s) ==
    /\ e # s
    /\ SupervisesUnit(members, s, members[e])
    /\ \/ \E l \in NPlus1(rows, e) : l.supervisor = s
       \/ LineAllowed(rows \ NPlus1(rows, e), e, s)

-----------------------------------------------------------------------------
(* update_user_organization, from the page of a person *)

PostPerson(a) ==
    /\ Posts(a, "person") /\ Bound
    /\ LET p == form[a].target IN
       \E sel \in Selections, s \in (People \ inactive) \cup {None} :
         LET members == IF sel.main = None THEN primary
                        ELSE [primary EXCEPT ![p] = sel.main]
         IN /\ ~UserLocked(p) /\ ~RowsLocked(p)
            /\ sel.main = None => sel.units = {} /\ (s = None => OpenRows(p))
            /\ sel.units \cap archived = {}
            /\ s # None => sel.main # None /\ SupervisorAllowed(lines, members, p, s)
            /\ Decide(a, "person", LockedAccount(p), {p},
                      [person |-> p, selection |-> sel, supervisor |-> s,
                       rows |-> OpenRows(p)])

\* Rows that appeared where there was none to lock break a constraint.
CommitPerson(w) ==
    LET p == w.person
        main == IF w.selection.main = None THEN primary[p] ELSE w.selection.main
    IN /\ OpenRows(p) => w.rows
       /\ primary' = [primary EXCEPT ![p] = main]
       /\ secondary' = {m \in secondary : m[1] # p}
                         \cup ({p} \X (w.selection.units \ {main}))
       /\ lines' = IF w.supervisor = None THEN lines \ NPlus1(lines, p)
                   ELSE WithSupervisor(lines, p, w.supervisor, NextKey)
       /\ UNCHANGED <<parent, archived, grants, inactive>>

-----------------------------------------------------------------------------
(* update_primary_collaborators, from the team page *)

\* _move_primary_collaborator of each employee e to by[e], in one transaction:
\* those who join s first, then those who leave, in the order of their keys.
Before(s, by, e) ==
    {d \in DOMAIN by : IF by[d] = s THEN by[e] # s \/ d < e ELSE by[e] # s /\ d < e}

\* The rows once the employees of "moved" are: a move changes no other's.
Moved(rows, by, moved, key) ==
    {l \in rows : l.employee \notin moved}
        \cup UNION {Rewritten(Own(rows, e), e, by[e], key) : e \in moved}

MovesAllowed(s, by) ==
    \A e \in DOMAIN by :
        /\ e \notin inactive /\ primary[e] # None
        /\ SupervisorAllowed(Moved(lines, by, Before(s, by, e), NextKey), primary, e, by[e])

PostTeam(a) ==
    /\ Posts(a, "team") /\ Bound
    /\ LET s == form[a].target
           current == Team(lines, s) \ inactive
       IN /\ s \notin inactive
          /\ ~UserLocked(s) /\ \A p \in People : ~RowsLocked(p)
          /\ \E chosen \in SUBSET (People \ (inactive \cup {s})) :
             \E to \in [current \ chosen -> People \ (inactive \cup {s})] :
               LET by == [e \in (chosen \ current) \cup (current \ chosen) |->
                             IF e \in chosen THEN s ELSE to[e]]
               IN /\ DOMAIN by # {}
                  /\ MovesAllowed(s, by)
                  /\ Decide(a, "team", {s}, People, [supervisor |-> s, by |-> by])

CommitTeam(w) ==
    /\ lines' = Moved(lines, w.by, DOMAIN w.by, NextKey)
    /\ UNCHANGED <<parent, archived, primary, secondary, grants, inactive>>

-----------------------------------------------------------------------------
(* update_unit_hierarchy, from the page of a unit: the parent first, then  *)
(* the children that leave, then those that join; each link is validated   *)
(* when it is saved, against the links of that moment.                     *)

WithoutParent(up, u) == [up EXCEPT ![u] = None]

Reparent(u, q, children) ==
    LET freed == IF parent[u] # q THEN WithoutParent(parent, u) ELSE parent
        first == [freed EXCEPT ![u] = q]
        kept == [c \in Units |-> IF first[c] = u /\ c \notin children THEN None
                                 ELSE first[c]]
        joining == {c \in children : kept[c] # u}
        last == [c \in Units |-> IF c \in joining THEN u ELSE kept[c]]
    IN [ok |-> /\ q = None \/ q = parent[u] \/ LinkAllowed(freed, q, u)
               /\ \A c \in joining : LinkAllowed(kept, u, c),
        up |-> last]

PostUnit(a) ==
    /\ Posts(a, "unit") /\ Bound
    /\ LET u == form[a].target IN
       \E q \in Units \cup {None}, children \in SUBSET (Units \ {u}) :
         /\ ~LinksLocked
         /\ q # u /\ q \notin children
         /\ (children \cup {q}) \cap archived = {}
         /\ Reparent(u, q, children).ok
         /\ Decide(a, "unit", {}, {}, [unit |-> u, parent |-> q, children |-> children])

CommitUnit(w) ==
    /\ parent' = Reparent(w.unit, w.parent, w.children).up
    /\ UNCHANGED <<archived, primary, secondary, lines, grants, inactive>>

-----------------------------------------------------------------------------
(* The administration's forms for one row: no page token, no lock before   *)
(* the services'.                                                          *)

\* ReportingLineAdmin: a primary line, which the form refuses beside another,
\* goes through set_primary_supervisor, which locks the rows of the employee;
\* a secondary one is just saved.
PostLine(a) ==
    /\ form[a] = None /\ tx[a] = None /\ Bound
    /\ \E e, s \in People, main \in BOOLEAN :
         /\ LineAllowed(lines, e, s)
         /\ IF main THEN /\ primary[e] # None /\ ~RowsLocked(e)
                         /\ NPlus1(lines, e) = {}
                         /\ SupervisorAllowed(lines, primary, e, s)
            ELSE primary[e] # None \/ \E m \in secondary : m[1] = e
         /\ Decide(a, "line", {}, IF main THEN {e} ELSE {},
                   [employee |-> e, supervisor |-> s, primary |-> main])

CommitLine(w) ==
    /\ lines' = IF w.primary THEN WithSupervisor(lines, w.employee, w.supervisor, NextKey)
                ELSE lines \cup {[NewLine(w.employee, w.supervisor, NextKey) EXCEPT !.primary = FALSE]}
    /\ UNCHANGED <<parent, archived, primary, secondary, grants, inactive>>

\* OrganizationUnitLinkAdmin adds a link, or changes the parent of an
\* existing one: the model validates it, nothing is locked.
PostLink(a) ==
    /\ form[a] = None /\ tx[a] = None /\ Bound
    /\ \E q, u \in Units :
         /\ parent[u] # q
         /\ LinkAllowed(WithoutParent(parent, u), q, u)
         /\ Decide(a, "link", {}, {}, [unit |-> u, parent |-> q, new |-> parent[u] = None])

\* A link that was added meanwhile breaks the unique constraint; one that
\* the unit page has locked is waited for.
CommitLink(w) ==
    /\ w.new => parent[w.unit] = None
    /\ ~w.new => ~LinksLocked
    /\ parent' = [parent EXCEPT ![w.unit] = w.parent]
    /\ UNCHANGED <<archived, primary, secondary, lines, grants, inactive>>

-----------------------------------------------------------------------------
(* Commit and abort *)

\* The accounts that the new lines of a transaction point to.
Pointed(t) ==
    CASE t.kind = "person" -> {t.writes.person, t.writes.supervisor}
      [] t.kind = "line" -> {t.writes.employee, t.writes.supervisor}
      [] t.kind = "team" -> UNION {{e, t.writes.by[e]} : e \in DOMAIN t.writes.by}
      [] OTHER -> {}

WaitsForAccount(a) ==
    \E b \in Busy \ {a} : Pointed(tx[a]) \cap tx[b].users # {}

Writer(kind) == IF kind \in {"line", "link"} THEN "administration" ELSE "services"
Among(x, y) ==
    IF "administration" \in {x, y} THEN "administration"
    ELSE IF "services" \in {x, y} THEN "services" ELSE "nobody"

\* Who raced with the transaction, itself included, if it was not alone.
Racing(t) == IF t.alone = "nobody" THEN "nobody" ELSE Among(t.alone, Writer(t.kind))

Apply(t) ==
    CASE t.kind = "person" -> CommitPerson(t.writes)
      [] t.kind = "team" -> CommitTeam(t.writes)
      [] t.kind = "unit" -> CommitUnit(t.writes)
      [] t.kind = "line" -> CommitLine(t.writes)
      [] t.kind = "link" -> CommitLink(t.writes)

Commit(a) ==
    /\ tx[a] # None
    /\ ~WaitsForAccount(a)
    /\ Apply(tx[a])
    /\ raced' = Among(raced, Racing(tx[a]))
    /\ tx' = [b \in Admins |->
                IF b = a \/ tx[b] = None THEN None
                ELSE [tx[b] EXCEPT !.alone = Among(@, Writer(tx[a].kind))]]
    /\ form' = [form EXCEPT ![a] = None]
    /\ edits' = edits + 1

Abort(a) ==
    /\ tx[a] # None \/ form[a] # None
    /\ tx' = [tx EXCEPT ![a] = None]
    /\ form' = [form EXCEPT ![a] = None]
    /\ UNCHANGED <<orgVars, edits, raced>>

-----------------------------------------------------------------------------
(* Changes of one statement, taken by a session that has nothing open.     *)

Simple(a) == form[a] = None /\ tx[a] = None /\ Bound /\ edits' = edits + 1
             /\ raced' = raced /\ form' = form
             /\ tx' = [b \in Admins |-> IF tx[b] = None THEN None
                                        ELSE [tx[b] EXCEPT !.alone = "administration"]]

\* set_managed_user_active locks the account.
SetActive(a, p) ==
    /\ ~UserLocked(p)
    /\ inactive' = IF p \in inactive THEN inactive \ {p} ELSE inactive \cup {p}
    /\ Simple(a) /\ UNCHANGED <<parent, archived, primary, secondary, lines, grants>>

\* OrganizationUnitAdmin saves the active flag of a unit.
SetArchived(a, u) ==
    /\ ~\E b \in Busy : tx[b].kind = "unit" /\ tx[b].writes.unit = u
    /\ archived' = IF u \in archived THEN archived \ {u} ELSE archived \cup {u}
    /\ Simple(a) /\ UNCHANGED <<parent, primary, secondary, lines, grants, inactive>>

\* ReportingLineAdmin ends a secondary line.
EndSecondaryLine(a, l) ==
    /\ ~l.primary /\ ~RowsLocked(l.employee)
    /\ lines' = lines \ {l}
    /\ Simple(a) /\ UNCHANGED <<parent, archived, primary, secondary, grants, inactive>>

\* reconcile_organization: a primary membership set on its own; the line of
\* the person stays as it is.
MoveMembership(a, p, u) ==
    /\ primary[p] # u /\ ~RowsLocked(p)
    /\ primary' = [primary EXCEPT ![p] = u]
    /\ secondary' = secondary \ {<<p, u>>}
    /\ Simple(a) /\ UNCHANGED <<parent, archived, lines, grants, inactive>>

\* reconcile_organization: a secondary membership closed, a link removed.
CloseMembership(a, m) ==
    /\ ~RowsLocked(m[1])
    /\ secondary' = secondary \ {m}
    /\ Simple(a) /\ UNCHANGED <<parent, archived, primary, lines, grants, inactive>>

RemoveLink(a, u) ==
    /\ parent[u] # None /\ ~LinksLocked
    /\ parent' = WithoutParent(parent, u)
    /\ Simple(a) /\ UNCHANGED <<archived, primary, secondary, lines, grants, inactive>>

\* grant_role and revoke_role
GrantRole(a, g) ==
    /\ g \notin grants
    /\ grants' = grants \cup {g}
    /\ Simple(a) /\ UNCHANGED <<parent, archived, primary, secondary, lines, inactive>>

RevokeRole(a, g) ==
    /\ grants' = grants \ {g}
    /\ Simple(a) /\ UNCHANGED <<parent, archived, primary, secondary, lines, inactive>>

-----------------------------------------------------------------------------

Init ==
    /\ \E c \in Charts : /\ parent = c.parent /\ primary = c.primary
                         /\ lines = c.lines /\ grants = c.grants
    /\ archived = {} /\ secondary = {} /\ inactive = {}
    /\ form = [a \in Admins |-> None]
    /\ tx = [a \in Admins |-> None]
    /\ edits = 0
    /\ raced = "nobody"

Next ==
    \E a \in Admins :
        \/ \E p \in People : OpenPage(a, "person", p) \/ OpenPage(a, "team", p)
        \/ \E u \in Units : OpenPage(a, "unit", u)
        \/ PostPerson(a) \/ PostTeam(a) \/ PostUnit(a) \/ PostLine(a) \/ PostLink(a)
        \/ Commit(a) \/ Abort(a)
        \/ \E p \in People : SetActive(a, p) \/ \E u \in Units : MoveMembership(a, p, u)
        \/ \E u \in Units : SetArchived(a, u) \/ RemoveLink(a, u)
        \/ \E l \in lines : EndSecondaryLine(a, l)
        \/ \E m \in secondary : CloseMembership(a, m)
        \/ \E g \in Grant : GrantRole(a, g)
        \/ \E g \in grants : RevokeRole(a, g)

Spec == Init /\ [][Next]_vars

-----------------------------------------------------------------------------

\* Type invariant, with the database constraint of one open primary line.
TypeOK ==
    /\ HierarchyTypeOK
    /\ edits \in Nat
    /\ raced \in Racers
    /\ tx \in [Admins -> Transaction \cup {None}]
    /\ DOMAIN form = Admins
    /\ \A a \in Admins : form[a] # None =>
          /\ form[a].kind \in {"person", "team", "unit"}
          /\ form[a].target \in (IF form[a].kind = "unit" THEN Units ELSE People)
          /\ form[a].shown \subseteq Line

\* Units, and people through all their lines, form no loop, unless two
\* writers decided without seeing each other: the clean methods of the models
\* and the order in which the services save are enough for any sequence.
LoopsOnlyByRace ==
    (Loop(UnitEdges(parent), Units) \/ Loop(LineEdges(lines), People)) => raced # "nobody"

\* Two people supervise each other only if a form of the administration took
\* part in the race: the services lock the account they edit, and a line that
\* points to a locked account waits at its commit.
MutualSupervisionNeedsTheAdministration ==
    (\E k, l \in lines : k.employee = l.supervisor /\ l.employee = k.supervisor)
        => raced = "administration"

\* A team page moves only people whose N+1 is still the one it displayed, but
\* for a secondary line of the day made primary since, and nobody who had an
\* N+1 loses it.
NoBlindTeamEdit ==
    [][\A a \in Admins :
         tx[a] # None /\ tx[a].kind = "team" /\ tx'[a] = None /\ lines' # lines =>
            \A p \in People :
                NPlus1(lines', p) # NPlus1(lines, p) =>
                    /\ \/ NPlus1(lines, p) = NPlus1(form[a].shown, p)
                       \/ \E l \in NPlus1(lines, p) :
                              l.fresh /\ [l EXCEPT !.primary = FALSE] \in form[a].shown
                    /\ NPlus1(lines, p) # {} => NPlus1(lines', p) # {}]_vars

\* What the team page offers is accepted: each collaborator it lists can be
\* added, and each N+1 it lists can replace its owner, when taken alone.
OfferedMovesAreAccepted ==
    \A s \in People \ inactive :
        /\ \A p \in EligibleCollaborators(s) : SupervisorAllowed(lines, primary, p, s)
        /\ \A p \in Team(lines, s) \ inactive : \A r \in EligibleSupervisors(p) :
                SupervisorAllowed(lines, primary, p, r)

=============================================================================
