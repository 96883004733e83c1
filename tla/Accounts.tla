------------------------------- MODULE Accounts -------------------------------
(***************************************************************************)
(* The accounts of accounts/services.py: who may sign in, who administers  *)
(* and what their password is worth.  An administrator writes from the     *)
(* user pages, with the state token of the rows shown and the lock of the  *)
(* rows written, or from the stock administration's screens, which have    *)
(* neither; a person sets a password with an activation link or replaces   *)
(* it.  The request's own account is read before the transaction that acts *)
(* for it.  Identity fields and the organisation are left out.             *)
(***************************************************************************)
EXTENDS Integers

CONSTANTS
    Persons,       \* the accounts
    Technicians,  \* those who administer at first, and whose pages are followed
    Invited,      \* the people whose activation is followed
    Linked,       \* accounts some other row points at
    MaxBegun,     \* bound on the pages, forms and activations begun
    Gone,         \* a deleted account
    Idle          \* no page, no request, no form under way

\* A password is temporary after a reset, given on the stock administration's screen.
UserRow == [active : BOOLEAN, it : BOOLEAN, superuser : BOOLEAN,
        password : {"none", "temporary", "given", "chosen"}, required : BOOLEAN]

Operations == {"deactivate", "reactivate", "reset", "delete"}

\* What an earlier version of a row may bring back.
Versions == [active : BOOLEAN, it : BOOLEAN, required : BOOLEAN]

UsersPage == [Persons -> (BOOLEAN \X BOOLEAN) \cup {Gone}]
UsersRequest == [operation : Operations, targets : SUBSET Persons, root : BOOLEAN]
UserForm == [target : Persons, posted : BOOLEAN, crossed : BOOLEAN, row : UserRow]
Activation == [row : UserRow, saved : BOOLEAN]

ASSUME AccountsAssumption ==
    /\ Technicians \subseteq Persons /\ Technicians # {}
    /\ Invited \subseteq Persons
    /\ Linked \subseteq Persons
    /\ MaxBegun \in Nat

ASSUME GoneIsNoRow == Gone \notin UserRow

ASSUME IdleIsNothing == Idle \notin UsersPage \cup UsersRequest \cup UserForm \cup Activation

VARIABLES
    accounts,    \* the User rows
    links,       \* the people whose last activation link still works
    begun,       \* how many pages, forms and activations were begun
    shown,       \* by administrator, the state tokens of the list page
    asked,       \* by administrator, the request whose transaction is to come
    opened,      \* by administrator, the screen of the stock administration
    activations, \* by person, the activation under way
    excused,     \* history: a former administrator's request was carried out,
                 \* or the stock administration's form or an activation that
                 \* saved an earlier row took an administrator's rights
    crossed      \* history: the people whose temporary password was given
                 \* within an activation of theirs, or whose flag the stock
                 \* administration took from an earlier version of the row

accountRows == <<accounts, links, excused, crossed>>
requests == <<begun, shown, asked, opened, activations>>
accountVars == <<accountRows, requests>>

AccountsTypeOK ==
    /\ accounts \in [Persons -> UserRow \cup {Gone}]
    /\ links \subseteq Invited
    /\ begun \in 0..MaxBegun
    /\ shown \in [Technicians -> UsersPage \cup {Idle}]
    /\ asked \in [Technicians -> UsersRequest \cup {Idle}]
    /\ opened \in [Technicians -> UserForm \cup {Idle}]
    /\ activations \in [Invited -> Activation \cup {Idle}]
    /\ excused \in BOOLEAN
    /\ crossed \subseteq Persons

AccountsInit ==
    /\ \E root \in SUBSET Technicians :
          accounts = [p \in Persons |->
              [active |-> TRUE, it |-> p \in Technicians, superuser |-> p \in root,
               password |-> IF p \in Technicians THEN "chosen" ELSE "none",
               required |-> FALSE]]
    /\ links = {}
    /\ begun = 0
    /\ shown = [a \in Technicians |-> Idle]
    /\ asked = [a \in Technicians |-> Idle]
    /\ opened = [a \in Technicians |-> Idle]
    /\ activations = [p \in Invited |-> Idle]
    /\ excused = FALSE
    /\ crossed = {}

-----------------------------------------------------------------------------
(* can_manage_users, user_management_state_token and the middleware *)

Exists(p) == accounts[p] # Gone

Administers(p) ==
    Exists(p) /\ accounts[p].active /\ (accounts[p].it \/ accounts[p].superuser)

\* A signed-in administrator whom the middleware does not send to the
\* password page.
Acts(a) ==
    Administers(a) /\ accounts[a].password # "none" /\ ~ accounts[a].required

\* The password is not part of the token.
StateToken(row) == <<row.active, row.required>>

\* Whose activation, having saved the password, has yet to clear the flag.
Clearing == {p \in Invited : activations[p] # Idle /\ activations[p].saved}

Begun == begun < MaxBegun /\ begun' = begun + 1

-----------------------------------------------------------------------------
(* The user pages *)

LoadUsers(a) ==
    /\ Acts(a)
    /\ shown[a] = Idle
    /\ Begun
    /\ shown' = [shown EXCEPT ![a] = [p \in Persons |->
                     IF Exists(p) THEN StateToken(accounts[p]) ELSE Gone]]
    /\ UNCHANGED <<accountRows, asked, opened, activations>>

\* The request is authenticated; bulk_manage_users takes several rows.
Ask(a, operation, targets) ==
    /\ Acts(a)
    /\ shown[a] # Idle
    /\ asked[a] = Idle
    /\ targets # {}
    /\ operation \in {"reactivate", "reset"} => \E t \in Persons : targets = {t}
    /\ asked' = [asked EXCEPT ![a] = [operation |-> operation, targets |-> targets,
                                      root |-> accounts[a].superuser]]
    /\ UNCHANGED <<accountRows, begun, shown, opened, activations>>

\* A plausible slip: an administrator may close any account.
AllowedOnOneself(a, operation, t) ==
    CASE operation = "deactivate" -> accounts[t].active
      [] operation = "reactivate" -> TRUE
      [] operation = "reset" -> accounts[t].active
      [] operation = "delete" -> ~ accounts[t].active

\* _deactivate_locked_users, set_managed_user_active, the reset of a password
\* and the blockers of _delete_locked_orphans.
Allowed(a, operation, t) ==
    LET row == accounts[t]
    IN CASE operation = "deactivate" -> t # a /\ row.active
         [] operation = "reactivate" -> TRUE
         [] operation = "reset" -> t # a /\ row.active
         [] operation = "delete" ->
              t # a /\ ~ row.active /\ ~ row.it /\ ~ row.superuser /\ t \notin Linked

\* A plausible slip: the reset saves the password alone.
TemporaryUnmarked(row) == [row EXCEPT !.password = "temporary"]

WithTemporary(row) == [row EXCEPT !.password = "temporary", !.required = TRUE]

Outcome(operation, row) ==
    CASE operation = "deactivate" -> [row EXCEPT !.active = FALSE]
      [] operation = "reactivate" -> [row EXCEPT !.active = TRUE]
      [] operation = "reset" -> WithTemporary(row)
      [] operation = "delete" -> Gone

\* The transaction: the rows are locked, the tokens compared, all is written.
CarryOut(a) ==
    /\ asked[a] # Idle
    /\ LET r == asked[a]
       IN /\ \A t \in r.targets :
                /\ Exists(t)
                /\ accounts[t].superuser => r.root
                /\ StateToken(accounts[t]) = shown[a][t]
                /\ Allowed(a, r.operation, t)
          /\ accounts' = [t \in Persons |->
                IF t \in r.targets THEN Outcome(r.operation, accounts[t]) ELSE accounts[t]]
          /\ links' = IF r.operation \in {"reset", "delete"} THEN links \ r.targets ELSE links
          /\ crossed' = IF r.operation = "reset" THEN crossed \cup (r.targets \cap Clearing)
                                                 ELSE crossed
    /\ excused' = (excused \/ ~ Administers(a))
    /\ asked' = [asked EXCEPT ![a] = Idle]
    /\ shown' = [shown EXCEPT ![a] = Idle]
    /\ UNCHANGED <<begun, opened, activations>>

\* The request is refused, or the page is left.
Leave(a) ==
    /\ shown[a] # Idle
    /\ asked' = [asked EXCEPT ![a] = Idle]
    /\ shown' = [shown EXCEPT ![a] = Idle]
    /\ UNCHANGED <<accountRows, begun, opened, activations>>

\* No page, form or activation is about the account.
Unreferenced(p) ==
    /\ \A a \in Technicians :
          /\ shown[a] # Idle => shown[a][p] = Gone
          /\ opened[a] # Idle => opened[a].target # p
    /\ p \in Invited => activations[p] = Idle

\* create_managed_user: a new row, here under the name of a deleted one.
CreateUser(a, p) ==
    /\ Acts(a)
    /\ ~ Exists(p) /\ Unreferenced(p)
    /\ accounts' = [accounts EXCEPT ![p] =
           [active |-> TRUE, it |-> FALSE, superuser |-> FALSE,
            password |-> "none", required |-> FALSE]]
    /\ crossed' = crossed \ {p}
    /\ UNCHANGED <<requests, links, excused>>

\* UserActivationView for an account without a password, and the action of the
\* stock administration for any active one.
SendActivation(a, p) ==
    /\ Acts(a)
    /\ Exists(p) /\ accounts[p].active
    /\ links' = links \cup {p}
    /\ UNCHANGED <<requests, accounts, excused, crossed>>

-----------------------------------------------------------------------------
(* The screens of the stock administration save every column *)

\* The rights as opened, or with one box changed.
OpenForm(a, p) ==
    /\ Acts(a)
    /\ opened[a] = Idle
    /\ Begun
    /\ Exists(p)
    /\ \E box \in {"none", "active", "it"} :
          opened' = [opened EXCEPT ![a] =
              [target |-> p, posted |-> FALSE, crossed |-> FALSE,
               row |-> [accounts[p] EXCEPT
                          !.active = IF box = "active" THEN ~ @ ELSE @,
                          !.it = IF box = "it" THEN ~ @ ELSE @]]]
    /\ UNCHANGED <<accountRows, shown, asked, activations>>

\* The post reads the row again, without a lock, and puts the form's values on
\* it: the password and its flag are those of the row, with their history.
PostForm(a) ==
    /\ opened[a] # Idle
    /\ Acts(a)
    /\ ~ opened[a].posted
    /\ Exists(opened[a].target)
    /\ LET p == opened[a].target
       IN opened' = [opened EXCEPT ![a] =
              [target |-> p, posted |-> TRUE, crossed |-> (p \in crossed),
               row |-> [opened[a].row EXCEPT !.password = accounts[p].password,
                                             !.required = accounts[p].required]]]
    /\ UNCHANGED <<accountRows, begun, shown, asked, activations>>

\* A request that reads the row and posts at once, from another screen.
Post(a, p, row, free) ==
    /\ Acts(a)
    /\ opened[a] = Idle
    /\ Begun
    /\ opened' = [opened EXCEPT ![a] =
           [target |-> p, posted |-> TRUE, crossed |-> free, row |-> row]]
    /\ UNCHANGED <<accountRows, shown, asked, activations>>

\* The password screen of UserAdmin sets a password, or takes it away; the flag
\* stays as read.
PostPassword(a, p, password) ==
    Exists(p) /\ Post(a, p, [accounts[p] EXCEPT !.password = password], FALSE)

\* The history screen of SimpleHistoryAdmin puts an earlier version back, its
\* flag included; the history has no password, so it is the row's.
PostEarlier(a, p, earlier) ==
    Exists(p) /\ Post(a, p, [accounts[p] EXCEPT !.active = earlier.active, !.it = earlier.it,
                                                !.required = earlier.required],
                      ~ earlier.required)

\* Saving a row that was deleted meanwhile inserts it again.  A link dies with
\* the password it was made for; two passwords of a kind may differ.
SaveForm(a) ==
    /\ opened[a] # Idle
    /\ opened[a].posted
    /\ LET p == opened[a].target
           row == opened[a].row
       IN /\ accounts' = [accounts EXCEPT ![p] = row]
          /\ links' \in IF Exists(p) /\ accounts[p].password = row.password
                        THEN {links, links \ {p}} ELSE {links \ {p}}
          /\ excused' = (excused \/ ~ Administers(a)
                           \/ (Administers(p) /\ ~ (row.active /\ (row.it \/ row.superuser))))
          /\ crossed' = IF \/ opened[a].crossed
                           \/ row.password = "temporary" /\ p \in Clearing
                        THEN crossed \cup {p} ELSE crossed
    /\ opened' = [opened EXCEPT ![a] = Idle]
    /\ UNCHANGED <<begun, shown, asked, activations>>

CloseForm(a) ==
    /\ opened[a] # Idle
    /\ opened' = [opened EXCEPT ![a] = Idle]
    /\ UNCHANGED <<accountRows, begun, shown, asked, activations>>

-----------------------------------------------------------------------------
(* What the person does *)

\* change_password, under the row's lock.
ChangePassword(p) ==
    /\ Exists(p) /\ accounts[p].active
    /\ accounts[p].password # "none"
    /\ accounts' = [accounts EXCEPT ![p].password = "chosen", ![p].required = FALSE]
    /\ links' = links \ {p}
    /\ crossed' = crossed \ {p}
    /\ UNCHANGED <<requests, excused>>

\* activate: the row is read and the link checked...
BeginActivation(p) ==
    /\ activations[p] = Idle
    /\ Begun
    /\ p \in links
    /\ Exists(p) /\ accounts[p].active
    /\ activations' = [activations EXCEPT ![p] = [row |-> accounts[p], saved |-> FALSE]]
    /\ UNCHANGED <<accountRows, shown, asked, opened>>

\* ... then the form saves the whole row as it was read, with the password...
SaveActivation(p) ==
    /\ activations[p] # Idle
    /\ ~ activations[p].saved
    /\ LET row == [activations[p].row EXCEPT !.password = "chosen"]
       IN /\ accounts' = [accounts EXCEPT ![p] = row]
          /\ activations' = [activations EXCEPT
                 ![p] = IF row.required THEN [row |-> row, saved |-> TRUE] ELSE Idle]
          /\ excused' = (excused \/ (Administers(p) /\ ~ (row.it \/ row.superuser)))
    /\ links' = links \ {p}
    /\ crossed' = crossed \ {p}
    /\ UNCHANGED <<begun, shown, asked, opened>>

\* ... and another save clears the flag, if the row had it.
ClearRequired(p) ==
    /\ p \in Clearing
    /\ accounts' = IF Exists(p) THEN [accounts EXCEPT ![p].required = FALSE] ELSE accounts
    /\ activations' = [activations EXCEPT ![p] = Idle]
    /\ UNCHANGED <<links, begun, shown, asked, opened, excused, crossed>>

AccountsNext ==
    \/ \E a \in Technicians :
          \/ LoadUsers(a) \/ CarryOut(a) \/ Leave(a)
          \/ \E operation \in Operations, targets \in SUBSET Persons : Ask(a, operation, targets)
          \/ \E p \in Persons : CreateUser(a, p) \/ OpenForm(a, p)
          \/ \E p \in Persons, password \in {"given", "none"} : PostPassword(a, p, password)
          \/ \E p \in Persons, earlier \in Versions : PostEarlier(a, p, earlier)
          \/ \E p \in Invited : SendActivation(a, p)
          \/ PostForm(a) \/ SaveForm(a) \/ CloseForm(a)
    \/ \E p \in Persons : ChangePassword(p)
    \/ \E p \in Invited : BeginActivation(p) \/ SaveActivation(p) \/ ClearRequired(p)

AccountsSpec == AccountsInit /\ [][AccountsNext]_accountVars

-----------------------------------------------------------------------------
(* Properties *)

\* The user pages always leave an active administrator: whatever accounts are
\* closed, one by one or in batches, the last one is lost only to a request
\* its author was entitled to when it was sent and no longer when it was
\* carried out, or to the stock administration's form, or to an activation
\* that saves the row it read.
AdministratorRemains == excused \/ \E p \in Persons : Administers(p)

\* Who signs in with the password of a reset must replace it, also when the
\* stock administration saves a row that it had read before.  Not so when the
\* reset came between the two saves of an activation, or when the history
\* screen has put back an earlier flag; and the password given on the stock
\* screen is not a reset's: no flag goes with it.
TemporaryMustBeReplaced ==
    \A p \in Persons :
        Exists(p) /\ accounts[p].password = "temporary" /\ p \notin crossed
          => accounts[p].required
=============================================================================
