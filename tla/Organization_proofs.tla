-------------------------- MODULE Organization_proofs --------------------------
(***************************************************************************)
(* Proofs about Accounts, Hierarchy and Organization, for every set of     *)
(* people, units, sessions and organisations to start from.                *)
(***************************************************************************)
EXTENDS Organization, Accounts, TLAPS, FiniteSetTheorems, WellFoundedInduction

-----------------------------------------------------------------------------
(* Accounts                                                                *)
(* The inductive invariant *)

\* An activation was begun by an active account.
ActivatedWasActive ==
    \A p \in Invited : activations[p] # Idle => activations[p].row.active

\* A temporary password that need not be replaced, or will not once the flag
\* is cleared, was given within an activation, or put back by the history...
OnlyCrossedIsFree ==
    \A p \in Persons :
        /\ Exists(p) /\ accounts[p].password = "temporary"
        /\ ~ accounts[p].required \/ p \in Clearing
        => p \in crossed

\* ... and a form that will put one back knows it.
FormKnowsCrossed ==
    \A a \in Technicians :
        /\ opened[a] # Idle /\ opened[a].posted
        /\ opened[a].row.password = "temporary" /\ ~ opened[a].row.required
        => opened[a].crossed

AccountsInv ==
    /\ AccountsTypeOK
    /\ AdministratorRemains
    /\ ActivatedWasActive
    /\ OnlyCrossedIsFree
    /\ FormKnowsCrossed

-----------------------------------------------------------------------------

LEMMA AccountsInitial == AccountsInit => AccountsInv
<1> SUFFICES ASSUME AccountsInit PROVE AccountsInv
  OBVIOUS
<1> USE AccountsAssumption, GoneIsNoRow, IdleIsNothing
<1>1. PICK root \in SUBSET Technicians :
          accounts = [p \in Persons |->
              [active |-> TRUE, it |-> p \in Technicians, superuser |-> p \in root,
               password |-> IF p \in Technicians THEN "chosen" ELSE "none",
               required |-> FALSE]]
  BY DEF AccountsInit
<1>2. accounts \in [Persons -> UserRow]
  BY <1>1 DEF UserRow
<1>3. AccountsTypeOK
  <2>1. accounts \in [Persons -> UserRow \cup {Gone}]
    BY <1>2
  <2>2. begun \in 0..MaxBegun
    BY DEF AccountsInit
  <2>5. excused \in BOOLEAN
    BY Zenon DEF AccountsInit
  <2>4. links \subseteq Invited /\ crossed \subseteq Persons
    BY DEF AccountsInit
  <2>3. /\ shown \in [Technicians -> UsersPage \cup {Idle}]
        /\ asked \in [Technicians -> UsersRequest \cup {Idle}]
        /\ opened \in [Technicians -> UserForm \cup {Idle}]
        /\ activations \in [Invited -> Activation \cup {Idle}]
    BY DEF AccountsInit
  <2> QED
    BY <2>1, <2>2, <2>3, <2>4, <2>5 DEF AccountsTypeOK
<1>4. AdministratorRemains
  <2>1. PICK a \in Technicians : TRUE
    OBVIOUS
  <2>2. accounts[a] \in UserRow /\ accounts[a].active /\ accounts[a].it
    BY <1>1, <1>2, <2>1
  <2> QED
    BY <2>1, <2>2 DEF AdministratorRemains, Administers, Exists
<1>5. ActivatedWasActive /\ FormKnowsCrossed
  BY DEF AccountsInit, ActivatedWasActive, FormKnowsCrossed
<1>6. OnlyCrossedIsFree
  BY <1>1 DEF OnlyCrossedIsFree
<1> QED
  BY <1>3, <1>4, <1>5, <1>6 DEF AccountsInv

\* A step of the user pages that writes no row.
LEMMA PageKeepsInv ==
    ASSUME AccountsInv, NEW a \in Technicians,
           LoadUsers(a) \/ Leave(a)
             \/ \E operation \in Operations, targets \in SUBSET Persons :
                    Ask(a, operation, targets)
    PROVE  AccountsInv'
<1> USE AccountsAssumption
<1>1. UNCHANGED <<accountRows, opened, activations>>
  BY DEF LoadUsers, Leave, Ask
<1>2. begun' \in 0..MaxBegun
  BY DEF LoadUsers, Leave, Ask, Begun, AccountsInv, AccountsTypeOK
<1>3. shown' \in [Technicians -> UsersPage \cup {Idle}]
  <2>1. CASE LoadUsers(a)
    <3> DEFINE page == [p \in Persons |-> IF Exists(p) THEN StateToken(accounts[p]) ELSE Gone]
    <3>1. page \in UsersPage
      <4> SUFFICES ASSUME NEW p \in Persons, Exists(p)
                   PROVE  StateToken(accounts[p]) \in BOOLEAN \X BOOLEAN
        BY DEF UsersPage
      <4>1. accounts[p] \in UserRow
        BY DEF AccountsInv, AccountsTypeOK, Exists
      <4> QED
        BY <4>1 DEF UserRow, StateToken
    <3>2. shown' = [shown EXCEPT ![a] = page]
      BY <2>1 DEF LoadUsers
    <3> HIDE DEF page
    <3> QED
      BY <3>1, <3>2 DEF AccountsInv, AccountsTypeOK
  <2>2. CASE ~ LoadUsers(a)
    BY <2>2 DEF Leave, Ask, AccountsInv, AccountsTypeOK
  <2> QED
    BY <2>1, <2>2
<1>4. asked' \in [Technicians -> UsersRequest \cup {Idle}]
  <2>1. CASE LoadUsers(a) \/ Leave(a)
    BY <2>1 DEF LoadUsers, Leave, AccountsInv, AccountsTypeOK
  <2>2. ASSUME NEW operation \in Operations, NEW targets \in SUBSET Persons,
               Ask(a, operation, targets)
        PROVE  asked' \in [Technicians -> UsersRequest \cup {Idle}]
    <3>1. accounts[a] \in UserRow
      BY <2>2 DEF Ask, Acts, Administers, Exists, AccountsInv, AccountsTypeOK
    <3>2. [operation |-> operation, targets |-> targets, root |-> accounts[a].superuser]
            \in UsersRequest
      BY <3>1 DEF UsersRequest, UserRow
    <3> QED
      BY <2>2, <3>2 DEF Ask, AccountsInv, AccountsTypeOK
  <2> QED
    BY <2>1, <2>2
<1>5. AccountsTypeOK'
  BY <1>1, <1>2, <1>3, <1>4 DEF AccountsInv, AccountsTypeOK, accountRows
<1> QED
  BY <1>1, <1>5 DEF AccountsInv, AdministratorRemains, Administers, Exists, ActivatedWasActive,
       OnlyCrossedIsFree, FormKnowsCrossed, Clearing, accountRows

-----------------------------------------------------------------------------
(* The writes of the user pages *)

\* What an operation makes of a row it is allowed on.
LEMMA OutcomeIsRow ==
    ASSUME NEW operation \in Operations, NEW row \in UserRow
    PROVE  /\ Outcome(operation, row) \in UserRow \cup {Gone}
           /\ operation # "delete" =>
                /\ Outcome(operation, row) \in UserRow
                /\ Outcome(operation, row).it = row.it
                /\ Outcome(operation, row).superuser = row.superuser
           /\ operation \in {"reactivate", "reset"} =>
                Outcome(operation, row).active = (operation = "reactivate" \/ row.active)
           /\ operation = "reset" => Outcome(operation, row).required
           /\ operation \in {"deactivate", "reactivate"} =>
                /\ Outcome(operation, row).password = row.password
                /\ Outcome(operation, row).required = row.required
<1>1. CASE operation = "delete"
  BY <1>1 DEF Outcome
<1>2. CASE operation = "deactivate"
  BY <1>2 DEF Outcome, UserRow
<1>3. CASE operation = "reactivate"
  BY <1>3 DEF Outcome, UserRow
<1>4. CASE operation = "reset"
  BY <1>4 DEF Outcome, WithTemporary, UserRow
<1> QED
  BY <1>1, <1>2, <1>3, <1>4 DEF Operations

\* An administrator never closes, deletes or resets the account it acts for.
LEMMA CarryOutSparesItself ==
    ASSUME AccountsInv, NEW a \in Technicians, CarryOut(a), Administers(a)
    PROVE  Administers(a)'
<1> DEFINE r == asked[a]
<1>1. r \in UsersRequest
  BY DEF CarryOut, AccountsInv, AccountsTypeOK
<1>2. a \in Persons /\ accounts[a] \in UserRow
  BY AccountsAssumption DEF Administers, Exists, AccountsInv, AccountsTypeOK
<1>3. accounts'[a] = IF a \in r.targets THEN Outcome(r.operation, accounts[a]) ELSE accounts[a]
  BY <1>2 DEF CarryOut
<1>4. CASE a \notin r.targets
  BY <1>2, <1>3, <1>4 DEF Administers, Exists
<1>5. CASE a \in r.targets
  <2>1. Allowed(a, r.operation, a) /\ r.operation \in Operations
    BY <1>1, <1>5 DEF CarryOut, UsersRequest
  <2>2. r.operation = "reactivate"
    BY <2>1 DEF Allowed, Operations
  <2> DEFINE o == Outcome(r.operation, accounts[a])
  <2>3. o \in UserRow /\ o.it = accounts[a].it /\ o.superuser = accounts[a].superuser /\ o.active
    BY <1>2, <2>1, <2>2, OutcomeIsRow
  <2>4. accounts'[a] = o
    BY <1>3, <1>5
  <2> HIDE DEF o
  <2>5. accounts'[a] # Gone
    BY <2>3, <2>4, GoneIsNoRow
  <2> QED
    BY <2>3, <2>4, <2>5 DEF Administers, Exists
<1> QED
  BY <1>4, <1>5

LEMMA CarryOutKeepsInv ==
    ASSUME AccountsInv, NEW a \in Technicians, CarryOut(a)
    PROVE  AccountsInv'
<1> DEFINE r == asked[a]
<1>1. r \in UsersRequest /\ r.operation \in Operations /\ r.targets \subseteq Persons
  BY DEF CarryOut, AccountsInv, AccountsTypeOK, UsersRequest
<1>2. UNCHANGED <<begun, opened, activations>>
  BY DEF CarryOut
<1>3. \A t \in r.targets : accounts[t] \in UserRow
  BY <1>1 DEF CarryOut, Exists, AccountsInv, AccountsTypeOK
<1>4. \A t \in Persons :
        accounts'[t] = IF t \in r.targets THEN Outcome(r.operation, accounts[t]) ELSE accounts[t]
  BY DEF CarryOut
<1>5. AccountsTypeOK'
  <2>1. accounts' \in [Persons -> UserRow \cup {Gone}]
    <3>1. \A t \in Persons : accounts'[t] \in UserRow \cup {Gone}
      <4> SUFFICES ASSUME NEW t \in Persons PROVE accounts'[t] \in UserRow \cup {Gone}
        OBVIOUS
      <4>1. CASE t \in r.targets
        <5>1. Outcome(r.operation, accounts[t]) \in UserRow \cup {Gone}
          BY <1>1, <1>3, <4>1, OutcomeIsRow
        <5> QED
          BY <4>1, <5>1, <1>4
      <4>2. CASE t \notin r.targets
        BY <4>2, <1>4 DEF AccountsInv, AccountsTypeOK
      <4> QED
        BY <4>1, <4>2
    <3> QED
      BY <3>1 DEF CarryOut
  <2>2. links' \subseteq Invited /\ crossed' \subseteq Persons
    BY <1>1 DEF CarryOut, AccountsInv, AccountsTypeOK
  <2>3. excused' \in BOOLEAN
    BY Zenon DEF CarryOut
  <2>4. /\ shown' \in [Technicians -> UsersPage \cup {Idle}]
        /\ asked' \in [Technicians -> UsersRequest \cup {Idle}]
    BY DEF CarryOut, AccountsInv, AccountsTypeOK
  <2> QED
    BY <1>2, <2>1, <2>2, <2>3, <2>4 DEF AccountsInv, AccountsTypeOK
<1>6. AdministratorRemains'
  <2>1. excused' = (excused \/ ~ Administers(a))
    BY DEF CarryOut
  <2>2. CASE Administers(a)
    <3>1. Administers(a)'
      BY <2>2, CarryOutSparesItself
    <3> QED
      BY <3>1, AccountsAssumption DEF AdministratorRemains
  <2>3. CASE ~ Administers(a)
    BY <2>1, <2>3 DEF AdministratorRemains
  <2> QED
    BY <2>2, <2>3
<1>7. OnlyCrossedIsFree'
  <2> SUFFICES ASSUME NEW p \in Persons, accounts'[p] # Gone,
                      accounts'[p].password = "temporary",
                      ~ accounts'[p].required \/ p \in Clearing
               PROVE  p \in crossed'
    BY <1>2 DEF OnlyCrossedIsFree, Exists, Clearing
  <2>1. crossed' = IF r.operation = "reset" THEN crossed \cup (r.targets \cap Clearing) ELSE crossed
    BY DEF CarryOut
  <2>2. CASE p \notin r.targets
    BY <1>4, <2>1, <2>2 DEF AccountsInv, OnlyCrossedIsFree, Exists
  <2>3. CASE p \in r.targets
    <3> DEFINE o == Outcome(r.operation, accounts[p])
    <3>1. accounts'[p] = o /\ accounts[p] \in UserRow /\ accounts[p] # Gone
      BY <1>3, <1>4, <2>3, GoneIsNoRow
    <3>2. r.operation # "delete"
      BY <3>1 DEF Outcome
    <3>3. CASE r.operation = "reset"
      <4>1. o.required
        BY <1>1, <3>1, <3>3, OutcomeIsRow
      <4> QED
        BY <2>1, <2>3, <3>1, <3>3, <4>1
    <3>4. CASE r.operation # "reset"
      <4>1. o.password = accounts[p].password /\ o.required = accounts[p].required
        BY <1>1, <3>1, <3>2, <3>4, OutcomeIsRow DEF Operations
      <4> HIDE DEF o
      <4> QED
        BY <2>1, <3>1, <4>1 DEF AccountsInv, OnlyCrossedIsFree, Exists
    <3> QED
      BY <3>3, <3>4
  <2> QED
    BY <2>2, <2>3
<1>8. ActivatedWasActive' /\ FormKnowsCrossed'
  BY <1>2 DEF AccountsInv, ActivatedWasActive, FormKnowsCrossed
<1> QED
  BY <1>5, <1>6, <1>7, <1>8 DEF AccountsInv

\* The other steps write the row of one person at most.
LEMMA CreateUserKeepsInv ==
    ASSUME AccountsInv, NEW a \in Technicians, NEW p \in Persons, CreateUser(a, p)
    PROVE  AccountsInv'
<1> DEFINE new == [active |-> TRUE, it |-> FALSE, superuser |-> FALSE,
                   password |-> "none", required |-> FALSE]
<1>1. new \in UserRow /\ new.password = "none"
  BY DEF UserRow
<1>2. /\ accounts' = [accounts EXCEPT ![p] = new] /\ crossed' = crossed \ {p}
      /\ UNCHANGED <<requests, links, excused>> /\ ~ Exists(p)
  BY DEF CreateUser
<1> HIDE DEF new
<1>3. AccountsTypeOK'
  BY <1>1, <1>2 DEF AccountsInv, AccountsTypeOK, requests
<1>4. AdministratorRemains'
  <2>1. \A q \in Persons : Administers(q) => Administers(q)'
    BY <1>2 DEF Administers, Exists, AccountsInv, AccountsTypeOK
  <2> QED
    BY <1>2, <2>1 DEF AdministratorRemains, AccountsInv
<1>5. OnlyCrossedIsFree'
  <2> SUFFICES ASSUME NEW q \in Persons, accounts'[q] # Gone,
                      accounts'[q].password = "temporary",
                      ~ accounts'[q].required \/ q \in Clearing
               PROVE  q \in crossed'
    BY <1>2 DEF OnlyCrossedIsFree, Exists, Clearing, requests
  <2>1. q # p
    BY <1>1, <1>2 DEF AccountsInv, AccountsTypeOK
  <2> QED
    BY <1>2, <2>1 DEF AccountsInv, AccountsTypeOK, OnlyCrossedIsFree, Exists
<1>6. ActivatedWasActive' /\ FormKnowsCrossed'
  BY <1>2 DEF AccountsInv, ActivatedWasActive, FormKnowsCrossed, requests
<1> QED
  BY <1>3, <1>4, <1>5, <1>6 DEF AccountsInv

LEMMA SendActivationKeepsInv ==
    ASSUME AccountsInv, NEW a \in Technicians, NEW p \in Invited, SendActivation(a, p)
    PROVE  AccountsInv'
<1>1. AccountsTypeOK'
  BY DEF SendActivation, AccountsInv, AccountsTypeOK, requests
<1> QED
  BY <1>1 DEF SendActivation, requests, AccountsInv, AdministratorRemains, Administers, Exists,
       ActivatedWasActive, OnlyCrossedIsFree, FormKnowsCrossed, Clearing

LEMMA ChangePasswordKeepsInv ==
    ASSUME AccountsInv, NEW p \in Persons, ChangePassword(p)
    PROVE  AccountsInv'
<1> DEFINE new == [accounts[p] EXCEPT !.password = "chosen", !.required = FALSE]
<1>1. accounts[p] \in UserRow
  BY DEF ChangePassword, Exists, AccountsInv, AccountsTypeOK
<1>2. /\ new \in UserRow /\ new.password = "chosen" /\ new.active = accounts[p].active
      /\ new.it = accounts[p].it /\ new.superuser = accounts[p].superuser
  BY <1>1 DEF UserRow
<1>3. /\ accounts' = [accounts EXCEPT ![p] = new] /\ crossed' = crossed \ {p}
      /\ links' = links \ {p} /\ UNCHANGED <<requests, excused>>
  BY <1>1 DEF ChangePassword, AccountsInv, AccountsTypeOK, UserRow
<1> HIDE DEF new
<1>4. AccountsTypeOK'
  BY <1>2, <1>3 DEF AccountsInv, AccountsTypeOK, requests
<1>5. AdministratorRemains'
  <2>1. \A q \in Persons : Administers(q) => Administers(q)'
    BY <1>2, <1>3, GoneIsNoRow DEF Administers, Exists, AccountsInv, AccountsTypeOK
  <2> QED
    BY <1>3, <2>1 DEF AdministratorRemains, AccountsInv
<1>6. OnlyCrossedIsFree'
  <2> SUFFICES ASSUME NEW q \in Persons, accounts'[q] # Gone,
                      accounts'[q].password = "temporary",
                      ~ accounts'[q].required \/ q \in Clearing
               PROVE  q \in crossed'
    BY <1>3 DEF OnlyCrossedIsFree, Exists, Clearing, requests
  <2>1. q # p
    BY <1>2, <1>3 DEF AccountsInv, AccountsTypeOK
  <2> QED
    BY <1>3, <2>1 DEF AccountsInv, AccountsTypeOK, OnlyCrossedIsFree, Exists
<1>7. ActivatedWasActive' /\ FormKnowsCrossed'
  BY <1>3 DEF AccountsInv, ActivatedWasActive, FormKnowsCrossed, requests
<1> QED
  BY <1>4, <1>5, <1>6, <1>7 DEF AccountsInv

-----------------------------------------------------------------------------
(* The form of the stock administration *)

LEMMA OpenFormKeepsInv ==
    ASSUME AccountsInv, NEW a \in Technicians, NEW p \in Persons, OpenForm(a, p)
    PROVE  AccountsInv'
<1>1. accounts[p] \in UserRow
  BY DEF OpenForm, Exists, AccountsInv, AccountsTypeOK
<1>2. PICK box \in {"none", "active", "it"} :
        opened' = [opened EXCEPT ![a] =
            [target |-> p, posted |-> FALSE, crossed |-> FALSE,
             row |-> [accounts[p] EXCEPT
                        !.active = IF box = "active" THEN ~ @ ELSE @,
                        !.it = IF box = "it" THEN ~ @ ELSE @]]]
  BY DEF OpenForm
<1> DEFINE new == [accounts[p] EXCEPT !.active = IF box = "active" THEN ~ @ ELSE @,
                                      !.it = IF box = "it" THEN ~ @ ELSE @]
           form1 == [target |-> p, posted |-> FALSE, crossed |-> FALSE, row |-> new]
<1>3. new \in UserRow
  BY <1>1 DEF UserRow
<1> HIDE DEF new
<1>4. form1 \in UserForm /\ ~ form1.posted
  BY <1>3 DEF UserForm
<1>5. opened' = [opened EXCEPT ![a] = form1]
  BY <1>2 DEF new
<1> HIDE DEF form1
<1>6. UNCHANGED <<accountRows, shown, asked, activations>> /\ begun' \in 0..MaxBegun
  BY AccountsAssumption DEF OpenForm, Begun, AccountsInv, AccountsTypeOK
<1>7. AccountsTypeOK'
  BY <1>4, <1>5, <1>6 DEF AccountsInv, AccountsTypeOK, accountRows
<1>8. FormKnowsCrossed'
  BY <1>4, <1>5, <1>6 DEF AccountsInv, AccountsTypeOK, FormKnowsCrossed, accountRows
<1> QED
  BY <1>6, <1>7, <1>8 DEF AccountsInv, AdministratorRemains, Administers, Exists,
       ActivatedWasActive, OnlyCrossedIsFree, Clearing, accountRows

LEMMA PostFormKeepsInv ==
    ASSUME AccountsInv, NEW a \in Technicians, PostForm(a)
    PROVE  AccountsInv'
<1> DEFINE old == opened[a]
           row == accounts[old.target]
           new == [old.row EXCEPT !.password = row.password, !.required = row.required]
           form1 == [target |-> old.target, posted |-> TRUE,
                     crossed |-> (old.target \in crossed), row |-> new]
<1>1. old \in UserForm /\ old.row \in UserRow /\ old.target \in Persons
  BY DEF PostForm, AccountsInv, AccountsTypeOK, UserForm
<1>2. row \in UserRow /\ row # Gone
  BY <1>1 DEF PostForm, Exists, AccountsInv, AccountsTypeOK
<1>3. new \in UserRow /\ new.password = row.password /\ new.required = row.required
  BY <1>1, <1>2 DEF UserRow
<1>4. opened' = [opened EXCEPT ![a] = form1]
  BY DEF PostForm
<1>5. UNCHANGED <<accountRows, begun, shown, asked, activations>>
  BY DEF PostForm
<1>6. row.password = "temporary" /\ ~ row.required => old.target \in crossed
  BY <1>1, <1>2 DEF AccountsInv, OnlyCrossedIsFree, Exists
<1> HIDE DEF new, row
<1>7. form1 \in UserForm /\ form1.row = new /\ form1.crossed = (old.target \in crossed)
  <2>1. (old.target \in crossed) \in BOOLEAN
    OBVIOUS
  <2> QED
    BY <1>1, <1>3, <2>1 DEF UserForm
<1> HIDE DEF old
<1>8. form1.row.password = "temporary" /\ ~ form1.row.required => form1.crossed
  BY <1>3, <1>6, <1>7
<1> HIDE DEF form1
<1>9. AccountsTypeOK'
  BY <1>4, <1>5, <1>7 DEF AccountsInv, AccountsTypeOK, accountRows
<1>10. FormKnowsCrossed'
  BY <1>4, <1>5, <1>8 DEF AccountsInv, AccountsTypeOK, FormKnowsCrossed, accountRows
<1> QED
  BY <1>5, <1>9, <1>10 DEF AccountsInv, AdministratorRemains, Administers, Exists,
       ActivatedWasActive, OnlyCrossedIsFree, Clearing, accountRows

\* The other screens post a row that is read in the same request.
LEMMA PostKeepsInv ==
    ASSUME AccountsInv, NEW a \in Technicians, NEW p \in Persons, NEW row \in UserRow,
           NEW free \in BOOLEAN, Post(a, p, row, free),
           row.password = "temporary" /\ ~ row.required => free
    PROVE  AccountsInv'
<1> DEFINE form1 == [target |-> p, posted |-> TRUE, crossed |-> free, row |-> row]
<1>1. form1 \in UserForm /\ form1.row = row /\ form1.crossed = free
  BY DEF UserForm
<1>2. opened' = [opened EXCEPT ![a] = form1]
  BY DEF Post
<1> HIDE DEF form1
<1>3. UNCHANGED <<accountRows, shown, asked, activations>> /\ begun' \in 0..MaxBegun
  BY AccountsAssumption DEF Post, Begun, AccountsInv, AccountsTypeOK
<1>4. AccountsTypeOK'
  BY <1>1, <1>2, <1>3 DEF AccountsInv, AccountsTypeOK, accountRows
<1>5. FormKnowsCrossed'
  BY <1>1, <1>2, <1>3 DEF AccountsInv, AccountsTypeOK, FormKnowsCrossed, accountRows
<1> QED
  BY <1>3, <1>4, <1>5 DEF AccountsInv, AdministratorRemains, Administers, Exists,
       ActivatedWasActive, OnlyCrossedIsFree, Clearing, accountRows

LEMMA PostPasswordKeepsInv ==
    ASSUME AccountsInv, NEW a \in Technicians, NEW p \in Persons,
           NEW password \in {"given", "none"}, PostPassword(a, p, password)
    PROVE  AccountsInv'
<1> DEFINE row == [accounts[p] EXCEPT !.password = password]
<1>1. accounts[p] \in UserRow
  BY DEF PostPassword, Exists, AccountsInv, AccountsTypeOK
<1>2. row \in UserRow /\ row.password # "temporary"
  BY <1>1 DEF UserRow
<1>3. Post(a, p, row, FALSE)
  BY DEF PostPassword
<1> HIDE DEF row
<1> QED
  BY <1>2, <1>3, PostKeepsInv

LEMMA PostEarlierKeepsInv ==
    ASSUME AccountsInv, NEW a \in Technicians, NEW p \in Persons, NEW earlier \in Versions,
           PostEarlier(a, p, earlier)
    PROVE  AccountsInv'
<1> DEFINE row == [accounts[p] EXCEPT !.active = earlier.active, !.it = earlier.it,
                                      !.required = earlier.required]
           free == ~ earlier.required
<1>1. accounts[p] \in UserRow /\ earlier.required \in BOOLEAN
  BY DEF PostEarlier, Exists, Versions, AccountsInv, AccountsTypeOK
<1>2. row \in UserRow /\ row.required = earlier.required
  BY <1>1 DEF UserRow, Versions
<1>3. Post(a, p, row, free)
  BY DEF PostEarlier
<1> HIDE DEF row
<1>4. free \in BOOLEAN /\ (~ row.required => free)
  BY <1>1, <1>2
<1> HIDE DEF free
<1> QED
  BY <1>2, <1>3, <1>4, PostKeepsInv

LEMMA SaveFormKeepsInv ==
    ASSUME AccountsInv, NEW a \in Technicians, SaveForm(a)
    PROVE  AccountsInv'
<1> DEFINE p == opened[a].target
           row == opened[a].row
<1>1. opened[a] \in UserForm /\ row \in UserRow /\ p \in Persons /\ row # Gone
  BY GoneIsNoRow DEF SaveForm, AccountsInv, AccountsTypeOK, UserForm
<1>2. /\ accounts' = [accounts EXCEPT ![p] = row]
      /\ opened' = [opened EXCEPT ![a] = Idle]
      /\ UNCHANGED <<begun, shown, asked, activations>>
      /\ links' \subseteq links
  BY DEF SaveForm
<1>3. excused' = (excused \/ ~ Administers(a)
                    \/ (Administers(p) /\ ~ (row.active /\ (row.it \/ row.superuser))))
  BY DEF SaveForm
<1>4. crossed' = IF opened[a].crossed \/ (row.password = "temporary" /\ p \in Clearing)
                 THEN crossed \cup {p} ELSE crossed
  BY DEF SaveForm
<1>5. row.password = "temporary" /\ ~ row.required => opened[a].crossed
  BY DEF SaveForm, AccountsInv, FormKnowsCrossed
<1> HIDE DEF p, row
<1>6. AccountsTypeOK'
  <2>1. excused' \in BOOLEAN
    BY Zenon, <1>3
  <2> QED
    BY <1>1, <1>2, <1>4, <2>1 DEF AccountsInv, AccountsTypeOK
<1>7. AdministratorRemains'
  <2> SUFFICES ASSUME ~ excused' PROVE \E q \in Persons : Administers(q)'
    BY DEF AdministratorRemains
  <2>1. ~ excused /\ (Administers(p) => row.active /\ (row.it \/ row.superuser))
    BY <1>3
  <2>2. PICK q \in Persons : Administers(q)
    BY <2>1 DEF AccountsInv, AdministratorRemains
  <2>3. CASE q = p
    BY <1>1, <1>2, <2>1, <2>2, <2>3 DEF Administers, Exists, AccountsInv, AccountsTypeOK
  <2>4. CASE q # p
    BY <1>1, <1>2, <2>2, <2>4 DEF Administers, Exists, AccountsInv, AccountsTypeOK
  <2> QED
    BY <2>3, <2>4
<1>8. OnlyCrossedIsFree'
  <2> SUFFICES ASSUME NEW q \in Persons, accounts'[q] # Gone,
                      accounts'[q].password = "temporary",
                      ~ accounts'[q].required \/ q \in Clearing
               PROVE  q \in crossed'
    BY <1>2 DEF OnlyCrossedIsFree, Exists, Clearing
  <2>1. CASE q # p
    BY <1>2, <1>4, <2>1 DEF AccountsInv, AccountsTypeOK, OnlyCrossedIsFree, Exists
  <2>2. CASE q = p
    <3>1. accounts'[q] = row
      BY <1>2, <2>2 DEF AccountsInv, AccountsTypeOK
    <3> QED
      BY <1>4, <1>5, <2>2, <3>1
  <2> QED
    BY <2>1, <2>2
<1>9. FormKnowsCrossed'
  BY <1>2 DEF AccountsInv, AccountsTypeOK, FormKnowsCrossed
<1>10. ActivatedWasActive'
  BY <1>2 DEF AccountsInv, ActivatedWasActive
<1> QED
  BY <1>6, <1>7, <1>8, <1>9, <1>10 DEF AccountsInv

LEMMA CloseFormKeepsInv ==
    ASSUME AccountsInv, NEW a \in Technicians, CloseForm(a)
    PROVE  AccountsInv'
<1>1. AccountsTypeOK'
  BY DEF CloseForm, AccountsInv, AccountsTypeOK, accountRows
<1>2. FormKnowsCrossed'
  BY DEF CloseForm, AccountsInv, AccountsTypeOK, FormKnowsCrossed
<1> QED
  BY <1>1, <1>2 DEF CloseForm, accountRows, AccountsInv, AdministratorRemains, Administers, Exists,
       ActivatedWasActive, OnlyCrossedIsFree, Clearing

-----------------------------------------------------------------------------
(* Activations *)

LEMMA BeginActivationKeepsInv ==
    ASSUME AccountsInv, NEW p \in Invited, BeginActivation(p)
    PROVE  AccountsInv'
<1> DEFINE new == [row |-> accounts[p], saved |-> FALSE]
<1>1. accounts[p] \in UserRow /\ accounts[p].active
  BY AccountsAssumption DEF BeginActivation, Exists, AccountsInv, AccountsTypeOK
<1>2. new \in Activation /\ new.row.active /\ ~ new.saved
  BY <1>1 DEF Activation
<1>3. activations' = [activations EXCEPT ![p] = new]
  BY DEF BeginActivation
<1> HIDE DEF new
<1>4. UNCHANGED <<accountRows, shown, asked, opened>> /\ begun' \in 0..MaxBegun
  BY AccountsAssumption DEF BeginActivation, Begun, AccountsInv, AccountsTypeOK
<1>5. AccountsTypeOK'
  BY <1>2, <1>3, <1>4 DEF AccountsInv, AccountsTypeOK, accountRows
<1>6. ActivatedWasActive' /\ Clearing' \subseteq Clearing
  BY <1>2, <1>3 DEF AccountsInv, AccountsTypeOK, ActivatedWasActive, Clearing
<1> QED
  BY <1>4, <1>5, <1>6 DEF AccountsInv, AdministratorRemains, Administers, Exists,
       OnlyCrossedIsFree, FormKnowsCrossed, accountRows

LEMMA SaveActivationKeepsInv ==
    ASSUME AccountsInv, NEW p \in Invited, SaveActivation(p)
    PROVE  AccountsInv'
<1> DEFINE old == activations[p]
           row == [old.row EXCEPT !.password = "chosen"]
           new == IF row.required THEN [row |-> row, saved |-> TRUE] ELSE Idle
<1>1. old.row \in UserRow /\ old.row.active /\ p \in Persons
  BY AccountsAssumption
  DEF SaveActivation, AccountsInv, AccountsTypeOK, ActivatedWasActive, Activation
<1>2. row \in UserRow /\ row.active /\ row.password = "chosen" /\ row # Gone
  BY <1>1, GoneIsNoRow DEF UserRow
<1>3. /\ accounts' = [accounts EXCEPT ![p] = row]
      /\ activations' = [activations EXCEPT ![p] = new]
      /\ excused' = (excused \/ (Administers(p) /\ ~ (row.it \/ row.superuser)))
      /\ crossed' = crossed \ {p} /\ links' = links \ {p}
      /\ UNCHANGED <<begun, shown, asked, opened>>
  BY DEF SaveActivation
<1> HIDE DEF row
<1>4. new \in Activation \cup {Idle} /\ (new # Idle => new.row.active)
  BY <1>2 DEF Activation
<1> HIDE DEF new
<1>5. AccountsTypeOK'
  <2>1. excused' \in BOOLEAN
    BY Zenon, <1>3
  <2> QED
    BY <1>1, <1>2, <1>3, <1>4, <2>1 DEF AccountsInv, AccountsTypeOK
<1>6. AdministratorRemains'
  <2> SUFFICES ASSUME ~ excused' PROVE \E q \in Persons : Administers(q)'
    BY DEF AdministratorRemains
  <2>1. ~ excused /\ (Administers(p) => row.it \/ row.superuser)
    BY <1>3
  <2>2. PICK q \in Persons : Administers(q)
    BY <2>1 DEF AccountsInv, AdministratorRemains
  <2>3. Administers(q)'
    BY <1>1, <1>2, <1>3, <2>1, <2>2 DEF Administers, Exists, AccountsInv, AccountsTypeOK
  <2> QED
    BY <2>3
<1>7. OnlyCrossedIsFree'
  <2> SUFFICES ASSUME NEW q \in Persons, accounts'[q] # Gone,
                      accounts'[q].password = "temporary",
                      ~ accounts'[q].required \/ q \in Clearing'
               PROVE  q \in crossed'
    BY DEF OnlyCrossedIsFree, Exists
  <2>1. q # p
    BY <1>1, <1>2, <1>3 DEF AccountsInv, AccountsTypeOK
  <2>2. accounts'[q] = accounts[q] /\ (q \in Clearing' => q \in Clearing)
    BY <1>3, <2>1 DEF AccountsInv, AccountsTypeOK, Clearing
  <2> QED
    BY <1>3, <2>1, <2>2 DEF AccountsInv, OnlyCrossedIsFree, Exists
<1>8. ActivatedWasActive'
  BY <1>3, <1>4 DEF AccountsInv, AccountsTypeOK, ActivatedWasActive
<1>9. FormKnowsCrossed'
  BY <1>3 DEF AccountsInv, FormKnowsCrossed
<1> QED
  BY <1>5, <1>6, <1>7, <1>8, <1>9 DEF AccountsInv

LEMMA ClearRequiredKeepsInv ==
    ASSUME AccountsInv, NEW p \in Invited, ClearRequired(p)
    PROVE  AccountsInv'
<1> DEFINE new == IF Exists(p) THEN [accounts[p] EXCEPT !.required = FALSE] ELSE accounts[p]
<1>1. p \in Persons /\ accounts[p] \in UserRow \cup {Gone} /\ p \in Clearing
  BY AccountsAssumption DEF ClearRequired, AccountsInv, AccountsTypeOK
<1>2. /\ new \in UserRow \cup {Gone}
      /\ new # Gone => /\ accounts[p] # Gone
                       /\ new.password = accounts[p].password
      /\ accounts[p] # Gone =>
           /\ new # Gone /\ new.active = accounts[p].active
           /\ new.it = accounts[p].it /\ new.superuser = accounts[p].superuser
  BY <1>1, GoneIsNoRow DEF UserRow, Exists
<1>3. /\ accounts' = [accounts EXCEPT ![p] = new]
      /\ activations' = [activations EXCEPT ![p] = Idle]
      /\ UNCHANGED <<links, begun, shown, asked, opened, excused, crossed>>
  BY <1>1 DEF ClearRequired, AccountsInv, AccountsTypeOK
<1> HIDE DEF new
<1>4. AccountsTypeOK'
  BY <1>2, <1>3 DEF AccountsInv, AccountsTypeOK
<1>5. AdministratorRemains'
  <2>1. \A q \in Persons : Administers(q) => Administers(q)'
    BY <1>1, <1>2, <1>3 DEF Administers, Exists, AccountsInv, AccountsTypeOK
  <2> QED
    BY <1>3, <2>1 DEF AdministratorRemains, AccountsInv
<1>6. OnlyCrossedIsFree'
  <2> SUFFICES ASSUME NEW q \in Persons, accounts'[q] # Gone,
                      accounts'[q].password = "temporary",
                      ~ accounts'[q].required \/ q \in Clearing'
               PROVE  q \in crossed
    BY <1>3 DEF OnlyCrossedIsFree, Exists
  <2>1. CASE q = p
    BY <1>1, <1>2, <1>3, <2>1 DEF AccountsInv, AccountsTypeOK, OnlyCrossedIsFree, Exists
  <2>2. CASE q # p
    <3>1. accounts'[q] = accounts[q] /\ (q \in Clearing' => q \in Clearing)
      BY <1>3, <2>2 DEF AccountsInv, AccountsTypeOK, Clearing
    <3> QED
      BY <3>1 DEF AccountsInv, OnlyCrossedIsFree, Exists
  <2> QED
    BY <2>1, <2>2
<1>7. ActivatedWasActive' /\ FormKnowsCrossed'
  BY <1>3 DEF AccountsInv, AccountsTypeOK, ActivatedWasActive, FormKnowsCrossed
<1> QED
  BY <1>4, <1>5, <1>6, <1>7 DEF AccountsInv

-----------------------------------------------------------------------------

LEMMA AccountsInductive == AccountsSpec => []AccountsInv
<1>1. AccountsInit => AccountsInv
  BY AccountsInitial
<1>2. AccountsInv /\ [AccountsNext]_accountVars => AccountsInv'
  <2> SUFFICES ASSUME AccountsInv, [AccountsNext]_accountVars PROVE AccountsInv'
    OBVIOUS
  <2>1. CASE UNCHANGED accountVars
    BY <2>1 DEF accountVars, accountRows, requests, AccountsInv, AccountsTypeOK,
         AdministratorRemains, Administers, Exists, ActivatedWasActive, OnlyCrossedIsFree,
         FormKnowsCrossed, Clearing
  <2>2. ASSUME NEW a \in Technicians,
               \/ LoadUsers(a) \/ CarryOut(a) \/ Leave(a)
               \/ \E operation \in Operations, targets \in SUBSET Persons :
                      Ask(a, operation, targets)
               \/ \E p \in Persons : CreateUser(a, p) \/ OpenForm(a, p)
               \/ \E p \in Persons, password \in {"given", "none"} : PostPassword(a, p, password)
               \/ \E p \in Persons, earlier \in Versions : PostEarlier(a, p, earlier)
               \/ \E p \in Invited : SendActivation(a, p)
               \/ PostForm(a) \/ SaveForm(a) \/ CloseForm(a)
        PROVE  AccountsInv'
    BY <2>2, PageKeepsInv, CarryOutKeepsInv, CreateUserKeepsInv, OpenFormKeepsInv,
       SendActivationKeepsInv, PostFormKeepsInv, PostPasswordKeepsInv, PostEarlierKeepsInv,
       SaveFormKeepsInv, CloseFormKeepsInv
  <2>3. ASSUME NEW p \in Persons, ChangePassword(p) PROVE AccountsInv'
    BY <2>3, ChangePasswordKeepsInv
  <2>4. ASSUME NEW p \in Invited, BeginActivation(p) \/ SaveActivation(p) \/ ClearRequired(p)
        PROVE  AccountsInv'
    BY <2>4, BeginActivationKeepsInv, SaveActivationKeepsInv, ClearRequiredKeepsInv
  <2> QED
    BY <2>1, <2>2, <2>3, <2>4 DEF AccountsNext
<1> QED
  BY <1>1, <1>2, PTL DEF AccountsSpec

\* Whatever is closed, deleted or reset from the user pages, by any number of
\* administrators at the same time, somebody still administers the accounts,
\* unless a request outlived the rights of its author or the stock
\* administration's form or a stale activation took them.
THEOREM AdministratorAlwaysRemains == AccountsSpec => []AdministratorRemains
<1>1. AccountsInv => AdministratorRemains
  BY DEF AccountsInv
<1> QED
  BY <1>1, AccountsInductive, PTL

\* However resets, activations, changes of password and the screens of the stock
\* administration interleave, the password of a reset must be replaced, unless
\* it was given within an activation or lost its flag to the history screen.
THEOREM TemporaryAlwaysReplaced == AccountsSpec => []TemporaryMustBeReplaced
<1>1. AccountsInv => TemporaryMustBeReplaced
  BY DEF AccountsInv, OnlyCrossedIsFree, TemporaryMustBeReplaced
<1> QED
  BY <1>1, AccountsInductive, PTL

-----------------------------------------------------------------------------
(* Hierarchy: walks and loops                                              *)

LEMMA ReachStarts ==
    ASSUME NEW edges, NEW from, NEW nodes
    PROVE  from \cap nodes \subseteq Reachable(edges, from, nodes)
           /\ Reachable(edges, from, nodes) \subseteq nodes
  BY DEF Reachable

LEMMA ReachClosed ==
    ASSUME NEW edges, NEW from, NEW nodes, NEW e \in edges,
           e[1] \in Reachable(edges, from, nodes), e[2] \in nodes
    PROVE  e[2] \in Reachable(edges, from, nodes)
<1> SUFFICES ASSUME NEW C \in SUBSET nodes, from \subseteq C,
                    \A d \in edges : d[1] \in C => d[2] \in C
             PROVE  e[2] \in C
  BY DEF Reachable
<1>1. e[1] \in C
  BY DEF Reachable
<1> QED
  BY <1>1

LEMMA ReachLeast ==
    ASSUME NEW edges, NEW from, NEW nodes, NEW C \in SUBSET nodes, from \subseteq C,
           \A e \in edges : e[1] \in C => e[2] \in C
    PROVE  Reachable(edges, from, nodes) \subseteq C
  BY DEF Reachable

LEMMA ReachGrows ==
    ASSUME NEW edges, NEW more, NEW from, NEW nodes, edges \subseteq more
    PROVE  Reachable(edges, from, nodes) \subseteq Reachable(more, from, nodes)
  BY DEF Reachable

\* A graph without a loop, by the set that shows it for each node.
Separates(C, n, edges, nodes) ==
    /\ C \in SUBSET nodes /\ n \notin C
    /\ \A e \in edges : e[1] = n \/ e[1] \in C => e[2] \in C

LEMMA NoLoopSeparates ==
    ASSUME NEW edges, NEW nodes
    PROVE  ~ Loop(edges, nodes) <=> \A n \in nodes : \E C : Separates(C, n, edges, nodes)
<1> DEFINE from(n) == {e[2] : e \in {d \in edges : d[1] = n}}
<1>1. ASSUME NEW n \in nodes, n \notin Reachable(edges, from(n), nodes)
      PROVE  \E C : Separates(C, n, edges, nodes)
  <2>1. PICK C \in SUBSET nodes : /\ from(n) \subseteq C
                                  /\ \A e \in edges : e[1] \in C => e[2] \in C
                                  /\ n \notin C
    BY <1>1 DEF Reachable
  <2>2. \A e \in edges : e[1] = n => e[2] \in C
    BY <2>1
  <2> QED
    BY <2>1, <2>2 DEF Separates
<1>2. ASSUME NEW n \in nodes, NEW C, Separates(C, n, edges, nodes)
      PROVE  n \notin Reachable(edges, from(n), nodes)
  <2>1. from(n) \subseteq C
    BY <1>2 DEF Separates
  <2> QED
    BY <1>2, <2>1, ReachLeast DEF Separates
<1> QED
  BY <1>1, <1>2 DEF Loop

LEMMA FewerEdges ==
    ASSUME NEW edges, NEW fewer, NEW nodes, fewer \subseteq edges, ~ Loop(edges, nodes)
    PROVE  ~ Loop(fewer, nodes)
<1>1. \A n \in nodes : \E C : Separates(C, n, edges, nodes)
  BY NoLoopSeparates
<1>2. \A n \in nodes : \E C : Separates(C, n, fewer, nodes)
  BY <1>1 DEF Separates
<1> QED
  BY <1>2, NoLoopSeparates

\* Edges from one node close no loop when it cannot be reached from their ends.
LEMMA EdgesAdded ==
    ASSUME NEW edges, NEW nodes, NEW s \in nodes, NEW D \in SUBSET nodes, s \notin D,
           \A e \in edges : e[1] \in D => e[2] \in D,
           ~ Loop(edges, nodes)
    PROVE  ~ Loop(edges \cup ({s} \X D), nodes)
<1> DEFINE more == edges \cup ({s} \X D)
<1>1. \A n \in nodes : \E C : Separates(C, n, edges, nodes)
  BY NoLoopSeparates
<1>2. ASSUME NEW n \in nodes PROVE \E C : Separates(C, n, more, nodes)
  <2>1. PICK C : Separates(C, n, edges, nodes)
    BY <1>1
  <2>2. \A e \in {s} \X D : e[1] = s /\ e[2] \in D
    OBVIOUS
  <2>3. CASE n \in D
    <3>1. Separates(C \cap D, n, more, nodes)
      BY <2>1, <2>2, <2>3 DEF Separates
    <3> QED
      BY <3>1
  <2>4. CASE n \notin D
    <3>1. Separates(C \cup D, n, more, nodes)
      BY <2>1, <2>2, <2>4 DEF Separates
    <3> QED
      BY <3>1
  <2> QED
    BY <2>3, <2>4
<1> QED
  BY <1>2, NoLoopSeparates

-----------------------------------------------------------------------------
(* What the pages offer                                                    *)

LEMMA LineEdgesGrow ==
    ASSUME NEW rows, NEW fewer, fewer \subseteq rows
    PROVE  LineEdges(fewer) \subseteq LineEdges(rows)
  BY DEF LineEdges

LEMMA LineAllowedOnFewer ==
    ASSUME NEW rows, NEW fewer, fewer \subseteq rows, NEW e, NEW s,
           e # s, s \notin Subordinates(rows, e)
    PROVE  LineAllowed(fewer, e, s)
  BY LineEdgesGrow, ReachGrows DEF LineAllowed, Subordinates

LEMMA OfferedWhenTyped == HierarchyTypeOK => OfferedMovesAreAccepted
<1> SUFFICES ASSUME HierarchyTypeOK, NEW s \in People \ inactive
             PROVE  /\ \A p \in EligibleCollaborators(s) : SupervisorAllowed(lines, primary, p, s)
                    /\ \A p \in Team(lines, s) \ inactive : \A r \in EligibleSupervisors(p) :
                          SupervisorAllowed(lines, primary, p, r)
  BY DEF OfferedMovesAreAccepted
<1>1. ASSUME NEW p \in EligibleCollaborators(s) PROVE SupervisorAllowed(lines, primary, p, s)
  <2> DEFINE open == {e \in UnitEdges(parent) : e[2] \notin archived}
  <2>1. /\ primary[s] # None /\ p \in People /\ p # s
        /\ primary[p] \in Reachable(open, {primary[s]}, Units)
        /\ s \notin Subordinates(lines, p)
    BY DEF EligibleCollaborators
  <2>2. primary[p] \in Below(parent, primary[s])
    BY <2>1, ReachGrows DEF Below
  <2>3. LineAllowed(lines \ NPlus1(lines, p), p, s)
    BY <2>1, LineAllowedOnFewer
  <2> QED
    BY <2>1, <2>2, <2>3 DEF SupervisorAllowed, SupervisesUnit
<1>2. ASSUME NEW p \in Team(lines, s) \ inactive, NEW r \in EligibleSupervisors(p)
      PROVE  SupervisorAllowed(lines, primary, p, r)
  <2>1. p \in People
    BY DEF Team, HierarchyTypeOK, Rows, Line
  <2>2. r \notin Subordinates(lines, p) /\ SupervisesUnit(primary, r, primary[p])
    BY DEF EligibleSupervisors
  <2>3. p \in Subordinates(lines, p)
    BY <2>1, ReachStarts DEF Subordinates
  <2>4. LineAllowed(lines \ NPlus1(lines, p), p, r)
    BY <2>2, <2>3, LineAllowedOnFewer
  <2> QED
    BY <2>2, <2>3, <2>4 DEF SupervisorAllowed
<1> QED
  BY <1>1, <1>2

-----------------------------------------------------------------------------
(* The team tree                                                           *)

LEMMA Least ==
    ASSUME NEW S \in SUBSET Nat, S # {}
    PROVE  \E m \in S : \A k \in S : m <= k
<1> DEFINE R == {ss \in Nat \X Nat : ss[1] < ss[2]}
<1>1. IsWellFoundedOn(R, Nat)
  BY NatLessThanWellFounded DEF OpToRel
<1>2. \A x, y \in Nat : y < x => <<y, x>> \in R
  OBVIOUS
<1> HIDE DEF R
<1>3. PICK x \in S : \A y \in S : ~ (<<y, x>> \in R)
  BY <1>1, WFMin
<1>4. ASSUME NEW k \in S PROVE x <= k
  <2>1. x \in Nat /\ k \in Nat /\ ~ (k < x)
    BY <1>2, <1>3
  <2> QED BY <2>1
<1> QED BY <1>4

\* In a finite graph without a loop, a set of nodes has one that no edge from
\* the set enters.
LEMMA SourceOfASet ==
    ASSUME NEW edges, NEW nodes, IsFiniteSet(nodes), ~ Loop(edges, nodes),
           NEW U \in SUBSET nodes, U # {}
    PROVE  \E p \in U : \A e \in edges : e[2] = p => e[1] \notin U
<1> DEFINE below(p) == Reachable(edges, {p}, nodes)
           others(p) == Cardinality(nodes \ below(p))
           counts == {others(p) : p \in U}
<1>1. \A p \in U : IsFiniteSet(nodes \ below(p)) /\ others(p) \in Nat
  BY FS_Subset, FS_CardinalityType
<1>2. PICK n \in counts : \A m \in counts : n <= m
  <2>1. counts \in SUBSET Nat /\ counts # {}
    BY <1>1
  <2> HIDE DEF counts
  <2> QED
    BY <2>1, Least
<1>3. PICK p \in U : others(p) = n
  BY <1>2
<1>4. ASSUME NEW e \in edges, e[2] = p, e[1] \in U PROVE FALSE
  <2> DEFINE s == e[1]
  <2>1. below(p) \subseteq below(s) /\ p \in below(s)
    <3>1. s \in below(s) /\ below(s) \subseteq nodes
      BY <1>4, ReachStarts
    <3>2. p \in below(s)
      BY <1>4, <3>1, ReachClosed
    <3>3. \A d \in edges : d[1] \in below(s) /\ d[2] \in nodes => d[2] \in below(s)
      BY ReachClosed
    <3>4. \A x \in below(p) : x \in below(s)
      <4> SUFFICES ASSUME NEW x \in below(p), NEW C \in SUBSET nodes, s \in C,
                          \A d \in edges : d[1] \in C => d[2] \in C
                   PROVE  x \in C
        BY DEF Reachable
      <4>1. p \in C
        BY <1>4
      <4> QED
        BY <4>1, ReachLeast
    <3> QED
      BY <3>2, <3>4
  <2>2. s \in below(s) /\ s \notin below(p)
    <3>1. PICK C : Separates(C, s, edges, nodes)
      BY <1>4, NoLoopSeparates
    <3>2. p \in C /\ s \notin C
      BY <1>4, <3>1 DEF Separates
    <3>3. below(p) \subseteq C
      BY <3>1, <3>2, ReachLeast DEF Separates
    <3> QED
      BY <1>4, <3>2, <3>3, ReachStarts
  <2>3. nodes \ below(s) \subseteq nodes \ below(p) /\ nodes \ below(s) # nodes \ below(p)
    BY <1>4, <2>1, <2>2
  <2> DEFINE A == nodes \ below(p)
             B == nodes \ below(s)
  <2>4. IsFiniteSet(A) /\ Cardinality(A) \in Nat /\ Cardinality(B) \in Nat
    BY <1>1, <1>4
  <2>5. Cardinality(A) <= Cardinality(B)
    BY <1>2, <1>3, <1>4
  <2>6. B \in SUBSET A /\ B # A
    BY <2>3
  <2> HIDE DEF A, B
  <2>7. Cardinality(B) <= Cardinality(A) /\ Cardinality(B) # Cardinality(A)
    BY <2>4, <2>6, FS_Subset
  <2> QED
    BY <2>4, <2>5, <2>7
<1> QED
  BY <1>4

LEMMA VisibleArePeople ==
    ASSUME HierarchyTypeOK, NEW m \in People
    PROVE  VisibleEmployees(m) \subseteq People
<1>1. Subordinates(lines, m) \subseteq People
  BY DEF Subordinates, Reachable
<1>2. MemberUsers(ScopedUnits(m)) \subseteq People
  BY DEF MemberUsers
<1>3. \A w \in Worked : w[1] \in People
  BY HierarchyAssumption
<1> QED
  BY <1>1, <1>2, <1>3 DEF VisibleEmployees

LEMMA TreeWhenTyped == HierarchyTypeOK => TeamTreeIsWhole
<1> SUFFICES ASSUME HierarchyTypeOK, ~ Loop(LineEdges(lines), People), NEW m \in People
             PROVE  TeamTree(m) = VisibleEmployees(m) \ {m}
  BY DEF TeamTreeIsWhole
<1> DEFINE T == TeamPeople(m)
           E == TeamEdges(m) \cup ({m} \X Detached(m))
           R == Reachable(E, {m}, People)
<1>1. T = VisibleEmployees(m) \ {m} /\ T \subseteq People /\ m \notin T
  BY VisibleArePeople DEF TeamPeople
<1>2. \A e \in TeamEdges(m) : e \in LineEdges(lines) /\ e[1] \in T \cup {m} /\ e[2] \in T
  BY DEF TeamEdges, LineEdges
<1>3. Detached(m) = T \ {e[2] : e \in TeamEdges(m)}
  BY DEF Detached
<1>4. \A e \in {m} \X Detached(m) : e[1] = m /\ e[2] \in Detached(m)
  OBVIOUS
<1>5. R \subseteq T \cup {m}
  <2>1. \A e \in E : e[2] \in T
    BY <1>2, <1>3, <1>4
  <2> DEFINE C == T \cup {m}
  <2>2. C \in SUBSET People /\ {m} \subseteq C /\ \A e \in E : e[1] \in C => e[2] \in C
    BY <1>1, <2>1
  <2> HIDE DEF E, C
  <2>3. R \subseteq C
    BY <2>2, ReachLeast
  <2> QED
    BY <2>3 DEF C
<1>6. m \in R
  BY ReachStarts
<1>7. \A e \in E : e[1] \in R /\ e[2] \in People => e[2] \in R
  BY ReachClosed
<1>8. T \subseteq R
  <2> SUFFICES ASSUME T \ R # {} PROVE FALSE
    OBVIOUS
  <2>1. PICK p \in T \ R : \A e \in LineEdges(lines) : e[2] = p => e[1] \notin T \ R
    <3> DEFINE U == T \ R
               F == LineEdges(lines)
    <3>1. U \in SUBSET People /\ U # {} /\ IsFiniteSet(People) /\ ~ Loop(F, People)
      BY <1>1, HierarchyAssumption
    <3> HIDE DEF U, F
    <3>2. \E p \in U : \A e \in F : e[2] = p => e[1] \notin U
      BY <3>1, SourceOfASet
    <3> QED
      BY <3>2 DEF U, F
  <2>2. CASE p \in Detached(m)
    <3>1. <<m, p>> \in E
      BY <2>2
    <3> QED
      BY <1>1, <1>6, <1>7, <2>1, <3>1
  <2>3. CASE p \notin Detached(m)
    <3>1. PICK e \in TeamEdges(m) : e[2] = p
      BY <1>3, <2>1, <2>3
    <3>2. e[1] \in R
      BY <1>2, <1>6, <2>1, <3>1
    <3> QED
      BY <1>1, <1>7, <2>1, <3>1, <3>2
  <2> QED
    BY <2>2, <2>3
<1>9. TeamTree(m) = R \ {m}
  BY DEF TeamTree
<1> QED
  BY <1>1, <1>5, <1>8, <1>9

-----------------------------------------------------------------------------
(* Organization: what a change of N+1 makes of the rows of one employee    *)

Kept(own, s) == \E l \in own : l.primary /\ l.supervisor = s

\* One primary row of today is there in the place of others, with the key of
\* one of them or a new one.
Replaced(new, own, e, s, key) ==
    \E n \in Line, gone \in SUBSET own :
        /\ new = (own \ gone) \cup {n}
        /\ n.employee = e /\ n.supervisor = s /\ n.primary /\ n.fresh
        /\ \A l \in own : l.primary => l \in gone
        /\ \A l \in gone : l.primary \/ l.supervisor = s
        /\ n.key = key \/ \E l \in gone : l.fresh /\ l.key = n.key

LEMMA RewrittenIs ==
    ASSUME NEW e \in People, NEW s \in People, NEW key \in Int,
           NEW own \in SUBSET Line, \A l \in own : l.employee = e,
           \A k, l \in own : k.primary /\ l.primary => k = l
    PROVE  IF Kept(own, s) THEN Rewritten(own, e, s, key) = own
           ELSE Replaced(Rewritten(own, e, s, key), own, e, s, key)
<1> DEFINE old == {l \in own : l.primary}
           same == {l \in own \ old : l.supervisor = s}
           new == Rewritten(own, e, s, key)
<1>1. CASE Kept(own, s)
  BY <1>1 DEF Kept, Rewritten
<1>2. NewLine(e, s, key) \in Line
  BY DEF Line, NewLine
<1>3. CASE ~ Kept(own, s) /\ \E l \in old : l.fresh
  <2>1. PICK l \in old : l.fresh
    BY <1>3
  <2>2. old = {l}
    BY <2>1
  <2> DEFINE n == [l EXCEPT !.supervisor = s]
  <2>3. /\ n \in Line /\ n.employee = e /\ n.supervisor = s /\ n.primary /\ n.fresh
        /\ n.key = l.key
    BY <2>1 DEF Line
  <2>4. new = (own \ old) \cup {n}
    BY <1>3, <2>2 DEF Rewritten, Kept
  <2> HIDE DEF n, new
  <2>5. Replaced(new, own, e, s, key)
    BY <2>1, <2>2, <2>3, <2>4 DEF Replaced
  <2> QED
    BY <1>3, <2>5 DEF new
<1>4. CASE ~ Kept(own, s) /\ ~ (\E l \in old : l.fresh) /\ same = {}
  <2> DEFINE n == NewLine(e, s, key)
  <2>1. n.employee = e /\ n.supervisor = s /\ n.primary /\ n.fresh /\ n.key = key
    BY DEF NewLine
  <2>2. new = (own \ old) \cup {n}
    BY <1>4 DEF Rewritten, Kept
  <2>4. n \in Line
    BY <1>2
  <2>5. old \in SUBSET own /\ (\A l \in own : l.primary => l \in old) /\ \A l \in old : l.primary
    OBVIOUS
  <2> HIDE DEF n, new, old
  <2>3. Replaced(new, own, e, s, key)
    BY <2>1, <2>2, <2>4, <2>5 DEF Replaced
  <2> QED
    BY <1>4, <2>3 DEF new
<1>5. CASE ~ Kept(own, s) /\ ~ (\E l \in old : l.fresh) /\ same # {}
  <2> DEFINE f == First(same)
             n == IF f.fresh THEN [f EXCEPT !.primary = TRUE] ELSE NewLine(e, s, key)
  <2>1. \E l \in same : l.fresh \/ \A k \in same : ~ k.fresh
    BY <1>5
  <2>2. f \in same
    BY <2>1 DEF First
  <2>3. new = (own \ (old \cup {f})) \cup {n}
    BY <1>5 DEF Rewritten, Kept
  <2> HIDE DEF f, new
  <2>4. /\ n \in Line /\ n.employee = e /\ n.supervisor = s /\ n.primary /\ n.fresh
        /\ n.key = key \/ (f.fresh /\ f.key = n.key)
    <3>1. CASE f.fresh
      BY <2>2, <3>1 DEF Line
    <3>2. CASE ~ f.fresh
      BY <1>2, <3>2 DEF NewLine
    <3> QED
      BY <3>1, <3>2
  <2> HIDE DEF n
  <2>5. Replaced(new, own, e, s, key)
    <3> DEFINE gone == old \cup {f}
    <3>1. gone \in SUBSET own /\ new = (own \ gone) \cup {n}
      BY <2>2, <2>3
    <3>2. \A l \in own : l.primary => l \in gone
      OBVIOUS
    <3>3. \A l \in gone : l.primary \/ l.supervisor = s
      BY <2>2
    <3>4. n.key = key \/ \E l \in gone : l.fresh /\ l.key = n.key
      BY <2>4
    <3> HIDE DEF gone
    <3> QED
      BY <2>4, <3>1, <3>2, <3>3, <3>4 DEF Replaced
  <2> QED
    BY <1>5, <2>5 DEF new
<1> QED
  BY <1>1, <1>3, <1>4, <1>5

\* A row that is left, or points to s; and one primary row points to s.
LEMMA RewrittenPoints ==
    ASSUME NEW e \in People, NEW s \in People, NEW key \in Int,
           NEW own \in SUBSET Line, \A l \in own : l.employee = e,
           \A k, l \in own : k.primary /\ l.primary => k = l,
           NEW new, new = Rewritten(own, e, s, key)
    PROVE  /\ new \in SUBSET Line
           /\ \A l \in new : l.employee = e
           /\ Kept(own, s) => new = own
           /\ \A l \in new : (l \in own /\ (l.primary => Kept(own, s))) \/ l.supervisor = s
           /\ \E l \in new : l.primary /\ l.supervisor = s
           /\ \A k, l \in new : k.primary /\ l.primary => k = l
           /\ \A l \in own : ~ l.primary /\ l.supervisor # s => l \in new
<1>1. CASE Kept(own, s)
  BY <1>1, RewrittenIs DEF Kept
<1>2. CASE ~ Kept(own, s)
  <2>1. Replaced(new, own, e, s, key)
    BY <1>2, RewrittenIs
  <2>2. PICK n \in Line, gone \in SUBSET own :
            /\ new = (own \ gone) \cup {n}
            /\ n.employee = e /\ n.supervisor = s /\ n.primary /\ n.fresh
            /\ \A l \in own : l.primary => l \in gone
            /\ \A l \in gone : l.primary \/ l.supervisor = s
    BY <2>1 DEF Replaced
  <2> QED
    BY <1>2, <2>2
<1> QED
  BY <1>1, <1>2

\* The rows stay rows: two people, one key, one primary line.
LEMMA RewrittenRows ==
    ASSUME NEW e \in People, NEW s \in People, e # s, NEW key \in Int,
           NEW own, Rows(own), \A l \in own : l.employee = e /\ l.key < key,
           NEW new, new = Rewritten(own, e, s, key)
    PROVE  /\ Rows(new)
           /\ \A l \in new : l.employee = e /\ l.key <= key
           /\ \A l \in new : l.key # key =>
                 \E k \in own : /\ k.key = l.key /\ k.fresh = l.fresh
                                /\ k.primary => l.primary
                                /\ l.primary => k.primary \/ k.fresh
<1>1. /\ own \in SUBSET Line /\ \A l \in own : l.employee = e
      /\ \A k, l \in own : k.primary /\ l.primary => k = l
      /\ \A k, l \in own : k.key = l.key => k = l
      /\ \A l \in own : l.employee # l.supervisor /\ l.key \in Int /\ l.key < key
  BY DEF Rows, Line
<1>2. CASE Kept(own, s)
  BY <1>1, <1>2, RewrittenIs
<1>3. CASE ~ Kept(own, s)
  <2>1. Replaced(new, own, e, s, key)
    BY <1>1, <1>3, RewrittenIs
  <2>2. PICK n \in Line, gone \in SUBSET own :
            /\ new = (own \ gone) \cup {n}
            /\ n.employee = e /\ n.supervisor = s /\ n.primary /\ n.fresh
            /\ \A l \in own : l.primary => l \in gone
            /\ \A l \in gone : l.primary \/ l.supervisor = s
            /\ n.key = key \/ \E l \in gone : l.fresh /\ l.key = n.key
    BY <2>1 DEF Replaced
  <2>3. n.key \in Int /\ \A l \in own \ gone : l.key # n.key /\ ~ l.primary
    BY <1>1, <2>2 DEF Line
  <2>4. n.key <= key
    BY <1>1, <2>2, <2>3
  <2>5. Rows(new)
    <3>1. new \subseteq Line /\ \A l \in new : l.employee # l.supervisor
      BY <1>1, <2>2
    <3>2. ASSUME NEW k \in new, NEW l \in new, k.key = l.key \/ (k.primary /\ l.primary)
          PROVE  k = l
      BY <1>1, <2>2, <2>3, <3>2
    <3> QED
      BY <3>1, <3>2 DEF Rows
  <2>6. \A l \in new : l.employee = e /\ l.key <= key
    BY <1>1, <2>2, <2>4
  <2>7. ASSUME NEW l \in new, l.key # key
        PROVE  \E k \in own : /\ k.key = l.key /\ k.fresh = l.fresh
                              /\ k.primary => l.primary
                              /\ l.primary => k.primary \/ k.fresh
    BY <2>2, <2>7
  <2> QED
    BY <2>5, <2>6, <2>7
<1> QED
  BY <1>2, <1>3

-----------------------------------------------------------------------------
(* ... and of all the rows                                                 *)

OnePrimary(rows) ==
    \A k, l \in rows : k.employee = l.employee /\ k.primary /\ l.primary => k = l

LEMMA WithSupervisorPoints ==
    ASSUME NEW e \in People, NEW s \in People, NEW key \in Int,
           NEW rows \in SUBSET Line, OnePrimary(rows),
           NEW new, new = WithSupervisor(rows, e, s, key)
    PROVE  /\ new \in SUBSET Line /\ OnePrimary(new)
           /\ Kept(Own(rows, e), s) => new = rows
           /\ \A l \in new : \/ l \in rows /\ (l \in NPlus1(rows, e) => Kept(Own(rows, e), s))
                             \/ l.employee = e /\ l.supervisor = s
<1> DEFINE own == Own(rows, e)
           mine == Rewritten(own, e, s, key)
<1>1. own \in SUBSET Line /\ own \subseteq rows /\ \A l \in own : l.employee = e
  BY DEF Own
<1>2. \A k, l \in own : k.primary /\ l.primary => k = l
  BY <1>1 DEF OnePrimary
<1>3. new = (rows \ own) \cup mine
  BY DEF WithSupervisor
<1>4. \A l \in rows : l \in own <=> l.employee = e
  BY DEF Own
<1>5. \A l \in NPlus1(rows, e) : l \in own /\ l.primary
  BY <1>4 DEF NPlus1
<1> HIDE DEF own, mine
<1>6. /\ mine \in SUBSET Line
      /\ \A l \in mine : l.employee = e
      /\ Kept(own, s) => mine = own
      /\ \A l \in mine : (l \in own /\ (l.primary => Kept(own, s))) \/ l.supervisor = s
      /\ \A k, l \in mine : k.primary /\ l.primary => k = l
  BY <1>1, <1>2, RewrittenPoints DEF mine
<1>7. new \in SUBSET Line
  BY <1>3, <1>6
<1>8. OnePrimary(new)
  BY <1>3, <1>4, <1>6 DEF OnePrimary
<1>9. Kept(own, s) => new = rows
  BY <1>1, <1>3, <1>6
<1>10. \A l \in new : \/ l \in rows /\ (l \in NPlus1(rows, e) => Kept(own, s))
                      \/ l.employee = e /\ l.supervisor = s
  BY <1>1, <1>3, <1>5, <1>6
<1> QED
  BY <1>7, <1>8, <1>9, <1>10 DEF own

\* A change of N+1 that is allowed closes no loop...
LEMMA SupervisorClosesNoLoop ==
    ASSUME NEW e \in People, NEW s \in People, NEW key \in Int, NEW members,
           NEW rows \in SUBSET Line, OnePrimary(rows), ~ Loop(LineEdges(rows), People),
           SupervisorAllowed(rows, members, e, s)
    PROVE  ~ Loop(LineEdges(WithSupervisor(rows, e, s, key)), People)
<1> DEFINE new == WithSupervisor(rows, e, s, key)
           others == rows \ NPlus1(rows, e)
           D == Subordinates(others, e)
<1>1. /\ Kept(Own(rows, e), s) => new = rows
      /\ \A l \in new : \/ l \in rows /\ (l \in NPlus1(rows, e) => Kept(Own(rows, e), s))
                        \/ l.employee = e /\ l.supervisor = s
  BY WithSupervisorPoints
<1>2. CASE Kept(Own(rows, e), s)
  BY <1>1, <1>2
<1>3. CASE ~ Kept(Own(rows, e), s)
  <2>1. LineAllowed(others, e, s)
    BY <1>3 DEF SupervisorAllowed, Kept, Own, NPlus1
  <2>2. D \in SUBSET People /\ e \in D /\ s \notin D
    BY <2>1, ReachStarts DEF LineAllowed, Subordinates
  <2>3. \A d \in LineEdges(others) : d[2] \in People
    BY DEF LineEdges, Line
  <2>4. \A d \in LineEdges(others) : d[1] \in D => d[2] \in D
    BY <2>3, ReachClosed DEF Subordinates
  <2>5. ~ Loop(LineEdges(others), People)
    BY LineEdgesGrow, FewerEdges
  <2>6. LineEdges(new) \subseteq LineEdges(others) \cup ({s} \X D)
    <3> SUFFICES ASSUME NEW l \in new
                 PROVE  <<l.supervisor, l.employee>> \in LineEdges(others) \cup ({s} \X D)
      BY DEF LineEdges
    <3>1. CASE l \in others
      BY <3>1 DEF LineEdges
    <3>2. CASE l \notin others
      BY <1>1, <1>3, <2>2, <3>2
    <3> QED
      BY <3>1, <3>2
  <2> HIDE DEF D, new, others
  <2>7. ~ Loop(LineEdges(others) \cup ({s} \X D), People)
    BY <2>2, <2>4, <2>5, EdgesAdded
  <2>8. ~ Loop(LineEdges(new), People)
    BY <2>6, <2>7, FewerEdges
  <2> QED
    BY <2>8 DEF new
<1> QED
  BY <1>2, <1>3

\* ... nor does a line that is allowed.
LEMMA LineClosesNoLoop ==
    ASSUME NEW l \in Line, NEW rows \in SUBSET Line, ~ Loop(LineEdges(rows), People),
           LineAllowed(rows, l.employee, l.supervisor)
    PROVE  ~ Loop(LineEdges(rows \cup {l}), People)
<1> DEFINE e == l.employee
           s == l.supervisor
           D == Subordinates(rows, e)
<1>1. e \in People /\ s \in People
  BY DEF Line
<1>2. D \in SUBSET People /\ e \in D /\ s \notin D
  BY <1>1, ReachStarts DEF LineAllowed, Subordinates
<1>3. \A d \in LineEdges(rows) : d[2] \in People
  BY DEF LineEdges, Line
<1>4. \A d \in LineEdges(rows) : d[1] \in D => d[2] \in D
  BY <1>3, ReachClosed DEF Subordinates
<1>5. LineEdges(rows \cup {l}) \subseteq LineEdges(rows) \cup ({s} \X D)
  BY <1>2 DEF LineEdges
<1> HIDE DEF D, s
<1>6. ~ Loop(LineEdges(rows) \cup ({s} \X D), People)
  BY <1>1, <1>2, <1>4, EdgesAdded
<1> QED
  BY <1>5, <1>6, FewerEdges

\* Two people who supervise each other.
Mutual(rows) == \E k, l \in rows : k.employee = l.supervisor /\ l.employee = k.supervisor

LEMMA ReverseIsSubordinate ==
    ASSUME NEW rows \in SUBSET Line, NEW l \in rows
    PROVE  l.employee \in Subordinates(rows, l.supervisor)
<1>1. l.supervisor \in Subordinates(rows, l.supervisor) /\ l.employee \in People
  BY ReachStarts DEF Line, Subordinates
<1>2. <<l.supervisor, l.employee>> \in LineEdges(rows)
  BY DEF LineEdges
<1> QED
  BY <1>1, <1>2, ReachClosed DEF Subordinates

LEMMA SupervisorMakesNoPair ==
    ASSUME NEW e \in People, NEW s \in People, NEW key \in Int, NEW members,
           NEW rows \in SUBSET Line, OnePrimary(rows), ~ Mutual(rows),
           SupervisorAllowed(rows, members, e, s)
    PROVE  ~ Mutual(WithSupervisor(rows, e, s, key))
<1> DEFINE new == WithSupervisor(rows, e, s, key)
           others == rows \ NPlus1(rows, e)
<1>1. /\ Kept(Own(rows, e), s) => new = rows
      /\ \A l \in new : \/ l \in rows /\ (l \in NPlus1(rows, e) => Kept(Own(rows, e), s))
                        \/ l.employee = e /\ l.supervisor = s
  BY WithSupervisorPoints
<1>2. CASE Kept(Own(rows, e), s)
  BY <1>1, <1>2
<1>3. CASE ~ Kept(Own(rows, e), s)
  <2>1. LineAllowed(others, e, s) /\ e # s
    BY <1>3 DEF SupervisorAllowed, Kept, Own, NPlus1
  <2>2. ASSUME NEW l \in others, l.employee = s, l.supervisor = e PROVE FALSE
    <3>1. s \in Subordinates(others, e)
      BY <2>2, ReverseIsSubordinate
    <3> QED
      BY <2>1, <3>1 DEF LineAllowed
  <2>3. \A l \in new : l \in others \/ (l.employee = e /\ l.supervisor = s)
    BY <1>1, <1>3
  <2> QED
    BY <2>1, <2>2, <2>3 DEF Mutual
<1> QED
  BY <1>2, <1>3

LEMMA LineMakesNoPair ==
    ASSUME NEW l \in Line, NEW rows \in SUBSET Line, ~ Mutual(rows),
           LineAllowed(rows, l.employee, l.supervisor)
    PROVE  ~ Mutual(rows \cup {l})
<1>1. l.employee # l.supervisor /\ l.supervisor \notin Subordinates(rows, l.employee)
  BY DEF LineAllowed
<1>2. \A k \in rows : ~ (k.employee = l.supervisor /\ k.supervisor = l.employee)
  BY <1>1, ReverseIsSubordinate
<1> QED
  BY <1>1, <1>2 DEF Mutual

-----------------------------------------------------------------------------
(* The moves of a team page, one after the other                           *)

LEMMA PeopleBounded == \E n \in Nat : \A p \in People : p < n
<1>1. PICK n \in Nat : ExistsBijection(1..n, People)
  BY HierarchyAssumption, FS_NatBijection
<1>2. PICK f \in [1..n -> People] : \A p \in People : \E i \in 1..n : f[i] = p
  BY <1>1 DEF ExistsBijection, Bijection, Injection, Surjection
<1>3. \A i \in 1..n : f[i] \in Nat
  BY HierarchyAssumption
<1> DEFINE above(k) == \E m \in Nat : \A i \in 1..n : i <= k => f[i] < m
<1>4. \A k \in Nat : above(k)
  <2> DEFINE bad == {k \in Nat : ~ above(k)}
  <2> SUFFICES ASSUME bad # {} PROVE FALSE
    OBVIOUS
  <2> HIDE DEF above
  <2>1. PICK k \in bad : \A j \in bad : k <= j
    <3>1. bad \in SUBSET Nat
      OBVIOUS
    <3> HIDE DEF bad
    <3> QED
      BY <3>1, Least
  <2>2. above(0)
    BY DEF above
  <2>3. k \in Nat /\ k # 0 /\ ~ above(k)
    BY <2>2
  <2>4. PICK j \in Nat : k = j + 1
    <3>1. k - 1 \in Nat /\ k = (k - 1) + 1
      BY <2>3
    <3> QED
      BY <3>1
  <2>5. above(j)
    BY <2>1, <2>4
  <2>6. PICK m \in Nat : \A i \in 1..n : i <= j => f[i] < m
    BY <2>5 DEF above
  <2> HIDE DEF bad
  <2>7. CASE k \in 1..n
    <3>1. f[k] \in Nat
      BY <1>3, <2>7
    <3>2. PICK c \in Nat : c >= m /\ c > f[k]
      <4>1. m + f[k] + 1 \in Nat /\ m + f[k] + 1 >= m /\ m + f[k] + 1 > f[k]
        BY <3>1
      <4> QED
        BY <4>1
    <3>3. ASSUME NEW i \in 1..n, i <= k PROVE f[i] < c
      <4>1. f[i] \in Nat
        BY <1>3
      <4>2. CASE i = k
        BY <3>2, <4>2
      <4>3. CASE i # k
        <5>1. i <= j
          BY <2>4, <3>3, <4>3
        <5> QED
          BY <2>6, <3>2, <4>1, <5>1
      <4> QED
        BY <4>2, <4>3
    <3>4. above(k)
      BY <3>3 DEF above
    <3> QED
      BY <2>3, <3>4
  <2>8. CASE k \notin 1..n
    <3>1. \A i \in 1..n : i <= k => i <= j
      BY <2>3, <2>4, <2>8
    <3>2. above(k)
      BY <2>6, <3>1 DEF above
    <3> QED
      BY <2>3, <3>2
  <2> QED
    BY <2>7, <2>8
<1>5. PICK m \in Nat : \A i \in 1..n : f[i] < m
  <2>1. above(n)
    BY <1>4
  <2>2. PICK m \in Nat : \A i \in 1..n : i <= n => f[i] < m
    BY <2>1
  <2> QED
    BY <2>2
<1> QED
  BY <1>2, <1>5

LEMMA MovedOne ==
    ASSUME NEW rows \in SUBSET Line, OnePrimary(rows),
           NEW D \in SUBSET People, NEW by \in [D -> People], NEW E \in SUBSET D,
           NEW n \in D \ E, NEW key \in Int
    PROVE  Moved(rows, by, E \cup {n}, key)
             = WithSupervisor(Moved(rows, by, E, key), n, by[n], key)
<1> DEFINE mine(e) == Rewritten(Own(rows, e), e, by[e], key)
           M == Moved(rows, by, E, key)
<1>1. \A e \in D : \A l \in mine(e) : l.employee = e
  <2> SUFFICES ASSUME NEW e \in D PROVE \A l \in mine(e) : l.employee = e
    OBVIOUS
  <2> DEFINE own == Own(rows, e)
             s == by[e]
             new == Rewritten(own, e, s, key)
  <2>1. own \in SUBSET Line /\ \A l \in own : l.employee = e
    BY DEF Own
  <2>2. \A k, l \in own : k.primary /\ l.primary => k = l
    BY DEF Own, OnePrimary
  <2>3. e \in People /\ s \in People
    OBVIOUS
  <2> HIDE DEF own, s, new
  <2>4. \A l \in new : l.employee = e
    BY <2>1, <2>2, <2>3, RewrittenPoints DEF new
  <2> QED
    BY <2>4 DEF new, own, s
<1>2. M = {l \in rows : l.employee \notin E} \cup UNION {mine(e) : e \in E}
  BY DEF Moved
<1>3. Moved(rows, by, E \cup {n}, key)
        = {l \in rows : l.employee \notin E \cup {n}}
            \cup (UNION {mine(e) : e \in E}) \cup mine(n)
  BY DEF Moved
<1> HIDE DEF mine
<1>4. Own(M, n) = Own(rows, n)
  BY <1>1, <1>2 DEF Own
<1>5. M \ Own(M, n) = {l \in rows : l.employee \notin E \cup {n}} \cup UNION {mine(e) : e \in E}
  BY <1>1, <1>2 DEF Own
<1>6. WithSupervisor(M, n, by[n], key) = (M \ Own(M, n)) \cup mine(n)
  BY <1>4 DEF WithSupervisor, mine
<1> QED
  BY <1>3, <1>5, <1>6

LEMMA MovedNobody ==
    ASSUME NEW rows, NEW by, NEW key
    PROVE  Moved(rows, by, {}, key) = rows
  BY DEF Moved

\* What each allowed change of N+1 preserves, the moves of a page preserve.
LEMMA MovesPreserve ==
    ASSUME NEW Good \in SUBSET (SUBSET Line), \A rows \in Good : OnePrimary(rows),
           lines \in Good, NextKey \in Int,
           \A rows \in Good : \A e, r \in People :
               SupervisorAllowed(rows, primary, e, r)
                 => WithSupervisor(rows, e, r, NextKey) \in Good,
           NEW s, NEW D \in SUBSET People, NEW by \in [D -> People], MovesAllowed(s, by)
    PROVE  Moved(lines, by, D, NextKey) \in Good
<1> DEFINE key == NextKey
           joining(n) == {d \in D : by[d] = s /\ d < n}
           first(n) == {d \in D : by[d] = s \/ d < n}
           after(E) == Moved(lines, by, E, key)
<1>1. PICK top \in Nat : \A p \in People : p < top
  BY PeopleBounded
<1>2. \A e \in D : SupervisorAllowed(after(Before(s, by, e)), primary, e, by[e])
  BY DEF MovesAllowed
<1>3. ASSUME NEW E \in SUBSET D, NEW e \in D \ E, E = Before(s, by, e), after(E) \in Good
      PROVE  after(E \cup {e}) \in Good
  <2>1. after(E \cup {e}) = WithSupervisor(after(E), e, by[e], key)
    BY MovedOne
  <2>2. SupervisorAllowed(after(E), primary, e, by[e])
    BY <1>2, <1>3
  <2> HIDE DEF after, key
  <2>3. by[e] \in People /\ e \in People
    OBVIOUS
  <2> QED
    BY <1>3, <2>1, <2>2, <2>3 DEF key
<1>4. D \subseteq Nat
  BY HierarchyAssumption
<1>5. \A n \in Nat : after(joining(n)) \in Good
  <2> DEFINE bad == {n \in Nat : after(joining(n)) \notin Good}
  <2> SUFFICES ASSUME bad # {} PROVE FALSE
    OBVIOUS
  <2>1. PICK k \in bad : \A j \in bad : k <= j
    <3>1. bad \in SUBSET Nat
      OBVIOUS
    <3> HIDE DEF bad
    <3> QED
      BY <3>1, Least
  <2>2. k # 0
    <3>3. \A d \in D : ~ (d < 0)
      BY <1>4
    <3>1. joining(0) = {}
      BY <3>3
    <3>2. after({}) = lines
      BY MovedNobody
    <3> QED
      BY <2>1, <3>1, <3>2
  <2>3. PICK j \in Nat : k = j + 1
    <3>1. k \in Nat /\ k - 1 \in Nat /\ k = (k - 1) + 1
      BY <2>2
    <3> QED
      BY <3>1
  <2>4. after(joining(j)) \in Good
    BY <2>1, <2>3
  <2>7. \A d \in D : /\ d < k <=> (d < j \/ d = j)
                    /\ ~ (j < j)
    BY <1>4, <2>3
  <2>5. CASE j \in D /\ by[j] = s
    <3>1. joining(k) = joining(j) \cup {j} /\ j \notin joining(j)
      BY <2>5, <2>7
    <3>2. joining(j) = Before(s, by, j)
      BY <1>4, <2>5 DEF Before
    <3> HIDE DEF joining, after
    <3>3. joining(j) \in SUBSET D
      BY DEF joining
    <3> QED
      BY <1>3, <2>1, <2>4, <2>5, <3>1, <3>2, <3>3
  <2>6. CASE ~ (j \in D /\ by[j] = s)
    <3>1. joining(k) = joining(j)
      BY <2>6, <2>7
    <3> QED
      BY <2>1, <2>4, <3>1
  <2> QED
    BY <2>5, <2>6
<1>6. \A n \in Nat : after(first(n)) \in Good
  <2> DEFINE bad == {n \in Nat : after(first(n)) \notin Good}
  <2> SUFFICES ASSUME bad # {} PROVE FALSE
    OBVIOUS
  <2>1. PICK k \in bad : \A j \in bad : k <= j
    <3>1. bad \in SUBSET Nat
      OBVIOUS
    <3> HIDE DEF bad
    <3> QED
      BY <3>1, Least
  <2>2. k # 0
    <3>2. \A d \in D : ~ (d < 0) /\ d < top
      BY <1>1, <1>4
    <3>1. first(0) = joining(top)
      BY <3>2
    <3> QED
      BY <1>5, <2>1, <3>1
  <2>3. PICK j \in Nat : k = j + 1
    <3>1. k \in Nat /\ k - 1 \in Nat /\ k = (k - 1) + 1
      BY <2>2
    <3> QED
      BY <3>1
  <2>4. after(first(j)) \in Good
    BY <2>1, <2>3
  <2>7. \A d \in D : /\ d < k <=> (d < j \/ d = j)
                    /\ ~ (j < j)
    BY <1>4, <2>3
  <2>5. CASE j \in D /\ by[j] # s
    <3>1. first(k) = first(j) \cup {j} /\ j \notin first(j)
      BY <2>5, <2>7
    <3>2. first(j) = Before(s, by, j)
      BY <1>4, <2>5 DEF Before
    <3> HIDE DEF first, after
    <3>3. first(j) \in SUBSET D
      BY DEF first
    <3> QED
      BY <1>3, <2>1, <2>4, <2>5, <3>1, <3>2, <3>3
  <2>6. CASE ~ (j \in D /\ by[j] # s)
    <3>1. first(k) = first(j)
      BY <2>6, <2>7
    <3> QED
      BY <2>1, <2>4, <3>1
  <2> QED
    BY <2>5, <2>6
<1>7. first(top) = D
  BY <1>1
<1> QED
  BY <1>6, <1>7

-----------------------------------------------------------------------------
(* Organization                                                            *)
(* The inductive invariant *)

Pending(a) == tx[a] # None

\* What a transaction would make of the lines, and of the links now.
After(t, rows, key) ==
    LET w == t.writes IN
    CASE t.kind = "person" ->
            IF w.supervisor = None THEN rows \ NPlus1(rows, w.person)
            ELSE WithSupervisor(rows, w.person, w.supervisor, key)
      [] t.kind = "team" -> Moved(rows, w.by, DOMAIN w.by, key)
      [] t.kind = "line" ->
            IF w.primary THEN WithSupervisor(rows, w.employee, w.supervisor, key)
            ELSE rows \cup {[NewLine(w.employee, w.supervisor, key) EXCEPT !.primary = FALSE]}
      [] OTHER -> rows

LinesAfter(t) == After(t, lines, NextKey)

ParentAfter(t) ==
    LET w == t.writes IN
    CASE t.kind = "unit" -> Reparent(w.unit, w.parent, w.children).up
      [] t.kind = "link" -> [parent EXCEPT ![w.unit] = w.parent]
      [] OTHER -> parent

\* The people whose primary line a transaction writes, and whom it puts
\* above them.
Written(t) ==
    CASE t.kind = "person" -> {t.writes.person}
      [] t.kind = "team" -> DOMAIN t.writes.by
      [] t.kind = "line" -> {t.writes.employee}
      [] OTHER -> {}

TeamEnds(t) == UNION {{e, t.writes.by[e]} : e \in DOMAIN t.writes.by}

\* Keys are given in the order of the changes.
KeysGiven == \A l \in lines : l.key <= edits

\* Nobody is put above himself, and what is written is locked.
Sound(t) ==
    LET w == t.writes IN
    /\ t.kind = "person" => /\ w.person # w.supervisor
                            /\ t.users = {w.person} /\ t.rows = {w.person}
    /\ t.kind = "team" => /\ \A e \in DOMAIN w.by : w.by[e] # e
                          /\ \A e \in TeamEnds(t) : primary[e] # None
                          /\ DOMAIN w.by # {} /\ t.rows = People
    /\ t.kind = "line" => /\ w.employee # w.supervisor
                          /\ w.primary => t.rows = {w.employee}

Decisions == \A a \in Admins : Pending(a) => Sound(tx[a])

OrgTyped == TypeOK /\ KeysGiven /\ Decisions

\* While a team page waits for its commit nobody else holds the rows of the
\* people it is about, and two pages of persons are about two people.
Exclusive ==
    \A a, b \in Admins : a # b /\ Pending(a) /\ Pending(b) =>
        /\ tx[a].kind = "team" => \A e \in TeamEnds(tx[a]) : e \notin tx[b].rows
        /\ tx[a].kind = "person" /\ tx[b].kind = "person" =>
              tx[a].writes.person # tx[b].writes.person

\* What was decided alone is still right...
LoopFree ==
    raced = "nobody" =>
        /\ ~ Loop(UnitEdges(parent), Units) /\ ~ Loop(LineEdges(lines), People)
        /\ \A a \in Admins : Pending(a) /\ tx[a].alone = "nobody" =>
              /\ ~ Loop(UnitEdges(ParentAfter(tx[a])), Units)
              /\ ~ Loop(LineEdges(LinesAfter(tx[a])), People)

\* ... and what the services decided side by side makes no pair.
PairFree ==
    raced # "administration" =>
        /\ ~ Mutual(lines)
        /\ \A a \in Admins : Pending(a) /\ Racing(tx[a]) # "administration" =>
              ~ Mutual(LinesAfter(tx[a]))

\* A row of a team page, and the row with its key now.
StillSame(page, now) ==
    \A k \in page, l \in now : k.employee = l.employee /\ k.key = l.key =>
        /\ k.fresh = l.fresh
        /\ k.primary => l.primary
        /\ l.primary => k.primary \/ k.fresh

TeamPage(a) == form[a] # None /\ form[a].kind = "team"

\* What the token of a team page keeps of the rows.
Traced(rows) == {<<l.employee, l.key, l.supervisor, l.fresh>> : l \in rows}

Pages ==
    \A a \in Admins : TeamPage(a) =>
        /\ Rows(form[a].shown) /\ form[a].token[3] = Traced(form[a].shown)
        /\ \A k \in form[a].shown : k.key <= edits
        /\ StillSame(form[a].shown, lines)

\* The N+1 of somebody is the one displayed, or one promoted today.
AsShown(page, e) ==
    \/ NPlus1(lines, e) = NPlus1(page, e)
    \/ \E l \in NPlus1(lines, e) : l.fresh /\ [l EXCEPT !.primary = FALSE] \in page

TeamsSeen ==
    \A a \in Admins : Pending(a) /\ tx[a].kind = "team" =>
        TeamPage(a) /\ \A e \in DOMAIN tx[a].writes.by : AsShown(form[a].shown, e)

OrgInv ==
    /\ OrgTyped /\ Exclusive
    /\ LoopFree /\ PairFree /\ Pages /\ TeamsSeen
-----------------------------------------------------------------------------
(* What a transaction makes of the rows                                    *)

\* A row after a change comes from the row with its key, if it is not new.
ComesFrom(l, rows) ==
    \E k \in rows : /\ k.employee = l.employee /\ k.key = l.key /\ k.fresh = l.fresh
                    /\ k.primary => l.primary
                    /\ l.primary => k.primary \/ k.fresh

LEMMA MineRows ==
    ASSUME NEW rows, Rows(rows), NEW key \in Int, \A l \in rows : l.key < key,
           NEW e \in People, NEW s \in People, e # s,
           NEW mine, mine = Rewritten(Own(rows, e), e, s, key)
    PROVE  /\ Rows(mine)
           /\ \A l \in mine : l.employee = e /\ l.key <= key
           /\ \A l \in mine : l.key # key => ComesFrom(l, rows)
           /\ \A l \in mine : (l \in rows /\ ~ l.primary) \/ l.supervisor = s
           /\ \E l \in mine : l.primary /\ l.supervisor = s
           /\ \A l \in rows : l.employee = e /\ ~ l.primary /\ l.supervisor # s => l \in mine
<1> DEFINE own == Own(rows, e)
<1>0. \A l \in rows : l.employee = e => l \in own
  BY DEF Own
<1>1. /\ own \subseteq rows /\ own \in SUBSET Line
      /\ \A l \in own : l.employee = e /\ l.key < key
      /\ \A k, l \in own : k.primary /\ l.primary => k = l
      /\ \A l \in own : l.employee # l.supervisor
      /\ \A k, l \in own : k.employee = l.employee /\ (k.key = l.key \/ (k.primary /\ l.primary)) => k = l
  BY DEF Own, Rows
<1>2. Rows(own)
  BY <1>1 DEF Rows
<1>3. mine = Rewritten(own, e, s, key)
  OBVIOUS
<1> HIDE DEF own
<1>4. /\ Rows(mine)
      /\ \A l \in mine : l.employee = e /\ l.key <= key
      /\ \A l \in mine : l.key # key =>
            \E k \in own : /\ k.key = l.key /\ k.fresh = l.fresh
                           /\ k.primary => l.primary
                           /\ l.primary => k.primary \/ k.fresh
  BY <1>1, <1>2, <1>3, RewrittenRows
<1>5. /\ \A l \in mine : (l \in own /\ (l.primary => Kept(own, s))) \/ l.supervisor = s
      /\ \E l \in mine : l.primary /\ l.supervisor = s
      /\ \A k, l \in mine : k.primary /\ l.primary => k = l
      /\ \A l \in own : ~ l.primary /\ l.supervisor # s => l \in mine
  BY <1>1, <1>3, RewrittenPoints
<1>6. \A l \in mine : l.key # key => ComesFrom(l, rows)
  BY <1>1, <1>4 DEF ComesFrom
<1> QED
  BY <1>0, <1>1, <1>4, <1>5, <1>6

LEMMA MovedRows ==
    ASSUME NEW rows, Rows(rows), NEW key \in Int, \A l \in rows : l.key < key,
           NEW D \in SUBSET People, NEW by \in [D -> People], \A e \in D : by[e] # e,
           NEW new, new = Moved(rows, by, D, key)
    PROVE  /\ Rows(new)
           /\ \A l \in new : l.key <= key
           /\ \A l \in new : l.key # key => ComesFrom(l, rows)
           /\ \A l \in new : \/ l \in rows /\ (l.employee \in D => ~ l.primary)
                             \/ l.employee \in D /\ l.supervisor = by[l.employee]
           /\ \A l \in rows : l.employee \notin D => l \in new
           /\ \A e \in D : \E l \in new : l.employee = e /\ l.primary /\ l.supervisor = by[e]
           /\ \A l \in rows : ~ l.primary =>
                 \E k \in new : k.employee = l.employee /\ k.supervisor = l.supervisor
<1> DEFINE mine(e) == Rewritten(Own(rows, e), e, by[e], key)
<1>1. \A e \in D : /\ Rows(mine(e))
                   /\ \A l \in mine(e) : l.employee = e /\ l.key <= key
                   /\ \A l \in mine(e) : l.key # key => ComesFrom(l, rows)
                   /\ \A l \in mine(e) : (l \in rows /\ ~ l.primary) \/ l.supervisor = by[e]
                   /\ \E l \in mine(e) : l.primary /\ l.supervisor = by[e]
                   /\ \A l \in rows : l.employee = e /\ ~ l.primary /\ l.supervisor # by[e]
                                      => l \in mine(e)
  <2> SUFFICES ASSUME NEW e \in D
               PROVE  /\ Rows(mine(e))
                      /\ \A l \in mine(e) : l.employee = e /\ l.key <= key
                      /\ \A l \in mine(e) : l.key # key => ComesFrom(l, rows)
                      /\ \A l \in mine(e) : (l \in rows /\ ~ l.primary) \/ l.supervisor = by[e]
                      /\ \E l \in mine(e) : l.primary /\ l.supervisor = by[e]
                      /\ \A l \in rows : l.employee = e /\ ~ l.primary /\ l.supervisor # by[e]
                                         => l \in mine(e)
    OBVIOUS
  <2> DEFINE s == by[e]
             m == mine(e)
  <2>1. s \in People /\ e # s /\ e \in People
    OBVIOUS
  <2>2. m = Rewritten(Own(rows, e), e, s, key)
    OBVIOUS
  <2> HIDE DEF s, m, mine
  <2>3. /\ Rows(m)
        /\ \A l \in m : l.employee = e /\ l.key <= key
        /\ \A l \in m : l.key # key => ComesFrom(l, rows)
        /\ \A l \in m : (l \in rows /\ ~ l.primary) \/ l.supervisor = s
        /\ \E l \in m : l.primary /\ l.supervisor = s
        /\ \A l \in rows : l.employee = e /\ ~ l.primary /\ l.supervisor # s => l \in m
    BY <2>1, <2>2, MineRows
  <2> QED
    BY <2>3 DEF m, s
<1>2. new = {l \in rows : l.employee \notin D} \cup UNION {mine(e) : e \in D}
  BY DEF Moved
<1>3. rows \subseteq Line
  BY DEF Rows
<1> HIDE DEF mine
<1>4. \A l \in new : \/ l \in rows /\ l.employee \notin D
                     \/ l.employee \in D /\ l \in mine(l.employee)
  BY <1>1, <1>2
<1>5. Rows(new)
  <2>1. ASSUME NEW l \in new PROVE l \in Line /\ l.employee # l.supervisor
    <3>1. CASE l \in rows
      BY <3>1 DEF Rows
    <3>2. CASE l.employee \in D /\ l \in mine(l.employee)
      <4>1. Rows(mine(l.employee))
        BY <1>1, <3>2
      <4> QED
        BY <3>2, <4>1 DEF Rows
    <3> QED
      BY <1>4, <3>1, <3>2
  <2>2. ASSUME NEW k \in new, NEW l \in new, k.employee = l.employee,
               k.key = l.key \/ (k.primary /\ l.primary)
        PROVE  k = l
    <3>1. CASE k.employee \notin D
      BY <1>4, <2>2, <3>1 DEF Rows
    <3>2. CASE k.employee \in D
      <4>1. k \in mine(k.employee) /\ l \in mine(k.employee) /\ Rows(mine(k.employee))
        BY <1>1, <1>4, <2>2, <3>2
      <4> QED
        BY <2>2, <4>1 DEF Rows
    <3> QED
      BY <3>1, <3>2
  <2> QED
    BY <2>1, <2>2 DEF Rows
<1>6. ASSUME NEW l \in new
      PROVE  /\ l.key <= key
             /\ l.key # key => ComesFrom(l, rows)
             /\ \/ l \in rows /\ (l.employee \in D => ~ l.primary)
                \/ l.employee \in D /\ l.supervisor = by[l.employee]
  <2>1. CASE l \in rows /\ l.employee \notin D
    <3>1. l.key <= key
      BY <1>3, <2>1 DEF Line
    <3>2. ComesFrom(l, rows)
      BY <2>1 DEF ComesFrom
    <3> QED
      BY <2>1, <3>1, <3>2
  <2>2. CASE l.employee \in D /\ l \in mine(l.employee)
    BY <1>1, <2>2
  <2> QED
    BY <1>4, <2>1, <2>2
<1>7. \A l \in rows : l.employee \notin D => l \in new
  BY <1>2
<1>8. \A e \in D : \E l \in new : l.employee = e /\ l.primary /\ l.supervisor = by[e]
  BY <1>1, <1>2
<1>9. ASSUME NEW l \in rows, ~ l.primary
      PROVE  \E k \in new : k.employee = l.employee /\ k.supervisor = l.supervisor
  <2>1. CASE l.employee \notin D
    BY <1>7, <2>1
  <2>2. CASE l.employee \in D /\ l.supervisor = by[l.employee]
    BY <1>8, <2>2
  <2>3. CASE l.employee \in D /\ l.supervisor # by[l.employee]
    BY <1>1, <1>2, <1>9, <2>3
  <2> QED
    BY <2>1, <2>2, <2>3
<1> QED
  BY <1>5, <1>6, <1>7, <1>8, <1>9

\* A change of one N+1 is a move of one person.
LEMMA OneMove ==
    ASSUME NEW rows, NEW e, NEW s, NEW key
    PROVE  WithSupervisor(rows, e, s, key) = Moved(rows, [d \in {e} |-> s], {e}, key)
<1>1. rows \ Own(rows, e) = {l \in rows : l.employee \notin {e}}
  BY DEF Own
<1>2. (UNION {Rewritten(Own(rows, d), d, [c \in {e} |-> s][d], key) : d \in {e}})
        = Rewritten(Own(rows, e), e, s, key)
  OBVIOUS
<1> QED
  BY <1>1, <1>2 DEF WithSupervisor, Moved
\* Nobody is put above himself.
Upright(t) ==
    LET w == t.writes IN
    /\ t.kind = "person" => w.person # w.supervisor
    /\ t.kind = "team" => \A e \in DOMAIN w.by : w.by[e] # e
    /\ t.kind = "line" => w.employee # w.supervisor

\* How the rows after a transaction follow from those before.
Follows(new, rows, key, t) ==
    /\ Rows(new)
    /\ \A l \in new : l.key <= key
    /\ \A l \in new : l.key # key => ComesFrom(l, rows)
    /\ \A l \in new : \/ l \in rows
                      \/ l.employee \in Written(t) /\ {l.employee, l.supervisor} \subseteq Pointed(t)
    /\ \A l \in rows : l.employee \notin Written(t) => l \in new

LEMMA FewerFollow ==
    ASSUME NEW rows, Rows(rows), NEW key \in Int, \A l \in rows : l.key < key,
           NEW new, new \subseteq rows, NEW t,
           \A l \in rows : l.employee \notin Written(t) => l \in new
    PROVE  Follows(new, rows, key, t)
<1>1. Rows(new)
  BY DEF Rows
<1>2. \A l \in new : l.key <= key
  BY DEF Rows, Line
<1>3. \A l \in new : ComesFrom(l, rows)
  BY DEF ComesFrom
<1> QED
  BY <1>1, <1>2, <1>3 DEF Follows

LEMMA MovedFollow ==
    ASSUME NEW rows, Rows(rows), NEW key \in Int, \A l \in rows : l.key < key,
           NEW D \in SUBSET People, NEW by \in [D -> People], \A e \in D : by[e] # e,
           NEW new, new = Moved(rows, by, D, key), NEW t, Written(t) = D,
           \A e \in D : {e, by[e]} \subseteq Pointed(t)
    PROVE  Follows(new, rows, key, t)
<1>1. /\ Rows(new)
      /\ \A l \in new : l.key <= key
      /\ \A l \in new : l.key # key => ComesFrom(l, rows)
      /\ \A l \in new : \/ l \in rows /\ (l.employee \in D => ~ l.primary)
                        \/ l.employee \in D /\ l.supervisor = by[l.employee]
      /\ \A l \in rows : l.employee \notin D => l \in new
  BY MovedRows
<1> QED
  BY <1>1 DEF Follows

LEMMA SupervisorFollows ==
    ASSUME NEW rows, Rows(rows), NEW key \in Int, \A l \in rows : l.key < key,
           NEW e \in People, NEW s \in People, e # s,
           NEW new, new = WithSupervisor(rows, e, s, key), NEW t, Written(t) = {e},
           {e, s} \subseteq Pointed(t)
    PROVE  Follows(new, rows, key, t)
<1> DEFINE by == [d \in {e} |-> s]
           D == {e}
<1>1. /\ D \in SUBSET People /\ by \in [D -> People] /\ \A d \in D : by[d] # d
      /\ \A d \in D : {d, by[d]} \subseteq Pointed(t)
      /\ Written(t) = D
  OBVIOUS
<1>2. new = Moved(rows, by, D, key)
  BY OneMove
<1> HIDE DEF by, D
<1> QED
  BY <1>1, <1>2, MovedFollow

LEMMA AfterFollows ==
    ASSUME NEW t \in Transaction, Upright(t),
           NEW rows, Rows(rows), NEW key \in Int, \A l \in rows : l.key < key,
           NEW new, new = After(t, rows, key)
    PROVE  Follows(new, rows, key, t)
<1> DEFINE w == t.writes
<1>1. CASE t \in Decided("person", PersonWrites)
  <2>1. /\ t.kind = "person" /\ w.person \in People /\ w.supervisor \in People \cup {None}
        /\ Written(t) = {w.person} /\ Pointed(t) = {w.person, w.supervisor}
        /\ w.person # w.supervisor
    BY <1>1 DEF Decided, PersonWrites, Written, Pointed, Upright
  <2>2. CASE w.supervisor = None
    <3>1. new = rows \ NPlus1(rows, w.person)
      BY <2>1, <2>2 DEF After
    <3>2. \A l \in rows : l.employee \notin Written(t) => l \in new
      BY <2>1, <3>1 DEF NPlus1
    <3> QED
      BY <3>1, <3>2, FewerFollow
  <2>3. CASE w.supervisor # None
    <3>1. new = WithSupervisor(rows, w.person, w.supervisor, key)
      BY <2>1, <2>3 DEF After
    <3> DEFINE e == w.person
               s == w.supervisor
    <3>2. e \in People /\ s \in People /\ e # s /\ Written(t) = {e} /\ {e, s} \subseteq Pointed(t)
          /\ new = WithSupervisor(rows, e, s, key)
      BY <2>1, <2>3, <3>1
    <3> HIDE DEF e, s
    <3> QED
      BY <3>2, SupervisorFollows
  <2> QED
    BY <2>2, <2>3
<1>2. CASE t \in Decided("team", TeamWrites)
  <2>1. t.kind = "team" /\ w.by \in UNION {[D -> People] : D \in SUBSET People}
    BY <1>2 DEF Decided, TeamWrites
  <2>2. PICK D \in SUBSET People : w.by \in [D -> People]
    BY <2>1
  <2> DEFINE by == w.by
  <2>3. /\ D \in SUBSET People /\ by \in [D -> People] /\ DOMAIN by = D
        /\ \A e \in D : by[e] # e
        /\ Written(t) = D
        /\ new = Moved(rows, by, D, key)
        /\ \A e \in D : {e, by[e]} \subseteq Pointed(t)
    BY <2>1, <2>2 DEF Upright, Written, After, Pointed
  <2> HIDE DEF by
  <2> QED
    BY <2>3, MovedFollow
<1>3. CASE t \in Decided("line", LineWrites)
  <2> DEFINE e == w.employee
             s == w.supervisor
  <2>1. /\ t.kind = "line" /\ e \in People /\ s \in People /\ e # s /\ w.primary \in BOOLEAN
        /\ Written(t) = {e} /\ Pointed(t) = {e, s}
    BY <1>3 DEF Decided, LineWrites, Written, Pointed, Upright
  <2>2. CASE w.primary
    <3>1. new = WithSupervisor(rows, e, s, key)
      BY <2>1, <2>2 DEF After
    <3> HIDE DEF e, s
    <3> QED
      BY <2>1, <3>1, SupervisorFollows
  <2>3. CASE ~ w.primary
    <3> DEFINE n == [NewLine(e, s, key) EXCEPT !.primary = FALSE]
    <3>1. new = rows \cup {n}
      BY <2>1, <2>3 DEF After
    <3>2. /\ n \in Line /\ n.employee = e /\ n.supervisor = s /\ ~ n.primary /\ n.fresh
          /\ n.key = key
      BY <2>1 DEF NewLine, Line
    <3> HIDE DEF e, s, n
    <3>3. \A l \in rows : l.key # key /\ l.key <= key
      BY DEF Rows, Line
    <3>4. Rows(new)
      BY <2>1, <3>1, <3>2, <3>3 DEF Rows
    <3>5. \A l \in new : l.key # key => ComesFrom(l, rows)
      BY <3>1, <3>2 DEF ComesFrom
    <3> QED
      BY <2>1, <3>1, <3>2, <3>3, <3>4, <3>5 DEF Follows
  <2> QED
    BY <2>2, <2>3
<1>4. CASE t \in Decided("unit", UnitWrites) \cup Decided("link", LinkWrites)
  <2>1. t.kind \in {"unit", "link"}
    BY <1>4 DEF Decided
  <2>2. new = rows
    BY <2>1 DEF After
  <2> QED
    BY <2>2, FewerFollow
<1> QED
  BY <1>1, <1>2, <1>3, <1>4 DEF Transaction
-----------------------------------------------------------------------------
(* The types, the keys and what is decided                                 *)

LEMMA OrgInitial == Init => OrgTyped
<1> SUFFICES ASSUME Init PROVE OrgTyped
  OBVIOUS
<1>1. PICK c \in Charts : parent = c.parent /\ primary = c.primary
                          /\ lines = c.lines /\ grants = c.grants
  BY DEF Init
<1>2. /\ parent \in [Units -> Units \cup {None}] /\ primary \in [People -> Units \cup {None}]
      /\ Rows(lines) /\ \A l \in lines : l.key <= 0
      /\ grants \subseteq Grant
  BY <1>1, ChartsAssumption
<1>3. HierarchyTypeOK
  BY <1>2 DEF Init, HierarchyTypeOK
<1>4. TypeOK
  BY <1>3 DEF Init, TypeOK, Racers
<1>5. KeysGiven /\ Decisions
  BY <1>2 DEF Init, KeysGiven, Decisions, Pending
<1> QED
  BY <1>4, <1>5 DEF OrgTyped

LEMMA AloneChanges ==
    ASSUME NEW t \in Transaction, NEW x \in Racers,
           NEW u, u = [t EXCEPT !.alone = x]
    PROVE  /\ u \in Transaction /\ u.alone = x
           /\ u.kind = t.kind /\ u.writes = t.writes /\ u.users = t.users /\ u.rows = t.rows
<1> DEFINE Good(W, kind) ==
        t \in Decided(kind, W) => /\ u \in Decided(kind, W) /\ u.alone = x
                                  /\ u.kind = t.kind /\ u.writes = t.writes
                                  /\ u.users = t.users /\ u.rows = t.rows
<1>1. ASSUME NEW W, NEW kind PROVE Good(W, kind)
  BY DEF Decided
<1>2. Good(PersonWrites, "person") /\ Good(TeamWrites, "team") /\ Good(UnitWrites, "unit")
      /\ Good(LineWrites, "line") /\ Good(LinkWrites, "link")
  BY <1>1
<1> QED
  BY <1>2 DEF Transaction

LEMMA AmongRacers ==
    ASSUME NEW x, NEW y
    PROVE  /\ Among(x, y) \in Racers
           /\ y # "nobody" /\ y \in Racers => Among(x, y) # "nobody"
           /\ Among(x, y) = "nobody" => x \notin {"services", "administration"}
           /\ Among(x, y) # "administration" => x # "administration" /\ y # "administration"
  BY DEF Among, Racers

LEMMA PendingTyped ==
    ASSUME OrgTyped, NEW a \in Admins, Pending(a)
    PROVE  tx[a] \in Transaction /\ Sound(tx[a]) /\ Upright(tx[a])
  BY DEF OrgTyped, TypeOK, Decisions, Pending, Sound, Upright

LEMMA DecideTyped ==
    ASSUME OrgTyped, NEW a \in Admins, NEW t \in Transaction, Sound(t),
           tx' = [tx EXCEPT ![a] = t], UNCHANGED <<orgVars, form, edits, raced>>
    PROVE  OrgTyped'
<1>1. HierarchyTypeOK' /\ KeysGiven'
  BY DEF OrgTyped, TypeOK, HierarchyTypeOK, KeysGiven, orgVars
<1>2. TypeOK'
  BY <1>1 DEF OrgTyped, TypeOK
<1>3. Decisions'
  <2>1. primary' = primary
    BY DEF orgVars
  <2> SUFFICES ASSUME NEW b \in Admins, Pending(b)' PROVE Sound(tx[b])'
    BY DEF Decisions
  <2>2. CASE b = a
    BY <2>1, <2>2 DEF Sound, TeamEnds, OrgTyped, TypeOK
  <2>3. CASE b # a
    BY <2>1, <2>3 DEF Sound, TeamEnds, OrgTyped, TypeOK, Decisions, Pending
  <2> QED
    BY <2>2, <2>3
<1> QED
  BY <1>1, <1>2, <1>3 DEF OrgTyped

\* No membership is lost, no row is new: only the pages and the rest change.
LEMMA QuietTyped ==
    ASSUME OrgTyped, HierarchyTypeOK', KeysGiven',
           \A e \in People : primary[e] # None => primary'[e] # None,
           edits' \in Nat, raced' \in Racers,
           DOMAIN tx' = Admins,
           \A b \in Admins : \/ tx'[b] = None
                             \/ tx'[b] = tx[b]
                             \/ /\ tx[b] # None
                                /\ \E x \in Racers : tx'[b] = [tx[b] EXCEPT !.alone = x],
           tx' = [b \in Admins |-> tx'[b]],
           form' = form \/ \E b \in Admins : form' = [form EXCEPT ![b] = None]
    PROVE  OrgTyped'
<1>1. \A b \in Admins : \/ tx'[b] = None
                        \/ /\ tx[b] # None
                           /\ tx'[b] \in Transaction
                           /\ tx'[b].kind = tx[b].kind /\ tx'[b].writes = tx[b].writes
                           /\ tx'[b].users = tx[b].users /\ tx'[b].rows = tx[b].rows
  <2> SUFFICES ASSUME NEW b \in Admins, tx'[b] # None
               PROVE  /\ tx[b] # None
                      /\ tx'[b] \in Transaction
                      /\ tx'[b].kind = tx[b].kind /\ tx'[b].writes = tx[b].writes
                      /\ tx'[b].users = tx[b].users /\ tx'[b].rows = tx[b].rows
    OBVIOUS
  <2>1. tx[b] # None => tx[b] \in Transaction
    BY DEF OrgTyped, TypeOK
  <2>2. CASE tx'[b] = tx[b]
    BY <2>1, <2>2
  <2>3. CASE tx[b] # None /\ \E x \in Racers : tx'[b] = [tx[b] EXCEPT !.alone = x]
    BY <2>1, <2>3, AloneChanges
  <2> QED
    BY <2>2, <2>3
<1>2. TypeOK'
  <2>1. tx' \in [Admins -> Transaction \cup {None}]
    BY <1>1
  <2>2. /\ DOMAIN form' = Admins
        /\ \A a \in Admins : form'[a] # None =>
              /\ form'[a].kind \in {"person", "team", "unit"}
              /\ form'[a].target \in (IF form'[a].kind = "unit" THEN Units ELSE People)
              /\ form'[a].shown \subseteq Line
    BY DEF OrgTyped, TypeOK
  <2> QED
    BY <2>1, <2>2 DEF TypeOK
<1>3. Decisions'
  <2> SUFFICES ASSUME NEW b \in Admins, Pending(b)' PROVE Sound(tx[b])'
    BY DEF Decisions
  <2>1. /\ Pending(b) /\ tx[b] \in Transaction /\ Sound(tx[b])
        /\ tx'[b].kind = tx[b].kind /\ tx'[b].writes = tx[b].writes
        /\ tx'[b].users = tx[b].users /\ tx'[b].rows = tx[b].rows
    BY <1>1, PendingTyped DEF Pending
  <2>2. TeamEnds(tx[b])' = TeamEnds(tx[b])
    BY <2>1 DEF TeamEnds
  <2>3. tx[b].kind = "team" => TeamEnds(tx[b]) \subseteq People
    <3> SUFFICES ASSUME tx[b].kind = "team" PROVE TeamEnds(tx[b]) \subseteq People
      OBVIOUS
    <3>1. tx[b] \in Decided("team", TeamWrites)
      BY <2>1 DEF Transaction, Decided
    <3>2. tx[b].writes.by \in UNION {[D -> People] : D \in SUBSET People}
      BY <3>1 DEF Decided, TeamWrites
    <3> QED
      BY <3>2 DEF TeamEnds
  <2> QED
    BY <2>1, <2>2, <2>3 DEF Sound
<1> QED
  BY <1>2, <1>3 DEF OrgTyped
LEMMA OpenPageTyped ==
    ASSUME OrgTyped, NEW a \in Admins, NEW kind \in {"person", "team", "unit"},
           NEW target \in (IF kind = "unit" THEN Units ELSE People), OpenPage(a, kind, target)
    PROVE  OrgTyped'
<1>1. HierarchyTypeOK' /\ KeysGiven' /\ Decisions'
  BY DEF OpenPage, OrgTyped, TypeOK, HierarchyTypeOK, KeysGiven, orgVars,
         Decisions, Pending, Sound, TeamEnds
<1> DEFINE page == [kind |-> kind, target |-> target, token |-> Token(kind, target),
                    shown |-> IF kind = "team" THEN lines ELSE {}]
<1>2. lines \subseteq Line
  BY DEF OrgTyped, TypeOK, HierarchyTypeOK, Rows
<1>3. page.kind = kind /\ page.target = target /\ page.shown \subseteq Line
  BY <1>2
<1>4. form' = [form EXCEPT ![a] = page] /\ UNCHANGED <<tx, edits, raced>>
  BY DEF OpenPage
<1> HIDE DEF page
<1>5. DOMAIN form = Admins
  BY DEF OrgTyped, TypeOK
<1>6. DOMAIN form' = Admins
  BY <1>4, <1>5
<1>7. ASSUME NEW b \in Admins, form'[b] # None
      PROVE  /\ form'[b].kind \in {"person", "team", "unit"}
             /\ form'[b].target \in (IF form'[b].kind = "unit" THEN Units ELSE People)
             /\ form'[b].shown \subseteq Line
  <2>1. CASE b = a
    <3>1. form'[b] = page
      BY <1>4, <1>5, <2>1
    <3> QED
      BY <1>3, <3>1
  <2>2. CASE b # a
    <3>1. form'[b] = form[b]
      BY <1>4, <1>5, <2>2
    <3> QED
      BY <1>7, <3>1 DEF OrgTyped, TypeOK
  <2> QED
    BY <2>1, <2>2
<1>8. TypeOK'
  <2>1. edits' \in Nat /\ raced' \in Racers /\ tx' \in [Admins -> Transaction \cup {None}]
    BY <1>4 DEF OrgTyped, TypeOK
  <2> QED
    BY <1>1, <1>6, <1>7, <2>1 DEF TypeOK
<1> QED
  BY <1>1, <1>8 DEF OrgTyped

\* What a decision leaves to its commit.
Starts(a, t) ==
    /\ tx[a] = None /\ t \in Transaction /\ Sound(t) /\ t.alone = "nobody"
    /\ tx' = [tx EXCEPT ![a] = t] /\ UNCHANGED <<orgVars, form, edits, raced>>

LEMMA PersonDecides ==
    ASSUME OrgTyped, NEW a \in Admins, PostPerson(a)
    PROVE  \E t : /\ Starts(a, t) /\ t.kind = "person" /\ t.writes.person \in People
                  /\ t.writes.supervisor \in People \cup {None}
                  /\ ~ UserLocked(t.writes.person) /\ ~ RowsLocked(t.writes.person)
                  /\ t.writes.supervisor # None =>
                        \E members : SupervisorAllowed(lines, members, t.writes.person,
                                                       t.writes.supervisor)
<1> DEFINE p == form[a].target
           members(sel) == IF sel.main = None THEN primary
                           ELSE [primary EXCEPT ![p] = sel.main]
           w(sel, s) == [person |-> p, selection |-> sel, supervisor |-> s,
                         rows |-> OpenRows(p)]
<1>1. p \in People /\ tx[a] = None
  BY DEF PostPerson, Posts, OrgTyped, TypeOK
<1>2. PICK sel \in Selections, s \in People \cup {None} :
         /\ ~ UserLocked(p) /\ ~ RowsLocked(p)
         /\ s # None => SupervisorAllowed(lines, members(sel), p, s)
         /\ Decide(a, "person", {p}, {p}, w(sel, s))
  BY DEF PostPerson, LockedAccount
<1> DEFINE t == [kind |-> "person", users |-> {p}, rows |-> {p},
                 writes |-> w(sel, s), alone |-> "nobody"]
<1>3. OpenRows(p) \in BOOLEAN
  BY DEF OpenRows
<1>4. w(sel, s) \in PersonWrites
  BY <1>1, <1>2, <1>3 DEF PersonWrites
<1>5. w(sel, s).person = p /\ w(sel, s).supervisor = s
  OBVIOUS
<1>6. tx' = [tx EXCEPT ![a] = t] /\ UNCHANGED <<orgVars, form, edits, raced>>
  BY <1>2 DEF Decide
<1> HIDE DEF w, p, members
<1>7. t \in Transaction /\ t.alone = "nobody" /\ t.kind = "person"
      /\ t.writes = w(sel, s) /\ t.users = {p} /\ t.rows = {p}
  BY <1>1, <1>4 DEF Transaction, Decided, Racers
<1> HIDE DEF t
<1>8. p # s
  <2>1. s = None => p # s
    BY <1>1, NoneIsNothing
  <2> QED
    BY <1>2, <2>1 DEF SupervisorAllowed
<1>9. Sound(t)
  BY <1>5, <1>7, <1>8 DEF Sound
<1>10. Starts(a, t)
  BY <1>1, <1>6, <1>7, <1>9 DEF Starts
<1> QED
  BY <1>1, <1>2, <1>5, <1>7, <1>10

LEMMA TeamDecides ==
    ASSUME OrgTyped, NEW a \in Admins, PostTeam(a)
    PROVE  \E t : /\ Starts(a, t) /\ t.kind = "team"
                  /\ Posts(a, "team") /\ form[a].target \in People
                  /\ \A p \in People : ~ RowsLocked(p)
                  /\ MovesAllowed(form[a].target, t.writes.by)
                  /\ \A e \in DOMAIN t.writes.by : t.writes.by[e] # form[a].target =>
                        e \in Team(lines, form[a].target)
<1> DEFINE s == form[a].target
           current == Team(lines, s) \ inactive
           moves(chosen, to) ==
               [e \in (chosen \ current) \cup (current \ chosen) |->
                   IF e \in chosen THEN s ELSE to[e]]
           w(by) == [supervisor |-> s, by |-> by]
<1>1. s \in People /\ tx[a] = None /\ Posts(a, "team")
  BY DEF PostTeam, Posts, OrgTyped, TypeOK
<1>0. PICK chosen \in SUBSET (People \ (inactive \cup {s})) :
         \E to \in [current \ chosen -> People \ (inactive \cup {s})] :
             /\ DOMAIN moves(chosen, to) # {}
             /\ MovesAllowed(s, moves(chosen, to))
             /\ Decide(a, "team", {s}, People, w(moves(chosen, to)))
  BY DEF PostTeam
<1>2. PICK to \in [current \ chosen -> People \ (inactive \cup {s})] :
             /\ DOMAIN moves(chosen, to) # {}
             /\ MovesAllowed(s, moves(chosen, to))
             /\ Decide(a, "team", {s}, People, w(moves(chosen, to)))
  BY <1>0
<1>3. \A p \in People : ~ RowsLocked(p)
  BY DEF PostTeam
<1> DEFINE by == moves(chosen, to)
           D == (chosen \ current) \cup (current \ chosen)
           t == [kind |-> "team", users |-> {s}, rows |-> People,
                 writes |-> w(by), alone |-> "nobody"]
<1>4. current \subseteq People
  BY DEF Team, OrgTyped, TypeOK, HierarchyTypeOK, Rows, Line
<1>5. D \in SUBSET People /\ by \in [D -> People] /\ DOMAIN by = D /\ D # {}
  BY <1>1, <1>2, <1>4
<1>6. \A e \in D : by[e] # s => e \in Team(lines, s)
  OBVIOUS
<1>7. tx' = [tx EXCEPT ![a] = t] /\ UNCHANGED <<orgVars, form, edits, raced>>
  BY <1>2 DEF Decide
<1>8. MovesAllowed(s, by)
  BY <1>2
<1> HIDE DEF by, D, s
<1>9. by \in UNION {[X -> People] : X \in SUBSET People}
  BY <1>5
<1>10. w(by) \in TeamWrites /\ w(by).by = by
  BY <1>1, <1>9 DEF TeamWrites
<1> HIDE DEF w
<1>11. t \in Transaction /\ t.alone = "nobody" /\ t.kind = "team"
       /\ t.writes = w(by) /\ t.users = {s} /\ t.rows = People
  BY <1>1, <1>10 DEF Transaction, Decided, Racers
<1> HIDE DEF t
<1>12. \A e \in D : /\ primary[e] # None /\ primary[by[e]] # None /\ e # by[e]
  BY <1>5, <1>8 DEF MovesAllowed, SupervisorAllowed, SupervisesUnit
<1>13. \A e \in TeamEnds(t) : primary[e] # None
  BY <1>5, <1>10, <1>11, <1>12 DEF TeamEnds
<1>14. Sound(t)
  BY <1>5, <1>10, <1>11, <1>12, <1>13 DEF Sound
<1>15. Starts(a, t)
  BY <1>1, <1>7, <1>11, <1>14 DEF Starts
<1> QED
  BY <1>1, <1>3, <1>5, <1>6, <1>8, <1>10, <1>11, <1>15 DEF s

LEMMA LineDecides ==
    ASSUME OrgTyped, NEW a \in Admins, PostLine(a)
    PROVE  \E t : /\ Starts(a, t) /\ t.kind = "line"
                  /\ t.writes.employee \in People /\ t.writes.supervisor \in People
                  /\ LineAllowed(lines, t.writes.employee, t.writes.supervisor)
                  /\ t.writes.primary =>
                        /\ primary[t.writes.employee] # None /\ ~ RowsLocked(t.writes.employee)
                        /\ SupervisorAllowed(lines, primary, t.writes.employee,
                                             t.writes.supervisor)
                  /\ ~ t.writes.primary => t.rows = {}
<1> DEFINE w(e, s, main) == [employee |-> e, supervisor |-> s, primary |-> main]
           held(e, main) == IF main THEN {e} ELSE {}
<1>1. PICK e \in People, s \in People, main \in BOOLEAN :
         /\ LineAllowed(lines, e, s)
         /\ main => /\ primary[e] # None /\ ~ RowsLocked(e)
                    /\ SupervisorAllowed(lines, primary, e, s)
         /\ Decide(a, "line", {}, held(e, main), w(e, s, main))
  BY DEF PostLine
<1> DEFINE t == [kind |-> "line", users |-> {}, rows |-> held(e, main),
                 writes |-> w(e, s, main), alone |-> "nobody"]
           rows == held(e, main)
<1>2. tx[a] = None
  BY DEF PostLine
<1>3. tx' = [tx EXCEPT ![a] = t] /\ UNCHANGED <<orgVars, form, edits, raced>>
  BY <1>1 DEF Decide
<1>4. /\ w(e, s, main) \in LineWrites /\ w(e, s, main).employee = e
      /\ w(e, s, main).supervisor = s /\ w(e, s, main).primary = main
  BY <1>1 DEF LineWrites
<1>5. rows \in SUBSET People /\ (main => rows = {e}) /\ (~ main => rows = {})
  BY <1>1
<1> HIDE DEF w, held
<1>6. t \in Transaction /\ t.alone = "nobody" /\ t.kind = "line"
      /\ t.writes = w(e, s, main) /\ t.rows = rows
  BY <1>4, <1>5 DEF Transaction, Decided, Racers
<1> HIDE DEF t, rows
<1>7. Sound(t)
  BY <1>1, <1>4, <1>5, <1>6 DEF Sound, LineAllowed
<1>8. Starts(a, t)
  BY <1>2, <1>3, <1>6, <1>7 DEF Starts
<1> QED
  BY <1>1, <1>4, <1>5, <1>6, <1>8

LEMMA UnitDecides ==
    ASSUME OrgTyped, NEW a \in Admins, PostUnit(a)
    PROVE  \E t : /\ Starts(a, t) /\ t.kind = "unit"
                  /\ t.writes.unit \in Units /\ t.writes.parent \in Units \cup {None}
                  /\ t.writes.children \in SUBSET (Units \ {t.writes.unit})
                  /\ t.writes.parent # t.writes.unit /\ t.writes.parent \notin t.writes.children
                  /\ Reparent(t.writes.unit, t.writes.parent, t.writes.children).ok
                  /\ t.rows = {}
<1> DEFINE u == form[a].target
           w(q, children) == [unit |-> u, parent |-> q, children |-> children]
<1>1. u \in Units /\ tx[a] = None
  BY DEF PostUnit, Posts, OrgTyped, TypeOK
<1>2. PICK q \in Units \cup {None}, children \in SUBSET (Units \ {u}) :
         /\ q # u /\ q \notin children
         /\ Reparent(u, q, children).ok
         /\ Decide(a, "unit", {}, {}, w(q, children))
  BY DEF PostUnit
<1> DEFINE t == [kind |-> "unit", users |-> {}, rows |-> {},
                 writes |-> w(q, children), alone |-> "nobody"]
<1>3. tx' = [tx EXCEPT ![a] = t] /\ UNCHANGED <<orgVars, form, edits, raced>>
  BY <1>2 DEF Decide
<1>4. /\ w(q, children) \in UnitWrites /\ w(q, children).unit = u
      /\ w(q, children).parent = q /\ w(q, children).children = children
  BY <1>1, <1>2 DEF UnitWrites
<1> HIDE DEF w, u
<1>5. t \in Transaction /\ t.alone = "nobody" /\ t.kind = "unit" /\ t.writes = w(q, children)
      /\ t.rows = {}
  BY <1>4 DEF Transaction, Decided, Racers
<1> HIDE DEF t
<1>6. Sound(t)
  BY <1>5 DEF Sound
<1>7. Starts(a, t)
  BY <1>1, <1>3, <1>5, <1>6 DEF Starts
<1> QED
  BY <1>1, <1>2, <1>4, <1>5, <1>7

LEMMA LinkDecides ==
    ASSUME OrgTyped, NEW a \in Admins, PostLink(a)
    PROVE  \E t : /\ Starts(a, t) /\ t.kind = "link"
                  /\ t.writes.unit \in Units /\ t.writes.parent \in Units
                  /\ LinkAllowed(WithoutParent(parent, t.writes.unit), t.writes.parent,
                                 t.writes.unit)
                  /\ t.rows = {}
<1> DEFINE w(q, u) == [unit |-> u, parent |-> q, new |-> parent[u] = None]
<1>1. PICK q \in Units, u \in Units :
         /\ LinkAllowed(WithoutParent(parent, u), q, u)
         /\ Decide(a, "link", {}, {}, w(q, u))
  BY DEF PostLink
<1> DEFINE t == [kind |-> "link", users |-> {}, rows |-> {},
                 writes |-> w(q, u), alone |-> "nobody"]
<1>2. tx[a] = None
  BY DEF PostLink
<1>3. tx' = [tx EXCEPT ![a] = t] /\ UNCHANGED <<orgVars, form, edits, raced>>
  BY <1>1 DEF Decide
<1>4. w(q, u) \in LinkWrites /\ w(q, u).unit = u /\ w(q, u).parent = q
  BY <1>1 DEF LinkWrites
<1> HIDE DEF w
<1>5. t \in Transaction /\ t.alone = "nobody" /\ t.kind = "link" /\ t.writes = w(q, u)
      /\ t.rows = {}
  BY <1>4 DEF Transaction, Decided, Racers
<1> HIDE DEF t
<1>6. Sound(t)
  BY <1>5 DEF Sound
<1>7. Starts(a, t)
  BY <1>2, <1>3, <1>5, <1>6 DEF Starts
<1> QED
  BY <1>1, <1>4, <1>5, <1>7
LEMMA NextKeyIsNew ==
    ASSUME OrgTyped
    PROVE  /\ NextKey \in Int /\ Rows(lines) /\ edits \in Nat
           /\ \A l \in lines : l.key < NextKey /\ l.key \in Int
<1>1. edits \in Nat /\ Rows(lines) /\ \A l \in lines : l.key \in Int /\ l.key <= edits
  BY DEF OrgTyped, TypeOK, HierarchyTypeOK, KeysGiven, Rows, Line
<1> QED
  BY <1>1 DEF NextKey

LEMMA LinesFollow ==
    ASSUME OrgTyped, NEW a \in Admins, Pending(a)
    PROVE  Follows(LinesAfter(tx[a]), lines, NextKey, tx[a])
<1> DEFINE t == tx[a]
           key == NextKey
           new == LinesAfter(t)
<1>1. t \in Transaction /\ Upright(t)
  BY PendingTyped
<1>2. key \in Int /\ Rows(lines) /\ \A l \in lines : l.key < key
  BY NextKeyIsNew
<1>3. new = After(t, lines, key)
  BY DEF LinesAfter
<1> HIDE DEF t, key, new
<1>4. Follows(new, lines, key, t)
  BY <1>1, <1>2, <1>3, AfterFollows
<1> QED
  BY <1>4 DEF t, key, new

\* What a commit does.
LEMMA CommitEffect ==
    ASSUME OrgTyped, NEW a \in Admins, Commit(a)
    PROVE  /\ Pending(a)
           /\ lines' = LinesAfter(tx[a])
           /\ parent' = ParentAfter(tx[a]) /\ parent' \in [Units -> Units \cup {None}]
           /\ primary' \in [People -> Units \cup {None}]
           /\ \A e \in People : primary[e] # None => primary'[e] # None
           /\ secondary' \subseteq People \X Units
           /\ UNCHANGED <<archived, grants, inactive>>
           /\ tx[a].kind \in {"unit", "link"} => lines' = lines
           /\ tx[a].kind \notin {"unit", "link"} => parent' = parent
<1> DEFINE t == tx[a]
           w == t.writes
<1>1. t \in Transaction /\ Pending(a) /\ Apply(t)
  BY PendingTyped DEF Commit, Pending
<1>2. /\ parent \in [Units -> Units \cup {None}] /\ primary \in [People -> Units \cup {None}]
      /\ secondary \subseteq People \X Units
  BY DEF OrgTyped, TypeOK, HierarchyTypeOK
<1> DEFINE Effect ==
      /\ lines' = LinesAfter(t)
      /\ parent' = ParentAfter(t) /\ parent' \in [Units -> Units \cup {None}]
      /\ primary' \in [People -> Units \cup {None}]
      /\ \A e \in People : primary[e] # None => primary'[e] # None
      /\ secondary' \subseteq People \X Units
      /\ UNCHANGED <<archived, grants, inactive>>
      /\ t.kind \in {"unit", "link"} => lines' = lines
      /\ t.kind \notin {"unit", "link"} => parent' = parent
<1> SUFFICES Effect
  BY <1>1
<1>3. CASE t \in Decided("person", PersonWrites)
  <2>1. /\ t.kind = "person" /\ w.person \in People /\ w.selection \in Selections
        /\ CommitPerson(w)
    BY <1>1, <1>3 DEF Decided, PersonWrites, Apply
  <2>2. /\ w.selection.units \subseteq Units
        /\ w.selection.main \in w.selection.units \cup {None}
    BY <2>1, OrganizationAssumption
  <2> DEFINE main == IF w.selection.main = None THEN primary[w.person] ELSE w.selection.main
  <2>3. main \in Units \cup {None} /\ (primary[w.person] # None => main # None)
    BY <1>2, <2>1, <2>2
  <2>4. /\ primary' = [primary EXCEPT ![w.person] = main]
        /\ secondary' = {m \in secondary : m[1] # w.person}
                          \cup ({w.person} \X (w.selection.units \ {main}))
        /\ lines' = LinesAfter(t)
        /\ UNCHANGED <<parent, archived, grants, inactive>>
    BY <2>1 DEF CommitPerson, LinesAfter, After
  <2> HIDE DEF main
  <2>5. secondary' \subseteq People \X Units
    BY <1>2, <2>1, <2>2, <2>4
  <2>6. parent' = ParentAfter(t)
    BY <2>1, <2>4 DEF ParentAfter
  <2>7. /\ primary' \in [People -> Units \cup {None}]
        /\ \A e \in People : primary[e] # None => primary'[e] # None
    BY <1>2, <2>1, <2>3, <2>4
  <2> QED
    BY <1>2, <2>1, <2>4, <2>5, <2>6, <2>7
<1>4. CASE t \in Decided("team", TeamWrites)
  <2>1. t.kind = "team" /\ CommitTeam(w)
    BY <1>1, <1>4 DEF Decided, Apply
  <2>2. /\ lines' = LinesAfter(t)
        /\ UNCHANGED <<parent, archived, primary, secondary, grants, inactive>>
    BY <2>1 DEF CommitTeam, LinesAfter, After
  <2>3. parent' = ParentAfter(t)
    BY <2>1, <2>2 DEF ParentAfter
  <2> QED
    BY <1>2, <2>1, <2>2, <2>3
<1>5. CASE t \in Decided("line", LineWrites)
  <2>1. t.kind = "line" /\ CommitLine(w)
    BY <1>1, <1>5 DEF Decided, Apply
  <2>2. /\ lines' = LinesAfter(t)
        /\ UNCHANGED <<parent, archived, primary, secondary, grants, inactive>>
    BY <2>1 DEF CommitLine, LinesAfter, After
  <2>3. parent' = ParentAfter(t)
    BY <2>1, <2>2 DEF ParentAfter
  <2> QED
    BY <1>2, <2>1, <2>2, <2>3
<1>6. CASE t \in Decided("unit", UnitWrites)
  <2>1. t.kind = "unit" /\ CommitUnit(w) /\ w \in UnitWrites
    BY <1>1, <1>6 DEF Decided, Apply
  <2>2. /\ parent' = ParentAfter(t)
        /\ UNCHANGED <<archived, primary, secondary, lines, grants, inactive>>
    BY <2>1 DEF CommitUnit, ParentAfter
  <2>3. lines' = LinesAfter(t)
    BY <2>1, <2>2 DEF LinesAfter, After
  <2>4. parent' = Reparent(w.unit, w.parent, w.children).up
    BY <2>1 DEF CommitUnit
  <2>5. w.unit \in Units /\ w.parent \in Units \cup {None}
    BY <2>1 DEF UnitWrites
  <2>6. parent' \in [Units -> Units \cup {None}]
    BY <1>2, <2>4, <2>5 DEF Reparent, WithoutParent
  <2> QED
    BY <1>2, <2>1, <2>2, <2>3, <2>6
<1>7. CASE t \in Decided("link", LinkWrites)
  <2>1. t.kind = "link" /\ CommitLink(w) /\ w.unit \in Units /\ w.parent \in Units
    BY <1>1, <1>7 DEF Decided, Apply, LinkWrites
  <2>2. /\ parent' = [parent EXCEPT ![w.unit] = w.parent]
        /\ UNCHANGED <<archived, primary, secondary, lines, grants, inactive>>
    BY <2>1 DEF CommitLink
  <2>3. lines' = LinesAfter(t)
    BY <2>1, <2>2 DEF LinesAfter, After
  <2>4. parent' = ParentAfter(t)
    BY <2>1, <2>2 DEF ParentAfter
  <2>5. parent' \in [Units -> Units \cup {None}]
    BY <1>2, <2>1, <2>2
  <2> QED
    BY <1>2, <2>1, <2>2, <2>3, <2>4, <2>5
<1> HIDE DEF Effect
<1> QED
  BY <1>1, <1>3, <1>4, <1>5, <1>6, <1>7 DEF Transaction

LEMMA CommitTyped ==
    ASSUME OrgTyped, NEW a \in Admins, Commit(a)
    PROVE  OrgTyped'
<1>1. /\ Pending(a)
      /\ lines' = LinesAfter(tx[a])
      /\ parent' \in [Units -> Units \cup {None}]
      /\ primary' \in [People -> Units \cup {None}]
      /\ \A e \in People : primary[e] # None => primary'[e] # None
      /\ secondary' \subseteq People \X Units
      /\ UNCHANGED <<archived, grants, inactive>>
  BY CommitEffect
<1>2. Rows(lines') /\ \A l \in lines' : l.key <= NextKey
  BY <1>1, LinesFollow DEF Follows
<1>3. edits' = NextKey /\ edits' \in Nat
  BY NextKeyIsNew DEF Commit, NextKey
<1>4. HierarchyTypeOK' /\ KeysGiven'
  BY <1>1, <1>2, <1>3 DEF HierarchyTypeOK, KeysGiven, OrgTyped, TypeOK
<1>5. raced' \in Racers
  BY AmongRacers DEF Commit
<1>6. /\ DOMAIN tx' = Admins
      /\ tx' = [b \in Admins |-> tx'[b]]
      /\ \A b \in Admins : tx'[b] = IF b = a \/ tx[b] = None THEN None
                                    ELSE [tx[b] EXCEPT !.alone = Among(tx[b].alone, Writer(tx[a].kind))]
  BY DEF Commit
<1>7. ASSUME NEW b \in Admins
      PROVE  \/ tx'[b] = None
             \/ tx'[b] = tx[b]
             \/ tx[b] # None /\ \E x \in Racers : tx'[b] = [tx[b] EXCEPT !.alone = x]
  BY <1>6, AmongRacers
<1>8. \E b \in Admins : form' = [form EXCEPT ![b] = None]
  BY DEF Commit
<1> QED
  BY <1>1, <1>3, <1>4, <1>5, <1>6, <1>7, <1>8, QuietTyped

LEMMA AbortTyped ==
    ASSUME OrgTyped, NEW a \in Admins, Abort(a)
    PROVE  OrgTyped'
<1>1. /\ tx' = [tx EXCEPT ![a] = None] /\ form' = [form EXCEPT ![a] = None]
      /\ UNCHANGED <<orgVars, edits, raced>>
  BY DEF Abort
<1>2. HierarchyTypeOK' /\ KeysGiven' /\ edits' \in Nat /\ raced' \in Racers
      /\ \A e \in People : primary[e] # None => primary'[e] # None
  BY <1>1 DEF OrgTyped, TypeOK, HierarchyTypeOK, KeysGiven, orgVars
<1>3. tx \in [Admins -> Transaction \cup {None}]
  BY DEF OrgTyped, TypeOK
<1>4. DOMAIN tx' = Admins /\ tx' = [b \in Admins |-> tx'[b]]
  BY <1>1, <1>3
<1>5. \A b \in Admins : tx'[b] = None \/ tx'[b] = tx[b]
  BY <1>1, <1>3
<1> QED
  BY <1>1, <1>2, <1>4, <1>5, QuietTyped

LEMMA SimpleTyped ==
    ASSUME OrgTyped, NEW a \in Admins, Simple(a), HierarchyTypeOK', lines' \subseteq lines,
           \A e \in People : primary[e] # None => primary'[e] # None
    PROVE  OrgTyped'
<1>1. edits' \in Nat /\ raced' \in Racers /\ KeysGiven'
  <2>1. edits' = edits + 1 /\ raced' = raced /\ edits \in Nat /\ raced \in Racers
    BY DEF Simple, OrgTyped, TypeOK
  <2>2. \A l \in lines : l.key \in Int /\ l.key <= edits
    BY DEF OrgTyped, TypeOK, HierarchyTypeOK, KeysGiven, Rows, Line
  <2> QED
    BY <2>1, <2>2 DEF KeysGiven
<1>2. /\ DOMAIN tx' = Admins /\ tx' = [b \in Admins |-> tx'[b]]
      /\ \A b \in Admins : tx'[b] = IF tx[b] = None THEN None
                                    ELSE [tx[b] EXCEPT !.alone = "administration"]
      /\ form' = form
  BY DEF Simple
<1>3. "administration" \in Racers
  BY DEF Racers
<1> QED
  BY <1>1, <1>2, <1>3, QuietTyped
\* The changes of one statement.
Quick(a) ==
    \/ \E p \in People : SetActive(a, p) \/ \E u \in Units : MoveMembership(a, p, u)
    \/ \E u \in Units : SetArchived(a, u) \/ RemoveLink(a, u)
    \/ \E l \in lines : EndSecondaryLine(a, l)
    \/ \E m \in secondary : CloseMembership(a, m)
    \/ \E g \in Grant : GrantRole(a, g)
    \/ \E g \in grants : RevokeRole(a, g)

LEMMA QuickEffect ==
    ASSUME OrgTyped, NEW a \in Admins, Quick(a)
    PROVE  /\ Simple(a) /\ HierarchyTypeOK' /\ lines' \subseteq lines
           /\ \A l \in lines : l.primary => l \in lines'
           /\ \A e \in People : primary[e] # None => primary'[e] # None
           /\ UnitEdges(parent') \subseteq UnitEdges(parent)
<1>1. /\ parent \in [Units -> Units \cup {None}] /\ archived \subseteq Units
      /\ primary \in [People -> Units \cup {None}] /\ secondary \subseteq People \X Units
      /\ Rows(lines) /\ grants \subseteq Grant /\ inactive \subseteq People
  BY DEF OrgTyped, TypeOK, HierarchyTypeOK
<1> DEFINE Effect ==
      /\ Simple(a) /\ HierarchyTypeOK' /\ lines' \subseteq lines
      /\ \A l \in lines : l.primary => l \in lines'
      /\ \A e \in People : primary[e] # None => primary'[e] # None
      /\ UnitEdges(parent') \subseteq UnitEdges(parent)
<1> SUFFICES Effect
  OBVIOUS
<1>2. ASSUME NEW p \in People, SetActive(a, p) PROVE Effect
  BY <1>1, <1>2 DEF SetActive, HierarchyTypeOK
<1>3. ASSUME NEW p \in People, NEW u \in Units, MoveMembership(a, p, u) PROVE Effect
  <2>1. u # None
    BY NoneIsNothing
  <2> QED
    BY <1>1, <1>3, <2>1 DEF MoveMembership, HierarchyTypeOK
<1>4. ASSUME NEW u \in Units, SetArchived(a, u) PROVE Effect
  BY <1>1, <1>4 DEF SetArchived, HierarchyTypeOK
<1>5. ASSUME NEW u \in Units, RemoveLink(a, u) PROVE Effect
  <2>1. parent' = [parent EXCEPT ![u] = None]
        /\ UNCHANGED <<archived, primary, secondary, lines, grants, inactive>> /\ Simple(a)
    BY <1>5 DEF RemoveLink, WithoutParent
  <2>2. UnitEdges(parent') \subseteq UnitEdges(parent)
    BY <1>1, <2>1 DEF UnitEdges
  <2> QED
    BY <1>1, <2>1, <2>2 DEF HierarchyTypeOK
<1>6. ASSUME NEW l \in lines, EndSecondaryLine(a, l) PROVE Effect
  <2>1. lines' = lines \ {l} /\ ~ l.primary /\ Simple(a)
        /\ UNCHANGED <<parent, archived, primary, secondary, grants, inactive>>
    BY <1>6 DEF EndSecondaryLine
  <2>2. Rows(lines')
    BY <1>1, <2>1 DEF Rows
  <2> QED
    BY <1>1, <2>1, <2>2 DEF HierarchyTypeOK
<1>7. ASSUME NEW m \in secondary, CloseMembership(a, m) PROVE Effect
  BY <1>1, <1>7 DEF CloseMembership, HierarchyTypeOK
<1>8. ASSUME NEW g \in Grant, GrantRole(a, g) PROVE Effect
  BY <1>1, <1>8 DEF GrantRole, HierarchyTypeOK
<1>9. ASSUME NEW g \in grants, RevokeRole(a, g) PROVE Effect
  BY <1>1, <1>9 DEF RevokeRole, HierarchyTypeOK
<1> HIDE DEF Effect
<1> QED
  BY <1>2, <1>3, <1>4, <1>5, <1>6, <1>7, <1>8, <1>9 DEF Quick

Posted(a) == PostPerson(a) \/ PostTeam(a) \/ PostUnit(a) \/ PostLine(a) \/ PostLink(a)

OpensPage(a) ==
    \/ \E p \in People : OpenPage(a, "person", p) \/ OpenPage(a, "team", p)
    \/ \E u \in Units : OpenPage(a, "unit", u)

LEMMA NextIs ==
    Next => \E a \in Admins : OpensPage(a) \/ Posted(a) \/ Commit(a) \/ Abort(a) \/ Quick(a)
  BY DEF Next, OpensPage, Posted, Quick

LEMMA PostedStarts ==
    ASSUME OrgTyped, NEW a \in Admins, Posted(a)
    PROVE  \E t : Starts(a, t)
  BY PersonDecides, TeamDecides, UnitDecides, LineDecides, LinkDecides DEF Posted

LEMMA StartsTyped ==
    ASSUME OrgTyped, NEW a \in Admins, NEW t, Starts(a, t)
    PROVE  OrgTyped'
  BY DecideTyped DEF Starts

LEMMA OpensPageTyped ==
    ASSUME OrgTyped, NEW a \in Admins, OpensPage(a)
    PROVE  OrgTyped'
<1>1. ASSUME NEW p \in People, OpenPage(a, "person", p) PROVE OrgTyped'
  BY <1>1, OpenPageTyped
<1>2. ASSUME NEW p \in People, OpenPage(a, "team", p) PROVE OrgTyped'
  BY <1>2, OpenPageTyped
<1>3. ASSUME NEW u \in Units, OpenPage(a, "unit", u) PROVE OrgTyped'
  BY <1>3, OpenPageTyped
<1> QED
  BY <1>1, <1>2, <1>3 DEF OpensPage

LEMMA NextTyped == OrgTyped /\ [Next]_vars => OrgTyped'
<1> SUFFICES ASSUME OrgTyped, [Next]_vars PROVE OrgTyped'
  OBVIOUS
<1>1. CASE UNCHANGED vars
  BY <1>1 DEF vars, orgVars, OrgTyped, TypeOK, HierarchyTypeOK, KeysGiven,
              Decisions, Pending, Sound, TeamEnds
<1>2. CASE Next
  <2>1. PICK a \in Admins : OpensPage(a) \/ Posted(a) \/ Commit(a) \/ Abort(a) \/ Quick(a)
    BY <1>2, NextIs
  <2>2. CASE OpensPage(a)
    BY <2>2, OpensPageTyped
  <2>3. CASE Posted(a)
    BY <2>3, PostedStarts, StartsTyped
  <2>4. CASE Commit(a)
    BY <2>4, CommitTyped
  <2>5. CASE Abort(a)
    BY <2>5, AbortTyped
  <2>6. CASE Quick(a)
    BY <2>6, QuickEffect, SimpleTyped
  <2> QED
    BY <2>1, <2>2, <2>3, <2>4, <2>5, <2>6
<1> QED
  BY <1>1, <1>2

LEMMA OrgAlwaysTyped == Spec => []OrgTyped
<1> QED
  BY OrgInitial, NextTyped, PTL DEF Spec

\* Every row of the organisation and every decision keeps its form, with one
\* open primary line for each employee.
THEOREM OrganizationTypeCorrect == Spec => []TypeOK
<1>1. OrgTyped => TypeOK
  BY DEF OrgTyped
<1> QED
  BY <1>1, OrgAlwaysTyped, PTL

\* Whatever the pages offer is accepted, in every organisation that the
\* writers can reach (eligible_primary_collaborator_ids and
\* eligible_primary_supervisor_ids against validate_supervisor_unit and
\* ReportingLine.clean).
THEOREM OffersAlwaysAccepted == Spec => []OfferedMovesAreAccepted
<1>1. OrgTyped => HierarchyTypeOK
  BY DEF OrgTyped, TypeOK
<1> QED
  BY <1>1, OrgAlwaysTyped, OfferedWhenTyped, PTL

\* The team page of everybody is whole, unless their lines form a loop.
THEOREM TeamTreeAlwaysWhole == Spec => []TeamTreeIsWhole
<1>1. OrgTyped => HierarchyTypeOK
  BY DEF OrgTyped, TypeOK
<1> QED
  BY <1>1, OrgAlwaysTyped, TreeWhenTyped, PTL
-----------------------------------------------------------------------------
(* The links of the units                                                  *)

\* A link that is allowed closes no loop.
LEMMA LinkClosesNoLoop ==
    ASSUME NEW up \in [Units -> Units \cup {None}], ~ Loop(UnitEdges(up), Units),
           NEW u \in Units, NEW q \in Units, LinkAllowed(up, q, u)
    PROVE  ~ Loop(UnitEdges([up EXCEPT ![u] = q]), Units)
<1> DEFINE D == Below(up, u)
           new == [up EXCEPT ![u] = q]
<1>1. D \in SUBSET Units /\ u \in D /\ q \notin D
  BY ReachStarts DEF LinkAllowed, Below
<1>2. \A e \in UnitEdges(up) : e[2] \in Units
  BY DEF UnitEdges
<1>3. \A e \in UnitEdges(up) : e[1] \in D => e[2] \in D
  BY <1>2, ReachClosed DEF Below
<1>4. UnitEdges(new) \subseteq UnitEdges(up) \cup ({q} \X D)
  BY <1>1 DEF UnitEdges
<1> HIDE DEF D, new
<1>5. ~ Loop(UnitEdges(up) \cup ({q} \X D), Units)
  BY <1>1, <1>3, EdgesAdded
<1>6. ~ Loop(UnitEdges(new), Units)
  BY <1>4, <1>5, FewerEdges
<1> QED
  BY <1>6 DEF new

\* Nor do several links to the same unit, each of them allowed.
LEMMA ChildrenCloseNoLoop ==
    ASSUME NEW up \in [Units -> Units \cup {None}], ~ Loop(UnitEdges(up), Units),
           NEW u \in Units, NEW joining \in SUBSET Units,
           \A c \in joining : LinkAllowed(up, u, c),
           NEW new, new = [c \in Units |-> IF c \in joining THEN u ELSE up[c]]
    PROVE  ~ Loop(UnitEdges(new), Units)
<1> DEFINE D == UNION {Below(up, c) : c \in joining}
<1>1. \A c \in joining : Below(up, c) \in SUBSET Units /\ c \in Below(up, c)
                         /\ u \notin Below(up, c)
  BY ReachStarts DEF LinkAllowed, Below
<1>2. D \in SUBSET Units /\ joining \subseteq D /\ u \notin D
  BY <1>1
<1>3. \A e \in UnitEdges(up) : e[2] \in Units
  BY DEF UnitEdges
<1>4. ASSUME NEW e \in UnitEdges(up), NEW c \in joining, e[1] \in Below(up, c)
      PROVE  e[2] \in Below(up, c)
  BY <1>3, <1>4, ReachClosed DEF Below
<1>5. \A e \in UnitEdges(up) : e[1] \in D => e[2] \in D
  BY <1>4
<1>6. UnitEdges(new) \subseteq UnitEdges(up) \cup ({u} \X D)
  BY <1>2 DEF UnitEdges
<1> HIDE DEF D
<1>7. ~ Loop(UnitEdges(up) \cup ({u} \X D), Units)
  BY <1>2, <1>5, EdgesAdded
<1> QED
  BY <1>6, <1>7, FewerEdges

\* The page of a unit: its parent, then its children.
LEMMA ReparentClosesNoLoop ==
    ASSUME parent \in [Units -> Units \cup {None}], ~ Loop(UnitEdges(parent), Units),
           NEW u \in Units, NEW q \in Units \cup {None}, NEW children \in SUBSET Units,
           Reparent(u, q, children).ok
    PROVE  ~ Loop(UnitEdges(Reparent(u, q, children).up), Units)
<1> DEFINE freed == IF parent[u] # q THEN WithoutParent(parent, u) ELSE parent
           first == [freed EXCEPT ![u] = q]
           kept == [c \in Units |-> IF first[c] = u /\ c \notin children THEN None
                                    ELSE first[c]]
           joining == {c \in children : kept[c] # u}
           last == [c \in Units |-> IF c \in joining THEN u ELSE kept[c]]
<1>1. /\ q = None \/ q = parent[u] \/ LinkAllowed(freed, q, u)
      /\ \A c \in joining : LinkAllowed(kept, u, c)
      /\ Reparent(u, q, children).up = last
  BY DEF Reparent
<1>2. /\ freed \in [Units -> Units \cup {None}]
      /\ UnitEdges(freed) \subseteq UnitEdges(parent)
      /\ q = parent[u] => first = parent
  BY DEF WithoutParent, UnitEdges
<1>3. ~ Loop(UnitEdges(freed), Units)
  BY <1>2, FewerEdges
<1>4. first \in [Units -> Units \cup {None}] /\ ~ Loop(UnitEdges(first), Units)
  <2>1. first \in [Units -> Units \cup {None}]
    BY <1>2
  <2>2. CASE q = parent[u]
    BY <1>2, <2>1, <2>2
  <2>3. CASE q = None
    <3>1. UnitEdges(first) \subseteq UnitEdges(freed)
      BY <1>2, <2>3 DEF UnitEdges
    <3> QED
      BY <1>3, <2>1, <3>1, FewerEdges
  <2>4. CASE q # None /\ LinkAllowed(freed, q, u)
    <3> HIDE DEF freed
    <3> QED
      BY <1>2, <1>3, <2>1, <2>4, LinkClosesNoLoop
  <2> QED
    BY <1>1, <2>2, <2>3, <2>4
<1> HIDE DEF first
<1>5. kept \in [Units -> Units \cup {None}] /\ ~ Loop(UnitEdges(kept), Units)
  <2>1. kept \in [Units -> Units \cup {None}]
    BY <1>4
  <2>2. UnitEdges(kept) \subseteq UnitEdges(first)
    BY <1>4 DEF UnitEdges
  <2> QED
    BY <1>4, <2>1, <2>2, FewerEdges
<1>6. joining \in SUBSET Units
  OBVIOUS
<1> HIDE DEF kept, joining
<1>7. ~ Loop(UnitEdges(last), Units)
  BY <1>1, <1>5, <1>6, ChildrenCloseNoLoop
<1> QED
  BY <1>1, <1>7

\* A link put in the place of the parent of a unit.
LEMMA LinkReplacedClosesNoLoop ==
    ASSUME parent \in [Units -> Units \cup {None}], ~ Loop(UnitEdges(parent), Units),
           NEW u \in Units, NEW q \in Units, LinkAllowed(WithoutParent(parent, u), q, u)
    PROVE  ~ Loop(UnitEdges([parent EXCEPT ![u] = q]), Units)
<1> DEFINE freed == WithoutParent(parent, u)
<1>1. freed \in [Units -> Units \cup {None}] /\ UnitEdges(freed) \subseteq UnitEdges(parent)
      /\ [freed EXCEPT ![u] = q] = [parent EXCEPT ![u] = q]
  BY DEF WithoutParent, UnitEdges
<1>2. ~ Loop(UnitEdges(freed), Units)
  BY <1>1, FewerEdges
<1>3. ~ Loop(UnitEdges([freed EXCEPT ![u] = q]), Units)
  <2> HIDE DEF freed
  <2> QED
    BY <1>1, <1>2, LinkClosesNoLoop DEF freed
<1> QED
  BY <1>1, <1>3
-----------------------------------------------------------------------------
(* Loops                                                                   *)

NoLoops(up, rows) == ~ Loop(UnitEdges(up), Units) /\ ~ Loop(LineEdges(rows), People)

LEMMA TypedRows ==
    ASSUME OrgTyped
    PROVE  /\ lines \in SUBSET Line /\ OnePrimary(lines) /\ Rows(lines)
           /\ parent \in [Units -> Units \cup {None}] /\ NextKey \in Int
  BY NextKeyIsNew DEF OrgTyped, TypeOK, HierarchyTypeOK, Rows, OnePrimary

LEMMA PostedClosesNoLoop ==
    ASSUME OrgTyped, NoLoops(parent, lines), NEW a \in Admins, Posted(a)
    PROVE  \E t : Starts(a, t) /\ NoLoops(ParentAfter(t), LinesAfter(t))
<1> DEFINE key == NextKey
<1>1. /\ lines \in SUBSET Line /\ OnePrimary(lines) /\ key \in Int
      /\ parent \in [Units -> Units \cup {None}]
  BY TypedRows
<1>2. ~ Loop(UnitEdges(parent), Units) /\ ~ Loop(LineEdges(lines), People)
  BY DEF NoLoops
<1> HIDE DEF key
<1>3. ASSUME PostPerson(a) PROVE \E t : Starts(a, t) /\ NoLoops(ParentAfter(t), LinesAfter(t))
  <2>1. PICK t : /\ Starts(a, t) /\ t.kind = "person" /\ t.writes.person \in People
                 /\ t.writes.supervisor \in People \cup {None}
                 /\ t.writes.supervisor # None =>
                        \E members : SupervisorAllowed(lines, members, t.writes.person,
                                                       t.writes.supervisor)
    BY <1>3, PersonDecides
  <2> DEFINE e == t.writes.person
             s == t.writes.supervisor
  <2>2. ParentAfter(t) = parent
    BY <2>1 DEF ParentAfter
  <2>3. CASE s = None
    <3>1. LinesAfter(t) \subseteq lines
      BY <2>1, <2>3 DEF LinesAfter, After
    <3>2. ~ Loop(LineEdges(LinesAfter(t)), People)
      BY <1>2, <3>1, FewerEdges, LineEdgesGrow
    <3> QED
      BY <1>2, <2>1, <2>2, <3>2 DEF NoLoops
  <2>4. CASE s # None
    <3>1. LinesAfter(t) = WithSupervisor(lines, e, s, key)
      BY <2>1, <2>4 DEF LinesAfter, After, key
    <3>2. PICK members : SupervisorAllowed(lines, members, e, s)
      BY <2>1, <2>4
    <3>3. e \in People /\ s \in People
      BY <2>1, <2>4
    <3> HIDE DEF e, s
    <3>4. ~ Loop(LineEdges(WithSupervisor(lines, e, s, key)), People)
      BY <1>1, <1>2, <3>2, <3>3, SupervisorClosesNoLoop
    <3> QED
      BY <1>2, <2>1, <2>2, <3>1, <3>4 DEF NoLoops
  <2> QED
    BY <2>3, <2>4
<1>4. ASSUME PostTeam(a) PROVE \E t : Starts(a, t) /\ NoLoops(ParentAfter(t), LinesAfter(t))
  <2>1. PICK t : /\ Starts(a, t) /\ t.kind = "team"
                 /\ MovesAllowed(form[a].target, t.writes.by)
    BY <1>4, TeamDecides
  <2> DEFINE by == t.writes.by
             D == DOMAIN by
             s == form[a].target
             Good == {rows \in SUBSET Line : OnePrimary(rows) /\ ~ Loop(LineEdges(rows), People)}
  <2>2. D \in SUBSET People /\ by \in [D -> People]
    <3>1. t \in Decided("team", TeamWrites)
      BY <2>1 DEF Starts, Transaction, Decided
    <3>2. by \in UNION {[X -> People] : X \in SUBSET People}
      BY <3>1 DEF Decided, TeamWrites
    <3> QED
      BY <3>2
  <2>3. ParentAfter(t) = parent /\ LinesAfter(t) = Moved(lines, by, D, key)
    BY <2>1 DEF ParentAfter, LinesAfter, After, key
  <2>4. lines \in Good
    BY <1>1, <1>2
  <2>5. MovesAllowed(s, by)
    BY <2>1
  <2>6. ASSUME NEW rows \in Good, NEW e \in People, NEW r \in People,
               SupervisorAllowed(rows, primary, e, r)
        PROVE  WithSupervisor(rows, e, r, key) \in Good
    <3> DEFINE new == WithSupervisor(rows, e, r, key)
    <3>1. new \in SUBSET Line /\ OnePrimary(new)
      BY <1>1, WithSupervisorPoints
    <3>2. ~ Loop(LineEdges(new), People)
      BY <1>1, <2>6, SupervisorClosesNoLoop
    <3> QED
      BY <3>1, <3>2
  <2>7. Good \in SUBSET (SUBSET Line) /\ \A rows \in Good : OnePrimary(rows)
    OBVIOUS
  <2> HIDE DEF Good, by, D, s
  <2>8. Moved(lines, by, D, key) \in Good
    BY <1>1, <2>2, <2>4, <2>5, <2>6, <2>7, MovesPreserve DEF key
  <2>9. ~ Loop(LineEdges(LinesAfter(t)), People)
    BY <2>3, <2>8 DEF Good
  <2> QED
    BY <1>2, <2>1, <2>3, <2>9 DEF NoLoops
<1>5. ASSUME PostLine(a) PROVE \E t : Starts(a, t) /\ NoLoops(ParentAfter(t), LinesAfter(t))
  <2>1. PICK t : /\ Starts(a, t) /\ t.kind = "line"
                 /\ t.writes.employee \in People /\ t.writes.supervisor \in People
                 /\ LineAllowed(lines, t.writes.employee, t.writes.supervisor)
                 /\ t.writes.primary => SupervisorAllowed(lines, primary, t.writes.employee,
                                                          t.writes.supervisor)
    BY <1>5, LineDecides
  <2> DEFINE e == t.writes.employee
             s == t.writes.supervisor
  <2>2. ParentAfter(t) = parent
    BY <2>1 DEF ParentAfter
  <2>3. CASE t.writes.primary
    <3>1. LinesAfter(t) = WithSupervisor(lines, e, s, key)
      BY <2>1, <2>3 DEF LinesAfter, After, key
    <3>2. SupervisorAllowed(lines, primary, e, s) /\ e \in People /\ s \in People
      BY <2>1, <2>3
    <3> HIDE DEF e, s
    <3>3. ~ Loop(LineEdges(WithSupervisor(lines, e, s, key)), People)
      BY <1>1, <1>2, <3>2, SupervisorClosesNoLoop
    <3> QED
      BY <1>2, <2>1, <2>2, <3>1, <3>3 DEF NoLoops
  <2>4. CASE ~ t.writes.primary
    <3> DEFINE n == [NewLine(e, s, key) EXCEPT !.primary = FALSE]
    <3>1. LinesAfter(t) = lines \cup {n}
      BY <2>1, <2>4 DEF LinesAfter, After, key
    <3>2. n \in Line /\ n.employee = e /\ n.supervisor = s
      BY <1>1, <2>1 DEF NewLine, Line
    <3>3. LineAllowed(lines, n.employee, n.supervisor)
      BY <2>1, <3>2
    <3> HIDE DEF n
    <3>4. ~ Loop(LineEdges(lines \cup {n}), People)
      BY <1>1, <1>2, <3>2, <3>3, LineClosesNoLoop
    <3> QED
      BY <1>2, <2>1, <2>2, <3>1, <3>4 DEF NoLoops
  <2> QED
    BY <2>3, <2>4
<1>6. ASSUME PostUnit(a) PROVE \E t : Starts(a, t) /\ NoLoops(ParentAfter(t), LinesAfter(t))
  <2>1. PICK t : /\ Starts(a, t) /\ t.kind = "unit"
                 /\ t.writes.unit \in Units /\ t.writes.parent \in Units \cup {None}
                 /\ t.writes.children \in SUBSET (Units \ {t.writes.unit})
                 /\ Reparent(t.writes.unit, t.writes.parent, t.writes.children).ok
    BY <1>6, UnitDecides
  <2> DEFINE u == t.writes.unit
             q == t.writes.parent
             children == t.writes.children
  <2>2. LinesAfter(t) = lines /\ ParentAfter(t) = Reparent(u, q, children).up
    BY <2>1 DEF LinesAfter, After, ParentAfter
  <2>3. /\ u \in Units /\ q \in Units \cup {None} /\ children \in SUBSET Units
        /\ Reparent(u, q, children).ok
    BY <2>1
  <2> HIDE DEF u, q, children
  <2>4. ~ Loop(UnitEdges(Reparent(u, q, children).up), Units)
    BY <1>1, <1>2, <2>3, ReparentClosesNoLoop
  <2> QED
    BY <1>2, <2>1, <2>2, <2>4 DEF NoLoops
<1>7. ASSUME PostLink(a) PROVE \E t : Starts(a, t) /\ NoLoops(ParentAfter(t), LinesAfter(t))
  <2>1. PICK t : /\ Starts(a, t) /\ t.kind = "link"
                 /\ t.writes.unit \in Units /\ t.writes.parent \in Units
                 /\ LinkAllowed(WithoutParent(parent, t.writes.unit), t.writes.parent,
                                t.writes.unit)
    BY <1>7, LinkDecides
  <2> DEFINE u == t.writes.unit
             q == t.writes.parent
  <2>2. LinesAfter(t) = lines /\ ParentAfter(t) = [parent EXCEPT ![u] = q]
    BY <2>1 DEF LinesAfter, After, ParentAfter
  <2>3. u \in Units /\ q \in Units /\ LinkAllowed(WithoutParent(parent, u), q, u)
    BY <2>1
  <2> HIDE DEF u, q
  <2>4. ~ Loop(UnitEdges([parent EXCEPT ![u] = q]), Units)
    BY <1>1, <1>2, <2>3, LinkReplacedClosesNoLoop
  <2> QED
    BY <1>2, <2>1, <2>2, <2>4 DEF NoLoops
<1> QED
  BY <1>3, <1>4, <1>5, <1>6, <1>7 DEF Posted

\* A transaction makes the same when the organisation is the same.
LEMMA SameAfter ==
    ASSUME UNCHANGED <<lines, parent, edits>>, NEW b, NEW t, tx'[b] = t
    PROVE  LinesAfter(tx[b])' = LinesAfter(t) /\ ParentAfter(tx[b])' = ParentAfter(t)
<1>1. LinesAfter(tx[b])' = LinesAfter(t)
  BY DEF LinesAfter, NextKey
<1>2. ParentAfter(tx[b])' = ParentAfter(t)
  BY DEF ParentAfter, Reparent
<1> QED
  BY <1>1, <1>2

LEMMA QuietLoopFree ==
    ASSUME LoopFree, UNCHANGED <<lines, parent, edits, raced>>,
           \A b \in Admins : tx'[b] = None \/ tx'[b] = tx[b]
    PROVE  LoopFree'
<1> SUFFICES ASSUME raced = "nobody"
             PROVE  /\ NoLoops(parent, lines)
                    /\ \A b \in Admins : Pending(b)' /\ tx'[b].alone = "nobody" =>
                          NoLoops(ParentAfter(tx[b])', LinesAfter(tx[b])')
  BY DEF LoopFree, NoLoops
<1>1. NoLoops(parent, lines)
  BY DEF LoopFree, NoLoops
<1>2. ASSUME NEW b \in Admins, Pending(b)', tx'[b].alone = "nobody"
      PROVE  NoLoops(ParentAfter(tx[b])', LinesAfter(tx[b])')
  <2>1. tx'[b] = tx[b] /\ Pending(b) /\ tx[b].alone = "nobody"
    BY <1>2 DEF Pending
  <2>2. LinesAfter(tx[b])' = LinesAfter(tx[b]) /\ ParentAfter(tx[b])' = ParentAfter(tx[b])
    BY <2>1, SameAfter
  <2>3. NoLoops(ParentAfter(tx[b]), LinesAfter(tx[b]))
    BY <2>1 DEF LoopFree, NoLoops
  <2> QED
    BY <2>2, <2>3
<1> QED
  BY <1>1, <1>2

LEMMA PostedLoopFree ==
    ASSUME OrgTyped, LoopFree, NEW a \in Admins, Posted(a)
    PROVE  LoopFree'
<1>1. CASE raced # "nobody"
  <2>1. PICK t : Starts(a, t)
    BY PostedStarts
  <2> QED
    BY <1>1, <2>1 DEF LoopFree, Starts
<1>2. CASE raced = "nobody"
  <2>1. NoLoops(parent, lines)
    BY <1>2 DEF LoopFree, NoLoops
  <2>2. PICK t : Starts(a, t) /\ NoLoops(ParentAfter(t), LinesAfter(t))
    BY <2>1, PostedClosesNoLoop
  <2>3. UNCHANGED <<lines, parent, edits, raced>> /\ tx' = [tx EXCEPT ![a] = t]
    BY <2>2 DEF Starts, orgVars
  <2>4. tx'[a] = t /\ \A b \in Admins \ {a} : tx'[b] = tx[b]
    BY <2>3 DEF OrgTyped, TypeOK
  <2>5. ASSUME NEW b \in Admins, Pending(b)', tx'[b].alone = "nobody"
        PROVE  NoLoops(ParentAfter(tx[b])', LinesAfter(tx[b])')
    <3>1. CASE b = a
      <4>1. LinesAfter(tx[b])' = LinesAfter(t) /\ ParentAfter(tx[b])' = ParentAfter(t)
        BY <2>3, <2>4, <3>1, SameAfter
      <4> QED
        BY <2>2, <4>1
    <3>2. CASE b # a
      <4>1. tx'[b] = tx[b] /\ Pending(b) /\ tx[b].alone = "nobody"
        BY <2>4, <2>5, <3>2 DEF Pending
      <4>2. LinesAfter(tx[b])' = LinesAfter(tx[b]) /\ ParentAfter(tx[b])' = ParentAfter(tx[b])
        BY <2>3, <4>1, SameAfter
      <4>3. NoLoops(ParentAfter(tx[b]), LinesAfter(tx[b]))
        BY <1>2, <4>1 DEF LoopFree, NoLoops
      <4> QED
        BY <4>2, <4>3
    <3> QED
      BY <3>1, <3>2
  <2> QED
    BY <2>1, <2>3, <2>5 DEF LoopFree, NoLoops
<1> QED
  BY <1>1, <1>2

LEMMA CommitLoopFree ==
    ASSUME OrgTyped, LoopFree, NEW a \in Admins, Commit(a)
    PROVE  LoopFree'
<1> SUFFICES ASSUME raced' = "nobody" PROVE LoopFree'
  BY DEF LoopFree
<1>1. /\ Pending(a) /\ lines' = LinesAfter(tx[a]) /\ parent' = ParentAfter(tx[a])
  BY CommitEffect
<1>2. tx[a] \in Transaction
  BY <1>1, PendingTyped
<1>3. raced = "nobody" /\ tx[a].alone = "nobody"
  <2>1. raced' = Among(raced, Racing(tx[a])) /\ raced \in Racers
    BY DEF Commit, OrgTyped, TypeOK
  <2>2. Among(raced, Racing(tx[a])) = "nobody"
    BY <2>1
  <2>3. raced = "nobody" /\ Racing(tx[a]) \notin {"services", "administration"}
    BY <2>1, <2>2 DEF Among, Racers
  <2>4. tx[a].alone # "nobody" => Racing(tx[a]) \in {"services", "administration"}
    BY DEF Racing, Among, Writer
  <2> QED
    BY <2>3, <2>4
<1>4. NoLoops(parent', lines')
  BY <1>1, <1>3 DEF LoopFree, NoLoops
<1>5. ASSUME NEW b \in Admins, tx'[b] # None PROVE tx'[b].alone # "nobody"
  <2>1. tx[b] # None /\ b # a /\ tx'[b] = [tx[b] EXCEPT !.alone = Among(tx[b].alone, Writer(tx[a].kind))]
    BY <1>5 DEF Commit
  <2>2. tx[b] \in Transaction
    BY <2>1, PendingTyped DEF Pending
  <2> DEFINE x == Among(tx[b].alone, Writer(tx[a].kind))
  <2>3. x \in Racers /\ x # "nobody"
    BY AmongRacers DEF Writer, Racers
  <2> HIDE DEF x
  <2>4. tx'[b] = [tx[b] EXCEPT !.alone = x]
    BY <2>1 DEF x
  <2>5. tx'[b].alone = x
    BY <2>2, <2>3, <2>4, AloneChanges
  <2> QED
    BY <2>3, <2>5
<1> QED
  BY <1>4, <1>5 DEF LoopFree, NoLoops, Pending

LEMMA QuickLoopFree ==
    ASSUME OrgTyped, LoopFree, NEW a \in Admins, Quick(a)
    PROVE  LoopFree'
<1> SUFFICES ASSUME raced' = "nobody" PROVE LoopFree'
  BY DEF LoopFree
<1>1. Simple(a) /\ lines' \subseteq lines /\ UnitEdges(parent') \subseteq UnitEdges(parent)
  BY QuickEffect
<1>2. ~ Loop(UnitEdges(parent), Units) /\ ~ Loop(LineEdges(lines), People)
  BY <1>1 DEF Simple, LoopFree
<1>3. ~ Loop(UnitEdges(parent'), Units) /\ ~ Loop(LineEdges(lines'), People)
  BY <1>1, <1>2, FewerEdges, LineEdgesGrow
<1>4. ASSUME NEW b \in Admins, tx'[b] # None PROVE tx'[b].alone # "nobody"
  <2>1. tx[b] # None /\ tx'[b] = [tx[b] EXCEPT !.alone = "administration"]
    BY <1>1, <1>4 DEF Simple
  <2>2. tx[b] \in Transaction
    BY <2>1, PendingTyped DEF Pending
  <2>3. "administration" \in Racers
    BY DEF Racers
  <2>4. tx'[b].alone = "administration"
    BY <2>1, <2>2, <2>3, AloneChanges
  <2> QED
    BY <2>4
<1> QED
  BY <1>3, <1>4 DEF LoopFree, Pending
LEMMA LoopFreeInductive == Spec => [](OrgTyped /\ LoopFree)
<1>1. Init => OrgTyped /\ LoopFree
  <2> SUFFICES ASSUME Init PROVE LoopFree
    BY OrgInitial
  <2>1. PICK c \in Charts : parent = c.parent /\ lines = c.lines
    BY DEF Init
  <2>2. ~ Loop(UnitEdges(parent), Units) /\ ~ Loop(LineEdges(lines), People)
    BY <2>1, ChartsAssumption
  <2>3. \A b \in Admins : ~ Pending(b)
    BY DEF Init, Pending
  <2> QED
    BY <2>2, <2>3 DEF LoopFree
<1>2. OrgTyped /\ LoopFree /\ [Next]_vars => (OrgTyped /\ LoopFree)'
  <2> SUFFICES ASSUME OrgTyped, LoopFree, [Next]_vars PROVE LoopFree'
    BY NextTyped
  <2>1. CASE UNCHANGED vars
    <3>1. UNCHANGED <<lines, parent, edits, raced, tx>>
      BY <2>1 DEF vars, orgVars
    <3> QED
      BY <3>1, QuietLoopFree
  <2>2. CASE Next
    <3>1. PICK a \in Admins : OpensPage(a) \/ Posted(a) \/ Commit(a) \/ Abort(a) \/ Quick(a)
      BY <2>2, NextIs
    <3>2. CASE OpensPage(a)
      <4>1. UNCHANGED <<lines, parent, edits, raced, tx>>
        BY <3>2 DEF OpensPage, OpenPage, orgVars
      <4> QED
        BY <4>1, QuietLoopFree
    <3>3. CASE Posted(a)
      BY <3>3, PostedLoopFree
    <3>4. CASE Commit(a)
      BY <3>4, CommitLoopFree
    <3>5. CASE Abort(a)
      <4>1. UNCHANGED <<lines, parent, edits, raced>>
            /\ \A b \in Admins : tx'[b] = None \/ tx'[b] = tx[b]
        BY <3>5 DEF Abort, orgVars, OrgTyped, TypeOK
      <4> QED
        BY <4>1, QuietLoopFree
    <3>6. CASE Quick(a)
      BY <3>6, QuickLoopFree
    <3> QED
      BY <3>1, <3>2, <3>3, <3>4, <3>5, <3>6
  <2> QED
    BY <2>1, <2>2
<1> QED
  BY <1>1, <1>2, PTL DEF Spec

\* Units and people form no loop as long as no two writers decided without
\* seeing each other: OrganizationUnitLink.clean, ReportingLine.clean and the
\* order in which update_unit_hierarchy, update_primary_collaborators and
\* update_user_organization save are enough, for any organisation.
THEOREM LoopsNeedARace == Spec => []LoopsOnlyByRace
<1>1. OrgTyped /\ LoopFree => LoopsOnlyByRace
  BY DEF LoopFree, LoopsOnlyByRace
<1> QED
  BY <1>1, LoopFreeInductive, PTL

-----------------------------------------------------------------------------
(* What the locks keep apart                                               *)

LEMMA PostedHolds ==
    ASSUME OrgTyped, NEW a \in Admins, Posted(a)
    PROVE  \E t : /\ Starts(a, t)
                  /\ \A e \in t.rows \cap People : ~ RowsLocked(e)
                  /\ t.kind = "person" => ~ UserLocked(t.writes.person)
<1> DEFINE Holds(t) == /\ \A e \in t.rows \cap People : ~ RowsLocked(e)
                       /\ t.kind = "person" => ~ UserLocked(t.writes.person)
<1>1. ASSUME PostPerson(a) PROVE \E t : Starts(a, t) /\ Holds(t)
  <2>1. PICK t : /\ Starts(a, t) /\ t.kind = "person"
                 /\ ~ UserLocked(t.writes.person) /\ ~ RowsLocked(t.writes.person)
    BY <1>1, PersonDecides
  <2>2. t.rows = {t.writes.person}
    BY <2>1 DEF Starts, Sound
  <2> QED
    BY <2>1, <2>2
<1>2. ASSUME PostTeam(a) PROVE \E t : Starts(a, t) /\ Holds(t)
  BY <1>2, TeamDecides
<1>3. ASSUME PostLine(a) PROVE \E t : Starts(a, t) /\ Holds(t)
  <2>1. PICK t : /\ Starts(a, t) /\ t.kind = "line"
                 /\ t.writes.primary => ~ RowsLocked(t.writes.employee)
                 /\ ~ t.writes.primary => t.rows = {}
    BY <1>3, LineDecides
  <2>2. t.writes.primary => t.rows = {t.writes.employee}
    BY <2>1 DEF Starts, Sound
  <2> QED
    BY <2>1, <2>2
<1>4. ASSUME PostUnit(a) PROVE \E t : Starts(a, t) /\ Holds(t)
  BY <1>4, UnitDecides
<1>5. ASSUME PostLink(a) PROVE \E t : Starts(a, t) /\ Holds(t)
  BY <1>5, LinkDecides
<1> QED
  BY <1>1, <1>2, <1>3, <1>4, <1>5 DEF Posted

LEMMA TeamEndsAre ==
    ASSUME NEW t \in Transaction, t.kind = "team"
    PROVE  /\ DOMAIN t.writes.by \subseteq TeamEnds(t) /\ TeamEnds(t) \subseteq People
           /\ t.writes.by \in [DOMAIN t.writes.by -> People]
           /\ DOMAIN t.writes.by \in SUBSET People
           /\ t.writes.supervisor \in People
<1>1. t \in Decided("team", TeamWrites)
  BY DEF Transaction, Decided
<1>2. t.writes.by \in UNION {[D -> People] : D \in SUBSET People} /\ t.writes.supervisor \in People
  BY <1>1 DEF Decided, TeamWrites
<1> QED
  BY <1>2 DEF TeamEnds

LEMMA PostedExclusive ==
    ASSUME OrgTyped, Exclusive, NEW a \in Admins, Posted(a)
    PROVE  Exclusive'
<1>1. PICK t : /\ Starts(a, t)
               /\ \A e \in t.rows \cap People : ~ RowsLocked(e)
               /\ t.kind = "person" => ~ UserLocked(t.writes.person)
  BY PostedHolds
<1>2. tx'[a] = t /\ (\A b \in Admins \ {a} : tx'[b] = tx[b]) /\ t \in Transaction /\ Sound(t)
  BY <1>1 DEF Starts, OrgTyped, TypeOK
<1>3. ASSUME NEW b \in Admins, b # a, Pending(b)
      PROVE  /\ t.kind = "team" => \A e \in TeamEnds(t) : e \notin tx[b].rows
             /\ tx[b].kind = "team" => \A e \in TeamEnds(tx[b]) : e \notin t.rows
             /\ t.kind = "person" /\ tx[b].kind = "person" =>
                    t.writes.person # tx[b].writes.person
  <2>1. tx[b] \in Transaction /\ Sound(tx[b]) /\ b \in Busy
    BY <1>3, PendingTyped DEF Busy, Pending
  <2>2. ASSUME NEW e \in People, primary[e] # None, e \in tx[b].rows PROVE RowsLocked(e)
    BY <2>1, <2>2 DEF RowsLocked, OpenRows
  <2>3. ASSUME t.kind = "team", NEW e \in TeamEnds(t) PROVE e \notin tx[b].rows
    <3>1. e \in People /\ primary[e] # None /\ t.rows = People
      BY <1>2, <2>3, TeamEndsAre DEF Sound
    <3> QED
      BY <1>1, <2>2, <3>1
  <2>4. ASSUME tx[b].kind = "team", NEW e \in TeamEnds(tx[b]) PROVE e \notin t.rows
    <3>1. e \in People /\ primary[e] # None /\ tx[b].rows = People
      BY <2>1, <2>4, TeamEndsAre DEF Sound
    <3> QED
      BY <1>1, <2>2, <3>1
  <2>5. ASSUME t.kind = "person", tx[b].kind = "person"
        PROVE  t.writes.person # tx[b].writes.person
    BY <1>1, <2>1, <2>5 DEF UserLocked, Sound
  <2> QED
    BY <2>3, <2>4, <2>5
<1>4. ASSUME NEW b \in Admins, NEW c \in Admins, b # c, Pending(b)', Pending(c)'
      PROVE  /\ tx'[b].kind = "team" => \A e \in TeamEnds(tx'[b]) : e \notin tx'[c].rows
             /\ tx'[b].kind = "person" /\ tx'[c].kind = "person" =>
                    tx'[b].writes.person # tx'[c].writes.person
  <2>1. CASE b = a
    <3>1. c # a /\ tx'[c] = tx[c] /\ Pending(c) /\ tx'[b] = t
      BY <1>2, <1>4, <2>1 DEF Pending
    <3> QED
      BY <1>3, <3>1
  <2>2. CASE c = a
    <3>1. b # a /\ tx'[b] = tx[b] /\ Pending(b) /\ tx'[c] = t
      BY <1>2, <1>4, <2>2 DEF Pending
    <3> QED
      BY <1>3, <3>1
  <2>3. CASE b # a /\ c # a
    <3>1. tx'[b] = tx[b] /\ Pending(b) /\ tx'[c] = tx[c] /\ Pending(c)
      BY <1>2, <1>4, <2>3 DEF Pending
    <3> QED
      BY <1>4, <3>1 DEF Exclusive
  <2> QED
    BY <2>1, <2>2, <2>3
<1>5. \A b \in Admins : TeamEnds(tx[b])' = TeamEnds(tx'[b])
  BY DEF TeamEnds
<1> QED
  BY <1>4, <1>5 DEF Exclusive

\* The other steps take nothing.
LEMMA OthersExclusive ==
    ASSUME OrgTyped, Exclusive,
           \A b \in Admins : tx'[b] # None =>
              /\ tx[b] # None /\ tx'[b].kind = tx[b].kind
              /\ tx'[b].writes = tx[b].writes /\ tx'[b].rows = tx[b].rows
    PROVE  Exclusive'
<1>1. \A b \in Admins : tx'[b] # None => TeamEnds(tx[b])' = TeamEnds(tx[b])
  BY DEF TeamEnds
<1> QED
  BY <1>1 DEF Exclusive, Pending

\* The transactions that wait while another commits.
LEMMA CommitOthers ==
    ASSUME OrgTyped, NEW a \in Admins, Commit(a), NEW b \in Admins, tx'[b] # None
    PROVE  /\ b # a /\ Pending(b) /\ tx[b] \in Transaction
           /\ tx'[b].kind = tx[b].kind /\ tx'[b].writes = tx[b].writes
           /\ tx'[b].users = tx[b].users /\ tx'[b].rows = tx[b].rows
           /\ tx'[b].alone = Among(tx[b].alone, Writer(tx[a].kind))
<1> DEFINE x == Among(tx[b].alone, Writer(tx[a].kind))
<1>1. tx[b] # None /\ b # a /\ tx'[b] = [tx[b] EXCEPT !.alone = x]
  BY DEF Commit
<1>2. tx[b] \in Transaction
  BY <1>1, PendingTyped DEF Pending
<1>3. x \in Racers
  BY AmongRacers
<1> HIDE DEF x
<1>4. /\ tx'[b].kind = tx[b].kind /\ tx'[b].writes = tx[b].writes
      /\ tx'[b].users = tx[b].users /\ tx'[b].rows = tx[b].rows
      /\ tx'[b].alone = x
  BY <1>1, <1>2, <1>3, AloneChanges
<1> QED
  BY <1>1, <1>2, <1>4 DEF Pending, x

LEMMA QuickOthers ==
    ASSUME OrgTyped, NEW a \in Admins, Simple(a), NEW b \in Admins, tx'[b] # None
    PROVE  /\ b # a /\ Pending(b) /\ tx[b] \in Transaction
           /\ tx'[b].kind = tx[b].kind /\ tx'[b].writes = tx[b].writes
           /\ tx'[b].users = tx[b].users /\ tx'[b].rows = tx[b].rows
           /\ tx'[b].alone = "administration"
<1>1. tx[b] # None /\ b # a /\ tx'[b] = [tx[b] EXCEPT !.alone = "administration"]
  BY DEF Simple
<1>2. tx[b] \in Transaction
  BY <1>1, PendingTyped DEF Pending
<1>3. "administration" \in Racers
  BY DEF Racers
<1>4. /\ tx'[b].kind = tx[b].kind /\ tx'[b].writes = tx[b].writes
      /\ tx'[b].users = tx[b].users /\ tx'[b].rows = tx[b].rows
      /\ tx'[b].alone = "administration"
  BY <1>1, <1>2, <1>3, AloneChanges
<1> QED
  BY <1>1, <1>2, <1>4 DEF Pending
-----------------------------------------------------------------------------
(* Pairs                                                                   *)

LEMMA FewerPairs ==
    ASSUME NEW rows, NEW fewer, fewer \subseteq rows, ~ Mutual(rows)
    PROVE  ~ Mutual(fewer)
  BY DEF Mutual

\* The moves that make no pair make none later, unless a line came that is the
\* reverse of one of them.
LEMMA PairLater ==
    ASSUME NEW rows, Rows(rows), NEW key \in Int, \A l \in rows : l.key < key,
           NEW later, Rows(later), NEW next \in Int, \A l \in later : l.key < next,
           NEW D \in SUBSET People, NEW by \in [D -> People], \A e \in D : by[e] # e,
           ~ Mutual(later), ~ Mutual(Moved(rows, by, D, key)),
           \A x \in later \ rows, e \in D : ~ (x.employee = by[e] /\ x.supervisor = e)
    PROVE  ~ Mutual(Moved(later, by, D, next))
<1> DEFINE now == Moved(rows, by, D, key)
           new == Moved(later, by, D, next)
           Had(x) == \E m \in now : m.employee = x.employee /\ m.supervisor = x.supervisor
<1>9. now = Moved(rows, by, D, key) /\ new = Moved(later, by, D, next)
  OBVIOUS
<1> HIDE DEF now, new, Had
<1>1. \A l \in new : \/ l \in later /\ (l.employee \in D => ~ l.primary)
                     \/ l.employee \in D /\ l.supervisor = by[l.employee]
  BY <1>9, MovedRows
<1>2. /\ \A l \in rows : l.employee \notin D => l \in now
      /\ \A e \in D : \E l \in now : l.employee = e /\ l.primary /\ l.supervisor = by[e]
      /\ \A l \in rows : ~ l.primary =>
            \E k \in now : k.employee = l.employee /\ k.supervisor = l.supervisor
  BY <1>9, MovedRows
<1> SUFFICES ASSUME NEW k \in new, NEW l \in new,
                    k.employee = l.supervisor, l.employee = k.supervisor
             PROVE  FALSE
  BY <1>9 DEF Mutual
<1>3. ASSUME NEW x \in new
      PROVE  \/ Had(x)
             \/ x \in later \ rows
  BY <1>1, <1>2 DEF Had
<1>4. ASSUME NEW x \in new
      PROVE  \/ x \in later
             \/ x.employee \in D /\ x.supervisor = by[x.employee]
  BY <1>1
<1>5. CASE Had(k) /\ Had(l)
  BY <1>5, <1>9 DEF Mutual, Had
<1>6. CASE k \in later /\ l \in later
  BY <1>6 DEF Mutual
<1>7. CASE k \in later \ rows /\ l.employee \in D /\ l.supervisor = by[l.employee]
  BY <1>7
<1>8. CASE l \in later \ rows /\ k.employee \in D /\ k.supervisor = by[k.employee]
  BY <1>8
<1> QED
  BY <1>3, <1>4, <1>5, <1>6, <1>7, <1>8

LEMMA PostedMakesNoPair ==
    ASSUME OrgTyped, ~ Mutual(lines), NEW a \in Admins, Posted(a)
    PROVE  \E t : Starts(a, t) /\ ~ Mutual(LinesAfter(t))
<1> DEFINE key == NextKey
<1>1. lines \in SUBSET Line /\ OnePrimary(lines) /\ key \in Int
  BY TypedRows
<1> HIDE DEF key
<1>3. ASSUME PostPerson(a) PROVE \E t : Starts(a, t) /\ ~ Mutual(LinesAfter(t))
  <2>1. PICK t : /\ Starts(a, t) /\ t.kind = "person" /\ t.writes.person \in People
                 /\ t.writes.supervisor \in People \cup {None}
                 /\ t.writes.supervisor # None =>
                        \E members : SupervisorAllowed(lines, members, t.writes.person,
                                                       t.writes.supervisor)
    BY <1>3, PersonDecides
  <2> DEFINE e == t.writes.person
             s == t.writes.supervisor
  <2>3. CASE s = None
    <3>1. LinesAfter(t) \subseteq lines
      BY <2>1, <2>3 DEF LinesAfter, After
    <3>2. ~ Mutual(LinesAfter(t))
      BY <3>1, FewerPairs
    <3> QED
      BY <2>1, <3>2
  <2>4. CASE s # None
    <3>1. LinesAfter(t) = WithSupervisor(lines, e, s, key)
      BY <2>1, <2>4 DEF LinesAfter, After, key
    <3>2. PICK members : SupervisorAllowed(lines, members, e, s)
      BY <2>1, <2>4
    <3>3. e \in People /\ s \in People
      BY <2>1, <2>4
    <3> HIDE DEF e, s
    <3>4. ~ Mutual(WithSupervisor(lines, e, s, key))
      BY <1>1, <3>2, <3>3, SupervisorMakesNoPair
    <3> QED
      BY <2>1, <3>1, <3>4
  <2> QED
    BY <2>3, <2>4
<1>4. ASSUME PostTeam(a) PROVE \E t : Starts(a, t) /\ ~ Mutual(LinesAfter(t))
  <2>1. PICK t : /\ Starts(a, t) /\ t.kind = "team"
                 /\ MovesAllowed(form[a].target, t.writes.by)
    BY <1>4, TeamDecides
  <2> DEFINE by == t.writes.by
             D == DOMAIN by
             s == form[a].target
             Good == {rows \in SUBSET Line : OnePrimary(rows) /\ ~ Mutual(rows)}
  <2>2. D \in SUBSET People /\ by \in [D -> People]
    BY <2>1, TeamEndsAre DEF Starts
  <2>3. LinesAfter(t) = Moved(lines, by, D, key)
    BY <2>1 DEF LinesAfter, After, key
  <2>4. lines \in Good
    BY <1>1
  <2>5. MovesAllowed(s, by)
    BY <2>1
  <2>6. ASSUME NEW rows \in Good, NEW e \in People, NEW r \in People,
               SupervisorAllowed(rows, primary, e, r)
        PROVE  WithSupervisor(rows, e, r, key) \in Good
    <3> DEFINE new == WithSupervisor(rows, e, r, key)
    <3>1. new \in SUBSET Line /\ OnePrimary(new)
      BY <1>1, WithSupervisorPoints
    <3>2. ~ Mutual(new)
      BY <1>1, <2>6, SupervisorMakesNoPair
    <3> QED
      BY <3>1, <3>2
  <2>7. Good \in SUBSET (SUBSET Line) /\ \A rows \in Good : OnePrimary(rows)
    OBVIOUS
  <2> HIDE DEF Good, by, D, s
  <2>8. Moved(lines, by, D, key) \in Good
    BY <1>1, <2>2, <2>4, <2>5, <2>6, <2>7, MovesPreserve DEF key
  <2>9. ~ Mutual(LinesAfter(t))
    BY <2>3, <2>8 DEF Good
  <2> QED
    BY <2>1, <2>9
<1>5. ASSUME PostLine(a) PROVE \E t : Starts(a, t) /\ ~ Mutual(LinesAfter(t))
  <2>1. PICK t : /\ Starts(a, t) /\ t.kind = "line"
                 /\ t.writes.employee \in People /\ t.writes.supervisor \in People
                 /\ LineAllowed(lines, t.writes.employee, t.writes.supervisor)
                 /\ t.writes.primary => SupervisorAllowed(lines, primary, t.writes.employee,
                                                          t.writes.supervisor)
    BY <1>5, LineDecides
  <2> DEFINE e == t.writes.employee
             s == t.writes.supervisor
  <2>3. CASE t.writes.primary
    <3>1. LinesAfter(t) = WithSupervisor(lines, e, s, key)
      BY <2>1, <2>3 DEF LinesAfter, After, key
    <3>2. SupervisorAllowed(lines, primary, e, s) /\ e \in People /\ s \in People
      BY <2>1, <2>3
    <3> HIDE DEF e, s
    <3>3. ~ Mutual(WithSupervisor(lines, e, s, key))
      BY <1>1, <3>2, SupervisorMakesNoPair
    <3> QED
      BY <2>1, <3>1, <3>3
  <2>4. CASE ~ t.writes.primary
    <3> DEFINE n == [NewLine(e, s, key) EXCEPT !.primary = FALSE]
    <3>1. LinesAfter(t) = lines \cup {n}
      BY <2>1, <2>4 DEF LinesAfter, After, key
    <3>2. n \in Line /\ n.employee = e /\ n.supervisor = s
      BY <1>1, <2>1 DEF NewLine, Line
    <3>3. LineAllowed(lines, n.employee, n.supervisor)
      BY <2>1, <3>2
    <3> HIDE DEF n
    <3>4. ~ Mutual(lines \cup {n})
      BY <1>1, <3>2, <3>3, LineMakesNoPair
    <3> QED
      BY <2>1, <3>1, <3>4
  <2> QED
    BY <2>3, <2>4
<1>6. ASSUME PostUnit(a) \/ PostLink(a) PROVE \E t : Starts(a, t) /\ ~ Mutual(LinesAfter(t))
  <2>1. PICK t : Starts(a, t) /\ t.kind \in {"unit", "link"}
    BY <1>6, UnitDecides, LinkDecides
  <2>2. LinesAfter(t) = lines
    BY <2>1 DEF LinesAfter, After
  <2> QED
    BY <2>1, <2>2
<1> QED
  BY <1>3, <1>4, <1>5, <1>6 DEF Posted

LEMMA QuietPairFree ==
    ASSUME PairFree, UNCHANGED <<lines, parent, edits, raced>>,
           \A b \in Admins : tx'[b] = None \/ tx'[b] = tx[b]
    PROVE  PairFree'
<1> SUFFICES ASSUME raced # "administration"
             PROVE  /\ ~ Mutual(lines)
                    /\ \A b \in Admins : Pending(b)' /\ Racing(tx'[b]) # "administration" =>
                          ~ Mutual(LinesAfter(tx[b])')
  BY DEF PairFree, Racing
<1>1. ~ Mutual(lines)
  BY DEF PairFree
<1>2. ASSUME NEW b \in Admins, Pending(b)', Racing(tx'[b]) # "administration"
      PROVE  ~ Mutual(LinesAfter(tx[b])')
  <2>1. tx'[b] = tx[b] /\ Pending(b) /\ Racing(tx[b]) # "administration"
    BY <1>2 DEF Pending
  <2>2. LinesAfter(tx[b])' = LinesAfter(tx[b])
    BY <2>1, SameAfter
  <2> QED
    BY <2>1, <2>2 DEF PairFree
<1> QED
  BY <1>1, <1>2

LEMMA PostedPairFree ==
    ASSUME OrgTyped, PairFree, NEW a \in Admins, Posted(a)
    PROVE  PairFree'
<1>1. CASE raced = "administration"
  <2>1. PICK t : Starts(a, t)
    BY PostedStarts
  <2> QED
    BY <1>1, <2>1 DEF PairFree, Starts
<1>2. CASE raced # "administration"
  <2>1. ~ Mutual(lines)
    BY <1>2 DEF PairFree
  <2>2. PICK t : Starts(a, t) /\ ~ Mutual(LinesAfter(t))
    BY <2>1, PostedMakesNoPair
  <2>3. UNCHANGED <<lines, parent, edits, raced>> /\ tx' = [tx EXCEPT ![a] = t]
    BY <2>2 DEF Starts, orgVars
  <2>4. tx'[a] = t /\ \A b \in Admins \ {a} : tx'[b] = tx[b]
    BY <2>3 DEF OrgTyped, TypeOK
  <2>5. ASSUME NEW b \in Admins, Pending(b)', Racing(tx'[b]) # "administration"
        PROVE  ~ Mutual(LinesAfter(tx[b])')
    <3>1. CASE b = a
      <4>1. LinesAfter(tx[b])' = LinesAfter(t)
        BY <2>3, <2>4, <3>1, SameAfter
      <4> QED
        BY <2>2, <4>1
    <3>2. CASE b # a
      <4>1. tx'[b] = tx[b] /\ Pending(b) /\ Racing(tx[b]) # "administration"
        BY <2>4, <2>5, <3>2 DEF Pending
      <4>2. LinesAfter(tx[b])' = LinesAfter(tx[b])
        BY <2>3, <4>1, SameAfter
      <4> QED
        BY <1>2, <4>1, <4>2 DEF PairFree
    <3> QED
      BY <3>1, <3>2
  <2> QED
    BY <2>1, <2>3, <2>5 DEF PairFree, Racing
<1> QED
  BY <1>1, <1>2
\* ... so with a transaction of the services.
LEMMA AfterLater ==
    ASSUME NEW t \in Transaction, Upright(t), t.kind \in {"person", "team", "unit"},
           NEW rows, Rows(rows), NEW key \in Int, \A l \in rows : l.key < key,
           NEW later, Rows(later), NEW next \in Int, \A l \in later : l.key < next,
           ~ Mutual(later), ~ Mutual(After(t, rows, key)),
           t.kind = "person" => \A x \in later \ rows : x.supervisor # t.writes.person,
           t.kind = "team" =>
              \A x \in later \ rows, e \in DOMAIN t.writes.by :
                  ~ (x.employee = t.writes.by[e] /\ x.supervisor = e)
    PROVE  ~ Mutual(After(t, later, next))
<1>1. CASE t.kind = "person"
  <2> DEFINE p == t.writes.person
             s == t.writes.supervisor
  <2>1. t \in Decided("person", PersonWrites)
    BY <1>1 DEF Transaction, Decided
  <2>2. p \in People /\ s \in People \cup {None} /\ p # s
    BY <1>1, <2>1 DEF Decided, PersonWrites, Upright
  <2>3. CASE s = None
    <3>1. After(t, later, next) \subseteq later
      BY <1>1, <2>3 DEF After
    <3> QED
      BY <3>1, FewerPairs
  <2>4. CASE s # None
    <3> DEFINE by == [d \in {p} |-> s]
               D == {p}
    <3>1. /\ After(t, rows, key) = WithSupervisor(rows, p, s, key)
          /\ After(t, later, next) = WithSupervisor(later, p, s, next)
      BY <1>1, <2>4 DEF After
    <3>2. /\ WithSupervisor(rows, p, s, key) = Moved(rows, by, D, key)
          /\ WithSupervisor(later, p, s, next) = Moved(later, by, D, next)
      BY OneMove
    <3>3. ~ Mutual(Moved(rows, by, D, key))
      BY <3>1, <3>2
    <3>4. D \in SUBSET People /\ by \in [D -> People] /\ \A e \in D : by[e] # e
      BY <2>2, <2>4
    <3>5. \A x \in later \ rows, e \in D : ~ (x.employee = by[e] /\ x.supervisor = e)
      BY <1>1
    <3> HIDE DEF by, D
    <3>6. ~ Mutual(Moved(later, by, D, next))
      BY <3>3, <3>4, <3>5, PairLater
    <3> QED
      BY <3>1, <3>2, <3>6
  <2> QED
    BY <2>3, <2>4
<1>2. CASE t.kind = "team"
  <2> DEFINE by == t.writes.by
             D == DOMAIN by
  <2>1. D \in SUBSET People /\ by \in [D -> People] /\ \A e \in D : by[e] # e
    BY <1>2, TeamEndsAre DEF Upright
  <2>2. /\ After(t, rows, key) = Moved(rows, by, D, key)
        /\ After(t, later, next) = Moved(later, by, D, next)
    BY <1>2 DEF After
  <2>3. \A x \in later \ rows, e \in D : ~ (x.employee = by[e] /\ x.supervisor = e)
    BY <1>2
  <2> HIDE DEF by, D
  <2>4. ~ Mutual(Moved(rows, by, D, key))
    BY <2>2
  <2>5. ~ Mutual(Moved(later, by, D, next))
    BY <2>1, <2>3, <2>4, PairLater
  <2> QED
    BY <2>2, <2>5
<1>3. CASE t.kind = "unit"
  BY <1>3 DEF After
<1> QED
  BY <1>1, <1>2, <1>3

LEMMA CommitPairFree ==
    ASSUME OrgTyped, Exclusive, PairFree, NEW a \in Admins, Commit(a)
    PROVE  PairFree'
<1> SUFFICES ASSUME raced' # "administration"
             PROVE  /\ ~ Mutual(lines')
                    /\ \A b \in Admins : Pending(b)' /\ Racing(tx'[b]) # "administration" =>
                          ~ Mutual(LinesAfter(tx[b])')
  BY DEF PairFree, Racing, Mutual
<1>1. Pending(a) /\ lines' = LinesAfter(tx[a]) /\ (tx[a].kind \in {"unit", "link"} => lines' = lines)
  BY CommitEffect
<1>2. tx[a] \in Transaction /\ Sound(tx[a]) /\ Upright(tx[a])
  BY <1>1, PendingTyped
<1>3. raced # "administration" /\ Racing(tx[a]) # "administration"
  <2>1. raced' = Among(raced, Racing(tx[a]))
    BY DEF Commit
  <2> QED
    BY <2>1, AmongRacers
<1>4. ~ Mutual(lines')
  BY <1>1, <1>3 DEF PairFree
<1>5. ASSUME NEW b \in Admins, Pending(b)', Racing(tx'[b]) # "administration"
      PROVE  ~ Mutual(LinesAfter(tx[b])')
  <2> DEFINE t == tx[b]
  <2>1. /\ b # a /\ Pending(b) /\ t \in Transaction
        /\ tx'[b].kind = t.kind /\ tx'[b].writes = t.writes
        /\ tx'[b].alone = Among(t.alone, Writer(tx[a].kind))
    BY <1>5, CommitOthers DEF Pending
  <2>2. Sound(t) /\ Upright(t)
    BY <2>1, PendingTyped
  <2>3. tx'[b].alone # "nobody"
    BY <2>1, AmongRacers DEF Writer, Racers
  <2>4. /\ tx'[b].alone # "administration" /\ Writer(t.kind) # "administration"
        /\ t.alone # "administration" /\ Writer(tx[a].kind) # "administration"
    <3>1. Among(tx'[b].alone, Writer(t.kind)) # "administration"
      BY <1>5, <2>1, <2>3 DEF Racing
    <3> QED
      BY <2>1, <3>1, AmongRacers
  <2>5. t.kind \in {"person", "team", "unit"} /\ tx[a].kind \in {"person", "team", "unit"}
    BY <1>2, <2>1, <2>4 DEF Writer, Transaction, Decided
  <2>6. Racing(t) # "administration"
    BY <2>4 DEF Racing, Among
  <2>7. ~ Mutual(LinesAfter(t))
    BY <1>3, <2>1, <2>6 DEF PairFree
  <2>8. LinesAfter(tx[b])' = After(t, lines', NextKey')
    BY <2>1 DEF LinesAfter, After
  <2>9. /\ NextKey \in Int /\ Rows(lines) /\ \A l \in lines : l.key < NextKey
    BY NextKeyIsNew
  <2>10. NextKey' \in Int /\ Rows(lines') /\ \A l \in lines' : l.key < NextKey'
    <3>1. Rows(lines') /\ \A l \in lines' : l.key <= NextKey
      BY <1>1, LinesFollow DEF Follows
    <3>2. NextKey' = NextKey + 1
      BY DEF NextKey, Commit
    <3>3. \A l \in lines' : l.key \in Int
      BY <3>1 DEF Rows, Line
    <3> QED
      BY <2>9, <3>1, <3>2, <3>3
  <2>11. \A x \in lines' \ lines : /\ {x.employee, x.supervisor} \subseteq Pointed(tx[a])
                                   /\ x.employee \in Written(tx[a])
    BY <1>1, LinesFollow DEF Follows
  <2>12. b \in Busy \ {a} /\ Pointed(tx[a]) \cap t.users = {}
    BY <2>1 DEF Busy, Pending, Commit, WaitsForAccount
  <2>13. t.kind = "person" => \A x \in lines' \ lines : x.supervisor # t.writes.person
    BY <2>2, <2>11, <2>12 DEF Sound
  <2>14. t.kind = "team" => \A x \in lines' \ lines, e \in DOMAIN t.writes.by :
                               ~ (x.employee = t.writes.by[e] /\ x.supervisor = e)
    <3> SUFFICES ASSUME t.kind = "team", NEW x \in lines' \ lines, NEW e \in DOMAIN t.writes.by
                 PROVE  x.employee # t.writes.by[e]
      OBVIOUS
    <3>1. t.writes.by[e] \in TeamEnds(t) /\ t.writes.by[e] \in People
      BY <2>1, TeamEndsAre DEF TeamEnds
    <3>2. t.writes.by[e] \notin tx[a].rows
      BY <1>1, <2>1, <3>1 DEF Exclusive
    <3>3. CASE tx[a].kind = "person"
      BY <1>2, <2>11, <3>2, <3>3 DEF Written, Sound
    <3>4. CASE tx[a].kind = "team"
      BY <1>2, <3>1, <3>2, <3>4 DEF Sound
    <3>5. CASE tx[a].kind = "unit"
      BY <1>1, <3>5
    <3> QED
      BY <2>5, <3>3, <3>4, <3>5
  <2> DEFINE key == NextKey
             next == NextKey'
  <2>15. ~ Mutual(After(t, lines, key))
    BY <2>7 DEF LinesAfter
  <2> HIDE DEF t, key, next
  <2>16. ~ Mutual(After(t, lines', next))
    BY <1>4, <2>1, <2>2, <2>5, <2>9, <2>10, <2>13, <2>14, <2>15, AfterLater DEF key, next
  <2> QED
    BY <2>8, <2>16 DEF t, next
<1> QED
  BY <1>4, <1>5

LEMMA QuickPairFree ==
    ASSUME OrgTyped, PairFree, NEW a \in Admins, Quick(a)
    PROVE  PairFree'
<1>1. Simple(a) /\ lines' \subseteq lines
  BY QuickEffect
<1>2. raced' # "administration" => ~ Mutual(lines')
  BY <1>1, FewerPairs DEF PairFree, Simple
<1>3. ASSUME NEW b \in Admins, Pending(b)' PROVE Racing(tx'[b]) = "administration"
  <2>1. tx'[b].alone = "administration"
    BY <1>1, <1>3, QuickOthers DEF Pending
  <2> QED
    BY <2>1 DEF Racing, Among
<1> QED
  BY <1>2, <1>3 DEF PairFree, Racing, Mutual
-----------------------------------------------------------------------------
(* The team pages                                                          *)

LEMMA SameRows == ASSUME NEW rows, Rows(rows) PROVE StillSame(rows, rows)
  BY DEF Rows, StillSame

LEMMA LaterRows ==
    ASSUME NEW page, NEW rows, NEW new, NEW n \in Int, NEW key, key = n + 1,
           Rows(page), \A k \in page : k.key <= n,
           StillSame(page, rows), \A l \in new : l.key # key => ComesFrom(l, rows)
    PROVE  StillSame(page, new)
<1> SUFFICES ASSUME NEW k \in page, NEW l \in new, k.employee = l.employee, k.key = l.key
             PROVE  /\ k.fresh = l.fresh
                    /\ k.primary => l.primary
                    /\ l.primary => k.primary \/ k.fresh
  BY DEF StillSame
<1>1. l.key # key
  BY DEF Rows, Line
<1>2. PICK m \in rows : /\ m.employee = l.employee /\ m.key = l.key /\ m.fresh = l.fresh
                        /\ m.primary => l.primary
                        /\ l.primary => m.primary \/ m.fresh
  BY <1>1 DEF ComesFrom
<1>3. /\ k.fresh = m.fresh
      /\ k.primary => m.primary
      /\ m.primary => k.primary \/ k.fresh
  BY <1>2 DEF StillSame
<1> QED
  BY <1>2, <1>3

\* A page that is still open, when the rows have followed.
LEMMA PagesFollow ==
    ASSUME OrgTyped, Pages,
           \A b \in Admins : form'[b] = None \/ form'[b] = form[b],
           edits' \in Nat, edits <= edits',
           \A l \in lines' : l.key # NextKey => ComesFrom(l, lines)
    PROVE  Pages'
<1> SUFFICES ASSUME NEW b \in Admins, TeamPage(b)'
             PROVE  /\ Rows(form'[b].shown) /\ form'[b].token[3] = Traced(form'[b].shown)
                    /\ \A k \in form'[b].shown : k.key <= edits'
                    /\ StillSame(form'[b].shown, lines')
  BY DEF Pages
<1> DEFINE page == form[b].shown
<1>1. form'[b] = form[b] /\ TeamPage(b)
  BY DEF TeamPage
<1>2. /\ Rows(page) /\ form[b].token[3] = Traced(page)
      /\ \A k \in page : k.key <= edits
      /\ StillSame(page, lines)
  BY <1>1 DEF Pages
<1>3. edits \in Int /\ NextKey = edits + 1
  BY NextKeyIsNew DEF NextKey
<1>4. \A k \in page : k.key \in Int
  BY <1>2 DEF Rows, Line
<1>5. \A k \in page : k.key <= edits'
  BY <1>2, <1>3, <1>4
<1>6. StillSame(page, lines')
  BY <1>2, <1>3, LaterRows
<1> QED
  BY <1>1, <1>2, <1>5, <1>6

LEMMA OpensPagePages ==
    ASSUME OrgTyped, Pages, NEW a \in Admins, OpensPage(a)
    PROVE  Pages'
<1>1. PICK kind, target : OpenPage(a, kind, target)
  BY DEF OpensPage
<1> DEFINE page == [kind |-> kind, target |-> target, token |-> Token(kind, target),
                    shown |-> IF kind = "team" THEN lines ELSE {}]
<1>2. form' = [form EXCEPT ![a] = page] /\ UNCHANGED <<lines, edits>>
  BY <1>1 DEF OpenPage, orgVars
<1>3. DOMAIN form = Admins
  BY DEF OrgTyped, TypeOK
<1>4. form'[a] = page /\ \A b \in Admins \ {a} : form'[b] = form[b]
  BY <1>2, <1>3
<1>5. page.kind = "team" =>
        page.shown = lines /\ page.token = TeamToken(target)
  BY DEF Token
<1>6. TeamToken(target)[3] = Traced(lines)
  BY DEF TeamToken, Traced
<1> HIDE DEF page
<1>7. Rows(lines) /\ (\A l \in lines : l.key <= edits) /\ StillSame(lines, lines)
  BY SameRows DEF OrgTyped, TypeOK, HierarchyTypeOK, KeysGiven
<1>8. ASSUME NEW b \in Admins, TeamPage(b)'
      PROVE  /\ Rows(form'[b].shown) /\ form'[b].token[3] = Traced(form'[b].shown)
             /\ \A k \in form'[b].shown : k.key <= edits'
             /\ StillSame(form'[b].shown, lines')
  <2>1. CASE b = a
    <3>1. form'[b].kind = "team"
      BY <1>8 DEF TeamPage
    <3>2. form'[b].shown = lines /\ form'[b].token[3] = Traced(lines)
      BY <1>4, <1>5, <1>6, <2>1, <3>1
    <3> QED
      BY <1>2, <1>7, <3>2
  <2>2. CASE b # a
    <3>1. form'[b] = form[b] /\ TeamPage(b)
      BY <1>4, <1>8, <2>2 DEF TeamPage
    <3> QED
      BY <1>2, <3>1 DEF Pages
  <2> QED
    BY <2>1, <2>2
<1> QED
  BY <1>8 DEF Pages

LEMMA CommitPages ==
    ASSUME OrgTyped, Pages, NEW a \in Admins, Commit(a)
    PROVE  Pages'
<1>1. Pending(a) /\ lines' = LinesAfter(tx[a])
  BY CommitEffect
<1>2. \A l \in lines' : l.key # NextKey => ComesFrom(l, lines)
  BY <1>1, LinesFollow DEF Follows
<1>3. \A b \in Admins : form'[b] = None \/ form'[b] = form[b]
  BY DEF Commit, OrgTyped, TypeOK
<1>4. edits' \in Nat /\ edits <= edits'
  BY NextKeyIsNew DEF Commit
<1> QED
  BY <1>2, <1>3, <1>4, PagesFollow

LEMMA FewerComeFrom ==
    ASSUME lines' \subseteq lines
    PROVE  \A l \in lines' : ComesFrom(l, lines)
  BY DEF ComesFrom

LEMMA QuickPages ==
    ASSUME OrgTyped, Pages, NEW a \in Admins, Quick(a)
    PROVE  Pages'
<1>1. Simple(a) /\ lines' \subseteq lines
  BY QuickEffect
<1>2. edits' \in Nat /\ edits <= edits' /\ form' = form
  BY <1>1, NextKeyIsNew DEF Simple
<1> QED
  BY <1>1, <1>2, FewerComeFrom, PagesFollow

LEMMA QuietPages ==
    ASSUME OrgTyped, Pages, UNCHANGED <<lines, edits>>,
           \A b \in Admins : form'[b] = None \/ form'[b] = form[b]
    PROVE  Pages'
<1>1. edits' \in Nat /\ edits <= edits'
  BY NextKeyIsNew
<1> QED
  BY <1>1, FewerComeFrom, PagesFollow

\* A page whose token is still that of the rows shows everybody's N+1, but
\* for a row of the day that was secondary.
LEMMA TokenShows ==
    ASSUME NEW page, Rows(page), Rows(lines), StillSame(page, lines),
           Traced(page) = Traced(lines), NEW e
    PROVE  AsShown(page, e)
<1>1. ASSUME NEW k \in page
      PROVE  \E l \in lines : /\ k.employee = l.employee /\ k.key = l.key
                              /\ k.supervisor = l.supervisor /\ k.fresh = l.fresh
                              /\ k.primary => l.primary
                              /\ l.primary => k.primary \/ k.fresh
  <2>1. <<k.employee, k.key, k.supervisor, k.fresh>> \in Traced(lines)
    BY DEF Traced
  <2> QED
    BY <2>1 DEF Traced, StillSame
<1>2. ASSUME NEW l \in lines
      PROVE  \E k \in page : /\ k.employee = l.employee /\ k.key = l.key
                             /\ k.supervisor = l.supervisor /\ k.fresh = l.fresh
                             /\ k.primary => l.primary
                             /\ l.primary => k.primary \/ k.fresh
  <2>1. <<l.employee, l.key, l.supervisor, l.fresh>> \in Traced(page)
    BY DEF Traced
  <2> QED
    BY <2>1 DEF Traced, StillSame
<1>3. page \subseteq Line /\ lines \subseteq Line
  BY DEF Rows
<1>4. CASE \E l \in NPlus1(lines, e) : l.fresh /\ [l EXCEPT !.primary = FALSE] \in page
  BY <1>4 DEF AsShown
<1>5. CASE ~ \E l \in NPlus1(lines, e) : l.fresh /\ [l EXCEPT !.primary = FALSE] \in page
  <2>1. ASSUME NEW l \in NPlus1(lines, e) PROVE l \in NPlus1(page, e)
    <3>1. l \in lines /\ l.primary /\ l.employee = e
      BY DEF NPlus1
    <3>2. PICK k \in page : /\ k.employee = l.employee /\ k.key = l.key
                            /\ k.supervisor = l.supervisor /\ k.fresh = l.fresh
                            /\ k.primary \/ k.fresh
      BY <1>2, <3>1
    <3>3. CASE k.primary
      <4>1. k = l
        BY <1>3, <3>1, <3>2, <3>3 DEF Line
      <4> QED
        BY <3>1, <4>1 DEF NPlus1
    <3>4. CASE ~ k.primary
      <4>1. k = [l EXCEPT !.primary = FALSE]
        BY <1>3, <3>1, <3>2, <3>4 DEF Line
      <4> QED
        BY <1>5, <3>2, <3>4, <4>1
    <3> QED
      BY <3>3, <3>4
  <2>2. ASSUME NEW k \in NPlus1(page, e) PROVE k \in NPlus1(lines, e)
    <3>1. k \in page /\ k.primary /\ k.employee = e
      BY DEF NPlus1
    <3>2. PICK l \in lines : /\ k.employee = l.employee /\ k.key = l.key
                             /\ k.supervisor = l.supervisor /\ k.fresh = l.fresh
                             /\ l.primary
      BY <1>1, <3>1
    <3>3. k = l
      BY <1>3, <3>1, <3>2 DEF Line
    <3> QED
      BY <3>1, <3>2, <3>3 DEF NPlus1
  <2>3. NPlus1(lines, e) = NPlus1(page, e)
    BY <2>1, <2>2
  <2> QED
    BY <2>3 DEF AsShown
<1> QED
  BY <1>4, <1>5
\* The N+1 of who is not written stays.
LEMMA NPlus1Stays ==
    ASSUME OrgTyped, NEW a \in Admins, Commit(a), NEW e \in People,
           e \notin tx[a].rows \/ e \notin Written(tx[a])
    PROVE  NPlus1(lines', e) = NPlus1(lines, e)
<1> DEFINE t == tx[a]
           w == t.writes
<1>1. Pending(a) /\ lines' = LinesAfter(t) /\ (t.kind \in {"unit", "link"} => lines' = lines)
  BY CommitEffect
<1>2. t \in Transaction /\ Sound(t)
  BY <1>1, PendingTyped
<1>3. Follows(lines', lines, NextKey, t)
  BY <1>1, LinesFollow
<1>4. CASE e \notin Written(t)
  BY <1>3, <1>4 DEF Follows, NPlus1
<1>5. CASE e \in Written(t) /\ e \notin t.rows
  <2>1. t.kind \in {"person", "team", "line"}
    BY <1>5 DEF Written
  <2>2. t.kind = "line" /\ ~ w.primary
    BY <1>2, <1>5, <2>1 DEF Sound, Written
  <2> DEFINE n == [NewLine(w.employee, w.supervisor, NextKey) EXCEPT !.primary = FALSE]
  <2>3. lines' = lines \cup {n}
    BY <1>1, <2>2 DEF LinesAfter, After
  <2>4. ~ n.primary
    BY DEF NewLine
  <2> QED
    BY <2>3, <2>4 DEF NPlus1
<1> QED
  BY <1>4, <1>5

LEMMA AsShownStays ==
    ASSUME NEW page, NEW e, AsShown(page, e), NPlus1(lines', e) = NPlus1(lines, e)
    PROVE  AsShown(page, e)'
  BY DEF AsShown

LEMMA TeamsSeenFollow ==
    ASSUME OrgTyped, TeamsSeen,
           \A b \in Admins : tx'[b] # None =>
              /\ tx[b] # None /\ tx'[b].kind = tx[b].kind /\ tx'[b].writes = tx[b].writes
              /\ form'[b] = form[b]
              /\ tx[b].kind = "team" => \A e \in DOMAIN tx[b].writes.by :
                                            NPlus1(lines', e) = NPlus1(lines, e)
    PROVE  TeamsSeen'
<1> SUFFICES ASSUME NEW b \in Admins, Pending(b)', tx'[b].kind = "team"
             PROVE  /\ TeamPage(b)'
                    /\ \A e \in DOMAIN tx'[b].writes.by : AsShown(form[b].shown, e)'
  BY DEF TeamsSeen
<1>1. Pending(b) /\ tx[b].kind = "team" /\ tx'[b].writes = tx[b].writes /\ form'[b] = form[b]
  BY DEF Pending
<1>2. TeamPage(b) /\ \A e \in DOMAIN tx[b].writes.by : AsShown(form[b].shown, e)
  BY <1>1 DEF TeamsSeen
<1>3. \A e \in DOMAIN tx[b].writes.by : NPlus1(lines', e) = NPlus1(lines, e)
  BY <1>1 DEF Pending
<1>4. TeamPage(b)'
  BY <1>1, <1>2 DEF TeamPage
<1>5. ASSUME NEW e \in DOMAIN tx'[b].writes.by PROVE AsShown(form[b].shown, e)'
  BY <1>1, <1>2, <1>3 DEF AsShown
<1> QED
  BY <1>4, <1>5

LEMMA CommitTeamsSeen ==
    ASSUME OrgTyped, Exclusive, TeamsSeen, NEW a \in Admins, Commit(a)
    PROVE  TeamsSeen'
<1>1. Pending(a)
  BY CommitEffect
<1>2. ASSUME NEW b \in Admins, tx'[b] # None
      PROVE  /\ tx[b] # None /\ tx'[b].kind = tx[b].kind /\ tx'[b].writes = tx[b].writes
             /\ form'[b] = form[b]
             /\ tx[b].kind = "team" => \A e \in DOMAIN tx[b].writes.by :
                                           NPlus1(lines', e) = NPlus1(lines, e)
  <2>1. /\ b # a /\ Pending(b) /\ tx[b] \in Transaction
        /\ tx'[b].kind = tx[b].kind /\ tx'[b].writes = tx[b].writes
    BY <1>2, CommitOthers
  <2>2. form'[b] = form[b]
    BY <2>1 DEF Commit, OrgTyped, TypeOK
  <2>3. ASSUME tx[b].kind = "team", NEW e \in DOMAIN tx[b].writes.by
        PROVE  NPlus1(lines', e) = NPlus1(lines, e)
    <3>1. e \in TeamEnds(tx[b]) /\ e \in People
      BY <2>1, <2>3, TeamEndsAre
    <3>2. e \notin tx[a].rows
      BY <1>1, <2>1, <2>3, <3>1 DEF Exclusive
    <3> QED
      BY <3>1, <3>2, NPlus1Stays
  <2> QED
    BY <2>1, <2>2, <2>3 DEF Pending
<1> QED
  BY <1>2, TeamsSeenFollow

LEMMA QuickTeamsSeen ==
    ASSUME OrgTyped, TeamsSeen, NEW a \in Admins, Quick(a)
    PROVE  TeamsSeen'
<1>1. Simple(a) /\ lines' \subseteq lines /\ \A l \in lines : l.primary => l \in lines'
  BY QuickEffect
<1>2. \A e : NPlus1(lines', e) = NPlus1(lines, e)
  BY <1>1 DEF NPlus1
<1>3. \A b \in Admins : tx'[b] # None => /\ tx[b] # None /\ tx'[b].kind = tx[b].kind
                                         /\ tx'[b].writes = tx[b].writes
  BY <1>1, QuickOthers DEF Pending
<1>4. form' = form
  BY <1>1 DEF Simple
<1> QED
  BY <1>2, <1>3, <1>4, TeamsSeenFollow

LEMMA QuietTeamsSeen ==
    ASSUME OrgTyped, TeamsSeen, lines' = lines,
           \A b \in Admins : tx'[b] = None \/ (tx'[b] = tx[b] /\ form'[b] = form[b])
    PROVE  TeamsSeen'
  BY TeamsSeenFollow

LEMMA PostedTeamsSeen ==
    ASSUME OrgTyped, Pages, TeamsSeen, NEW a \in Admins, Posted(a)
    PROVE  TeamsSeen'
<1>1. ASSUME PostTeam(a)
      PROVE  TeamPage(a) /\ \A e : AsShown(form[a].shown, e)
  <2>1. Posts(a, "team")
    BY <1>1, TeamDecides
  <2>2. TeamPage(a) /\ form[a].token = TeamToken(form[a].target)
    BY <2>1 DEF Posts, TeamPage, Token
  <2>3. TeamToken(form[a].target)[3] = Traced(lines)
    BY DEF TeamToken, Traced
  <2> DEFINE page == form[a].shown
  <2>4. Rows(page) /\ Traced(page) = Traced(lines) /\ StillSame(page, lines)
    BY <2>2, <2>3 DEF Pages
  <2>5. Rows(lines)
    BY TypedRows
  <2> HIDE DEF page
  <2>6. \A e : AsShown(page, e)
    BY <2>4, <2>5, TokenShows
  <2> QED
    BY <2>2, <2>6 DEF page
<1>2. PICK t : Starts(a, t) /\ (t.kind = "team" => PostTeam(a))
  <2>1. PostPerson(a) \/ PostLine(a) \/ PostUnit(a) \/ PostLink(a)
           => \E t : Starts(a, t) /\ t.kind # "team"
    BY PersonDecides, LineDecides, UnitDecides, LinkDecides
  <2> QED
    BY <2>1, TeamDecides DEF Posted
<1>3. /\ tx'[a] = t /\ (\A b \in Admins \ {a} : tx'[b] = tx[b])
      /\ UNCHANGED <<lines, form>>
  BY <1>2 DEF Starts, OrgTyped, TypeOK, orgVars
<1>4. ASSUME NEW b \in Admins, Pending(b)', tx'[b].kind = "team"
      PROVE  /\ TeamPage(b)'
             /\ \A e \in DOMAIN tx'[b].writes.by : AsShown(form[b].shown, e)'
  <2>1. TeamPage(b) /\ \A e \in DOMAIN tx'[b].writes.by : AsShown(form[b].shown, e)
    <3>1. CASE b = a
      BY <1>1, <1>2, <1>3, <1>4, <3>1
    <3>2. CASE b # a
      BY <1>3, <1>4, <3>2 DEF TeamsSeen, Pending
    <3> QED
      BY <3>1, <3>2
  <2> QED
    BY <1>3, <2>1 DEF TeamPage, AsShown
<1> QED
  BY <1>4 DEF TeamsSeen

-----------------------------------------------------------------------------
(* The theorems of the organisation                                        *)

LEMMA OrgInitially == Init => OrgInv
<1> SUFFICES ASSUME Init PROVE OrgInv
  OBVIOUS
<1>1. PICK c \in Charts : parent = c.parent /\ lines = c.lines
  BY DEF Init
<1>2. /\ ~ Loop(UnitEdges(parent), Units) /\ ~ Loop(LineEdges(lines), People)
      /\ Rows(lines)
  BY <1>1, ChartsAssumption
<1>3. \A b \in Admins : ~ Pending(b) /\ ~ TeamPage(b)
  BY DEF Init, Pending, TeamPage
<1>4. ~ Mutual(lines)
  <2> SUFFICES ASSUME NEW k \in lines, NEW l \in lines,
                      k.employee = l.supervisor, l.employee = k.supervisor
               PROVE  Loop(LineEdges(lines), People)
    BY <1>2 DEF Mutual
  <2> DEFINE n == k.employee
             from == {d[2] : d \in {c1 \in LineEdges(lines) : c1[1] = n}}
             R == Reachable(LineEdges(lines), from, People)
  <2>1. n \in People /\ l.employee \in People
    BY <1>2 DEF Rows, Line
  <2>2. <<n, l.employee>> \in LineEdges(lines) /\ <<l.employee, n>> \in LineEdges(lines)
    BY DEF LineEdges
  <2>3. l.employee \in from
    BY <2>2
  <2>4. l.employee \in R
    BY <2>1, <2>3, ReachStarts
  <2>5. n \in R
    BY <2>1, <2>2, <2>4, ReachClosed
  <2> QED
    BY <2>1, <2>5 DEF Loop
<1> QED
  BY <1>2, <1>3, <1>4, OrgInitial DEF OrgInv, Exclusive, LoopFree, PairFree, Pages, TeamsSeen

LEMMA OrgInductive == OrgInv /\ [Next]_vars => OrgInv'
<1> SUFFICES ASSUME OrgInv, [Next]_vars PROVE OrgInv'
  OBVIOUS
<1>1. OrgTyped /\ Exclusive /\ LoopFree /\ PairFree /\ Pages /\ TeamsSeen
  BY DEF OrgInv
<1>2. OrgTyped'
  BY <1>1, NextTyped
<1>3. DOMAIN form = Admins /\ DOMAIN tx = Admins
  BY <1>1 DEF OrgTyped, TypeOK
<1>4. ASSUME UNCHANGED <<lines, parent, edits, raced>>,
             \A b \in Admins : form'[b] = None \/ form'[b] = form[b] \/ tx[b] = None,
             \A b \in Admins : tx'[b] = None \/ (tx'[b] = tx[b] /\ (tx[b] = None \/ form'[b] = form[b]))
      PROVE  Exclusive' /\ LoopFree' /\ PairFree' /\ TeamsSeen'
  <2>1. Exclusive'
    BY <1>1, <1>4, OthersExclusive
  <2>2. LoopFree' /\ PairFree'
    BY <1>1, <1>4, QuietLoopFree, QuietPairFree
  <2>3. TeamsSeen'
    BY <1>1, <1>4, QuietTeamsSeen
  <2> QED
    BY <2>1, <2>2, <2>3
<1>5. CASE UNCHANGED vars
  <2>1. UNCHANGED <<lines, parent, edits, raced, form, tx>>
    BY <1>5 DEF vars, orgVars
  <2>2. Exclusive' /\ LoopFree' /\ PairFree' /\ TeamsSeen'
    BY <1>4, <2>1
  <2>3. Pages'
    BY <1>1, <2>1, QuietPages
  <2> QED
    BY <1>2, <2>2, <2>3 DEF OrgInv
<1>6. CASE Next
  <2>1. PICK a \in Admins : OpensPage(a) \/ Posted(a) \/ Commit(a) \/ Abort(a) \/ Quick(a)
    BY <1>6, NextIs
  <2>2. CASE OpensPage(a)
    <3>1. /\ UNCHANGED <<lines, parent, edits, raced, tx>> /\ tx[a] = None
          /\ \A b \in Admins \ {a} : form'[b] = form[b]
      BY <1>3, <2>2 DEF OpensPage, OpenPage, orgVars
    <3>2. Exclusive' /\ LoopFree' /\ PairFree' /\ TeamsSeen'
      BY <1>4, <3>1
    <3> QED
      BY <1>1, <1>2, <2>2, <3>2, OpensPagePages DEF OrgInv
  <2>3. CASE Posted(a)
    <3>1. PICK t : Starts(a, t)
      BY <1>1, <2>3, PostedStarts
    <3>2. UNCHANGED <<lines, edits, form>>
      BY <3>1 DEF Starts, orgVars
    <3>3. Pages'
      BY <1>1, <3>2, QuietPages
    <3> QED
      BY <1>1, <1>2, <2>3, <3>3, PostedExclusive, PostedLoopFree, PostedPairFree,
         PostedTeamsSeen DEF OrgInv
  <2>4. CASE Commit(a)
    <3>1. Exclusive'
      BY <1>1, <2>4, CommitOthers, OthersExclusive DEF Pending
    <3> QED
      BY <1>1, <1>2, <2>4, <3>1, CommitLoopFree, CommitPairFree, CommitPages,
         CommitTeamsSeen DEF OrgInv
  <2>5. CASE Abort(a)
    <3>1. /\ UNCHANGED <<lines, parent, edits, raced>>
          /\ \A b \in Admins : \/ b = a /\ tx'[b] = None /\ form'[b] = None
                               \/ b # a /\ tx'[b] = tx[b] /\ form'[b] = form[b]
      BY <1>3, <2>5 DEF Abort, orgVars
    <3>2. Exclusive' /\ LoopFree' /\ PairFree' /\ TeamsSeen'
      BY <1>4, <3>1
    <3>3. Pages'
      BY <1>1, <3>1, QuietPages
    <3> QED
      BY <1>2, <3>2, <3>3 DEF OrgInv
  <2>6. CASE Quick(a)
    <3>1. Simple(a)
      BY <1>1, <2>6, QuickEffect
    <3>2. Exclusive'
      BY <1>1, <3>1, QuickOthers, OthersExclusive DEF Pending
    <3> QED
      BY <1>1, <1>2, <2>6, <3>2, QuickLoopFree, QuickPairFree, QuickPages,
         QuickTeamsSeen DEF OrgInv
  <2> QED
    BY <2>1, <2>2, <2>3, <2>4, <2>5, <2>6
<1> QED
  BY <1>5, <1>6

LEMMA OrgAlways == Spec => []OrgInv
  BY OrgInitially, OrgInductive, PTL DEF Spec

\* Two people supervise each other only after a race in which a form of the
\* administration took part: the services lock the account of a user page and
\* the rows of a team page (update_user_organization and
\* update_primary_collaborators), and wait for the accounts they point to.
THEOREM PairsNeedTheAdministration == Spec => []MutualSupervisionNeedsTheAdministration
<1>1. OrgInv => MutualSupervisionNeedsTheAdministration
  BY DEF OrgInv, PairFree, Mutual, MutualSupervisionNeedsTheAdministration
<1> QED
  BY <1>1, OrgAlways, PTL

\* A team page moves nobody whose N+1 is not the one it displayed, but for a
\* secondary row of the day promoted since, and takes no N+1 away
\* (collaborator_state_token and _move_primary_collaborator).
THEOREM TeamEditsAreSeen == Spec => NoBlindTeamEdit
<1> DEFINE Seen ==
      \A a \in Admins :
         tx[a] # None /\ tx[a].kind = "team" /\ tx'[a] = None /\ lines' # lines =>
            \A p \in People :
                NPlus1(lines', p) # NPlus1(lines, p) =>
                    /\ \/ NPlus1(lines, p) = NPlus1(form[a].shown, p)
                       \/ \E l \in NPlus1(lines, p) :
                              l.fresh /\ [l EXCEPT !.primary = FALSE] \in form[a].shown
                    /\ NPlus1(lines, p) # {} => NPlus1(lines', p) # {}
<1>1. OrgInv /\ [Next]_vars => [Seen]_vars
  <2> SUFFICES ASSUME OrgInv, [Next]_vars, NEW a \in Admins,
                      tx[a] # None, tx[a].kind = "team", tx'[a] = None, lines' # lines,
                      NEW p \in People, NPlus1(lines', p) # NPlus1(lines, p)
               PROVE  /\ AsShown(form[a].shown, p)
                      /\ NPlus1(lines, p) # {} => NPlus1(lines', p) # {}
    BY DEF AsShown
  <2>1. OrgTyped /\ TeamsSeen /\ Pending(a)
    BY DEF OrgInv, Pending
  <2>2. PICK b \in Admins : Commit(b)
    <3>1. Next
      BY DEF vars, orgVars
    <3>2. PICK b \in Admins : OpensPage(b) \/ Posted(b) \/ Commit(b) \/ Abort(b) \/ Quick(b)
      BY <3>1, NextIs
    <3>3. ~ OpensPage(b) /\ ~ Abort(b)
      BY DEF OpensPage, OpenPage, Abort, orgVars
    <3>4. ~ Posted(b)
      BY <2>1, PostedStarts DEF Starts, orgVars
    <3>5. ~ Quick(b)
      <4> SUFFICES ASSUME Quick(b) PROVE FALSE
        OBVIOUS
      <4>1. lines' \subseteq lines /\ \A l \in lines : l.primary => l \in lines'
        BY <2>1, QuickEffect
      <4>2. NPlus1(lines', p) = NPlus1(lines, p)
        BY <4>1 DEF NPlus1
      <4> QED
        BY <4>2
    <3> QED
      BY <3>2, <3>3, <3>4, <3>5
  <2>3. b = a
    <3> SUFFICES ASSUME b # a PROVE FALSE
      OBVIOUS
    <3> DEFINE x == Among(tx[a].alone, Writer(tx[b].kind))
    <3>1. tx'[a] = [tx[a] EXCEPT !.alone = x]
      BY <2>2 DEF Commit
    <3>2. tx[a] \in Transaction /\ x \in Racers
      BY <2>1, PendingTyped, AmongRacers
    <3> HIDE DEF x
    <3>3. tx'[a] \in Transaction
      BY <3>1, <3>2, AloneChanges
    <3> QED
      BY <3>3, NoneIsNoTransaction
  <2> DEFINE by == tx[a].writes.by
             D == DOMAIN by
             key == NextKey
  <2>4. tx[a] \in Transaction /\ Sound(tx[a]) /\ lines' = LinesAfter(tx[a])
    BY <2>1, <2>2, <2>3, PendingTyped, CommitEffect
  <2>5. /\ D \in SUBSET People /\ by \in [D -> People] /\ \A e \in D : by[e] # e
        /\ Written(tx[a]) = D
    BY <2>4, TeamEndsAre DEF Sound, Written
  <2>6. lines' = Moved(lines, by, D, key)
    BY <2>4 DEF LinesAfter, After
  <2>7. p \in D
    BY <2>1, <2>2, <2>3, <2>5, NPlus1Stays
  <2>8. AsShown(form[a].shown, p)
    BY <2>1, <2>7 DEF TeamsSeen
  <2>9. key \in Int /\ Rows(lines) /\ \A l \in lines : l.key < key
    BY <2>1, NextKeyIsNew
  <2> DEFINE new == Moved(lines, by, D, key)
  <2> HIDE DEF by, D, key
  <2>10. \A e \in D : \E l \in lines' : l.employee = e /\ l.primary /\ l.supervisor = by[e]
    <3>1. \A e \in D : by[e] # e
      BY <2>5
    <3>2. D \in SUBSET People /\ by \in [D -> People]
      BY <2>5
    <3>3. \A e \in D : \E l \in new : l.employee = e /\ l.primary /\ l.supervisor = by[e]
      BY <2>9, <3>1, <3>2, MovedRows
    <3> QED
      BY <2>6, <3>3
  <2>11. NPlus1(lines', p) # {}
    BY <2>7, <2>10 DEF NPlus1
  <2> QED
    BY <2>8, <2>11
<1> HIDE DEF Seen
<1>2. Spec => [][Seen]_vars
  BY <1>1, OrgAlways, PTL DEF Spec
<1>3. [][Seen]_vars => NoBlindTeamEdit
  BY PTL DEF Seen, NoBlindTeamEdit
<1> QED
  BY <1>2, <1>3


=============================================================================
