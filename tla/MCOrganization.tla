--------------------------- MODULE MCOrganization ---------------------------
(***************************************************************************)
(* Small instance of Organization, a direction above one service, and of   *)
(* Accounts for TLC.  The two share no variable, and no property is about  *)
(* both: an execution takes the steps of one, from one initial state of    *)
(* the other.                                                              *)
(***************************************************************************)
EXTENDS Organization, Accounts, TLC

CONSTANTS Direction, Service, t1, t2, agent

Below1 == [u \in Units |-> IF u = Service THEN Direction ELSE None]
Row(e, s) == [employee |-> e, supervisor |-> s, primary |-> TRUE, fresh |-> FALSE, key |-> 0]
Beside(e, s) == [Row(e, s) EXCEPT !.primary = FALSE]

\* 1 directs; 2 and 3 work in the service, 3 under 2 or under nobody, and in
\* the last beside 1 twice, since today and since an earlier day.
SmallCharts ==
    {[parent |-> Below1, grants |-> {},
      primary |-> <<Direction, Service, Service>>,
      lines |-> {Row(2, 1), Row(3, 2)}],
     [parent |-> [u \in Units |-> None], grants |-> {},
      primary |-> <<Service, Service, Service>>,
      lines |-> {}],
     [parent |-> Below1, primary |-> <<Direction, Service, Service>>,
      grants |-> {[user |-> 3, unit |-> Direction, scope |-> "tree"]},
      lines |-> {Row(2, 1), Beside(3, 1), [Beside(3, 1) EXCEPT !.fresh = TRUE, !.key = -1]}]}

\* The sessions are interchangeable, and so are the administrators.
SessionSymmetry == Permutations(Admins) \cup Permutations(Technicians)

\* The first once worked in the service.
OldWork == {<<1, Service>>}

SmallSelections == {[units |-> {Service}, main |-> Service],
                    [units |-> {Direction, Service}, main |-> Direction],
                    [units |-> {}, main |-> None]}

\* The rights from which the organisation is followed.
NobodyRoot == \A p \in Persons : ~ accounts[p].superuser

MCInit == Init /\ AccountsInit /\ (NobodyRoot \/ primary[1] = Service)

MCNext ==
    \/ AccountsInit /\ NobodyRoot /\ Next /\ UNCHANGED accountVars
    \/ Init /\ primary[1] = Service /\ AccountsNext /\ UNCHANGED vars

MCSpec == MCInit /\ [][MCNext]_<<vars, accountVars>>
=============================================================================
