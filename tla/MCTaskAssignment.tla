-------------------------- MODULE MCTaskAssignment --------------------------
(***************************************************************************)
(* Small instance of TaskAssignment and of ProgressCache for TLC.  The two *)
(* share no variable, and no property is about both: an execution takes    *)
(* the steps of one, from one initial state of the other.                  *)
(***************************************************************************)
EXTENDS TaskAssignment, ProgressCache, TLC

CONSTANTS e, m1, m2, it, sm, v1, v2, q1, q2

\* The two supervisors are interchangeable, and so are the wordings and the
\* readers.
Symmetry == Permutations({m1, m2}) \cup Permutations({v1, v2}) \cup Permutations({q1, q2})

\* A day and a half of work that the holiday may delay, and a quarter of a day.
SmallPlans == {[start |-> 1, load |-> 15000], [start |-> 2, load |-> 2500]}

MCInit == Init /\ CacheInit

\* In the instance the administration saves rows that nobody supervises, and
\* overrules the services when no form is on screen; nothing is promised of the
\* row after that, and the behaviour stops.
AdministrationIsBounded ==
    /\ administered' # "never" => lines' = {}
    /\ ~ Overruled /\ Overruled' => form = None
    /\ Overruled => UNCHANGED <<lineVars, contentVars, manager, revision>>

MCNext ==
    \/ CacheInit /\ task.start = 1 /\ Next /\ AdministrationIsBounded /\ UNCHANGED cacheVars
    \/ Init /\ CacheNext /\ UNCHANGED vars

MCSpec == MCInit /\ [][MCNext]_<<vars, cacheVars>>
=============================================================================
