--------------------------- MODULE MCTaskProposal ---------------------------
(***************************************************************************)
(* Small instance of TaskProposal and TaskCodes for TLC.  The two share no *)
(* variable, and no property is about both: an execution takes the steps   *)
(* of one.                                                                 *)
(***************************************************************************)
EXTENDS TaskProposal, TaskCodes, TLC

CONSTANTS n1, n2

\* A task that the holiday moves, and a weekly one whose repetition leaves no
\* room for the former when the holiday is closed.
ChosenPlans ==
    {[start |-> 1, load |-> 2, end |-> None],
     [start |-> 1, load |-> 1, end |-> 4]}

\* Two of the three actions have codes of the same slug.
ChosenSlugs == [a \in {"A.1", "A1", "B"} |-> IF a = "B" THEN "b" ELSE "a1"]

SupervisorSymmetry == Permutations({n1, n2})

MCInit == Init /\ CodesInit

MCNext ==
    \/ CodesInit /\ Next /\ UNCHANGED codeVars
    \/ Init /\ CodesNext /\ UNCHANGED vars

MCSpec == MCInit /\ [][MCNext]_<<vars, codeVars>>
=============================================================================
