---------------------------- MODULE TaskLifecycle ----------------------------
(***************************************************************************)
(* What an assignment promises to the people who read it, whoever acts and *)
(* however: a task is done only after a review at 100 percent, a done task *)
(* stays at 100 percent or is open to work again, and an abandoned task    *)
(* never moves.  TaskAssignment implements this specification.  Nothing is *)
(* promised of a task whose status the administration has overruled.       *)
(***************************************************************************)
EXTENDS Integers

VARIABLES
    phase,    \* where the task stands for its readers
    progress  \* its latest percentage

Phases == {"absent", "open", "review", "done", "abandoned", "overruled"}

Init ==
    /\ phase = "absent"
    /\ progress = 0

Assign ==
    /\ phase = "absent"
    /\ phase' = "open"
    /\ UNCHANGED progress

\* Work is reported.  A report may ask for a review, withdraw the request or
\* reopen a done task; a task that stays done stays at 100 percent.
Report ==
    /\ phase \in {"open", "review", "done"}
    /\ progress' \in 0..100
    /\ \/ phase' \in {"open", "review"} /\ phase # "done"
       \/ phase = "done" /\ phase' = "open"
       \/ phase = "done" /\ phase' = "done" /\ progress' = 100

Approve ==
    /\ phase = "review"
    /\ progress = 100
    /\ phase' = "done"
    /\ UNCHANGED progress

SendBack ==
    /\ phase = "review"
    /\ phase' = "open"
    /\ UNCHANGED progress

Abandon ==
    /\ phase \in {"open", "review", "done"}
    /\ phase' = "abandoned"
    /\ UNCHANGED progress

Overrule ==
    /\ phase \in {"open", "review", "done", "abandoned"}
    /\ phase' = "overruled"
    /\ progress' = 0

Next == Assign \/ Report \/ Approve \/ SendBack \/ Abandon \/ Overrule

Spec == Init /\ [][Next]_<<phase, progress>>
=============================================================================
