-------------------------- MODULE MCTaskRecurrence --------------------------
(* Small instance of TaskRecurrence for TLC. *)
EXTENDS TaskRecurrence, TLC

CONSTANTS w1, w2

\* The web workers are interchangeable.
WorkerSymmetry == Permutations({w1, w2})

\* The classic page starts the first occurrence a day later and for longer: it may
\* then be due when the second one starts.
SmallEdits == {[number |-> 1, start |-> 2, load |-> 2]}
=============================================================================
