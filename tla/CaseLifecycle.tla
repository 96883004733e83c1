---------------------------- MODULE CaseLifecycle ----------------------------
(***************************************************************************)
(* What a mission case promises: it is presented for decision only when it *)
(* is complete, it may not change while it is decided or after, what is    *)
(* executed is what was signed, and a closed case never moves again.       *)
(* MissionProcess implements this specification.                           *)
(***************************************************************************)

CONSTANTS
    CompleteDossiers,  \* the dossiers that may be decided
    Unsigned           \* no signature yet

VARIABLES
    phase,    \* where the case stands
    dossier,  \* the mission and its documents
    signed    \* the dossier that was signed

vars == <<phase, dossier, signed>>

Init ==
    /\ phase = "draft"
    /\ signed = Unsigned

Edit ==
    /\ phase \in {"draft", "preparation"}
    /\ UNCHANGED <<phase, signed>>

Move(from, to) ==
    /\ phase = from
    /\ phase' = to
    /\ UNCHANGED dossier

Submit == Move("draft", "preparation") /\ UNCHANGED signed

Present ==
    /\ Move("preparation", "decision")
    /\ dossier \in CompleteDossiers
    /\ UNCHANGED signed

SendBack == Move("decision", "preparation") /\ UNCHANGED signed

Sign == Move("decision", "execution") /\ signed' = dossier

Close ==
    /\ \E p \in {"draft", "decision", "execution"} : Move(p, "closed")
    /\ UNCHANGED signed

Next == Edit \/ Submit \/ Present \/ SendBack \/ Sign \/ Close

Spec == Init /\ [][Next]_vars
=============================================================================
