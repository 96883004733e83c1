---------------------------- MODULE MissionProcess ----------------------------
(***************************************************************************)
(* One mission order of processes/services.py, from its draft to its end:  *)
(* the dossier (mission and documents), the work items its steps leave in  *)
(* the service queues, and the signature.  Every service is one            *)
(* transaction on a case locked with select_for_update: one action each.   *)
(*                                                                         *)
(* Every write carries the revision its client has loaded and increments   *)
(* it.  Revisions only grow, so a form is accepted exactly until the next  *)
(* write of anybody: the number is abstracted to that.  One client keeps   *)
(* its form on screen for any time ("screen"); the others have just loaded *)
(* the case ("fresh").                                                     *)
(***************************************************************************)
EXTENDS Naturals, Sequences

CONSTANTS
    Users,       \* active internal accounts
    Initiator,   \* the requester, who has a primary membership
    Admins,      \* is_it_admin or is_superuser
    Grantable,   \* the <<user, queue kind>> pairs that delegations may cover
    Reroutable,  \* the queue kinds whose queues are reconfigured
    Travellers,  \* the accounts that are offered as participants
    Uploads,     \* the <<document kind, content>> pairs that are uploaded
    None         \* no holder, no document, no signature, no form

QueueKinds == {"assistance", "signature", "distribution", "fleet"}
Closed == {"completed", "rejected", "abandoned"}
Statuses == {"draft"} \cup QueueKinds \cup Closed
MissionTypes == {"domestic", "international"}
DocumentKinds == {"terms_of_reference", "order_draft", "ticket"}
Files == {upload[2] : upload \in Uploads}
Channels == {"fresh", "screen"}

Missions == [type : MissionTypes, people : SUBSET Users, vehicle : BOOLEAN]
Dossiers == [mission : Missions, documents : [DocumentKinds -> Files \cup {None}]]
WorkItems == [step : QueueKinds, holder : Users \cup {None}]
Signatures == [covers : Dossiers, shown : Dossiers]
Forms == [user : Users, shown : Dossiers]

ASSUME MissionAssumption ==
    /\ Initiator \in Users
    /\ Admins \subseteq Users
    /\ Grantable \subseteq Users \X QueueKinds
    /\ Reroutable \subseteq QueueKinds
    /\ Travellers \subseteq Users
    /\ \A upload \in Uploads : upload[1] \in DocumentKinds
    /\ None \notin Users \cup Files

ASSUME NoneIsNoRecord == None \notin Forms \cup Signatures

VARIABLES
    status,     \* ProcessCase.status, always equal to current_step
    dossier,    \* MissionOrder, its participants, and by kind the document
                \* that no later one replaces
    items,      \* the open and claimed work items, oldest first
    signature,  \* ProcessSignature: what it covers, and as a history what
                \* its author was shown
    delegated,  \* the delegations in force
    routed,     \* the kinds for which resolve_queue finds one queue
    form        \* the current form of the client that keeps one on screen

caseVars == <<status, dossier, items, signature>>
vars == <<caseVars, delegated, routed, form>>

-----------------------------------------------------------------------------
(* The rules on the dossier *)

\* _validate_people: whoever writes the mission takes part in it.
People(actor, chosen) == chosen \cup {actor}

ValidPeople(actor, type, people) == type = "international" => people = {actor}

ReadyToSubmit(d) ==
    /\ Initiator \in d.mission.people
    /\ d.mission.type = "international" => d.mission.people = {Initiator}
    /\ d.documents["terms_of_reference"] # None

ReadyForSignature(d) ==
    /\ ReadyToSubmit(d)
    /\ d.documents["order_draft"] # None
    /\ d.mission.type = "international" => d.documents["ticket"] # None

-----------------------------------------------------------------------------
(* Work items *)

CurrentItem == items[Len(items)]

CanWorkQueue(u, kind) == u \in Admins \/ <<u, kind>> \in delegated

HeldBy(u) ==
    /\ items # <<>>
    /\ CurrentItem.holder = u
    /\ CanWorkQueue(u, CurrentItem.step)

NewWorkItem(open, kind) ==
    /\ kind \in routed
    /\ items' = Append(open, [step |-> kind, holder |-> None])

\* A plausible slip: the item is left open.
ItemLeftOpen == items

WithoutCurrentItem == SubSeq(items, 1, Len(items) - 1)

\* Plausible slips: the holder of any step may still change the dossier.
CanEditWhileHolding(u) == (status = "draft" /\ u = Initiator) \/ HeldBy(u)
CanUploadWhileHolding(u) == CanEditWhileHolding(u)

CanEditMission(u) ==
    \/ status = "draft" /\ u = Initiator
    \/ status = "assistance" /\ HeldBy(u) /\ CurrentItem.step = "assistance"

CanUploadDocument(u) ==
    \/ status = "draft" /\ u = Initiator
    \/ status = "assistance" /\ HeldBy(u)

-----------------------------------------------------------------------------
(* create_mission_draft: the case starts as the draft of its requester *)
Init ==
    /\ status = "draft"
    /\ \E type \in MissionTypes, vehicle \in BOOLEAN, chosen \in SUBSET Travellers :
        /\ ValidPeople(Initiator, type, People(Initiator, chosen))
        /\ dossier = [mission |-> [type |-> type, vehicle |-> vehicle,
                                   people |-> People(Initiator, chosen)],
                      documents |-> [k \in DocumentKinds |-> None]]
    /\ items = <<>>
    /\ signature = None
    /\ delegated \in SUBSET Grantable
    /\ routed = QueueKinds
    /\ form = None

\* ensure_revision, and what becomes of the form once the revision is saved.
EnsureRevision(u, via) == via = "screen" => form # None /\ form.user = u

\* A plausible slip: the revision is not incremented.
FormStillCurrent == form

FormAfterWrite == None

Shown(via) == IF via = "screen" THEN form.shown ELSE dossier

UpdateMission(u) ==
    /\ CanEditMission(u)
    /\ \E type \in MissionTypes, vehicle \in BOOLEAN, chosen \in SUBSET Travellers :
        /\ ValidPeople(u, type, People(u, chosen))
        /\ dossier' = [dossier EXCEPT !.mission =
                [type |-> type, vehicle |-> vehicle, people |-> People(u, chosen)]]
    /\ UNCHANGED <<status, items, signature>>

\* The scan comes first and a refused file changes nothing.
AddDocument(u) ==
    /\ CanUploadDocument(u)
    /\ \E upload \in Uploads :
        dossier' = [dossier EXCEPT !.documents[upload[1]] = upload[2]]
    /\ UNCHANGED <<status, items, signature>>

-----------------------------------------------------------------------------
(* act_on_case, one action each *)

Submit(u) ==
    /\ status = "draft"
    /\ u = Initiator
    /\ ReadyToSubmit(dossier)
    /\ NewWorkItem(items, "assistance")
    /\ status' = "assistance"
    /\ UNCHANGED <<dossier, signature>>

Abandon(u) ==
    /\ status = "draft"
    /\ u = Initiator
    /\ status' = "abandoned"
    /\ UNCHANGED <<dossier, items, signature>>

SetHolder(u) ==
    /\ items # <<>>
    /\ CanWorkQueue(u, CurrentItem.step)
    /\ items' = [items EXCEPT ![Len(items)].holder = u]
    /\ UNCHANGED <<status, dossier, signature>>

Claim(u) == SetHolder(u) /\ CurrentItem.holder \in {None, u}

\* With a reason, any agent of the queue takes a claimed case over.
Takeover(u) == SetHolder(u)

SendToSignature(u) ==
    /\ status = "assistance"
    /\ HeldBy(u)
    /\ ReadyForSignature(dossier)
    /\ NewWorkItem(WithoutCurrentItem, "signature")
    /\ status' = "signature"
    /\ UNCHANGED <<dossier, signature>>

RequestCorrection(u) ==
    /\ status = "signature"
    /\ HeldBy(u)
    /\ NewWorkItem(WithoutCurrentItem, "assistance")
    /\ status' = "assistance"
    /\ UNCHANGED <<dossier, signature>>

Reject(u) ==
    /\ status = "signature"
    /\ HeldBy(u)
    /\ items' = WithoutCurrentItem
    /\ status' = "rejected"
    /\ UNCHANGED <<dossier, signature>>

\* ProcessSignature.case is one-to-one: a second signature is refused.
Sign(u, shown) ==
    /\ status = "signature"
    /\ HeldBy(u)
    /\ ReadyForSignature(dossier)
    /\ signature = None
    /\ signature' = [covers |-> dossier, shown |-> shown]
    /\ NewWorkItem(WithoutCurrentItem, "distribution")
    /\ status' = "distribution"
    /\ UNCHANGED dossier

CompleteDistribution(u) ==
    /\ status = "distribution"
    /\ HeldBy(u)
    /\ IF dossier.mission.vehicle
       THEN NewWorkItem(WithoutCurrentItem, "fleet") /\ status' = "fleet"
       ELSE items' = WithoutCurrentItem /\ status' = "completed"
    /\ UNCHANGED <<dossier, signature>>

CompleteFleet(u) ==
    /\ status = "fleet"
    /\ HeldBy(u)
    /\ items' = WithoutCurrentItem
    /\ status' = "completed"
    /\ UNCHANGED <<dossier, signature>>

\* Also on a closed case.  Nothing reads the flag; the revision is spent.
SetLegalHold(u) == u \in Admins /\ UNCHANGED caseVars

Write(u, via) ==
    /\ EnsureRevision(u, via)
    /\ form' = FormAfterWrite
    /\ UNCHANGED <<delegated, routed>>
    /\ \/ UpdateMission(u) \/ AddDocument(u)
       \/ Submit(u) \/ Abandon(u) \/ Claim(u) \/ Takeover(u)
       \/ SendToSignature(u) \/ RequestCorrection(u) \/ Reject(u)
       \/ Sign(u, Shown(via))
       \/ CompleteDistribution(u) \/ CompleteFleet(u)
       \/ SetLegalHold(u)

-----------------------------------------------------------------------------
LoadForm(u) ==
    /\ form' = [user |-> u, shown |-> dossier]
    /\ UNCHANGED <<caseVars, delegated, routed>>

\* grant_role; revoke_role or the end of the delegation's validity.
ChangeDelegation ==
    /\ \E grant \in Grantable :
        delegated' = IF grant \in delegated THEN delegated \ {grant}
                                            ELSE delegated \cup {grant}
    /\ UNCHANGED <<caseVars, routed, form>>

\* A queue is added, switched off or moved.  Open items keep their queue.
ChangeQueues ==
    /\ \E kind \in Reroutable :
        routed' = IF kind \in routed THEN routed \ {kind} ELSE routed \cup {kind}
    /\ UNCHANGED <<caseVars, delegated, form>>

Next ==
    \/ \E u \in Users, via \in Channels : Write(u, via)
    \/ \E u \in Users : LoadForm(u)
    \/ ChangeDelegation
    \/ ChangeQueues

Spec == Init /\ [][Next]_vars

-----------------------------------------------------------------------------
(* Properties *)

\* The state has its type: statuses, work items, signature and form.
TypeOK ==
    /\ status \in Statuses
    /\ dossier \in Dossiers
    /\ items \in Seq(WorkItems)
    /\ signature \in Signatures \cup {None}
    /\ delegated \in SUBSET Grantable
    /\ routed \in SUBSET QueueKinds
    /\ form \in Forms \cup {None}

\* Whatever is sent back, taken over, rerouted or closed, a running case
\* waits in exactly one queue, that of its step, and any other in none:
\* _current_item never has to choose and never fails.
OneOpenItem ==
    IF status \in QueueKinds THEN Len(items) = 1 /\ items[1].step = status
                             ELSE items = <<>>

\* What the secretariat and the fleet carry out is what was signed: from the
\* signature on, the snapshot and the manifest are those of the case.
SignatureCovers ==
    IF status \in {"distribution", "fleet", "completed"}
    THEN signature # None /\ signature.covers = dossier
    ELSE signature = None

\* Nobody signs another dossier than the one on his screen, even across a
\* correction and a second round: the revision refuses the older form.
NoBlindSignature == signature # None => signature.covers = signature.shown

Phase ==
    IF status = "draft" THEN "draft"
    ELSE IF status = "assistance" THEN "preparation"
    ELSE IF status = "signature" THEN "decision"
    ELSE IF status \in Closed THEN "closed"
    ELSE "execution"

Case == INSTANCE CaseLifecycle WITH
    phase <- Phase,
    signed <- IF signature = None THEN None ELSE signature.covers,
    CompleteDossiers <- {d \in Dossiers : ReadyForSignature(d)},
    Unsigned <- None

\* The services implement the lifecycle of CaseLifecycle: complete before the
\* decision, frozen during it and after, and closed for good.
LifecycleSpec == Case!Spec

\* "Une mission internationale concerne uniquement le demandeur."
\* (processes/services.py, _validate_people)
InternationalForInitiator ==
    dossier.mission.type = "international" => dossier.mission.people = {Initiator}
=============================================================================
