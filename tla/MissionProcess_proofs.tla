------------------------- MODULE MissionProcess_proofs -------------------------
(***************************************************************************)
(* Proofs, for every value of the constants, of the properties that the    *)
(* run of MissionProcess checks on a small instance.                       *)
(***************************************************************************)
EXTENDS MissionProcess, SequenceTheorems, TLAPS

\* The form on screen shows the case as it is: the strengthening that makes
\* NoBlindSignature inductive.
FormIsCurrent == form # None => form.shown = dossier

IInv == TypeOK /\ OneOpenItem /\ SignatureCovers /\ NoBlindSignature /\ FormIsCurrent

-----------------------------------------------------------------------------
(* Work items *)

LEMMA RunningItem ==
    ASSUME TypeOK, OneOpenItem, status \in QueueKinds
    PROVE  /\ Len(items) = 1
           /\ items[1] \in WorkItems
           /\ items[1].step = status
           /\ WithoutCurrentItem = <<>>
<1>1. Len(items) = 1 /\ items[1].step = status /\ items \in Seq(WorkItems)
    BY DEF TypeOK, OneOpenItem
<1>2. items[1] \in WorkItems
    BY <1>1, ElementOfSeq
<1>3. SubSeq(items, 1, Len(items) - 1) = <<>>
    BY <1>1, SubSeqEmpty
<1> QED BY <1>1, <1>2, <1>3 DEF WithoutCurrentItem

LEMMA NoItem ==
    ASSUME TypeOK, OneOpenItem, status \notin QueueKinds
    PROVE  items = <<>>
    BY DEF OneOpenItem

LEMMA FreshItem ==
    ASSUME NEW kind \in QueueKinds, NewWorkItem(<<>>, kind)
    PROVE  /\ items' \in Seq(WorkItems)
           /\ Len(items') = 1
           /\ items'[1].step = kind
<1> DEFINE item == [step |-> kind, holder |-> None]
<1>1. item \in WorkItems
    BY DEF WorkItems
<1>2. items' = Append(<<>>, item)
    BY DEF NewWorkItem
<1> HIDE DEF item
<1>3. items' \in Seq(WorkItems) /\ Len(items') = 1 /\ items'[1] = item
    BY <1>1, <1>2
<1> QED BY <1>3 DEF item

\* Claiming and taking over change the holder of the one open item only.
LEMMA HolderChanges ==
    ASSUME TypeOK, OneOpenItem, NEW u \in Users, SetHolder(u)
    PROVE  /\ status \in QueueKinds
           /\ items' \in Seq(WorkItems)
           /\ Len(items') = 1
           /\ items'[1].step = status
<1>1. status \in QueueKinds
    BY NoItem DEF SetHolder
<1>2. Len(items) = 1 /\ items[1] \in WorkItems /\ items[1].step = status
    BY <1>1, RunningItem
<1>3. items' = [items EXCEPT ![1].holder = u]
    BY <1>2 DEF SetHolder
<1>4. items \in Seq(WorkItems)
    BY DEF TypeOK
<1>5. items' = [items EXCEPT ![1] = [items[1] EXCEPT !.holder = u]]
    BY <1>2, <1>3, <1>4
<1>6. /\ [items[1] EXCEPT !.holder = u] \in WorkItems
      /\ [items[1] EXCEPT !.holder = u].step = status
    BY <1>2 DEF WorkItems
<1> DEFINE item == [items[1] EXCEPT !.holder = u]
<1>7. item \in WorkItems /\ item.step = status /\ items' = [items EXCEPT ![1] = item]
    BY <1>5, <1>6
<1> HIDE DEF item
<1>8. items' \in Seq(WorkItems) /\ Len(items') = 1 /\ items'[1] = item
    BY <1>2, <1>4, <1>7, ExceptSeq
<1> QED BY <1>1, <1>7, <1>8

-----------------------------------------------------------------------------
(* The dossier *)

LEMMA MissionIsTyped ==
    ASSUME NEW u \in Users, NEW type \in MissionTypes, NEW vehicle \in BOOLEAN,
           NEW chosen \in SUBSET Travellers
    PROVE  [type |-> type, vehicle |-> vehicle, people |-> People(u, chosen)] \in Missions
    BY MissionAssumption DEF Missions, People

LEMMA UpdateTyped ==
    ASSUME TypeOK, NEW u \in Users, UpdateMission(u) \/ AddDocument(u)
    PROVE  dossier' \in Dossiers
<1>1. CASE UpdateMission(u)
    <2>1. PICK m \in Missions : dossier' = [dossier EXCEPT !.mission = m]
        BY <1>1, MissionIsTyped DEF UpdateMission
    <2> QED BY <2>1 DEF TypeOK, Dossiers
<1>2. CASE AddDocument(u)
    <2>1. PICK upload \in Uploads :
              dossier' = [dossier EXCEPT !.documents[upload[1]] = upload[2]]
        BY <1>2 DEF AddDocument
    <2>2. upload[1] \in DocumentKinds /\ upload[2] \in Files
        BY <2>1, MissionAssumption DEF Files
    <2> QED BY <2>1, <2>2 DEF TypeOK, Dossiers
<1> QED BY <1>1, <1>2

\* The dossier only changes while it is drafted or prepared.
LEMMA OnlyEditorsWrite ==
    ASSUME NEW u \in Users, UpdateMission(u) \/ AddDocument(u)
    PROVE  status \in {"draft", "assistance"} /\ UNCHANGED <<status, items, signature>>
    BY DEF UpdateMission, AddDocument, CanEditMission, CanUploadDocument

-----------------------------------------------------------------------------
(* Initially *)

LEMMA InitIInv == Init => IInv
<1> SUFFICES ASSUME Init PROVE IInv
    OBVIOUS
<1>1. PICK m \in Missions :
        dossier = [mission |-> m, documents |-> [k \in DocumentKinds |-> None]]
    BY MissionIsTyped, MissionAssumption DEF Init
<1>2. dossier \in Dossiers
    BY <1>1 DEF Dossiers
<1>3. items \in Seq(WorkItems)
    BY DEF Init
<1> QED BY <1>2, <1>3, MissionAssumption
        DEF Init, IInv, TypeOK, OneOpenItem, SignatureCovers, NoBlindSignature,
            FormIsCurrent, Statuses, QueueKinds

-----------------------------------------------------------------------------
(* What each write does to the case, once the form has been accepted *)

\* The state of the case after a write, but for the form.
CaseInv ==
    /\ status \in Statuses
    /\ dossier \in Dossiers
    /\ items \in Seq(WorkItems)
    /\ signature \in Signatures \cup {None}
    /\ OneOpenItem
    /\ SignatureCovers
    /\ NoBlindSignature

\* A form that is accepted shows the dossier it is about to change or sign.
LEMMA ShownIsCurrent ==
    ASSUME IInv, NEW u \in Users, NEW via \in Channels, EnsureRevision(u, via)
    PROVE  Shown(via) = dossier
    BY DEF IInv, FormIsCurrent, EnsureRevision, Shown

LEMMA EditKeepsCase ==
    ASSUME IInv, NEW u \in Users, UpdateMission(u) \/ AddDocument(u)
    PROVE  CaseInv'
<1>1. dossier' \in Dossiers
    BY UpdateTyped DEF IInv
<1>2. status \in {"draft", "assistance"} /\ UNCHANGED <<status, items, signature>>
    BY OnlyEditorsWrite
<1> QED BY <1>1, <1>2
        DEF IInv, CaseInv, TypeOK, OneOpenItem, SignatureCovers, NoBlindSignature

LEMMA MoveKeepsCase ==
    ASSUME IInv, NEW u \in Users,
           \/ Submit(u) \/ SendToSignature(u) \/ RequestCorrection(u)
    PROVE  CaseInv'
<1> USE DEF QueueKinds, Statuses
<1>1. CASE Submit(u)
    <2>1. items = <<>>
        BY <1>1, NoItem DEF IInv, Submit
    <2>2. NewWorkItem(<<>>, "assistance")
        BY <1>1, <2>1 DEF Submit
    <2> QED BY <1>1, <2>2, FreshItem
            DEF IInv, CaseInv, TypeOK, OneOpenItem, SignatureCovers, NoBlindSignature, Submit
<1>2. CASE SendToSignature(u)
    <2>1. NewWorkItem(<<>>, "signature")
        BY <1>2, RunningItem DEF IInv, SendToSignature
    <2> QED BY <1>2, <2>1, FreshItem
            DEF IInv, CaseInv, TypeOK, OneOpenItem, SignatureCovers, NoBlindSignature,
                SendToSignature
<1>3. CASE RequestCorrection(u)
    <2>1. NewWorkItem(<<>>, "assistance")
        BY <1>3, RunningItem DEF IInv, RequestCorrection
    <2> QED BY <1>3, <2>1, FreshItem
            DEF IInv, CaseInv, TypeOK, OneOpenItem, SignatureCovers, NoBlindSignature,
                RequestCorrection
<1> QED BY <1>1, <1>2, <1>3

LEMMA HolderKeepsCase ==
    ASSUME IInv, NEW u \in Users, Claim(u) \/ Takeover(u)
    PROVE  CaseInv'
<1>1. SetHolder(u)
    BY DEF Claim, Takeover
<1>2. UNCHANGED <<status, dossier, signature>>
    BY <1>1 DEF SetHolder
<1> QED BY <1>1, <1>2, HolderChanges
        DEF IInv, CaseInv, TypeOK, OneOpenItem, SignatureCovers, NoBlindSignature

LEMMA SignKeepsCase ==
    ASSUME IInv, NEW u \in Users, Sign(u, dossier)
    PROVE  CaseInv'
<1> USE DEF QueueKinds, Statuses
<1>1. NewWorkItem(<<>>, "distribution")
    BY RunningItem DEF IInv, Sign
<1>2. signature' \in Signatures /\ dossier' = dossier /\ status' = "distribution"
    BY DEF IInv, TypeOK, Sign, Signatures
<1>3. signature'.covers = dossier /\ signature'.shown = dossier /\ signature' # None
    BY <1>2, NoneIsNoRecord DEF Sign
<1> QED BY <1>1, <1>2, <1>3, FreshItem
        DEF IInv, CaseInv, TypeOK, OneOpenItem, SignatureCovers, NoBlindSignature

LEMMA ExecutionKeepsCase ==
    ASSUME IInv, NEW u \in Users, CompleteDistribution(u) \/ CompleteFleet(u)
    PROVE  CaseInv'
<1> USE DEF QueueKinds, Statuses, Closed
<1>1. WithoutCurrentItem = <<>> /\ UNCHANGED <<dossier, signature>>
    BY RunningItem DEF IInv, CompleteDistribution, CompleteFleet
<1>2. CASE status' = "fleet"
    <2>1. NewWorkItem(<<>>, "fleet") /\ status = "distribution"
        BY <1>1, <1>2 DEF CompleteDistribution, CompleteFleet
    <2> QED BY <1>1, <1>2, <2>1, FreshItem
            DEF IInv, CaseInv, TypeOK, OneOpenItem, SignatureCovers, NoBlindSignature
<1>3. CASE status' # "fleet"
    <2>1. items' = <<>> /\ status' = "completed" /\ status \in {"distribution", "fleet"}
        BY <1>1, <1>3 DEF CompleteDistribution, CompleteFleet
    <2>2. items' \in Seq(WorkItems)
        BY <2>1
    <2> QED BY <1>1, <2>1, <2>2
            DEF IInv, CaseInv, TypeOK, OneOpenItem, SignatureCovers, NoBlindSignature
<1> QED BY <1>2, <1>3

LEMMA ClosingKeepsCase ==
    ASSUME IInv, NEW u \in Users, Abandon(u) \/ Reject(u)
    PROVE  CaseInv'
<1> USE DEF QueueKinds, Statuses, Closed
<1>1. /\ status \in {"draft", "signature"}
      /\ status' \in {"abandoned", "rejected"}
      /\ UNCHANGED <<dossier, signature>>
    BY DEF Abandon, Reject
<1>2. items' = <<>>
    <2>1. CASE Abandon(u)
        BY <2>1, NoItem DEF IInv, Abandon
    <2>2. CASE Reject(u)
        BY <2>2, RunningItem DEF IInv, Reject
    <2> QED BY <2>1, <2>2
<1>3. items' \in Seq(WorkItems)
    BY <1>2
<1> QED BY <1>1, <1>2, <1>3
        DEF IInv, CaseInv, TypeOK, OneOpenItem, SignatureCovers, NoBlindSignature

LEMMA WriteKeepsIInv ==
    ASSUME IInv, NEW u \in Users, NEW via \in Channels, Write(u, via)
    PROVE  IInv'
<1>1. form' = None /\ UNCHANGED <<delegated, routed>>
    BY DEF Write, FormAfterWrite
<1>2. Shown(via) = dossier
    BY ShownIsCurrent DEF Write
<1>3. CaseInv'
    <2>1. CASE SetLegalHold(u)
        BY <2>1 DEF SetLegalHold, caseVars, IInv, CaseInv, TypeOK, OneOpenItem,
                    SignatureCovers, NoBlindSignature
    <2> QED BY <1>2, <2>1, EditKeepsCase, MoveKeepsCase, HolderKeepsCase, SignKeepsCase,
               ExecutionKeepsCase, ClosingKeepsCase DEF Write
<1> QED BY <1>1, <1>3 DEF IInv, CaseInv, TypeOK, FormIsCurrent

-----------------------------------------------------------------------------
LEMMA NextKeepsIInv == IInv /\ [Next]_vars => IInv'
<1> SUFFICES ASSUME IInv, [Next]_vars PROVE IInv'
    OBVIOUS
<1> USE DEF IInv, TypeOK, OneOpenItem, SignatureCovers, NoBlindSignature, FormIsCurrent
<1>1. ASSUME NEW u \in Users, NEW via \in Channels, Write(u, via) PROVE IInv'
    BY <1>1, WriteKeepsIInv
<1>2. ASSUME NEW u \in Users, LoadForm(u) PROVE IInv'
    <2>1. form' \in Forms /\ form'.shown = dossier
        BY <1>2 DEF LoadForm, Forms
    <2> QED BY <1>2, <2>1 DEF LoadForm, caseVars
<1>3. CASE ChangeDelegation
    BY <1>3 DEF ChangeDelegation, caseVars
<1>4. CASE ChangeQueues
    BY <1>4, MissionAssumption DEF ChangeQueues, caseVars
<1>5. CASE UNCHANGED vars
    BY <1>5 DEF vars, caseVars
<1> QED BY <1>1, <1>2, <1>3, <1>4, <1>5 DEF Next

THEOREM MissionInvariant == Spec => []IInv
    BY InitIInv, NextKeepsIInv, PTL DEF Spec

\* Type correctness: the statuses, work items, signature and form stay typed.
THEOREM TypeCorrect == Spec => []TypeOK
    BY MissionInvariant, PTL DEF IInv

\* A running case waits in exactly one queue, that of its step.
THEOREM OneOpenItemHolds == Spec => []OneOpenItem
    BY MissionInvariant, PTL DEF IInv

\* What is distributed and prepared is what was signed.
THEOREM SignatureCoversHolds == Spec => []SignatureCovers
    BY MissionInvariant, PTL DEF IInv

\* Nobody signs another dossier than the one on his screen.
THEOREM NoBlindSignatureHolds == Spec => []NoBlindSignature
    BY MissionInvariant, PTL DEF IInv

-----------------------------------------------------------------------------
(* The services implement the lifecycle *)

Signed == IF signature = None THEN None ELSE signature.covers

LEMMA WriteIsCaseStep ==
    ASSUME IInv, NEW u \in Users, NEW via \in Channels, Write(u, via)
    PROVE  Case!Next \/ UNCHANGED <<Phase, dossier, Signed>>
<1> USE DEF Phase, Signed, Closed, QueueKinds
<1>1. CASE UpdateMission(u) \/ AddDocument(u)
    <2>1. Case!Edit
        BY <1>1, OnlyEditorsWrite DEF Case!Edit
    <2> QED BY <2>1 DEF Case!Next
<1>2. CASE Submit(u)
    <2>1. Case!Submit
        BY <1>2 DEF Submit, Case!Submit, Case!Move
    <2> QED BY <2>1 DEF Case!Next
<1>3. CASE SendToSignature(u)
    <2>1. Case!Present
        BY <1>3 DEF IInv, TypeOK, SendToSignature, Case!Present, Case!Move
    <2> QED BY <2>1 DEF Case!Next
<1>4. CASE RequestCorrection(u)
    <2>1. Case!SendBack
        BY <1>4 DEF RequestCorrection, Case!SendBack, Case!Move
    <2> QED BY <2>1 DEF Case!Next
<1>5. CASE Sign(u, Shown(via))
    <2>1. signature' # None /\ signature'.covers = dossier
        BY <1>5, ShownIsCurrent, NoneIsNoRecord DEF Sign, Write, IInv, TypeOK, Signatures
    <2>2. Case!Sign
        BY <1>5, <2>1 DEF Sign, Case!Sign, Case!Move
    <2> QED BY <2>2 DEF Case!Next
<1>6. CASE Abandon(u)
    <2>1. Case!Close
        BY <1>6 DEF Abandon, Case!Close, Case!Move
    <2> QED BY <2>1 DEF Case!Next
<1>7. CASE Reject(u)
    <2>1. Case!Close
        BY <1>7 DEF Reject, Case!Close, Case!Move
    <2> QED BY <2>1 DEF Case!Next
<1>8. CASE CompleteDistribution(u) /\ status' = "fleet"
    BY <1>8 DEF CompleteDistribution
<1>9. CASE (CompleteDistribution(u) /\ status' # "fleet") \/ CompleteFleet(u)
    <2>1. Case!Close
        BY <1>9 DEF CompleteDistribution, CompleteFleet, Case!Close, Case!Move
    <2> QED BY <2>1 DEF Case!Next
<1>10. CASE Claim(u) \/ Takeover(u) \/ SetLegalHold(u)
    BY <1>10 DEF Claim, Takeover, SetHolder, SetLegalHold, caseVars
<1> QED BY <1>1, <1>2, <1>3, <1>4, <1>5, <1>6, <1>7, <1>8, <1>9, <1>10 DEF Write

LEMMA NextIsCaseStep == IInv /\ [Next]_vars => [Case!Next]_Case!vars
<1> SUFFICES ASSUME IInv, [Next]_vars PROVE Case!Next \/ UNCHANGED <<Phase, dossier, Signed>>
    BY DEF Case!vars, Signed
<1>1. ASSUME NEW u \in Users, NEW via \in Channels, Write(u, via)
      PROVE  Case!Next \/ UNCHANGED <<Phase, dossier, Signed>>
    BY <1>1, WriteIsCaseStep
<1>2. CASE \/ \E u \in Users : LoadForm(u)
           \/ ChangeDelegation \/ ChangeQueues \/ UNCHANGED vars
    BY <1>2 DEF LoadForm, ChangeDelegation, ChangeQueues, vars, caseVars, Phase, Signed
<1> QED BY <1>1, <1>2 DEF Next

\* Complete before the decision, frozen during it and after, closed for good.
THEOREM ImplementsLifecycle == Spec => LifecycleSpec
<1>1. Init => Case!Init
    BY DEF Init, Case!Init, Phase
<1>2. IInv /\ [Next]_vars => [Case!Next]_Case!vars
    BY NextIsCaseStep
<1> QED BY <1>1, <1>2, MissionInvariant, PTL DEF Spec, LifecycleSpec, Case!Spec
=============================================================================
