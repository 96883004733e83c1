------------------------------ MODULE MCAgenda ------------------------------
(***************************************************************************)
(* Small instance of Agenda, Presence and RoleSimulation for TLC.  They    *)
(* share no variable, and no property is about two of them: interleaving   *)
(* them adds states and no behaviour of any, so an execution takes the     *)
(* steps of one.                                                           *)
(***************************************************************************)
EXTENDS Agenda, Presence, RoleSimulation, TLC

\* The last one is long enough to be refused.
FirstWeek == [start |-> 1, end |-> 7]
SecondWeek == [start |-> 8, end |-> 14]
ChosenPeriods == {FirstWeek, SecondWeek, [start |-> 1, end |-> 32]}

\* The secretaries prepare the first week; the administration may move its draft
\* to the second one and back, with an empty text.  It opens nothing while a
\* reset is under way.  Once it has overruled the secretaries no version is
\* generated before a reset: nothing would be said of it.
AdministrationIsBounded ==
    LET saves == adminForm # None /\ adminForm' = None
    IN /\ \A s \in Secretaries :
             /\ screen'[s] # None => screen'[s].period = FirstWeek
             /\ generating'[s] # None => generating'[s].period = FirstWeek
       /\ ~ saves => drafts'[SecondWeek] \in {None, drafts[SecondWeek]}
       /\ saves => \A p \in Periods :
             drafts'[p] \in {None, drafts[p]} \cup {d \in Draft : d.text = Empty}
       /\ reset # None /\ adminForm' # adminForm /\ ~ saves => adminForm'.gone
       /\ overruled # {} /\ overruled' # {} =>
             versions' = versions /\ generating' = generating /\ objects' = objects

\* One preview is on screen at a time: another secretary saves without revision.
OnePreview == Cardinality({s \in Secretaries : screen'[s] # None}) <= 1

\* Secretaries are interchangeable, writers, and tabs.
SessionSymmetry ==
    Permutations(Secretaries) \cup Permutations(Writers) \cup Permutations(Tabs)

MCInit == Init /\ PresenceInit /\ SimulationInit

NoAgendaYet == Init
NoAbsenceYet == writing = [w \in Writers |-> NoRow] /\ Rows = {}
NoSimulationYet == SimulationInit

MCNext ==
    \/ NoAbsenceYet /\ NoSimulationYet /\ Next /\ AdministrationIsBounded /\ OnePreview
         /\ UNCHANGED <<presence, simulationVars>>
    \/ NoAgendaYet /\ NoSimulationYet /\ PresenceNext /\ UNCHANGED <<vars, simulationVars>>
    \/ NoAgendaYet /\ NoAbsenceYet /\ SimulationNext /\ UNCHANGED <<vars, presence>>

MCSpec == MCInit /\ [][MCNext]_<<vars, presence, simulationVars>>
=============================================================================
