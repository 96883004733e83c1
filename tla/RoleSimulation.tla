---------------------------- MODULE RoleSimulation ----------------------------
(***************************************************************************)
(* The simulated identity of access/: a superuser's session acts as an     *)
(* employee.  The simulations are rows of the audit journal; the session   *)
(* holds the number of the one it acts under.  Several tabs share the      *)
(* session: each request reads it at its start, and writes it back at its  *)
(* end only if it changed it.  Nothing is locked in between, and the       *)
(* worker may die anywhere.                                                *)
(***************************************************************************)
EXTENDS Integers, FiniteSets

CONSTANTS
    Tabs,           \* where the superuser's requests come from
    Subjects,       \* the accounts that may be simulated
    MaxSimulation,  \* bound on the simulations started
    MaxRecorded,    \* bound on the audited requests of a simulation
    NoRequest       \* the tab waits for nothing

ASSUME SimulationAssumption ==
    /\ IsFiniteSet(Tabs)
    /\ MaxSimulation \in Nat \ {0}
    /\ MaxRecorded \in Nat \ {0}

VARIABLES
    superuser,    \* whether the account is still an active superuser
    available,    \* the subjects that are active and hold no technical right
    simulations,  \* the RoleSimulation rows, by number; 0 before they exist
    current,      \* what the stored session says: a number, 0 or "none"
    requests,     \* by tab, the request under way
    recorded,     \* by simulation, its RoleSimulationAction rows
    written,      \* by simulation, the writes carried out as its target
    adrift        \* history: simulations that a request lost (see Lost)

simulationVars ==
    <<superuser, available, simulations, current, requests, recorded, written, adrift>>

SimulationIds == 1..MaxSimulation
Kinds == {"read", "write", "protected", "start", "stop", "logout"}

\* No session: signed out or expired.
SignedOut == -1

Started == {s \in SimulationIds : simulations[s].state # "none"}
Open == {s \in SimulationIds : simulations[s].state = "open"}

\* under: the simulation the middleware found, or 0.  pointer: what the session
\* will hold, dirty when it differs from what was read.  alone: whether nobody
\* else has changed the session, or may yet, since the start.
TabRequest == [kind : Kinds, subject : Subjects, under : 0..MaxSimulation,
            root : BOOLEAN, stage : {"entered", "ready", "answered"},
            pointer : 0..MaxSimulation, dirty : BOOLEAN, alone : BOOLEAN]

ASSUME NoRequestIsNone == NoRequest \notin TabRequest

SimulationTypeOK ==
    /\ superuser \in BOOLEAN
    /\ available \subseteq Subjects
    /\ simulations \in [SimulationIds -> [state : {"none", "open", "ended"}, target : Subjects]]
    /\ current \in {SignedOut} \cup 0..MaxSimulation
    /\ requests \in [Tabs -> TabRequest \cup {NoRequest}]
    /\ recorded \in [SimulationIds -> 0..MaxRecorded]
    /\ written \in [SimulationIds -> 0..MaxRecorded]
    /\ adrift \subseteq SimulationIds

SimulationInit ==
    /\ superuser = TRUE
    /\ available = Subjects
    /\ simulations \in {[s \in SimulationIds |-> [state |-> "none", target |-> t]] : t \in Subjects}
    /\ current = 0
    /\ requests = [t \in Tabs |-> NoRequest]
    /\ recorded = [s \in SimulationIds |-> 0]
    /\ written = [s \in SimulationIds |-> 0]
    /\ adrift = {}

-----------------------------------------------------------------------------
(* RoleSimulationMiddleware, before the view *)

\* end_role_simulation: once, whoever asks.
Ended(s) == [simulations EXCEPT ![s].state = IF @ = "open" THEN "ended" ELSE @]

Valid(s) == superuser /\ s \in Open /\ simulations[s].target \in available

Underway == {t \in Tabs : requests[t] # NoRequest}

\* The requests that may write the session.
Changes(r) == r.kind \in {"start", "stop", "logout"} \/ r.dirty

\* A request is admitted: as the target of the session's simulation, or as the
\* superuser when there is none to act under; the simulation that is no longer
\* valid is ended and taken out of the session.
Enter(t, kind, subject) ==
    /\ requests[t] = NoRequest
    /\ current # SignedOut
    /\ LET s == current
           under == IF s # 0 /\ Valid(s) THEN s ELSE 0
           leaves == s # 0 /\ (under = 0 \/ kind = "logout")
           r == [kind |-> kind, subject |-> subject, root |-> superuser,
                 under |-> IF leaves THEN 0 ELSE under, stage |-> "entered",
                 pointer |-> IF leaves THEN 0 ELSE s, dirty |-> leaves,
                 alone |-> ~ \E o \in Underway : Changes(requests[o])]
       IN /\ simulations' = IF leaves THEN Ended(s) ELSE simulations
          /\ requests' = [o \in Tabs |->
                IF o = t THEN r
                ELSE IF o \in Underway /\ Changes(r) THEN [requests[o] EXCEPT !.alone = FALSE]
                ELSE requests[o]]
    /\ UNCHANGED <<superuser, available, current, recorded, written, adrift>>

\* The request is in the journal before it runs.
Record(t) ==
    /\ requests[t] # NoRequest
    /\ requests[t].kind \in {"write", "protected"}
    /\ requests[t].under # 0
    /\ requests[t].stage = "entered"
    /\ recorded[requests[t].under] < MaxRecorded
    /\ requests' = [requests EXCEPT ![t].stage = "ready"]
    /\ recorded' = [recorded EXCEPT ![requests[t].under] = @ + 1]
    /\ UNCHANGED <<superuser, available, simulations, current, written, adrift>>

-----------------------------------------------------------------------------
(* The views *)

At(t, kind, stage) ==
    requests[t] # NoRequest /\ requests[t].kind = kind /\ requests[t].stage = stage

\* Only the session is left to write.
Answered(r, pointer) ==
    [r EXCEPT !.kind = "read", !.under = 0, !.root = FALSE, !.stage = "answered",
              !.pointer = pointer, !.dirty = r.dirty \/ pointer # r.pointer]

\* Any service, as the target.
Write(t) ==
    /\ At(t, "write", "ready")
    /\ requests' = [requests EXCEPT ![t] = Answered(@, @.pointer)]
    /\ written' = [written EXCEPT ![requests[t].under] = @ + 1]
    /\ UNCHANGED <<superuser, available, simulations, current, recorded, adrift>>

\* Requests without a simulation, reads, the refusals of the middleware and of
\* the views.
Answer(t) ==
    /\ \/ At(t, "read", "entered")
       \/ At(t, "protected", "ready")
       \/ At(t, "write", "ready")
       \/ At(t, "write", "entered") /\ requests[t].under = 0
       \/ At(t, "protected", "entered") /\ requests[t].under = 0
       \/ At(t, "start", "entered")
            /\ (~ requests[t].root \/ requests[t].subject \notin available)
       \/ At(t, "stop", "entered") /\ ~ requests[t].root
    /\ requests' = [requests EXCEPT ![t] = Answered(@, @.pointer)]
    /\ UNCHANGED <<superuser, available, simulations, current, recorded, written, adrift>>

\* SessionImpersonationView.post ends the simulation it acts under...
Replace(t) ==
    /\ At(t, "start", "entered")
    /\ requests[t].root
    /\ requests[t].subject \in available
    /\ simulations' = IF requests[t].under # 0 THEN Ended(requests[t].under) ELSE simulations
    /\ requests' = [requests EXCEPT ![t].stage = "ready"]
    /\ UNCHANGED <<superuser, available, current, recorded, written, adrift>>

\* ... and starts another, of the account it read before.
Start(t) ==
    /\ At(t, "start", "ready")
    /\ \E s \in SimulationIds :
          /\ Started = 1..(s - 1)
          /\ simulations' = [simulations EXCEPT
                 ![s] = [state |-> "open", target |-> requests[t].subject]]
          /\ requests' = [requests EXCEPT ![t] = Answered(@, s)]
    /\ UNCHANGED <<superuser, available, current, recorded, written, adrift>>

\* A plausible slip: the session forgets a simulation that stays open.
StopForgets(t) ==
    /\ At(t, "stop", "entered")
    /\ requests[t].root
    /\ requests' = [requests EXCEPT ![t] = Answered(@, 0)]
    /\ UNCHANGED <<superuser, available, simulations, current, recorded, written, adrift>>

\* SessionImpersonationView.delete
Stop(t) ==
    /\ At(t, "stop", "entered")
    /\ requests[t].root
    /\ simulations' = IF requests[t].under # 0 THEN Ended(requests[t].under) ELSE simulations
    /\ requests' = [requests EXCEPT ![t] = Answered(@, 0)]
    /\ UNCHANGED <<superuser, available, current, recorded, written, adrift>>

\* The logout view flushes the session at once.
Logout(t) ==
    /\ At(t, "logout", "entered")
    /\ current' = SignedOut
    /\ requests' = [requests EXCEPT ![t] = Answered(@, 0)]
    /\ UNCHANGED <<superuser, available, simulations, recorded, written, adrift>>

-----------------------------------------------------------------------------
(* The end of a request, and what happens around it *)

\* What a request that overlapped another, or died, leaves open: the simulation
\* it started, and the one it was told of.
Lost(r) == SimulationIds \cap {r.pointer}

\* SessionMiddleware saves a changed session over whatever is stored, but a
\* session that was flushed does not come back.
Respond(t) ==
    /\ requests[t] # NoRequest
    /\ requests[t].stage = "answered"
    /\ LET r == requests[t]
       IN /\ current' = IF r.dirty /\ current # SignedOut THEN r.pointer ELSE current
          /\ adrift' = IF r.alone THEN adrift ELSE adrift \cup Lost(r)
    /\ requests' = [requests EXCEPT ![t] = NoRequest]
    /\ UNCHANGED <<superuser, available, simulations, recorded, written>>

Die(t) ==
    /\ requests[t] # NoRequest
    /\ adrift' = adrift \cup Lost(requests[t])
    /\ requests' = [requests EXCEPT ![t] = NoRequest]
    /\ UNCHANGED <<superuser, available, simulations, current, recorded, written>>

\* The session expires, or its account is closed or changes its password.
Expire ==
    /\ current # SignedOut
    /\ current' = SignedOut
    /\ adrift' = adrift \cup (SimulationIds \cap {current})
    /\ requests' = [t \in Tabs |->
           IF t \in Underway THEN [requests[t] EXCEPT !.alone = FALSE] ELSE NoRequest]
    /\ UNCHANGED <<superuser, available, simulations, recorded, written>>

\* The user pages and the administration close, open and promote accounts.
Promote ==
    /\ superuser' = ~ superuser
    /\ UNCHANGED <<available, simulations, current, requests, recorded, written, adrift>>

Avail(p) ==
    /\ available' = IF p \in available THEN available \ {p} ELSE available \cup {p}
    /\ UNCHANGED <<superuser, simulations, current, requests, recorded, written, adrift>>

SimulationNext ==
    \/ \E t \in Tabs :
          \/ \E kind \in Kinds, subject \in Subjects : Enter(t, kind, subject)
          \/ Record(t) \/ Write(t) \/ Answer(t) \/ Replace(t) \/ Start(t) \/ Stop(t)
          \/ Logout(t) \/ Respond(t) \/ Die(t)
    \/ Expire \/ Promote
    \/ \E p \in Subjects : Avail(p)

SimulationSpec == SimulationInit /\ [][SimulationNext]_simulationVars

-----------------------------------------------------------------------------
(* Properties *)

WritesAreRecorded == \A s \in SimulationIds : written[s] <= recorded[s]

OpenIsInUse ==
    \A s \in Open :
        \/ s = current
        \/ \E t \in Underway : s = requests[t].pointer
        \/ s \in adrift

\* The journal tells what was simulated: each write carried out as somebody
\* else is in it, even when its worker died; and a simulation it shows as open
\* is the one the session acts under, unless two tabs changed the session at
\* once, a request died or the session ended by itself.
JournalTellsSimulations == WritesAreRecorded /\ OpenIsInUse
=============================================================================
