---------------------------- MODULE Agenda_proofs ----------------------------
(***************************************************************************)
(* Theorems about Agenda, Presence and RoleSimulation for any number of    *)
(* people, periods, files, absences, tabs and simulations.                 *)
(***************************************************************************)
EXTENDS Agenda, Presence, RoleSimulation, TLAPS, FiniteSetTheorems

-----------------------------------------------------------------------------
(* The inductive invariant *)

\* The draft's lock admits one generation of a period at a time.
OneGenerationPerPeriod ==
    \A s, t \in Secretaries :
        generating[s] # None /\ generating[t] # None
        /\ generating[s].period = generating[t].period => s = t

\* A generation that has its number has the next one, whatever was committed,
\* failed or was reset since it read the versions.
NumbersAreNext ==
    /\ \A p \in Periods, d \in Directions : \E k \in Nat : Numbers(p, d) = 1..k
    /\ \A s \in Secretaries : generating[s] # None /\ generating[s].key # None =>
          /\ generating[s].number \in Nat \ {0}
          /\ Numbers(generating[s].period, generating[s].direction)
               = 1..(generating[s].number - 1)

\* A file has one owner, a version or a generation, and no reset deletes it.
FilesAreOwned ==
    /\ EveryVersionHasItsPdf
    /\ \A s \in Secretaries : generating[s] # None /\ generating[s].key # None =>
          /\ generating[s].key \in objects
          /\ \A i \in DOMAIN versions : versions[i].key # generating[s].key
          /\ \A t \in Secretaries :
                generating[t] # None /\ generating[t].key = generating[s].key => t = s
    /\ reset # None =>
          /\ reset.keys \subseteq 1..stored
          /\ reset.stage = "listed" => reset.keys \subseteq {versions[i].key : i \in DOMAIN versions}
          /\ reset.stage = "deleting" =>
                /\ \A i \in DOMAIN versions : versions[i].key \notin reset.keys
                /\ \A s \in Secretaries : 
                      generating[s] # None /\ generating[s].key # None
                      => generating[s].key \notin reset.keys

\* What a generation shows is the draft it holds, which no version is ahead of
\* unless the administration has moved the draft or put back its revision.
ShownIsCurrent ==
    /\ \A s \in Secretaries : generating[s] # None =>
          generating[s].shown =
             (IF drafts[generating[s].period] = None THEN 1
              ELSE drafts[generating[s].period].revision)
    /\ \A i \in DOMAIN versions : versions[i].period \notin overruled =>
          /\ drafts[versions[i].period] # None
          /\ versions[i].shown <= drafts[versions[i].period].revision

\* A screen that knows every change is not ahead of its draft, and equal to it
\* when their revisions are.
ScreensAreBehind ==
    \A s \in Secretaries :
        screen[s] # None /\ screen[s].since /\ screen[s].draft # None =>
           /\ drafts[screen[s].period] # None
           /\ screen[s].draft.revision <= drafts[screen[s].period].revision
           /\ screen[s].draft.revision = drafts[screen[s].period].revision
                => screen[s].draft = drafts[screen[s].period]

IInv ==
    /\ TypeOK
    /\ OneGenerationPerPeriod
    /\ NumberedWithoutGap
    /\ NumbersAreNext
    /\ FilesAreOwned
    /\ ShownIsCurrent
    /\ LaterVersionsShowLaterDrafts
    /\ ScreensAreBehind

\* A row never overlaps what its validation compared it with.
ComparedApart(row) == \A other \in row.against : ~ Overlap(row.period, other.period)

PresenceIInv ==
    /\ absences \in [AbsenceIds -> Absence \cup {NoRow}]
    /\ writing \in [Writers -> Request \cup {NoRow}]
    /\ \A a \in Rows : ComparedApart(absences[a])
    /\ \A w \in Writers : writing[w] # NoRow => ComparedApart(writing[w].row)

\* The requests that will write once under a simulation.
Writing(s) ==
    {t \in Tabs : requests[t] # NoRequest /\ requests[t].kind = "write"
                  /\ requests[t].stage = "ready" /\ requests[t].under = s}

\* Each of them is in the journal already.
RecordedBeforeWritten ==
    \A s \in SimulationIds : written[s] + Cardinality(Writing(s)) <= recorded[s]

\* Until it is answered, the session of a request is the one it acts under;
\* the replaced simulation is over.
PointersAreRead ==
    \A t \in Underway :
        /\ requests[t].stage # "answered" => requests[t].pointer = requests[t].under
        /\ requests[t].stage # "answered" /\ (requests[t].dirty \/ requests[t].kind = "logout")
             => requests[t].under = 0
        /\ requests[t].kind = "start" /\ requests[t].stage = "ready"
             => requests[t].under \notin Open
        /\ requests[t].pointer \in Started \cup {0}

\* Whoever may change the session overlaps everybody else.
ChangesAreSeen ==
    \A t, o \in Underway : t # o /\ Changes(requests[o]) => ~ requests[t].alone

\* Whoever may change the session has ended what it holds, or will before it
\* answers; what somebody else wrote meanwhile is adrift.
ChangesEndTheCurrent ==
    \A t \in Underway : Changes(requests[t]) /\ current \in Open =>
        \/ current \in adrift
        \/ /\ requests[t].kind \in {"start", "stop"} /\ requests[t].stage = "entered"
           /\ requests[t].under = current

\* The session is for a lone request what it was at its start.
AloneSeesTheSession ==
    \A t \in Underway : requests[t].alone =>
        /\ current # SignedOut \/ (requests[t].stage = "answered" /\ requests[t].pointer = 0)
        /\ ~ requests[t].dirty => requests[t].pointer \in {0, current}

SimulationIInv ==
    /\ SimulationTypeOK
    /\ current \in Started \cup {0, SignedOut}
    /\ RecordedBeforeWritten
    /\ PointersAreRead
    /\ ChangesAreSeen
    /\ ChangesEndTheCurrent
    /\ AloneSeesTheSession
    /\ OpenIsInUse

AllIInv == IInv /\ PresenceIInv /\ SimulationIInv

-----------------------------------------------------------------------------
(* Operators *)

LEMMA Constants ==
    /\ MaxObject \in Nat \ {0} /\ MaxDraftRevision \in Nat \ {0}
    /\ 1 \in 1..MaxDraftRevision /\ Empty \in Texts
    /\ None \notin Draft /\ None \notin 0..MaxDraftRevision
    /\ \A text \in Texts : NewDraft(text) \in Draft /\ NewDraft(text).revision = 1
BY AgendaAssumption, NoneIsNoDraft DEF NewDraft, Draft

\* The number after 1..k is k + 1.
LEMMA NumberAfter ==
    ASSUME NEW p, NEW d, NEW k \in Nat, Numbers(p, d) = 1..k
    PROVE  NextNumber(p, d) = k + 1
<1> DEFINE S == {0} \cup Numbers(p, d)
<1>1. S = 0..k
  OBVIOUS
<1>2. k \in S /\ \A y \in S : k >= y
  BY <1>1
<1>3. \A x \in S : (\A y \in S : x >= y) => x = k
  BY <1>1
<1>4. Max(S) = k
  <2> HIDE DEF S
  <2> QED BY <1>2, <1>3 DEF Max
<1> QED BY <1>4 DEF NextNumber

\* The numbers of some versions.
NumbersOf(rows, p, d) ==
    {rows[i].number : i \in {j \in DOMAIN rows : rows[j].period = p /\ rows[j].direction = d}}

\* A version that is committed adds its number to those of its agenda.
LEMMA NumbersAppended ==
    ASSUME versions \in Seq(Version), NEW v \in Version, versions' = Append(versions, v)
    PROVE  /\ NumbersOf(versions', v.period, v.direction)
                = Numbers(v.period, v.direction) \cup {v.number}
           /\ \A p, d : p # v.period \/ d # v.direction
                => NumbersOf(versions', p, d) = Numbers(p, d)
<1>1. /\ DOMAIN versions = 1..Len(versions) /\ Len(versions) \in Nat
      /\ DOMAIN versions' = 1..(Len(versions) + 1)
      /\ \A i \in DOMAIN versions : versions'[i] = versions[i]
      /\ versions'[Len(versions) + 1] = v
      /\ DOMAIN versions' = DOMAIN versions \cup {Len(versions) + 1}
      /\ Len(versions) + 1 \notin DOMAIN versions
  OBVIOUS
<1> QED BY <1>1 DEF Numbers, NumbersOf

\* The numbers of the versions before one that is appended are all of them.
LEMMA NumbersBefore ==
    ASSUME versions \in Seq(Version), NEW v, NumberedWithoutGap,
           versions' = Append(versions, v),
           Numbers(v.period, v.direction) = 1..(v.number - 1)
    PROVE  NumberedWithoutGap'
<1>1. /\ DOMAIN versions = 1..Len(versions) /\ Len(versions) \in Nat
      /\ DOMAIN versions' = 1..(Len(versions) + 1)
      /\ \A i \in 1..Len(versions) : versions'[i] = versions[i]
      /\ versions'[Len(versions) + 1] = v
      /\ Len(versions) + 1 - 1 = Len(versions)
  OBVIOUS
<1>2. ASSUME NEW i \in 1..Len(versions)
      PROVE  {versions'[j].number : j \in {k \in 1..(i - 1) :
                 /\ versions'[k].period = versions'[i].period
                 /\ versions'[k].direction = versions'[i].direction}}
             = 1..(versions'[i].number - 1)
  <2> DEFINE before(rows) == {k \in 1..(i - 1) : /\ rows[k].period = rows[i].period
                                               /\ rows[k].direction = rows[i].direction}
  <2>1. \A k \in 1..(i - 1) : k \in 1..Len(versions) /\ versions'[k] = versions[k]
    BY <1>1
  <2>2. versions'[i] = versions[i]
    BY <1>1
  <2>3. before(versions') = before(versions)
    BY <2>1, <2>2
  <2>4. \A j \in before(versions) : versions'[j].number = versions[j].number
    BY <2>1
  <2>5. {versions[j].number : j \in before(versions)} = 1..(versions[i].number - 1)
    BY <1>1 DEF NumberedWithoutGap
  <2> HIDE DEF before
  <2>6. {versions'[j].number : j \in before(versions)} = {versions[j].number : j \in before(versions)}
    BY <2>4
  <2>7. {versions'[j].number : j \in before(versions')} = 1..(versions'[i].number - 1)
    BY <2>2, <2>3, <2>5, <2>6
  <2> QED BY <2>7 DEF before
<1>3. {versions'[j].number : j \in {k \in 1..Len(versions) :
          /\ versions'[k].period = v.period /\ versions'[k].direction = v.direction}}
      = 1..(v.number - 1)
  BY <1>1 DEF Numbers
<1>4. \A i \in DOMAIN versions' : i \in 1..Len(versions) \/ i = Len(versions) + 1
  BY <1>1
<1>5. ASSUME NEW i \in DOMAIN versions'
      PROVE  {versions'[j].number : j \in {k \in 1..(i - 1) :
                 /\ versions'[k].period = versions'[i].period
                 /\ versions'[k].direction = versions'[i].direction}}
             = 1..(versions'[i].number - 1)
  <2>1. CASE i \in 1..Len(versions)
    BY <1>2, <2>1
  <2>2. CASE i = Len(versions) + 1
    <3>1. i - 1 = Len(versions) /\ versions'[i] = v
      BY <1>1, <2>2
    <3> QED BY <1>3, <3>1
  <2> QED BY <1>4, <2>1, <2>2
<1> QED BY <1>5 DEF NumberedWithoutGap

-----------------------------------------------------------------------------
(* The invariant of Agenda is inductive *)

LEMMA InitIInv == Init => IInv
<1> SUFFICES ASSUME Init PROVE IInv
  OBVIOUS
<1>1. DOMAIN versions = {} /\ versions \in Seq(Version)
  BY DEF Init
<1>2. TypeOK
  BY <1>1, Constants DEF Init, TypeOK
<1>3. \A p, d : Numbers(p, d) = 1..0
  BY <1>1 DEF Numbers
<1>4. NumbersAreNext
  BY <1>3 DEF Init, NumbersAreNext
<1>5. FilesAreOwned
  BY <1>1 DEF Init, FilesAreOwned, EveryVersionHasItsPdf
<1>6. ShownIsCurrent
  BY <1>1 DEF Init, ShownIsCurrent
<1> QED BY <1>1, <1>2, <1>4, <1>5, <1>6 DEF IInv, Init, OneGenerationPerPeriod, NumberedWithoutGap,
      LaterVersionsShowLaterDrafts, ScreensAreBehind

\* Only screens, forms and drafts change: no generation loses its draft, and no
\* revision goes back but in the periods that are overruled.
LEMMA DraftStep ==
    ASSUME IInv,
           UNCHANGED <<versions, generating, objects, stored, reset>>,
           drafts' \in [Periods -> Draft \cup {None}],
           screen' \in [Secretaries -> Screen \cup {None}],
           adminForm' \in AdminForm \cup {None},
           overruled' \subseteq Periods, overruled \subseteq overruled',
           \A p \in Periods : p \notin overruled' /\ drafts[p] # None =>
               drafts'[p] # None /\ drafts[p].revision <= drafts'[p].revision,
           \A p \in Periods : Locked(p) =>
               IF drafts[p] = None THEN drafts'[p] = None
               ELSE drafts'[p] # None /\ drafts'[p].revision = drafts[p].revision,
           ScreensAreBehind'
    PROVE  IInv'
<1>1. TypeOK'
  BY DEF IInv, TypeOK
<1>2. OneGenerationPerPeriod' /\ NumberedWithoutGap' /\ LaterVersionsShowLaterDrafts'
  BY DEF IInv, OneGenerationPerPeriod, NumberedWithoutGap, LaterVersionsShowLaterDrafts
<1>3. NumbersAreNext'
  <2>1. \A p, d : Numbers(p, d)' = Numbers(p, d)
    BY DEF Numbers
  <2> QED BY <2>1 DEF IInv, NumbersAreNext
<1>4. FilesAreOwned'
  BY DEF IInv, FilesAreOwned, EveryVersionHasItsPdf
<1>5. ShownIsCurrent'
  <2>1. ASSUME NEW s \in Secretaries, generating[s] # None
        PROVE  generating[s].shown =
                 (IF drafts'[generating[s].period] = None THEN 1
                  ELSE drafts'[generating[s].period].revision)
    <3>1. generating[s].period \in Periods /\ Locked(generating[s].period)
      BY <2>1 DEF IInv, TypeOK, Generation, Locked
    <3>2. generating[s].shown =
             (IF drafts[generating[s].period] = None THEN 1
              ELSE drafts[generating[s].period].revision)
      BY <2>1 DEF IInv, ShownIsCurrent
    <3> QED BY <3>1, <3>2
  <2>2. ASSUME NEW i \in DOMAIN versions, versions[i].period \notin overruled'
        PROVE  /\ drafts'[versions[i].period] # None
               /\ versions[i].shown <= drafts'[versions[i].period].revision
    <3>1. /\ versions[i].period \in Periods /\ versions[i].shown \in Nat
          /\ drafts[versions[i].period] # None
          /\ versions[i].shown <= drafts[versions[i].period].revision
      <4>1. versions[i] \in Version
        BY DEF IInv, TypeOK
      <4> QED BY <2>2, <4>1, Constants DEF IInv, Version, ShownIsCurrent
    <3>2. /\ drafts[versions[i].period].revision \in Nat
          /\ drafts'[versions[i].period] # None
          /\ drafts'[versions[i].period].revision \in Nat
          /\ drafts[versions[i].period].revision <= drafts'[versions[i].period].revision
      BY <2>2, <3>1, Constants DEF IInv, TypeOK, Draft
    <3> QED BY <3>1, <3>2
  <2> QED BY <2>1, <2>2 DEF ShownIsCurrent
<1> QED BY <1>1, <1>2, <1>3, <1>4, <1>5 DEF IInv

LEMMA LoadScreenStep ==
    ASSUME IInv, NEW s \in Secretaries, NEW p \in Periods, LoadScreen(s, p)
    PROVE  IInv'
<1> DEFINE new == [period |-> p, draft |-> drafts[p], since |-> TRUE]
<1>1. /\ new \in Screen /\ new.period = p /\ new.draft = drafts[p]
      /\ screen' = [screen EXCEPT ![s] = new]
      /\ UNCHANGED <<drafts, versions, generating, objects, stored, reset, adminForm, overruled>>
  BY DEF LoadScreen, IInv, TypeOK, Screen, administration
<1> HIDE DEF new
<1>2. /\ screen' \in [Secretaries -> Screen \cup {None}] /\ screen'[s] = new
      /\ \A t \in Secretaries : t # s => screen'[t] = screen[t]
  BY <1>1 DEF IInv, TypeOK
<1>3. /\ drafts' \in [Periods -> Draft \cup {None}]
      /\ adminForm' \in AdminForm \cup {None}
      /\ overruled' \subseteq Periods /\ overruled \subseteq overruled'
  BY <1>1 DEF IInv, TypeOK
<1>4. \A q \in Periods : drafts[q] # None => drafts[q].revision <= drafts[q].revision
  BY Constants DEF IInv, TypeOK, Draft
<1>5. ScreensAreBehind'
  BY <1>1, <1>2, <1>4 DEF IInv, ScreensAreBehind
<1> QED BY <1>1, <1>2, <1>3, <1>4, <1>5, DraftStep

\* The revision on screen is the draft's: what it shows is the draft.
LEMMA SaveShown ==
    ASSUME IInv, NEW s \in Secretaries, NEW p \in Periods, NEW text \in Texts,
           NEW expected \in 0..MaxDraftRevision,
           SaveDraft(s, p, text, expected), screen[s].since
    PROVE  screen[s].draft = drafts[p]
<1>1. /\ expected # None /\ expected = ShownRevision(s)
      /\ screen[s] # None /\ screen[s].period = p
      /\ screen[s].draft \in Draft \cup {None}
      /\ drafts[p] \in Draft \cup {None}
  BY Constants DEF SaveDraft, IInv, TypeOK, Screen
<1>2. ShownRevision(s) = IF drafts[p] = None THEN 0 ELSE drafts[p].revision
  BY <1>1 DEF SaveDraft, EnsureRevision
<1>3. CASE screen[s].draft = None
  <2>1. drafts[p] # None => drafts[p].revision # 0
    BY <1>1, Constants DEF Draft
  <2> QED BY <1>2, <1>3, <2>1 DEF ShownRevision
<1>4. CASE screen[s].draft # None
  <2>1. drafts[p] # None /\ screen[s].draft.revision = drafts[p].revision
    BY <1>1, <1>2, <1>4 DEF ShownRevision, IInv, ScreensAreBehind
  <2> QED BY <1>1, <1>4, <2>1 DEF IInv, ScreensAreBehind
<1> QED BY <1>3, <1>4

LEMMA SaveDraftStep ==
    ASSUME IInv, NEW s \in Secretaries, NEW p \in Periods, NEW text \in Texts,
           NEW expected \in 0..MaxDraftRevision \cup {None}, SaveDraft(s, p, text, expected)
    PROVE  IInv'
<1> DEFINE new == IF drafts[p] = None THEN NewDraft(text)
                  ELSE [revision |-> drafts[p].revision + 1, text |-> text]
<1>1. /\ drafts' = [drafts EXCEPT ![p] = new] /\ ~ Locked(p)
      /\ screen' = screen \/ screen' = [screen EXCEPT ![s] = None]
      /\ UNCHANGED <<versions, generating, objects, stored, reset, adminForm, overruled>>
      /\ drafts[p] # None => drafts[p].revision < MaxDraftRevision
  BY DEF SaveDraft, administration
<1>2. /\ new \in Draft /\ new # None
      /\ drafts[p] # None => drafts[p].revision < new.revision /\ drafts[p].revision \in Nat
  BY <1>1, Constants DEF IInv, TypeOK, Draft
<1> HIDE DEF new
<1>3. /\ drafts' \in [Periods -> Draft \cup {None}] /\ drafts'[p] = new
      /\ \A q \in Periods : q # p => drafts'[q] = drafts[q]
      /\ screen' \in [Secretaries -> Screen \cup {None}]
      /\ \A t \in Secretaries : screen'[t] # None => screen'[t] = screen[t]
      /\ adminForm' \in AdminForm \cup {None}
      /\ overruled' \subseteq Periods /\ overruled \subseteq overruled'
  BY <1>1, <1>2 DEF IInv, TypeOK
<1>4. \A q \in Periods : drafts[q] # None =>
         /\ drafts[q].revision \in Nat /\ drafts'[q] # None
         /\ drafts'[q].revision \in Nat /\ drafts[q].revision <= drafts'[q].revision
         /\ drafts[q].revision <= drafts[q].revision
  BY <1>2, <1>3, Constants DEF IInv, TypeOK, Draft
<1>5. ScreensAreBehind'
  <2> SUFFICES ASSUME NEW t \in Secretaries, screen'[t] # None, screen'[t].since,
                      screen'[t].draft # None
               PROVE  /\ drafts'[screen'[t].period] # None
                      /\ screen'[t].draft.revision <= drafts'[screen'[t].period].revision
                      /\ screen'[t].draft.revision = drafts'[screen'[t].period].revision
                           => screen'[t].draft = drafts'[screen'[t].period]
    BY DEF ScreensAreBehind
  <2>1. /\ screen'[t] = screen[t] /\ screen[t].period \in Periods
        /\ screen[t].draft.revision \in Nat
        /\ drafts[screen[t].period] # None
        /\ screen[t].draft.revision <= drafts[screen[t].period].revision
        /\ screen[t].draft.revision = drafts[screen[t].period].revision
             => screen[t].draft = drafts[screen[t].period]
    BY <1>3, Constants DEF IInv, TypeOK, Screen, Draft, ScreensAreBehind
  <2>2. CASE screen[t].period = p
    BY <2>1, <2>2, <1>2, <1>3, <1>4
  <2>3. CASE screen[t].period # p
    BY <2>1, <2>3, <1>3
  <2> QED BY <2>2, <2>3
<1>6. \A q \in Periods : Locked(q) => drafts'[q] = drafts[q]
  BY <1>1, <1>3
<1> QED BY <1>1, <1>3, <1>4, <1>5, <1>6, DraftStep

LEMMA AdminReadStep ==
    ASSUME IInv, NEW p \in Periods, AdminRead(p)
    PROVE  IInv'
<1>1. /\ adminForm' \in AdminForm \cup {None}
      /\ UNCHANGED <<drafts, versions, generating, objects, stored, reset, screen, overruled>>
  BY Constants DEF AdminRead, IInv, TypeOK, Draft, AdminForm
<1>2. /\ drafts' \in [Periods -> Draft \cup {None}]
      /\ screen' \in [Secretaries -> Screen \cup {None}]
      /\ overruled' \subseteq Periods /\ overruled \subseteq overruled'
  BY <1>1 DEF IInv, TypeOK
<1>3. \A q \in Periods : drafts[q] # None => drafts[q].revision <= drafts[q].revision
  BY Constants DEF IInv, TypeOK, Draft
<1>4. ScreensAreBehind'
  BY <1>1 DEF IInv, ScreensAreBehind
<1> QED BY <1>1, <1>2, <1>3, <1>4, DraftStep

\* The administration waits for the generations of both periods; what it leaves
\* there is overruled, unless it saves the revision that is there, or inserts a
\* row where there is none.
LEMMA AdminSaveStep ==
    ASSUME IInv, NEW q \in Periods, NEW text \in Texts, AdminSave(q, text)
    PROVE  IInv'
<1> DEFINE p == adminForm.period
           new == [revision |-> adminForm.revision, text |-> text]
           told(t) == [screen[t] EXCEPT !.since = FALSE]
<1>1. /\ adminForm # None /\ p \in Periods /\ adminForm.revision \in 1..MaxDraftRevision
      /\ ~ Locked(q) /\ (adminForm.gone \/ ~ Locked(p))
      /\ drafts[q] = None \/ (q = p /\ ~ adminForm.gone)
      /\ drafts' = Row(p, q, new)
      /\ screen' = [t \in Secretaries |->
            IF screen[t] # None /\ screen[t].period \in {p, q} THEN told(t) ELSE screen[t]]
      /\ adminForm' = None
      /\ UNCHANGED <<versions, generating, objects, stored, reset>>
  BY DEF AdminSave, IInv, TypeOK, AdminForm
<1>2. \/ overruled' = overruled \cup {p, q}
      \/ /\ overruled' = overruled
         /\ adminForm.gone
              \/ (p = q /\ drafts[p] # None /\ drafts[p].revision = adminForm.revision)
  BY DEF AdminSave
<1>3. new \in Draft /\ new # None /\ new.revision = adminForm.revision
  BY <1>1, Constants DEF Draft
<1>4. \A t \in Secretaries : screen[t] # None => told(t) \in Screen /\ ~ told(t).since
  BY DEF IInv, TypeOK, Screen
<1> HIDE DEF new, told, p
<1>5. /\ drafts' \in [Periods -> Draft \cup {None}] /\ drafts'[q] = new
      /\ \A r \in Periods : r \notin {p, q} => drafts'[r] = drafts[r]
      /\ adminForm.gone => \A r \in Periods : r # q => drafts'[r] = drafts[r]
  BY <1>1, <1>3 DEF Row, IInv, TypeOK
<1>6. screen' \in [Secretaries -> Screen \cup {None}]
  BY <1>1, <1>4 DEF IInv, TypeOK
<1>7. \A t \in Secretaries : screen'[t] # None /\ screen'[t].since =>
         screen'[t] = screen[t] /\ screen[t] # None /\ screen[t].period \notin {p, q}
         /\ screen[t].period \in Periods
  BY <1>1, <1>4 DEF IInv, TypeOK, Screen
<1>8. \A r \in Periods : drafts[r] # None => drafts[r].revision <= drafts[r].revision
  BY Constants DEF IInv, TypeOK, Draft
<1>9. /\ adminForm' \in AdminForm \cup {None}
      /\ overruled' \subseteq Periods /\ overruled \subseteq overruled'
  BY <1>1, <1>2 DEF IInv, TypeOK
<1>10. ASSUME NEW r \in Periods, r \notin overruled', drafts[r] # None
       PROVE  drafts'[r] # None /\ drafts[r].revision <= drafts'[r].revision
  <2>1. CASE r \notin {p, q}
    BY <2>1, <1>5, <1>8, <1>10
  <2>2. CASE r \in {p, q} /\ adminForm.gone
    BY <2>2, <1>1, <1>5, <1>8, <1>10
  <2>3. CASE r \in {p, q} /\ ~ adminForm.gone
    BY <2>3, <1>2, <1>3, <1>5, <1>8, <1>10
  <2> QED BY <2>1, <2>2, <2>3
<1>11. \A r \in Periods : Locked(r) => drafts'[r] = drafts[r]
  BY <1>1, <1>5
<1>12. ScreensAreBehind'
  BY <1>5, <1>7 DEF IInv, ScreensAreBehind
<1> QED BY <1>1, <1>5, <1>6, <1>9, <1>10, <1>11, <1>12, DraftStep

\* Generations come and go without a number of their own.
LEMMA GenerationStep ==
    ASSUME IInv, NEW s \in Secretaries, NEW g,
           generating' = [generating EXCEPT ![s] = g],
           UNCHANGED <<drafts, versions, stored, reset, screen, adminForm, overruled>>,
           objects' \subseteq objects,
           \A i \in DOMAIN versions : versions[i].key \in objects',
           \A t \in Secretaries : t # s /\ generating[t] # None /\ generating[t].key # None
               => generating[t].key \in objects',
           g # None =>
               /\ g \in Generation /\ ~ Locked(g.period) /\ g.key = None
               /\ g.shown = (IF drafts[g.period] = None THEN 1 ELSE drafts[g.period].revision)
    PROVE  IInv'
<1>1. /\ generating' \in [Secretaries -> Generation \cup {None}]
      /\ generating'[s] = g
      /\ \A t \in Secretaries : t # s => generating'[t] = generating[t]
  BY DEF IInv, TypeOK
<1>2. TypeOK'
  BY <1>1 DEF IInv, TypeOK
<1>3. OneGenerationPerPeriod'
  BY <1>1 DEF IInv, OneGenerationPerPeriod, Locked
<1>4. NumberedWithoutGap' /\ LaterVersionsShowLaterDrafts' /\ ScreensAreBehind'
  BY DEF IInv, NumberedWithoutGap, LaterVersionsShowLaterDrafts, ScreensAreBehind
<1>5. NumbersAreNext'
  BY <1>1 DEF IInv, NumbersAreNext, Numbers
<1>6. FilesAreOwned'
  BY <1>1 DEF IInv, FilesAreOwned, EveryVersionHasItsPdf
<1>7. ShownIsCurrent'
  BY <1>1 DEF IInv, ShownIsCurrent
<1> QED BY <1>2, <1>3, <1>4, <1>5, <1>6, <1>7 DEF IInv

LEMMA BeginGenerationStep ==
    ASSUME IInv, NEW s \in Secretaries, NEW p \in Periods, NEW direction \in Directions,
           BeginGeneration(s, p, direction)
    PROVE  IInv'
<1> DEFINE g == [period |-> p, direction |-> direction, number |-> 0, key |-> None,
                 shown |-> IF drafts[p] = None THEN 1 ELSE drafts[p].revision]
<1>1. /\ generating' = [generating EXCEPT ![s] = g] /\ ~ Locked(p)
      /\ UNCHANGED <<drafts, versions, objects, stored, reset, screen, adminForm, overruled>>
  BY DEF BeginGeneration, administration
<1>2. (IF drafts[p] = None THEN 1 ELSE drafts[p].revision) \in 1..MaxDraftRevision
  BY Constants DEF IInv, TypeOK, Draft
<1>3. /\ g \in Generation /\ g.period = p /\ g.key = None
      /\ g.shown = IF drafts[p] = None THEN 1 ELSE drafts[p].revision
  BY <1>2 DEF Generation
<1> HIDE DEF g
<1>4. /\ \A i \in DOMAIN versions : versions[i].key \in objects'
      /\ \A t \in Secretaries : generating[t] # None /\ generating[t].key # None
            => generating[t].key \in objects'
  BY <1>1 DEF IInv, FilesAreOwned, EveryVersionHasItsPdf
<1> QED BY <1>1, <1>3, <1>4, GenerationStep

LEMMA InsertFailsStep == ASSUME IInv, NEW s \in Secretaries, InsertFails(s) PROVE IInv'
<1>1. /\ generating[s] # None /\ generating[s].key # None
      /\ generating' = [generating EXCEPT ![s] = None]
      /\ UNCHANGED <<drafts, versions, stored, reset, screen, adminForm, overruled>>
      /\ objects' \subseteq objects
      /\ \A k \in objects : k # generating[s].key => k \in objects'
  BY DEF InsertFails, administration
<1>2. /\ \A i \in DOMAIN versions : versions[i].key \in objects'
      /\ \A t \in Secretaries : t # s /\ generating[t] # None /\ generating[t].key # None
            => generating[t].key \in objects'
  BY <1>1 DEF IInv, FilesAreOwned, EveryVersionHasItsPdf
<1> QED BY <1>1, <1>2, GenerationStep

LEMMA CrashStep == ASSUME IInv, NEW s \in Secretaries, Crash(s) PROVE IInv'
<1>1. /\ \A i \in DOMAIN versions : versions[i].key \in objects'
      /\ \A t \in Secretaries : generating[t] # None /\ generating[t].key # None
            => generating[t].key \in objects'
      /\ objects' \subseteq objects
  BY DEF Crash, IInv, FilesAreOwned, EveryVersionHasItsPdf
<1> QED BY <1>1, GenerationStep DEF Crash, administration

LEMMA StorePdfStep == ASSUME IInv, NEW s \in Secretaries, StorePdf(s) PROVE IInv'
<1> DEFINE g == generating[s]
           p == g.period
           d == g.direction
           n == NextNumber(p, d)
           k == stored + 1
           new == [g EXCEPT !.key = k, !.number = n]
<1>1. /\ g # None /\ g \in Generation /\ p \in Periods /\ d \in Directions
      /\ stored \in Nat /\ k \in Keys /\ k \in Nat /\ stored < k
      /\ stored' = k /\ objects' = objects \cup {k}
      /\ objects \subseteq 1..stored
      /\ UNCHANGED <<drafts, versions, reset, screen, adminForm, overruled>>
  BY Constants DEF administration, StorePdf, IInv, TypeOK, Generation, Keys
<1>2. generating' = [generating EXCEPT ![s] = new]
  BY DEF StorePdf, IInv, TypeOK
<1>3. n \in Nat \ {0} /\ Numbers(p, d) = 1..(n - 1)
  <2>1. PICK m \in Nat : Numbers(p, d) = 1..m
    BY <1>1 DEF IInv, NumbersAreNext
  <2>2. n = m + 1
    BY <2>1, NumberAfter
  <2> QED BY <2>1, <2>2
<1> HIDE DEF n, k
<1>4. /\ new \in Generation /\ new.period = p /\ new.direction = d
      /\ new.shown = g.shown /\ new.key = k /\ new.number = n
  BY <1>1, <1>3 DEF Generation
<1> HIDE DEF new
<1>5. /\ generating' \in [Secretaries -> Generation \cup {None}]
      /\ generating'[s] = new
      /\ \A t \in Secretaries : t # s => generating'[t] = generating[t]
  BY <1>2, <1>4 DEF IInv, TypeOK
<1>6. TypeOK'
  <2>1. objects' \subseteq 1..stored' /\ stored' \in 0..MaxObject
    BY <1>1, Constants DEF Keys
  <2> QED BY <2>1, <1>1, <1>5 DEF IInv, TypeOK
<1>7. OneGenerationPerPeriod'
  BY <1>1, <1>4, <1>5 DEF IInv, OneGenerationPerPeriod
<1>8. NumberedWithoutGap' /\ LaterVersionsShowLaterDrafts' /\ ScreensAreBehind'
  BY <1>1 DEF IInv, NumberedWithoutGap, LaterVersionsShowLaterDrafts, ScreensAreBehind
<1>9. NumbersAreNext'
  BY <1>1, <1>3, <1>4, <1>5 DEF IInv, NumbersAreNext, Numbers
<1>10. FilesAreOwned'
  BY <1>1, <1>4, <1>5 DEF IInv, FilesAreOwned, EveryVersionHasItsPdf
<1>11. ShownIsCurrent'
  BY <1>1, <1>4, <1>5 DEF IInv, ShownIsCurrent
<1> QED BY <1>6, <1>7, <1>8, <1>9, <1>10, <1>11 DEF IInv

LEMMA CommitGenerationStep ==
    ASSUME IInv, NEW s \in Secretaries, CommitGeneration(s)
    PROVE  IInv'
<1> DEFINE g == generating[s]
           p == g.period
           draft == IF drafts[p] = None THEN NewDraft(Empty) ELSE drafts[p]
           v == [period |-> p, direction |-> g.direction, shown |-> g.shown,
                 number |-> g.number, key |-> g.key]
           last == Len(versions) + 1
<1>1. /\ g # None /\ g.key # None /\ g \in Generation /\ p \in Periods
      /\ drafts' = [drafts EXCEPT ![p] = draft]
      /\ versions' = Append(versions, v)
      /\ generating' = [generating EXCEPT ![s] = None]
      /\ UNCHANGED <<objects, stored, reset, screen, adminForm, overruled>>
  BY DEF administration, CommitGeneration, IInv, TypeOK, Generation
<1>2. /\ g.number \in Nat \ {0} /\ Numbers(p, g.direction) = 1..(g.number - 1)
      /\ g.key \in objects
      /\ g.shown = (IF drafts[p] = None THEN 1 ELSE drafts[p].revision)
  BY <1>1 DEF IInv, NumbersAreNext, FilesAreOwned, ShownIsCurrent
<1>3. /\ v \in Version /\ v.period = p /\ v.direction = g.direction
      /\ v.shown = g.shown /\ v.number = g.number /\ v.key = g.key
      /\ v.shown \in Nat
  BY <1>1, <1>2, Constants DEF Generation, Version
<1>4. /\ draft \in Draft /\ draft # None /\ draft.revision = g.shown
      /\ drafts[p] # None => draft = drafts[p]
  BY <1>1, <1>2, Constants DEF IInv, TypeOK
<1> HIDE DEF v, draft
<1>5. /\ drafts' \in [Periods -> Draft \cup {None}] /\ drafts'[p] = draft
      /\ \A q \in Periods : drafts[q] # None => drafts'[q] = drafts[q]
      /\ \A q \in Periods : q # p => drafts'[q] = drafts[q]
  BY <1>1, <1>4 DEF IInv, TypeOK
<1>6. /\ versions \in Seq(Version) /\ versions' \in Seq(Version)
      /\ DOMAIN versions = 1..Len(versions) /\ Len(versions) \in Nat
      /\ DOMAIN versions' = 1..last
      /\ \A i \in DOMAIN versions : versions'[i] = versions[i] /\ versions[i] \in Version
      /\ versions'[last] = v
      /\ \A i \in DOMAIN versions' : i \in DOMAIN versions \/ i = last
  BY <1>1, <1>3 DEF IInv, TypeOK
<1>7. /\ generating' \in [Secretaries -> Generation \cup {None}]
      /\ generating'[s] = None
      /\ \A t \in Secretaries : t # s => generating'[t] = generating[t]
      /\ \A t \in Secretaries : generating'[t] # None =>
            t # s /\ generating'[t] = generating[t] /\ generating[t].period # p
            /\ generating[t].period \in Periods /\ generating[t].direction \in Directions
  BY <1>1 DEF IInv, TypeOK, OneGenerationPerPeriod, Generation
<1>8. TypeOK'
  BY <1>1, <1>5, <1>6, <1>7 DEF IInv, TypeOK
<1>9. OneGenerationPerPeriod'
  BY <1>7 DEF IInv, OneGenerationPerPeriod
<1>10. NumberedWithoutGap'
  BY <1>1, <1>2, <1>3, <1>6, NumbersBefore DEF IInv
<1>11. /\ NumbersOf(versions', p, g.direction) = Numbers(p, g.direction) \cup {g.number}
       /\ \A q, d : q # p \/ d # g.direction => NumbersOf(versions', q, d) = Numbers(q, d)
  <2>1. versions \in Seq(Version) /\ v \in Version /\ versions' = Append(versions, v)
    BY <1>1, <1>3, <1>6
  <2> QED BY <2>1, <1>3, NumbersAppended
<1>12. NumbersAreNext'
  <2>1. NumbersOf(versions', p, g.direction) = 1..g.number
    BY <1>2, <1>11
  <2>2. \A q \in Periods, d \in Directions : \E k \in Nat : NumbersOf(versions', q, d) = 1..k
    BY <2>1, <1>2, <1>11 DEF IInv, NumbersAreNext
  <2>3. ASSUME NEW t \in Secretaries, generating'[t] # None, generating'[t].key # None
        PROVE  /\ generating'[t].number \in Nat \ {0}
               /\ NumbersOf(versions', generating'[t].period, generating'[t].direction)
                    = 1..(generating'[t].number - 1)
    BY <2>3, <1>7, <1>11 DEF IInv, NumbersAreNext
  <2> QED BY <2>2, <2>3 DEF NumbersAreNext, Numbers, NumbersOf
<1>13. FilesAreOwned'
  <2>1. EveryVersionHasItsPdf'
    BY <1>1, <1>2, <1>3, <1>6 DEF IInv, FilesAreOwned, EveryVersionHasItsPdf
  <2>2. ASSUME NEW t \in Secretaries, generating'[t] # None, generating'[t].key # None
        PROVE  /\ generating'[t].key \in objects
               /\ \A i \in DOMAIN versions' : versions'[i].key # generating'[t].key
               /\ \A u \in Secretaries :
                     generating'[u] # None /\ generating'[u].key = generating'[t].key => u = t
    BY <2>2, <1>1, <1>3, <1>6, <1>7 DEF IInv, FilesAreOwned
  <2>3. reset # None =>
          /\ reset.keys \subseteq 1..stored
          /\ reset.stage = "listed" => reset.keys \subseteq {versions'[i].key : i \in DOMAIN versions'}
          /\ reset.stage = "deleting" =>
                /\ \A i \in DOMAIN versions' : versions'[i].key \notin reset.keys
                /\ \A t \in Secretaries :
                      generating'[t] # None /\ generating'[t].key # None
                      => generating'[t].key \notin reset.keys
    BY <1>1, <1>3, <1>6, <1>7 DEF IInv, FilesAreOwned
  <2> QED BY <1>1, <2>1, <2>2, <2>3 DEF FilesAreOwned
<1>14. ShownIsCurrent'
  <2>1. ASSUME NEW t \in Secretaries, generating'[t] # None
        PROVE  generating'[t].shown =
                 (IF drafts'[generating'[t].period] = None THEN 1
                  ELSE drafts'[generating'[t].period].revision)
    BY <2>1, <1>5, <1>7 DEF IInv, ShownIsCurrent
  <2>2. ASSUME NEW i \in DOMAIN versions, versions[i].period \notin overruled
        PROVE  /\ drafts'[versions[i].period] # None
               /\ versions[i].shown <= drafts'[versions[i].period].revision
    BY <2>2, <1>5, <1>6 DEF IInv, ShownIsCurrent, Version
  <2>3. drafts'[v.period] # None /\ v.shown <= drafts'[v.period].revision
    BY <1>3, <1>4, <1>5
  <2> QED BY <2>1, <2>2, <2>3, <1>1, <1>6 DEF ShownIsCurrent
<1>15. LaterVersionsShowLaterDrafts'
  <2>1. ASSUME NEW i \in DOMAIN versions, versions[i].period = p, p \notin overruled
        PROVE  versions[i].shown <= v.shown
    BY <2>1, <1>3, <1>4 DEF IInv, ShownIsCurrent
  <2>2. ASSUME NEW i \in DOMAIN versions', NEW j \in DOMAIN versions', i < j,
               versions'[i].period = versions'[j].period, versions'[i].period \notin overruled
        PROVE  versions'[i].shown <= versions'[j].shown
    <3>1. i \in DOMAIN versions
      BY <2>2, <1>6
    <3>2. CASE j \in DOMAIN versions
      BY <2>2, <3>1, <3>2, <1>6 DEF IInv, LaterVersionsShowLaterDrafts
    <3>3. CASE j = last
      BY <2>1, <2>2, <3>1, <3>3, <1>3, <1>6
    <3> QED BY <3>2, <3>3, <1>6
  <2> QED BY <1>1, <2>2 DEF LaterVersionsShowLaterDrafts
<1>16. ScreensAreBehind'
  <2>1. \A t \in Secretaries : screen[t] # None => screen[t].period \in Periods
    BY DEF IInv, TypeOK, Screen
  <2> QED BY <2>1, <1>1, <1>5 DEF IInv, ScreensAreBehind
<1> QED BY <1>8, <1>9, <1>10, <1>12, <1>13, <1>14, <1>15, <1>16 DEF IInv

\* Files are listed and deleted, none of a version or of a generation.
LEMMA FilesStep ==
    ASSUME IInv,
           UNCHANGED <<drafts, versions, generating, stored, screen, adminForm, overruled>>,
           objects' \subseteq objects,
           reset' \in [stage : {"listed", "deleting"}, keys : SUBSET Keys] \cup {None},
           FilesAreOwned'
    PROVE  IInv'
<1>1. TypeOK'
  BY DEF IInv, TypeOK
<1>2. OneGenerationPerPeriod' /\ NumberedWithoutGap' /\ LaterVersionsShowLaterDrafts'
  BY DEF IInv, OneGenerationPerPeriod, NumberedWithoutGap, LaterVersionsShowLaterDrafts
<1>3. NumbersAreNext'
  BY DEF IInv, NumbersAreNext, Numbers
<1>4. ShownIsCurrent' /\ ScreensAreBehind'
  BY DEF IInv, ShownIsCurrent, ScreensAreBehind
<1> QED BY <1>1, <1>2, <1>3, <1>4 DEF IInv

LEMMA ListFilesStep == ASSUME IInv, ListFiles PROVE IInv'
<1> DEFINE new == [stage |-> "listed", keys |-> {versions[i].key : i \in DOMAIN versions}]
<1>1. \A i \in DOMAIN versions : versions[i].key \in Keys /\ versions[i].key \in 1..stored
  <2>1. \A i \in DOMAIN versions : versions[i] \in Version
    BY DEF IInv, TypeOK
  <2> QED BY <2>1 DEF IInv, TypeOK, FilesAreOwned, EveryVersionHasItsPdf, Version
<1>2. /\ new \in [stage : {"listed", "deleting"}, keys : SUBSET Keys]
      /\ new.stage = "listed" /\ new.keys = {versions[i].key : i \in DOMAIN versions}
      /\ new.keys \subseteq 1..stored
      /\ reset' = new
      /\ UNCHANGED <<drafts, versions, generating, objects, stored, screen, adminForm, overruled>>
  BY <1>1 DEF ListFiles, administration
<1> HIDE DEF new
<1>3. FilesAreOwned'
  BY <1>2 DEF IInv, FilesAreOwned, EveryVersionHasItsPdf
<1> QED BY <1>2, <1>3, FilesStep

LEMMA DeleteRowsStep == ASSUME IInv, DeleteRows PROVE IInv'
<1> DEFINE new == [stage |-> "deleting", keys |-> reset.keys]
           told(t) == [screen[t] EXCEPT !.since = FALSE]
<1>1. \A s \in Secretaries : generating[s] = None
  BY DEF DeleteRows, Locked, IInv, TypeOK, Generation
<1>2. /\ reset # None /\ versions' = <<>> /\ DOMAIN versions' = {}
      /\ versions' \in Seq(Version)
      /\ drafts' = [p \in Periods |-> None]
      /\ reset' = new
      /\ screen' = [s \in Secretaries |-> IF screen[s] # None THEN told(s) ELSE None]
      /\ overruled' = {}
      /\ UNCHANGED <<generating, objects, stored>>
  BY DEF DeleteRows
<1>3. /\ new \in [stage : {"listed", "deleting"}, keys : SUBSET Keys]
      /\ new.stage = "deleting" /\ new.keys = reset.keys /\ new.keys \subseteq 1..stored
  BY <1>2 DEF IInv, TypeOK, FilesAreOwned
<1>4. \A t \in Secretaries : screen[t] # None => told(t) \in Screen /\ ~ told(t).since
  BY DEF IInv, TypeOK, Screen
<1> HIDE DEF new, told
<1>5. TypeOK'
  <2>1. adminForm' \in AdminForm \cup {None}
    BY DEF DeleteRows, IInv, TypeOK, AdminForm
  <2> QED BY <2>1, <1>2, <1>3, <1>4 DEF IInv, TypeOK
<1>6. \A p, d : Numbers(p, d)' = 1..0
  BY <1>2 DEF Numbers
<1>7. NumbersAreNext'
  BY <1>1, <1>2, <1>6 DEF NumbersAreNext
<1>8. FilesAreOwned'
  BY <1>1, <1>2, <1>3 DEF FilesAreOwned, EveryVersionHasItsPdf
<1>9. ShownIsCurrent'
  BY <1>1, <1>2 DEF ShownIsCurrent
<1>10. ScreensAreBehind'
  BY <1>2, <1>4 DEF ScreensAreBehind
<1> QED BY <1>1, <1>2, <1>5, <1>7, <1>8, <1>9, <1>10 DEF IInv, OneGenerationPerPeriod,
      NumberedWithoutGap, LaterVersionsShowLaterDrafts

LEMMA DeleteFileStep == ASSUME IInv, NEW key \in Keys, DeleteFile(key) PROVE IInv'
<1> DEFINE new == [reset EXCEPT !.keys = @ \ {key}]
<1>1. /\ reset # None /\ reset.stage = "deleting" /\ key \in reset.keys
      /\ reset \in [stage : {"listed", "deleting"}, keys : SUBSET Keys]
      /\ objects' \subseteq objects /\ \A k \in objects : k # key => k \in objects'
      /\ reset' = new
      /\ UNCHANGED <<drafts, versions, generating, stored, screen, adminForm, overruled>>
  BY DEF administration, DeleteFile, IInv, TypeOK
<1>2. /\ new \in [stage : {"listed", "deleting"}, keys : SUBSET Keys]
      /\ new.stage = "deleting" /\ new.keys = reset.keys \ {key}
  BY <1>1
<1> HIDE DEF new
<1>3. EveryVersionHasItsPdf'
  BY <1>1 DEF IInv, FilesAreOwned, EveryVersionHasItsPdf
<1>4. FilesAreOwned'
  BY <1>1, <1>2, <1>3 DEF IInv, FilesAreOwned
<1> QED BY <1>1, <1>2, <1>4, FilesStep

LEMMA EndResetStep == ASSUME IInv, EndReset PROVE IInv'
<1>1. FilesAreOwned'
  BY DEF EndReset, IInv, FilesAreOwned, EveryVersionHasItsPdf
<1> QED BY <1>1, FilesStep DEF EndReset, administration

LEMMA UnchangedStep == ASSUME IInv, UNCHANGED vars PROVE IInv'
<1>1. FilesAreOwned'
  BY DEF vars, IInv, FilesAreOwned, EveryVersionHasItsPdf
<1> QED BY <1>1, FilesStep DEF vars, IInv, TypeOK

LEMMA NextIInv == IInv /\ [Next]_vars => IInv'
<1> SUFFICES ASSUME IInv, [Next]_vars PROVE IInv'
  OBVIOUS
<1>1. ASSUME NEW s \in Secretaries, NEW p \in Periods,
             \/ LoadScreen(s, p)
             \/ \E text \in Texts, expected \in 0..MaxDraftRevision \cup {None} :
                   SaveDraft(s, p, text, expected)
             \/ \E direction \in Directions : BeginGeneration(s, p, direction)
      PROVE  IInv'
  BY <1>1, LoadScreenStep, SaveDraftStep, BeginGenerationStep
<1>2. ASSUME NEW p \in Periods, AdminRead(p) \/ \E text \in Texts : AdminSave(p, text)
      PROVE  IInv'
  BY <1>2, AdminReadStep, AdminSaveStep
<1>3. ASSUME NEW s \in Secretaries,
             StorePdf(s) \/ CommitGeneration(s) \/ InsertFails(s) \/ Crash(s)
      PROVE  IInv'
  BY <1>3, StorePdfStep, CommitGenerationStep, InsertFailsStep, CrashStep
<1>4. CASE ListFiles \/ DeleteRows \/ EndReset
  BY <1>4, ListFilesStep, DeleteRowsStep, EndResetStep
<1>5. ASSUME NEW key \in Keys, DeleteFile(key) PROVE IInv'
  BY <1>5, DeleteFileStep
<1>6. CASE UNCHANGED vars
  BY <1>6, UnchangedStep
<1> QED BY <1>1, <1>2, <1>3, <1>4, <1>5, <1>6 DEF Next

THEOREM Inductive == Spec => []IInv
BY InitIInv, NextIInv, PTL DEF Spec

\* Drafts, versions, generations, files and screens keep their types.
THEOREM TypeCorrect == Spec => []TypeOK
BY Inductive, PTL DEF IInv

\* The versions of a period and direction are numbered 1, 2, 3...
THEOREM VersionsNumberedWithoutGap == Spec => []NumberedWithoutGap
BY Inductive, PTL DEF IInv

\* No failure, crash or reset deletes the PDF of a version.
THEOREM EveryVersionKeepsItsPdf == Spec => []EveryVersionHasItsPdf
BY Inductive, PTL DEF IInv, FilesAreOwned

\* Versions follow the revisions of the draft they show, of a period whose draft
\* the administration has neither moved nor put back to an earlier revision.
THEOREM VersionsFollowTheDraft == Spec => []LaterVersionsShowLaterDrafts
BY Inductive, PTL DEF IInv

\* Who sends the revision on screen saves over the draft on screen, whoever saves
\* without one, unless the administration or a reset has touched the draft since.
THEOREM NobodySavesBlindly == Spec => NoBlindSave
<1> DEFINE Seen == \A s \in Secretaries, p \in Periods, text \in Texts,
                      expected \in 0..MaxDraftRevision :
                      SaveDraft(s, p, text, expected) /\ screen[s].since
                        => screen[s].draft = drafts[p]
<1>1. IInv /\ [Next]_vars => Seen
  BY SaveShown
<1>2. [][Seen]_vars => NoBlindSave
  BY PTL DEF NoBlindSave
<1> QED BY <1>1, <1>2, Inductive, PTL DEF Spec

-----------------------------------------------------------------------------
(* The invariant of Presence is inductive *)

LEMMA ValidatedApart ==
    ASSUME PresenceIInv, NEW a \in AbsenceIds, NEW employee \in Employees,
           NEW period \in Period, NEW revision \in 1..MaxAbsenceRevision,
           NoOverlap(a, employee, period)
    PROVE  /\ Validated(a, employee, period, revision) \in Absence
           /\ ComparedApart(Validated(a, employee, period, revision))
<1>1. Against(a, employee) \in SUBSET [id : AbsenceIds, period : Period]
  BY DEF PresenceIInv, Against, Active, Rows, Absence
<1> QED BY <1>1 DEF Validated, Absence, ComparedApart, NoOverlap

\* A request is validated, or ends without a save.
LEMMA WritingStep ==
    ASSUME PresenceIInv, NEW w \in Writers, NEW r, UNCHANGED absences,
           writing' = [writing EXCEPT ![w] = r],
           r # NoRow => r \in Request /\ ComparedApart(r.row)
    PROVE  PresenceIInv'
<1>1. /\ writing' \in [Writers -> Request \cup {NoRow}] /\ writing'[w] = r
      /\ \A v \in Writers : v # w => writing'[v] = writing[v]
  BY DEF PresenceIInv
<1> QED BY <1>1 DEF PresenceIInv, Rows

LEMMA ValidatedStep ==
    ASSUME PresenceIInv, NEW w \in Writers, NEW a \in AbsenceIds, NEW employee \in Employees,
           NEW period \in Period, NEW revision \in 1..MaxAbsenceRevision, NEW locks \in BOOLEAN,
           NoOverlap(a, employee, period), UNCHANGED absences,
           writing' = [writing EXCEPT ![w] =
              [id |-> a, row |-> Validated(a, employee, period, revision), locks |-> locks]]
    PROVE  PresenceIInv'
<1> DEFINE row == Validated(a, employee, period, revision)
           r == [id |-> a, row |-> row, locks |-> locks]
<1>1. row \in Absence /\ ComparedApart(row)
  BY ValidatedApart
<1> HIDE DEF row
<1>2. r \in Request /\ ComparedApart(r.row)
  BY <1>1 DEF Request
<1>3. writing' = [writing EXCEPT ![w] = r]
  BY DEF row
<1> HIDE DEF r
<1> QED BY <1>2, <1>3, WritingStep

LEMMA SaveStep == ASSUME PresenceIInv, NEW w \in Writers, Save(w) PROVE PresenceIInv'
<1> DEFINE a == writing[w].id
           row == writing[w].row
<1>1. /\ a \in AbsenceIds /\ row \in Absence /\ ComparedApart(row)
      /\ absences' = [absences EXCEPT ![a] = row]
      /\ writing' = [writing EXCEPT ![w] = NoRow]
  BY DEF Save, PresenceIInv, Request
<1> HIDE DEF a, row
<1>2. /\ absences' \in [AbsenceIds -> Absence \cup {NoRow}] /\ absences'[a] = row
      /\ \A b \in AbsenceIds : b # a => absences'[b] = absences[b]
      /\ writing' \in [Writers -> Request \cup {NoRow}] /\ writing'[w] = NoRow
      /\ \A v \in Writers : v # w => writing'[v] = writing[v]
  BY <1>1 DEF PresenceIInv
<1> QED BY <1>1, <1>2 DEF PresenceIInv, Rows

LEMMA CancelAbsenceStep ==
    ASSUME PresenceIInv, NEW a \in AbsenceIds, NEW revision \in 1..MaxAbsenceRevision,
           CancelAbsence(a, revision)
    PROVE  PresenceIInv'
<1> DEFINE row == Cancelled(absences[a])
<1>0. absences' = [absences EXCEPT ![a] = row] /\ writing' = writing
  BY DEF CancelAbsence
<1>1. /\ absences[a] \in Absence /\ ComparedApart(absences[a])
      /\ absences[a].revision < MaxAbsenceRevision
  BY DEF CancelAbsence, PresenceIInv, Rows
<1>2. absences[a].revision + 1 \in 1..MaxAbsenceRevision
  BY <1>1, PresenceAssumption DEF Absence
<1>3. /\ row \in Absence /\ row.period = absences[a].period
      /\ row.against = absences[a].against
  BY <1>1, <1>2 DEF Absence, Cancelled
<1>4. ComparedApart(row)
  BY <1>1, <1>3 DEF ComparedApart
<1> HIDE DEF row
<1>5. /\ absences' \in [AbsenceIds -> Absence \cup {NoRow}] /\ absences'[a] = row
      /\ \A b \in AbsenceIds : b # a => absences'[b] = absences[b]
  BY <1>0, <1>3 DEF PresenceIInv
<1> QED BY <1>0, <1>4, <1>5 DEF PresenceIInv, Rows

LEMMA PresenceNextStep == PresenceIInv /\ [PresenceNext]_presence => PresenceIInv'
<1> SUFFICES ASSUME PresenceIInv, [PresenceNext]_presence PROVE PresenceIInv'
  OBVIOUS
<1>0. /\ 1 \in 1..MaxAbsenceRevision /\ TRUE \in BOOLEAN /\ FALSE \in BOOLEAN
      /\ \A a \in Rows : /\ a \in AbsenceIds /\ absences[a].employee \in Employees
                         /\ absences[a].revision \in 1..MaxAbsenceRevision
  BY PresenceAssumption DEF PresenceIInv, Rows, Absence
<1>1. ASSUME NEW w \in Writers, NEW a \in AbsenceIds, NEW period \in Period,
             NEW employee \in Employees, BeginCreate(w, a, employee, period)
      PROVE  PresenceIInv'
  BY <1>0, <1>1, ValidatedStep DEF BeginCreate
<1>2. ASSUME NEW w \in Writers, NEW a \in AbsenceIds, NEW period \in Period,
             NEW revision \in 1..MaxAbsenceRevision, BeginUpdate(w, a, period, revision)
      PROVE  PresenceIInv'
  <2>1. revision + 1 \in 1..MaxAbsenceRevision
    BY <1>2, PresenceAssumption DEF BeginUpdate
  <2> DEFINE employee == absences[a].employee
             next == revision + 1
  <2>2. employee \in Employees /\ next \in 1..MaxAbsenceRevision
    BY <1>0, <1>2, <2>1 DEF BeginUpdate
  <2>3. /\ NoOverlap(a, employee, period) /\ UNCHANGED absences
        /\ writing' = [writing EXCEPT ![w] =
              [id |-> a, row |-> Validated(a, employee, period, next), locks |-> TRUE]]
    BY <1>2 DEF BeginUpdate
  <2> HIDE DEF employee, next
  <2> QED BY <1>0, <2>2, <2>3, ValidatedStep
<1>3. ASSUME NEW w \in Writers, NEW a \in AbsenceIds, NEW period \in Period,
             BeginAdminEdit(w, a, period)
      PROVE  PresenceIInv'
  <2> DEFINE employee == absences[a].employee
             same == absences[a].revision
  <2>2. employee \in Employees /\ same \in 1..MaxAbsenceRevision
    BY <1>0, <1>3 DEF BeginAdminEdit
  <2>3. /\ NoOverlap(a, employee, period) /\ UNCHANGED absences
        /\ writing' = [writing EXCEPT ![w] =
              [id |-> a, row |-> Validated(a, employee, period, same), locks |-> FALSE]]
    BY <1>3 DEF BeginAdminEdit
  <2> HIDE DEF employee, same
  <2> QED BY <1>0, <2>2, <2>3, ValidatedStep
<1>4. ASSUME NEW w \in Writers, Save(w) \/ Abort(w) PROVE PresenceIInv'
  BY <1>4, SaveStep, WritingStep DEF Abort
<1>5. ASSUME NEW a \in AbsenceIds, NEW revision \in 1..MaxAbsenceRevision,
             CancelAbsence(a, revision)
      PROVE  PresenceIInv'
  BY <1>5, CancelAbsenceStep
<1>6. CASE UNCHANGED presence
  BY <1>6 DEF presence, PresenceIInv, Rows
<1> QED BY <1>1, <1>2, <1>3, <1>4, <1>5, <1>6 DEF PresenceNext

THEOREM PresenceInductive == PresenceSpec => []PresenceIInv
<1>1. PresenceInit => PresenceIInv
  BY DEF PresenceInit, PresenceIInv, Rows
<1> QED BY <1>1, PresenceNextStep, PTL DEF PresenceSpec

\* Two absences of one day were validated before either was saved.
THEOREM AbsencesOverlapOnlyByRace == PresenceSpec => []OverlapOnlyByRace
<1>1. ASSUME PresenceIInv PROVE OverlapOnlyByRace
  <2> SUFFICES ASSUME NEW e \in Employees, NEW day \in 1..MaxDay,
                      NEW a \in Active(e), NEW b \in Active(e),
                      CoversDay(a, day), CoversDay(b, day)
               PROVE  [id |-> b, period |-> absences[b].period] \notin absences[a].against
    BY DEF OverlapOnlyByRace
  <2> DEFINE p == absences[a].period
             q == absences[b].period
             other == [id |-> b, period |-> q]
  <2>1. p \in Period /\ q \in Period /\ ComparedApart(absences[a])
    BY <1>1 DEF PresenceIInv, Active, Rows, Absence
  <2>2. other.period = q
    OBVIOUS
  <2>3. Overlap(p, q)
    BY <2>1 DEF CoversDay, Overlap, Period
  <2> HIDE DEF q
  <2>4. other \notin absences[a].against
    BY <2>1, <2>2, <2>3 DEF ComparedApart
  <2> QED BY <2>4 DEF q
<1> QED BY <1>1, PresenceInductive, PTL

-----------------------------------------------------------------------------
(* The invariant of RoleSimulation is inductive *)

LEMMA SimulationFacts ==
    ASSUME SimulationIInv
    PROVE  /\ MaxSimulation \in Nat \ {0} /\ MaxRecorded \in Nat \ {0}
           /\ 0 \notin SimulationIds /\ SignedOut \notin SimulationIds
           /\ Open \subseteq Started /\ Started \subseteq SimulationIds
           /\ \A t \in Underway : t \in Tabs /\ requests[t] \in TabRequest
           /\ \A s \in SimulationIds : s \in 0..MaxSimulation
BY SimulationAssumption DEF SimulationIInv, SimulationTypeOK, SimulationIds, SignedOut, Open,
   Started, Underway

LEMMA EndedStep ==
    ASSUME SimulationIInv, NEW s \in SimulationIds, simulations' = Ended(s)
    PROVE  /\ simulations' \in [SimulationIds -> [state : {"none", "open", "ended"}, target : Subjects]]
           /\ Open' = Open \ {s} /\ Started' = Started
<1>1. ASSUME NEW q \in SimulationIds
      PROVE  /\ simulations'[q] \in [state : {"none", "open", "ended"}, target : Subjects]
             /\ q # s => simulations'[q] = simulations[q]
             /\ simulations'[s].state = IF simulations[s].state = "open" THEN "ended"
                                        ELSE simulations[s].state
  BY DEF Ended, SimulationIInv, SimulationTypeOK
<1>2. simulations' = [q \in SimulationIds |-> simulations'[q]]
  BY DEF Ended, SimulationIInv, SimulationTypeOK
<1> QED BY <1>1, <1>2 DEF Open, Started

LEMMA AnsweredFields ==
    ASSUME SimulationIInv, NEW r \in TabRequest, NEW p \in 0..MaxSimulation
    PROVE  /\ Answered(r, p) \in TabRequest
           /\ Answered(r, p).kind = "read" /\ Answered(r, p).under = 0
           /\ Answered(r, p).stage = "answered" /\ Answered(r, p).pointer = p
           /\ Answered(r, p).dirty = (r.dirty \/ p # r.pointer)
           /\ Answered(r, p).alone = r.alone
           /\ Answered(r, r.pointer).dirty = r.dirty
<1> DEFINE dirty == r.dirty \/ p # r.pointer
           a == [kind |-> "read", subject |-> r.subject, under |-> 0, root |-> FALSE,
                 stage |-> "answered", pointer |-> p, dirty |-> dirty, alone |-> r.alone]
<1>1. r = [kind |-> r.kind, subject |-> r.subject, under |-> r.under, root |-> r.root,
           stage |-> r.stage, pointer |-> r.pointer, dirty |-> r.dirty, alone |-> r.alone]
  BY DEF TabRequest
<1>2. /\ r.subject \in Subjects /\ dirty \in BOOLEAN /\ r.alone \in BOOLEAN
      /\ 0 \in 0..MaxSimulation /\ r.pointer \in 0..MaxSimulation /\ r.dirty \in BOOLEAN
  BY SimulationFacts DEF TabRequest
<1>3. Answered(r, p) = a
  <2>1. Answered(r, p) =
           [r EXCEPT !.kind = "read", !.under = 0, !.root = FALSE, !.stage = "answered",
                     !.pointer = p, !.dirty = dirty]
    BY DEF Answered
  <2> HIDE DEF dirty
  <2> QED BY <1>1, <2>1
<1>4. a \in TabRequest
  BY <1>2 DEF TabRequest, Kinds
<1>5. Answered(r, r.pointer).dirty = r.dirty
  BY <1>1, <1>2 DEF Answered
<1> QED BY <1>3, <1>4, <1>5

LEMMA OverlappedFields ==
    ASSUME NEW r \in TabRequest, NEW o, o = [r EXCEPT !.alone = FALSE]
    PROVE  /\ o \in TabRequest /\ o.kind = r.kind /\ o.under = r.under /\ o.stage = r.stage
           /\ o.pointer = r.pointer /\ o.dirty = r.dirty /\ ~ o.alone
           /\ Changes(o) = Changes(r)
BY DEF TabRequest, Changes

\* Writes are counted by the requests that have still to carry them out.
LEMMA WritingCount ==
    ASSUME SimulationIInv, NEW s \in SimulationIds
    PROVE  /\ IsFiniteSet(Writing(s)) /\ Cardinality(Writing(s)) \in Nat
           /\ written[s] \in Nat /\ recorded[s] \in Nat
           /\ written[s] + Cardinality(Writing(s)) <= recorded[s]
<1>1. IsFiniteSet(Writing(s))
  <2>1. Writing(s) \subseteq Tabs /\ IsFiniteSet(Tabs)
    BY SimulationAssumption DEF Writing
  <2> QED BY <2>1, FS_Subset
<1>2. Cardinality(Writing(s)) \in Nat
  BY <1>1, FS_CardinalityType
<1> QED BY <1>1, <1>2, SimulationFacts DEF SimulationIInv, SimulationTypeOK, RecordedBeforeWritten

LEMMA FewerWriting ==
    ASSUME SimulationIInv, \A s \in SimulationIds : Writing(s)' \subseteq Writing(s),
           UNCHANGED <<recorded, written>>
    PROVE  RecordedBeforeWritten'
<1> SUFFICES ASSUME NEW s \in SimulationIds
             PROVE  written[s] + Cardinality(Writing(s)') <= recorded[s]
  BY DEF RecordedBeforeWritten
<1>1. /\ IsFiniteSet(Writing(s)) /\ Cardinality(Writing(s)) \in Nat
      /\ written[s] \in Nat /\ recorded[s] \in Nat
      /\ written[s] + Cardinality(Writing(s)) <= recorded[s]
  BY WritingCount
<1>2. /\ IsFiniteSet(Writing(s)') /\ Cardinality(Writing(s)') <= Cardinality(Writing(s))
  BY <1>1, FS_Subset
<1>3. Cardinality(Writing(s)') \in Nat
  BY <1>2, FS_CardinalityType
<1> QED BY <1>1, <1>2, <1>3

\* One request goes on, and changes the session no more than it did.
LEMMA TabStep ==
    ASSUME SimulationIInv, NEW t \in Underway, NEW a \in TabRequest,
           a.alone = requests[t].alone, Changes(a) => Changes(requests[t]),
           requests' = [requests EXCEPT ![t] = a]
    PROVE  /\ requests' \in [Tabs -> TabRequest \cup {NoRequest}]
           /\ requests'[t] = a
           /\ \A o \in Tabs : o # t => requests'[o] = requests[o]
           /\ Underway' = Underway
           /\ ChangesAreSeen'
<1>1. t \in Tabs
  BY DEF Underway
<1>2. /\ requests' \in [Tabs -> TabRequest \cup {NoRequest}]
      /\ requests'[t] = a
      /\ \A o \in Tabs : o # t => requests'[o] = requests[o]
  BY <1>1 DEF SimulationIInv, SimulationTypeOK
<1>3. Underway' = Underway
  BY <1>1, <1>2, NoRequestIsNone DEF Underway
<1>4. ChangesAreSeen'
  <2> SUFFICES ASSUME NEW u \in Underway, NEW o \in Underway, u # o, Changes(requests'[o])
               PROVE  ~ requests'[u].alone
    BY <1>3 DEF ChangesAreSeen, Changes
  <2>1. Changes(requests[o])
    BY <1>2 DEF Underway
  <2>2. ~ requests[u].alone
    BY <2>1 DEF SimulationIInv, ChangesAreSeen
  <2> QED BY <2>2, <1>2 DEF Underway
<1> QED BY <1>2, <1>3, <1>4

\* A request is answered without a change to the session or the journal.
LEMMA SilentAnswerStep ==
    ASSUME SimulationIInv, NEW t \in Underway, requests[t].stage # "answered",
           requests' = [requests EXCEPT ![t] = Answered(requests[t], requests[t].pointer)],
           superuser' = superuser, available' = available, simulations' = simulations,
           current' = current, recorded' = recorded, adrift' = adrift,
           written' \in [SimulationIds -> 0..MaxRecorded], RecordedBeforeWritten'
    PROVE  SimulationIInv'
<1> DEFINE r == requests[t]
           a == Answered(r, r.pointer)
<1>1. r \in TabRequest /\ r.pointer \in 0..MaxSimulation
  BY SimulationFacts DEF TabRequest
<1>2. /\ a \in TabRequest /\ a.kind = "read" /\ a.under = 0 /\ a.stage = "answered"
      /\ a.pointer = r.pointer /\ a.dirty = r.dirty /\ a.alone = r.alone
  BY <1>1, AnsweredFields
<1>3. requests' = [requests EXCEPT ![t] = a]
  OBVIOUS
<1> HIDE DEF a
<1>4. /\ requests' \in [Tabs -> TabRequest \cup {NoRequest}]
      /\ requests'[t] = a
      /\ \A o \in Tabs : o # t => requests'[o] = requests[o]
      /\ Underway' = Underway
      /\ ChangesAreSeen'
  BY <1>2, <1>3, TabStep, ZenonT(30) DEF Changes
<1>5. Open' = Open /\ Started' = Started /\ Underway \subseteq Tabs
  BY DEF Open, Started, Underway
<1>6. SimulationTypeOK' /\ current' \in Started' \cup {0, SignedOut}
  BY <1>4, <1>5 DEF SimulationIInv, SimulationTypeOK
<1>7. PointersAreRead'
  BY <1>2, <1>4, <1>5 DEF SimulationIInv, PointersAreRead
<1>8. ChangesEndTheCurrent'
  BY <1>2, <1>4, <1>5, SimulationFacts
     DEF SimulationIInv, ChangesEndTheCurrent, PointersAreRead, Changes
<1>9. AloneSeesTheSession'
  BY <1>2, <1>4, <1>5 DEF SimulationIInv, AloneSeesTheSession
<1>10. OpenIsInUse'
  BY <1>2, <1>4, <1>5 DEF SimulationIInv, OpenIsInUse
<1> QED BY <1>4, <1>6, <1>7, <1>8, <1>9, <1>10 DEF SimulationIInv

LEMMA AnswerStep == ASSUME SimulationIInv, NEW t \in Tabs, Answer(t) PROVE SimulationIInv'
<1> DEFINE a == Answered(requests[t], requests[t].pointer)
<1>1. /\ t \in Underway /\ requests[t].stage # "answered"
      /\ requests' = [requests EXCEPT ![t] = a]
      /\ UNCHANGED <<superuser, available, simulations, current, recorded, written, adrift>>
  BY DEF Answer, At, Underway
<1>2. requests[t] \in TabRequest /\ requests[t].pointer \in 0..MaxSimulation
  BY <1>1, SimulationFacts DEF TabRequest
<1>3. a.stage = "answered"
  BY <1>2, AnsweredFields
<1>4. requests'[t].stage = "answered" /\ \A o \in Tabs : o # t => requests'[o] = requests[o]
  BY <1>1, <1>3 DEF SimulationIInv, SimulationTypeOK
<1>5. RecordedBeforeWritten'
  BY <1>1, <1>4, FewerWriting DEF Writing
<1>6. written' \in [SimulationIds -> 0..MaxRecorded]
  BY <1>1 DEF SimulationIInv, SimulationTypeOK
<1> QED BY <1>1, <1>5, <1>6, SilentAnswerStep

LEMMA WriteStep == ASSUME SimulationIInv, NEW t \in Tabs, Write(t) PROVE SimulationIInv'
<1> DEFINE a == Answered(requests[t], requests[t].pointer)
           u == requests[t].under
<1>1. /\ t \in Underway /\ requests[t].stage = "ready" /\ requests[t].kind = "write"
      /\ requests' = [requests EXCEPT ![t] = a]
      /\ written' = [written EXCEPT ![u] = @ + 1]
      /\ UNCHANGED <<superuser, available, simulations, current, recorded, adrift>>
  BY DEF Write, At, Underway
<1>2. requests[t] \in TabRequest /\ requests[t].pointer \in 0..MaxSimulation
      /\ u \in 0..MaxSimulation
  BY <1>1, SimulationFacts DEF TabRequest
<1>3. a.stage = "answered"
  BY <1>2, AnsweredFields
<1>4. requests'[t].stage = "answered" /\ \A o \in Tabs : o # t => requests'[o] = requests[o]
  BY <1>1, <1>3 DEF SimulationIInv, SimulationTypeOK
<1> HIDE DEF a, u
<1>5. ASSUME NEW s \in SimulationIds
      PROVE  /\ written'[s] \in 0..MaxRecorded
             /\ written'[s] + Cardinality(Writing(s)') <= recorded[s]
  <2>1. /\ IsFiniteSet(Writing(s)) /\ Cardinality(Writing(s)) \in Nat
        /\ written[s] \in Nat /\ recorded[s] \in Nat
        /\ written[s] + Cardinality(Writing(s)) <= recorded[s]
        /\ recorded[s] <= MaxRecorded /\ MaxRecorded \in Nat
    BY WritingCount, SimulationFacts DEF SimulationIInv, SimulationTypeOK
  <2>2. CASE s = u
    <3>1. t \in Writing(s) /\ Writing(s)' = Writing(s) \ {t}
      BY <1>1, <1>4, <2>2 DEF Writing, Underway, u
    <3>2. /\ IsFiniteSet(Writing(s)')
          /\ Cardinality(Writing(s)') = Cardinality(Writing(s)) - 1
      BY <2>1, <3>1, FS_RemoveElement
    <3>3. Cardinality(Writing(s)') \in Nat
      BY <3>2, FS_CardinalityType
    <3>4. written'[s] = written[s] + 1
      BY <1>1, <2>2 DEF SimulationIInv, SimulationTypeOK
    <3> QED BY <2>1, <3>2, <3>3, <3>4
  <2>3. CASE s # u
    <3>1. Writing(s)' = Writing(s)
      BY <1>1, <1>4, <2>3 DEF Writing, Underway, u
    <3>2. written'[s] = written[s]
      BY <1>1, <2>3 DEF SimulationIInv, SimulationTypeOK
    <3> QED BY <2>1, <3>1, <3>2
  <2> QED BY <2>2, <2>3
<1>6. written' = [s \in SimulationIds |-> written'[s]]
  BY <1>1 DEF SimulationIInv, SimulationTypeOK
<1>7. RecordedBeforeWritten' /\ written' \in [SimulationIds -> 0..MaxRecorded]
  BY <1>1, <1>5, <1>6 DEF RecordedBeforeWritten
<1> QED BY <1>1, <1>7, SilentAnswerStep DEF a

LEMMA RecordStep == ASSUME SimulationIInv, NEW t \in Tabs, Record(t) PROVE SimulationIInv'
<1> DEFINE r == requests[t]
           a == [r EXCEPT !.stage = "ready"]
           u == r.under
<1>1. /\ t \in Underway /\ r.stage = "entered" /\ r.kind \in {"write", "protected"}
      /\ r \in TabRequest /\ u \in SimulationIds /\ recorded[u] < MaxRecorded
      /\ requests' = [requests EXCEPT ![t] = a]
      /\ recorded' = [recorded EXCEPT ![u] = @ + 1]
      /\ UNCHANGED <<superuser, available, simulations, current, written, adrift>>
  BY SimulationFacts DEF Record, Underway, SimulationIInv, SimulationTypeOK, TabRequest,
     SimulationIds
<1>2. /\ a \in TabRequest /\ a.kind = r.kind /\ a.under = r.under /\ a.stage = "ready"
      /\ a.pointer = r.pointer /\ a.dirty = r.dirty /\ a.alone = r.alone
  BY <1>1 DEF TabRequest
<1> HIDE DEF a
<1>3. /\ requests' \in [Tabs -> TabRequest \cup {NoRequest}]
      /\ requests'[t] = a
      /\ \A o \in Tabs : o # t => requests'[o] = requests[o]
      /\ Underway' = Underway
      /\ ChangesAreSeen'
  BY <1>1, <1>2, TabStep DEF Changes
<1>4. Open' = Open /\ Started' = Started /\ Underway \subseteq Tabs
  BY <1>1 DEF Open, Started, Underway
<1>5. ASSUME NEW s \in SimulationIds
      PROVE  /\ recorded'[s] \in 0..MaxRecorded
             /\ written[s] + Cardinality(Writing(s)') <= recorded'[s]
  <2>1. /\ IsFiniteSet(Writing(s)) /\ Cardinality(Writing(s)) \in Nat
        /\ written[s] \in Nat /\ recorded[s] \in Nat
        /\ written[s] + Cardinality(Writing(s)) <= recorded[s]
        /\ recorded[s] <= MaxRecorded /\ MaxRecorded \in Nat
    BY WritingCount, SimulationFacts DEF SimulationIInv, SimulationTypeOK
  <2>2. CASE s = u
    <3>1. Writing(s)' = Writing(s) \/ Writing(s)' = Writing(s) \cup {t}
      BY <1>1, <1>2, <1>3, <2>2 DEF Writing, Underway
    <3>2. t \notin Writing(s)
      BY <1>1 DEF Writing
    <3>3. /\ Cardinality(Writing(s)') \in Nat
          /\ Cardinality(Writing(s)') <= Cardinality(Writing(s)) + 1
      <4>1. /\ IsFiniteSet(Writing(s) \cup {t})
            /\ Cardinality(Writing(s) \cup {t}) = Cardinality(Writing(s)) + 1
        BY <2>1, <3>2, FS_AddElement
      <4>2. CASE Writing(s)' = Writing(s)
        BY <2>1, <4>2
      <4>3. CASE Writing(s)' = Writing(s) \cup {t}
        BY <2>1, <4>1, <4>3
      <4> QED BY <3>1, <4>2, <4>3
    <3>4. recorded'[s] = recorded[s] + 1 /\ recorded[s] < MaxRecorded
      BY <1>1, <2>2 DEF SimulationIInv, SimulationTypeOK
    <3> QED BY <2>1, <3>3, <3>4
  <2>3. CASE s # u
    <3>1. Writing(s)' = Writing(s)
      BY <1>1, <1>2, <1>3, <2>3 DEF Writing, Underway
    <3>2. recorded'[s] = recorded[s]
      BY <1>1, <2>3 DEF SimulationIInv, SimulationTypeOK
    <3> QED BY <2>1, <3>1, <3>2
  <2> QED BY <2>2, <2>3
<1>6. recorded' = [s \in SimulationIds |-> recorded'[s]]
  BY <1>1 DEF SimulationIInv, SimulationTypeOK
<1>7. RecordedBeforeWritten'
  BY <1>1, <1>5 DEF RecordedBeforeWritten
<1>8. SimulationTypeOK' /\ current' \in Started' \cup {0, SignedOut}
  BY <1>1, <1>3, <1>4, <1>5, <1>6 DEF SimulationIInv, SimulationTypeOK
<1>9. PointersAreRead'
  BY <1>1, <1>2, <1>3, <1>4 DEF SimulationIInv, PointersAreRead
<1>10. ChangesEndTheCurrent'
  BY <1>1, <1>2, <1>3, <1>4 DEF SimulationIInv, ChangesEndTheCurrent, Changes
<1>11. AloneSeesTheSession'
  BY <1>1, <1>2, <1>3, <1>4 DEF SimulationIInv, AloneSeesTheSession
<1>12. OpenIsInUse'
  BY <1>1, <1>2, <1>3, <1>4 DEF SimulationIInv, OpenIsInUse
<1> QED BY <1>3, <1>7, <1>8, <1>9, <1>10, <1>11, <1>12 DEF SimulationIInv

\* The simulation that a request leaves is over, if there is one.
LEMMA LeaveStep ==
    ASSUME SimulationIInv, NEW u \in 0..MaxSimulation,
           simulations' = IF u # 0 THEN Ended(u) ELSE simulations
    PROVE  /\ simulations' \in [SimulationIds -> [state : {"none", "open", "ended"}, target : Subjects]]
           /\ Open' = Open \ {u} /\ Started' = Started
<1>1. CASE u # 0
  <2>1. u \in SimulationIds /\ simulations' = Ended(u)
    BY <1>1, SimulationFacts DEF SimulationIds
  <2> QED BY <2>1, EndedStep
<1>2. CASE u = 0
  BY <1>2, SimulationFacts DEF Open, Started, SimulationIInv, SimulationTypeOK
<1> QED BY <1>1, <1>2

LEMMA ReplaceStep == ASSUME SimulationIInv, NEW t \in Tabs, Replace(t) PROVE SimulationIInv'
<1> DEFINE r == requests[t]
           a == [r EXCEPT !.stage = "ready"]
           u == r.under
<1>1. /\ t \in Underway /\ r.stage = "entered" /\ r.kind = "start"
      /\ r \in TabRequest /\ u \in 0..MaxSimulation
      /\ requests' = [requests EXCEPT ![t] = a]
      /\ simulations' = IF u # 0 THEN Ended(u) ELSE simulations
      /\ UNCHANGED <<superuser, available, current, recorded, written, adrift>>
  BY SimulationFacts DEF Replace, At, Underway, TabRequest
<1>2. /\ a \in TabRequest /\ a.kind = "start" /\ a.under = u /\ a.stage = "ready"
      /\ a.pointer = r.pointer /\ a.dirty = r.dirty /\ a.alone = r.alone
  BY <1>1 DEF TabRequest
<1> HIDE DEF a
<1>3. /\ requests' \in [Tabs -> TabRequest \cup {NoRequest}]
      /\ requests'[t] = a
      /\ \A o \in Tabs : o # t => requests'[o] = requests[o]
      /\ Underway' = Underway /\ Underway \subseteq Tabs
      /\ ChangesAreSeen'
  BY <1>1, <1>2, TabStep DEF Changes, Underway
<1>4. /\ simulations' \in [SimulationIds -> [state : {"none", "open", "ended"}, target : Subjects]]
      /\ Open' = Open \ {u} /\ Started' = Started
  BY <1>1, LeaveStep
<1>5. RecordedBeforeWritten'
  BY <1>1, <1>2, <1>3, FewerWriting DEF Writing
<1>6. SimulationTypeOK' /\ current' \in Started' \cup {0, SignedOut}
  BY <1>1, <1>3, <1>4 DEF SimulationIInv, SimulationTypeOK
<1>7. PointersAreRead'
  BY <1>1, <1>2, <1>3, <1>4 DEF SimulationIInv, PointersAreRead
<1>8. ChangesEndTheCurrent'
  BY <1>1, <1>2, <1>3, <1>4 DEF SimulationIInv, ChangesEndTheCurrent, Changes
<1>9. AloneSeesTheSession'
  BY <1>1, <1>2, <1>3 DEF SimulationIInv, AloneSeesTheSession
<1>10. OpenIsInUse'
  BY <1>1, <1>2, <1>3, <1>4 DEF SimulationIInv, OpenIsInUse
<1> QED BY <1>3, <1>5, <1>6, <1>7, <1>8, <1>9, <1>10 DEF SimulationIInv

LEMMA StartStep == ASSUME SimulationIInv, NEW t \in Tabs, Start(t) PROVE SimulationIInv'
<1> DEFINE r == requests[t]
<1>1. /\ t \in Underway /\ r.stage = "ready" /\ r.kind = "start"
      /\ r \in TabRequest
      /\ UNCHANGED <<superuser, available, current, recorded, written, adrift>>
  BY SimulationFacts DEF Start, At, Underway
<1>2. PICK s \in SimulationIds :
         /\ Started = 1..(s - 1)
         /\ simulations' = [simulations EXCEPT ![s] = [state |-> "open", target |-> r.subject]]
         /\ requests' = [requests EXCEPT ![t] = Answered(r, s)]
  BY DEF Start
<1> DEFINE a == Answered(r, s)
<1>3. /\ s \notin Started /\ s \in 0..MaxSimulation
  BY <1>2, SimulationFacts DEF SimulationIds
<1>4. r.pointer = r.under /\ r.pointer \in Started \cup {0} /\ r.under \notin Open
  BY <1>1 DEF SimulationIInv, PointersAreRead
<1>5. /\ a \in TabRequest /\ a.kind = "read" /\ a.under = 0 /\ a.stage = "answered"
      /\ a.pointer = s /\ a.dirty /\ a.alone = r.alone
  <2>1. s # r.pointer
    BY <1>3, <1>4, SimulationFacts
  <2> HIDE DEF r
  <2>2. /\ a \in TabRequest /\ a.kind = "read" /\ a.under = 0 /\ a.stage = "answered"
        /\ a.pointer = s /\ a.dirty = (r.dirty \/ s # r.pointer) /\ a.alone = r.alone
    BY <1>1, <1>3, AnsweredFields
  <2> QED BY <2>1, <2>2
<1>6. requests' = [requests EXCEPT ![t] = a]
  BY <1>2
<1> HIDE DEF a
<1>7. /\ requests' \in [Tabs -> TabRequest \cup {NoRequest}]
      /\ requests'[t] = a
      /\ \A o \in Tabs : o # t => requests'[o] = requests[o]
      /\ Underway' = Underway /\ Underway \subseteq Tabs
      /\ ChangesAreSeen'
  BY <1>1, <1>5, <1>6, TabStep DEF Changes, Underway
<1>8. /\ simulations' \in [SimulationIds -> [state : {"none", "open", "ended"}, target : Subjects]]
      /\ Open' = Open \cup {s} /\ Started' = Started \cup {s}
  BY <1>1, <1>2 DEF SimulationIInv, SimulationTypeOK, TabRequest, Open, Started
<1>9. current # s /\ current \in Started \cup {0, SignedOut}
  BY <1>3, SimulationFacts DEF SimulationIInv
<1>10. RecordedBeforeWritten'
  BY <1>1, <1>5, <1>7, FewerWriting DEF Writing
<1>11. SimulationTypeOK' /\ current' \in Started' \cup {0, SignedOut}
  BY <1>1, <1>7, <1>8, <1>9 DEF SimulationIInv, SimulationTypeOK
<1>12. PointersAreRead'
  <2>1. \A o \in Underway : requests[o].kind = "start" /\ requests[o].stage = "ready"
            => requests[o].under # s
    BY <1>3, SimulationFacts DEF SimulationIInv, PointersAreRead
  <2> QED BY <2>1, <1>5, <1>7, <1>8 DEF SimulationIInv, PointersAreRead
<1>13. ChangesEndTheCurrent'
  BY <1>1, <1>5, <1>7, <1>8, <1>9 DEF SimulationIInv, ChangesEndTheCurrent, Changes
<1>14. AloneSeesTheSession'
  BY <1>1, <1>5, <1>7 DEF SimulationIInv, AloneSeesTheSession
<1>15. OpenIsInUse'
  BY <1>1, <1>4, <1>5, <1>7, <1>8 DEF SimulationIInv, OpenIsInUse
<1> QED BY <1>7, <1>10, <1>11, <1>12, <1>13, <1>14, <1>15 DEF SimulationIInv

LEMMA StopStep == ASSUME SimulationIInv, NEW t \in Tabs, Stop(t) PROVE SimulationIInv'
<1> DEFINE r == requests[t]
           a == Answered(r, 0)
           u == r.under
<1>1. /\ t \in Underway /\ r.stage = "entered" /\ r.kind = "stop"
      /\ r \in TabRequest /\ u \in 0..MaxSimulation /\ u = r.pointer
      /\ requests' = [requests EXCEPT ![t] = a]
      /\ simulations' = IF u # 0 THEN Ended(u) ELSE simulations
      /\ UNCHANGED <<superuser, available, current, recorded, written, adrift>>
  BY SimulationFacts DEF Stop, At, Underway, TabRequest, SimulationIInv, PointersAreRead
<1>2. /\ a \in TabRequest /\ a.kind = "read" /\ a.under = 0 /\ a.stage = "answered"
      /\ a.pointer = 0 /\ a.alone = r.alone
  BY <1>1, AnsweredFields, SimulationFacts
<1> HIDE DEF a
<1>3. /\ requests' \in [Tabs -> TabRequest \cup {NoRequest}]
      /\ requests'[t] = a
      /\ \A o \in Tabs : o # t => requests'[o] = requests[o]
      /\ Underway' = Underway /\ Underway \subseteq Tabs
      /\ ChangesAreSeen'
  BY <1>1, <1>2, TabStep DEF Changes, Underway
<1>4. /\ simulations' \in [SimulationIds -> [state : {"none", "open", "ended"}, target : Subjects]]
      /\ Open' = Open \ {u} /\ Started' = Started
  BY <1>1, LeaveStep
<1>5. RecordedBeforeWritten'
  BY <1>1, <1>2, <1>3, FewerWriting DEF Writing
<1>6. SimulationTypeOK' /\ current' \in Started' \cup {0, SignedOut}
  BY <1>1, <1>3, <1>4 DEF SimulationIInv, SimulationTypeOK
<1>7. PointersAreRead'
  BY <1>1, <1>2, <1>3, <1>4 DEF SimulationIInv, PointersAreRead
<1>8. ChangesEndTheCurrent'
  BY <1>1, <1>2, <1>3, <1>4 DEF SimulationIInv, ChangesEndTheCurrent, Changes
<1>9. AloneSeesTheSession'
  BY <1>1, <1>2, <1>3 DEF SimulationIInv, AloneSeesTheSession
<1>10. OpenIsInUse'
  BY <1>1, <1>2, <1>3, <1>4 DEF SimulationIInv, OpenIsInUse
<1> QED BY <1>3, <1>5, <1>6, <1>7, <1>8, <1>9, <1>10 DEF SimulationIInv

LEMMA LogoutStep == ASSUME SimulationIInv, NEW t \in Tabs, Logout(t) PROVE SimulationIInv'
<1> DEFINE r == requests[t]
           a == Answered(r, 0)
<1>1. /\ t \in Underway /\ r.stage = "entered" /\ r.kind = "logout"
      /\ r \in TabRequest /\ r.pointer = 0
      /\ requests' = [requests EXCEPT ![t] = a]
      /\ current' = SignedOut
      /\ UNCHANGED <<superuser, available, simulations, recorded, written, adrift>>
  BY SimulationFacts DEF Logout, At, Underway, SimulationIInv, PointersAreRead
<1>2. /\ a \in TabRequest /\ a.kind = "read" /\ a.under = 0 /\ a.stage = "answered"
      /\ a.pointer = 0 /\ a.alone = r.alone
  BY <1>1, AnsweredFields, SimulationFacts
<1> HIDE DEF a
<1>3. /\ requests' \in [Tabs -> TabRequest \cup {NoRequest}]
      /\ requests'[t] = a
      /\ \A o \in Tabs : o # t => requests'[o] = requests[o]
      /\ Underway' = Underway /\ Underway \subseteq Tabs
      /\ ChangesAreSeen'
  BY <1>1, <1>2, TabStep DEF Changes, Underway
<1>4. Open' = Open /\ Started' = Started /\ SignedOut \notin Open
  BY <1>1, SimulationFacts DEF Open, Started
<1>5. RecordedBeforeWritten'
  BY <1>1, <1>2, <1>3, FewerWriting DEF Writing
<1>6. SimulationTypeOK' /\ current' \in Started' \cup {0, SignedOut}
  BY <1>1, <1>3 DEF SimulationIInv, SimulationTypeOK
<1>7. PointersAreRead'
  BY <1>1, <1>2, <1>3, <1>4 DEF SimulationIInv, PointersAreRead
<1>8. ChangesEndTheCurrent'
  BY <1>1, <1>4 DEF ChangesEndTheCurrent
<1>9. AloneSeesTheSession'
  <2>1. \A o \in Underway : o # t => ~ requests[o].alone
    BY <1>1 DEF SimulationIInv, ChangesAreSeen, Changes
  <2> QED BY <2>1, <1>2, <1>3 DEF AloneSeesTheSession
<1>10. OpenIsInUse'
  <2>1. current \in Open => current \in adrift
    BY <1>1 DEF SimulationIInv, ChangesEndTheCurrent, Changes
  <2>2. 0 \notin Open
    BY SimulationFacts DEF Open
  <2> QED BY <2>1, <2>2, <1>1, <1>2, <1>3, <1>4 DEF SimulationIInv, OpenIsInUse
<1> QED BY <1>3, <1>5, <1>6, <1>7, <1>8, <1>9, <1>10 DEF SimulationIInv

\* A request is over.
LEMMA GoneStep ==
    ASSUME SimulationIInv, NEW t \in Underway,
           requests' = [requests EXCEPT ![t] = NoRequest],
           UNCHANGED <<superuser, available, simulations, recorded, written>>
    PROVE  /\ requests' \in [Tabs -> TabRequest \cup {NoRequest}]
           /\ Underway' = Underway \ {t} /\ Underway \subseteq Tabs
           /\ \A o \in Underway' : requests'[o] = requests[o] /\ o \in Underway /\ o # t
           /\ Open' = Open /\ Started' = Started
           /\ ChangesAreSeen' /\ RecordedBeforeWritten' /\ PointersAreRead'
<1>1. t \in Tabs
  BY DEF Underway
<1>2. /\ requests' \in [Tabs -> TabRequest \cup {NoRequest}]
      /\ requests'[t] = NoRequest
      /\ \A o \in Tabs : o # t => requests'[o] = requests[o]
  BY <1>1 DEF SimulationIInv, SimulationTypeOK
<1>3. /\ Underway' = Underway \ {t} /\ Underway \subseteq Tabs
      /\ \A o \in Underway' : requests'[o] = requests[o] /\ o \in Underway /\ o # t
      /\ Open' = Open /\ Started' = Started
  BY <1>1, <1>2 DEF Underway, Open, Started
<1>4. RecordedBeforeWritten'
  BY <1>2, FewerWriting DEF Writing
<1>5. ChangesAreSeen'
  BY <1>3 DEF SimulationIInv, ChangesAreSeen, Changes
<1>6. PointersAreRead'
  BY <1>3 DEF SimulationIInv, PointersAreRead
<1> QED BY <1>2, <1>3, <1>4, <1>5, <1>6

LEMMA RespondStep == ASSUME SimulationIInv, NEW t \in Tabs, Respond(t) PROVE SimulationIInv'
<1> DEFINE r == requests[t]
<1>1. /\ t \in Underway /\ r.stage = "answered" /\ r \in TabRequest
      /\ requests' = [requests EXCEPT ![t] = NoRequest]
      /\ current' = IF r.dirty /\ current # SignedOut THEN r.pointer ELSE current
      /\ adrift' = IF r.alone THEN adrift ELSE adrift \cup Lost(r)
      /\ UNCHANGED <<superuser, available, simulations, recorded, written>>
  BY SimulationFacts DEF Respond, Underway
<1>2. /\ requests' \in [Tabs -> TabRequest \cup {NoRequest}]
      /\ Underway' = Underway \ {t} /\ Underway \subseteq Tabs
      /\ \A o \in Underway' : requests'[o] = requests[o] /\ o \in Underway /\ o # t
      /\ Open' = Open /\ Started' = Started
      /\ ChangesAreSeen' /\ RecordedBeforeWritten' /\ PointersAreRead'
  BY <1>1, GoneStep
<1>3. /\ r.pointer \in Started \cup {0} /\ Lost(r) = SimulationIds \cap {r.pointer}
      /\ Open \subseteq SimulationIds /\ 0 \notin Open /\ SignedOut \notin Open
      /\ r.pointer \in 0..MaxSimulation
  BY <1>1, SimulationFacts DEF SimulationIInv, PointersAreRead, Lost, TabRequest
<1>4. SimulationTypeOK' /\ current' \in Started' \cup {0, SignedOut}
  BY <1>1, <1>2, <1>3 DEF SimulationIInv, SimulationTypeOK
<1>5. ChangesEndTheCurrent'
  <2> SUFFICES ASSUME NEW o \in Underway', Changes(requests'[o]), current' \in Open
               PROVE  \/ current' \in adrift'
                      \/ /\ requests'[o].kind \in {"start", "stop"}
                         /\ requests'[o].stage = "entered"
                         /\ requests'[o].under = current'
    BY <1>2 DEF ChangesEndTheCurrent, Changes
  <2>1. o \in Underway /\ o # t /\ requests'[o] = requests[o] /\ Changes(requests[o])
    BY <1>2
  <2>2. ~ r.alone
    BY <1>1, <2>1 DEF SimulationIInv, ChangesAreSeen
  <2>3. CASE current' = r.pointer
    BY <1>1, <1>3, <2>2, <2>3
  <2>4. CASE current' = current
    BY <1>1, <2>1, <2>4 DEF SimulationIInv, ChangesEndTheCurrent
  <2> QED BY <1>1, <2>3, <2>4
<1>6. AloneSeesTheSession'
  <2> SUFFICES ASSUME NEW o \in Underway', requests'[o].alone
               PROVE  /\ \/ current' # SignedOut
                         \/ requests'[o].stage = "answered" /\ requests'[o].pointer = 0
                      /\ ~ requests'[o].dirty => requests'[o].pointer \in {0, current'}
    BY DEF AloneSeesTheSession
  <2>1. ~ r.dirty
    BY <1>1, <1>2 DEF SimulationIInv, ChangesAreSeen, Changes
  <2> QED BY <2>1, <1>1, <1>2 DEF SimulationIInv, AloneSeesTheSession
<1>7. OpenIsInUse'
  <2> SUFFICES ASSUME NEW q \in Open
               PROVE  \/ q = current' \/ \E o \in Underway' : q = requests'[o].pointer
                      \/ q \in adrift'
    BY <1>2 DEF OpenIsInUse
  <2>1. CASE q \in adrift
    BY <1>1, <2>1
  <2>2. CASE q = current
    <3>1. CASE r.dirty
      BY <1>1, <2>2, <3>1 DEF SimulationIInv, ChangesEndTheCurrent, Changes
    <3>2. CASE ~ r.dirty
      BY <1>1, <2>2, <3>2
    <3> QED BY <3>1, <3>2
  <2>3. CASE \E o \in Underway : o # t /\ q = requests[o].pointer
    BY <1>2, <2>3
  <2>4. CASE q = r.pointer
    <3>1. CASE ~ r.alone
      BY <1>1, <1>3, <2>4, <3>1
    <3>2. CASE r.alone
      BY <1>1, <1>3, <2>4, <3>2 DEF SimulationIInv, AloneSeesTheSession
    <3> QED BY <3>1, <3>2
  <2> QED BY <2>1, <2>2, <2>3, <2>4 DEF SimulationIInv, OpenIsInUse
<1> QED BY <1>2, <1>4, <1>5, <1>6, <1>7 DEF SimulationIInv

LEMMA DieStep == ASSUME SimulationIInv, NEW t \in Tabs, Die(t) PROVE SimulationIInv'
<1> DEFINE r == requests[t]
<1>1. /\ t \in Underway /\ current' = current
      /\ requests' = [requests EXCEPT ![t] = NoRequest]
      /\ adrift' = adrift \cup (SimulationIds \cap {r.pointer})
      /\ UNCHANGED <<superuser, available, simulations, recorded, written>>
  BY DEF Die, Underway, Lost
<1>2. /\ requests' \in [Tabs -> TabRequest \cup {NoRequest}]
      /\ Underway' = Underway \ {t} /\ Underway \subseteq Tabs
      /\ \A o \in Underway' : requests'[o] = requests[o] /\ o \in Underway /\ o # t
      /\ Open' = Open /\ Started' = Started
      /\ ChangesAreSeen' /\ RecordedBeforeWritten' /\ PointersAreRead'
  BY <1>1, GoneStep
<1>3. SimulationTypeOK' /\ current' \in Started' \cup {0, SignedOut}
  BY <1>1, <1>2 DEF SimulationIInv, SimulationTypeOK
<1>4. ChangesEndTheCurrent'
  BY <1>1, <1>2 DEF SimulationIInv, ChangesEndTheCurrent, Changes
<1>5. AloneSeesTheSession'
  BY <1>1, <1>2 DEF SimulationIInv, AloneSeesTheSession
<1>6. OpenIsInUse'
  BY <1>1, <1>2, SimulationFacts DEF SimulationIInv, OpenIsInUse
<1> QED BY <1>2, <1>3, <1>4, <1>5, <1>6 DEF SimulationIInv

LEMMA ExpireStep == ASSUME SimulationIInv, Expire PROVE SimulationIInv'
<1> DEFINE told(o) == [requests[o] EXCEPT !.alone = FALSE]
<1>1. /\ current' = SignedOut
      /\ adrift' = adrift \cup (SimulationIds \cap {current})
      /\ requests' = [o \in Tabs |-> IF o \in Underway THEN told(o) ELSE NoRequest]
      /\ UNCHANGED <<superuser, available, simulations, recorded, written>>
  BY DEF Expire
<1>2. ASSUME NEW o \in Underway
      PROVE  /\ o \in Tabs /\ requests'[o] \in TabRequest /\ requests'[o] # NoRequest
             /\ requests'[o].kind = requests[o].kind /\ requests'[o].under = requests[o].under
             /\ requests'[o].stage = requests[o].stage
             /\ requests'[o].pointer = requests[o].pointer
             /\ requests'[o].dirty = requests[o].dirty /\ ~ requests'[o].alone
  <2>1. o \in Tabs /\ requests[o] \in TabRequest /\ requests'[o] = told(o)
    BY <1>1, SimulationFacts
  <2> QED BY <2>1, OverlappedFields, NoRequestIsNone
<1>3. \A o \in Tabs : o \notin Underway => requests'[o] = NoRequest
  BY <1>1
<1>4. /\ requests' \in [Tabs -> TabRequest \cup {NoRequest}]
      /\ Underway' = Underway /\ Underway \subseteq Tabs
  <2>1. requests' = [o \in Tabs |-> requests'[o]]
    BY <1>1
  <2> QED BY <2>1, <1>2, <1>3 DEF Underway
<1>5. Open' = Open /\ Started' = Started /\ Open \subseteq SimulationIds /\ SignedOut \notin Open
  BY <1>1, SimulationFacts DEF Open, Started
<1>6. SimulationTypeOK' /\ current' \in Started' \cup {0, SignedOut}
  BY <1>1, <1>4, <1>5 DEF SimulationIInv, SimulationTypeOK
<1>7. RecordedBeforeWritten'
  <2>1. \A s \in SimulationIds : Writing(s)' \subseteq Writing(s)
    BY <1>2, <1>3 DEF Writing, Underway
  <2> QED BY <2>1, <1>1, FewerWriting
<1>8. PointersAreRead'
  BY <1>2, <1>4, <1>5 DEF SimulationIInv, PointersAreRead
<1>9. ChangesAreSeen' /\ AloneSeesTheSession'
  BY <1>2, <1>4 DEF ChangesAreSeen, AloneSeesTheSession
<1>10. ChangesEndTheCurrent'
  BY <1>1, <1>5 DEF ChangesEndTheCurrent
<1>11. OpenIsInUse'
  BY <1>1, <1>2, <1>4, <1>5 DEF SimulationIInv, OpenIsInUse
<1> QED BY <1>4, <1>6, <1>7, <1>8, <1>9, <1>10, <1>11 DEF SimulationIInv

LEMMA EnterStep ==
    ASSUME SimulationIInv, NEW t \in Tabs, NEW kind \in Kinds, NEW subject \in Subjects,
           Enter(t, kind, subject)
    PROVE  SimulationIInv'
<1> DEFINE s == current
           valid == s # 0 /\ Valid(s)
           leaves == s # 0 /\ (~ valid \/ kind = "logout")
           lone == ~ \E o \in Underway : Changes(requests[o])
           pointer == IF leaves THEN 0 ELSE s
           under == IF leaves THEN 0 ELSE IF valid THEN s ELSE 0
           r == [kind |-> kind, subject |-> subject, root |-> superuser, under |-> under,
                 stage |-> "entered", pointer |-> pointer, dirty |-> leaves, alone |-> lone]
           told(o) == [requests[o] EXCEPT !.alone = FALSE]
<1>1. /\ s \in SimulationIds \cup {0} /\ s \in Started \cup {0} /\ s # SignedOut
      /\ s \in 0..MaxSimulation /\ 0 \in 0..MaxSimulation
      /\ 0 \notin Open /\ Open \subseteq Started
  BY SimulationFacts DEF Enter, SimulationIInv
<1>2. /\ under \in 0..MaxSimulation /\ pointer \in 0..MaxSimulation
      /\ pointer = under /\ (pointer = 0 \/ pointer = s)
      /\ leaves => under = 0 /\ s \in SimulationIds
      /\ kind = "logout" => under = 0
      /\ ~ leaves => pointer = s
      /\ leaves \in BOOLEAN /\ lone \in BOOLEAN
  BY <1>1
<1>3. /\ requests[t] = NoRequest /\ t \notin Underway
      /\ simulations' = IF leaves THEN Ended(s) ELSE simulations
      /\ UNCHANGED <<superuser, available, current, recorded, written, adrift>>
  BY <1>1 DEF Enter, Underway
<1>4. requests' = [o \in Tabs |-> IF o = t THEN r
                    ELSE IF o \in Underway /\ Changes(r) THEN told(o) ELSE requests[o]]
  <2>1. under = IF leaves THEN 0 ELSE IF s # 0 /\ Valid(s) THEN s ELSE 0
    OBVIOUS
  <2>2. (s # 0 /\ ((IF s # 0 /\ Valid(s) THEN s ELSE 0) = 0 \/ kind = "logout")) = leaves
    BY <1>1
  <2> QED BY <2>1, <2>2 DEF Enter
<1>5. /\ r \in TabRequest /\ r.kind = kind /\ r.under = under /\ r.stage = "entered"
      /\ r.pointer = pointer /\ r.dirty = leaves /\ r.alone = lone /\ r # NoRequest
  <2> HIDE DEF under, pointer, leaves, lone
  <2>1. r \in TabRequest
    BY <1>2 DEF TabRequest, SimulationIInv, SimulationTypeOK
  <2> QED BY <2>1, NoRequestIsNone
<1>6. /\ simulations' \in [SimulationIds -> [state : {"none", "open", "ended"}, target : Subjects]]
      /\ Open' \subseteq Open /\ Started' = Started
      /\ leaves => s \notin Open'
  <2>1. CASE leaves
    BY <2>1, <1>2, <1>3, EndedStep
  <2>2. CASE ~ leaves
    BY <2>2, <1>3 DEF Open, Started, SimulationIInv, SimulationTypeOK
  <2> QED BY <2>1, <2>2
<1>7. Changes(r) => kind \in {"start", "stop", "logout"} \/ leaves
  BY <1>5 DEF Changes
<1> HIDE DEF r, under, pointer, leaves
<1>8. /\ requests'[t] = r
      /\ \A o \in Underway : o # t /\ o \in Tabs
      /\ \A o \in Underway : requests'[o] = requests[o] \/ requests'[o] = told(o)
      /\ Changes(r) => \A o \in Underway : requests'[o] = told(o)
      /\ \A o \in Tabs : o \notin Underway /\ o # t => requests'[o] = NoRequest
  BY <1>3, <1>4 DEF Underway
<1>9. ASSUME NEW o \in Underway
      PROVE  /\ requests'[o] \in TabRequest /\ requests'[o] # NoRequest
             /\ requests'[o].kind = requests[o].kind /\ requests'[o].under = requests[o].under
             /\ requests'[o].stage = requests[o].stage
             /\ requests'[o].pointer = requests[o].pointer
             /\ requests'[o].dirty = requests[o].dirty
             /\ requests'[o].alone => requests[o].alone /\ ~ Changes(r)
             /\ Changes(requests'[o]) = Changes(requests[o])
  <2>1. requests[o] \in TabRequest
    BY SimulationFacts
  <2>2. CASE requests'[o] = told(o)
    BY <2>1, <2>2, OverlappedFields, NoRequestIsNone
  <2>3. CASE requests'[o] # told(o)
    BY <2>1, <2>3, <1>8, NoRequestIsNone
  <2> QED BY <2>2, <2>3
<1> HIDE DEF told
<1>10. /\ requests' \in [Tabs -> TabRequest \cup {NoRequest}]
       /\ Underway' = Underway \cup {t}
  <2>1. requests' = [o \in Tabs |-> requests'[o]]
    BY <1>4
  <2> QED BY <2>1, <1>5, <1>8, <1>9 DEF Underway
<1>11. SimulationTypeOK' /\ current' \in Started' \cup {0, SignedOut}
  BY <1>3, <1>6, <1>10 DEF SimulationIInv, SimulationTypeOK
<1>12. RecordedBeforeWritten'
  <2>1. \A u \in SimulationIds : Writing(u)' \subseteq Writing(u)
    BY <1>5, <1>8, <1>9 DEF Writing, Underway
  <2> QED BY <2>1, <1>3, FewerWriting
<1>13. PointersAreRead'
  BY <1>1, <1>2, <1>5, <1>6, <1>8, <1>9, <1>10 DEF SimulationIInv, PointersAreRead
<1>14. ChangesAreSeen'
  <2>1. \A o \in Underway : Changes(requests'[o]) => ~ requests'[t].alone
    BY <1>5, <1>8, <1>9
  <2>2. \A o \in Underway : Changes(requests'[t]) => ~ requests'[o].alone
    BY <1>8, <1>9
  <2>3. \A u, o \in Underway : u # o /\ Changes(requests'[o]) => ~ requests'[u].alone
    BY <1>9 DEF SimulationIInv, ChangesAreSeen
  <2> QED BY <2>1, <2>2, <2>3, <1>10 DEF ChangesAreSeen, Changes
<1>15. ChangesEndTheCurrent'
  <2>1. ASSUME NEW o \in Underway, Changes(requests'[o]), current \in Open'
        PROVE  \/ current \in adrift
               \/ /\ requests'[o].kind \in {"start", "stop"} /\ requests'[o].stage = "entered"
                  /\ requests'[o].under = current
    BY <2>1, <1>6, <1>9 DEF SimulationIInv, ChangesEndTheCurrent
  <2>2. ASSUME Changes(r), current \in Open'
        PROVE  r.kind \in {"start", "stop"} /\ r.stage = "entered" /\ r.under = current
    <3>1. ~ leaves
      BY <2>2, <1>6
    <3>2. kind # "logout"
      BY <3>1, <2>2, <1>1, <1>6 DEF leaves
    <3> QED BY <2>2, <3>1, <3>2, <1>2, <1>5, <1>7
  <2> QED BY <2>1, <2>2, <1>3, <1>8, <1>10 DEF ChangesEndTheCurrent, Changes
<1>16. AloneSeesTheSession'
  <2>1. /\ r.alone => current # SignedOut
        /\ ~ r.dirty => r.pointer \in {0, current}
    BY <1>1, <1>2, <1>5
  <2> QED BY <2>1, <1>3, <1>8, <1>9, <1>10 DEF SimulationIInv, AloneSeesTheSession
<1>17. OpenIsInUse'
  BY <1>3, <1>6, <1>9, <1>10 DEF SimulationIInv, OpenIsInUse
<1> QED BY <1>11, <1>12, <1>13, <1>14, <1>15, <1>16, <1>17 DEF SimulationIInv

\* Nothing moves but the rights of the accounts.
LEMMA RightsStep ==
    ASSUME SimulationIInv, superuser' \in BOOLEAN, available' \subseteq Subjects,
           UNCHANGED <<simulations, current, requests, recorded, written, adrift>>
    PROVE  SimulationIInv'
<1>1. Open' = Open /\ Started' = Started /\ Underway' = Underway
  BY DEF Open, Started, Underway
<1>2. RecordedBeforeWritten'
  BY FewerWriting DEF Writing
<1>3. SimulationTypeOK'
  BY DEF SimulationIInv, SimulationTypeOK
<1>4. PointersAreRead' /\ AloneSeesTheSession' /\ OpenIsInUse'
  BY <1>1 DEF SimulationIInv, PointersAreRead, AloneSeesTheSession, OpenIsInUse
<1>5. ChangesAreSeen' /\ ChangesEndTheCurrent'
  BY <1>1 DEF SimulationIInv, ChangesAreSeen, ChangesEndTheCurrent, Changes
<1> QED BY <1>1, <1>2, <1>3, <1>4, <1>5 DEF SimulationIInv

LEMMA InitSimulation == SimulationInit => SimulationIInv
<1> SUFFICES ASSUME SimulationInit PROVE SimulationIInv
  OBVIOUS
<1>1. Open = {} /\ Underway = {} /\ Started = {}
  BY DEF SimulationInit, Open, Underway, Started
<1>2. \A s \in SimulationIds : Writing(s) = {} /\ written[s] = 0 /\ recorded[s] = 0
  BY DEF SimulationInit, Writing
<1>3. RecordedBeforeWritten
  BY <1>2, FS_EmptySet DEF RecordedBeforeWritten
<1>4. SimulationTypeOK
  BY SimulationAssumption DEF SimulationInit, SimulationTypeOK, SignedOut
<1>5. current \in Started \cup {0, SignedOut}
  BY DEF SimulationInit
<1> QED BY <1>1, <1>3, <1>4, <1>5 DEF SimulationIInv, PointersAreRead, ChangesAreSeen,
      ChangesEndTheCurrent, AloneSeesTheSession, OpenIsInUse

LEMMA NextSimulation == SimulationIInv /\ [SimulationNext]_simulationVars => SimulationIInv'
<1> SUFFICES ASSUME SimulationIInv, [SimulationNext]_simulationVars PROVE SimulationIInv'
  OBVIOUS
<1>1. ASSUME NEW t \in Tabs, NEW kind \in Kinds, NEW subject \in Subjects,
             Enter(t, kind, subject)
      PROVE  SimulationIInv'
  BY <1>1, EnterStep
<1>2. ASSUME NEW t \in Tabs,
             \/ Record(t) \/ Write(t) \/ Answer(t) \/ Replace(t) \/ Start(t) \/ Stop(t)
             \/ Logout(t) \/ Respond(t) \/ Die(t)
      PROVE  SimulationIInv'
  BY <1>2, RecordStep, WriteStep, AnswerStep, ReplaceStep, StartStep, StopStep, LogoutStep,
     RespondStep, DieStep
<1>3. CASE Expire
  BY <1>3, ExpireStep
<1>4. CASE Promote
  BY <1>4, RightsStep DEF Promote, SimulationIInv, SimulationTypeOK
<1>5. ASSUME NEW p \in Subjects, Avail(p) PROVE SimulationIInv'
  BY <1>5, RightsStep DEF Avail, SimulationIInv, SimulationTypeOK
<1>6. CASE UNCHANGED simulationVars
  BY <1>6, RightsStep DEF simulationVars, SimulationIInv, SimulationTypeOK
<1> QED BY <1>1, <1>2, <1>3, <1>4, <1>5, <1>6 DEF SimulationNext

THEOREM SimulationInductive == SimulationSpec => []SimulationIInv
BY InitSimulation, NextSimulation, PTL DEF SimulationSpec

\* Whatever the number of tabs, each write made as somebody else is in the
\* journal, and a simulation that is open is the session's, but for overlapping
\* changes, deaths and expiry.
THEOREM JournalAlwaysTellsSimulations == SimulationSpec => []JournalTellsSimulations
<1>1. ASSUME SimulationIInv PROVE JournalTellsSimulations
  <2>1. ASSUME NEW s \in SimulationIds PROVE written[s] <= recorded[s]
    BY <1>1, WritingCount
  <2> QED BY <1>1, <2>1 DEF JournalTellsSimulations, WritesAreRecorded, SimulationIInv
<1> QED BY <1>1, SimulationInductive, PTL
=============================================================================
