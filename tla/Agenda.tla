-------------------------------- MODULE Agenda --------------------------------
(***************************************************************************)
(* The direction agendas of agenda/services.py: one draft per period,      *)
(* shared by the two directions; versions that are generated from it,      *)
(* numbered per period and direction and never changed; the PDF of each    *)
(* version in the private storage, which no transaction covers.            *)
(*                                                                         *)
(* A generation is one transaction: it locks or inserts the draft, stores  *)
(* the PDF, inserts the version.  It may fail or die between any two.      *)
(* Only the reset of the reporting data deletes versions: it lists the     *)
(* files, deletes the rows in a transaction, then the files one by one.    *)
(***************************************************************************)
EXTENDS Integers, Sequences, FiniteSets, FiniteSetsExt

CONSTANTS
    Secretaries,       \* the sessions that prepare agendas
    AgendaPeriods,     \* the periods chosen, each [start, end]
    Texts,             \* the major events a draft may hold
    Empty,             \* the text of a draft that a generation creates
    MaxDraftRevision,  \* bound on the saves of a draft
    MaxObject,         \* bound on the PDFs ever stored
    None               \* no draft, generation, file list, screen, form or revision

ASSUME AgendaAssumption ==
    /\ Empty \in Texts
    /\ MaxDraftRevision \in Nat \ {0}
    /\ MaxObject \in Nat \ {0}
    /\ AgendaPeriods \subseteq [start : Int, end : Int]

VARIABLES
    drafts,      \* by period, the AgendaDraft row
    versions,    \* the AgendaVersion rows, in the order they were committed
    generating,  \* by secretary, the generation it has in progress
    objects,     \* the keys present in the storage
    stored,      \* how many keys were ever made
    reset,       \* the files a reset has listed or has still to delete
    screen,      \* by secretary, the draft that the preview shows
    adminForm,   \* the draft that a request of the administration has read
    overruled    \* history: the periods whose draft the administration moved, or
                 \* put back to an earlier revision, since the last reset

vars == <<drafts, versions, generating, objects, stored, reset, screen, adminForm, overruled>>
administration == <<adminForm, overruled>>

Directions == {"programs", "administration"}
Keys == 1..MaxObject

\* validate_agenda_period: at most 31 days, both ends included.
ValidPeriod(p) == p.end >= p.start /\ p.end - p.start <= 30
Periods == {p \in AgendaPeriods : ValidPeriod(p)}

Draft == [revision : 1..MaxDraftRevision, text : Texts]

ASSUME NoneIsNoDraft == None \notin Draft \cup (0..MaxDraftRevision)

NewDraft(text) == [revision |-> 1, text |-> text]

\* shown: the revision of the draft that the snapshot was built from.
Version == [period : Periods, direction : Directions, number : Nat \ {0},
            shown : 1..MaxDraftRevision, key : Keys]

\* A generation holds the draft's lock from its first statement to its end.
Generation == [period : Periods, direction : Directions, shown : 1..MaxDraftRevision,
               number : Nat, key : Keys \cup {None}]

\* since: whether the draft's revisions have told every change since the load.
Screen == [period : Periods, draft : Draft \cup {None}, since : BOOLEAN]

\* What AgendaDraftAdmin does not let anybody type; gone: the row was deleted since.
AdminForm == [period : Periods, revision : 1..MaxDraftRevision, gone : BOOLEAN]

\* Type invariant: drafts, versions, files, screens and forms keep their domains.
TypeOK ==
    /\ drafts \in [Periods -> Draft \cup {None}]
    /\ versions \in Seq(Version)
    /\ generating \in [Secretaries -> Generation \cup {None}]
    /\ objects \subseteq 1..stored
    /\ stored \in 0..MaxObject
    /\ reset \in [stage : {"listed", "deleting"}, keys : SUBSET Keys] \cup {None}
    /\ screen \in [Secretaries -> Screen \cup {None}]
    /\ adminForm \in AdminForm \cup {None}
    /\ overruled \subseteq Periods

Init ==
    /\ drafts = [p \in Periods |-> None]
    /\ versions = <<>>
    /\ generating = [s \in Secretaries |-> None]
    /\ objects = {}
    /\ stored = 0
    /\ reset = None
    /\ screen = [s \in Secretaries |-> None]
    /\ adminForm = None
    /\ overruled = {}

-----------------------------------------------------------------------------
(* The draft *)

\* A plausible slip: the draft is read without select_for_update.
NeverLocked(p) == p \notin Periods

Locked(p) == \E s \in Secretaries : generating[s] # None /\ generating[s].period = p

LoadScreen(s, p) ==
    /\ screen' = [screen EXCEPT ![s] = [period |-> p, draft |-> drafts[p], since |-> TRUE]]
    /\ UNCHANGED <<drafts, versions, generating, objects, stored, reset, administration>>

\* The revision the client sends: 0 when the preview showed no draft.
ShownRevision(s) == IF screen[s].draft = None THEN 0 ELSE screen[s].draft.revision

\* A plausible slip: the revision is looked at on creation only.
EnsureRevisionOnCreation(p, expected) == drafts[p] = None => expected \in {None, 0}

\* A request that carries no revision is never stale.
EnsureRevision(p, expected) ==
    expected \in {None, IF drafts[p] = None THEN 0 ELSE drafts[p].revision}

\* With the revision on screen, or, as the API allows, without any.
SaveDraft(s, p, text, expected) ==
    /\ expected # None =>
         screen[s] # None /\ screen[s].period = p /\ expected = ShownRevision(s)
    /\ generating[s] = None
    /\ ~ Locked(p)
    /\ EnsureRevision(p, expected)
    /\ drafts[p] # None => drafts[p].revision < MaxDraftRevision
    /\ drafts' = [drafts EXCEPT ![p] =
           IF @ = None THEN NewDraft(text) ELSE [revision |-> @.revision + 1, text |-> text]]
    /\ screen' = IF expected = None THEN screen ELSE [screen EXCEPT ![s] = None]
    /\ UNCHANGED <<versions, generating, objects, stored, reset, administration>>

\* AgendaDraftAdmin: the request reads the row without a lock; it may replace one
\* that was refused or died.
AdminRead(p) ==
    /\ drafts[p] # None
    /\ adminForm' = [period |-> p, revision |-> drafts[p].revision, gone |-> FALSE]
    /\ UNCHANGED <<drafts, versions, generating, objects, stored, reset, screen, overruled>>

Row(p, q, draft) ==
    [drafts EXCEPT ![p] = IF adminForm.gone THEN @ ELSE None, ![q] = draft]

\* It then saves every column: the text and the period as typed, the revision as
\* read.  A row that a reset has deleted is inserted again.
AdminSave(q, text) ==
    LET p == adminForm.period
        kept == p = q /\ drafts[p] # None /\ drafts[p].revision = adminForm.revision
    IN /\ adminForm # None
       /\ ~ Locked(q) /\ (adminForm.gone \/ ~ Locked(p))
       /\ drafts[q] = None \/ (q = p /\ ~ adminForm.gone)
       /\ drafts' = Row(p, q, [revision |-> adminForm.revision, text |-> text])
       /\ screen' = [s \in Secretaries |->
              IF screen[s] # None /\ screen[s].period \in {p, q}
              THEN [screen[s] EXCEPT !.since = FALSE] ELSE screen[s]]
       /\ overruled' = IF adminForm.gone \/ kept THEN overruled ELSE overruled \cup {p, q}
       /\ adminForm' = None
       /\ UNCHANGED <<versions, generating, objects, stored, reset>>

-----------------------------------------------------------------------------
(* generate_agenda *)

\* get_or_create under select_for_update, and the snapshot of what it read.  A
\* draft it inserts is seen by nobody before the commit, and blocks the others.
BeginGeneration(s, p, direction) ==
    /\ generating[s] = None
    /\ ~ Locked(p)
    /\ generating' = [generating EXCEPT ![s] =
           [period |-> p, direction |-> direction, number |-> 0, key |-> None,
            shown |-> IF drafts[p] = None THEN 1 ELSE drafts[p].revision]]
    /\ UNCHANGED <<drafts, versions, objects, stored, reset, screen, administration>>

Numbers(p, direction) ==
    {versions[i].number : i \in {j \in DOMAIN versions :
        versions[j].period = p /\ versions[j].direction = direction}}

\* A plausible slip: one numbering for the two directions.
NextSharedNumber(p, direction) == Max({0} \cup UNION {Numbers(p, d) : d \in Directions}) + 1

NextNumber(p, direction) == Max({0} \cup Numbers(p, direction)) + 1

\* The number is read, the PDF rendered with it and stored.
StorePdf(s) ==
    /\ generating[s] # None /\ generating[s].key = None
    /\ stored < MaxObject
    /\ stored' = stored + 1
    /\ objects' = objects \cup {stored'}
    /\ generating' = [generating EXCEPT ![s].key = stored',
           ![s].number = NextNumber(generating[s].period, generating[s].direction)]
    /\ UNCHANGED <<drafts, versions, reset, screen, administration>>

CommitGeneration(s) ==
    LET g == generating[s] IN
    /\ g # None /\ g.key # None
    /\ g.number \notin Numbers(g.period, g.direction)
    /\ drafts' = [drafts EXCEPT ![g.period] = IF @ = None THEN NewDraft(Empty) ELSE @]
    /\ versions' = Append(versions,
           [period |-> g.period, direction |-> g.direction, shown |-> g.shown,
            number |-> g.number, key |-> g.key])
    /\ generating' = [generating EXCEPT ![s] = None]
    /\ UNCHANGED <<objects, stored, reset, screen, administration>>

\* The insertion raises: the PDF is deleted, or its deletion fails as well.
InsertFails(s) ==
    /\ generating[s] # None /\ generating[s].key # None
    /\ objects' \in {objects, objects \ {generating[s].key}}
    /\ generating' = [generating EXCEPT ![s] = None]
    /\ UNCHANGED <<drafts, versions, stored, reset, screen, administration>>

\* The storage refuses, the commit fails or the worker dies: nothing of the
\* transaction remains, a PDF does.
Crash(s) ==
    /\ generating[s] # None
    /\ generating' = [generating EXCEPT ![s] = None]
    /\ UNCHANGED <<drafts, versions, objects, stored, reset, screen, administration>>

-----------------------------------------------------------------------------
(* reset_reporting_data *)

ListFiles ==
    /\ reset = None
    /\ reset' = [stage |-> "listed", keys |-> {versions[i].key : i \in DOMAIN versions}]
    /\ UNCHANGED <<drafts, versions, generating, objects, stored, screen, administration>>

\* The deletion of the drafts waits for every generation, and fails with it
\* when one has committed a version meanwhile.
DeleteRows ==
    /\ reset # None /\ reset.stage = "listed"
    /\ \A p \in Periods : ~ Locked(p)
    /\ versions' = <<>>
    /\ drafts' = [p \in Periods |-> None]
    /\ reset' = [stage |-> "deleting", keys |-> reset.keys]
    /\ screen' = [s \in Secretaries |->
           IF screen[s] # None THEN [screen[s] EXCEPT !.since = FALSE] ELSE None]
    /\ adminForm' = IF adminForm = None THEN None ELSE [adminForm EXCEPT !.gone = TRUE]
    /\ overruled' = {}
    /\ UNCHANGED <<generating, objects, stored>>

\* A plausible slip: the files are deleted before the rows.
DeleteFileFirst(key) ==
    /\ reset # None
    /\ key \in reset.keys
    /\ objects' \in {objects, objects \ {key}}
    /\ reset' = [reset EXCEPT !.keys = @ \ {key}]
    /\ UNCHANGED <<drafts, versions, generating, stored, screen, administration>>

\* One file, deleted or not.
DeleteFile(key) ==
    /\ reset # None /\ reset.stage = "deleting"
    /\ key \in reset.keys
    /\ objects' \in {objects, objects \ {key}}
    /\ reset' = [reset EXCEPT !.keys = @ \ {key}]
    /\ UNCHANGED <<drafts, versions, generating, stored, screen, administration>>

EndReset ==
    /\ reset # None
    /\ reset' = None
    /\ UNCHANGED <<drafts, versions, generating, objects, stored, screen, administration>>

-----------------------------------------------------------------------------

Next ==
    \/ \E s \in Secretaries, p \in Periods :
          \/ LoadScreen(s, p)
          \/ \E text \in Texts, expected \in 0..MaxDraftRevision \cup {None} :
                SaveDraft(s, p, text, expected)
          \/ \E direction \in Directions : BeginGeneration(s, p, direction)
    \/ \E p \in Periods : AdminRead(p) \/ \E text \in Texts : AdminSave(p, text)
    \/ \E s \in Secretaries : StorePdf(s) \/ CommitGeneration(s) \/ InsertFails(s) \/ Crash(s)
    \/ ListFiles \/ DeleteRows \/ EndReset \/ \E key \in Keys : DeleteFile(key)

Spec == Init /\ [][Next]_vars

-----------------------------------------------------------------------------
(* Properties *)

\* Each period and direction numbers its versions 1, 2, 3... without gap or
\* repetition, through concurrent, failed and crashed generations and a reset:
\* the numbers before a version's own are those of the versions before it.
NumberedWithoutGap ==
    \A i \in DOMAIN versions :
        {versions[j].number : j \in {k \in 1..(i - 1) :
             /\ versions[k].period = versions[i].period
             /\ versions[k].direction = versions[i].direction}}
        = 1..(versions[i].number - 1)

\* Every archived version can be printed again: its PDF is in the storage,
\* whatever failed when it was generated and whatever a reset deletes.
EveryVersionHasItsPdf == \A i \in DOMAIN versions : versions[i].key \in objects

\* A version never shows an earlier revision than a version generated before it,
\* in either direction: the draft's lock orders the generations and the saves.
\* Only the administration can undo that order, by moving a draft to another
\* period or by putting back the revision that its request had read.
LaterVersionsShowLaterDrafts ==
    \A i, j \in DOMAIN versions :
        i < j /\ versions[i].period = versions[j].period /\ versions[i].period \notin overruled
          => versions[i].shown <= versions[j].shown

\* Who saves with the revision on screen saves only over the draft on screen.
\* Blind are the saves that carry no revision; and the administration and the
\* reset, which leave, put back or restart the revision.
NoBlindSave ==
    [][\A s \in Secretaries, p \in Periods, text \in Texts, expected \in 0..MaxDraftRevision :
         SaveDraft(s, p, text, expected) /\ screen[s].since
           => screen[s].draft = drafts[p]]_vars
=============================================================================
