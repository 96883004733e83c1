SPECIFICATION MCSpec
CONSTANTS
    Secretaries = {s1, s2}
    AgendaPeriods <- ChosenPeriods
    Texts = {ras, visit}
    Empty = ras
    MaxDraftRevision = 2
    MaxObject = 2
    Writers = {w1, w2}
    Employees = {ama}
    MaxDay = 2
    MaxAbsence = 2
    MaxAbsenceRevision = 2
    Tabs = {t1, t2}
    Subjects = {ama}
    MaxSimulation = 2
    MaxRecorded = 1
    None = None
    NoRow = NoRow
    NoRequest = NoRequest
SYMMETRY SessionSymmetry
INVARIANTS
    NumberedWithoutGap
    EveryVersionHasItsPdf
    LaterVersionsShowLaterDrafts
    OverlapOnlyByRace
    JournalTellsSimulations
PROPERTIES
    NoBlindSave
CHECK_DEADLOCK FALSE
