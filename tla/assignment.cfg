SPECIFICATION MCSpec
CONSTANTS
    e = e
    m1 = m1
    m2 = m2
    it = it
    sm = sm
    Users = {e, m1, m2, it, sm}
    Employee = e
    Supervisors = {m1, m2}
    ItAdmins = {it}
    ScopedManagers = {sm}
    MaxDay = 2
    Percentages = {50, 100}
    v1 = v1
    v2 = v2
    Details = {v1, v2}
    TypedStatuses = {"completed"}
    TypedManagers = {sm}
    TypedRevisions = {1, 2}
    MaxRevision = 4
    None = None
    Readers = {q1, q2}
    Reported = {50, 100}
    Plans <- SmallPlans
    Holiday = {2}
    LastDate = 3
    MaxWrites = 2
    q1 = q1
    q2 = q2
    Absent = Absent
SYMMETRY Symmetry
INVARIANTS
    TypeOK
    CompletedIsFull
    DecisionOnRecord
    FeedShowsEntries
    OneOpenLine
    StaleOnlyByRace
    IndicatorsAgree
PROPERTIES
    NoBlindOverwrite
    OpenTaskFollowsNPlus1
    LifecycleSpec
