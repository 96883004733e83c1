SPECIFICATION MCSpec
CONSTANTS
    People = {1, 2, 3}
    Direction = direction
    Service = service
    Units = {direction, service}
    Worked <- OldWork
    Admins = {a1, a2}
    Charts <- SmallCharts
    Selections <- SmallSelections
    MaxEdits = 2
    None = None
    Persons = {t1, t2, agent}
    Technicians = {t1, t2}
    Invited = {agent}
    Linked = {t1, t2}
    MaxBegun = 2
    Gone = Gone
    Idle = Idle
    t1 = t1
    t2 = t2
    agent = agent
SYMMETRY SessionSymmetry
INVARIANTS
    LoopsOnlyByRace
    MutualSupervisionNeedsTheAdministration
    OfferedMovesAreAccepted
    TeamTreeIsWhole
    AdministratorRemains
    TemporaryMustBeReplaced
PROPERTIES
    NoBlindTeamEdit
CHECK_DEADLOCK FALSE
