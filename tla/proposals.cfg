SPECIFICATION MCSpec
CONSTANTS
    Author = ama
    n1 = n1
    n2 = n2
    Supervisors = {n1, n2}
    Plans <- ChosenPlans
    MaxDay = 3
    Period = 3
    Holidays = {3}
    MaxProposal = 1
    MaxTask = 2
    MaxRevision = 3
    Allocators = {"t1", "t2"}
    Actions = {"A.1", "A1", "B"}
    Slug <- ChosenSlugs
    MaxNumber = 2
    None = None
SYMMETRY SupervisorSymmetry
INVARIANTS
    OneTaskPerProposal
    TasksFollowTheirCalendar
    NoCodeTwice
PROPERTIES
    AcceptedAsShown
CHECK_DEADLOCK FALSE
