SPECIFICATION Spec
CONSTANTS
    w1 = w1
    w2 = w2
    Workers = {w1, w2}
    MaxDay = 7
    Closed = {4}
    Period = 3
    Loads = {1, 2}
    Starts = {1, 2}
    Ends = {5, 7}
    MaxOccurrence = 3
    Deletable = {2}
    ClassicEdits <- SmallEdits
    MaxRevision = 3
    None = None
SYMMETRY WorkerSymmetry
INVARIANTS
    SuccessorsFollowDecisions
    OccurrencesDoNotOverlap
PROPERTIES
    PlanningOnlyAdds
    StoppedForGood
    NoBlindCancel
