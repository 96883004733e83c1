SPECIFICATION Spec
CONSTANTS
    Watch = watch
    Manual = {byHand}
    Users = {ama, boris}
    MaxAttempts = 3
    Limit = 2
    MaxDeliveries = 2
    MaxLost = 1
    None = None
INVARIANTS
    AttemptsBounded
    RecordedAtMostOncePerNotifier
    StatusIsTruthful
PROPERTIES
    EveryRowSettles
