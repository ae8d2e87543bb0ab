CONSTANTS
    Notification = {n1, n2}
    Worker = {w1, w2}
    Nothing = nothing
    MaxAttempts = 2
    SendingLease = 1
    MaxBackoff = 2
    MaxCrashes = 1
SPECIFICATION Spec
CHECK_DEADLOCK FALSE
SYMMETRY WorkerSymmetry
INVARIANTS TypeOK SettledHonestly AttemptsNearBound
PROPERTIES SettledForGood
