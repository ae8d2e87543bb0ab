CONSTANTS
    Notification = {n1}
    Worker = {w1}
    Nothing = nothing
    MaxAttempts = 2
    SendingLease = 1
    MaxBackoff = 2
    MaxCrashes = 2
SPECIFICATION Spec
CHECK_DEADLOCK FALSE
INVARIANTS AttemptsBounded
