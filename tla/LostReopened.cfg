CONSTANTS
    r1 = r1  r2 = r2  a1 = a1  a2 = a2  w1 = w1  w2 = w2  none = none  idle = idle
    Run = {r1}
    Agent = {a1, a2}
    Worker = {w1, w2}
    NoOwner = none
    NoCommand = idle
    Policy <- TwoCapabilities
    Registry <- PairRegistry
    Owner <- DistinctOwners
    DispatchTimeout = 2
    SignalTimeout = 3
    CollectionTimeout = 3
    LeaseSeconds = 1
    BatchSize = 2
    MaxAttempts = 2
    MaxBackoff = 1
    CircuitThreshold = 1
    CircuitOpenSeconds = 1
    Restarting = {}
    Retiring = {}
    MaxTime = 4
    MaxCrashes = 0
SPECIFICATION Spec
PROPERTY LostStaysLost
