CONSTANTS
    r1 = r1  r2 = r2  a1 = a1  a2 = a2  w1 = w1  w2 = w2  none = none  idle = idle
    Run = {r1}
    Agent = {a1}
    Worker = {w1}
    NoOwner = none
    NoCommand = idle
    Policy <- TwoCapabilities
    Registry <- OneAgentRegistry
    Owner <- DistinctOwners
    DispatchTimeout = 3
    SignalTimeout = 4
    CollectionTimeout = 4
    LeaseSeconds = 1
    BatchSize = 2
    MaxAttempts = 3
    MaxBackoff = 1
    CircuitThreshold = 1
    CircuitOpenSeconds = 1
    Restarting = {}
    Retiring = {}
    MaxTime = 5
    MaxCrashes = 0
SPECIFICATION Spec
PROPERTY OneHalfOpenRecovery
