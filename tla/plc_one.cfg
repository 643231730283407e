SPECIFICATION Spec
CONSTANTS
    c1 = c1
    c2 = c2
    r1 = r1
    r2 = r2
    Clocks <- OneClock
    Readers <- OneReader
    None = None
    Invalid = Invalid
    PhaseValues <- AllPhases
    PhasePanic = 1
    Infinite = Infinite
    NaN = NaN
    MaxError = 1
    Disturbances <- Anything
INVARIANTS
    TypeOK
    SamplesValid
    SyncIsEarned
    UnsetClockIsInvalid
    SteersByFreshPhase
PROPERTIES
    VfcGuarded
    PanicLosesSync
    Converges
    RunEnds
