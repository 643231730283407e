SPECIFICATION Spec
CONSTANTS
    c1 = c1
    c2 = c2
    r1 = r1
    r2 = r2
    Clocks <- OneClock
    Readers <- OneReader
    None = None
    Invalid = Invalid
    PhaseValues <- FewPhases
    PhasePanic = 1
    Infinite = Infinite
    NaN = NaN
    MaxError = 0
    Disturbances <- Nothing
PROPERTIES
    TimeIsEpochTime
