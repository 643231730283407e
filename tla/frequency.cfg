SPECIFICATION Spec
CONSTANTS
    Invalid = Invalid
    NaN = NaN
    Unit = 2
    Frequencies <- SomeFrequencies
    PhasePanic = 2
    Errors <- SomeErrors
    Err = 1
    Period = 1
    Huge = 1000
    Offsets <- SomeOffsets
    Start = 20
    MaxTime = 24
    MaxLag = 1
    MaxSettings = 1
INVARIANTS
    TypeOK
    EstimateSound
PROPERTIES
    NeverBack
    NeverJumps
