SPECIFICATION Spec
CONSTANTS
    Invalid = Invalid
    NaN = NaN
    Unit = 2
    Frequencies = {2}
    PhasePanic = 2
    Errors = {0}
    Err = 0
    Period = 1
    Huge = 1000
    Offsets <- BackByOne
    Start = 20
    MaxTime = 24
    MaxLag = 0
    MaxSettings = 1
INVARIANTS
    KeepsLocked
