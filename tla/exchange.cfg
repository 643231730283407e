SPECIFICATION Spec
CONSTANTS
    Invalid = Invalid
    Timeout = 3
    UsecPerMsec = 2
    SeqModulus = 2
    MaxLag = 1
    Acknowledge = TRUE
    Skews <- FewSkews
    MaxTime = 2
    MaxRequests = 3
    MaxDups = 1
INVARIANTS
    TypeOK
    AnswersCurrentRequest
    RttWithinTimeout
    OffsetAccurate
PROPERTIES
    CallReturns
    ImplementsMeasurement
