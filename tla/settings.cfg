SPECIFICATION Spec
CONSTANTS
    Files <- SomeFiles
    Default <- SomeDefault
    UnsignedRange = 256
    PortRange = 16
    Kilo = 4
INVARIANTS
    BuiltAsConfigured
    WaitsInTime
\* The programs go on from here.
CHECK_DEADLOCK FALSE
