SPECIFICATION Spec
CONSTANTS
    c1 = c1
    c2 = c2
    t1 = t1
    t2 = t2
    t3 = t3
    Clocks <- TwoClocks
    Threads <- ThreeThreads
    Null = Null
INVARIANTS
    UpdatesLiveClock
