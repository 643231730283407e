SPECIFICATION Spec
CONSTANTS
    Base = 4
    Width = 2
    Million = 4
    IntRange = 16
    s = s
    c = c
    d = d
    x = x
    Server = s
    Clients = {c, d}
    Strays = {x}
    Order <- SomeOrder
    ClockOf <- SomeClocks
    Timeout = 0
    Garbages <- SomeGarbages
    StrayBytes <- SomeStrayBytes
    MaxRequests = 1
    MaxObjects <- SomeMaxObjects
    NoSocket = NoSocket
INVARIANTS
    TypeOK
    SocketsUsable
    AttributedRight
    EndsByKill
\* Both programs may end.
CHECK_DEADLOCK FALSE
