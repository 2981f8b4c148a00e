SPECIFICATION MCSpec
CONSTANTS
    Servers = 2
    Workers = 2
    Buckets = 2
    MaxVersion = 2
    MaxRequests = 4
    MaxClients = 2
    Faults = {}
    KillIn = {}
INVARIANTS
    TypeOK
    Quiescent
    InOrder
PROPERTIES
    ImplementsService
    CallsReturnUnlessKept
CHECK_DEADLOCK FALSE
