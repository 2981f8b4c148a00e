SPECIFICATION Spec
CONSTANTS
    NumRequests = 3
    Configs = {full, stream, beams}
    Streaming = {stream, beams}
    Beams = {beams}
    Adapters = {lora}
    Base = base
    Asked <- MCAsked
    Limits = {0, 1, 2}
    MaxChunks = 1
INVARIANTS
    TypeOK
    OwnAnswer
    OnePlace
    NoOvertaking
    AdapterOfEntry
    WholeUnlessShared
PROPERTIES
    EveryoneAnswered
CHECK_DEADLOCK FALSE
