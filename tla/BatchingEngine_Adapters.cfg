SPECIFICATION Spec
CONSTANTS
    NumRequests = 2
    Configs = {full}
    Streaming = {}
    Beams = {}
    Adapters = {lora}
    Base = base
    Asked <- MCNamed
    Limits = {1}
    MaxChunks = 1
INVARIANTS
    OwnAdapter
CHECK_DEADLOCK FALSE
