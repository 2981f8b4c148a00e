SPECIFICATION MCSpec
CONSTANTS
    Ranks = {r0, r1}
    Main = r0
    Async = TRUE
    MayFail = FALSE
    EvalOnStart = FALSE
    MaxSteps = 4
    GradAccum = 2
    GenerateEvery = 2
    EvalSteps = {1}
    EpochEnds = {}
    StopStep = 0
    EvalBatches = 2
    MaxResample = 1
INVARIANTS
    TypeOK
    RightWeights
    RightRollout
    Aligned
    OneAhead
PROPERTIES
    NoSyncDuringRollout
    TrainingEnds
CHECK_DEADLOCK FALSE
