SPECIFICATION MCSpec
CONSTANTS
    Ranks = {r0, r1}
    Main = r0
    UseVllm = TRUE
    SeqKd = FALSE
    Ema = TRUE
    Sharded = TRUE
    DeepSpeed = TRUE
    SameNames = TRUE
    MaxSteps = 4
    GradAccum = 2
    EpochLen = 3
    SaveSteps = {2}
    MaxLives = 3
CHECK_DEADLOCK FALSE
INVARIANTS
    TypeOK
    AlignedWith
    OneGradient
    SameTeacher
    FirstTeacherAverages
PROPERTIES
    TrainingEnds
