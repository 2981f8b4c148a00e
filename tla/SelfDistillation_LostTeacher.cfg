SPECIFICATION Spec
CONSTANTS
    Ranks = {r0, r1}
    Main = r0
    UseVllm = TRUE
    SeqKd = FALSE
    Ema = TRUE
    Sharded = FALSE
    DeepSpeed = TRUE
    SameNames = TRUE
    MaxSteps = 4
    GradAccum = 2
    EpochLen = 3
    SaveSteps = {2}
    MaxLives = 2
CHECK_DEADLOCK FALSE
INVARIANTS
    TeacherAverages
