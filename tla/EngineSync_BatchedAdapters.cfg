SPECIFICATION Spec
CONSTANTS
    NumGroups = 2
    MaxSteps = 2
    MaxLives = 2
    Base = Base
    None = None
    Setups <- BatchedAdapters
INVARIANTS
    HasAllWeights
CHECK_DEADLOCK FALSE
