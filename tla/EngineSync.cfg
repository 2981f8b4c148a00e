SPECIFICATION Spec
CONSTANTS
    NumGroups = 2
    MaxSteps = 2
    MaxLives = 2
    Base = Base
    None = None
    Setups <- MCSetups
INVARIANTS
    TypeOK
    GeneratesWithStudent
    TakesTurns
CHECK_DEADLOCK FALSE
