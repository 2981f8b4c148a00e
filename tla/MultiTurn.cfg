CONSTANTS
    None = None
    Setups <- MCSetups
    TpSize = 2
SPECIFICATION FairSpec
INVARIANTS
    TypeOK
    OwnTurns
    TrainsWhatWasSaid
    LogprobsOfTheirTokens
PROPERTIES
    EveryoneFinishes
CHECK_DEADLOCK FALSE
