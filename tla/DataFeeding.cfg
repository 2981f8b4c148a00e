SPECIFICATION FairSpec
CONSTANTS
    NumProcesses = 2
    TpSize = 1
    PackingLength = 4
    NumProc = 2
    PackingInterval = 3
    Prefetch = 2
    MaxPackingProc = 2
    PackingBatchSize = 2
    Setups <- MCSetups
    Shuffled <- MCShuffled
    MaxEpochs = 2
    MaxSteps = 4
    SaveSteps = 1
    MaxLives = 3
INVARIANTS
    TypeOK
    PacksInOrder
    NothingBetweenRounds
    IndexComplete
    TrainedInOrder
    EachOnceInEpoch
PROPERTIES
    TrainingEnds
CHECK_DEADLOCK FALSE
