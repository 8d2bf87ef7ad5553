SPECIFICATION Spec
CONSTANTS
    RankSize = 2
    CoreNum = 2
    UsedCores = 2
    M = 5
    RowsPerSplit = 2
    GatherAddOut = {1}
    LeftOver = {1}
    MaxLaunches = 2
CHECK_DEADLOCK FALSE
INVARIANTS
    InStep
    OutputsCorrect
    NoFlagOvershoots
    ExIsBarrier
PROPERTIES
    EveryLaunchEnds
