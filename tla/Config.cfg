CONSTANTS
    c1 = c1
    c2 = c2
    c3 = c3
    c4 = c4
    Configs <- MCConfigs
    NoConfig = NoConfig
    ShutdownConfig = ShutdownConfig
    MaxObstacles = 2
    MaxDumps = 1
    MayRace = FALSE
    MayFail = TRUE
SPECIFICATION MCSpec
INVARIANTS ConfigsAlive WaitsForOld TargetReached UndoSound BfdRight FilterDataRight
PROPERTY Progress
