CONSTANTS
    w1 = w1
    w2 = w2
    s1 = s1
    s2 = s2
    Workers <- MCWorkers
    Main = main
    Sessions <- MCSessions
    Nobody = nobody
    Cells <- MCCells
    Walls <- MCWalls
    SpawnCell <- MCSpawn
    MonsterCell <- MCMonster
    RespawnCells <- MCRespawn
    FallbackCell <- MCFallback
    MaxCalls = 6
    MaxHp = 2
    Damage = 1
    InputDirs <- MCInputDirs
    MaxId = 5

SPECIFICATION Spec

SYMMETRY MCSymmetry

INVARIANTS
    KnowsWhoIsThere
    FreshUnlessRaced
    SharedCellsContested
    MonsterRemains
    DeathIsHandled

CHECK_DEADLOCK FALSE
