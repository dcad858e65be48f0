CONSTANTS
    s1 = s1
    s2 = s2
    Sessions <- MCSessions
    Cells <- MCCells
    Walls <- MCWalls
    SpawnCell <- MCSpawn
    MonsterCell <- MCMonster
    RespawnCells <- MCRespawn
    FallbackCell <- MCFallback
    MaxHp = 2
    Attack <- MCAttack
    Defence <- MCDefence
    InputDirs <- MCInputDirs
    MaxId = 4
    HpFloor <- MCHpFloor

SPECIFICATION Spec

SYMMETRY MCSymmetry

INVARIANTS
    HpShared

CHECK_DEADLOCK FALSE
