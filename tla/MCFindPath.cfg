CONSTANTS
    Cells <- MCCells
    Walls <- MCWalls
    SpawnCell <- MCSpawn
    MonsterCell <- MCSpawn
    RespawnCells <- MCCells
    FallbackCell <- MCSpawn
    MaxDepth = 3

SPECIFICATION FairSpec

INVARIANTS
    PathWalks
    EndsNearest

PROPERTIES
    Terminates

CHECK_DEADLOCK FALSE
