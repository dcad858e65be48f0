CONSTANTS
    me = me
    other = other
    Players <- MCPlayers
    Me = me
    Nobody = Nobody
    Cells <- MCCells
    Walls <- MCWalls
    SpawnCell <- MCSpawn
    Start <- MCStart
    HitsToKill = 1
    SwingsToRemove = 1
    MoveDirs <- MCMoveDirs
    Attackers <- MCPlayers
    MaxUp = 2
    MaxDown = 1

SPECIFICATION Spec

INVARIANTS
    TypeOK
    OnlyRunsAhead
    OthersAgree

CHECK_DEADLOCK FALSE
