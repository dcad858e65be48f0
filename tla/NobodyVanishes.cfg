CONSTANTS
    me = me
    other = other
    Players <- MCPlayers
    Me = me
    Nobody = Nobody
    Cells <- MCCells
    Walls <- MCWalls
    SpawnCell <- MCSpawn
    Start <- MCStart
    HitsToKill = 1
    SwingsToRemove = 2
    MoveDirs <- MCMoveDirs
    Attackers <- MCPlayers
    MaxUp = 2
    MaxDown = 2

SPECIFICATION Spec

INVARIANTS
    NobodyVanishes

CHECK_DEADLOCK FALSE
