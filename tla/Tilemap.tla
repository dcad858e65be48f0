------------------------------ MODULE Tilemap ------------------------------
(***************************************************************************)
(* The map of the room (Server/Tilemap.cpp) and where one can stand on it, *)
(* for the two models of GameRoom.                                         *)
(***************************************************************************)
EXTENDS GameObject

CONSTANTS
    Cells,           \* the tiles of the map, pairs <<x, y>>
    Walls,           \* the ones whose value is 1
    SpawnCell,       \* (5, 5): where players enter and respawn
    MonsterCell,     \* (8, 8): where the first monster stands
    RespawnCells,    \* what GetRandomEmptyCellPos draws from
    FallbackCell     \* (10, 10): what it returns when it finds none

ASSUME CellsAssumption ==
    /\ Cells \subseteq Int \X Int /\ Walls \subseteq Cells
    /\ SpawnCell \in Cells /\ MonsterCell \in Cells /\ FallbackCell \in Cells
    /\ RespawnCells \subseteq Cells

Types == {"player", "monster"}

\* The maps _players and _monsters: objects by their id.
Put(f, key, value) ==
    [k \in DOMAIN f \cup {key} |-> IF k = key THEN value ELSE f[k]]
Drop(f, key) == [k \in DOMAIN f \ {key} |-> f[k]]

OfType(objs, type) == {id \in DOMAIN objs : objs[id].type = type}

AtLeast(low, n) == IF n < low THEN low ELSE n

\* (mutant) Only walls are in the way.
CanGoThrough(objs, c) == c \in Cells /\ c \notin Walls

\* A tile of the map that is no wall, and on which no object stands.
CanGo(objs, c) ==
    /\ c \in Cells /\ c \notin Walls
    /\ \A id \in DOMAIN objs : objs[id].pos # c

\* A random cell that is free; a run of bad luck ends at the fallback.
RandomEmptyCells(objs) ==
    {c \in RespawnCells : CanGo(objs, c)} \cup {FallbackCell}
=============================================================================
