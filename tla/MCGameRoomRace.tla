--------------------------- MODULE MCGameRoomRace ---------------------------
(* Two workers and the main thread in a corridor of three cells: two players *)
(* enter next to the monster.                                                *)
EXTENDS GameRoomRace, TLC

CONSTANTS w1, w2, s1, s2

MCWorkers == {w1, w2}
MCSessions == {s1, s2}
MCSymmetry == Permutations(MCWorkers) \cup Permutations(MCSessions)
MCCells == {<<x, 1>> : x \in 1..3}
MCWalls == {}
MCSpawn == <<1, 1>>
MCMonster == <<2, 1>>
MCRespawn == {<<2, 1>>, <<3, 1>>}
MCFallback == <<1, 1>>
MCInputDirs == {"left", "right"}
=============================================================================
