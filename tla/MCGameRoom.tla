----------------------------- MODULE MCGameRoom -----------------------------
(* A corridor of three cells and a wall: two players and the monster fill   *)
(* it, so every move is contested and every attack can reach somebody.      *)
EXTENDS GameRoom, TLC

CONSTANTS s1, s2

MCSessions == {s1, s2}
MCSymmetry == Permutations(MCSessions)
MCCells == {<<x, 1>> : x \in 1..4}
MCWalls == {<<4, 1>>}
MCSpawn == <<2, 1>>
MCMonster == <<3, 1>>
MCRespawn == {<<1, 1>>, <<3, 1>>}
MCFallback == <<1, 1>>
MCAttack == [player |-> 2, monster |-> 1]
MCDefence == [player |-> 0, monster |-> 1]
MCHpFloor == 0
MCInputDirs == {"left", "right"}
=============================================================================
