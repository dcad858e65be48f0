------------------------- MODULE MCClientPrediction -------------------------
(* Two players in a corridor of three cells and a wall.                     *)
EXTENDS ClientPrediction, TLC

CONSTANTS me, other

MCPlayers == {me, other}
MCCells == {<<x, 1>> : x \in 1..4}
MCWalls == {<<4, 1>>}
MCSpawn == <<3, 1>>
MCStart == (me :> <<1, 1>>) @@ (other :> <<3, 1>>)
MCMoveDirs == (me :> {"up", "right"}) @@ (other :> {"left"})
=============================================================================
