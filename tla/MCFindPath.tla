----------------------------- MODULE MCFindPath -----------------------------
(* Every map of three by three cells, and every pair of cells on it.        *)
EXTENDS FindPath

MCCells == (0..2) \X (0..2)
MCWalls == {}
MCSpawn == <<0, 0>>
=============================================================================
