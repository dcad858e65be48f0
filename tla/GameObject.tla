----------------------------- MODULE GameObject -----------------------------
(***************************************************************************)
(* What Server/GameObject.cpp does to the info of one object, and the      *)
(* geometry of the map: shared by the room and by the model of a client    *)
(* that runs ahead of it.                                                  *)
(***************************************************************************)
EXTENDS Integers

Dirs == {"up", "down", "left", "right"}
States == {"idle", "move", "skill"}

Abs(n) == IF n < 0 THEN -n ELSE n

Distance(c, d) == Abs(c[1] - d[1]) + Abs(c[2] - d[2])

\* The cell a step in a direction leads to.
Ahead(c, dir) ==
    CASE dir = "up"    -> <<c[1], c[2] - 1>>
      [] dir = "down"  -> <<c[1], c[2] + 1>>
      [] dir = "left"  -> <<c[1] - 1, c[2]>>
      [] dir = "right" -> <<c[1] + 1, c[2]>>

GetLookAtDir(c, d) ==
    IF d[1] > c[1] THEN "right"
    ELSE IF d[1] < c[1] THEN "left"
    ELSE IF d[2] > c[2] THEN "down" ELSE "up"

\* The cell an object looks at.
GetFrontCellPos(info) == Ahead(info.pos, info.dir)

\* The setters mark the object only if they change something.
SetState(info, state) ==
    [info EXCEPT !.state = state, !.dirty = @ \/ info.state # state]
SetDir(info, dir) ==
    [info EXCEPT !.dir = dir, !.dirty = @ \/ info.dir # dir]

\* (mutant) The position changes and nobody is to hear of it.
SetCellPosQuietly(info, cell) == [info EXCEPT !.pos = cell]

SetCellPos(info, cell) ==
    [info EXCEPT !.pos = cell, !.dirty = @ \/ info.pos # cell]
=============================================================================
