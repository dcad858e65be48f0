-------------------------- MODULE ClientPrediction --------------------------
(***************************************************************************)
(* A client whose own player runs ahead of the server: MyPlayer moves at   *)
(* once and asks the server for the move, the server decides, and what     *)
(* has changed there comes back with the next broadcast.  Requests and     *)
(* messages travel in order (SessionSend, SessionRecv), and may be under   *)
(* way for as long as it takes.                                            *)
(*                                                                         *)
(* "objects" is what the server knows of the players, "scene" the actors   *)
(* of the client's DevScene.  The client is one thread: a key, a message   *)
(* and the end of an animation are steps of their own.  _targetCellPos is  *)
(* the cell of the actor at any time (GameObject::SetCellPos), so the two  *)
(* branches of Handle_S_Move for the own player do the same.               *)
(*                                                                         *)
(* Left out: interpolation, monsters, and players who come and go.         *)
(***************************************************************************)
EXTENDS GameObject, Sequences, FiniteSets

CONSTANTS
    Players,         \* the players in the room
    Me,              \* the one this client controls
    Nobody,          \* target 0
    Cells,           \* the tiles of the map, pairs <<x, y>>
    Walls,           \* the ones whose value is 1
    SpawnCell,       \* where players respawn
    Start,           \* where each player stands at first
    HitsToKill,      \* 9 = 100 hp / 12, hp at the server in hits
    SwingsToRemove,  \* 10 = 100 hp / 10, Creature::_stat.hp in swings
    MoveDirs,        \* MoveDirs[p]: the directions the keys of p ask for
    Attackers,       \* the players who attack
    MaxUp,           \* bound: requests under way
    MaxDown          \* bound: messages under way

ASSUME PlayersAssumption ==
    IsFiniteSet(Players) /\ Me \in Players /\ Nobody \notin Players
ASSUME MapAssumption ==
    /\ Cells \subseteq Int \X Int /\ Walls \subseteq Cells
    /\ SpawnCell \in Cells \ Walls /\ Start \in [Players -> Cells \ Walls]
    /\ MoveDirs \in [Players -> SUBSET Dirs] /\ Attackers \subseteq Players
ASSUME NumbersAssumption ==
    /\ HitsToKill \in Nat \ {0} /\ SwingsToRemove \in Nat \ {0}
    /\ MaxUp \in Nat /\ MaxDown \in Nat

VARIABLES
    objects,     \* GameRoom::_players
    scene,       \* DevScene::_actors, those that are players
    up,          \* requests to the server, oldest first
    down         \* messages to the client, oldest first

vars == <<objects, scene, up, down>>

\* A tile that is no wall, and on which nobody stands: as the server sees it,
\* and as the client does.
CanGo(objs, c) ==
    /\ c \in Cells /\ c \notin Walls
    /\ \A p \in DOMAIN objs : objs[p].pos # c

C_Move(dir) == [id |-> "C_Move", dir |-> dir]
C_Stop == [id |-> "C_Stop"]
C_Attack(target) == [id |-> "C_Attack", target |-> target]
Requests == {C_Move(dir) : dir \in Dirs} \cup {C_Stop}
              \cup {C_Attack(p) : p \in Players \cup {Nobody}}

S_Move(p, info) ==
    [id |-> "S_Move", player |-> p,
     pos |-> info.pos, dir |-> info.dir, state |-> info.state]
S_Attack(p) == [id |-> "S_Attack", player |-> p]
Messages ==
    [id : {"S_Move"}, player : Players, pos : Cells \ Walls, dir : Dirs,
     state : States]
      \cup [id : {"S_Attack"}, player : Players]

Init ==
    /\ objects = [p \in Players |->
                    [pos |-> Start[p], dir |-> "right", state |-> "idle",
                     dirty |-> FALSE, hp |-> HitsToKill]]
    /\ scene = [p \in Players |->
                    [pos |-> Start[p], dir |-> "right", state |-> "idle",
                     hp |-> SwingsToRemove]]
    /\ up = <<>>
    /\ down = <<>>

-----------------------------------------------------------------------------
(* The keys: MyPlayer::TickInput, which SKILL does not reach. *)

Ready ==
    /\ Me \in DOMAIN scene /\ scene[Me].state # "skill"
    /\ Len(up) < MaxUp

\* (mutant) The move is made whether there is a wall or somebody or not.
StartMoveBlindly(info, cell) == [info EXCEPT !.pos = cell, !.state = "move"]

\* GameObject::StartMove
StartMove(info, cell) ==
    IF CanGo(scene, cell)
    THEN [info EXCEPT !.pos = cell, !.state = "move"]
    ELSE info

\* The server is asked even if the client sees that the way is blocked.
TryMove(dir) ==
    /\ Ready /\ dir \in MoveDirs[Me]
    /\ LET turned == [scene[Me] EXCEPT !.dir = dir]
       IN  scene' = [scene EXCEPT ![Me] = StartMove(turned, GetFrontCellPos(turned))]
    /\ up' = Append(up, C_Move(dir))
    /\ UNCHANGED <<objects, down>>

TryStop ==
    /\ Ready
    /\ scene' = [scene EXCEPT ![Me].state = "idle"]
    /\ up' = Append(up, C_Stop)
    /\ UNCHANGED <<objects, down>>

\* Only the request: the swing starts when the server confirms it.
TryAttack ==
    /\ Ready /\ Me \in Attackers
    /\ LET ahead == {p \in DOMAIN scene \ {Me} : scene[p].pos = GetFrontCellPos(scene[Me])}
       IN  \E target \in IF ahead = {} THEN {Nobody} ELSE ahead :
              up' = Append(up, C_Attack(target))
    /\ UNCHANGED <<objects, scene, down>>

-----------------------------------------------------------------------------
(* The server: GameRoom::Handle_C_Move, Handle_C_Attack, BroadcastGameState *)

Stopped(info) == SetState(info, "idle")

\* The next cell is taken if it is free; a rejected move still turns the
\* player, and marks it only if that changes anything.
Moved(info, dir) ==
    IF CanGo(objects, Ahead(info.pos, dir))
    THEN SetCellPos(SetDir(SetState(info, "move"), dir), Ahead(info.pos, dir))
    ELSE SetState(SetDir(info, dir), "idle")

\* A hit costs hp; with the last of it the player respawns.
Struck(info) ==
    IF info.hp > 1
    THEN [info EXCEPT !.hp = @ - 1]
    ELSE SetCellPos([info EXCEPT !.hp = HitsToKill], SpawnCell)

\* Everybody hears of an attack on nobody, and of one on a neighbour.
Attack(p, target) ==
    \/ /\ target = Nobody
       /\ down' = Append(down, S_Attack(p))
       /\ UNCHANGED objects
    \/ /\ target # Nobody /\ Distance(objects[p].pos, objects[target].pos) <= 1
       /\ down' = Append(down, S_Attack(p))
       /\ objects' = [objects EXCEPT ![target] = Struck(@)]
    \/ /\ target # Nobody /\ Distance(objects[p].pos, objects[target].pos) > 1
       /\ UNCHANGED <<objects, down>>

Handle(p, request) ==
    \/ /\ request.id = "C_Move"
       /\ objects' = [objects EXCEPT ![p] = Moved(@, request.dir)]
       /\ UNCHANGED down
    \/ /\ request.id = "C_Stop"
       /\ objects' = [objects EXCEPT ![p] = Stopped(@)]
       /\ UNCHANGED down
    \/ /\ request.id = "C_Attack" /\ Len(down) < MaxDown
       /\ Attack(p, request.target)

HandleMine ==
    /\ up # <<>>
    /\ up' = Tail(up)
    /\ Handle(Me, Head(up))
    /\ UNCHANGED scene

\* The other clients send what they like.
HandleOther ==
    /\ \E p \in Players \ {Me} :
          \/ \E dir \in MoveDirs[p] : Handle(p, C_Move(dir))
          \/ Handle(p, C_Stop)
          \/ /\ p \in Attackers
             /\ \E target \in (Players \ {p}) \cup {Nobody} : Handle(p, C_Attack(target))
    /\ UNCHANGED <<scene, up>>

Marked == {p \in Players : objects[p].dirty}

\* The members of a set one after the other.
Orders(S) ==
    {order \in [1..Cardinality(S) -> S] :
        \A p \in S : \E i \in DOMAIN order : order[i] = p}

\* S_Move for every player that is marked, which unmarks it.  (The map has
\* them in the order of their ids, which is left open.)
BroadcastGameState ==
    /\ Marked # {} /\ Len(down) < MaxDown
    /\ \E order \in Orders(Marked) :
          down' = down \o [i \in DOMAIN order |-> S_Move(order[i], objects[order[i]])]
    /\ objects' = [p \in Players |-> [objects[p] EXCEPT !.dirty = FALSE]]
    /\ UNCHANGED <<scene, up>>

-----------------------------------------------------------------------------
(* The messages: ClientPacketHandler *)

\* (mutant) The own player does not let itself be corrected.
PlacedUnlessMine(info, msg) ==
    IF msg.player = Me THEN [info EXCEPT !.state = msg.state]
    ELSE [info EXCEPT !.pos = msg.pos, !.dir = msg.dir, !.state = msg.state]

Placed(info, msg) ==
    [info EXCEPT !.pos = msg.pos, !.dir = msg.dir, !.state = msg.state]

Handle_S_Move ==
    /\ down # <<>> /\ Head(down).id = "S_Move"
    /\ LET p == Head(down).player
       IN  scene' = IF p \in DOMAIN scene
                    THEN [scene EXCEPT ![p] = Placed(@, Head(down))] ELSE scene
    /\ down' = Tail(down)
    /\ UNCHANGED <<objects, up>>

Handle_S_Attack ==
    /\ down # <<>> /\ Head(down).id = "S_Attack"
    /\ LET p == Head(down).player
       IN  scene' = IF p \in DOMAIN scene
                    THEN [scene EXCEPT ![p].state = "skill"] ELSE scene
    /\ down' = Tail(down)
    /\ UNCHANGED <<objects, up>>

-----------------------------------------------------------------------------
(* The animation of an attack has ended: Player::TickSkill *)

\* Creature::OnDamaged: the last hp removes the actor from the scene.
OnDamaged(actors, victim) ==
    IF actors[victim].hp > 1
    THEN [actors EXCEPT ![victim].hp = @ - 1]
    ELSE [p \in DOMAIN actors \ {victim} |-> actors[p]]

\* A sword hits whoever stands in front of the actor in this scene.  Only the
\* own player can have another weapon, which hurts nobody.
TickSkill(p) ==
    /\ p \in DOMAIN scene /\ scene[p].state = "skill"
    /\ LET rested == [scene EXCEPT ![p].state = "idle"]
           ahead == {q \in DOMAIN scene : scene[q].pos = GetFrontCellPos(scene[p])}
       IN  \/ /\ ahead = {} \/ p = Me
              /\ scene' = rested
           \/ \E victim \in ahead : scene' = OnDamaged(rested, victim)
    /\ UNCHANGED <<objects, up, down>>

-----------------------------------------------------------------------------

Next ==
    \/ \E dir \in Dirs : TryMove(dir)
    \/ TryStop
    \/ TryAttack
    \/ HandleMine
    \/ HandleOther
    \/ BroadcastGameState
    \/ Handle_S_Move
    \/ Handle_S_Attack
    \/ \E p \in Players : TickSkill(p)

Spec == Init /\ [][Next]_vars

-----------------------------------------------------------------------------

Infos == [pos : Cells \ Walls, dir : Dirs, state : States, dirty : BOOLEAN,
          hp : 1..HitsToKill]
Actors == [pos : Cells \ Walls, dir : Dirs, state : States, hp : 1..SwingsToRemove]

\* Nobody is in a wall: not at the server, not on the way, not in the scene.
TypeOK ==
    /\ objects \in [Players -> Infos]
    /\ DOMAIN scene \subseteq Players /\ scene \in [DOMAIN scene -> Actors]
    /\ up \in Seq(Requests) /\ Len(up) <= MaxUp
    /\ down \in Seq(Messages)

\* A message that tells where p is.
Places(msg, p) == msg.id = "S_Move" /\ msg.player = p

\* Nothing about the place of p is under way or waits to be sent.
Settled(p) ==
    /\ ~objects[p].dirty
    /\ \A i \in DOMAIN down : ~Places(down[i], p)

\* The cells of the ray from c in this direction, c included.
Ray(c, dir) ==
    {d \in Cells :
        CASE dir = "up"    -> d[1] = c[1] /\ d[2] <= c[2]
          [] dir = "down"  -> d[1] = c[1] /\ d[2] >= c[2]
          [] dir = "left"  -> d[2] = c[2] /\ d[1] <= c[1]
          [] dir = "right" -> d[2] = c[2] /\ d[1] >= c[1]}

\* The client's player has run ahead in the direction the server has it look
\* in, while the server has it stand.
RunAhead ==
    /\ scene[Me].pos \in Ray(objects[Me].pos, objects[Me].dir)
    /\ scene[Me].dir = objects[Me].dir
    /\ objects[Me].state = "idle"

\* Once everything has been delivered the client's player is where the server
\* has it or has run ahead: that is all a client can be wrong by.
OnlyRunsAhead ==
    Me \in DOMAIN scene /\ up = <<>> /\ Settled(Me) =>
        scene[Me].pos = objects[Me].pos \/ RunAhead

\* What the client shows of another player is at most as old as the messages
\* under way.
OthersAgree ==
    \A p \in DOMAIN scene \ {Me} : Settled(p) =>
        scene[p].pos = objects[p].pos /\ scene[p].dir = objects[p].dir

\* README.md:233 (consistent despite network delay): once everything has been
\* delivered the client's player is where the server has it.
ServerSync ==
    Me \in DOMAIN scene /\ up = <<>> /\ Settled(Me) =>
        scene[Me].pos = objects[Me].pos

\* The comment at ClientPacketHandler.cpp:293 (the server removes an object, and
\* none when a player dies): the players are all in the room, so they are all
\* in the scene.
NobodyVanishes == DOMAIN scene = Players
=============================================================================
