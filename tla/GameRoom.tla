------------------------------ MODULE GameRoom ------------------------------
(***************************************************************************)
(* GameRoom (Server/GameRoom.cpp) with its players and its monster: what   *)
(* each handler does to the objects and to what the clients have been      *)
(* told.  "told[p]" is what the client of player p knows once it has       *)
(* handled every message sent to it so far; messages reach it in order     *)
(* (SessionSend), and the handlers in Client/GameCoding apply them.  What  *)
(* a client does to its copies on its own (it predicts its own moves, and  *)
(* Player::TickSkill hits what it sees) is not in "told".                  *)
(*                                                                         *)
(* A handler is one step here: this is the room as its code is written,    *)
(* for one handler at a time.                                              *)
(*                                                                         *)
(* Several state changes of one handler follow each other, so they are     *)
(* written as operators from room to room, a room being a record of the    *)
(* three variables.                                                        *)
(***************************************************************************)
EXTENDS Tilemap, FiniteSets

CONSTANTS
    Sessions,        \* connections; one that left may be a new one later
    MaxHp,           \* 100, the same for players and monsters
    Attack,          \* Attack[t], Defence[t] for the object types t
    Defence,
    InputDirs,       \* bound: the directions the clients ask for
    MaxId,           \* bound: ids that are ever generated
    HpFloor          \* bound: how far below 0 a client's hp may fall

ASSUME StatsAssumption ==
    /\ MaxHp \in Nat \ {0}
    /\ Attack \in [Types -> Nat] /\ Defence \in [Types -> Nat]
    /\ InputDirs \subseteq Dirs
    /\ MaxId \in Nat \ {0} /\ HpFloor \in Int

VARIABLES
    objects,     \* _players and _monsters: live objects by their id
    told,        \* for each key of _players, what its client knows
    nextId,      \* GameObject::s_idGenerator
    player       \* GameSession::player: 0 before it enters and after it left

vars == <<objects, told, nextId, player>>

Room == [objs |-> objects, told |-> told, next |-> nextId]

Become(r) == objects' = r.objs /\ told' = r.told /\ nextId' = r.next

-----------------------------------------------------------------------------
(* What the clients make of the messages *)

\* The part of an ObjectInfo the client's copy keeps apart.
View(info) == [pos |-> info.pos, dir |-> info.dir, hp |-> info.hp]

\* S_Move carries the whole info; Handle_S_Move takes position, direction and
\* state from it, and not the hp.
Placed(view, info) == [view EXCEPT !.pos = info.pos, !.dir = info.dir]

\* S_AddObject
TellAdded(t, id, info) == [p \in DOMAIN t |-> Put(t[p], id, View(info))]

\* S_RemoveObject
TellRemoved(t, id) == [p \in DOMAIN t |-> Drop(t[p], id)]

\* S_Move
TellMoved(t, id, info) ==
    [p \in DOMAIN t |->
        IF id \in DOMAIN t[p]
        THEN [t[p] EXCEPT ![id] = Placed(@, info)]
        ELSE t[p]]

\* S_Attack: the client subtracts the damage itself, if it knows both.
TellAttack(t, attacker, target, damage) ==
    [p \in DOMAIN t |->
        IF {attacker, target} \subseteq DOMAIN t[p]
        THEN [t[p] EXCEPT ![target].hp = @ - damage]
        ELSE t[p]]

-----------------------------------------------------------------------------
(* Objects *)

NewPlayer ==
    [type |-> "player", pos |-> SpawnCell, dir |-> "up", state |-> "idle",
     hp |-> MaxHp, dirty |-> FALSE]
NewMonster(cell) ==
    [type |-> "monster", pos |-> cell, dir |-> "down", state |-> "idle",
     hp |-> MaxHp, dirty |-> TRUE]

\* An object changes; with a broadcast, or without one.
Change(r, id, info) == [r EXCEPT !.objs[id] = info]
BroadcastMove(r, id) == [r EXCEPT !.told = TellMoved(@, id, r.objs[id])]
ChangeAloud(r, id, info) == BroadcastMove(Change(r, id, info), id)

-----------------------------------------------------------------------------
(* GameRoom::AddObject, RemoveObject, BroadcastGameState *)

AddObject(r, id, info) ==
    [objs |-> Put(r.objs, id, info), told |-> TellAdded(r.told, id, info),
     next |-> r.next]

\* (mutant) The object goes and nobody hears of it.
RemoveObjectQuietly(r, id) ==
    IF id \notin DOMAIN r.objs THEN r
    ELSE [r EXCEPT !.objs = Drop(@, id), !.told = Drop(@, id)]

\* A removed player is no longer among the ones that are told.
RemoveObject(r, id) ==
    IF id \notin DOMAIN r.objs THEN r
    ELSE [r EXCEPT !.objs = Drop(@, id),
                   !.told = TellRemoved(Drop(@, id), id)]

\* S_Move for every object that is marked, which unmarks it.
TellMarked(t, objs) ==
    [p \in DOMAIN t |->
        [id \in DOMAIN t[p] |-> IF id \in DOMAIN objs /\ objs[id].dirty
                               THEN Placed(t[p][id], objs[id]) ELSE t[p][id]]]
Unmarked(objs) == [id \in DOMAIN objs |-> [objs[id] EXCEPT !.dirty = FALSE]]

BroadcastGameState(r) ==
    [objs |-> Unmarked(r.objs), told |-> TellMarked(r.told, r.objs), next |-> r.next]

-----------------------------------------------------------------------------
(* GameRoom::Handle_C_Attack *)

Damage(attacker, target) ==
    AtLeast(1, Attack[attacker.type] - Defence[target.type])

\* (mutant) The new monster is added, the dead one stays.
MonsterDiesTwice(r, id) ==
    {AddObject([r EXCEPT !.next = @ + 1], r.next, NewMonster(c)) :
        c \in RandomEmptyCells(r.objs)}

\* A dead monster is replaced at once, at a place found without it.
MonsterDies(r, id) ==
    LET gone == RemoveObject(r, id)
    IN  {AddObject([gone EXCEPT !.next = @ + 1], gone.next, NewMonster(c)) :
            c \in RandomEmptyCells(gone.objs)}

\* (mutant) The position is reset and the hp is not.
PlayerMovesHome(r, id) ==
    {Change(r, id, SetCellPos(r.objs[id], SpawnCell))}

\* A dead player starts again with full hp, of which nobody is told.
PlayerDies(r, id) ==
    {Change(r, id, SetCellPos([r.objs[id] EXCEPT !.hp = MaxHp], SpawnCell))}

\* The bounds: ids for a new monster, and how far a client's hp may fall.
WithinBounds(r, target, damage) ==
    /\ r.next <= MaxId
    /\ \A p \in DOMAIN r.told :
          target \in DOMAIN r.told[p] => r.told[p][target].hp - damage >= HpFloor

\* (mutant) The hp falls and the broadcast is forgotten.
HitQuietly(r, attacker, target, damage) ==
    [r EXCEPT !.objs[target].hp = AtLeast(0, @ - damage)]

\* The target's hp falls, not below 0, and everybody hears of the attack.
Hit(r, attacker, target, damage) ==
    [objs |-> [r.objs EXCEPT ![target].hp = AtLeast(0, @ - damage)],
     told |-> TellAttack(r.told, attacker, target, damage), next |-> r.next]

\* The rooms an attack can lead to.  An unknown attacker, no target, an
\* unknown one or one that is not next to the attacker: nothing but messages.
Handle_C_Attack(r, attacker, target) ==
    IF \/ attacker \notin DOMAIN r.objs \/ target \notin DOMAIN r.objs
    THEN {r}
    ELSE IF Distance(r.objs[attacker].pos, r.objs[target].pos) > 1
    THEN {r}
    ELSE LET damage == Damage(r.objs[attacker], r.objs[target])
             hit == Hit(r, attacker, target, damage)
         IN  IF ~WithinBounds(r, target, damage) THEN {}
             ELSE IF hit.objs[target].hp > 0 THEN {hit}
             ELSE IF hit.objs[target].type = "monster"
             THEN MonsterDies(hit, target)
             ELSE PlayerDies(hit, target)

-----------------------------------------------------------------------------
(* Monster::Update.  The target is the closest player at some time in the   *)
(* last half second, so any player; when to act again is a matter of time.  *)

\* Turn to an adjacent player, aloud, and attack.
MonsterAttacks(r, m, target) ==
    LET turned == SetDir(r.objs[m], GetLookAtDir(r.objs[m].pos, r.objs[target].pos))
        facing == IF turned = r.objs[m] THEN r ELSE ChangeAloud(r, m, turned)
        ready == ChangeAloud(facing, m, SetState(facing.objs[m], "skill"))
    IN  Handle_C_Attack(ready, m, target)

\* Towards a player who is not adjacent: FindPath finds no way, or a first
\* step to a free neighbour, or only the cell where the monster stands.
MonsterApproaches(r, m) ==
    LET here == r.objs[m].pos
        Step(dir) ==
            Change(ChangeAloud(r, m, SetCellPos(SetDir(r.objs[m], dir), Ahead(here, dir))),
                   m,
                   SetState(SetCellPos(SetDir(r.objs[m], dir), Ahead(here, dir)), "move"))
    IN  {r, BroadcastMove(r, m)}
          \cup {Step(dir) : dir \in {d \in Dirs : CanGo(r.objs, Ahead(here, d))}}

MonsterIdle(r, m) ==
    LET targets == OfType(r.objs, "player")
        Outcomes(t) == IF Distance(r.objs[m].pos, r.objs[t].pos) = 1
                       THEN MonsterAttacks(r, m, t) ELSE MonsterApproaches(r, m)
    IN  IF targets = {} THEN {r} ELSE UNION {Outcomes(t) : t \in targets}

MonsterUpdate(r, m) ==
    IF r.objs[m].state = "idle" THEN MonsterIdle(r, m)
    ELSE {r, Change(r, m, SetState(r.objs[m], "idle"))}

-----------------------------------------------------------------------------

Init ==
    /\ objects = [id \in {1} |-> NewMonster(MonsterCell)]
    /\ told = [p \in {} |-> {}]
    /\ nextId = 2
    /\ player = [s \in Sessions |-> 0]

\* What a client is sent before it is among the players: S_MyPlayer, and
\* S_AddObject with everybody who is there.
Snapshot(objs, id) ==
    [k \in DOMAIN objs \cup {id} |->
        View(IF k = id THEN NewPlayer ELSE objs[k])]

EnterRoom(s) ==
    /\ player[s] = 0 /\ nextId <= MaxId
    /\ player' = [player EXCEPT ![s] = nextId]
    /\ Become(AddObject([objs |-> objects,
                         told |-> Put(told, nextId, Snapshot(objects, nextId)),
                         next |-> nextId + 1],
                        nextId, NewPlayer))

\* (mutant) The session keeps its player alive.
LeaveRoomAndStay(s) ==
    /\ player[s] # 0
    /\ Become(RemoveObject(Room, player[s]))
    /\ UNCHANGED player

\* The session's weak reference to its player dies with the player.
LeaveRoom(s) ==
    /\ player[s] # 0
    /\ player' = [player EXCEPT ![s] = 0]
    /\ Become(RemoveObject(Room, player[s]))

\* A stop request leaves everything but the state.
Stop(s) ==
    /\ player[s] # 0
    /\ Become(Change(Room, player[s], SetState(objects[player[s]], "idle")))
    /\ UNCHANGED player

\* A move request: the next cell is computed here and taken if it is free;
\* a rejected one still turns the player.
Move(s, dir) ==
    /\ player[s] # 0
    /\ LET info == objects[player[s]]
           cell == Ahead(info.pos, dir)
       IN  Become(Change(Room, player[s],
             IF CanGo(objects, cell)
             THEN SetCellPos(SetDir(SetState(info, "move"), dir), cell)
             ELSE SetState(SetDir(info, dir), "idle")))
    /\ UNCHANGED player

\* The target is whatever the client saw in front of its player, which may
\* be gone by now; 0 is nobody.
ClientAttacks(s, target) ==
    /\ player[s] # 0
    /\ \E r \in Handle_C_Attack(Room, player[s], target) : Become(r)
    /\ UNCHANGED player

\* The monsters act (there is one), then, if 33 ms have passed, what changed
\* is broadcast.
Update ==
    /\ \E m \in OfType(objects, "monster"), elapsed \in BOOLEAN :
          \E r \in MonsterUpdate(Room, m) :
             Become(IF elapsed THEN BroadcastGameState(r) ELSE r)
    /\ UNCHANGED player

Next ==
    \/ \E s \in Sessions :
          \/ EnterRoom(s)
          \/ LeaveRoom(s)
          \/ Stop(s)
          \/ \E dir \in InputDirs : Move(s, dir)
          \/ \E target \in 0..MaxId : target # player[s] /\ ClientAttacks(s, target)
    \/ Update

Spec == Init /\ [][Next]_vars

-----------------------------------------------------------------------------

Info == [type : Types, pos : Cells, dir : Dirs, state : States,
         hp : 0..MaxHp, dirty : BOOLEAN]
Views == [pos : Cells, dir : Dirs, hp : Int]

\* Objects have the ids that were generated, and the session's player is one
\* of them as long as it is in the room.
TypeOK ==
    /\ nextId \in 2..MaxId + 1
    /\ DOMAIN objects \subseteq 1..nextId - 1
    /\ objects \in [DOMAIN objects -> Info]
    /\ \A p \in DOMAIN told : told[p] \in [DOMAIN told[p] -> Views]
    /\ player \in [Sessions -> {0} \cup OfType(objects, "player")]

\* Between two handlers the room has exactly one monster.
OneMonster == \E m \in DOMAIN objects : OfType(objects, "monster") = {m}

\* Between two handlers nobody is dead.
AllAlive == \A id \in DOMAIN objects : objects[id].hp > 0

\* The clients of exactly the players in the room are told of exactly the
\* objects in the room.
ViewComplete ==
    /\ DOMAIN told = OfType(objects, "player")
    /\ \A p \in DOMAIN told : DOMAIN told[p] = DOMAIN objects

\* What a client does not know about an object's place is still to be sent:
\* the object is marked for the next BroadcastGameState.
ViewFresh ==
    \A p \in DOMAIN told : \A id \in DOMAIN told[p] \cap DOMAIN objects :
        ~objects[id].dirty => /\ told[p][id].pos = objects[id].pos
                              /\ told[p][id].dir = objects[id].dir

\* The client is right about the hp, or it is of a player who has died since:
\* for this client it has none left.
HpKnown(view, info) ==
    view.hp = info.hp \/ (info.type = "player" /\ view.hp <= 0)

\* Though hp itself is sent only once and then counted down, no damage is missed
\* or counted twice: whoever a client takes to be alive has that hp at the
\* server, and a monster in any case.
HpKnownWhileAlive ==
    \A p \in DOMAIN told : \A id \in DOMAIN told[p] \cap DOMAIN objects :
        HpKnown(told[p][id], objects[id])

\* An object that stays in the room changes its place only to a neighbouring
\* cell without wall or object, or, as a player who has just died, to the
\* place where players start.
MovesIntoFreeCells ==
    [][\A id \in DOMAIN objects \cap DOMAIN objects' :
          LET from == objects[id].pos
              to == objects'[id].pos
          IN  \/ to = from
              \/ /\ Distance(from, to) = 1 /\ to \in Cells \ Walls
                 /\ \A other \in DOMAIN objects : objects[other].pos # to
              \/ to = SpawnCell /\ objects[id].type = "player"
                    /\ objects'[id].hp = MaxHp]_vars

\* README.md:232 says that all players share the same game state: any two
\* clients have the same hp for an object both of them know.
HpShared ==
    \A p, q \in DOMAIN told : \A id \in DOMAIN told[p] \cap DOMAIN told[q] :
        told[p][id].hp = told[q][id].hp
=============================================================================
