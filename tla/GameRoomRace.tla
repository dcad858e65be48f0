---------------------------- MODULE GameRoomRace ----------------------------
(***************************************************************************)
(* GameRoom with the threads that run it.  Packets are handled on the      *)
(* workers of the completion port, Update runs on the main thread, and     *)
(* none of them takes a lock: _roomMutex and _updateMutex of GameRoom.h    *)
(* are never used.  Here a handler is a chain of steps, and a step is what *)
(* one thread does between two accesses to what others change; "call[t]"   *)
(* is where thread t is, with its local variables.                         *)
(*                                                                         *)
(* Of an object's info the place and the hp are kept.  State and direction *)
(* go through the same two steps as the place (write, then mark); they     *)
(* only appear as what may mark an object before its place is written.     *)
(* One operation on _players or _monsters, one broadcast and one write of  *)
(* a place are taken as indivisible: the runs in which std::map or the     *)
(* protobuf message itself is torn are left out, whatever they end in.     *)
(*                                                                         *)
(* A client is its actors: for each object the places of those that have   *)
(* its id.  What a client does on its own (predict its steps, remove the   *)
(* creatures whose hp it counts down to 0) is in ClientPrediction.         *)
(***************************************************************************)
EXTENDS Tilemap, FiniteSets, SequencesExt

CONSTANTS
    Workers,         \* the threads of IocpCore
    Main,            \* the thread that runs GameRoom::Update
    Sessions,        \* connections, each of which enters once
    Nobody,          \* a thread that serves no session
    MaxHp,           \* 100, the same for players and monsters
    Damage,          \* what an attack takes, whoever attacks
    InputDirs,       \* bound: the directions the clients ask for
    MaxCalls,        \* bound: handlers that are ever begun
    MaxId            \* bound: ids that are ever generated

ASSUME ThreadsAssumption == Main \notin Workers /\ Nobody \notin Sessions
ASSUME StatsAssumption ==
    /\ MaxHp \in Nat \ {0} /\ Damage \in Nat \ {0} /\ MaxId \in Nat \ {0}
    /\ InputDirs \subseteq Dirs

Threads == Workers \cup {Main}
Ids == 1..MaxId

VARIABLES
    objects,     \* _players and _monsters: the objects in the room by id
    told,        \* for each player its client's actors: their places, by id
    nextId,      \* GameObject::s_idGenerator
    player,      \* GameSession::player, 0 before EnterRoom
    call,        \* what each thread is about to do, and with what
    serving,     \* the session whose connect or packet a worker handles
    missed,      \* history: <<p, id>> if p could not hear a message about id
    raced,       \* history: ids whose place changed behind a copy of it
    crossed,     \* history: <<p, id>> if p was sent id with the room although
                 \* S_AddObject of id was still to come
    begun,       \* handlers begun so far, for the bound
    contested    \* history: cells found free twice before they were taken

room == <<objects, told, nextId, player>>
history == <<missed, raced, crossed, contested>>
vars == <<room, call, serving, begun, history>>

-----------------------------------------------------------------------------
(* Threads *)

Idle == [at |-> "idle"]

\* A thread goes on inside a handler, or leaves it.
Go(t, next) == call' = [call EXCEPT ![t] = next] /\ UNCHANGED <<serving, begun>>
Return(t) ==
    /\ call' = [call EXCEPT ![t] = Idle]
    /\ serving' = [serving EXCEPT ![t] = Nobody]
    /\ UNCHANGED begun

\* A thread that does nothing begins a handler.
CanBegin(t) == call[t].at = "idle" /\ begun < MaxCalls
Begin(t, next) ==
    /\ CanBegin(t)
    /\ call' = [call EXCEPT ![t] = next]
    /\ begun' = begun + 1

\* A worker takes up a session, whose packets come one at a time.
Take(t, s, next) ==
    /\ Begin(t, next)
    /\ \A u \in Threads : serving[u] # s
    /\ serving' = IF next = Idle THEN serving ELSE [serving EXCEPT ![t] = s]

\* Players who have been sent the room and are not in it yet.
Entering == {call[t].id : t \in {u \in Threads :
                call[u].at = "insert" /\ call[u].info.type = "player"}}

\* Threads that hold a copy of id's place which is not delivered, or are
\* about to declare it delivered.
Carriers(id) == {t \in Threads :
    /\ call[t].at \in {"tell added", "tell moved", "tell state", "unmark"}
    /\ call[t].id = id}

\* A message about id goes out, which players who are entering do not get.
Unheard(id) == missed' = missed \cup {<<p, id>> : p \in Entering}

\* Cells where objects are put without a look.
Unchecked == {SpawnCell, FallbackCell}

\* A cell is found free for an object that will be put there.
Grant(cell) ==
    contested' = contested \cup
        {c \in {cell} \ Unchecked : \E t \in Threads :
            \/ call[t].at = "place" /\ call[t].cell = c
            \/ call[t].at = "insert" /\ call[t].info.pos = c}

-----------------------------------------------------------------------------
(* What the clients are told *)

Listeners == OfType(objects, "player")

\* The actors with one id are the places they stand on.
Places == Seq(Cells) \ {<<>>}

\* Handle_S_AddObject looks for no actor with that id: it makes another one.
WithActor(view, id, pos) ==
    IF id \in DOMAIN view THEN [view EXCEPT ![id] = Append(@, pos)]
    ELSE Put(view, id, <<pos>>)

\* RemoveActor takes one actor away.
WithoutActor(view, id, i) ==
    IF Len(view[id]) = 1 THEN Drop(view, id)
    ELSE [view EXCEPT ![id] = RemoveAt(@, i)]

\* A client makes its own player from S_MyPlayer, and no second one.
TellAdded(id, pos) ==
    told' = [p \in DOMAIN told |->
        IF p \in Listeners \ {id} THEN WithActor(told[p], id, pos) ELSE told[p]]

\* The clients that know of an object; the others ignore what they hear of it.
Hearers(id) == {p \in Listeners : id \in DOMAIN told[p]}

\* At each client GetObject finds an actor with the id.  Which one, if there
\* are more, nobody can say: Scene::Render sorts the actors with std::sort.
Found(id) ==
    {actor \in [Hearers(id) -> UNION {DOMAIN told[p][id] : p \in Hearers(id)}] :
        \A p \in Hearers(id) : actor[p] \in DOMAIN told[p][id]}

TellRemoved(id) ==
    \E actor \in Found(id) :
        told' = [p \in DOMAIN told |->
            IF p \in Hearers(id) THEN WithoutActor(told[p], id, actor[p])
            ELSE told[p]]

TellMoved(id, pos) ==
    \E actor \in Found(id) :
        told' = [p \in DOMAIN told |->
            IF p \in Hearers(id) THEN [told[p] EXCEPT ![id][actor[p]] = pos]
            ELSE told[p]]

-----------------------------------------------------------------------------
(* EnterRoom, LeaveRoom, AddObject, RemoveObject *)

NewPlayer ==
    [type |-> "player", pos |-> SpawnCell, hp |-> MaxHp, dirty |-> FALSE]
NewMonster(cell) ==
    [type |-> "monster", pos |-> cell, hp |-> MaxHp, dirty |-> TRUE]

\* (mutant) A client that enters is not sent who is already there.
SnapshotOfNobody(id) == [k \in {id} |-> <<SpawnCell>>]

\* S_MyPlayer, and S_AddObject with everybody who is there now.
Snapshot(id) ==
    [k \in DOMAIN objects \cup {id} |->
        IF k = id THEN <<SpawnCell>> ELSE <<objects[k].pos>>]

\* A thread is about to tell everybody that id came or went.
Announcing(id, kind) == \E t \in Threads : call[t].at = kind /\ call[t].id = id

\* The client is told who is there before its player is.
EnterRoom(t, s) ==
    /\ CanBegin(t) /\ player[s] = 0 /\ nextId <= MaxId
    /\ Take(t, s, [at |-> "insert", id |-> nextId, info |-> NewPlayer])
    /\ player' = [player EXCEPT ![s] = nextId]
    /\ told' = Put(told, nextId, Snapshot(nextId))
    /\ nextId' = nextId + 1
    /\ crossed' = crossed \cup
          {<<nextId, id>> : id \in {k \in DOMAIN objects : Announcing(k, "tell added")}}
    /\ UNCHANGED <<objects, missed, raced, contested>>

\* AddObject: the object is in the room, and its info is copied.
Insert(t) ==
    /\ call[t].at = "insert"
    /\ objects' = Put(objects, call[t].id, call[t].info)
    /\ Go(t, [at |-> "tell added", id |-> call[t].id, pos |-> call[t].info.pos])
    /\ UNCHANGED <<told, nextId, player, history>>

\* AddObject: S_AddObject.
BroadcastAdded(t) ==
    /\ call[t].at = "tell added"
    /\ TellAdded(call[t].id, call[t].pos)
    /\ Unheard(call[t].id)
    /\ Return(t)
    /\ UNCHANGED <<objects, nextId, player, raced, crossed, contested>>

\* A session ends: Disconnect lets one thread through, be it the one that
\* reads the end of the stream or one whose send failed.
LeaveRoom(t, s) ==
    /\ CanBegin(t) /\ player[s] \in DOMAIN objects
    /\ \A u \in Threads : ~(call[u].at = "erase" /\ call[u].id = player[s])
    /\ Begin(t, [at |-> "erase", id |-> player[s], respawn |-> FALSE])
    /\ UNCHANGED <<room, serving, history>>

AfterRemoval(t, respawn) == IF respawn THEN Go(t, [at |-> "respawn"]) ELSE Return(t)

\* RemoveObject: an object somebody else has removed is not removed again,
\* but a killed monster is replaced even so.
Erase(t) ==
    /\ call[t].at = "erase"
    /\ LET id == call[t].id
       IN  \/ /\ id \in DOMAIN objects
              /\ objects' = Drop(objects, id)
              /\ told' = Drop(told, id)
              /\ raced' = raced \cup {i \in {id} : Carriers(i) # {}}
              /\ Go(t, [at |-> "tell removed", id |-> id, respawn |-> call[t].respawn])
           \/ /\ id \notin DOMAIN objects
              /\ AfterRemoval(t, call[t].respawn)
              /\ UNCHANGED <<objects, told, raced>>
    /\ UNCHANGED <<nextId, player, missed, crossed, contested>>

\* (mutant) The handler ends with the removal.
BroadcastRemovedOnly(t) ==
    /\ call[t].at = "tell removed"
    /\ TellRemoved(call[t].id)
    /\ Unheard(call[t].id)
    /\ Return(t)
    /\ UNCHANGED <<objects, nextId, player, raced, crossed, contested>>

\* RemoveObject: S_RemoveObject.
BroadcastRemoved(t) ==
    /\ call[t].at = "tell removed"
    /\ TellRemoved(call[t].id)
    /\ Unheard(call[t].id)
    /\ AfterRemoval(t, call[t].respawn)
    /\ UNCHANGED <<objects, nextId, player, raced, crossed, contested>>

-----------------------------------------------------------------------------
(* Handle_C_Move, and what SetCellPos does *)

Marked(id, marks) == [objects EXCEPT ![id].dirty = @ \/ marks]

\* A stop request changes the state, or else nothing at all.
Stop(t, s) ==
    /\ CanBegin(t) /\ player[s] \in DOMAIN objects
    /\ Take(t, s, Idle)
    /\ objects' = Marked(player[s], TRUE)
    /\ UNCHANGED <<told, nextId, player, history>>

\* A move that is rejected changes the state or direction, or nothing.
Reject(t, s, dir) ==
    /\ CanBegin(t) /\ player[s] \in DOMAIN objects
    /\ ~CanGo(objects, Ahead(objects[player[s]].pos, dir))
    /\ Take(t, s, Idle)
    /\ objects' = Marked(player[s], TRUE)
    /\ UNCHANGED <<told, nextId, player, history>>

\* A move to a cell that is free now.  The state and direction are set first.
Move(t, s, dir) ==
    /\ CanBegin(t) /\ player[s] \in DOMAIN objects
    /\ LET cell == Ahead(objects[player[s]].pos, dir)
       IN  /\ CanGo(objects, cell)
           /\ Grant(cell)
           /\ Take(t, s, [at |-> "place", id |-> player[s], cell |-> cell,
                          aloud |-> FALSE])
    /\ \E marks \in BOOLEAN : objects' = Marked(player[s], marks)
    /\ UNCHANGED <<told, nextId, player, missed, raced, crossed>>

\* BroadcastMove copies the info into S_Move.  Only the thread that writes the
\* monster's place broadcasts it; it may have a target to attack afterwards.
MoveMessage(id, target) ==
    [at |-> "tell moved", id |-> id, pos |-> objects[id].pos, target |-> target]

AfterPlace(t, id, aloud) ==
    IF aloud /\ id \in DOMAIN objects THEN Go(t, MoveMessage(id, 0)) ELSE Return(t)

\* (mutant) The object is not marked.
PlaceOnly(t) ==
    /\ call[t].at = "place"
    /\ LET id == call[t].id
           cell == call[t].cell
       IN  IF id \in DOMAIN objects /\ objects[id].pos # cell
           THEN /\ objects' = [objects EXCEPT ![id].pos = cell]
                /\ raced' = raced \cup {i \in {id} : Carriers(i) # {}}
                /\ AfterPlace(t, id, call[t].aloud)
           ELSE AfterPlace(t, id, call[t].aloud) /\ UNCHANGED <<objects, raced>>
    /\ UNCHANGED <<told, nextId, player, missed, crossed, contested>>

\* SetCellPos writes the place, if it is another one, of an object that may
\* have left the room (then nobody sees it).
Place(t) ==
    /\ call[t].at = "place"
    /\ LET id == call[t].id
           cell == call[t].cell
       IN  IF id \in DOMAIN objects /\ objects[id].pos # cell
           THEN /\ objects' = [objects EXCEPT ![id].pos = cell]
                /\ raced' = raced \cup {i \in {id} : Carriers(i) # {}}
                /\ Go(t, [at |-> "mark", id |-> id, aloud |-> call[t].aloud])
           ELSE AfterPlace(t, id, call[t].aloud) /\ UNCHANGED <<objects, raced>>
    /\ UNCHANGED <<told, nextId, player, missed, crossed, contested>>

\* SetCellPos marks the object for BroadcastGameState.
Mark(t) ==
    /\ call[t].at = "mark"
    /\ objects' = IF call[t].id \in DOMAIN objects
                  THEN Marked(call[t].id, TRUE) ELSE objects
    /\ AfterPlace(t, call[t].id, call[t].aloud)
    /\ UNCHANGED <<told, nextId, player, history>>

BroadcastMove(t) ==
    /\ call[t].at = "tell moved"
    /\ TellMoved(call[t].id, call[t].pos)
    /\ Unheard(call[t].id)
    /\ IF call[t].target = 0 THEN Return(t)
       ELSE Go(t, [at |-> "attack", id |-> call[t].id, target |-> call[t].target])
    /\ UNCHANGED <<objects, nextId, player, raced, crossed, contested>>

-----------------------------------------------------------------------------
(* Handle_C_Attack.  S_Attack and S_Die say nothing of places and of who is *)
(* there; the hp at the clients is not modelled.                            *)

InReach(attacker, target) ==
    /\ {attacker, target} \subseteq DOMAIN objects
    /\ Distance(objects[attacker].pos, objects[target].pos) <= 1

\* What is known of the target when its distance and hp have been read; the
\* hp is written later.
Blow(id) ==
    [at |-> "wound", id |-> id, type |-> objects[id].type,
     hp |-> AtLeast(0, objects[id].hp - Damage)]

Attack(t, s, target) ==
    /\ CanBegin(t) /\ target # player[s] /\ InReach(player[s], target)
    /\ Take(t, s, Blow(target))
    /\ UNCHANGED <<room, history>>

\* The monster's attack, by which time either may be gone.
AttackOfMonster(t) ==
    /\ call[t].at = "attack"
    /\ IF InReach(call[t].id, call[t].target)
       THEN Go(t, Blow(call[t].target)) ELSE Return(t)
    /\ UNCHANGED <<room, history>>

\* What is left to do for a target with that hp, be it still there or not.
AfterWound(t, hp) ==
    \/ hp > 0 /\ Return(t)
    \/ /\ hp <= 0 /\ call[t].type = "monster"
       /\ Go(t, [at |-> "erase", id |-> call[t].id, respawn |-> TRUE])
    \/ /\ hp <= 0 /\ call[t].type = "player"
       /\ Go(t, [at |-> "revive", id |-> call[t].id])

WriteHp(id, hp) ==
    objects' = IF id \in DOMAIN objects
               THEN [objects EXCEPT ![id].hp = hp] ELSE objects

\* (mutant) Whether the target dies is decided by the hp before the blow.
WoundThenTest(t) ==
    /\ call[t].at = "wound"
    /\ WriteHp(call[t].id, call[t].hp)
    /\ AfterWound(t, call[t].hp + Damage)
    /\ UNCHANGED <<told, nextId, player, history>>

\* The hp is written, and decides whether this thread handles a death.
Wound(t) ==
    /\ call[t].at = "wound"
    /\ WriteHp(call[t].id, call[t].hp)
    /\ AfterWound(t, call[t].hp)
    /\ UNCHANGED <<told, nextId, player, history>>

\* A dead player gets its hp back and goes to the place where players start.
Revive(t) ==
    /\ call[t].at = "revive"
    /\ WriteHp(call[t].id, MaxHp)
    /\ Go(t, [at |-> "place", id |-> call[t].id, cell |-> SpawnCell,
              aloud |-> FALSE])
    /\ UNCHANGED <<told, nextId, player, history>>

\* A dead monster is replaced by a new one in a cell that is free now.
Respawn(t) ==
    /\ call[t].at = "respawn" /\ nextId <= MaxId
    /\ nextId' = nextId + 1
    /\ \E cell \in RandomEmptyCells(objects) :
          /\ Grant(cell)
          /\ Go(t, [at |-> "insert", id |-> nextId, info |-> NewMonster(cell)])
    /\ UNCHANGED <<objects, told, player, missed, raced, crossed>>

-----------------------------------------------------------------------------
(* GameRoom::Update on the main thread: the monsters act, one after the     *)
(* other, if their time has come, and then what is marked is broadcast.     *)

Hunts(m, p) ==
    /\ CanBegin(Main) /\ {m, p} \subseteq DOMAIN objects
    /\ objects[m].type = "monster" /\ objects[p].type = "player"

\* Turn to an adjacent player, aloud, then attack.
MonsterTurns(m, target) ==
    /\ Hunts(m, target)
    /\ Distance(objects[m].pos, objects[target].pos) = 1
    /\ objects' = Marked(m, TRUE)
    /\ Begin(Main, MoveMessage(m, target))
    /\ UNCHANGED <<serving, told, nextId, player, history>>

\* Towards a player who is not adjacent: to a free neighbour, aloud.  (That
\* the state is set to MOVE after this adds nothing to the mark.)
MonsterSteps(m, target, dir) ==
    /\ Hunts(m, target)
    /\ Distance(objects[m].pos, objects[target].pos) # 1
    /\ LET cell == Ahead(objects[m].pos, dir)
       IN  /\ CanGo(objects, cell)
           /\ Grant(cell)
           /\ Begin(Main, [at |-> "place", id |-> m, cell |-> cell, aloud |-> TRUE])
    /\ \E marks \in BOOLEAN : objects' = Marked(m, marks)
    /\ UNCHANGED <<serving, told, nextId, player, missed, raced, crossed>>

\* No step is found: the place is sent as it is.
MonsterStays(m, target) ==
    /\ Hunts(m, target)
    /\ Distance(objects[m].pos, objects[target].pos) # 1
    /\ Begin(Main, MoveMessage(m, 0))
    /\ UNCHANGED <<serving, room, history>>

\* A step or an attack is over: the monster is idle again, and is marked.
MonsterRests(m) ==
    /\ CanBegin(Main) /\ m \in OfType(objects, "monster")
    /\ objects' = Marked(m, TRUE)
    /\ Begin(Main, Idle)
    /\ UNCHANGED <<serving, told, nextId, player, history>>

\* BroadcastGameState, over the objects that are there when it begins.
BroadcastGameState ==
    /\ Begin(Main, [at |-> "survey", left |-> DOMAIN objects])
    /\ UNCHANGED <<serving, room, history>>

MarkedAmong(ids) == {id \in ids \cap DOMAIN objects : objects[id].dirty}

\* The next one that is marked is copied into an S_Move.  If nobody carries
\* an older copy, what the clients are told now makes good what went wrong.
Survey(t) ==
    /\ call[t].at = "survey"
    /\ LET marked == MarkedAmong(call[t].left)
       IN  \/ /\ marked = {}
              /\ Return(t)
              /\ UNCHANGED raced
           \/ \E id \in marked :
                /\ Go(t, [at |-> "tell state", id |-> id, pos |-> objects[id].pos,
                          left |-> call[t].left \ {id}])
                /\ raced' = raced \ {i \in {id} : Carriers(i) = {}}
    /\ UNCHANGED <<room, missed, crossed, contested>>

BroadcastState(t) ==
    /\ call[t].at = "tell state"
    /\ TellMoved(call[t].id, call[t].pos)
    /\ Unheard(call[t].id)
    /\ Go(t, [at |-> "unmark", id |-> call[t].id, left |-> call[t].left])
    /\ UNCHANGED <<objects, nextId, player, raced, crossed, contested>>

\* The mark is taken off, whatever has happened to the object since.
Unmark(t) ==
    /\ call[t].at = "unmark"
    /\ objects' = IF call[t].id \in DOMAIN objects
                  THEN [objects EXCEPT ![call[t].id].dirty = FALSE] ELSE objects
    /\ Go(t, [at |-> "survey", left |-> call[t].left])
    /\ UNCHANGED <<told, nextId, player, history>>

-----------------------------------------------------------------------------

Init ==
    /\ objects = [id \in {1} |-> NewMonster(MonsterCell)]
    /\ told = [p \in {} |-> {}]
    /\ nextId = 2
    /\ player = [s \in Sessions |-> 0]
    /\ call = [t \in Threads |-> Idle]
    /\ serving = [t \in Threads |-> Nobody]
    /\ begun = 0
    /\ missed = {} /\ raced = {} /\ crossed = {} /\ contested = {}

Next ==
    \/ \E t \in Workers, s \in Sessions :
          \/ EnterRoom(t, s)
          \/ LeaveRoom(t, s)
          \/ Stop(t, s)
          \/ \E dir \in InputDirs : Reject(t, s, dir) \/ Move(t, s, dir)
          \/ \E target \in Ids : Attack(t, s, target)
    \/ \E m, p \in Ids :
          \/ MonsterTurns(m, p)
          \/ MonsterStays(m, p)
          \/ \E dir \in Dirs : MonsterSteps(m, p, dir)
    \/ \E m \in Ids : MonsterRests(m)
    \/ BroadcastGameState
    \/ \E t \in Threads :
          \/ Insert(t) \/ BroadcastAdded(t) \/ Erase(t) \/ BroadcastRemoved(t)
          \/ Place(t) \/ Mark(t) \/ BroadcastMove(t)
          \/ AttackOfMonster(t) \/ Wound(t) \/ Revive(t) \/ Respawn(t)
          \/ Survey(t) \/ BroadcastState(t) \/ Unmark(t)

Spec == Init /\ [][Next]_vars

-----------------------------------------------------------------------------

Info == [type : Types, pos : Cells, hp : 0..MaxHp, dirty : BOOLEAN]

Calls ==
    [at : {"idle", "respawn"}]
      \cup [at : {"insert"}, id : Ids, info : Info]
      \cup [at : {"tell added"}, id : Ids, pos : Cells]
      \cup [at : {"erase", "tell removed"}, id : Ids, respawn : BOOLEAN]
      \cup [at : {"place"}, id : Ids, cell : Cells, aloud : BOOLEAN]
      \cup [at : {"mark"}, id : Ids, aloud : BOOLEAN]
      \cup [at : {"tell moved"}, id : Ids, pos : Cells, target : {0} \cup Ids]
      \cup [at : {"attack"}, id : Ids, target : Ids]
      \cup [at : {"wound"}, id : Ids, type : Types, hp : 0..MaxHp]
      \cup [at : {"revive"}, id : Ids]
      \cup [at : {"survey"}, left : SUBSET Ids]
      \cup [at : {"tell state"}, id : Ids, pos : Cells, left : SUBSET Ids]
      \cup [at : {"unmark"}, id : Ids, left : SUBSET Ids]

\* The ids are those that were generated; every thread is somewhere in the
\* code, with the local variables that belong there.
TypeOK ==
    /\ nextId \in 2..MaxId + 1
    /\ DOMAIN objects \subseteq 1..nextId - 1
    /\ objects \in [DOMAIN objects -> Info]
    /\ DOMAIN told \subseteq 1..nextId - 1
    /\ \A p \in DOMAIN told : /\ DOMAIN told[p] \subseteq 1..nextId - 1
                              /\ told[p] \in [DOMAIN told[p] -> Places]
    /\ player \in [Sessions -> 0..nextId - 1]
    /\ call \in [Threads -> Calls]
    /\ serving \in [Threads -> Sessions \cup {Nobody}]
    /\ missed \subseteq Ids \X Ids /\ crossed \subseteq Ids \X Ids
    /\ raced \subseteq Ids /\ contested \subseteq Cells

\* A client knows who is in the room, or is about to be told, unless the
\* message went out while its player was entering (between the snapshot it
\* was sent and the insertion into _players).  It shows somebody who is gone
\* in the same case only, or if the addition was announced after the removal,
\* or if it was sent the object twice, in the snapshot and in S_AddObject, for
\* which alone it has two actors and removes one.
KnowsWhoIsThere ==
    \A p \in Listeners :
        /\ \A id \in DOMAIN objects \ DOMAIN told[p] :
              <<p, id>> \in missed \/ Announcing(id, "tell added")
        /\ \A id \in DOMAIN told[p] \ DOMAIN objects :
              \/ <<p, id>> \in missed \cup crossed \/ id \in raced
              \/ Announcing(id, "tell removed")
        /\ \A id \in DOMAIN told[p] :
              Len(told[p][id]) > 1 => <<p, id>> \in crossed

\* When an object is not marked, nor about to be, each actor a client has for
\* it stands where it does, unless the place changed between the copy of the
\* info and the end of its broadcast (BroadcastGameState then takes off the
\* mark of the change), the client was entering, or it has a second actor of
\* which S_Move moves one.
FreshUnlessRaced ==
    \A p \in Listeners : \A id \in DOMAIN told[p] \cap DOMAIN objects :
        \A i \in DOMAIN told[p][id] :
            \/ told[p][id][i] = objects[id].pos
            \/ objects[id].dirty \/ Announcing(id, "mark")
            \/ id \in raced \/ <<p, id>> \in missed \cup crossed

\* Two objects stand in one cell only where objects are put without a look,
\* or if two threads found the cell free before the first one took it.
SharedCellsContested ==
    \A a, b \in DOMAIN objects :
        a # b /\ objects[a].pos = objects[b].pos =>
            objects[a].pos \in contested \cup Unchecked

\* However many threads kill the monster at once, the room has one, or a
\* thread is bringing one.
MonsterRemains ==
    \/ OfType(objects, "monster") # {}
    \/ \E t \in Threads :
          \/ call[t].at = "tell removed" /\ call[t].respawn
          \/ call[t].at = "respawn"
          \/ call[t].at = "insert" /\ call[t].info.type = "monster"

\* Whatever hp other threads write late: who has none left is about to be
\* removed or revived by some thread.
DeathIsHandled ==
    \A id \in DOMAIN objects :
        objects[id].hp = 0 =>
            \E t \in Threads :
                /\ call[t].at \in {"erase", "revive"} /\ call[t].id = id
                /\ call[t].at = "erase" => call[t].respawn
=============================================================================
