# StudyServer in TLA+

StudyServer is a multi-player game server for Windows in C++ (I/O completion
ports, protobuf messages) with the client that plays on it. These modules model
the server's networking core and its game room, and what the clients make of
what the room tells them. TLC checks them on small instances and TLAPS proves
the most important properties for every value of the constants.

Paths below are relative to `src/StudyServer/Server/` unless they start with `src/`.

## 1. The system

### Components, their state and operations

| Component | State | Operations | Where |
|---|---|---|---|
| Session, sending half | `_sendQueue`, `_sendRegistered`, the one `_sendEvent` (OVERLAPPED, owner, buffers), `_connected` | `Send`, `RegisterSend`, `ProcessSend`, `HandleError`, `Disconnect` | `ServerCore/Session.cpp` |
| Session, receiving half | `RecvBuffer` (`_readPos`, `_writePos`, bytes), the one `_recvEvent` | `RegisterRecv`, `ProcessRecv`, `PacketSession::OnRecv`, `RecvBuffer::Clean/OnRead/OnWrite` | `ServerCore/Session.cpp`, `RecvBuffer.cpp` |
| Listener, Service, GameSessionManager | accept events, `_sessions`, `_sessionCount`, `GSessionManager._sessions` | `RegisterAccept`, `ProcessAccept`, `AddSession`, `ReleaseSession`, `ProcessConnect`, `OnConnected`, `OnDisconnected` | `ServerCore/Listener.cpp`, `Service.cpp`, `Server/GameSession*.cpp` |
| IocpCore | `_stopFlag`, the worker threads, the completion port | `StartWorkerThreads`, `StopWorkerThreads`, `WorkerThreadMain`, `Dispatch` | `ServerCore/IocpCore.cpp` |
| GameRoom, GameObject, Monster | `_players`, `_monsters`, each object's `info` and `_dirtyFlag`, `s_idGenerator` | `EnterRoom`, `LeaveRoom`, `Handle_C_Move`, `Handle_C_Attack`, `Update`, `BroadcastGameState`, `FindPath` | `Server/GameRoom.cpp`, `GameObject.cpp`, `Monster.cpp` |
| ServerPacketHandler | none | `HandlePacket`, `Handle_C_Move`, `Handle_C_Attack`, `Make_S_*` | `Server/ServerPacketHandler.*` |
| Client, view of the room | the actors of `DevScene` with their `info` | `Handle_S_MyPlayer`, `S_AddObject`, `S_RemoveObject`, `S_Move`, `S_Attack`, `S_Die` | `Client/GameCoding/ClientPacketHandler.cpp`, `DevScene.cpp` |
| Client, prediction | its own player's cell ahead of the server, `_visualPosition` | `TryMove`, `TryStop`, `TryAttack`, `StartMove`, `UpdateInterpolation`, `Player::TickSkill` | `Client/GameCoding/MyPlayer.cpp`, `GameObject.cpp`, `Player.cpp` |
| Red-black tree | a tree | insert, delete, balance | `src/RedBlackTree/` |

`Libraries/`, `Common/protoc*` and every `*.pb.*` file are vendored or
generated; rendering, input, sound, UI and resources of the client are
presentation; `DummyClient` generates load; `src/PS_STUDY` is a stub.

### How they interact

Four worker threads (`Server.cpp:40`) take completions off one port and run the
handler of the event's owner: `Session::ProcessRecv` parses packets and calls
the room through `ServerPacketHandler`; `Listener::ProcessAccept` connects a new
session and enters it into the room. The main thread runs `GameRoom::Update`
every 33 ms, in which the monster acts and changed objects are broadcast. So
every thread may change the room and may call `Send` on every session, and a
failing `Send` may disconnect a session, which removes its player from the room,
in the middle of whatever the thread was doing. A client applies the messages of
its one connection in order on its own main thread.

### What is hard

* One OVERLAPPED per direction and session is shared by all threads: who may
  touch it is decided by one flag, a queue and a lock, across a call that
  completes on another thread.
* The byte stream is cut into packets out of a buffer that is compacted with
  `memcpy`, in whatever pieces it arrives.
* What the clients know is told in increments: a snapshot, additions, removals,
  positions through dirty flags, hp through damages only.
* The room takes no lock, although handlers run on four workers and the main
  thread. Two mutexes for it exist and are never used (`GameRoom.h:55-71`).
* Disconnection can come out of any `Send`, also inside `OnConnected` and inside
  a broadcast.
* The client predicts its moves, and the server tells it only what has changed.

`PROJECT.json` lists these hazards one by one, each at its line.

## 2. Modules

| Module | What it is |
|---|---|
| `OrderedChannel` | the abstract specification of what `Send` promises: buffers leave in the order of acceptance, none twice, losses only at the old end |
| `SessionSend` | the send path of one session under any number of threads; implements `OrderedChannel` |
| `SessionSend_proofs` | its inductive invariant and the proofs of all its safety properties and of the refinement |
| `SessionRecv` | the receive path of one session: `RecvBuffer` and `PacketSession::OnRecv`; implements `PacketStream` |
| `PacketStream` | the abstract specification of what the receive path promises: the peer's packets one by one, whole, in order, each once, none held back |
| `SessionRecv_proofs` | proofs of all its properties, and that it implements `PacketStream` |
| `Tilemap` | the map and where one can stand on it; `GameRoom`, `GameRoomRace` and `FindPath` build on it |
| `GameRoom` | the room, its players and its monster, with what each client is told: one handler at a time |
| `GameRoom_proofs` | proofs of all its invariants and of how objects move |
| `GameRoomRace` | the same handlers run by several threads at once, step by step, as the code runs them |
| `GameRoomRace_proofs` | proofs of all its invariants, and that they would need no exceptions if the handlers excluded each other |
| `FindPath` | the search with which a monster follows a player, one iteration of its loops per step |
| `FindPath_proofs` | proofs that its path can be walked and ends as near as can be, and that the search makes progress |
| `SessionLifecycle` | sessions from their `AcceptEx` to their last reference, over the registries that hold them, by threads whose calls nest; implements `SessionLife` |
| `SessionLife` | the abstract specification of a session's life: created for an accept, connected and disconnected at most once, destroyed for good and never while connected |
| `SessionLifecycle_proofs` | proofs of all its invariants and of the refinement, of how ghosts come about, and that handlers end |
| `IocpWorkers` | the worker threads, the completion port, and how the threads are started and stopped |
| `ServerLoop` | composes the two: the handlers of `SessionLifecycle` are run by the workers of `IocpWorkers` |
| `ServerLoop_proofs` | proofs of the invariants of both, and that the composition implements `SessionLifecycle` |
| `GameObject` | what `Server/GameObject.cpp` does to one object's info, and the geometry of the map; `GameRoom` and `ClientPrediction` build on it |
| `ClientPrediction` | a client that moves ahead of the server, the server's answers, and the delay between them |
| `ClientPrediction_proofs` | proofs of all its properties that hold |
| `MCSessionSend`, `MCSessionRecv`, `MCGameRoom`, `MCGameRoomRace`, `MCFindPath`, `MCSessionLifecycle`, `MCServerLoop`, `MCClientPrediction` | instances for TLC |

The modules meet at the connection. `SessionSend` and `SessionRecv` show that
what one side sends arrives in order and in whole packets; `GameRoom` uses that
to apply a message when it is sent, `ClientPrediction` to have two sequences of
messages between the sides. `SessionLifecycle` takes the send path of
`SessionSend` in outline (one flag and one event per session) for many sessions.

Comments marked `(mutant)` in the modules introduce operators that stand for a
plausible bug in the code next to them; no specification uses them. They are
there to show that each property can fail (`PROJECT.json`, "mutants").

### SessionSend

The variables are the fields of `Session` and `_sendEvent` by name. `pc[t]` is
where thread `t` is in `Send`/`RegisterSend` or `ProcessSend`; one step is the
code between two accesses to what other threads touch, and a `WRITE_LOCK`
section is one step. `ops` is what the system holds: operations that are pending
and completions that wait in the port. `Transmit` and `Abort` are Winsock. A
buffer is its number in the order in which `Send` accepted it. `RegisterSend`
can fail in the call in two ways (`HandleError`): with a reset or aborted
connection, which disconnects, and with any other error, which is only logged.

`Disconnect` changes `_connected` only: what else it does is the life cycle's
business. A send path starts with a connected session, because nobody
has a reference to a session before `ProcessConnect` sets the flag.

### SessionRecv

A byte is its offset in the peer's stream, so `StreamIntact` can say that the
readable part of the buffer is exactly the next part of the stream. The size in
a header is drawn when the parse position reaches it (`frame`): the peer may
send packets of any size from the header's own to `MaxPacket`. `memcpy` on
overlapping areas is undefined, so `MoveToFront` leaves garbage there if the
areas overlap. A header that is not intact reads as any size.

The layout assumption says what the constants of the code have to satisfy:
`MaxPacket <= BufferSize` (65535 and 65536) and at least three buffers (10).

### GameRoom

`objects` is `_players` and `_monsters` together, `told[p]` what the client of
player `p` knows once it has handled everything it was sent: position, direction
and hp of each object. Messages reach a client in order (`SessionSend`), so the
handlers of the client are applied when the message is sent. One step is one
handler (`EnterRoom`, `LeaveRoom`, the two branches of `Handle_C_Move`,
`Handle_C_Attack`, `Update`): the room as the code is written, one handler at a
time. A handler that changes several objects is a chain of operators from room to
room, named like the functions of the code. What can go wrong when handlers run
at the same time is the subject of `GameRoomRace`.

Abstracted: `FindPath` (any first step to a free neighbour, no step, or the own
cell), time (the monster's waits and the choice of its target), names, world
coordinates and the stats that never change. `GetRandomEmptyCellPos` returns a
free cell or, after too many tries, the fallback even if it is occupied.

### GameRoomRace

`call[t]` is where thread `t` is in a handler, with its local variables (the
copy of an object's info it is about to send, the cell it has found free, the hp
it is about to write, what is left of a loop); `serving` is the session whose
packet a worker handles, because the next receive of a session is registered
only when the handler of the last one has returned. The steps of one handler
follow the code: `EnterRoom` sends the snapshot, `Insert` puts the player among
`_players` and copies its info, `BroadcastAdded` sends; `Move` finds the cell
free, `Place` writes the place and `Mark` marks it; `Attack` reads the hp and
`Wound` writes it; `Erase`, `BroadcastRemoved`, `Respawn` and `Insert` replace a
monster; `Survey`, `BroadcastState` and `Unmark` are `BroadcastGameState`.

A client is its actors: `told[p][id]` is the sequence of the places of those that
have the id. `Handle_S_AddObject` looks for none (`DevScene.cpp:325-360`; it only
skips the client's own id), so a client that is sent an object with the room and
again in `S_AddObject` has two; `S_Move` and `S_RemoveObject` then find one of them
(`GetObject`), and which one is left open, because `Scene::Render` sorts the actors
with `std::sort`, which need not keep equal ones in order.

`missed`, `raced`, `crossed` and `contested` are history: which client was entering
when a message went out, whose place changed between a copy of its info and the
end of the broadcast of the copy, which client was sent an object with the room
while its `S_AddObject` was still to come, which cells two threads found free at
once. The properties of `GameRoom` about views and cells fail here, and the
histories say in exactly which windows. Each of these exceptions is needed: without
it TLC finds a client that never hears of a player, a ghost, a place that is wrong
and will not be sent, two actors of which `S_RemoveObject` takes one away (a ghost
for good) and `S_Move` moves one, or two players in a cell.

Abstracted: the state and direction of an object, and the hp at the clients
(`GameRoom` has them); one operation on `_players` or `_monsters`, one
broadcast, and one write of a place are indivisible; the two messages a
monster's turn sends (`SetDir`, `SetState`) are one; `BroadcastGameState` sends
in any order the objects that were there when it began. That a broadcast may
erase from the map it iterates over (`GameRoom.cpp:370`) is undefined behaviour
that no model can continue from.

### FindPath

`pq`, `best`, `parent` and `dest` are the variables of the function, `at` is the
loop it is in, `path` is written from its end, which is what `std::reverse` makes
of it. The initial states are every source, every target and every set of free
cells. A node of equal cost may be taken in any order from the queue, so what
holds does not depend on the heap. The costs of the code are distances to the
target only, therefore the cost of a cell never changes and an entry is never
outdated (`GameRoom.cpp:435` is dead). The comment at the client's copy
(`DevScene.cpp:415`) speaks of G + H, which the code does not do: the path is a
way to the nearest reachable cell and not the shortest one.

### IocpWorkers and ServerLoop

`port` is the queue of completions, `loop[w]` where worker `w` is in
`WorkerThreadMain`, `taken[w]` the event it holds. `StopWorkerThreads` sets the
flag, posts a null for each thread and joins them. A worker that is busy when the
flag is set leaves at the test of the loop and its null stays in the port, where
it ends a worker of the next pool; `stale` counts them. The server never starts
a second pool; the class allows it.

`ServerLoop` joins `IocpWorkers` to `SessionLifecycle`: an operation that is
under way (`UnderWay`) completes and its event is queued; the worker that takes
the first event runs its handler, with all calls nested in it, before it looks at
the port again. `SessionLifecycle` alone lets any idle worker handle any
operation; here it is the queue that says which.

### SessionLifecycle

The sets `service`, `manager` and `room` are the three maps a session is
registered in; `connected` is the flag of each session; `offered`, `listening`,
`receiving`, `send` and `leaving` are its overlapped events. `stack[t]` are the
calls thread `t` is in, innermost first: `Send` may fail in any of them, in
which case `HandleError` calls `Disconnect`, whose `LeaveRoom` broadcasts, which
may fail in turn on another session. A step is the code between two accesses to
something other threads touch. `Update` stands for the main loop, which sends to
the sessions in the room.

A session lives as long as something refers to it (`Alive`): a registry, an
event that owns it, or a local variable of a call. Some calls hold no reference
of their own and rely on their caller (`Holding` lists those that do).

`Send` takes its steps where the code touches what others may change: the player
is found in the room (`SendNext`), the flag exchanged (`Send`), the connection
tested (`RegisterSend`), the event's owner set (`OwnSend`), and the system called
(`SubmitSend`). `send[s]` says how far the event is: `free`, `taken` (the flag is
set, nobody owns the event), `held` (it has its owner), `sending` (under way) or
`stuck` (the flag stays set for good). A `WSASend` that fails goes on with
`HandleError`, `Forget` (the owner) and `Clear` (the flag).

`KeptAlive` makes two exceptions, which the code has. `Broadcast` takes no
reference to the session it finds (`GameRoom.cpp:370-373`), and `Send` none before
`Session.cpp:166`: until then another worker may disconnect the session, take its
player out of the room and let go of it for the last time. And `RegisterSend`
resets the event's owner and then still clears the buffers and the flag
(`Session.cpp:203-205`); if every other reference has gone, the session is
destroyed in between. A thread that comes upon a destroyed session in either way
finds the memory as it was left, or is lost (`UseDestroyed`): what such a thread
does is undefined, so the model leaves it where it is and says of the properties
about progress that they hold unless a thread is lost.

Abstracted: what is sent, the queue (`SessionSend` has it), several players per
session, and the room's own behaviour. `WSASend`, `WSARecv`, `AcceptEx` and
`DisconnectEx` fail whenever they like.

### ClientPrediction

`objects` is what the server knows of the players, `scene` the actors of one
client's `DevScene`, `up` the requests and `down` the messages under way. The
client steps are `TryMove`, `TryStop`, `TryAttack` (the keys), `Handle_S_Move`,
`Handle_S_Attack` (messages) and `TickSkill` (an animation ends). The server
steps are the handler of the oldest request, a handler of any request of the
other players, and `BroadcastGameState`. Each step is the whole handler.

`hp` in `objects` counts the hits until the player dies, in `scene` the sword
swings until `Creature::OnDamaged` removes the actor: two counts that have
nothing to do with each other in the code either. Left out: interpolation
(which only draws), monsters and arrows, the hp a client displays (`GameRoom`
has it), and players who come and go.

## 3. Runs

| Run | Question | Bounds |
|---|---|---|
| `session_send` | Is there one user of the send event, is memory held, is the order kept, is everything sent? | 2 workers, main thread, 4 buffers: one batch in the system, one behind it, and two that race with the completion |
| `session_recv` | Is the stream intact, is there always room, is no packet held back? | header 2, packets 2..4, 3 buffers of 4, 20 bytes: the stream is longer than the capacity and the buffer is compacted at every possible fill |
| `game_room` | One monster, nobody dead, clients' views right, moves legal? | 2 sessions, corridor of 3 cells and a wall, hp 2, 4 ids: both can enter, kill, die, leave and one can return |
| `game_room_race` | What can handlers that run at the same time do to the room and to what the clients know? | 2 workers and the main thread, 2 sessions, corridor of 3 cells, hp 2, 5 ids, 6 handlers: two players and the monster, two deaths of the monster at once, a player who enters during both |
| `find_path` | Does the search end, in the right cell, with a way to it? | every map of 3 by 3 cells with every source and target, depth 3: walls that close the source in, detours, ties between ends, cells out of range |
| `shared_state` | Do all clients have the same hp for a player? (violated) | as `game_room` |
| `session_lifecycle` | Do the registries agree, is a session released once, is any used after its end, is an accept lost? | 2 workers and the main thread, 1 accept event, 2 sessions: the second is accepted while the first is used by the other threads, and each sends to the other; calls of two threads nest as deep as they can, three threads are in 5 calls at once (`FewCalls`; the proofs have no such bound): a broadcast in its `Send` on one thread, a disconnect on another and a completion on the third |
| `server_loop` | Do workers, port and sessions together destroy every session that disconnects? Does stopping the pool return, whatever the workers are doing, and what does it leave behind? | 2 workers and the main thread, 1 session, the pool started twice: a worker can leave by the flag, its null stay in the port and end a worker of the second pool; the events of one session overtake each other on two workers |
| `ghost_player` | Does the player of a session that disconnected leave the game? (violated) | as `session_lifecycle`, without the bound on calls |
| `prediction` | What can a client be wrong about once everything is delivered? | 2 players in a corridor of 3 cells and a wall, one of them ours; 2 requests and 2 messages under way; one hit kills, one swing removes: a prediction can come true, be rejected because the other got there first, and be overtaken by a respawn |
| `server_sync` | Does the client end up where the server has it? (violated) | as `prediction`, one message more |
| `vanishing` | Does the client show everybody who is in the room? (violated) | as `server_sync`, with two swings to remove |

Each property is stated in its module with the code behaviour it is about.
Besides the type invariant (those of `SessionRecv` and `GameRoomRace` are proved
and not part of a run, and so is `NeverOverflows`, which `ImplementsStream` covers):

* `ExclusiveSendEvent`, `BuffersHeld`, `NoEmptySubmit`: the protocol around the
  OVERLAPPED. `NothingStranded`: a connected session has waiting buffers and
  nobody to send them only after an error that `HandleError` merely logs
  (`Session.cpp:205` clears the flag without another look at the queue).
  `ImplementsChannel` is the refinement. `EventuallySent` is liveness.
* `StreamIntact`, `RoomForPacket`, `NoPacketHeldBack`, and `ImplementsStream`: the
  handlers are given the packets of `PacketStream`, and the session never
  disconnects its peer over its own bookkeeping.
* `OneMonster`, `AllAlive`, `ViewComplete`, `ViewFresh`, `MovesIntoFreeCells`, and
  `HpKnownWhileAlive`: what is left of `HpShared` (below), which fails only for a
  player whom a client has seen die.
* `KnowsWhoIsThere`, `FreshUnlessRaced`, `SharedCellsContested`: what is left of
  `ViewComplete`, `ViewFresh` and `MovesIntoFreeCells` when handlers interleave,
  with the windows in which they fail named; a client has two actors for one
  object only if the object crossed with its own entering. `MonsterRemains` and
  `DeathIsHandled` hold without exception: however blows overwrite each other,
  whoever has no hp left is about to be removed or revived by some thread, and
  the room never stays without a monster. (It may get a second one: two threads
  that both write 0 both replace it.)
* `PathWalks`, `EndsNearest` (compared with reachability defined without a
  search), and the liveness property `Terminates`.
* `ReleaseFindsSession` (the assertion in `Service.cpp:46`), `RegistriesAgree`,
  `AcceptsKept` (while an `AcceptEx` is under way nobody is about to register its
  event; when it is not, exactly one thread is, or there are no sessions left), and
  `KeptAlive` (no call is on a destroyed session but in the two windows named
  above). `NothingLeaks`: a session that somebody keeps and
  nobody works on is connected, waited for by an operation of the system, or a
  ghost of the room. `ImplementsLife` is the refinement of `SessionLife`, where a
  session's stage is told from who refers to it and whether it is connected.
* `EventuallyDestroyed`: the events' owners make reference cycles that every path
  of failure has to break. `CompletionsOfOperations`: an event that waits in the
  port or with a worker belongs to an operation that is still under way, so no
  OVERLAPPED is used again too early. `NullsAccounted`: a pool loses no worker
  but to a null of an earlier stop, and who waits while it stops finds one.
  `StopReturns` is liveness. `EventuallyDestroyed` and `StopReturns` speak of runs
  in which no thread is lost in a destroyed session (`SomebodyLost`).
* `OnlyRunsAhead`: when nothing is under way the client's own player is where
  the server has it, or some cells further in the direction the server has it
  look in, and nowhere else. `OthersAgree`: then every other actor is right.

### What does not hold

`LeavesGame` is the comment at `GameSession.cpp:21`. It is violated: a send that
fails inside `OnConnected` disconnects the session, `LeaveRoom` finds no player
yet, and the call then goes on and adds it. `EventuallyDestroyed` leaves these
ghosts out (besides a pool that nobody runs any more and a thread that is lost),
and no others. There is no other way to a ghost (the theorem `GhostsEnterLate`), and without it `LeavesGame`
would hold (`PlayersLeaveIfTheyEnterInTime`).

`ServerSync` is what `src/README.md:233` and
`src/StudyServer/FINAL_SMOOTH_RENDERING.md:128` say. It is violated: a rejected
move marks an object only through `SetDir` and `SetState`
(`GameRoom.cpp:193-194`), so a player that stands and already looks that way is
not sent again, and a client that has run ahead stays there. `OnlyRunsAhead` is
what remains true, and this is the only way to be wrong.

`NobodyVanishes` is the comment at `ClientPacketHandler.cpp:293`. It is violated:
`Player::TickSkill` hurts the client's own copy of whoever stands in front of an
actor, and the tenth swing removes it (`Creature.cpp:49-56`), whatever has become
of the player at the server.

`HpShared` is what `src/README.md:232` says: all players share the same game
state. It is violated: a player who dies gets its hp back without a message
(`GameRoom.cpp:299`); whoever watched it die keeps the hp it counted down, and
who joins later is told the full hp. `HpKnownWhileAlive` is what remains true: a
client whose count is above nothing has it right, and a monster's always.

What the interleavings break, and no comment or document promises, is in the
exceptions of `KnowsWhoIsThere`, `FreshUnlessRaced`, `SharedCellsContested` and
`KeptAlive`: a client may have two actors for one object, and a broadcasting thread
may be in `Send` of a session that is destroyed.

Deadlock is not checked in these runs: the bounds on buffers, bytes and ids end
the behaviours, and a connection may close.

Fairness (`SessionSend`): a thread inside a call goes on, the system completes
what it took, and some worker takes a completion off the port (the workers wait
for nothing else). Nothing makes anybody call `Send`, and nothing makes a
connection fail.

Fairness (`ServerLoop`): each worker goes on (WF): at its test, at the port if
there is something in it, in a handler. So does the main thread inside a call or
a stop. A thread that is lost has no step. The system completes the sends and disconnects it has taken, and
receives on sessions that have been disconnected; one on a connected session may
stay under way for ever. Nothing makes anybody start or stop the pool or update
the room. That a completion is served although the workers may be busy again and
again is not assumed: it follows from the port being a queue.

Fairness (`FindPath`): the one thread that searches goes on.

The other modules state no liveness.

## 4. Proofs

All theorems hold for every value of the constants that satisfies the named
assumptions of the modules. Each proof module has an inductive invariant
(`InductiveInvariant`) from which the properties follow.

* `SessionSend_proofs`. The invariant relates the flag to who holds the event: at
  most one thread is between taking the flag and giving it up, an operation
  excludes such a thread, and while either exists the flag is set; the buffers in
  the event, the wire and the queue continue each other's numbers. Without the
  latter the refinement is not inductive. `SendIsOrderedChannel` proves
  `Spec => Channel!Spec`. `SendComesToRest` is the safety half of `EventuallySent`:
  what the path has to do until it rests (`Work`: six steps for a waiting buffer,
  how far the owner of the event is from giving it up, and one for the connection
  that can be lost once) falls with every step but a call of `Send`.
* `SessionRecv_proofs`. The invariant is the conjunction of the properties with
  the bounds on what has been parsed; the point of the proof is that the areas of
  `memcpy` cannot overlap when `Clean` compacts, because less than a buffer is
  left and more than one has been read. `ReceivesPacketStream` proves that every
  step is a step of `PacketStream` or changes nothing there: a packet is handed
  over where the parse position passes its end, and a receive is registered only
  when no complete packet is left.
* `GameRoom_proofs`. The invariant is that the room is sound (types, views
  complete and fresh, hp known) and living (everybody alive, one
  monster), and that sessions' players are in the room and different. Since a
  handler is a chain of operators, each lemma says what one operator does to a
  sound room; only between `Hit` and the end of the handler is somebody dead.
  How objects move is shown the same way: each operator leaves every object that
  it keeps where it is (`Stay`), or has objects walk one free cell or start again
  (`Walks`). A handler is at most one walk among operators that stay
  (`StayThenWalk`, `WalkThenStay`).
* `GameRoomRace_proofs`. What the run finds for two workers in a corridor of three
  cells holds on any map for any number of threads. The invariant says of every
  thread what its local variables still mean: the id it will insert is nobody
  else's (`IdsOK`), the copy of a place it carries is right or the object is
  raced (`CopiesOK`), a client has two actors for an object, or knows it before it
  is announced, only if they crossed or it is its own (`DoublesOK`), the place it is about to declare delivered has been
  delivered (`SentOK`), the cell it is about to take is excused if it is taken or
  if another thread is about to take it (`SharedOK`). It speaks of the clients
  that are entering, too (`ViewsOK`), who hear nothing until they are in the room.
  Most steps move nobody and tell nobody anything: `Steady` says what they have
  in common, and each part of the invariant is shown once for all of them.
  `RaceNeedsThreads` says what the unused mutex would give: if one thread at a time
  is in the room (`Serial`), nothing is ever missed, raced, crossed or contested, and
  between two handlers the clients have exactly one actor for each object of the
  room, and no others. So the exceptions come
  from the interleaving alone and not from the order of steps in a handler.
* `FindPath_proofs`. The cells that are known form a tree with the source at its
  root, in which a cell was first seen later than its parent (`Tree`): so the walk
  back ends at the source and enters no cell twice. While the search goes on the
  target, once known, is the next cell to be taken (`Frontier`): that is why the 0
  that stands for "not known" in `best` cannot be confused with the target's own
  cost of 0, and why no cell is entered again. A known cell waits in the queue or
  has all its neighbours known, so that in the end exactly the reachable cells are.
  `FindPathProgresses` and `FindPathGoesOn` are the safety half of `Terminates`:
  each step passes on to a later loop or lowers a measure (two for a cell that is
  not known and one for an entry of the queue; the cells left to compare; the
  order in which the cells of the walk were reached), and until the search is done
  there is a step to take.
* `SessionLifecycle_proofs`. The invariant says of each call what it may count on
  while it lasts: that it is the only one at work on the send event, the receive
  event, or the registries of its session (`Sends`, `Receives`, `Leaves`), that
  nobody has heard of a session that is still connecting (`Births`, `Starts`),
  that a call of `Disconnect` was made by one that keeps the session alive
  (`Supports`), and which outermost call will register each accept event again
  (`Offers`). Calls are counted from the outermost, so that a call keeps its place
  while others come and go above it; what a step does to the stack is shown once
  (`OneCall`, `OneCallLess`, `OneCallMore`, ...), and steps of one kind share a
  lemma (`SteadyKeeps`, `ReturnKeeps`, `BeginKeeps`).
  `NothingIsLeaked` and the refinement `SessionsLiveOnce` need two invariants more:
  a call that has not been told whom to send to has nobody to send to (`Idle`), and
  an event that is owned without an operation is in the hands of a call that will
  submit it or give it up (`HeldInCalls`). `SessionsStayAlive` needs to know who
  called `Send` (`CalledFor`): a call that holds no reference was made in a
  broadcast, or by a call about the same session that holds one. A
  session's stages exclude each other (`StagesApart`), and each step leaves the
  stage of a session or makes a passage of `SessionLife` (`Passes`).
  `HandlersComeToEnd` is about the calls nested in one another: `Steps` bounds what
  a call may still cause: what is left to do from where it is (`StepsAt`, for a
  disconnect with what `OnDisconnected` does) and nine steps for each session that
  it has yet to send to; that a
  session is disconnected only once pays for the last (`StepsOfDisconnect`). So the
  sum over all calls falls with every step of one of them, although each step may
  add calls; `Accepting` finds the accept event for the call that needs one. Each
  call has a step to take unless its thread is lost.
* `ServerLoop_proofs`. The pool's invariant adds to the account of the nulls that
  an event is in one place only (`OnePlace`): so the handler of one event takes
  nothing away from another that waits. `LoopImplementsSessions` proves
  `LoopSpec => Spec`: the workers that take events from a queue do nothing that
  `SessionLifecycle` does not allow, and its theorems hold for them. In the other
  direction, that a call never ends an operation (`CallsEndNoOperation`) needs the
  invariant of `SessionLifecycle_proofs`. `LoopKeepsSessions` and
  `LoopHandlersComeToEnd` carry the results about sessions over, with the two windows
  of `KeptAlive`. `StopComesToEnd` is
  the safety half of `StopReturns`: while the main thread waits in a stop, every
  step of the pool lowers `StopWork` (the nulls to post, and for each worker the
  places it still has to pass), nothing raises it, and some worker has a step to
  take; the handlers that are run meanwhile end if no thread is lost.
* `ClientPrediction_proofs`. Two facts carry it. `LastWord`: the last message
  about a place that is under way is still true unless the place has been marked
  since. `Foreseen`: when no such message is due, either a request is under way
  that is certain to cause one (`Disturbs`), or the client's player is right or
  has run ahead. Without `Foreseen`, `OnlyRunsAhead` is not inductive: it says
  nothing while requests are under way. The geometry is two lemmas about rays.

Only model-checked: the liveness properties `EventuallySent`,
`EventuallyDestroyed`, `StopReturns` and `Terminates` (temporal reasoning under
fairness, and `ENABLED`, are beyond the installed provers). Of `EventuallySent`,
`StopReturns` and `Terminates` the measures that fall with every step are proved;
what TLC adds is that the fairness assumed makes the steps happen.
The theorems about measures count with finite sets, which is an assumption where
they need it (`MapAssumption`, `PoolAssumption`, `IsFiniteSet(Sessions)`).

## 5. What is left, and the plan

In this order:

1. `ClientPrediction` with a monster and with players who come and go.
2. The layout of packets (`MakeSendBuffer`, sizes in 16 bits), with the sizes of
   the messages as parameters.
3. `LLRB`: the tree of `src/RedBlackTree`, whose main file is unfinished.

## 6. Not modelled

* Vendored and generated code: protobuf (`Libraries/`, `Common/protoc*`,
  `*.pb.*`) is more than 99% of the lines of the repository. None of it is the
  program's own; the models use it only as "a message arrives as it was sent".
* Winsock beyond its completions; `SocketUtils`, `NetAddress` (thin wrappers).
* Presentation in the client: rendering, input, UI, resources, sound,
  interpolation.
* `DummyClient`, which generates load, and `IocpCore::Dispatch`, the loop of the
  single-threaded clients; `ThreadManager`, which the server only joins.
* `src/RedBlackTree` and `src/PS_STUDY`, exercises apart from the game.
* Undefined behaviour with no bounded outcome: iterating a `std::map` that
  another thread, or a nested call, changes.
