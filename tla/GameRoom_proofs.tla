-------------------------- MODULE GameRoom_proofs --------------------------
(***************************************************************************)
(* Proofs about the room, for any map, any number of sessions and any      *)
(* stats: its types, one monster, nobody dead, and what the clients know.  *)
(*                                                                         *)
(* The handlers are operators from room to room, so the argument is one    *)
(* about rooms: each operator of GameRoom keeps a room sound, and an       *)
(* action puts a sound room in the place of a sound room.                  *)
(***************************************************************************)
EXTENDS GameRoom, TLAPS

\* The form of a room; the clients of exactly its players know of exactly
\* its objects.
RoomType(r) ==
    /\ r = [objs |-> r.objs, told |-> r.told, next |-> r.next]
    /\ r.next \in 2..MaxId + 1
    /\ r.objs \in [DOMAIN r.objs -> Info]
    /\ DOMAIN r.objs \subseteq 1..r.next - 1
    /\ r.told \in [OfType(r.objs, "player") -> [DOMAIN r.objs -> Views]]

\* A place a client does not know is marked.
Fresh(r) ==
    \A p \in OfType(r.objs, "player") : \A id \in DOMAIN r.objs :
        ~r.objs[id].dirty => /\ r.told[p][id].pos = r.objs[id].pos
                             /\ r.told[p][id].dir = r.objs[id].dir

\* The clients know the hp of everybody who has not died under their eyes.
Agree(r) ==
    \A p \in OfType(r.objs, "player") : \A k \in DOMAIN r.objs :
        HpKnown(r.told[p][k], r.objs[k])

Sound(r) == RoomType(r) /\ Fresh(r) /\ Agree(r)

\* Nobody is dead.
Alive(r) == \A k \in DOMAIN r.objs : r.objs[k].hp > 0

Single(r) == \E m \in DOMAIN r.objs : OfType(r.objs, "monster") = {m}

\* What holds between two handlers.
Living(r) == Sound(r) /\ Alive(r) /\ Single(r)

\* The same objects, with the same hp.
SameCast(r, q) ==
    /\ DOMAIN q.objs = DOMAIN r.objs
    /\ q.next = r.next
    /\ \A k \in DOMAIN r.objs : /\ q.objs[k].type = r.objs[k].type
                                /\ q.objs[k].hp = r.objs[k].hp

\* Perhaps the hp of this one is not known.
Nearly(r, id) ==
    /\ RoomType(r) /\ Fresh(r)
    /\ \A p \in OfType(r.objs, "player") : \A k \in DOMAIN r.objs :
          k # id => HpKnown(r.told[p][k], r.objs[k])

\* For every client it has no hp left.
SeenDead(r, id) == \A p \in OfType(r.objs, "player") : r.told[p][id].hp <= 0

\* What the setters make of an object: a change of its place marks it.
Follows(old, new) ==
    /\ new \in Info
    /\ new.type = old.type /\ new.hp = old.hp
    /\ ~new.dirty => ~old.dirty /\ new.pos = old.pos /\ new.dir = old.dir

-----------------------------------------------------------------------------
(* Objects *)

LEMMA ExceptTyped ==
    ASSUME NEW S, NEW T, NEW f \in [S -> T], NEW x, NEW y \in T
    PROVE  [f EXCEPT ![x] = y] \in [S -> T]
  OBVIOUS

LEMMA FollowsTransitive ==
    ASSUME NEW a, NEW b, NEW c, Follows(a, b), Follows(b, c)
    PROVE  Follows(a, c)
  BY DEF Follows

LEMMA NewObjects ==
    /\ NewPlayer \in Info /\ NewPlayer.type = "player" /\ NewPlayer.hp > 0
    /\ \A c \in Cells : /\ NewMonster(c) \in Info
                        /\ NewMonster(c).type = "monster"
                        /\ NewMonster(c).hp > 0
  BY CellsAssumption, StatsAssumption
  DEF NewPlayer, NewMonster, Info, Types, Dirs, States

LEMMA FreeCells ==
    ASSUME NEW objs, NEW c, CanGo(objs, c)
    PROVE  c \in Cells
  BY DEF CanGo

LEMMA LookAtDir ==
    ASSUME NEW c, NEW d
    PROVE  GetLookAtDir(c, d) \in Dirs
  BY DEF GetLookAtDir, Dirs

LEMMA ViewOfInfo ==
    ASSUME NEW info \in Info
    PROVE  /\ View(info) \in Views
           /\ View(info).pos = info.pos /\ View(info).dir = info.dir
           /\ View(info).hp = info.hp
  BY StatsAssumption DEF View, Views, Info

LEMMA PlacedViews ==
    ASSUME NEW view \in Views, NEW info \in Info
    PROVE  /\ Placed(view, info) \in Views
           /\ Placed(view, info).pos = info.pos /\ Placed(view, info).dir = info.dir
           /\ Placed(view, info).hp = view.hp
  BY DEF Placed, Views, Info

-----------------------------------------------------------------------------
(* One object changes *)

\* An object keeps its type, and its hp unless it is a player whom everybody
\* has seen die; the place it is given is marked.
LEMMA ReplaceSound ==
    ASSUME NEW r, NEW id \in DOMAIN r.objs, Nearly(r, id), NEW info \in Info,
           info.type = r.objs[id].type,
           ~info.dirty => /\ ~r.objs[id].dirty
                          /\ info.pos = r.objs[id].pos /\ info.dir = r.objs[id].dir,
           \/ Sound(r) /\ info.hp = r.objs[id].hp
           \/ info.type = "player" /\ SeenDead(r, id)
    PROVE  LET q == Change(r, id, info)
           IN  /\ Sound(q) /\ q.next = r.next
               /\ q.objs = [r.objs EXCEPT ![id] = info]
<1> DEFINE q == Change(r, id, info)
<1>1. /\ q = [objs |-> [r.objs EXCEPT ![id] = info], told |-> r.told, next |-> r.next]
      /\ r.objs[id] \in Info
  BY DEF Change, Nearly, RoomType
<1>2. /\ q.objs \in [DOMAIN r.objs -> Info] /\ DOMAIN q.objs = DOMAIN r.objs
      /\ \A k \in DOMAIN r.objs : q.objs[k] = IF k = id THEN info ELSE r.objs[k]
  BY <1>1 DEF Nearly, RoomType
<1>3. \A type : OfType(q.objs, type) = OfType(r.objs, type)
  BY <1>2 DEF OfType
<1>4. RoomType(q)
  BY <1>1, <1>2, <1>3 DEF Nearly, RoomType
<1>5. Fresh(q)
  BY <1>1, <1>2, <1>3 DEF Nearly, Fresh
<1>6. Agree(q)
  <2> SUFFICES ASSUME NEW p \in OfType(q.objs, "player"), NEW k \in DOMAIN q.objs
               PROVE  HpKnown(q.told[p][k], q.objs[k])
    BY DEF Agree
  <2>1. p \in OfType(r.objs, "player") /\ k \in DOMAIN r.objs /\ q.told = r.told
    BY <1>1, <1>2, <1>3
  <2>2. CASE k # id
    BY <1>2, <2>1, <2>2 DEF Nearly
  <2>3. CASE k = id /\ Sound(r) /\ info.hp = r.objs[id].hp
    <3>1. HpKnown(r.told[p][id], r.objs[id])
      BY <2>1, <2>3 DEF Sound, Agree
    <3>2. QED
      BY <1>2, <2>1, <2>3, <3>1 DEF HpKnown
  <2>4. CASE k = id /\ info.type = "player" /\ SeenDead(r, id)
    BY <1>2, <2>1, <2>4 DEF HpKnown, SeenDead
  <2>5. QED
    BY <2>2, <2>3, <2>4
<1>7. QED
  BY <1>1, <1>4, <1>5, <1>6 DEF Sound

LEMMA ChangeSound ==
    ASSUME NEW r, Sound(r), NEW id \in DOMAIN r.objs, NEW info, Follows(r.objs[id], info)
    PROVE  LET q == Change(r, id, info)
           IN  /\ Sound(q) /\ SameCast(r, q)
               /\ q.objs = [r.objs EXCEPT ![id] = info]
<1> DEFINE q == Change(r, id, info)
<1>1. Nearly(r, id)
  BY DEF Sound, Nearly, Agree
<1>2. Sound(q) /\ q.next = r.next /\ q.objs = [r.objs EXCEPT ![id] = info]
  BY <1>1, ReplaceSound DEF Follows
<1>3. SameCast(r, q)
  BY <1>2 DEF SameCast, Follows
<1>4. QED
  BY <1>2, <1>3

\* To be told again what an object's place is does no harm.
LEMMA BroadcastMoveSound ==
    ASSUME NEW r, Sound(r), NEW id \in DOMAIN r.objs
    PROVE  LET q == BroadcastMove(r, id)
           IN  Sound(q) /\ SameCast(r, q) /\ q.objs = r.objs
<1> DEFINE q == BroadcastMove(r, id)
<1>1. q = [objs |-> r.objs, told |-> TellMoved(r.told, id, r.objs[id]), next |-> r.next]
  BY DEF BroadcastMove, Sound, RoomType
<1>2. r.objs[id] \in Info
  BY DEF Sound, RoomType
<1>3. \A p \in OfType(r.objs, "player") :
        /\ r.told[p] \in [DOMAIN r.objs -> Views]
        /\ q.told[p] = [r.told[p] EXCEPT ![id] = Placed(r.told[p][id], r.objs[id])]
  <2>1. /\ q.told = TellMoved(r.told, id, r.objs[id])
        /\ r.told \in [OfType(r.objs, "player") -> [DOMAIN r.objs -> Views]]
    BY <1>1 DEF Sound, RoomType
  <2>2. QED
    BY <2>1 DEF TellMoved
<1>4. DOMAIN q.told = OfType(r.objs, "player")
  BY <1>1 DEF TellMoved, Sound, RoomType
<1>5. \A p \in OfType(r.objs, "player") :
        /\ q.told[p] \in [DOMAIN r.objs -> Views]
        /\ \A k \in DOMAIN r.objs :
              /\ q.told[p][k].hp = r.told[p][k].hp
              /\ k # id => q.told[p][k] = r.told[p][k]
              /\ k = id => /\ q.told[p][k].pos = r.objs[k].pos
                           /\ q.told[p][k].dir = r.objs[k].dir
  <2> SUFFICES ASSUME NEW p \in OfType(r.objs, "player")
               PROVE  /\ q.told[p] \in [DOMAIN r.objs -> Views]
                      /\ \A k \in DOMAIN r.objs :
                            /\ q.told[p][k].hp = r.told[p][k].hp
                            /\ k # id => q.told[p][k] = r.told[p][k]
                            /\ k = id => /\ q.told[p][k].pos = r.objs[k].pos
                                         /\ q.told[p][k].dir = r.objs[k].dir
    OBVIOUS
  <2>1. r.told[p][id] \in Views
    BY <1>3
  <2>2. LET v == Placed(r.told[p][id], r.objs[id])
        IN  v \in Views /\ v.hp = r.told[p][id].hp
              /\ v.pos = r.objs[id].pos /\ v.dir = r.objs[id].dir
    BY <1>2, <2>1, PlacedViews
  <2>3. \A k \in DOMAIN r.objs :
          q.told[p][k] = IF k = id THEN Placed(r.told[p][id], r.objs[id]) ELSE r.told[p][k]
    BY <1>3
  <2>4. q.told[p] \in [DOMAIN r.objs -> Views]
    <3>1. /\ r.told[p] \in [DOMAIN r.objs -> Views]
          /\ q.told[p] = [r.told[p] EXCEPT ![id] = Placed(r.told[p][id], r.objs[id])]
      BY <1>3
    <3>2. Placed(r.told[p][id], r.objs[id]) \in Views
      BY <2>2
    <3>3. [r.told[p] EXCEPT ![id] = Placed(r.told[p][id], r.objs[id])]
             \in [DOMAIN r.objs -> Views]
      BY <3>1, <3>2, ExceptTyped
    <3>4. QED
      BY <3>1, <3>3, Zenon
  <2>5. QED
    BY <2>2, <2>3, <2>4
<1>6. q.told \in [OfType(r.objs, "player") -> [DOMAIN r.objs -> Views]]
  <2>1. q.told = [p \in OfType(r.objs, "player") |-> q.told[p]]
    BY <1>1 DEF TellMoved, Sound, RoomType
  <2>2. QED
    BY <1>5, <2>1
<1>7. RoomType(q)
  BY <1>1, <1>6 DEF Sound, RoomType
<1>8. Fresh(q) /\ Agree(q)
  BY <1>1, <1>5 DEF Sound, Fresh, Agree, OfType, HpKnown
<1>9. SameCast(r, q)
  BY <1>1 DEF SameCast
<1>10. QED
  BY <1>1, <1>7, <1>8, <1>9 DEF Sound

LEMMA SameCastTransitive ==
    ASSUME NEW a, NEW b, NEW c, SameCast(a, b), SameCast(b, c)
    PROVE  SameCast(a, c)
  BY DEF SameCast

LEMMA ChangeAloudSound ==
    ASSUME NEW r, Sound(r), NEW id \in DOMAIN r.objs, NEW info, Follows(r.objs[id], info)
    PROVE  LET q == ChangeAloud(r, id, info)
           IN  /\ Sound(q) /\ SameCast(r, q)
               /\ q.objs = [r.objs EXCEPT ![id] = info]
<1> DEFINE c == Change(r, id, info)
<1>1. Sound(c) /\ SameCast(r, c) /\ c.objs = [r.objs EXCEPT ![id] = info]
  BY ChangeSound
<1>2. id \in DOMAIN c.objs
  BY <1>1 DEF SameCast
<1> HIDE DEF c
<1>3. LET q == BroadcastMove(c, id)
      IN  Sound(q) /\ SameCast(c, q) /\ q.objs = c.objs
  BY <1>1, <1>2, BroadcastMoveSound
<1>4. ChangeAloud(r, id, info) = BroadcastMove(c, id)
  BY DEF ChangeAloud, c
<1>5. QED
  BY <1>1, <1>3, <1>4, SameCastTransitive

-----------------------------------------------------------------------------
(* Objects come and go *)

LEMMA RemoveObjectSound ==
    ASSUME NEW r, NEW id \in DOMAIN r.objs, Nearly(r, id)
    PROVE  LET q == RemoveObject(r, id)
           IN  /\ Sound(q) /\ q.next = r.next
               /\ DOMAIN q.objs = DOMAIN r.objs \ {id}
               /\ \A k \in DOMAIN q.objs : q.objs[k] = r.objs[k]
<1> DEFINE q == RemoveObject(r, id)
           old == r.objs
           new == Drop(old, id)
           rest == DOMAIN old \ {id}
           listeners == OfType(old, "player")
<1>1. q = [objs |-> new, told |-> TellRemoved(Drop(r.told, id), id), next |-> r.next]
  BY DEF RemoveObject, Nearly, RoomType
<1>2. new \in [rest -> Info] /\ DOMAIN new = rest /\ \A k \in rest : new[k] = old[k]
  <2>1. old \in [DOMAIN old -> Info]
    BY DEF Nearly, RoomType
  <2>2. QED
    BY <2>1 DEF Drop
<1> HIDE DEF new
<1>3. \A type : OfType(new, type) = OfType(old, type) \ {id}
  BY <1>2 DEF OfType
<1>4. /\ q.told \in [listeners \ {id} -> [rest -> Views]]
      /\ \A p \in listeners \ {id} : \A k \in rest : q.told[p][k] = r.told[p][k]
  <2>1. r.told \in [listeners -> [DOMAIN old -> Views]]
    BY DEF Nearly, RoomType
  <2>2. /\ Drop(r.told, id) \in [listeners \ {id} -> [DOMAIN old -> Views]]
        /\ \A p \in listeners \ {id} : Drop(r.told, id)[p] = r.told[p]
    BY <2>1 DEF Drop
  <2>3. \A p \in listeners \ {id} :
          /\ Drop(r.told[p], id) \in [rest -> Views]
          /\ \A k \in rest : Drop(r.told[p], id)[k] = r.told[p][k]
    BY <2>1 DEF Drop
  <2>4. q.told = [p \in listeners \ {id} |-> Drop(r.told[p], id)]
    <3>1. q.told = TellRemoved(Drop(r.told, id), id)
      BY <1>1
    <3>2. QED
      BY <2>2, <3>1 DEF TellRemoved
  <2>5. QED
    BY <2>3, <2>4
<1>5. RoomType(q)
  <2>1. /\ q = [objs |-> q.objs, told |-> q.told, next |-> q.next]
        /\ q.objs = new /\ q.next = r.next
    BY <1>1
  <2>2. rest \subseteq 1..r.next - 1
    BY DEF Nearly, RoomType
  <2>3. QED
    BY <1>2, <1>3, <1>4, <2>1, <2>2 DEF Nearly, RoomType
<1>6. Fresh(q)
  <2> SUFFICES ASSUME NEW p \in OfType(q.objs, "player"), NEW k \in DOMAIN q.objs,
                      ~q.objs[k].dirty
               PROVE  q.told[p][k].pos = q.objs[k].pos /\ q.told[p][k].dir = q.objs[k].dir
    BY DEF Fresh
  <2>1. p \in listeners \ {id} /\ k \in rest /\ q.objs[k] = old[k]
    BY <1>1, <1>2, <1>3
  <2>2. QED
    BY <1>4, <2>1 DEF Nearly, Fresh
<1>7. Agree(q)
  <2> SUFFICES ASSUME NEW p \in OfType(q.objs, "player"), NEW k \in DOMAIN q.objs
               PROVE  HpKnown(q.told[p][k], q.objs[k])
    BY DEF Agree
  <2>1. p \in listeners \ {id} /\ k \in rest /\ k # id /\ q.objs[k] = old[k]
    BY <1>1, <1>2, <1>3
  <2>2. QED
    BY <1>4, <2>1 DEF Nearly
<1>8. QED
  BY <1>1, <1>2, <1>5, <1>6, <1>7 DEF Sound

\* A new object, told to everybody with all it has.
LEMMA AddMonsterSound ==
    ASSUME NEW r, Sound(r), r.next <= MaxId, NEW c \in Cells
    PROVE  LET q == AddObject([r EXCEPT !.next = @ + 1], r.next, NewMonster(c))
           IN  /\ Sound(q) /\ r.next \notin DOMAIN r.objs
               /\ DOMAIN q.objs = DOMAIN r.objs \cup {r.next}
               /\ q.objs[r.next] = NewMonster(c)
               /\ \A k \in DOMAIN r.objs : q.objs[k] = r.objs[k]
<1> DEFINE id == r.next
           info == NewMonster(c)
           q == AddObject([r EXCEPT !.next = @ + 1], id, info)
           old == r.objs
           new == Put(old, id, info)
           listeners == OfType(old, "player")
<1>1. q = [objs |-> new, told |-> TellAdded(r.told, id, info), next |-> id + 1]
  <2> DEFINE s == [r EXCEPT !.next = @ + 1]
  <2>1. s = [objs |-> old, told |-> r.told, next |-> id + 1]
    BY DEF Sound, RoomType
  <2> HIDE DEF s, info, id
  <2>2. AddObject(s, id, info)
           = [objs |-> Put(s.objs, id, info), told |-> TellAdded(s.told, id, info),
              next |-> s.next]
    BY <2>1 DEF AddObject
  <2>3. QED
    BY <2>1, <2>2 DEF s
<1>2. /\ id \in 2..MaxId /\ id \notin DOMAIN old /\ DOMAIN old \subseteq 1..id - 1
      /\ MaxId \in Nat
  BY StatsAssumption DEF Sound, RoomType
<1>3. info \in Info /\ info.type = "monster"
  BY NewObjects
<1>4. /\ View(info) \in Views /\ View(info).hp = info.hp
      /\ View(info).pos = info.pos /\ View(info).dir = info.dir
  BY <1>3, ViewOfInfo
<1>5. /\ new \in [DOMAIN old \cup {id} -> Info] /\ DOMAIN new = DOMAIN old \cup {id}
      /\ new[id] = info /\ \A k \in DOMAIN old : new[k] = old[k]
  <2>1. old \in [DOMAIN old -> Info]
    BY DEF Sound, RoomType
  <2>2. QED
    BY <1>2, <1>3, <2>1 DEF Put
<1> HIDE DEF info, new
<1>6. /\ OfType(new, "player") = listeners
      /\ OfType(new, "monster") = OfType(old, "monster") \cup {id}
  BY <1>2, <1>3, <1>5 DEF OfType
<1>7. /\ q.told \in [listeners -> [DOMAIN old \cup {id} -> Views]]
      /\ \A p \in listeners : /\ q.told[p][id] = View(info)
                              /\ \A k \in DOMAIN old : q.told[p][k] = r.told[p][k]
  <2>1. r.told \in [listeners -> [DOMAIN old -> Views]]
    BY DEF Sound, RoomType
  <2>2. \A p \in listeners :
          /\ Put(r.told[p], id, View(info)) \in [DOMAIN old \cup {id} -> Views]
          /\ Put(r.told[p], id, View(info))[id] = View(info)
          /\ \A k \in DOMAIN old : Put(r.told[p], id, View(info))[k] = r.told[p][k]
    BY <1>2, <1>4, <2>1 DEF Put
  <2>3. q.told = [p \in listeners |-> Put(r.told[p], id, View(info))]
    <3>1. q.told = TellAdded(r.told, id, info)
      BY <1>1
    <3>2. QED
      BY <2>1, <3>1 DEF TellAdded
  <2>4. QED
    BY <2>2, <2>3
<1>8. RoomType(q)
  <2>1. DOMAIN new \subseteq 1..(id + 1) - 1 /\ id + 1 \in 2..MaxId + 1
    BY <1>2, <1>5
  <2>2. QED
    BY <1>1, <1>5, <1>6, <1>7, <2>1 DEF RoomType
<1>9. Fresh(q)
  <2> SUFFICES ASSUME NEW p \in OfType(q.objs, "player"), NEW k \in DOMAIN q.objs,
                      ~q.objs[k].dirty
               PROVE  q.told[p][k].pos = q.objs[k].pos /\ q.told[p][k].dir = q.objs[k].dir
    BY DEF Fresh
  <2>1. p \in listeners /\ (k = id \/ k \in DOMAIN old) /\ q.objs[k] = new[k]
    BY <1>1, <1>5, <1>6
  <2>2. CASE k = id
    BY <1>4, <1>5, <1>7, <2>1, <2>2
  <2>3. CASE k \in DOMAIN old
    BY <1>5, <1>7, <2>1, <2>3 DEF Sound, Fresh
  <2>4. QED
    BY <2>1, <2>2, <2>3
<1>10. Agree(q)
  <2> SUFFICES ASSUME NEW p \in OfType(q.objs, "player"), NEW k \in DOMAIN q.objs
               PROVE  HpKnown(q.told[p][k], q.objs[k])
    BY DEF Agree
  <2>1. p \in listeners /\ (k = id \/ k \in DOMAIN old) /\ q.objs[k] = new[k]
    BY <1>1, <1>5, <1>6
  <2>2. CASE k = id
    BY <1>4, <1>5, <1>7, <2>1, <2>2 DEF HpKnown
  <2>3. CASE k \in DOMAIN old
    <3>1. HpKnown(r.told[p][k], old[k])
      BY <2>1, <2>3 DEF Sound, Agree
    <3>2. QED
      BY <1>5, <1>7, <2>1, <2>3, <3>1 DEF HpKnown
  <2>4. QED
    BY <2>1, <2>2, <2>3
<1>11. QED
  <2>1. /\ q.objs = new /\ Sound(q)
    BY <1>1, <1>8, <1>9, <1>10 DEF Sound
  <2>2. QED
    BY <1>2, <1>5, <2>1 DEF info

\* What is marked is told, and the marks are taken off.
LEMMA BroadcastGameStateSound ==
    ASSUME NEW r, Sound(r)
    PROVE  LET q == BroadcastGameState(r) IN Sound(q) /\ SameCast(r, q)
<1> DEFINE q == BroadcastGameState(r)
           old == r.objs
           new == Unmarked(old)
           heard(p, k) == IF k \in DOMAIN old /\ old[k].dirty
                          THEN Placed(r.told[p][k], old[k])
                          ELSE r.told[p][k]
           listeners == OfType(old, "player")
<1>1. /\ old \in [DOMAIN old -> Info]
      /\ r.told \in [listeners -> [DOMAIN old -> Views]]
  BY DEF Sound, RoomType
<1>2. /\ q.objs = new /\ q.next = r.next
      /\ q.told = TellMarked(r.told, old)
      /\ q = [objs |-> q.objs, told |-> q.told, next |-> q.next]
  BY DEF BroadcastGameState
<1>3. q.told = [p \in listeners |-> [k \in DOMAIN old |-> heard(p, k)]]
  BY <1>1, <1>2 DEF TellMarked
<1>4. \A p \in listeners : \A k \in DOMAIN old :
        /\ heard(p, k) \in Views
        /\ heard(p, k).hp = r.told[p][k].hp
        /\ heard(p, k).pos = old[k].pos /\ heard(p, k).dir = old[k].dir
  <2> SUFFICES ASSUME NEW p \in listeners, NEW k \in DOMAIN old
               PROVE  /\ heard(p, k) \in Views
                      /\ heard(p, k).hp = r.told[p][k].hp
                      /\ heard(p, k).pos = old[k].pos /\ heard(p, k).dir = old[k].dir
    OBVIOUS
  <2>1. r.told[p][k] \in Views /\ old[k] \in Info
    BY <1>1
  <2>2. CASE old[k].dirty
    BY <2>1, <2>2, PlacedViews
  <2>3. CASE ~old[k].dirty
    BY <2>1, <2>3 DEF Sound, Fresh
  <2>4. QED
    BY <2>2, <2>3
<1>5. /\ new \in [DOMAIN old -> Info] /\ DOMAIN new = DOMAIN old
      /\ \A k \in DOMAIN old : /\ new[k].type = old[k].type /\ new[k].hp = old[k].hp
                               /\ new[k].pos = old[k].pos /\ new[k].dir = old[k].dir
  BY <1>1 DEF Info, Unmarked
<1> HIDE DEF new, heard
<1>6. \A type : OfType(new, type) = OfType(old, type)
  BY <1>5 DEF OfType
<1>7. \A p \in listeners : \A k \in DOMAIN old : q.told[p][k] = heard(p, k)
  BY <1>3
<1>8. q.told \in [listeners -> [DOMAIN old -> Views]]
  BY <1>3, <1>4
<1>9. q.objs = new /\ q.next = r.next
  BY <1>2
<1>10. RoomType(q)
  <2>1. q = [objs |-> q.objs, told |-> q.told, next |-> q.next]
    BY <1>2
  <2>2. QED
    BY <1>5, <1>6, <1>8, <1>9, <2>1 DEF Sound, RoomType
<1>11. Fresh(q)
  BY <1>4, <1>5, <1>6, <1>7, <1>9 DEF Fresh
<1>12. Agree(q)
  <2> SUFFICES ASSUME NEW p \in OfType(q.objs, "player"), NEW k \in DOMAIN q.objs
               PROVE  HpKnown(q.told[p][k], q.objs[k])
    BY DEF Agree
  <2>1. p \in listeners /\ k \in DOMAIN old
    BY <1>5, <1>6, <1>9
  <2>2. HpKnown(r.told[p][k], old[k])
    BY <2>1 DEF Sound, Agree
  <2>3. QED
    BY <1>4, <1>5, <1>7, <1>9, <2>1, <2>2 DEF HpKnown
<1>13. SameCast(r, q)
  BY <1>5, <1>9 DEF SameCast
<1>14. QED
  BY <1>10, <1>11, <1>12, <1>13 DEF Sound

-----------------------------------------------------------------------------
(* Attacks *)

LEMMA DamagePositive ==
    ASSUME NEW a \in Info, NEW t \in Info
    PROVE  Damage(a, t) \in Nat \ {0}
<1>1. Attack[a.type] \in Nat /\ Defence[t.type] \in Nat
  BY StatsAssumption DEF Info
<1>2. QED
  BY <1>1 DEF Damage, AtLeast

\* A hit: the clients' idea of the target's hp may go below 0, and then the
\* target's is the only one that is wrong, and for all of them.
LEMMA HitNearlySound ==
    ASSUME NEW r, Sound(r), NEW a \in DOMAIN r.objs, NEW t \in DOMAIN r.objs,
           NEW damage \in Nat
    PROVE  LET q == Hit(r, a, t, damage)
           IN  /\ Nearly(q, t) /\ (q.objs[t].hp > 0 => Sound(q))
               /\ ~(q.objs[t].hp > 0) => SeenDead(q, t)
               /\ q.next = r.next /\ DOMAIN q.objs = DOMAIN r.objs
               /\ q.objs[t].type = r.objs[t].type
               /\ \A k \in DOMAIN r.objs : k # t => q.objs[k] = r.objs[k]
<1> DEFINE q == Hit(r, a, t, damage)
           old == r.objs
           new == [old EXCEPT ![t].hp = AtLeast(0, @ - damage)]
           listeners == OfType(old, "player")
<1>1. q = [objs |-> new, told |-> TellAttack(r.told, a, t, damage), next |-> r.next]
  BY DEF Hit
<1>2. /\ old \in [DOMAIN old -> Info]
      /\ r.told \in [listeners -> [DOMAIN old -> Views]]
  BY DEF Sound, RoomType
<1>3. AtLeast(0, old[t].hp - damage) \in 0..MaxHp
  BY <1>2, StatsAssumption DEF AtLeast, Info
<1>4. /\ new \in [DOMAIN old -> Info] /\ DOMAIN new = DOMAIN old
      /\ new[t].hp = AtLeast(0, old[t].hp - damage)
      /\ \A k \in DOMAIN old : /\ k # t => new[k] = old[k]
                               /\ new[k].type = old[k].type /\ new[k].dirty = old[k].dirty
                               /\ new[k].pos = old[k].pos /\ new[k].dir = old[k].dir
  BY <1>2, <1>3 DEF Info
<1> HIDE DEF new
<1>5. \A type : OfType(new, type) = OfType(old, type)
  BY <1>4 DEF OfType
<1>6. \A p \in listeners : q.told[p] = [r.told[p] EXCEPT ![t].hp = @ - damage]
  BY <1>1, <1>2 DEF TellAttack
<1>7. \A p \in listeners :
        /\ q.told[p] \in [DOMAIN old -> Views]
        /\ q.told[p][t].hp = r.told[p][t].hp - damage
        /\ \A k \in DOMAIN old : /\ k # t => q.told[p][k].hp = r.told[p][k].hp
                                 /\ q.told[p][k].pos = r.told[p][k].pos
                                 /\ q.told[p][k].dir = r.told[p][k].dir
  <2> SUFFICES ASSUME NEW p \in listeners
               PROVE  /\ q.told[p] \in [DOMAIN old -> Views]
                      /\ q.told[p][t].hp = r.told[p][t].hp - damage
                      /\ \A k \in DOMAIN old :
                            /\ k # t => q.told[p][k].hp = r.told[p][k].hp
                            /\ q.told[p][k].pos = r.told[p][k].pos
                            /\ q.told[p][k].dir = r.told[p][k].dir
    OBVIOUS
  <2> DEFINE view == r.told[p]
  <2>1. view \in [DOMAIN old -> Views]
    BY <1>2
  <2>2. q.told[p] = [view EXCEPT ![t].hp = @ - damage]
    BY <1>6
  <2> HIDE DEF view, q
  <2>3. /\ [view EXCEPT ![t].hp = @ - damage] \in [DOMAIN old -> Views]
        /\ [view EXCEPT ![t].hp = @ - damage][t].hp = view[t].hp - damage
        /\ \A k \in DOMAIN old :
              /\ k # t => [view EXCEPT ![t].hp = @ - damage][k].hp = view[k].hp
              /\ [view EXCEPT ![t].hp = @ - damage][k].pos = view[k].pos
              /\ [view EXCEPT ![t].hp = @ - damage][k].dir = view[k].dir
    BY <2>1 DEF Views
  <2>4. QED
    BY <2>2, <2>3 DEF view
<1>8. q.told \in [listeners -> [DOMAIN old -> Views]]
  <2>1. q.told = [p \in listeners |-> q.told[p]]
    BY <1>1, <1>2 DEF TellAttack
  <2>2. QED
    BY <1>7, <2>1
<1>9. RoomType(q)
  <2>1. q = [objs |-> q.objs, told |-> q.told, next |-> q.next]
    BY <1>1
  <2>2. q.objs = new /\ q.next = r.next
    BY <1>1
  <2>3. QED
    BY <1>4, <1>5, <1>8, <2>1, <2>2 DEF Sound, RoomType
<1>10. Fresh(q)
  BY <1>1, <1>4, <1>5, <1>7 DEF Sound, Fresh
<1>11. ASSUME NEW p \in OfType(q.objs, "player"), NEW k \in DOMAIN q.objs
       PROVE  /\ k # t => HpKnown(q.told[p][k], q.objs[k])
              /\ k = t => \/ q.told[p][k].hp = old[k].hp - damage
                          \/ old[k].type = "player" /\ q.told[p][k].hp <= 0
  <2>1. p \in listeners /\ k \in DOMAIN old /\ q.objs = new
    BY <1>1, <1>4, <1>5
  <2>2. HpKnown(r.told[p][k], old[k])
    BY <2>1 DEF Sound, Agree
  <2>3. r.told[p][k].hp \in Int /\ old[k].hp \in Int
    BY <1>2, <2>1 DEF Views, Info
  <2>4. CASE k # t
    BY <1>4, <1>7, <2>1, <2>2, <2>4 DEF HpKnown
  <2>5. CASE k = t
    BY <1>7, <2>1, <2>2, <2>3, <2>5 DEF HpKnown
  <2>6. QED
    BY <2>4, <2>5
<1>12. Nearly(q, t)
  BY <1>9, <1>10, <1>11 DEF Nearly
<1>13. old[t].hp \in 0..MaxHp /\ q.objs = new /\ t \in DOMAIN q.objs
  BY <1>1, <1>2, <1>4 DEF Info
<1>14. ASSUME q.objs[t].hp > 0
       PROVE  Sound(q)
  <2>1. q.objs[t].hp = old[t].hp - damage /\ q.objs[t].type = old[t].type
    BY <1>4, <1>13, <1>14, StatsAssumption DEF AtLeast
  <2>2. Agree(q)
    BY <1>11, <2>1 DEF Agree, HpKnown
  <2>3. QED
    BY <1>9, <1>10, <2>2 DEF Sound
<1>15. ASSUME ~(q.objs[t].hp > 0)
       PROVE  SeenDead(q, t)
  <2>1. old[t].hp - damage <= 0
    BY <1>4, <1>13, <1>15, StatsAssumption DEF AtLeast
  <2>2. QED
    BY <1>11, <1>13, <2>1 DEF SeenDead
<1>16. QED
  BY <1>1, <1>4, <1>12, <1>14, <1>15

\* The dead monster's place is taken by a new one.
LEMMA MonsterDiesLiving ==
    ASSUME NEW r, NEW id \in DOMAIN r.objs, Nearly(r, id), r.next <= MaxId,
           OfType(r.objs, "monster") = {id},
           \A k \in DOMAIN r.objs : k # id => r.objs[k].hp > 0,
           NEW q \in MonsterDies(r, id)
    PROVE  Living(q) /\ OfType(q.objs, "player") = OfType(r.objs, "player")
<1> DEFINE gone == RemoveObject(r, id)
<1>1. /\ Sound(gone) /\ gone.next = r.next
      /\ DOMAIN gone.objs = DOMAIN r.objs \ {id}
      /\ \A k \in DOMAIN gone.objs : gone.objs[k] = r.objs[k]
  BY RemoveObjectSound
<1> HIDE DEF gone
<1>2. PICK c \in RandomEmptyCells(gone.objs) :
          q = AddObject([gone EXCEPT !.next = @ + 1], gone.next, NewMonster(c))
  BY DEF MonsterDies, gone
<1>3. c \in Cells
  BY CellsAssumption DEF RandomEmptyCells
<1>4. /\ Sound(q) /\ gone.next \notin DOMAIN gone.objs
      /\ DOMAIN q.objs = DOMAIN gone.objs \cup {gone.next}
      /\ q.objs[gone.next] = NewMonster(c)
      /\ \A k \in DOMAIN gone.objs : q.objs[k] = gone.objs[k]
  <2>1. gone.next <= MaxId /\ Sound(gone)
    BY <1>1
  <2>2. QED
    BY <1>2, <1>3, <2>1, AddMonsterSound, Zenon
<1>5. NewMonster(c).hp > 0 /\ NewMonster(c).type = "monster"
  BY <1>3, NewObjects
<1>6. r.objs[id].type = "monster"
  BY DEF OfType
<1>7. Alive(q)
  BY <1>1, <1>4, <1>5 DEF Alive
<1>8. OfType(q.objs, "monster") = {gone.next}
  BY <1>1, <1>4, <1>5 DEF OfType
<1>9. OfType(q.objs, "player") = OfType(r.objs, "player")
  BY <1>1, <1>4, <1>5, <1>6 DEF OfType
<1>10. QED
  BY <1>4, <1>7, <1>8, <1>9 DEF Living, Single

\* The dead player stands at its starting place again.
LEMMA PlayerDiesLiving ==
    ASSUME NEW r, NEW id \in DOMAIN r.objs, Nearly(r, id), Single(r),
           r.objs[id].type = "player", SeenDead(r, id),
           \A k \in DOMAIN r.objs : k # id => r.objs[k].hp > 0,
           NEW q \in PlayerDies(r, id)
    PROVE  Living(q) /\ OfType(q.objs, "player") = OfType(r.objs, "player")
<1> DEFINE info == SetCellPos([r.objs[id] EXCEPT !.hp = MaxHp], SpawnCell)
<1>1. r.objs[id] \in Info
  BY DEF Nearly, RoomType
<1>2. /\ info \in Info /\ info.type = "player" /\ info.hp = MaxHp
      /\ ~info.dirty => /\ ~r.objs[id].dirty
                        /\ info.pos = r.objs[id].pos /\ info.dir = r.objs[id].dir
  <2> DEFINE healed == [r.objs[id] EXCEPT !.hp = MaxHp]
  <2>1. /\ healed \in Info /\ healed.type = "player" /\ healed.hp = MaxHp
        /\ healed.dirty = r.objs[id].dirty
        /\ healed.pos = r.objs[id].pos /\ healed.dir = r.objs[id].dir
    BY <1>1, StatsAssumption DEF Info
  <2> HIDE DEF healed
  <2>2. Follows(healed, SetCellPos(healed, SpawnCell))
    BY <2>1, CellsAssumption DEF Follows, Info, SetCellPos
  <2>3. QED
    BY <2>1, <2>2 DEF Follows, healed
<1>3. q = Change(r, id, info)
  BY DEF PlayerDies
<1> HIDE DEF info
<1>4. Sound(q) /\ q.objs = [r.objs EXCEPT ![id] = info]
  BY <1>2, <1>3, ReplaceSound
<1>5. /\ DOMAIN q.objs = DOMAIN r.objs
      /\ \A k \in DOMAIN r.objs : q.objs[k] = IF k = id THEN info ELSE r.objs[k]
  BY <1>4 DEF Nearly, RoomType
<1>6. \A type : OfType(q.objs, type) = OfType(r.objs, type)
  BY <1>2, <1>5 DEF OfType
<1>7. Alive(q)
  BY <1>2, <1>5, StatsAssumption DEF Alive
<1>8. QED
  BY <1>4, <1>5, <1>6, <1>7 DEF Living, Single

\* An attack, by whomever, leaves a living room.
LEMMA AttackLiving ==
    ASSUME NEW r, Living(r), NEW a, NEW t, NEW q \in Handle_C_Attack(r, a, t)
    PROVE  Living(q) /\ OfType(q.objs, "player") = OfType(r.objs, "player")
<1>1. CASE q = r
  BY <1>1
<1>2. CASE q # r
  <2> DEFINE damage == Damage(r.objs[a], r.objs[t])
             hit == Hit(r, a, t, damage)
  <2>1. /\ a \in DOMAIN r.objs /\ t \in DOMAIN r.objs
        /\ WithinBounds(r, t, damage)
        /\ IF hit.objs[t].hp > 0 THEN q = hit
           ELSE IF hit.objs[t].type = "monster" THEN q \in MonsterDies(hit, t)
           ELSE q \in PlayerDies(hit, t)
    BY <1>2, Zenon DEF Handle_C_Attack
  <2>2. /\ Sound(r) /\ Alive(r) /\ Single(r) /\ r.objs[a] \in Info /\ r.objs[t] \in Info
    BY <2>1 DEF Living, Sound, RoomType
  <2>3. damage \in Nat \ {0}
    BY <2>2, DamagePositive
  <2> HIDE DEF damage
  <2>4. /\ Nearly(hit, t) /\ (hit.objs[t].hp > 0 => Sound(hit))
        /\ ~(hit.objs[t].hp > 0) => SeenDead(hit, t)
        /\ hit.next = r.next /\ DOMAIN hit.objs = DOMAIN r.objs
        /\ hit.objs[t].type = r.objs[t].type
        /\ \A k \in DOMAIN r.objs : k # t => hit.objs[k] = r.objs[k]
    BY <2>1, <2>2, <2>3, HitNearlySound
  <2> HIDE DEF hit
  <2>5. \A type : OfType(hit.objs, type) = OfType(r.objs, type)
    BY <2>4 DEF OfType
  <2>6. Single(hit) /\ hit.next <= MaxId
    BY <2>1, <2>2, <2>4, <2>5 DEF Single, WithinBounds
  <2>7. \A k \in DOMAIN hit.objs : k # t => hit.objs[k].hp > 0
    BY <2>2, <2>4 DEF Alive
  <2>8. CASE hit.objs[t].hp > 0
    BY <2>1, <2>4, <2>5, <2>6, <2>7, <2>8 DEF Living, Alive
  <2>9. CASE ~(hit.objs[t].hp > 0) /\ hit.objs[t].type = "monster"
    <3>1. t \in OfType(hit.objs, "monster")
      BY <2>1, <2>4, <2>9 DEF OfType
    <3>2. OfType(hit.objs, "monster") = {t}
      BY <2>6, <3>1 DEF Single
    <3>3. q \in MonsterDies(hit, t) /\ t \in DOMAIN hit.objs
      BY <2>1, <2>4, <2>9
    <3>4. QED
      BY <2>4, <2>5, <2>6, <2>7, <3>2, <3>3, MonsterDiesLiving
  <2>10. CASE ~(hit.objs[t].hp > 0) /\ hit.objs[t].type # "monster"
    <3>1. hit.objs[t].type = "player"
      BY <2>2, <2>4, <2>10 DEF Info, Types
    <3>2. q \in PlayerDies(hit, t) /\ t \in DOMAIN hit.objs
      BY <2>1, <2>4, <2>10
    <3>3. SeenDead(hit, t)
      BY <2>4, <2>10
    <3>4. QED
      BY <2>4, <2>5, <2>6, <2>7, <3>1, <3>2, <3>3, PlayerDiesLiving
  <2>11. QED
    BY <2>8, <2>9, <2>10
<1>3. QED
  BY <1>1, <1>2

-----------------------------------------------------------------------------
(* The monster *)

LEMMA SameCastLiving ==
    ASSUME NEW r, Living(r), NEW q, Sound(q), SameCast(r, q)
    PROVE  Living(q) /\ \A type : OfType(q.objs, type) = OfType(r.objs, type)
<1>1. \A type : OfType(q.objs, type) = OfType(r.objs, type)
  BY DEF SameCast, OfType
<1>2. Alive(q)
  BY DEF SameCast, Living, Alive
<1>3. QED
  BY <1>1, <1>2 DEF Living, Single, SameCast

LEMMA MonsterAttacksLiving ==
    ASSUME NEW r, Living(r), NEW m \in DOMAIN r.objs, NEW target,
           NEW q \in MonsterAttacks(r, m, target)
    PROVE  Living(q) /\ OfType(q.objs, "player") = OfType(r.objs, "player")
<1> DEFINE turned == SetDir(r.objs[m], GetLookAtDir(r.objs[m].pos, r.objs[target].pos))
           facing == IF turned = r.objs[m] THEN r ELSE ChangeAloud(r, m, turned)
           ready == ChangeAloud(facing, m, SetState(facing.objs[m], "skill"))
<1>1. Sound(r) /\ r.objs[m] \in Info
  BY DEF Living, Sound, RoomType
<1>2. Follows(r.objs[m], turned)
  BY <1>1, LookAtDir DEF Follows, SetDir, Info
<1> HIDE DEF turned
<1>3. Sound(facing) /\ SameCast(r, facing) /\ m \in DOMAIN facing.objs
  <2>1. CASE turned = r.objs[m]
    BY <1>1, <2>1 DEF SameCast
  <2>2. CASE turned # r.objs[m]
    <3>1. Sound(ChangeAloud(r, m, turned)) /\ SameCast(r, ChangeAloud(r, m, turned))
      BY <1>1, <1>2, ChangeAloudSound
    <3>2. facing = ChangeAloud(r, m, turned)
      BY <2>2
    <3>3. QED
      BY <3>1, <3>2 DEF SameCast
  <2>3. QED
    BY <2>1, <2>2
<1> HIDE DEF facing
<1>4. facing.objs[m] \in Info
  BY <1>3 DEF Sound, RoomType
<1>5. Follows(facing.objs[m], SetState(facing.objs[m], "skill"))
  BY <1>4 DEF Follows, SetState, Info, States
<1>6. Sound(ready) /\ SameCast(facing, ready)
  BY <1>3, <1>5, ChangeAloudSound
<1> HIDE DEF ready
<1>7. Living(ready) /\ OfType(ready.objs, "player") = OfType(r.objs, "player")
  BY <1>3, <1>6, SameCastTransitive, SameCastLiving
<1>8. q \in Handle_C_Attack(ready, m, target)
  BY DEF MonsterAttacks, ready, facing, turned
<1>9. QED
  BY <1>7, <1>8, AttackLiving

LEMMA MonsterApproachesLiving ==
    ASSUME NEW r, Living(r), NEW m \in DOMAIN r.objs, NEW q \in MonsterApproaches(r, m)
    PROVE  Living(q) /\ OfType(q.objs, "player") = OfType(r.objs, "player")
<1> DEFINE moved(dir) == SetCellPos(SetDir(r.objs[m], dir), Ahead(r.objs[m].pos, dir))
<1>1. Sound(r) /\ r.objs[m] \in Info
  BY DEF Living, Sound, RoomType
<1>2. \/ q = r
      \/ q = BroadcastMove(r, m)
      \/ \E dir \in Dirs :
            /\ CanGo(r.objs, Ahead(r.objs[m].pos, dir))
            /\ q = Change(ChangeAloud(r, m, moved(dir)), m, SetState(moved(dir), "move"))
  BY DEF MonsterApproaches
<1>3. CASE q = r
  BY <1>3
<1>4. CASE q = BroadcastMove(r, m)
  BY <1>1, <1>4, BroadcastMoveSound, SameCastLiving
<1>5. ASSUME NEW dir \in Dirs, CanGo(r.objs, Ahead(r.objs[m].pos, dir)),
             q = Change(ChangeAloud(r, m, moved(dir)), m, SetState(moved(dir), "move"))
      PROVE  Living(q) /\ OfType(q.objs, "player") = OfType(r.objs, "player")
  <2> DEFINE step == ChangeAloud(r, m, moved(dir))
  <2>1. Follows(r.objs[m], moved(dir))
    <3>1. Ahead(r.objs[m].pos, dir) \in Cells
      BY <1>5, FreeCells
    <3>2. Follows(r.objs[m], SetDir(r.objs[m], dir)) /\ SetDir(r.objs[m], dir) \in Info
      BY <1>1 DEF Follows, SetDir, Info
    <3>3. Follows(SetDir(r.objs[m], dir), moved(dir))
      BY <3>1, <3>2 DEF Follows, SetCellPos, Info
    <3>4. QED
      BY <3>2, <3>3, FollowsTransitive
  <2>2. Follows(moved(dir), SetState(moved(dir), "move"))
    <3> HIDE DEF moved
    <3>1. moved(dir) \in Info
      BY <2>1 DEF Follows
    <3>2. QED
      BY <3>1 DEF Follows, SetState, Info, States
  <2> HIDE DEF moved
  <2>3. /\ Sound(step) /\ SameCast(r, step)
        /\ step.objs = [r.objs EXCEPT ![m] = moved(dir)]
    BY <1>1, <2>1, ChangeAloudSound
  <2>4. q = Change(step, m, SetState(moved(dir), "move"))
    BY <1>5
  <2> HIDE DEF step
  <2>5. m \in DOMAIN step.objs /\ step.objs[m] = moved(dir)
    BY <2>3 DEF SameCast
  <2>6. Sound(q) /\ SameCast(step, q)
    BY <2>2, <2>3, <2>4, <2>5, ChangeSound
  <2>7. QED
    BY <2>3, <2>6, SameCastTransitive, SameCastLiving
<1>6. QED
  BY <1>2, <1>3, <1>4, <1>5

LEMMA MonsterUpdateLiving ==
    ASSUME NEW r, Living(r), NEW m \in DOMAIN r.objs, NEW q \in MonsterUpdate(r, m)
    PROVE  Living(q) /\ OfType(q.objs, "player") = OfType(r.objs, "player")
<1>1. CASE q = r
  BY <1>1
<1>2. CASE q = Change(r, m, SetState(r.objs[m], "idle"))
  <2>1. Sound(r) /\ r.objs[m] \in Info
    BY DEF Living, Sound, RoomType
  <2>2. Follows(r.objs[m], SetState(r.objs[m], "idle"))
    BY <2>1 DEF Follows, SetState, Info, States
  <2>3. Sound(q) /\ SameCast(r, q)
    BY <1>2, <2>1, <2>2, ChangeSound
  <2>4. QED
    BY <2>3, SameCastLiving
<1>3. ASSUME NEW target, q \in MonsterAttacks(r, m, target)
      PROVE  Living(q) /\ OfType(q.objs, "player") = OfType(r.objs, "player")
  BY <1>3, MonsterAttacksLiving
<1>4. CASE q \in MonsterApproaches(r, m)
  BY <1>4, MonsterApproachesLiving
<1>5. \/ q = r \/ q = Change(r, m, SetState(r.objs[m], "idle"))
      \/ \E target : q \in MonsterAttacks(r, m, target)
      \/ q \in MonsterApproaches(r, m)
  BY Zenon DEF MonsterUpdate, MonsterIdle
<1>6. QED
  BY <1>1, <1>2, <1>3, <1>4, <1>5

-----------------------------------------------------------------------------
(* The state between two handlers *)

\* A session in the room has a player of its own there.
PlayersOK ==
    /\ player \in [Sessions -> {0} \cup OfType(objects, "player")]
    /\ \A s, t \in Sessions : s # t /\ player[s] # 0 => player[s] # player[t]

IInv == Living(Room) /\ PlayersOK

LEMMA RoomFields ==
    Room.objs = objects /\ Room.told = told /\ Room.next = nextId
  BY DEF Room

LEMMA BecomeRoom ==
    ASSUME NEW q, RoomType(q), Become(q)
    PROVE  Room' = q
  BY DEF Become, Room, RoomType

\* A step to a living room with the same players.
LEMMA SamePlayers ==
    ASSUME IInv, NEW q, Living(q), Become(q), UNCHANGED player,
           OfType(q.objs, "player") = OfType(objects, "player")
    PROVE  IInv'
<1>1. Room' = q
  BY BecomeRoom DEF Living, Sound
<1>2. Living(Room)'
  BY <1>1
<1>3. PlayersOK'
  BY DEF IInv, PlayersOK, Become
<1>4. QED
  BY <1>2, <1>3 DEF IInv

LEMMA InitHolds == Init => IInv
<1> SUFFICES ASSUME Init PROVE IInv
  OBVIOUS
<1> DEFINE info == NewMonster(MonsterCell)
<1>1. info \in Info /\ info.type = "monster" /\ info.hp > 0
  BY CellsAssumption, NewObjects
<1> HIDE DEF info
<1>2. /\ objects \in [{1} -> Info] /\ DOMAIN objects = {1} /\ objects[1] = info
      /\ told = [p \in {} |-> {}] /\ nextId = 2
  BY <1>1 DEF Init, info
<1>3. OfType(objects, "player") = {} /\ OfType(objects, "monster") = {1}
  BY <1>1, <1>2 DEF OfType
<1>4. told \in [{} -> [DOMAIN objects -> Views]]
  BY <1>2
<1>5. RoomType(Room)
  BY <1>2, <1>3, <1>4, StatsAssumption DEF Room, RoomType
<1>6. Fresh(Room) /\ Agree(Room) /\ Alive(Room) /\ Single(Room)
  BY <1>1, <1>2, <1>3, RoomFields DEF Fresh, Agree, Alive, Single
<1>7. PlayersOK
  BY DEF Init, PlayersOK
<1>8. QED
  BY <1>5, <1>6, <1>7 DEF IInv, Living, Sound

\* What a client is sent when it enters is everything there is.
LEMMA EnterLiving ==
    ASSUME NEW r, Living(r), r.next <= MaxId
    PROVE  LET q == AddObject([objs |-> r.objs,
                               told |-> Put(r.told, r.next, Snapshot(r.objs, r.next)),
                               next |-> r.next + 1],
                              r.next, NewPlayer)
           IN  /\ Living(q) /\ r.next \notin DOMAIN r.objs /\ r.next # 0
               /\ OfType(q.objs, "player") = OfType(r.objs, "player") \cup {r.next}
<1> DEFINE id == r.next
           info == NewPlayer
           old == r.objs
           snapshot == Snapshot(old, id)
           heard == Put(r.told, id, snapshot)
           new == Put(old, id, info)
           q == AddObject([objs |-> old, told |-> heard, next |-> id + 1], id, info)
           listeners == OfType(old, "player")
           everything == DOMAIN old \cup {id}
<1>1. q = [objs |-> new, told |-> TellAdded(heard, id, info), next |-> id + 1]
  BY DEF AddObject
<1>2. /\ id \in 2..MaxId /\ id \notin DOMAIN old /\ DOMAIN old \subseteq 1..id - 1
      /\ MaxId \in Nat
  BY StatsAssumption DEF Living, Sound, RoomType
<1>3. info \in Info /\ info.type = "player" /\ info.hp > 0
  BY NewObjects
<1>4. /\ View(info) \in Views /\ View(info).hp = info.hp
      /\ View(info).pos = info.pos /\ View(info).dir = info.dir
  BY <1>3, ViewOfInfo
<1>5. /\ old \in [DOMAIN old -> Info]
      /\ r.told \in [listeners -> [DOMAIN old -> Views]]
  BY DEF Living, Sound, RoomType
<1> HIDE DEF info
<1>6. /\ new \in [everything -> Info] /\ DOMAIN new = everything
      /\ new[id] = info /\ \A k \in DOMAIN old : new[k] = old[k]
  BY <1>2, <1>3, <1>5 DEF Put
<1> HIDE DEF new
<1>7. /\ OfType(new, "player") = listeners \cup {id}
      /\ OfType(new, "monster") = OfType(old, "monster")
  BY <1>2, <1>3, <1>6 DEF OfType
<1>8. /\ snapshot \in [everything -> Views]
      /\ \A k \in DOMAIN old : snapshot[k] = View(old[k])
  <2>1. \A k \in DOMAIN old : View(old[k]) \in Views
    BY <1>5, ViewOfInfo
  <2>2. QED
    BY <1>2, <1>4, <2>1 DEF Snapshot, info
<1> HIDE DEF snapshot
<1>9. /\ DOMAIN heard = listeners \cup {id} /\ heard[id] = snapshot
      /\ \A p \in listeners : p # id /\ heard[p] = r.told[p]
  <2>1. \A p \in listeners : p # id
    BY <1>2 DEF OfType
  <2>2. QED
    BY <1>5, <2>1 DEF Put
<1> HIDE DEF heard
<1>10. q.told = [p \in listeners \cup {id} |-> Put(heard[p], id, View(info))]
  BY <1>1, <1>9 DEF TellAdded
<1>11. \A p \in listeners \cup {id} :
         /\ q.told[p] \in [everything -> Views]
         /\ q.told[p][id] = View(info)
         /\ \A k \in DOMAIN old : q.told[p][k] = heard[p][k]
  <2> SUFFICES ASSUME NEW p \in listeners \cup {id}
               PROVE  /\ q.told[p] \in [everything -> Views]
                      /\ q.told[p][id] = View(info)
                      /\ \A k \in DOMAIN old : q.told[p][k] = heard[p][k]
    OBVIOUS
  <2>1. q.told[p] = Put(heard[p], id, View(info))
    BY <1>10
  <2>2. \/ heard[p] \in [DOMAIN old -> Views]
        \/ heard[p] \in [everything -> Views]
    BY <1>5, <1>8, <1>9
  <2>3. /\ Put(heard[p], id, View(info)) \in [everything -> Views]
        /\ Put(heard[p], id, View(info))[id] = View(info)
        /\ \A k \in DOMAIN old : Put(heard[p], id, View(info))[k] = heard[p][k]
    <3>1. CASE heard[p] \in [DOMAIN old -> Views]
      BY <1>2, <1>4, <3>1 DEF Put
    <3>2. CASE heard[p] \in [everything -> Views]
      BY <1>2, <1>4, <3>2 DEF Put
    <3>3. QED
      BY <2>2, <3>1, <3>2
  <2>4. QED
    BY <2>1, <2>3
<1>12. \A p \in listeners \cup {id} : \A k \in DOMAIN old :
          q.told[p][k] = IF p = id THEN View(old[k]) ELSE r.told[p][k]
  BY <1>8, <1>9, <1>11
<1>13. q.objs = new /\ q.next = id + 1
  BY <1>1
<1>14. RoomType(q)
  <2>1. DOMAIN new \subseteq 1..(id + 1) - 1 /\ id + 1 \in 2..MaxId + 1
    BY <1>2, <1>6
  <2>2. q.told \in [listeners \cup {id} -> [everything -> Views]]
    BY <1>10, <1>11
  <2>3. q = [objs |-> q.objs, told |-> q.told, next |-> q.next]
    BY <1>1
  <2>4. QED
    BY <1>6, <1>7, <1>13, <2>1, <2>2, <2>3 DEF RoomType
<1>15. Fresh(q)
  <2> SUFFICES ASSUME NEW p \in listeners \cup {id}, NEW k \in everything, ~new[k].dirty
               PROVE  q.told[p][k].pos = new[k].pos /\ q.told[p][k].dir = new[k].dir
    BY <1>6, <1>7, <1>13 DEF Fresh
  <2>1. CASE k = id
    BY <1>4, <1>6, <1>11, <2>1
  <2>2. CASE k \in DOMAIN old /\ p = id
    <3>1. View(old[k]).pos = old[k].pos /\ View(old[k]).dir = old[k].dir
      BY <1>5, <2>2, ViewOfInfo
    <3>2. QED
      BY <1>6, <1>12, <2>2, <3>1
  <2>3. CASE k \in DOMAIN old /\ p # id
    <3>1. p \in listeners
      BY <2>3
    <3>2. r.told[p][k].pos = old[k].pos /\ r.told[p][k].dir = old[k].dir
      BY <1>6, <2>3, <3>1 DEF Living, Sound, Fresh
    <3>3. QED
      BY <1>6, <1>12, <2>3, <3>2
  <2>4. QED
    BY <2>1, <2>2, <2>3
<1>16. Agree(q)
  <2> SUFFICES ASSUME NEW p \in listeners \cup {id}, NEW k \in DOMAIN new
               PROVE  HpKnown(q.told[p][k], new[k])
    BY <1>7, <1>13 DEF Agree
  <2>1. CASE k = id
    BY <1>4, <1>6, <1>11, <2>1 DEF HpKnown
  <2>2. CASE k # id /\ p = id
    <3>1. k \in DOMAIN old /\ new[k] = old[k]
      BY <1>6, <2>2
    <3>2. View(old[k]).hp = old[k].hp
      BY <1>5, <3>1, ViewOfInfo
    <3>3. QED
      BY <1>12, <2>2, <3>1, <3>2 DEF HpKnown
  <2>3. CASE k # id /\ p # id
    <3>1. p \in listeners /\ k \in DOMAIN old /\ new[k] = old[k]
      BY <1>6, <2>3
    <3>2. HpKnown(r.told[p][k], old[k])
      BY <3>1 DEF Living, Sound, Agree
    <3>3. QED
      BY <1>12, <2>3, <3>1, <3>2
  <2>4. QED
    BY <2>1, <2>2, <2>3
<1>17. Alive(q) /\ Single(q)
  BY <1>3, <1>6, <1>7, <1>13 DEF Living, Alive, Single
<1>18. QED
  <2>1. Living(q) /\ OfType(q.objs, "player") = listeners \cup {id}
    BY <1>7, <1>13, <1>14, <1>15, <1>16, <1>17 DEF Living, Sound
  <2>2. id # 0
    BY <1>2
  <2>3. QED
    BY <1>2, <2>1, <2>2 DEF info, heard, snapshot

-----------------------------------------------------------------------------
(* Every handler leaves a living room *)

LEMMA EnterRoomHolds ==
    ASSUME IInv, NEW s \in Sessions, EnterRoom(s)
    PROVE  IInv'
<1> DEFINE q == AddObject([objs |-> Room.objs,
                           told |-> Put(Room.told, Room.next, Snapshot(Room.objs, Room.next)),
                           next |-> Room.next + 1],
                          Room.next, NewPlayer)
<1>1. Room.next <= MaxId /\ Living(Room)
  BY RoomFields DEF EnterRoom, IInv
<1>2. /\ Living(q) /\ Room.next \notin DOMAIN Room.objs /\ Room.next # 0
      /\ OfType(q.objs, "player") = OfType(Room.objs, "player") \cup {Room.next}
  BY <1>1, EnterLiving
<1>3. Become(q) /\ player' = [player EXCEPT ![s] = nextId]
  BY RoomFields DEF EnterRoom
<1> HIDE DEF q
<1>4. Room' = q
  BY <1>2, <1>3, BecomeRoom DEF Living, Sound
<1>5. Living(Room)'
  BY <1>2, <1>4
<1>6. /\ OfType(objects', "player") = OfType(objects, "player") \cup {nextId}
      /\ nextId \notin OfType(objects, "player")
  BY <1>2, <1>3, RoomFields DEF Become, OfType
<1>7. PlayersOK'
  BY <1>3, <1>6, <1>2, RoomFields DEF IInv, PlayersOK
<1>8. QED
  BY <1>5, <1>7 DEF IInv

LEMMA LeaveRoomHolds ==
    ASSUME IInv, NEW s \in Sessions, LeaveRoom(s)
    PROVE  IInv'
<1> DEFINE id == player[s]
           q == RemoveObject(Room, id)
<1>1. /\ Sound(Room) /\ Alive(Room) /\ Single(Room)
      /\ id # 0 /\ id \in DOMAIN Room.objs /\ Room.objs[id].type = "player"
  BY RoomFields DEF LeaveRoom, IInv, Living, PlayersOK, OfType
<1>2. Nearly(Room, id)
  BY <1>1 DEF Sound, Nearly, Agree
<1>3. /\ Sound(q) /\ DOMAIN q.objs = DOMAIN Room.objs \ {id}
      /\ \A k \in DOMAIN q.objs : q.objs[k] = Room.objs[k]
  BY <1>1, <1>2, RemoveObjectSound
<1>4. Become(q) /\ player' = [player EXCEPT ![s] = 0]
  BY DEF LeaveRoom
<1> HIDE DEF q
<1>5. /\ OfType(q.objs, "player") = OfType(objects, "player") \ {id}
      /\ OfType(q.objs, "monster") = OfType(Room.objs, "monster")
  BY <1>1, <1>3, RoomFields DEF OfType
<1>6. Living(q)
  <2>1. Alive(q)
    BY <1>1, <1>3 DEF Alive
  <2>2. Single(q)
    <3>1. PICK m \in DOMAIN Room.objs : OfType(Room.objs, "monster") = {m}
      BY <1>1 DEF Single
    <3>2. m \in DOMAIN q.objs
      BY <1>5, <3>1 DEF OfType
    <3>3. QED
      BY <1>5, <3>1, <3>2 DEF Single
  <2>3. QED
    BY <1>3, <2>1, <2>2 DEF Living
<1>7. Room' = q
  BY <1>3, <1>4, BecomeRoom DEF Sound
<1>8. Living(Room)'
  BY <1>6, <1>7
<1>9. PlayersOK'
  <2>1. OfType(objects', "player") = OfType(objects, "player") \ {id}
    BY <1>4, <1>5 DEF Become
  <2>2. QED
    BY <1>1, <1>4, <2>1 DEF IInv, PlayersOK
<1>10. QED
  BY <1>8, <1>9 DEF IInv

LEMMA StopHolds ==
    ASSUME IInv, NEW s \in Sessions, Stop(s)
    PROVE  IInv'
<1> DEFINE id == player[s]
           info == SetState(objects[id], "idle")
           q == Change(Room, id, info)
<1>1. /\ Living(Room) /\ Sound(Room) /\ id \in DOMAIN Room.objs
      /\ Room.objs[id] \in Info
  BY RoomFields DEF Stop, IInv, Living, Sound, RoomType, PlayersOK, OfType
<1>2. Follows(Room.objs[id], info)
  BY <1>1, RoomFields DEF Follows, SetState, Info, States
<1>3. Sound(q) /\ SameCast(Room, q)
  BY <1>1, <1>2, ChangeSound
<1>4. Become(q) /\ UNCHANGED player
  BY DEF Stop
<1> HIDE DEF q
<1>5. Living(q) /\ OfType(q.objs, "player") = OfType(objects, "player")
  BY <1>1, <1>3, SameCastLiving, RoomFields
<1>6. QED
  BY <1>4, <1>5, SamePlayers

LEMMA MoveHolds ==
    ASSUME IInv, NEW s \in Sessions, NEW dir \in InputDirs, Move(s, dir)
    PROVE  IInv'
<1> DEFINE id == player[s]
           info == objects[id]
           cell == Ahead(info.pos, dir)
           moved == SetCellPos(SetDir(SetState(info, "move"), dir), cell)
           turned == SetState(SetDir(info, dir), "idle")
           next == IF CanGo(objects, cell) THEN moved ELSE turned
           q == Change(Room, id, next)
<1>1. /\ Living(Room) /\ Sound(Room) /\ id \in DOMAIN Room.objs
      /\ Room.objs[id] = info /\ info \in Info /\ dir \in Dirs
  BY RoomFields, CellsAssumption, StatsAssumption
  DEF Move, IInv, Living, Sound, RoomType, PlayersOK, OfType
<1>2. Become(q) /\ UNCHANGED player
  BY DEF Move
<1>3. Follows(info, next)
  <2> HIDE DEF info, cell
  <2>1. "move" \in States /\ "idle" \in States
    BY DEF States
  <2>2. CASE CanGo(objects, cell)
    <3>1. cell \in Cells
      BY <2>2, FreeCells
    <3>2. Follows(info, SetState(info, "move")) /\ SetState(info, "move") \in Info
      BY <1>1, <2>1 DEF Follows, SetState, Info
    <3> DEFINE a == SetState(info, "move")
    <3> HIDE DEF a
    <3>3. Follows(a, SetDir(a, dir)) /\ SetDir(a, dir) \in Info
      BY <1>1, <3>2 DEF Follows, SetDir, Info, a
    <3> DEFINE b == SetDir(a, dir)
    <3> HIDE DEF b
    <3>4. Follows(b, SetCellPos(b, cell))
      BY <3>1, <3>3 DEF Follows, SetCellPos, Info, b
    <3>5. moved = SetCellPos(b, cell)
      BY DEF a, b
    <3>6. Follows(info, moved)
      BY <3>2, <3>3, <3>4, <3>5, FollowsTransitive DEF a, b
    <3>7. QED
      BY <2>2, <3>6
  <2>3. CASE ~CanGo(objects, cell)
    <3> DEFINE a == SetDir(info, dir)
    <3>1. Follows(info, a) /\ a \in Info
      BY <1>1 DEF Follows, SetDir, Info
    <3> HIDE DEF a
    <3>2. Follows(a, SetState(a, "idle"))
      BY <2>1, <3>1 DEF Follows, SetState, Info
    <3>3. Follows(info, turned)
      BY <3>1, <3>2, FollowsTransitive DEF a
    <3>4. QED
      BY <2>3, <3>3
  <2>4. QED
    BY <2>2, <2>3
<1> HIDE DEF next, info
<1>4. Sound(q) /\ SameCast(Room, q)
  BY <1>1, <1>3, ChangeSound
<1> HIDE DEF q
<1>5. Living(q) /\ OfType(q.objs, "player") = OfType(objects, "player")
  BY <1>1, <1>4, SameCastLiving, RoomFields
<1>6. QED
  BY <1>2, <1>5, SamePlayers

LEMMA ClientAttacksHolds ==
    ASSUME IInv, NEW s \in Sessions, NEW target, ClientAttacks(s, target)
    PROVE  IInv'
<1>1. PICK q \in Handle_C_Attack(Room, player[s], target) : Become(q)
  BY DEF ClientAttacks
<1>2. Living(q) /\ OfType(q.objs, "player") = OfType(objects, "player")
  BY AttackLiving, RoomFields DEF IInv
<1>3. UNCHANGED player
  BY DEF ClientAttacks
<1>4. QED
  BY <1>1, <1>2, <1>3, SamePlayers

LEMMA UpdateHolds ==
    ASSUME IInv, Update
    PROVE  IInv'
<1>1. PICK m \in OfType(objects, "monster"), elapsed \in BOOLEAN :
         \E r \in MonsterUpdate(Room, m) :
            Become(IF elapsed THEN BroadcastGameState(r) ELSE r)
  BY DEF Update
<1>2. PICK r \in MonsterUpdate(Room, m) :
          Become(IF elapsed THEN BroadcastGameState(r) ELSE r)
  BY <1>1
<1>3. m \in DOMAIN Room.objs
  BY RoomFields DEF OfType
<1>4. Living(r) /\ OfType(r.objs, "player") = OfType(objects, "player")
  BY <1>3, MonsterUpdateLiving, RoomFields DEF IInv
<1>5. LET q == BroadcastGameState(r)
      IN  Living(q) /\ OfType(q.objs, "player") = OfType(objects, "player")
  BY <1>4, BroadcastGameStateSound, SameCastLiving DEF Living
<1>6. UNCHANGED player
  BY DEF Update
<1>7. CASE elapsed
  BY <1>2, <1>5, <1>6, <1>7, SamePlayers
<1>8. CASE ~elapsed
  BY <1>2, <1>4, <1>6, <1>8, SamePlayers
<1>9. QED
  BY <1>7, <1>8

LEMMA StutterHolds ==
    ASSUME IInv, UNCHANGED vars
    PROVE  IInv'
<1>1. Room' = Room
  BY DEF vars, Room
<1>2. Living(Room)'
  BY <1>1 DEF IInv
<1>3. QED
  BY <1>2 DEF IInv, PlayersOK, vars

\* Whatever the sessions do and in whatever order: between two handlers the
\* room is well formed, its monster and its players live, and its clients
\* know it.
THEOREM InductiveInvariant == Spec => []IInv
<1>1. Init => IInv
  BY InitHolds
<1>2. IInv /\ [Next]_vars => IInv'
  <2> SUFFICES ASSUME IInv, [Next]_vars PROVE IInv'
    OBVIOUS
  <2>1. ASSUME NEW s \in Sessions, EnterRoom(s) PROVE IInv'
    BY <2>1, EnterRoomHolds
  <2>2. ASSUME NEW s \in Sessions, LeaveRoom(s) PROVE IInv'
    BY <2>2, LeaveRoomHolds
  <2>3. ASSUME NEW s \in Sessions, Stop(s) PROVE IInv'
    BY <2>3, StopHolds
  <2>4. ASSUME NEW s \in Sessions, NEW dir \in InputDirs, Move(s, dir) PROVE IInv'
    BY <2>4, MoveHolds
  <2>5. ASSUME NEW s \in Sessions, NEW target, ClientAttacks(s, target) PROVE IInv'
    BY <2>5, ClientAttacksHolds
  <2>6. CASE Update
    BY <2>6, UpdateHolds
  <2>7. CASE UNCHANGED vars
    BY <2>7, StutterHolds
  <2>8. QED
    BY <2>1, <2>2, <2>3, <2>4, <2>5, <2>6, <2>7 DEF Next
<1>3. QED
  BY <1>1, <1>2, PTL DEF Spec

\* Types are kept, and a session's player is in the room until it leaves.
THEOREM TypeCorrect == Spec => []TypeOK
<1>1. IInv => TypeOK
  <2> SUFFICES ASSUME IInv PROVE TypeOK
    OBVIOUS
  <2>1. /\ nextId \in 2..MaxId + 1
        /\ objects \in [DOMAIN objects -> Info]
        /\ DOMAIN objects \subseteq 1..nextId - 1
        /\ told \in [OfType(objects, "player") -> [DOMAIN objects -> Views]]
    BY RoomFields DEF IInv, Living, Sound, RoomType
  <2>2. \A p \in DOMAIN told : told[p] \in [DOMAIN told[p] -> Views]
    BY <2>1
  <2>3. QED
    BY <2>1, <2>2 DEF TypeOK, IInv, PlayersOK
<1>2. QED
  BY <1>1, InductiveInvariant, PTL

\* The room has one monster, however often it is killed.
THEOREM OneMonsterAlways == Spec => []OneMonster
<1>1. IInv => OneMonster
  BY RoomFields DEF IInv, Living, Single, OneMonster
<1>2. QED
  BY <1>1, InductiveInvariant, PTL

\* Nobody is dead between two handlers.
THEOREM EverybodyAlive == Spec => []AllAlive
<1>1. IInv => AllAlive
  BY RoomFields DEF IInv, Living, Alive, AllAlive
<1>2. QED
  BY <1>1, InductiveInvariant, PTL

\* The messages establish exactly the room's objects at exactly its clients.
THEOREM ViewsComplete == Spec => []ViewComplete
<1>1. IInv => ViewComplete
  <2> SUFFICES ASSUME IInv PROVE ViewComplete
    OBVIOUS
  <2>1. told \in [OfType(objects, "player") -> [DOMAIN objects -> Views]]
    BY RoomFields DEF IInv, Living, Sound, RoomType
  <2>2. QED
    BY <2>1 DEF ViewComplete
<1>2. QED
  BY <1>1, InductiveInvariant, PTL

\* No change of place is forgotten: it is known, or marked to be broadcast.
THEOREM ViewsFresh == Spec => []ViewFresh
<1>1. IInv => ViewFresh
  <2> SUFFICES ASSUME IInv PROVE ViewFresh
    OBVIOUS
  <2>1. told \in [OfType(objects, "player") -> [DOMAIN objects -> Views]]
    BY RoomFields DEF IInv, Living, Sound, RoomType
  <2>2. Fresh(Room)
    BY DEF IInv, Living, Sound
  <2>3. QED
    BY <2>1, <2>2, RoomFields DEF ViewFresh, Fresh
<1>2. QED
  BY <1>1, InductiveInvariant, PTL

\* The clients' sums and the server's hp are the same for every monster, and for
\* every player the client has not seen die.
THEOREM HpAgrees == Spec => []HpKnownWhileAlive
<1>1. IInv => HpKnownWhileAlive
  <2> SUFFICES ASSUME IInv PROVE HpKnownWhileAlive
    OBVIOUS
  <2>1. told \in [OfType(objects, "player") -> [DOMAIN objects -> Views]]
    BY RoomFields DEF IInv, Living, Sound, RoomType
  <2>2. Agree(Room)
    BY DEF IInv, Living, Sound
  <2>3. QED
    BY <2>1, <2>2, RoomFields DEF HpKnownWhileAlive, Agree
<1>2. QED
  BY <1>1, InductiveInvariant, PTL

-----------------------------------------------------------------------------
(* Where objects go *)

\* How objects may move between two rooms.
Walks(a, b) ==
    \A id \in DOMAIN a \cap DOMAIN b :
        LET from == a[id].pos
            to == b[id].pos
        IN  \/ to = from
            \/ /\ Distance(from, to) = 1 /\ to \in Cells \ Walls
               /\ \A other \in DOMAIN a : a[other].pos # to
            \/ to = SpawnCell /\ a[id].type = "player" /\ b[id].hp = MaxHp

\* The same objects in the same places.
Stay(a, b) ==
    /\ DOMAIN a = DOMAIN b
    /\ \A id \in DOMAIN a : b[id].pos = a[id].pos /\ b[id].type = a[id].type

LEMMA StayThenWalk ==
    ASSUME NEW a, NEW b, NEW c, Stay(a, b), Walks(b, c)
    PROVE  Walks(a, c)
  BY DEF Stay, Walks

LEMMA WalkThenStay ==
    ASSUME NEW a, NEW b, NEW c, Walks(a, b), Stay(b, c),
           \A id \in DOMAIN b : c[id].hp = b[id].hp
    PROVE  Walks(a, c)
  BY DEF Stay, Walks

LEMMA StayThenStay ==
    ASSUME NEW a, NEW b, NEW c, Stay(a, b), Stay(b, c)
    PROVE  Stay(a, c)
  BY DEF Stay

LEMMA OneStep ==
    ASSUME NEW c \in Cells, NEW dir \in Dirs
    PROVE  Distance(c, Ahead(c, dir)) = 1
<1>1. c[1] \in Int /\ c[2] \in Int
  BY CellsAssumption
<1> QED
  BY <1>1 DEF Distance, Abs, Ahead, Dirs

\* An object that turns, or changes what it is doing, stays where it is.
LEMMA ChangeStays ==
    ASSUME NEW objs, objs \in [DOMAIN objs -> Info], NEW id \in DOMAIN objs, NEW info,
           info.pos = objs[id].pos, info.type = objs[id].type
    PROVE  Stay(objs, [objs EXCEPT ![id] = info])
  BY DEF Stay

\* One that goes a step ahead walks.
LEMMA ChangeWalks ==
    ASSUME NEW objs, objs \in [DOMAIN objs -> Info], NEW id \in DOMAIN objs, NEW info,
           NEW dir \in Dirs, info.pos = Ahead(objs[id].pos, dir), CanGo(objs, info.pos)
    PROVE  Walks(objs, [objs EXCEPT ![id] = info])
<1> DEFINE to == info.pos
           new == [objs EXCEPT ![id] = info]
<1>1. objs[id].pos \in Cells
  BY DEF Info
<1>2. Distance(objs[id].pos, to) = 1
  BY <1>1, OneStep
<1>3. to \in Cells \ Walls /\ \A other \in DOMAIN objs : objs[other].pos # to
  BY DEF CanGo
<1>4. new[id] = info /\ \A k \in DOMAIN objs : k # id => new[k] = objs[k]
  OBVIOUS
<1>5. DOMAIN new = DOMAIN objs
  OBVIOUS
<1> HIDE DEF new
<1>6. Walks(objs, new)
  BY <1>2, <1>3, <1>4, <1>5 DEF Walks
<1> QED
  BY <1>6 DEF new

\* A hit moves nobody, unless somebody dies of it.
LEMMA AttackWalks ==
    ASSUME NEW r, Living(r), NEW a, NEW t, NEW q \in Handle_C_Attack(r, a, t)
    PROVE  Walks(r.objs, q.objs)
<1>1. CASE q = r
  BY <1>1 DEF Walks
<1>2. CASE q # r
  <2> DEFINE damage == Damage(r.objs[a], r.objs[t])
             hit == Hit(r, a, t, damage)
  <2>1. /\ a \in DOMAIN r.objs /\ t \in DOMAIN r.objs
        /\ WithinBounds(r, t, damage)
        /\ IF hit.objs[t].hp > 0 THEN q = hit
           ELSE IF hit.objs[t].type = "monster" THEN q \in MonsterDies(hit, t)
           ELSE q \in PlayerDies(hit, t)
    BY <1>2, Zenon DEF Handle_C_Attack
  <2>2. /\ Sound(r) /\ r.objs \in [DOMAIN r.objs -> Info]
        /\ r.objs[a] \in Info /\ r.objs[t] \in Info
    BY <2>1 DEF Living, Sound, RoomType
  <2>3. damage \in Nat
    BY <2>2, DamagePositive
  <2>4. hit.objs[t].pos = r.objs[t].pos
    BY <2>1, <2>2 DEF Hit, Info
  <2> HIDE DEF damage
  <2>5. /\ Nearly(hit, t)
        /\ hit.next = r.next /\ DOMAIN hit.objs = DOMAIN r.objs
        /\ hit.objs[t].type = r.objs[t].type
        /\ \A k \in DOMAIN r.objs : k # t => hit.objs[k] = r.objs[k]
    BY <2>1, <2>2, <2>3, HitNearlySound
  <2>6. hit.next <= MaxId
    BY <2>1, <2>5 DEF WithinBounds
  <2> HIDE DEF hit
  <2>7. Stay(r.objs, hit.objs)
    BY <2>4, <2>5 DEF Stay
  <2>8. CASE q = hit
    BY <2>7, <2>8 DEF Walks, Stay
  <2>9. CASE q \in MonsterDies(hit, t)
    <3> DEFINE gone == RemoveObject(hit, t)
    <3>1. /\ Sound(gone) /\ gone.next = hit.next
          /\ DOMAIN gone.objs = DOMAIN hit.objs \ {t}
          /\ \A k \in DOMAIN gone.objs : gone.objs[k] = hit.objs[k]
      BY <2>1, <2>5, RemoveObjectSound
    <3> HIDE DEF gone
    <3>2. PICK c \in RandomEmptyCells(gone.objs) :
              q = AddObject([gone EXCEPT !.next = @ + 1], gone.next, NewMonster(c))
      BY <2>9 DEF MonsterDies, gone
    <3>3. c \in Cells /\ gone.next <= MaxId
      BY <3>1, <2>6, CellsAssumption DEF RandomEmptyCells
    <3>4. /\ DOMAIN q.objs = DOMAIN gone.objs \cup {gone.next}
          /\ \A k \in DOMAIN gone.objs : q.objs[k] = gone.objs[k]
      BY <3>1, <3>2, <3>3, AddMonsterSound, Zenon
    <3>5. gone.next \notin DOMAIN hit.objs
      BY <3>1, <2>5 DEF Nearly, RoomType
    <3>6. Walks(hit.objs, q.objs)
      BY <3>1, <3>4, <3>5 DEF Walks
    <3> QED
      BY <3>6, <2>7, StayThenWalk
  <2>10. CASE hit.objs[t].type = "player" /\ q \in PlayerDies(hit, t)
    <3> DEFINE info == SetCellPos([hit.objs[t] EXCEPT !.hp = MaxHp], SpawnCell)
    <3>1. hit.objs[t] \in Info /\ hit.objs \in [DOMAIN hit.objs -> Info] /\ t \in DOMAIN hit.objs
      BY <2>1, <2>5 DEF Nearly, RoomType
    <3>2. info.pos = SpawnCell /\ info.hp = MaxHp
      BY <3>1 DEF SetCellPos, Info
    <3>3. q = Change(hit, t, info)
      BY <2>10 DEF PlayerDies
    <3> HIDE DEF info
    <3>4. q.objs = [hit.objs EXCEPT ![t] = info]
      BY <3>3, <2>5 DEF Change, Nearly, RoomType
    <3>5. q.objs[t] = info /\ \A k \in DOMAIN hit.objs : k # t => q.objs[k] = hit.objs[k]
      BY <3>1, <3>4
    <3>6. Walks(hit.objs, q.objs)
      BY <3>2, <3>4, <3>5, <2>10 DEF Walks
    <3> QED
      BY <3>6, <2>7, StayThenWalk
  <2> QED
    BY <2>1, <2>2, <2>5, <2>8, <2>9, <2>10 DEF Info, Types
<1> QED
  BY <1>1, <1>2

LEMMA MonsterAttacksWalks ==
    ASSUME NEW r, Living(r), NEW m \in DOMAIN r.objs, NEW target,
           NEW q \in MonsterAttacks(r, m, target)
    PROVE  Walks(r.objs, q.objs)
<1> DEFINE turned == SetDir(r.objs[m], GetLookAtDir(r.objs[m].pos, r.objs[target].pos))
           facing == IF turned = r.objs[m] THEN r ELSE ChangeAloud(r, m, turned)
           ready == ChangeAloud(facing, m, SetState(facing.objs[m], "skill"))
<1>1. Sound(r) /\ r.objs[m] \in Info /\ r.objs \in [DOMAIN r.objs -> Info]
  BY DEF Living, Sound, RoomType
<1>2. /\ Follows(r.objs[m], turned)
      /\ turned.pos = r.objs[m].pos /\ turned.type = r.objs[m].type
  BY <1>1, LookAtDir DEF Follows, SetDir, Info
<1> HIDE DEF turned
<1>3. /\ Sound(facing) /\ SameCast(r, facing) /\ m \in DOMAIN facing.objs
      /\ Stay(r.objs, facing.objs)
  <2>1. CASE turned = r.objs[m]
    BY <1>1, <2>1 DEF SameCast, Stay
  <2>2. CASE turned # r.objs[m]
    <3>1. /\ Sound(ChangeAloud(r, m, turned)) /\ SameCast(r, ChangeAloud(r, m, turned))
          /\ ChangeAloud(r, m, turned).objs = [r.objs EXCEPT ![m] = turned]
      BY <1>1, <1>2, ChangeAloudSound
    <3>2. facing = ChangeAloud(r, m, turned)
      BY <2>2
    <3>3. Stay(r.objs, [r.objs EXCEPT ![m] = turned])
      BY <1>1, <1>2, ChangeStays
    <3> QED
      BY <3>1, <3>2, <3>3 DEF SameCast
  <2> QED
    BY <2>1, <2>2
<1> HIDE DEF facing
<1>4. facing.objs[m] \in Info /\ facing.objs \in [DOMAIN facing.objs -> Info]
  BY <1>3 DEF Sound, RoomType
<1> DEFINE skilled == SetState(facing.objs[m], "skill")
<1>5. /\ Follows(facing.objs[m], skilled)
      /\ skilled.pos = facing.objs[m].pos /\ skilled.type = facing.objs[m].type
  BY <1>4 DEF Follows, SetState, Info, States
<1> HIDE DEF skilled
<1>6. Sound(ready) /\ SameCast(facing, ready) /\ Stay(facing.objs, ready.objs)
  <2>1. /\ Sound(ChangeAloud(facing, m, skilled))
        /\ SameCast(facing, ChangeAloud(facing, m, skilled))
        /\ ChangeAloud(facing, m, skilled).objs = [facing.objs EXCEPT ![m] = skilled]
    BY <1>3, <1>5, ChangeAloudSound
  <2>2. Stay(facing.objs, [facing.objs EXCEPT ![m] = skilled])
    BY <1>3, <1>4, <1>5, ChangeStays
  <2> QED
    BY <2>1, <2>2 DEF skilled
<1> HIDE DEF ready
<1>7. Living(ready) /\ Stay(r.objs, ready.objs)
  BY <1>3, <1>6, SameCastTransitive, SameCastLiving, StayThenStay
<1>8. q \in Handle_C_Attack(ready, m, target)
  BY DEF MonsterAttacks, ready, facing, turned
<1> QED
  BY <1>7, <1>8, AttackWalks, StayThenWalk

LEMMA MonsterApproachesWalks ==
    ASSUME NEW r, Living(r), NEW m \in DOMAIN r.objs, NEW q \in MonsterApproaches(r, m)
    PROVE  Walks(r.objs, q.objs)
<1> DEFINE moved(dir) == SetCellPos(SetDir(r.objs[m], dir), Ahead(r.objs[m].pos, dir))
<1>1. Sound(r) /\ r.objs[m] \in Info /\ r.objs \in [DOMAIN r.objs -> Info]
      /\ r = [objs |-> r.objs, told |-> r.told, next |-> r.next]
  BY DEF Living, Sound, RoomType
<1>2. \/ q = r
      \/ q = BroadcastMove(r, m)
      \/ \E dir \in Dirs :
            /\ CanGo(r.objs, Ahead(r.objs[m].pos, dir))
            /\ q = Change(ChangeAloud(r, m, moved(dir)), m, SetState(moved(dir), "move"))
  BY DEF MonsterApproaches
<1>3. CASE q.objs = r.objs
  BY <1>3 DEF Walks
<1>4. CASE q = BroadcastMove(r, m)
  BY <1>1, <1>3, <1>4, BroadcastMoveSound
<1>5. ASSUME NEW dir \in Dirs, CanGo(r.objs, Ahead(r.objs[m].pos, dir)),
             q = Change(ChangeAloud(r, m, moved(dir)), m, SetState(moved(dir), "move"))
      PROVE  Walks(r.objs, q.objs)
  <2> DEFINE info == SetState(moved(dir), "move")
  <2>1. info.pos = Ahead(r.objs[m].pos, dir)
    <3> DEFINE a == SetDir(r.objs[m], dir)
               c == Ahead(r.objs[m].pos, dir)
    <3>1. a \in Info
      BY <1>1 DEF SetDir, Info
    <3> HIDE DEF a
    <3>2. c \in Cells
      BY <1>5, FreeCells
    <3> HIDE DEF c
    <3>3. SetCellPos(a, c) \in Info /\ SetCellPos(a, c).pos = c
      BY <3>1, <3>2 DEF SetCellPos, Info
    <3> DEFINE b == SetCellPos(a, c)
    <3> HIDE DEF b
    <3>4. SetState(b, "move").pos = b.pos
      BY <3>3 DEF SetState, Info, b
    <3> QED
      BY <3>3, <3>4 DEF a, b, c
  <2>2. q.objs = [r.objs EXCEPT ![m] = info]
    <3> HIDE DEF info
    <3>1. q = Change(ChangeAloud(r, m, moved(dir)), m, info)
      BY <1>5 DEF info
    <3> HIDE DEF moved
    <3> DEFINE old == r.objs
    <3>2. q.objs = [[old EXCEPT ![m] = moved(dir)] EXCEPT ![m] = info]
      BY <3>1, <1>1 DEF Change, ChangeAloud, BroadcastMove
    <3> QED
      BY <3>2, <1>1
  <2> HIDE DEF info
  <2> QED
    BY <2>1, <2>2, <1>1, <1>5, ChangeWalks
<1> QED
  BY <1>2, <1>3, <1>4, <1>5

LEMMA MonsterUpdateWalks ==
    ASSUME NEW r, Living(r), NEW m \in DOMAIN r.objs, NEW q \in MonsterUpdate(r, m)
    PROVE  Walks(r.objs, q.objs)
<1>1. CASE q = r
  BY <1>1 DEF Walks
<1>2. CASE q = Change(r, m, SetState(r.objs[m], "idle"))
  <2> DEFINE info == SetState(r.objs[m], "idle")
  <2>1. Sound(r) /\ r.objs[m] \in Info /\ r.objs \in [DOMAIN r.objs -> Info]
    BY DEF Living, Sound, RoomType
  <2>2. /\ Follows(r.objs[m], info)
        /\ info.pos = r.objs[m].pos /\ info.type = r.objs[m].type
    BY <2>1 DEF Follows, SetState, Info, States
  <2>3. q = Change(r, m, info)
    BY <1>2
  <2> HIDE DEF info
  <2>4. q.objs = [r.objs EXCEPT ![m] = info]
    BY <2>1, <2>2, <2>3, ChangeSound
  <2>5. Stay(r.objs, q.objs)
    BY <2>1, <2>2, <2>4, ChangeStays
  <2> QED
    BY <2>5 DEF Stay, Walks
<1>3. ASSUME NEW target, q \in MonsterAttacks(r, m, target)
      PROVE  Walks(r.objs, q.objs)
  BY <1>3, MonsterAttacksWalks
<1>4. CASE q \in MonsterApproaches(r, m)
  BY <1>4, MonsterApproachesWalks
<1>5. \/ q = r \/ q = Change(r, m, SetState(r.objs[m], "idle"))
      \/ \E target : q \in MonsterAttacks(r, m, target)
      \/ q \in MonsterApproaches(r, m)
  BY Zenon DEF MonsterUpdate, MonsterIdle
<1> QED
  BY <1>1, <1>2, <1>3, <1>4, <1>5

LEMMA BroadcastStays ==
    ASSUME NEW r, Living(r)
    PROVE  /\ Stay(r.objs, BroadcastGameState(r).objs)
           /\ \A id \in DOMAIN r.objs : BroadcastGameState(r).objs[id].hp = r.objs[id].hp
<1>1. r.objs \in [DOMAIN r.objs -> Info]
  BY DEF Living, Sound, RoomType
<1> DEFINE old == r.objs
<1>2. BroadcastGameState(r).objs = Unmarked(old)
  BY DEF BroadcastGameState
<1> QED
  BY <1>1, <1>2 DEF Unmarked, Stay, Info

\* Nobody walks through walls or objects: an object that stays in the room
\* changes its place only to a free neighbouring cell, or, as a player who has
\* just died, to the place where players start.
THEOREM MovesAreIntoFreeCells == Spec => MovesIntoFreeCells
<1>1. IInv /\ [Next]_vars => [Walks(objects, objects')]_vars
  <2> SUFFICES ASSUME IInv, Next
               PROVE  Walks(objects, objects')
    OBVIOUS
  <2>1. Living(Room) /\ Room.objs = objects /\ objects \in [DOMAIN objects -> Info]
    BY RoomFields DEF IInv, Living, Sound, RoomType
  <2>2. ASSUME NEW s \in Sessions, EnterRoom(s)
        PROVE  Walks(objects, objects')
    <3>1. objects' = Put(objects, nextId, NewPlayer)
      BY <2>2 DEF EnterRoom, Become, AddObject
    <3>2. nextId \notin DOMAIN objects
      BY <2>1, RoomFields DEF Living, Sound, RoomType
    <3> QED
      BY <3>1, <3>2 DEF Put, Walks
  <2>3. ASSUME NEW s \in Sessions, LeaveRoom(s)
        PROVE  Walks(objects, objects')
    <3>1. objects' = objects \/ objects' = Drop(objects, player[s])
      BY <2>3 DEF LeaveRoom, Become, RemoveObject, Room
    <3> QED
      BY <3>1 DEF Drop, Walks
  <2>4. ASSUME NEW s \in Sessions, Stop(s)
        PROVE  Walks(objects, objects')
    <3> DEFINE id == player[s]
               info == SetState(objects[id], "idle")
    <3>1. id \in DOMAIN objects /\ objects[id] \in Info
      BY <2>1, <2>4 DEF Stop, IInv, PlayersOK, OfType
    <3>2. info.pos = objects[id].pos /\ info.type = objects[id].type
      BY <3>1 DEF SetState, Info
    <3>3. objects' = [objects EXCEPT ![id] = info]
      BY <2>4 DEF Stop, Become, Change, Room
    <3> HIDE DEF info
    <3>4. Stay(objects, objects')
      BY <2>1, <3>1, <3>2, <3>3, ChangeStays
    <3> QED
      BY <3>4 DEF Stay, Walks
  <2>5. ASSUME NEW s \in Sessions, NEW dir \in InputDirs, Move(s, dir)
        PROVE  Walks(objects, objects')
    <3> DEFINE id == player[s]
               cell == Ahead(objects[id].pos, dir)
               moved == SetCellPos(SetDir(SetState(objects[id], "move"), dir), cell)
               turned == SetState(SetDir(objects[id], dir), "idle")
    <3>1. id \in DOMAIN objects /\ objects[id] \in Info /\ dir \in Dirs
      BY <2>1, <2>5, StatsAssumption DEF Move, IInv, PlayersOK, OfType
    <3>2. moved.pos = cell
      BY <3>1 DEF SetCellPos, SetDir, SetState, Info
    <3>3. turned.pos = objects[id].pos /\ turned.type = objects[id].type
      BY <3>1 DEF SetDir, SetState, Info
    <3>4. objects' = [objects EXCEPT ![id] = IF CanGo(objects, cell) THEN moved ELSE turned]
      BY <2>5 DEF Move, Become, Change, Room
    <3> HIDE DEF moved, turned
    <3>5. CASE CanGo(objects, cell)
      <4>1. objects' = [objects EXCEPT ![id] = moved]
        BY <3>4, <3>5
      <4> QED
        BY <4>1, <2>1, <3>1, <3>2, <3>5, ChangeWalks
    <3>6. CASE ~CanGo(objects, cell)
      <4>1. objects' = [objects EXCEPT ![id] = turned]
        BY <3>4, <3>6
      <4>2. Stay(objects, objects')
        BY <4>1, <2>1, <3>1, <3>3, ChangeStays
      <4> QED
        BY <4>2 DEF Stay, Walks
    <3> QED
      BY <3>5, <3>6
  <2>6. ASSUME NEW s \in Sessions, NEW target, ClientAttacks(s, target)
        PROVE  Walks(objects, objects')
    <3>1. PICK q \in Handle_C_Attack(Room, player[s], target) : Become(q)
      BY <2>6 DEF ClientAttacks
    <3> QED
      BY <3>1, <2>1, AttackWalks DEF Become
  <2>7. CASE Update
    <3>1. PICK m \in OfType(objects, "monster"), elapsed \in BOOLEAN :
             \E r \in MonsterUpdate(Room, m) :
                Become(IF elapsed THEN BroadcastGameState(r) ELSE r)
      BY <2>7 DEF Update
    <3>2. PICK r \in MonsterUpdate(Room, m) :
              Become(IF elapsed THEN BroadcastGameState(r) ELSE r)
      BY <3>1
    <3>3. m \in DOMAIN Room.objs
      BY RoomFields DEF OfType
    <3>4. Living(r) /\ Walks(objects, r.objs)
      BY <2>1, <3>3, MonsterUpdateLiving, MonsterUpdateWalks
    <3>5. Walks(objects, BroadcastGameState(r).objs)
      BY <3>4, BroadcastStays, WalkThenStay
    <3>6. objects' = BroadcastGameState(r).objs \/ objects' = r.objs
      BY <3>2 DEF Become
    <3> QED
      BY <3>4, <3>5, <3>6
  <2> QED
    BY <2>2, <2>3, <2>4, <2>5, <2>6, <2>7 DEF Next
<1>2. [Walks(objects, objects')]_vars
        => [\A id \in DOMAIN objects \cap DOMAIN objects' :
              LET from == objects[id].pos
                  to == objects'[id].pos
              IN  \/ to = from
                  \/ /\ Distance(from, to) = 1 /\ to \in Cells \ Walls
                     /\ \A other \in DOMAIN objects : objects[other].pos # to
                  \/ to = SpawnCell /\ objects[id].type = "player"
                        /\ objects'[id].hp = MaxHp]_vars
  BY DEF Walks
<1> QED
  BY <1>1, <1>2, InductiveInvariant, PTL DEF Spec, MovesIntoFreeCells
=============================================================================
