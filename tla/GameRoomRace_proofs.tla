------------------------ MODULE GameRoomRace_proofs ------------------------
(***************************************************************************)
(* Proofs about the unlocked room, for any map, any number of threads and  *)
(* sessions and any stats: what the runs find on a corridor holds always.  *)
(*                                                                         *)
(* Most steps of a handler neither move an object nor tell anybody about   *)
(* one.  Steady says what they have in common, and each property is shown  *)
(* once for all of them; the steps that are left have a lemma each.        *)
(***************************************************************************)
EXTENDS GameRoomRace, SequenceTheorems, TLAPS

\* Where a call has an id.
Named == {"insert", "tell added", "erase", "tell removed", "place", "mark",
          "tell moved", "attack", "wound", "revive", "tell state", "unmark"}
\* Where it carries the copy of a place.
Carrying == {"tell added", "tell moved", "tell state"}

\* An id is given to one object, by the one thread that inserts it; a client
\* exists as long as its player is in the room or about to be.
IdsOK ==
    /\ \A t \in Threads : call[t].at \in Named => call[t].id < nextId
    /\ \A t, u \in Threads :
          call[t].at = "insert" /\ call[u].at \in Named /\ t # u =>
              call[u].id # call[t].id
    /\ \A t, u \in Threads :
          call[t].at = "tell added" /\ call[u].at = "tell added" /\ t # u =>
              call[u].id # call[t].id
    /\ \A t \in Threads : call[t].at \in {"insert", "tell removed"} =>
          call[t].id \notin DOMAIN objects
    /\ \A p \in DOMAIN told : p \in Listeners \cup Entering
    /\ \A p \in Listeners \cup Entering : p \in DOMAIN told

\* The call is about to put an object into the cell.
Claims(c, cell) ==
    \/ c.at = "place" /\ c.cell = cell
    \/ c.at = "insert" /\ c.info.pos = cell

\* Who claims a cell that is taken, or that another one claims too, does so
\* where it is excused.
SharedOK ==
    /\ SharedCellsContested
    /\ \A t \in Threads : \A a \in DOMAIN objects :
          Claims(call[t], objects[a].pos) /\ call[t].id # a =>
              objects[a].pos \in contested \cup Unchecked
    /\ \A t, u \in Threads : \A cell \in Cells :
          t # u /\ Claims(call[t], cell) /\ Claims(call[u], cell) =>
              cell \in contested \cup Unchecked

\* A copy of a place is right, or somebody has changed the place since.
CopiesOK ==
    \A t \in Threads :
        /\ call[t].at \in Carrying =>
              \/ call[t].id \in raced
              \/ call[t].id \in DOMAIN objects /\ objects[call[t].id].pos = call[t].pos
        /\ call[t].at = "unmark" =>
              call[t].id \in raced \/ call[t].id \in DOMAIN objects

\* All actors of a client with one id stand in one cell.
AllAt(places, cell) == \A i \in DOMAIN places : places[i] = cell

\* What is about to be declared delivered has been.
SentOK ==
    \A t \in Threads : call[t].at = "unmark" =>
        \A p \in DOMAIN told :
            call[t].id \in DOMAIN told[p] /\ call[t].id \in DOMAIN objects =>
                \/ AllAt(told[p][call[t].id], objects[call[t].id].pos)
                \/ call[t].id \in raced \/ <<p, call[t].id>> \in missed \cup crossed

\* KnowsWhoIsThere and FreshUnlessRaced for the clients that are entering too;
\* before an object is in the room only its own client knows of it.
ViewOK(p) ==
    /\ \A id \in DOMAIN objects \ DOMAIN told[p] :
          <<p, id>> \in missed \/ Announcing(id, "tell added")
    /\ \A id \in DOMAIN told[p] \ DOMAIN objects :
          \/ id = p \/ <<p, id>> \in missed \cup crossed \/ id \in raced
          \/ Announcing(id, "tell removed")
    /\ \A id \in DOMAIN told[p] \cap DOMAIN objects :
          \/ AllAt(told[p][id], objects[id].pos)
          \/ objects[id].dirty \/ Announcing(id, "mark")
          \/ id \in raced \/ <<p, id>> \in missed \cup crossed
    /\ \A t \in Threads : call[t].at = "insert" /\ call[t].id \in DOMAIN told[p] =>
          p = call[t].id /\ told[p][p] = <<call[t].info.pos>>

ViewsOK == \A p \in DOMAIN told : ViewOK(p)

\* A client has its own player.  Who knows an object before it is announced is
\* its own client, or is told of it twice; only then it has two actors for it.
DoubleOK(p) ==
    /\ p \in DOMAIN told[p]
    /\ \A id \in DOMAIN told[p] : Len(told[p][id]) > 1 => <<p, id>> \in crossed
    /\ \A t \in Threads : call[t].at = "tell added" /\ call[t].id \in DOMAIN told[p] =>
          p = call[t].id \/ <<p, call[t].id>> \in crossed

DoublesOK == \A p \in DOMAIN told : DoubleOK(p)

\* The players of the sessions are players, and only they are removed without
\* being replaced.
MonsterOK ==
    /\ MonsterRemains
    /\ \A s \in Sessions : player[s] \in DOMAIN objects =>
          objects[player[s]].type = "player"
    /\ \A t \in Threads : \A s \in Sessions :
          call[t].at = "insert" /\ call[t].id = player[s] => call[t].info.type = "player"
    /\ \A t \in Threads : call[t].at = "erase" /\ ~call[t].respawn =>
          \E s \in Sessions : call[t].id = player[s]

DeathOK ==
    /\ DeathIsHandled
    /\ \A t \in Threads : call[t].at = "insert" => call[t].info.hp = MaxHp

InductiveInvariant ==
    /\ TypeOK /\ IdsOK /\ SharedOK /\ CopiesOK /\ SentOK /\ ViewsOK
    /\ DoublesOK /\ MonsterOK /\ DeathOK

-----------------------------------------------------------------------------
(* Calls *)

LEMMA CallFields ==
    ASSUME NEW c \in Calls
    PROVE  /\ c.at \in Named \cup {"idle", "respawn", "survey"}
           /\ c.at \in Named => c.id \in Ids
           /\ c.at = "insert" => c.info \in Info
           /\ c.at \in Carrying => c.pos \in Cells
           /\ c.at \in {"erase", "tell removed"} => c.respawn \in BOOLEAN
           /\ c.at = "place" => c.cell \in Cells
           /\ c.at \in {"place", "mark"} => c.aloud \in BOOLEAN
           /\ c.at = "tell moved" => c.target \in {0} \cup Ids
           /\ c.at = "attack" => c.target \in Ids
           /\ c.at = "wound" => c.type \in Types /\ c.hp \in 0..MaxHp
           /\ c.at \in {"survey", "tell state", "unmark"} => c.left \in SUBSET Ids
  BY DEF Calls, Named, Carrying

LEMMA InitHolds == Init => InductiveInvariant
<1> SUFFICES ASSUME Init PROVE InductiveInvariant
  OBVIOUS
<1>1. /\ \A t \in Threads : call[t].at = "idle"
      /\ told = [p \in {} |-> {}] /\ DOMAIN told = {}
      /\ DOMAIN objects = {1} /\ objects[1] = NewMonster(MonsterCell)
      /\ objects[1].type = "monster" /\ objects[1].hp = MaxHp
      /\ player = [s \in Sessions |-> 0]
  BY DEF Init, Idle, NewMonster
<1>2. TypeOK
  BY CellsAssumption, StatsAssumption
  DEF Init, TypeOK, NewMonster, Info, Types, Ids, Calls, Idle
<1>3. IdsOK
  BY <1>1 DEF IdsOK, Listeners, OfType, Entering, Named
<1>4. SharedOK
  BY <1>1 DEF SharedOK, SharedCellsContested, Claims
<1>5. CopiesOK /\ SentOK /\ ViewsOK /\ DoublesOK
  BY <1>1 DEF CopiesOK, SentOK, ViewsOK, DoublesOK, Carrying
<1>6. MonsterOK
  <2>1. 1 \in OfType(objects, "monster")
    BY <1>1 DEF OfType
  <2>2. \A s \in Sessions : player[s] \notin DOMAIN objects
    BY <1>1
  <2> QED
    BY <1>1, <2>1, <2>2 DEF MonsterOK, MonsterRemains
<1>7. DeathOK
  BY <1>1, StatsAssumption DEF DeathOK, DeathIsHandled
<1> QED
  BY <1>2, <1>3, <1>4, <1>5, <1>6, <1>7 DEF InductiveInvariant

-----------------------------------------------------------------------------
(* Steps that keep the cast: who is there, where, and who is told *)

\* Thread t goes on with next.  Objects come, go and move in other steps; who
\* loses its last hp is handled by t next, and a replacement is not forgotten.
SameCast(t, next) ==
    /\ call' = [call EXCEPT ![t] = next]
    /\ UNCHANGED <<nextId, player>>
    /\ DOMAIN objects' = DOMAIN objects /\ DOMAIN told' = DOMAIN told
    /\ \A id \in DOMAIN objects :
          /\ objects'[id].type = objects[id].type
          /\ objects'[id].hp = 0 =>
                \/ /\ objects[id].hp = 0
                   /\ ~(call[t].at \in {"erase", "revive"} /\ call[t].id = id)
                \/ next.at = "revive" /\ next.id = id
                \/ next.at = "erase" /\ next.id = id /\ next.respawn
    /\ call[t].at \notin {"insert", "respawn"}
    /\ next.at \notin {"insert", "tell added", "tell removed"}
    /\ call[t].at = "tell removed" /\ call[t].respawn => next.at = "respawn"
    /\ next.at \in Named =>
          \/ next.id \in DOMAIN objects
          \/ call[t].at \in Named /\ next.id = call[t].id
    /\ next.at = "erase" =>
          next.respawn \/ \E s \in Sessions : next.id = player[s]

\* Nobody moves, and a cell that is to be taken is free, or excused.
SamePlaces(t, next) ==
    /\ \A id \in DOMAIN objects : objects'[id].pos = objects[id].pos
    /\ contested \subseteq contested'
    /\ next.at = "place" =>
          \/ next.cell \in contested' \cup Unchecked
          \/ /\ \A id \in DOMAIN objects : objects[id].pos # next.cell
             /\ \A u \in Threads : ~Claims(call[u], next.cell)

LEMMA SameCastHolds ==
    ASSUME InductiveInvariant, NEW t \in Threads, NEW next \in Calls, SameCast(t, next)
    PROVE  /\ Listeners' = Listeners /\ Entering' = Entering
           /\ IdsOK' /\ MonsterOK' /\ DeathOK'
<1> USE DEF InductiveInvariant
<1>1. /\ call' \in [Threads -> Calls] /\ call'[t] = next
      /\ \A u \in Threads : u # t => call'[u] = call[u]
  BY DEF SameCast, TypeOK
<1>2. /\ call[t].at \notin {"insert", "respawn"}
      /\ next.at \notin {"insert", "tell added", "tell removed"}
      /\ UNCHANGED <<nextId, player>>
  BY DEF SameCast
<1>3. /\ DOMAIN objects' = DOMAIN objects /\ DOMAIN told' = DOMAIN told
      /\ \A id \in DOMAIN objects : objects'[id].type = objects[id].type
  BY DEF SameCast
<1>4. Listeners' = Listeners
  BY <1>3 DEF Listeners, OfType
<1>5. Entering' = Entering
  <2>1. \A u \in Threads :
          /\ call'[u].at = "insert" => call'[u] = call[u]
          /\ call[u].at = "insert" => call'[u] = call[u]
    BY <1>1, <1>2
  <2>2. Threads' = Threads
    BY DEF Threads
  <2> QED
    BY <2>1, <2>2 DEF Entering
<1>6. IdsOK'
  <2>1. next.at \in Named => \/ next.id \in DOMAIN objects
                             \/ call[t].at \in Named /\ next.id = call[t].id
    BY DEF SameCast
  <2>2. \A id \in DOMAIN objects : id < nextId
    BY StatsAssumption DEF TypeOK
  <2>3. next.at \in Named => next.id < nextId
    BY <2>1, <2>2 DEF IdsOK
  <2>4. \A u \in Threads : call'[u].at \in Named => call'[u].id < nextId
    BY <1>1, <2>3 DEF IdsOK
  <2>5. \A u \in Threads : call'[u].at \in {"insert", "tell removed"} =>
            u # t /\ call[u] = call'[u] /\ call'[u].id \notin DOMAIN objects
    BY <1>1, <1>2 DEF IdsOK
  <2>6. ASSUME NEW u \in Threads, NEW v \in Threads, u # v,
               call'[u].at = "insert", call'[v].at \in Named
        PROVE  call'[v].id # call'[u].id
    <3>1. CASE v # t
      BY <1>1, <2>5, <2>6, <3>1 DEF IdsOK
    <3>2. CASE v = t
      BY <1>1, <2>1, <2>5, <2>6, <3>2 DEF IdsOK
    <3> QED
      BY <3>1, <3>2
  <2>7. \A u \in Threads : call'[u].at = "tell added" => u # t /\ call'[u] = call[u]
    BY <1>1, <1>2
  <2>8. \A u, v \in Threads :
          call'[u].at = "tell added" /\ call'[v].at = "tell added" /\ u # v =>
              call'[v].id # call'[u].id
    BY <2>7 DEF IdsOK
  <2> QED
    BY <1>2, <1>3, <1>4, <1>5, <2>4, <2>5, <2>6, <2>8 DEF IdsOK
<1>7. MonsterOK'
  <2>1. OfType(objects, "monster")' = OfType(objects, "monster")
    BY <1>3 DEF OfType
  <2>2. MonsterRemains'
    <3>1. CASE OfType(objects, "monster") # {}
      BY <2>1, <3>1 DEF MonsterRemains
    <3>2. CASE \E u \in Threads :
                  \/ call[u].at = "tell removed" /\ call[u].respawn
                  \/ call[u].at = "respawn"
                  \/ call[u].at = "insert" /\ call[u].info.type = "monster"
      <4>1. PICK u \in Threads :
                  \/ call[u].at = "tell removed" /\ call[u].respawn
                  \/ call[u].at = "respawn"
                  \/ call[u].at = "insert" /\ call[u].info.type = "monster"
        BY <3>2
      <4>2. CASE u # t
        <5>1. call'[u] = call[u]
          BY <1>1, <4>2
        <5> QED
          BY <4>1, <5>1 DEF MonsterRemains, Threads
      <4>3. CASE u = t
        <5>1. call'[t].at = "respawn"
          BY <1>1, <1>2, <4>1, <4>3 DEF SameCast
        <5> QED
          BY <5>1 DEF MonsterRemains, Threads
      <4> QED
        BY <4>2, <4>3
    <3> QED
      BY <3>1, <3>2 DEF MonsterOK, MonsterRemains
  <2>3. \A u \in Threads : call'[u].at = "erase" /\ ~call'[u].respawn =>
          \E s \in Sessions : call'[u].id = player[s]
    BY <1>1, <1>2 DEF MonsterOK, SameCast
  <2>4. \A u \in Threads : call'[u].at = "insert" => call'[u] = call[u]
    BY <1>1, <1>2
  <2>5. \A s \in Sessions : player[s] \in DOMAIN objects =>
          objects'[player[s]].type = "player"
    BY <1>3 DEF MonsterOK
  <2>6. \A u \in Threads : \A s \in Sessions :
          call'[u].at = "insert" /\ call'[u].id = player[s] =>
              call'[u].info.type = "player"
    BY <2>4 DEF MonsterOK
  <2> QED
    BY <1>2, <1>3, <2>2, <2>3, <2>5, <2>6 DEF MonsterOK
<1>8. DeathOK'
  <2>1. ASSUME NEW id \in DOMAIN objects, objects'[id].hp = 0
        PROVE  \E u \in Threads :
                  /\ call'[u].at \in {"erase", "revive"} /\ call'[u].id = id
                  /\ call'[u].at = "erase" => call'[u].respawn
    <3>1. CASE objects[id].hp = 0 /\ ~(call[t].at \in {"erase", "revive"} /\ call[t].id = id)
      <4>1. PICK u \in Threads : /\ call[u].at \in {"erase", "revive"} /\ call[u].id = id
                                 /\ call[u].at = "erase" => call[u].respawn
        BY <3>1 DEF DeathOK, DeathIsHandled
      <4>2. u # t
        BY <1>2, <3>1, <4>1
      <4> QED
        BY <1>1, <4>1, <4>2
    <3>2. CASE \/ next.at = "revive" /\ next.id = id
               \/ next.at = "erase" /\ next.id = id /\ next.respawn
      BY <1>1, <3>2
    <3>3. objects'[id].hp = 0 =>
                \/ objects[id].hp = 0 /\ ~(call[t].at \in {"erase", "revive"} /\ call[t].id = id)
                \/ next.at = "revive" /\ next.id = id
                \/ next.at = "erase" /\ next.id = id /\ next.respawn
      BY DEF SameCast
    <3> QED
      BY <2>1, <3>1, <3>2, <3>3
  <2>2. \A u \in Threads : call'[u].at = "insert" => call'[u] = call[u]
    BY <1>1, <1>2
  <2> QED
    BY <1>3, <2>1, <2>2 DEF DeathOK, DeathIsHandled
<1> QED
  BY <1>4, <1>5, <1>6, <1>7, <1>8

LEMMA SamePlacesHold ==
    ASSUME InductiveInvariant, NEW t \in Threads, NEW next \in Calls,
           SameCast(t, next), SamePlaces(t, next)
    PROVE  SharedOK'
<1> USE DEF InductiveInvariant
<1>1. /\ call' \in [Threads -> Calls] /\ call'[t] = next
      /\ \A u \in Threads : u # t => call'[u] = call[u]
  BY DEF SameCast, TypeOK
<1>2. next.at # "insert"
  BY DEF SameCast
<1>3. /\ DOMAIN objects' = DOMAIN objects
      /\ \A id \in DOMAIN objects : objects'[id].pos = objects[id].pos
  BY DEF SameCast, SamePlaces
<1>4. SharedOK'
  <2>1. \A cell : Claims(next, cell) => next.at = "place" /\ next.cell = cell
    BY <1>2 DEF Claims
  <2>2. contested \subseteq contested' /\ Unchecked' = Unchecked
    BY DEF SamePlaces, Unchecked
  <2>3. next.at = "place" =>
          \/ next.cell \in contested' \cup Unchecked
          \/ /\ \A id \in DOMAIN objects : objects[id].pos # next.cell
             /\ \A u \in Threads : ~Claims(call[u], next.cell)
    BY DEF SamePlaces
  <2>4. SharedCellsContested'
    BY <1>3, <2>2 DEF SharedOK, SharedCellsContested
  <2>5. ASSUME NEW u \in Threads, NEW a \in DOMAIN objects,
               Claims(call'[u], objects[a].pos), call'[u].id # a
        PROVE  objects[a].pos \in contested' \cup Unchecked
    <3>1. CASE u # t
      BY <1>1, <2>2, <2>5, <3>1 DEF SharedOK
    <3>2. CASE u = t
      BY <1>1, <2>1, <2>3, <2>5, <3>2
    <3> QED
      BY <3>1, <3>2
  <2>6. ASSUME NEW u \in Threads, NEW v \in Threads, NEW cell \in Cells,
               u # v, Claims(call'[u], cell), Claims(call'[v], cell)
        PROVE  cell \in contested' \cup Unchecked
    <3>1. CASE u # t /\ v # t
      BY <1>1, <2>2, <2>6, <3>1 DEF SharedOK
    <3>2. CASE u = t
      BY <1>1, <2>1, <2>3, <2>6, <3>2
    <3>3. CASE v = t
      BY <1>1, <2>1, <2>3, <2>6, <3>3
    <3> QED
      BY <3>1, <3>2, <3>3
  <2> QED
    BY <1>3, <2>2, <2>4, <2>5, <2>6 DEF SharedOK
<1> QED
  BY <1>4

\* No client gets an actor, and nothing is inserted.
LEMMA DoublesStay ==
    ASSUME TypeOK, DoublesOK, NEW t \in Threads, NEW next, next.at # "tell added",
           call' = [call EXCEPT ![t] = next], crossed \subseteq crossed',
           DOMAIN told' \subseteq DOMAIN told,
           \A q \in DOMAIN told' : told'[q] = told[q]
    PROVE  DoublesOK'
<1>1. \A u \in Threads : call'[u].at = "tell added" => call'[u] = call[u]
  BY DEF TypeOK
<1> SUFFICES ASSUME NEW p \in DOMAIN told'
    PROVE  DoubleOK(p)'
  BY DEF DoublesOK
<1>2. DoubleOK(p) /\ told'[p] = told[p]
  BY DEF DoublesOK
<1>3. \A id \in DOMAIN told'[p] : Len(told'[p][id]) > 1 => <<p, id>> \in crossed'
  BY <1>2 DEF DoubleOK
<1>4. \A u \in Threads : call'[u].at = "tell added" /\ call'[u].id \in DOMAIN told'[p] =>
          p = call'[u].id \/ <<p, call'[u].id>> \in crossed'
  <2> SUFFICES ASSUME NEW u \in Threads,
                      call'[u].at = "tell added", call'[u].id \in DOMAIN told'[p]
      PROVE p = call'[u].id \/ <<p, call'[u].id>> \in crossed'
    OBVIOUS
  <2>1. PICK id : id = call[u].id /\ call'[u] = call[u]
    BY <1>1
  <2>2. call[u].at = "tell added" /\ id \in DOMAIN told[p]
    BY <1>2, <2>1
  <2>3. p = id \/ <<p, id>> \in crossed
    BY <1>2, <2>1, <2>2 DEF DoubleOK
  <2> QED
    BY <2>1, <2>3
<1>5. p \in DOMAIN told'[p]
  BY <1>2 DEF DoubleOK
<1> QED
  BY <1>3, <1>4, <1>5 DEF DoubleOK

-----------------------------------------------------------------------------
(* Steps that move nothing and tell nobody *)

\* A mark is not taken off, and what is copied is right.
Steady(t, next) ==
    /\ SameCast(t, next) /\ SamePlaces(t, next) /\ next \in Calls
    /\ objects' \in [DOMAIN objects -> Info]
    /\ \A id \in DOMAIN objects : objects[id].dirty => objects'[id].dirty
    /\ UNCHANGED <<told, missed, raced, crossed>>
    /\ serving' \in [Threads -> Sessions \cup {Nobody}]
    /\ contested' \subseteq Cells
    /\ call[t].at \in {"idle", "place", "mark", "attack", "wound", "revive", "erase"}
    /\ next.at \in {"idle", "place", "tell moved", "attack", "wound", "revive",
                    "erase", "respawn", "survey"}
    /\ call[t].at = "mark" /\ call[t].id \in DOMAIN objects =>
          objects'[call[t].id].dirty
    /\ next.at = "tell moved" =>
          next.id \in DOMAIN objects /\ objects[next.id].pos = next.pos

LEMMA SteadyHolds ==
    ASSUME InductiveInvariant, NEW t \in Threads, NEW next, Steady(t, next)
    PROVE  InductiveInvariant'
<1> USE DEF InductiveInvariant
<1>1. /\ call' \in [Threads -> Calls] /\ call'[t] = next
      /\ \A u \in Threads : u # t => call'[u] = call[u]
  BY DEF Steady, SameCast, TypeOK
<1>2. /\ next \in Calls
      /\ call[t].at \in {"idle", "place", "mark", "attack", "wound", "revive", "erase"}
      /\ next.at \in {"idle", "place", "tell moved", "attack", "wound", "revive",
                      "erase", "respawn", "survey"}
      /\ UNCHANGED <<told, nextId, player, missed, raced, crossed>>
  BY DEF Steady, SameCast, SamePlaces
<1>3. /\ DOMAIN objects' = DOMAIN objects
      /\ \A id \in DOMAIN objects :
            /\ objects'[id].type = objects[id].type
            /\ objects'[id].pos = objects[id].pos
            /\ objects[id].dirty => objects'[id].dirty
  BY DEF Steady, SameCast, SamePlaces
<1>4. TypeOK'
  BY <1>1, <1>2, <1>3 DEF Steady, TypeOK
<1>5. /\ Listeners' = Listeners /\ Entering' = Entering
      /\ IdsOK' /\ SharedOK' /\ MonsterOK' /\ DeathOK'
  BY SameCastHolds, SamePlacesHold DEF Steady
<1>6. CopiesOK'
  <2> SUFFICES ASSUME NEW u \in Threads
      PROVE /\ call'[u].at \in Carrying =>
                  \/ call'[u].id \in raced
                  \/ /\ call'[u].id \in DOMAIN objects
                     /\ objects[call'[u].id].pos = call'[u].pos
            /\ call'[u].at = "unmark" =>
                  call'[u].id \in raced \/ call'[u].id \in DOMAIN objects
    BY <1>2, <1>3 DEF CopiesOK
  <2>1. CASE u # t
    BY <1>1, <2>1 DEF CopiesOK
  <2>2. CASE u = t
    BY <1>1, <1>2, <2>2 DEF Steady, Carrying
  <2> QED
    BY <2>1, <2>2
<1>7. SentOK'
  BY <1>1, <1>2, <1>3, ZenonT(30) DEF SentOK
<1>8. ViewsOK'
  <2>1. ASSUME NEW id, NEW kind \in {"tell added", "tell removed"},
               Announcing(id, kind)
        PROVE  \E u \in Threads : call'[u].at = kind /\ call'[u].id = id
    <3>1. PICK u \in Threads : call[u].at = kind /\ call[u].id = id
      BY <2>1 DEF Announcing
    <3>2. u # t
      BY <1>2, <3>1
    <3> QED
      BY <1>1, <3>1, <3>2
  <2>2. ASSUME NEW id \in DOMAIN objects, Announcing(id, "mark")
        PROVE  \/ \E u \in Threads : call'[u].at = "mark" /\ call'[u].id = id
               \/ objects'[id].dirty
    <3>1. PICK u \in Threads : call[u].at = "mark" /\ call[u].id = id
      BY <2>2 DEF Announcing
    <3>2. CASE u = t
      BY <3>1, <3>2 DEF Steady
    <3>3. CASE u # t
      BY <1>1, <3>1, <3>3
    <3> QED
      BY <3>2, <3>3
  <2>3. \A u \in Threads : call'[u].at = "insert" => call'[u] = call[u]
    BY <1>1, <1>2
  <2> QED
    <3> SUFFICES ASSUME NEW p \in DOMAIN told
        PROVE ViewOK(p)'
      BY <1>2 DEF ViewsOK
    <3>1. ViewOK(p)
      BY DEF ViewsOK
    <3>2. \A id \in DOMAIN objects' \ DOMAIN told'[p] :
             <<p, id>> \in missed' \/ Announcing(id, "tell added")'
      BY <1>2, <1>3, <2>1, <3>1 DEF ViewOK, Announcing
    <3>3. \A id \in DOMAIN told'[p] \ DOMAIN objects' :
             \/ id = p \/ <<p, id>> \in missed' \cup crossed' \/ id \in raced'
             \/ Announcing(id, "tell removed")'
      BY <1>2, <1>3, <2>1, <3>1 DEF ViewOK, Announcing
    <3>4. \A id \in DOMAIN told'[p] \cap DOMAIN objects' :
             \/ AllAt(told'[p][id], objects'[id].pos)
             \/ objects'[id].dirty \/ Announcing(id, "mark")'
             \/ id \in raced' \/ <<p, id>> \in missed' \cup crossed'
      <4> SUFFICES ASSUME NEW id \in DOMAIN told[p] \cap DOMAIN objects
          PROVE \/ AllAt(told[p][id], objects'[id].pos)
                \/ objects'[id].dirty
                \/ \E u \in Threads : call'[u].at = "mark" /\ call'[u].id = id
                \/ id \in raced \/ <<p, id>> \in missed \cup crossed
        BY <1>2, <1>3 DEF Announcing, Threads
      <4>1. \/ AllAt(told[p][id], objects[id].pos)
            \/ objects[id].dirty \/ Announcing(id, "mark")
            \/ id \in raced \/ <<p, id>> \in missed \cup crossed
        BY <3>1 DEF ViewOK
      <4> QED
        BY <1>3, <2>2, <4>1
    <3>5. \A u \in Threads : call'[u].at = "insert" /\ call'[u].id \in DOMAIN told'[p] =>
             p = call'[u].id /\ told'[p][p] = <<call'[u].info.pos>>
      BY <1>2, <2>3, <3>1 DEF ViewOK
    <3> QED
      BY <3>2, <3>3, <3>4, <3>5 DEF ViewOK
<1>9. DoublesOK'
  <2>1. call' = [call EXCEPT ![t] = next] /\ next.at # "tell added"
    BY <1>2 DEF Steady, SameCast
  <2> QED
    BY <1>2, <2>1, DoublesStay
<1> QED
  BY <1>4, <1>5, <1>6, <1>7, <1>8, <1>9

\* Objects have ids that fit a call, and places on the map.
LEMMA ObjectFields ==
    ASSUME TypeOK, NEW id \in DOMAIN objects
    PROVE  /\ id \in Ids /\ id \in 1..nextId - 1 /\ id # 0
           /\ objects[id] \in Info
           /\ objects[id].type \in Types /\ objects[id].pos \in Cells
           /\ objects[id].hp \in 0..MaxHp /\ objects[id].dirty \in BOOLEAN
<1>1. id \in Ids /\ id \in 1..nextId - 1 /\ id # 0
  BY StatsAssumption DEF TypeOK, Ids
<1>2. objects[id] \in Info
  BY DEF TypeOK
<1> QED
  BY <1>1, <1>2 DEF Info

\* A mark changes nothing else.
LEMMA MarkedKeeps ==
    ASSUME TypeOK, NEW id \in DOMAIN objects, NEW marks \in BOOLEAN
    PROVE  /\ Marked(id, marks) \in [DOMAIN objects -> Info]
           /\ \A k \in DOMAIN objects :
                 /\ Marked(id, marks)[k].type = objects[k].type
                 /\ Marked(id, marks)[k].pos = objects[k].pos
                 /\ Marked(id, marks)[k].hp = objects[k].hp
                 /\ objects[k].dirty => Marked(id, marks)[k].dirty
           /\ marks => Marked(id, marks)[id].dirty
<1>1. objects \in [DOMAIN objects -> Info]
  BY DEF TypeOK
<1>2. objects[id] \in Info
  BY <1>1
<1>3. [objects[id] EXCEPT !.dirty = @ \/ marks] \in Info
  BY <1>2 DEF Info
<1>4. Marked(id, marks)
        = [objects EXCEPT ![id] = [objects[id] EXCEPT !.dirty = @ \/ marks]]
  BY <1>1, <1>2 DEF Marked
<1>5. Marked(id, marks) \in [DOMAIN objects -> Info]
  BY <1>1, <1>3, <1>4
<1>6. /\ Marked(id, marks)[id] = [objects[id] EXCEPT !.dirty = @ \/ marks]
      /\ \A k \in DOMAIN objects : k # id => Marked(id, marks)[k] = objects[k]
  BY <1>1, <1>4
<1>7. LET i == [objects[id] EXCEPT !.dirty = @ \/ marks]
      IN  /\ i.type = objects[id].type /\ i.pos = objects[id].pos
          /\ i.hp = objects[id].hp /\ i.dirty = (objects[id].dirty \/ marks)
  BY <1>2 DEF Info
<1> QED
  BY <1>5, <1>6, <1>7

\* A cell that is granted while another thread is about to take it is
\* excused from then on.
LEMMA GrantExcuses ==
    ASSUME TypeOK, NEW cell \in Cells, Grant(cell)
    PROVE  /\ contested' \subseteq Cells /\ contested \subseteq contested'
           /\ \/ cell \in contested' \cup Unchecked
              \/ \A u \in Threads : ~Claims(call[u], cell)
  BY DEF Grant, TypeOK, Claims

\* What Begin, Take, Go and Return do to the threads.
LEMMA ThreadMoves ==
    ASSUME TypeOK, NEW t \in Threads, NEW next
    PROVE  /\ Go(t, next) => /\ call' = [call EXCEPT ![t] = next]
                             /\ serving' \in [Threads -> Sessions \cup {Nobody}]
           /\ Return(t) => /\ call' = [call EXCEPT ![t] = Idle]
                           /\ serving' \in [Threads -> Sessions \cup {Nobody}]
           /\ Begin(t, next) => /\ call' = [call EXCEPT ![t] = next]
                                /\ call[t].at = "idle"
           /\ \A s \in Sessions : Take(t, s, next) =>
                /\ call' = [call EXCEPT ![t] = next]
                /\ call[t].at = "idle"
                /\ serving' \in [Threads -> Sessions \cup {Nobody}]
<1>1. serving \in [Threads -> Sessions \cup {Nobody}]
  BY DEF TypeOK
<1>2. Go(t, next) => /\ call' = [call EXCEPT ![t] = next]
                     /\ serving' \in [Threads -> Sessions \cup {Nobody}]
  BY <1>1 DEF Go
<1>3. Return(t) => /\ call' = [call EXCEPT ![t] = Idle]
                   /\ serving' \in [Threads -> Sessions \cup {Nobody}]
  BY <1>1 DEF Return
<1>4. Begin(t, next) => call' = [call EXCEPT ![t] = next] /\ call[t].at = "idle"
  BY DEF Begin, CanBegin
<1>5. \A s \in Sessions : Take(t, s, next) =>
        serving' \in [Threads -> Sessions \cup {Nobody}]
  BY <1>1 DEF Take
<1>6. \A s \in Sessions : Take(t, s, next) => Begin(t, next)
  BY DEF Take
<1> QED
  BY <1>2, <1>3, <1>4, <1>5, <1>6

\* The forms a next call of a steady step can have.
LEMMA NextCalls ==
    ASSUME NEW id \in Ids, NEW hp \in 0..MaxHp, NEW cell \in Cells, NEW flag \in BOOLEAN,
           NEW type \in Types, NEW target \in {0} \cup Ids, NEW left \in SUBSET Ids
    PROVE  /\ Idle \in Calls
           /\ [at |-> "place", id |-> id, cell |-> cell, aloud |-> flag] \in Calls
           /\ [at |-> "tell moved", id |-> id, pos |-> cell, target |-> target] \in Calls
           /\ [at |-> "wound", id |-> id, type |-> type, hp |-> hp] \in Calls
           /\ [at |-> "revive", id |-> id] \in Calls
           /\ [at |-> "erase", id |-> id, respawn |-> flag] \in Calls
           /\ [at |-> "tell removed", id |-> id, respawn |-> flag] \in Calls
           /\ [at |-> "survey", left |-> left] \in Calls
           /\ [at |-> "mark", id |-> id, aloud |-> flag] \in Calls
           /\ [at |-> "tell added", id |-> id, pos |-> cell] \in Calls
           /\ [at |-> "tell state", id |-> id, pos |-> cell, left |-> left] \in Calls
           /\ [at |-> "unmark", id |-> id, left |-> left] \in Calls
           /\ [at |-> "respawn"] \in Calls
  BY DEF Calls, Idle

LEMMA MarkingSteady ==
    ASSUME TypeOK, NEW t \in Threads, NEW id \in DOMAIN objects, NEW marks \in BOOLEAN,
           objects' = Marked(id, marks), call[t].at = "idle"
    PROVE  /\ objects' \in [DOMAIN objects -> Info]
           /\ \A k \in DOMAIN objects :
                 /\ objects'[k].type = objects[k].type
                 /\ objects'[k].pos = objects[k].pos
                 /\ objects[k].dirty => objects'[k].dirty
                 /\ objects'[k].hp = 0 =>
                       objects[k].hp = 0 /\ ~(call[t].at = "revive" /\ call[t].id = k)
  BY MarkedKeeps

\* Stop and Reject.
LEMMA StopSteady ==
    ASSUME TypeOK, NEW t \in Threads, NEW s \in Sessions,
           Stop(t, s) \/ \E dir \in InputDirs : Reject(t, s, dir)
    PROVE  Steady(t, Idle)
<1>1. player[s] \in DOMAIN objects /\ objects' = Marked(player[s], TRUE)
      /\ Take(t, s, Idle) /\ UNCHANGED <<told, nextId, player, history>>
  BY DEF Stop, Reject
<1>2. call' = [call EXCEPT ![t] = Idle] /\ call[t].at = "idle"
      /\ serving' \in [Threads -> Sessions \cup {Nobody}]
  BY <1>1, ThreadMoves
<1>3. Idle \in Calls /\ contested \subseteq Cells
  BY DEF TypeOK, Calls, Idle
<1> QED
  BY <1>1, <1>2, <1>3, MarkingSteady
  DEF Steady, SameCast, SamePlaces, history, Idle, Named

LEMMA MoveSteady ==
    ASSUME TypeOK, NEW t \in Threads, NEW s \in Sessions, NEW dir \in InputDirs,
           Move(t, s, dir)
    PROVE  \E next : Steady(t, next)
<1> DEFINE id == player[s]
           cell == Ahead(objects[id].pos, dir)
           next == [at |-> "place", id |-> id, cell |-> cell, aloud |-> FALSE]
<1>1. /\ id \in DOMAIN objects /\ CanGo(objects, cell) /\ Grant(cell)
      /\ Take(t, s, next) /\ UNCHANGED <<told, nextId, player, missed, raced, crossed>>
  BY DEF Move
<1>2. PICK marks \in BOOLEAN : objects' = Marked(id, marks)
  BY DEF Move
<1>3. call' = [call EXCEPT ![t] = next] /\ call[t].at = "idle"
      /\ serving' \in [Threads -> Sessions \cup {Nobody}]
  <2> HIDE DEF next
  <2> QED BY <1>1, ThreadMoves
<1>4. cell \in Cells /\ \A k \in DOMAIN objects : objects[k].pos # cell
  BY <1>1 DEF CanGo
<1>5. next \in Calls
  BY <1>1, <1>4, ObjectFields DEF Calls
<1>6. /\ contested' \subseteq Cells /\ contested \subseteq contested'
      /\ \/ cell \in contested' \cup Unchecked
         \/ \A u \in Threads : ~Claims(call[u], cell)
  BY <1>1, <1>4, GrantExcuses
<1>7. next.at = "place" /\ next.id = id /\ next.cell = cell
  OBVIOUS
<1> HIDE DEF next, cell
<1>8. Steady(t, next)
  BY <1>1, <1>2, <1>3, <1>4, <1>5, <1>6, <1>7, MarkingSteady
  DEF Steady, SameCast, SamePlaces
<1> QED
  BY <1>8

LEMMA LeaveRoomSteady ==
    ASSUME TypeOK, NEW t \in Threads, NEW s \in Sessions, LeaveRoom(t, s)
    PROVE  \E next : Steady(t, next)
<1> DEFINE next == [at |-> "erase", id |-> player[s], respawn |-> FALSE]
<1>1. /\ player[s] \in DOMAIN objects /\ Begin(t, next)
      /\ UNCHANGED <<room, serving, history>>
  BY DEF LeaveRoom
<1>2. next \in Calls
  BY <1>1, ObjectFields DEF Calls
<1>3. next.at = "erase" /\ next.id = player[s]
  OBVIOUS
<1> HIDE DEF next
<1>4. call' = [call EXCEPT ![t] = next] /\ call[t].at = "idle"
  BY <1>1, ThreadMoves
<1>5. Steady(t, next)
  BY <1>1, <1>2, <1>3, <1>4 DEF Steady, SameCast, SamePlaces, room, history, TypeOK
<1> QED
  BY <1>5

\* The blow that is prepared when the hp has been read.
LEMMA BlowIsCall ==
    ASSUME TypeOK, NEW id \in DOMAIN objects
    PROVE  Blow(id) \in Calls /\ Blow(id).at = "wound" /\ Blow(id).id = id
<1>1. objects[id].hp \in 0..MaxHp /\ objects[id].type \in Types /\ id \in Ids
  BY ObjectFields
<1>2. AtLeast(0, objects[id].hp - Damage) \in 0..MaxHp
  BY <1>1, StatsAssumption DEF AtLeast
<1> QED
  BY <1>1, <1>2 DEF Blow, Calls

LEMMA AttackSteady ==
    ASSUME TypeOK, NEW t \in Threads, NEW s \in Sessions, NEW target \in Ids,
           Attack(t, s, target)
    PROVE  \E next : Steady(t, next)
<1> DEFINE next == Blow(target)
<1>1. /\ target \in DOMAIN objects /\ Take(t, s, next)
      /\ UNCHANGED <<room, history>>
  BY DEF Attack, InReach
<1>2. next \in Calls /\ next.at = "wound" /\ next.id = target
  BY <1>1, BlowIsCall
<1> HIDE DEF next
<1>3. call' = [call EXCEPT ![t] = next] /\ call[t].at = "idle"
      /\ serving' \in [Threads -> Sessions \cup {Nobody}]
  BY <1>1, ThreadMoves
<1>4. Steady(t, next)
  BY <1>1, <1>2, <1>3 DEF Steady, SameCast, SamePlaces, room, history, TypeOK
<1> QED
  BY <1>4

LEMMA AttackOfMonsterSteady ==
    ASSUME TypeOK, NEW t \in Threads, AttackOfMonster(t)
    PROVE  \E next : Steady(t, next)
<1>1. call[t].at = "attack" /\ UNCHANGED <<room, history>>
  BY DEF AttackOfMonster
<1>2. objects' \in [DOMAIN objects -> Info]
      /\ contested' \subseteq Cells
      /\ UNCHANGED <<objects, told, nextId, player, missed, raced, crossed, contested>>
  BY <1>1 DEF room, history, TypeOK
<1>3. CASE InReach(call[t].id, call[t].target)
  <2> DEFINE next == Blow(call[t].target)
  <2>1. call[t].target \in DOMAIN objects /\ Go(t, next)
    BY <1>3 DEF AttackOfMonster, InReach
  <2>2. next \in Calls /\ next.at = "wound" /\ next.id = call[t].target
    BY <2>1, BlowIsCall
  <2> HIDE DEF next
  <2>3. call' = [call EXCEPT ![t] = next]
        /\ serving' \in [Threads -> Sessions \cup {Nobody}]
    BY <2>1, ThreadMoves
  <2>4. Steady(t, next)
    BY <1>1, <1>2, <2>1, <2>2, <2>3 DEF Steady, SameCast, SamePlaces
  <2> QED
    BY <2>4
<1>4. CASE ~InReach(call[t].id, call[t].target)
  <2>1. Return(t)
    BY <1>4 DEF AttackOfMonster
  <2>2. call' = [call EXCEPT ![t] = Idle]
        /\ serving' \in [Threads -> Sessions \cup {Nobody}]
    BY <2>1, ThreadMoves
  <2>3. Idle \in Calls /\ Idle.at = "idle"
    BY DEF Calls, Idle
  <2>4. Steady(t, Idle)
    BY <1>1, <1>2, <2>2, <2>3 DEF Steady, SameCast, SamePlaces, Named
  <2> QED
    BY <2>4
<1> QED
  BY <1>3, <1>4

LEMMA WriteHpKeeps ==
    ASSUME TypeOK, NEW id, NEW hp \in 0..MaxHp, WriteHp(id, hp)
    PROVE  /\ objects' \in [DOMAIN objects -> Info]
           /\ \A k \in DOMAIN objects :
                 /\ objects'[k].type = objects[k].type
                 /\ objects'[k].pos = objects[k].pos
                 /\ objects'[k].dirty = objects[k].dirty
                 /\ objects'[k].hp = IF k = id THEN hp ELSE objects[k].hp
<1>1. objects \in [DOMAIN objects -> Info]
  BY DEF TypeOK
<1>2. CASE id \in DOMAIN objects
  <2>1. objects' = [objects EXCEPT ![id].hp = hp]
    BY <1>2 DEF WriteHp
  <2>2. objects[id] \in Info
    BY <1>1, <1>2
  <2>3. [objects[id] EXCEPT !.hp = hp] \in Info
    BY <2>2 DEF Info
  <2>4. objects' = [objects EXCEPT ![id] = [objects[id] EXCEPT !.hp = hp]]
    BY <2>1
  <2>5. objects' \in [DOMAIN objects -> Info]
    BY <1>1, <2>3, <2>4
  <2>6. /\ objects'[id] = [objects[id] EXCEPT !.hp = hp]
        /\ \A k \in DOMAIN objects : k # id => objects'[k] = objects[k]
    BY <1>1, <1>2, <2>4
  <2>7. /\ objects'[id].type = objects[id].type /\ objects'[id].pos = objects[id].pos
        /\ objects'[id].dirty = objects[id].dirty /\ objects'[id].hp = hp
    BY <2>2, <2>6 DEF Info
  <2> QED
    BY <2>5, <2>6, <2>7
<1>3. CASE id \notin DOMAIN objects
  BY <1>1, <1>3 DEF WriteHp
<1> QED
  BY <1>2, <1>3

LEMMA WoundSteady ==
    ASSUME TypeOK, NEW t \in Threads, Wound(t)
    PROVE  \E next : Steady(t, next)
<1>1. /\ call[t].at = "wound" /\ WriteHp(call[t].id, call[t].hp)
      /\ AfterWound(t, call[t].hp)
      /\ UNCHANGED <<told, nextId, player, missed, raced, crossed, contested>>
  BY DEF Wound, history
<1>2. call[t] \in Calls /\ contested' \subseteq Cells
  BY <1>1 DEF TypeOK
<1>3. call[t].id \in Ids /\ call[t].hp \in 0..MaxHp
  BY <1>1, <1>2, CallFields DEF Named
<1>4. /\ objects' \in [DOMAIN objects -> Info]
      /\ \A k \in DOMAIN objects :
            /\ objects'[k].type = objects[k].type
            /\ objects'[k].pos = objects[k].pos
            /\ objects'[k].dirty = objects[k].dirty
            /\ objects'[k].hp = IF k = call[t].id THEN call[t].hp ELSE objects[k].hp
  BY <1>1, <1>3, WriteHpKeeps
<1>5. CASE call[t].hp > 0 /\ Return(t)
  <2>1. call' = [call EXCEPT ![t] = Idle]
        /\ serving' \in [Threads -> Sessions \cup {Nobody}]
    BY <1>5, ThreadMoves
  <2>2. Idle \in Calls /\ Idle.at = "idle"
    BY DEF Calls, Idle
  <2>3. \A k \in DOMAIN objects : objects'[k].hp = 0 => objects[k].hp = 0
    BY <1>3, <1>4, <1>5
  <2>4. Steady(t, Idle)
    BY <1>1, <1>2, <1>4, <2>1, <2>2, <2>3 DEF Steady, SameCast, SamePlaces, Named
  <2> QED
    BY <2>4
<1>6. CASE Go(t, [at |-> "erase", id |-> call[t].id, respawn |-> TRUE])
  <2> DEFINE next == [at |-> "erase", id |-> call[t].id, respawn |-> TRUE]
  <2>1. next \in Calls /\ next.at = "erase" /\ next.id = call[t].id /\ next.respawn
    BY <1>3 DEF Calls
  <2> HIDE DEF next
  <2>2. call' = [call EXCEPT ![t] = next]
        /\ serving' \in [Threads -> Sessions \cup {Nobody}]
    BY <1>6, ThreadMoves DEF next
  <2>3. \A k \in DOMAIN objects : objects'[k].hp = 0 => objects[k].hp = 0 \/ next.id = k
    BY <1>4, <2>1
  <2>4. Steady(t, next)
    BY <1>1, <1>2, <1>4, <2>1, <2>2, <2>3 DEF Steady, SameCast, SamePlaces, Named
  <2> QED
    BY <2>4
<1>7. CASE Go(t, [at |-> "revive", id |-> call[t].id])
  <2> DEFINE next == [at |-> "revive", id |-> call[t].id]
  <2>1. next \in Calls /\ next.at = "revive" /\ next.id = call[t].id
    BY <1>3 DEF Calls
  <2> HIDE DEF next
  <2>2. call' = [call EXCEPT ![t] = next]
        /\ serving' \in [Threads -> Sessions \cup {Nobody}]
    BY <1>7, ThreadMoves DEF next
  <2>3. \A k \in DOMAIN objects : objects'[k].hp = 0 => objects[k].hp = 0 \/ next.id = k
    BY <1>4, <2>1
  <2>4. Steady(t, next)
    BY <1>1, <1>2, <1>4, <2>1, <2>2, <2>3 DEF Steady, SameCast, SamePlaces, Named
  <2> QED
    BY <2>4
<1> QED
  BY <1>1, <1>5, <1>6, <1>7 DEF AfterWound

LEMMA ReviveSteady ==
    ASSUME TypeOK, NEW t \in Threads, Revive(t)
    PROVE  \E next : Steady(t, next)
<1> DEFINE next == [at |-> "place", id |-> call[t].id, cell |-> SpawnCell, aloud |-> FALSE]
<1>1. /\ call[t].at = "revive" /\ WriteHp(call[t].id, MaxHp) /\ Go(t, next)
      /\ UNCHANGED <<told, nextId, player, missed, raced, crossed, contested>>
  BY DEF Revive, history
<1>2. call[t] \in Calls /\ contested' \subseteq Cells
  BY <1>1 DEF TypeOK
<1>3. call[t].id \in Ids /\ MaxHp \in 0..MaxHp /\ MaxHp # 0
  <2>1. call[t].id \in Ids
    BY <1>1, <1>2, CallFields DEF Named
  <2> QED
    BY <2>1, StatsAssumption
<1>4. /\ objects' \in [DOMAIN objects -> Info]
      /\ \A k \in DOMAIN objects :
            /\ objects'[k].type = objects[k].type
            /\ objects'[k].pos = objects[k].pos
            /\ objects'[k].dirty = objects[k].dirty
            /\ objects'[k].hp = IF k = call[t].id THEN MaxHp ELSE objects[k].hp
  BY <1>1, <1>3, WriteHpKeeps
<1>5. /\ next \in Calls /\ next.at = "place" /\ next.id = call[t].id
      /\ next.cell \in Unchecked
  BY <1>3, CellsAssumption DEF Calls, Unchecked
<1> HIDE DEF next
<1>6. call' = [call EXCEPT ![t] = next]
      /\ serving' \in [Threads -> Sessions \cup {Nobody}]
  BY <1>1, ThreadMoves
<1>7. \A k \in DOMAIN objects :
        objects'[k].hp = 0 => objects[k].hp = 0 /\ call[t].id # k
  BY <1>3, <1>4
<1>8. Steady(t, next)
  BY <1>1, <1>2, <1>4, <1>5, <1>6, <1>7 DEF Steady, SameCast, SamePlaces, Named
<1> QED
  BY <1>8

LEMMA MarkSteady ==
    ASSUME TypeOK, NEW t \in Threads, Mark(t)
    PROVE  \E next : Steady(t, next)
<1> DEFINE id == call[t].id
<1>1. /\ call[t].at = "mark" /\ AfterPlace(t, id, call[t].aloud)
      /\ objects' = IF id \in DOMAIN objects THEN Marked(id, TRUE) ELSE objects
      /\ UNCHANGED <<told, nextId, player, missed, raced, crossed, contested>>
  BY DEF Mark, history
<1>2. contested' \subseteq Cells /\ objects \in [DOMAIN objects -> Info]
  BY <1>1 DEF TypeOK
<1>3. /\ objects' \in [DOMAIN objects -> Info]
      /\ \A k \in DOMAIN objects :
            /\ objects'[k].type = objects[k].type
            /\ objects'[k].pos = objects[k].pos
            /\ objects'[k].hp = objects[k].hp
            /\ objects[k].dirty => objects'[k].dirty
      /\ id \in DOMAIN objects => objects'[id].dirty
  <2>1. CASE id \in DOMAIN objects
    BY <1>1, <2>1, MarkedKeeps
  <2>2. CASE id \notin DOMAIN objects
    BY <1>1, <1>2, <2>2
  <2> QED
    BY <2>1, <2>2
<1>4. CASE call[t].aloud /\ id \in DOMAIN objects
  <2> DEFINE next == MoveMessage(id, 0)
  <2>1. Go(t, next)
    BY <1>1, <1>4 DEF AfterPlace
  <2>2. next \in Calls /\ next.at = "tell moved" /\ next.id = id
        /\ next.pos = objects[id].pos
    BY <1>4, ObjectFields DEF Calls, MoveMessage
  <2> HIDE DEF next
  <2>3. call' = [call EXCEPT ![t] = next]
        /\ serving' \in [Threads -> Sessions \cup {Nobody}]
    BY <2>1, ThreadMoves
  <2>4. Steady(t, next)
    BY <1>1, <1>2, <1>3, <1>4, <2>2, <2>3 DEF Steady, SameCast, SamePlaces, Named
  <2> QED
    BY <2>4
<1>5. CASE ~(call[t].aloud /\ id \in DOMAIN objects)
  <2>1. Return(t)
    BY <1>1, <1>5 DEF AfterPlace
  <2>2. call' = [call EXCEPT ![t] = Idle]
        /\ serving' \in [Threads -> Sessions \cup {Nobody}]
    BY <2>1, ThreadMoves
  <2>3. Idle \in Calls /\ Idle.at = "idle"
    BY DEF Calls, Idle
  <2>4. Steady(t, Idle)
    BY <1>1, <1>2, <1>3, <2>2, <2>3 DEF Steady, SameCast, SamePlaces, Named
  <2> QED
    BY <2>4
<1> QED
  BY <1>4, <1>5

LEMMA MonsterTurnsSteady ==
    ASSUME TypeOK, NEW m \in Ids, NEW target \in Ids, MonsterTurns(m, target)
    PROVE  \E next : Steady(Main, next)
<1> DEFINE next == MoveMessage(m, target)
<1>1. /\ m \in DOMAIN objects /\ objects' = Marked(m, TRUE) /\ Begin(Main, next)
      /\ UNCHANGED <<serving, told, nextId, player, history>>
  BY DEF MonsterTurns, Hunts
<1>2. next \in Calls /\ next.at = "tell moved" /\ next.id = m
      /\ next.pos = objects[m].pos
  BY <1>1, ObjectFields DEF Calls, MoveMessage
<1> HIDE DEF next
<1>3. Main \in Threads
  BY DEF Threads
<1>4. call' = [call EXCEPT ![Main] = next] /\ call[Main].at = "idle"
  BY <1>1, <1>3, ThreadMoves
<1>5. Steady(Main, next)
  BY <1>1, <1>2, <1>3, <1>4, MarkingSteady
  DEF Steady, SameCast, SamePlaces, history, TypeOK
<1> QED
  BY <1>5

LEMMA MonsterStaysSteady ==
    ASSUME TypeOK, NEW m \in Ids, NEW target \in Ids, MonsterStays(m, target)
    PROVE  \E next : Steady(Main, next)
<1> DEFINE next == MoveMessage(m, 0)
<1>1. /\ m \in DOMAIN objects /\ Begin(Main, next)
      /\ UNCHANGED <<serving, room, history>>
  BY DEF MonsterStays, Hunts
<1>2. next \in Calls /\ next.at = "tell moved" /\ next.id = m
      /\ next.pos = objects[m].pos
  BY <1>1, ObjectFields DEF Calls, MoveMessage
<1> HIDE DEF next
<1>3. Main \in Threads
  BY DEF Threads
<1>4. call' = [call EXCEPT ![Main] = next] /\ call[Main].at = "idle"
  BY <1>1, <1>3, ThreadMoves
<1>5. Steady(Main, next)
  BY <1>1, <1>2, <1>3, <1>4 DEF Steady, SameCast, SamePlaces, room, history, TypeOK
<1> QED
  BY <1>5

LEMMA MonsterStepsSteady ==
    ASSUME TypeOK, NEW m \in Ids, NEW target \in Ids, NEW dir \in Dirs,
           MonsterSteps(m, target, dir)
    PROVE  \E next : Steady(Main, next)
<1> DEFINE cell == Ahead(objects[m].pos, dir)
           next == [at |-> "place", id |-> m, cell |-> cell, aloud |-> TRUE]
<1>1. /\ m \in DOMAIN objects /\ CanGo(objects, cell) /\ Grant(cell)
      /\ Begin(Main, next)
      /\ UNCHANGED <<serving, told, nextId, player, missed, raced, crossed>>
  BY DEF MonsterSteps, Hunts
<1>2. PICK marks \in BOOLEAN : objects' = Marked(m, marks)
  BY DEF MonsterSteps
<1>3. Main \in Threads
  BY DEF Threads
<1>4. cell \in Cells /\ \A k \in DOMAIN objects : objects[k].pos # cell
  BY <1>1 DEF CanGo
<1>5. next \in Calls /\ next.at = "place" /\ next.id = m /\ next.cell = cell
  BY <1>4 DEF Calls
<1>6. /\ contested' \subseteq Cells /\ contested \subseteq contested'
      /\ \/ cell \in contested' \cup Unchecked
         \/ \A u \in Threads : ~Claims(call[u], cell)
  BY <1>1, <1>4, GrantExcuses
<1> HIDE DEF next, cell
<1>7. call' = [call EXCEPT ![Main] = next] /\ call[Main].at = "idle"
  BY <1>1, <1>3, ThreadMoves
<1>8. Steady(Main, next)
  BY <1>1, <1>2, <1>3, <1>4, <1>5, <1>6, <1>7, MarkingSteady
  DEF Steady, SameCast, SamePlaces, TypeOK
<1> QED
  BY <1>8

LEMMA MonsterRestsSteady ==
    ASSUME TypeOK, NEW m \in Ids, MonsterRests(m)
    PROVE  \E next : Steady(Main, next)
<1>1. /\ m \in DOMAIN objects /\ objects' = Marked(m, TRUE) /\ Begin(Main, Idle)
      /\ UNCHANGED <<serving, told, nextId, player, history>>
  BY DEF MonsterRests, OfType
<1>2. Idle \in Calls /\ Idle.at = "idle"
  BY DEF Calls, Idle
<1>3. Main \in Threads
  BY DEF Threads
<1>4. call' = [call EXCEPT ![Main] = Idle] /\ call[Main].at = "idle"
  BY <1>1, <1>3, ThreadMoves
<1>5. Steady(Main, Idle)
  BY <1>1, <1>2, <1>3, <1>4, MarkingSteady
  DEF Steady, SameCast, SamePlaces, Named, history, TypeOK
<1> QED
  BY <1>5

LEMMA BroadcastGameStateSteady ==
    ASSUME TypeOK, BroadcastGameState
    PROVE  \E next : Steady(Main, next)
<1> DEFINE next == [at |-> "survey", left |-> DOMAIN objects]
<1>1. Begin(Main, next) /\ UNCHANGED <<serving, room, history>>
  BY DEF BroadcastGameState
<1>2. DOMAIN objects \in SUBSET Ids
  BY ObjectFields
<1>3. next \in Calls /\ next.at = "survey"
  BY <1>2 DEF Calls
<1> HIDE DEF next
<1>4. Main \in Threads
  BY DEF Threads
<1>5. call' = [call EXCEPT ![Main] = next] /\ call[Main].at = "idle"
  BY <1>1, <1>4, ThreadMoves
<1>6. Steady(Main, next)
  BY <1>1, <1>3, <1>4, <1>5
  DEF Steady, SameCast, SamePlaces, Named, room, history, TypeOK
<1> QED
  BY <1>6

\* A place that is not changed, and an object that is gone already.
LEMMA PlaceSteady ==
    ASSUME TypeOK, NEW t \in Threads, Place(t),
           ~(call[t].id \in DOMAIN objects /\ objects[call[t].id].pos # call[t].cell)
    PROVE  \E next : Steady(t, next)
<1> DEFINE id == call[t].id
<1>1. /\ call[t].at = "place" /\ AfterPlace(t, id, call[t].aloud)
      /\ UNCHANGED <<objects, told, nextId, player, missed, raced, crossed, contested>>
  BY DEF Place
<1>2. contested' \subseteq Cells /\ objects' \in [DOMAIN objects -> Info]
  BY <1>1 DEF TypeOK
<1>3. CASE call[t].aloud /\ id \in DOMAIN objects
  <2> DEFINE next == MoveMessage(id, 0)
  <2>1. Go(t, next)
    BY <1>1, <1>3 DEF AfterPlace
  <2>2. next \in Calls /\ next.at = "tell moved" /\ next.id = id
        /\ next.pos = objects[id].pos
    BY <1>3, ObjectFields DEF Calls, MoveMessage
  <2> HIDE DEF next
  <2>3. call' = [call EXCEPT ![t] = next]
        /\ serving' \in [Threads -> Sessions \cup {Nobody}]
    BY <2>1, ThreadMoves
  <2>4. Steady(t, next)
    BY <1>1, <1>2, <1>3, <2>2, <2>3 DEF Steady, SameCast, SamePlaces
  <2> QED
    BY <2>4
<1>4. CASE ~(call[t].aloud /\ id \in DOMAIN objects)
  <2>1. Return(t)
    BY <1>1, <1>4 DEF AfterPlace
  <2>2. call' = [call EXCEPT ![t] = Idle]
        /\ serving' \in [Threads -> Sessions \cup {Nobody}]
    BY <2>1, ThreadMoves
  <2>3. Idle \in Calls /\ Idle.at = "idle"
    BY DEF Calls, Idle
  <2>4. Steady(t, Idle)
    BY <1>1, <1>2, <2>2, <2>3 DEF Steady, SameCast, SamePlaces, Named
  <2> QED
    BY <2>4
<1> QED
  BY <1>3, <1>4

\* After a removal the thread respawns the monster, or returns.
LEMMA AfterRemovalMoves ==
    ASSUME TypeOK, NEW t \in Threads, NEW respawn \in BOOLEAN, AfterRemoval(t, respawn)
    PROVE  \E next \in Calls :
              /\ call' = [call EXCEPT ![t] = next]
              /\ serving' \in [Threads -> Sessions \cup {Nobody}]
              /\ next.at \in {"idle", "respawn"}
              /\ respawn => next.at = "respawn"
<1>1. Idle \in Calls /\ Idle.at = "idle" /\ [at |-> "respawn"] \in Calls
  BY DEF Calls, Idle
<1>2. CASE respawn
  <2>1. Go(t, [at |-> "respawn"])
    BY <1>2 DEF AfterRemoval
  <2>2. call' = [call EXCEPT ![t] = [at |-> "respawn"]]
        /\ serving' \in [Threads -> Sessions \cup {Nobody}]
    BY <2>1, ThreadMoves
  <2> QED
    BY <1>1, <2>2
<1>3. CASE ~respawn
  <2>1. Return(t)
    BY <1>3 DEF AfterRemoval
  <2>2. call' = [call EXCEPT ![t] = Idle]
        /\ serving' \in [Threads -> Sessions \cup {Nobody}]
    BY <2>1, ThreadMoves
  <2> QED
    BY <1>1, <1>3, <2>2
<1> QED
  BY <1>2, <1>3

LEMMA EraseSteady ==
    ASSUME TypeOK, NEW t \in Threads, Erase(t), call[t].id \notin DOMAIN objects
    PROVE  \E next : Steady(t, next)
<1>1. /\ call[t].at = "erase" /\ AfterRemoval(t, call[t].respawn)
      /\ UNCHANGED <<objects, told, nextId, player, missed, raced, crossed, contested>>
  BY DEF Erase
<1>2. /\ contested' \subseteq Cells /\ objects' \in [DOMAIN objects -> Info]
      /\ call[t] \in Calls
  BY <1>1 DEF TypeOK
<1>3. call[t].respawn \in BOOLEAN
  BY <1>1, <1>2, CallFields
<1>4. PICK next \in Calls :
              /\ call' = [call EXCEPT ![t] = next]
              /\ serving' \in [Threads -> Sessions \cup {Nobody}]
              /\ next.at \in {"idle", "respawn"}
  BY <1>1, <1>3, AfterRemovalMoves
<1>5. Steady(t, next)
  BY <1>1, <1>2, <1>4 DEF Steady, SameCast, SamePlaces, Named
<1> QED
  BY <1>5

-----------------------------------------------------------------------------
(* Broadcasts *)

LEMMA EnteringAreIds ==
    ASSUME TypeOK, NEW p \in Entering
    PROVE  p \in Ids
<1>1. PICK t \in Threads : call[t].at = "insert" /\ p = call[t].id
  BY DEF Entering
<1>2. call[t] \in Calls
  BY DEF TypeOK
<1> QED
  BY <1>1, <1>2, CallFields DEF Named

LEMMA UnheardIsPairs ==
    ASSUME TypeOK, NEW id \in Ids, Unheard(id)
    PROVE  /\ missed' \subseteq Ids \X Ids /\ missed \subseteq missed'
           /\ \A p \in Entering : <<p, id>> \in missed'
<1>1. missed' = missed \cup {<<p, id>> : p \in Entering} /\ missed \subseteq Ids \X Ids
  BY DEF Unheard, TypeOK
<1>2. {<<p, id>> : p \in Entering} \subseteq Ids \X Ids
  BY EnteringAreIds
<1> QED
  BY <1>1, <1>2

\* RemoveActor leaves the other actors.
LEMMA RemoveAtLeaves ==
    ASSUME NEW places \in Places, NEW i \in 1..Len(places), Len(places) # 1
    PROVE  RemoveAt(places, i) \in Places
<1> DEFINE before == SubSeq(places, 1, i - 1)
           after == SubSeq(places, i + 1, Len(places))
<1>1. PICK n \in Nat : n = Len(places)
  BY DEF Places
<1>2. i \in 1..n /\ i \in Int /\ n > 1
  BY <1>1
<1>3. before \in Seq(Cells) /\ Len(before) = i - 1
  BY <1>1, <1>2, SubSeqProperties DEF Places
<1>4. after \in Seq(Cells) /\ Len(after) = n - i
  BY <1>1, <1>2, SubSeqProperties DEF Places
<1>5. RemoveAt(places, i) = before \o after
  BY DEF RemoveAt
<1> HIDE DEF before, after
<1>a. before \o after \in Seq(Cells)
  BY <1>3, <1>4, ConcatProperties
<1>b. Len(before \o after) = Len(before) + Len(after)
  BY <1>3, <1>4, ConcatProperties
<1>6. before \o after \in Seq(Cells) /\ Len(before \o after) = n - 1
  BY <1>2, <1>3, <1>4, <1>a, <1>b
<1>7. before \o after # <<>>
  BY <1>2, <1>6
<1> QED
  BY <1>5, <1>6, <1>7 DEF Places

LEMMA PlacesFields ==
    ASSUME NEW places \in Places, NEW cell \in Cells
    PROVE  /\ Len(places) \in Nat /\ Len(places) # 0
           /\ DOMAIN places = 1..Len(places)
           /\ <<cell>> \in Places /\ Len(<<cell>>) = 1
           /\ AllAt(<<cell>>, cell)
           /\ Append(places, cell) \in Places
<1>1. places \in Seq(Cells) /\ places # <<>>
  BY DEF Places
<1>2. Len(places) \in Nat /\ Len(places) # 0
  BY <1>1
<1>3. DOMAIN places = 1..Len(places)
  BY <1>1, LenProperties
<1>4. <<cell>> \in Places /\ Len(<<cell>>) = 1 /\ AllAt(<<cell>>, cell)
  BY DEF Places, AllAt
<1>5. Append(places, cell) \in Places
  BY <1>1, AppendProperties DEF Places
<1> QED
  BY <1>2, <1>3, <1>4, <1>5

\* What TellMoved does to one client: one of its actors stands there then, and
\* if it has no other, all do.
LEMMA TellMovedEffect ==
    ASSUME TypeOK, NEW id, NEW pos \in Cells, TellMoved(id, pos)
    PROVE  /\ DOMAIN told' = DOMAIN told
           /\ \A p \in DOMAIN told :
                 /\ DOMAIN told'[p] = DOMAIN told[p]
                 /\ told'[p] \in [DOMAIN told[p] -> Places]
                 /\ \A k \in DOMAIN told[p] : k # id => told'[p][k] = told[p][k]
                 /\ \A k \in DOMAIN told[p] : Len(told'[p][k]) = Len(told[p][k])
                 /\ p \in Listeners /\ id \in DOMAIN told[p] =>
                       AllAt(told'[p][id], pos) \/ Len(told[p][id]) > 1
                 /\ p \notin Listeners => told'[p] = told[p]
<1>1. DOMAIN told' = DOMAIN told
  BY DEF TellMoved
<1> SUFFICES ASSUME NEW p \in DOMAIN told
    PROVE  /\ DOMAIN told'[p] = DOMAIN told[p]
           /\ told'[p] \in [DOMAIN told[p] -> Places]
           /\ \A k \in DOMAIN told[p] : k # id => told'[p][k] = told[p][k]
           /\ \A k \in DOMAIN told[p] : Len(told'[p][k]) = Len(told[p][k])
           /\ p \in Listeners /\ id \in DOMAIN told[p] =>
                 AllAt(told'[p][id], pos) \/ Len(told[p][id]) > 1
           /\ p \notin Listeners => told'[p] = told[p]
  BY <1>1
<1>2. told[p] \in [DOMAIN told[p] -> Places]
  BY DEF TypeOK
<1>3. CASE p \notin Hearers(id)
  <2>1. told'[p] = told[p]
    BY <1>3 DEF TellMoved
  <2> QED
    BY <1>2, <1>3, <2>1 DEF Hearers
<1>4. CASE p \in Hearers(id)
  <2>1. id \in DOMAIN told[p] /\ told[p][id] \in Places
    BY <1>2, <1>4 DEF Hearers
  <2>2. PICK i \in DOMAIN told[p][id] : told'[p] = [told[p] EXCEPT ![id][i] = pos]
    BY <1>4 DEF TellMoved, Found
  <2> DEFINE old == told[p][id]
             new == [old EXCEPT ![i] = pos]
  <2>3. told'[p] = [told[p] EXCEPT ![id] = new]
    BY <2>2
  <2>4. /\ Len(old) \in Nat /\ Len(old) # 0 /\ DOMAIN old = 1..Len(old)
        /\ old \in Seq(Cells) /\ i \in DOMAIN old
    BY <2>1, <2>2, PlacesFields DEF Places
  <2> HIDE DEF old
  <2>5. new \in Seq(Cells) /\ Len(new) = Len(old) /\ DOMAIN new = 1..Len(old)
    BY <2>4, <2>2
  <2>6. new # <<>>
    BY <2>4, <2>5
  <2>7. AllAt(new, pos) \/ Len(old) > 1
    BY <2>2, <2>4, <2>5 DEF AllAt, old
  <2>8. new \in Places
    BY <2>5, <2>6 DEF Places
  <2> HIDE DEF new
  <2>9. /\ DOMAIN told'[p] = DOMAIN told[p]
        /\ told'[p] \in [DOMAIN told[p] -> Places]
        /\ told'[p][id] = new
        /\ \A k \in DOMAIN told[p] : k # id => told'[p][k] = told[p][k]
    BY <1>2, <2>1, <2>3, <2>8
  <2>10. p \in Listeners
    BY <1>4 DEF Hearers
  <2> QED
    BY <2>5, <2>7, <2>9, <2>10 DEF old
<1> QED
  BY <1>3, <1>4

\* S_Move goes out, from BroadcastMove or from BroadcastGameState.
LEMMA TellingMovedHolds ==
    ASSUME InductiveInvariant, NEW t \in Threads, NEW next \in Calls,
           call[t].at \in {"tell moved", "tell state"},
           TellMoved(call[t].id, call[t].pos), Unheard(call[t].id),
           call' = [call EXCEPT ![t] = next],
           serving' \in [Threads -> Sessions \cup {Nobody}],
           UNCHANGED <<objects, nextId, player, raced, crossed, contested>>,
           next.at \in {"idle", "attack", "unmark"},
           next.at # "idle" => next.id = call[t].id
    PROVE  InductiveInvariant'
<1> USE DEF InductiveInvariant
<1> DEFINE id == call[t].id
           pos == call[t].pos
<1>1. /\ call' \in [Threads -> Calls] /\ call'[t] = next
      /\ \A u \in Threads : u # t => call'[u] = call[u]
  BY DEF TypeOK
<1>2. call[t] \in Calls
  BY DEF TypeOK
<1>3. id \in Ids /\ pos \in Cells
  BY <1>2, CallFields DEF Named, Carrying
<1>4. /\ missed' \subseteq Ids \X Ids /\ missed \subseteq missed'
      /\ \A p \in Entering : <<p, id>> \in missed'
  BY <1>3, UnheardIsPairs
<1>5. /\ DOMAIN told' = DOMAIN told
      /\ \A p \in DOMAIN told :
            /\ DOMAIN told'[p] = DOMAIN told[p]
            /\ told'[p] \in [DOMAIN told[p] -> Places]
            /\ \A k \in DOMAIN told[p] : k # id => told'[p][k] = told[p][k]
            /\ \A k \in DOMAIN told[p] : Len(told'[p][k]) = Len(told[p][k])
            /\ p \in Listeners /\ id \in DOMAIN told[p] =>
                  AllAt(told'[p][id], pos) \/ Len(told[p][id]) > 1
            /\ p \notin Listeners => told'[p] = told[p]
  BY <1>3, TellMovedEffect
<1>6. SameCast(t, next) /\ SamePlaces(t, next)
  BY <1>5 DEF SameCast, SamePlaces, Named
<1>7. IdsOK' /\ SharedOK' /\ MonsterOK' /\ DeathOK'
  BY <1>6, SameCastHolds, SamePlacesHold
<1>8. TypeOK'
  BY <1>1, <1>4, <1>5 DEF TypeOK
<1>9. id \in raced \/ (id \in DOMAIN objects /\ objects[id].pos = pos)
  BY DEF CopiesOK, Carrying
<1>10. \A p \in DOMAIN told :
          p \in Listeners \/ <<p, id>> \in missed'
  BY <1>4 DEF IdsOK
<1>a. \A p \in DOMAIN told : id \in DOMAIN told[p] =>
          AllAt(told'[p][id], pos) \/ <<p, id>> \in missed' \cup crossed
  BY <1>5, <1>10 DEF DoublesOK, DoubleOK
<1>11. CopiesOK'
  <2> SUFFICES ASSUME NEW u \in Threads
      PROVE /\ call'[u].at \in Carrying =>
                  \/ call'[u].id \in raced
                  \/ /\ call'[u].id \in DOMAIN objects
                     /\ objects[call'[u].id].pos = call'[u].pos
            /\ call'[u].at = "unmark" =>
                  call'[u].id \in raced \/ call'[u].id \in DOMAIN objects
    BY DEF CopiesOK
  <2>1. CASE u # t
    BY <1>1, <2>1 DEF CopiesOK
  <2>2. CASE u = t
    BY <1>1, <1>9, <2>2 DEF Carrying
  <2> QED
    BY <2>1, <2>2
<1>12. SentOK'
  <2> SUFFICES ASSUME NEW u \in Threads, call'[u].at = "unmark", NEW p \in DOMAIN told,
                      call'[u].id \in DOMAIN told[p], call'[u].id \in DOMAIN objects
      PROVE \/ AllAt(told'[p][call'[u].id], objects[call'[u].id].pos)
            \/ call'[u].id \in raced \/ <<p, call'[u].id>> \in missed' \cup crossed
    BY <1>5 DEF SentOK
  <2>1. CASE call'[u].id = id
    BY <1>9, <1>a, <2>1
  <2>2. CASE call'[u].id # id
    <3>1. call'[u] = call[u]
      BY <1>1, <2>2
    <3>2. \/ AllAt(told[p][call[u].id], objects[call[u].id].pos)
          \/ call[u].id \in raced \/ <<p, call[u].id>> \in missed \cup crossed
      BY <3>1 DEF SentOK
    <3>3. call[u].id \in DOMAIN told[p] /\ call[u].id # id
      BY <2>2, <3>1
    <3>4. told'[p][call[u].id] = told[p][call[u].id]
      BY <1>5, <3>3
    <3> QED
      BY <1>4, <3>1, <3>2, <3>4
  <2> QED
    BY <2>1, <2>2
<1>13. ViewsOK'
  <2> SUFFICES ASSUME NEW p \in DOMAIN told
      PROVE ViewOK(p)'
    BY <1>5 DEF ViewsOK
  <2>1. ViewOK(p)
    BY DEF ViewsOK
  <2>2. \A kind \in {"tell added", "tell removed", "mark"} : \A k :
          Announcing(k, kind) => Announcing(k, kind)'
    <3> SUFFICES ASSUME NEW kind \in {"tell added", "tell removed", "mark"}, NEW k,
                        Announcing(k, kind)
        PROVE \E u \in Threads : call'[u].at = kind /\ call'[u].id = k
      BY DEF Announcing, Threads
    <3>1. PICK u \in Threads : call[u].at = kind /\ call[u].id = k
      BY DEF Announcing
    <3>2. u # t
      BY <3>1
    <3> QED
      BY <1>1, <3>1, <3>2
  <2>3. \A k \in DOMAIN objects' \ DOMAIN told'[p] :
           <<p, k>> \in missed' \/ Announcing(k, "tell added")'
    BY <1>4, <1>5, <2>1, <2>2 DEF ViewOK
  <2>4. \A k \in DOMAIN told'[p] \ DOMAIN objects' :
           \/ k = p \/ <<p, k>> \in missed' \cup crossed \/ k \in raced'
           \/ Announcing(k, "tell removed")'
    BY <1>4, <1>5, <2>1, <2>2 DEF ViewOK
  <2>5. ASSUME NEW k \in DOMAIN told[p] \cap DOMAIN objects
        PROVE  \/ AllAt(told'[p][k], objects[k].pos)
               \/ objects[k].dirty \/ Announcing(k, "mark")'
               \/ k \in raced \/ <<p, k>> \in missed' \cup crossed
    <3>1. CASE k = id
      BY <1>9, <1>a, <3>1
    <3>2. CASE k # id
      <4>1. \/ AllAt(told[p][k], objects[k].pos)
            \/ objects[k].dirty \/ Announcing(k, "mark")
            \/ k \in raced \/ <<p, k>> \in missed \cup crossed
        BY <2>1 DEF ViewOK
      <4> QED
        BY <1>4, <1>5, <2>2, <3>2, <4>1
    <3> QED
      BY <3>1, <3>2
  <2>6. ASSUME NEW u \in Threads, call'[u].at = "insert", call'[u].id \in DOMAIN told[p]
        PROVE  p = call'[u].id /\ told'[p][p] = <<call'[u].info.pos>>
    <3>1. u # t /\ call'[u] = call[u]
      BY <1>1, <2>6
    <3>2. call[u].id # id
      BY <2>6, <3>1 DEF IdsOK, Named
    <3>3. p = call[u].id /\ told[p][p] = <<call[u].info.pos>>
      BY <2>1, <2>6, <3>1 DEF ViewOK
    <3>4. told'[p][p] = told[p][p]
      BY <1>5, <2>6, <3>1, <3>2, <3>3
    <3> QED
      BY <3>1, <3>3, <3>4
  <2> QED
    BY <1>5, <2>3, <2>4, <2>5, <2>6 DEF ViewOK
<1>14. DoublesOK'
  <2>1. \A u \in Threads : call'[u].at = "tell added" => call'[u] = call[u]
    BY <1>1
  <2> SUFFICES ASSUME NEW p \in DOMAIN told
      PROVE DoubleOK(p)'
    BY <1>5 DEF DoublesOK
  <2>2. DoubleOK(p) /\ DOMAIN told'[p] = DOMAIN told[p] /\ crossed \subseteq crossed'
    BY <1>5 DEF DoublesOK
  <2>3. \A k \in DOMAIN told'[p] : Len(told'[p][k]) > 1 => <<p, k>> \in crossed'
    BY <1>5, <2>2 DEF DoubleOK
  <2>4. ASSUME NEW u \in Threads,
               call'[u].at = "tell added", call'[u].id \in DOMAIN told'[p]
        PROVE  p = call'[u].id \/ <<p, call'[u].id>> \in crossed'
    <3>1. PICK k : k = call[u].id /\ call'[u] = call[u]
      BY <2>1, <2>4
    <3>2. call[u].at = "tell added" /\ k \in DOMAIN told[p]
      BY <2>2, <2>4, <3>1
    <3>3. p = k \/ <<p, k>> \in crossed
      BY <2>2, <3>1, <3>2 DEF DoubleOK
    <3> QED
      BY <2>2, <3>1, <3>3
  <2>5. p \in DOMAIN told'[p]
    BY <2>2 DEF DoubleOK
  <2> QED
    BY <2>3, <2>4, <2>5 DEF DoubleOK
<1> QED
  BY <1>7, <1>8, <1>11, <1>12, <1>13, <1>14

LEMMA BroadcastMoveHolds ==
    ASSUME InductiveInvariant, NEW t \in Threads, BroadcastMove(t)
    PROVE  InductiveInvariant'
<1> USE DEF InductiveInvariant
<1>1. /\ call[t].at = "tell moved"
      /\ TellMoved(call[t].id, call[t].pos) /\ Unheard(call[t].id)
      /\ UNCHANGED <<objects, nextId, player, raced, crossed, contested>>
  BY DEF BroadcastMove
<1>2. call[t] \in Calls
  BY DEF TypeOK
<1>3. call[t].id \in Ids /\ call[t].target \in {0} \cup Ids
  BY <1>1, <1>2, CallFields DEF Named
<1>4. CASE call[t].target = 0
  <2>1. Return(t)
    BY <1>4 DEF BroadcastMove
  <2>2. call' = [call EXCEPT ![t] = Idle]
        /\ serving' \in [Threads -> Sessions \cup {Nobody}]
    BY <2>1, ThreadMoves
  <2>3. Idle \in Calls /\ Idle.at = "idle"
    BY DEF Calls, Idle
  <2> QED
    BY <1>1, <2>2, <2>3, TellingMovedHolds
<1>5. CASE call[t].target # 0
  <2> DEFINE next == [at |-> "attack", id |-> call[t].id, target |-> call[t].target]
  <2>1. Go(t, next)
    BY <1>5 DEF BroadcastMove
  <2>2. next \in Calls /\ next.at = "attack" /\ next.id = call[t].id
    BY <1>3, <1>5 DEF Calls
  <2> HIDE DEF next
  <2>3. call' = [call EXCEPT ![t] = next]
        /\ serving' \in [Threads -> Sessions \cup {Nobody}]
    BY <2>1, ThreadMoves
  <2> QED
    BY <1>1, <2>2, <2>3, TellingMovedHolds
<1> QED
  BY <1>4, <1>5

LEMMA BroadcastStateHolds ==
    ASSUME InductiveInvariant, NEW t \in Threads, BroadcastState(t)
    PROVE  InductiveInvariant'
<1> USE DEF InductiveInvariant
<1> DEFINE next == [at |-> "unmark", id |-> call[t].id, left |-> call[t].left]
<1>1. /\ call[t].at = "tell state" /\ Go(t, next)
      /\ TellMoved(call[t].id, call[t].pos) /\ Unheard(call[t].id)
      /\ UNCHANGED <<objects, nextId, player, raced, crossed, contested>>
  BY DEF BroadcastState
<1>2. call[t] \in Calls
  BY DEF TypeOK
<1>3. call[t].id \in Ids /\ call[t].left \in SUBSET Ids
  <2> HIDE DEF next
  <2> QED BY <1>1, <1>2, CallFields DEF Named
<1>4. next \in Calls /\ next.at = "unmark" /\ next.id = call[t].id
  BY <1>3 DEF Calls
<1> HIDE DEF next
<1>5. call' = [call EXCEPT ![t] = next]
      /\ serving' \in [Threads -> Sessions \cup {Nobody}]
  BY <1>1, ThreadMoves
<1> QED
  BY <1>1, <1>4, <1>5, TellingMovedHolds

\* What a thread announces it announces until it does.
LEMMA AnnouncingStays ==
    ASSUME TypeOK, NEW t \in Threads, NEW next, call' = [call EXCEPT ![t] = next],
           NEW k, NEW kind, Announcing(k, kind), ~(call[t].at = kind /\ call[t].id = k)
    PROVE  Announcing(k, kind)'
<1>1. PICK u \in Threads : call[u].at = kind /\ call[u].id = k
  BY DEF Announcing
<1>2. u # t
  BY <1>1
<1>3. call'[u] = call[u]
  BY <1>2 DEF TypeOK
<1> QED
  BY <1>1, <1>3 DEF Announcing, Threads

\* What TellAdded does to one client: it has an actor there, beside those it
\* had, unless the object is its own player.
LEMMA TellAddedEffect ==
    ASSUME TypeOK, NEW id \in 1..nextId - 1, NEW pos \in Cells, TellAdded(id, pos)
    PROVE  /\ DOMAIN told' = DOMAIN told
           /\ \A p \in DOMAIN told :
                 /\ DOMAIN told[p] \subseteq DOMAIN told'[p]
                 /\ DOMAIN told'[p] \subseteq DOMAIN told[p] \cup {id}
                 /\ DOMAIN told'[p] \subseteq 1..nextId - 1
                 /\ told'[p] \in [DOMAIN told'[p] -> Places]
                 /\ \A k \in DOMAIN told[p] : k # id => told'[p][k] = told[p][k]
                 /\ p \in Listeners /\ p # id => id \in DOMAIN told'[p]
                 /\ id \in DOMAIN told'[p] \ DOMAIN told[p] => told'[p][id] = <<pos>>
                 /\ p \notin Listeners \/ p = id => told'[p] = told[p]
<1>1. DOMAIN told' = DOMAIN told
  BY DEF TellAdded
<1> SUFFICES ASSUME NEW p \in DOMAIN told
    PROVE  /\ DOMAIN told[p] \subseteq DOMAIN told'[p]
           /\ DOMAIN told'[p] \subseteq DOMAIN told[p] \cup {id}
           /\ DOMAIN told'[p] \subseteq 1..nextId - 1
           /\ told'[p] \in [DOMAIN told'[p] -> Places]
           /\ \A k \in DOMAIN told[p] : k # id => told'[p][k] = told[p][k]
           /\ p \in Listeners /\ p # id => id \in DOMAIN told'[p]
           /\ id \in DOMAIN told'[p] \ DOMAIN told[p] => told'[p][id] = <<pos>>
           /\ p \notin Listeners \/ p = id => told'[p] = told[p]
  BY <1>1
<1>2. told[p] \in [DOMAIN told[p] -> Places] /\ DOMAIN told[p] \subseteq 1..nextId - 1
  BY DEF TypeOK
<1>3. CASE p \notin Listeners \ {id}
  <2>1. told'[p] = told[p]
    BY <1>3 DEF TellAdded
  <2> QED
    BY <1>2, <1>3, <2>1
<1>4. CASE p \in Listeners \ {id} /\ id \in DOMAIN told[p]
  <2> DEFINE new == Append(told[p][id], pos)
  <2>1. told'[p] = [told[p] EXCEPT ![id] = new]
    BY <1>4 DEF TellAdded, WithActor
  <2>2. new \in Places
    BY <1>2, <1>4, PlacesFields
  <2> HIDE DEF new
  <2> QED
    BY <1>2, <1>4, <2>1, <2>2
<1>5. CASE p \in Listeners \ {id} /\ id \notin DOMAIN told[p]
  <2> DEFINE new == <<pos>>
  <2>1. told'[p] = Put(told[p], id, new)
    BY <1>5 DEF TellAdded, WithActor
  <2>2. new \in Places
    BY DEF Places
  <2> HIDE DEF new
  <2>3. /\ DOMAIN told'[p] = DOMAIN told[p] \cup {id}
        /\ told'[p][id] = new
        /\ \A k \in DOMAIN told[p] : k # id => told'[p][k] = told[p][k]
        /\ told'[p] \in [DOMAIN told[p] \cup {id} -> Places]
    BY <1>2, <2>1, <2>2 DEF Put
  <2> QED
    BY <1>2, <1>5, <2>3 DEF new
<1> QED
  BY <1>3, <1>4, <1>5

\* What TellRemoved does to one client: it keeps an actor with that id only if
\* it had more than one.
LEMMA TellRemovedEffect ==
    ASSUME TypeOK, NEW id, TellRemoved(id)
    PROVE  /\ DOMAIN told' = DOMAIN told
           /\ \A p \in DOMAIN told :
                 /\ DOMAIN told'[p] \subseteq DOMAIN told[p]
                 /\ DOMAIN told[p] \subseteq DOMAIN told'[p] \cup {id}
                 /\ told'[p] \in [DOMAIN told'[p] -> Places]
                 /\ \A k \in DOMAIN told'[p] : k # id => told'[p][k] = told[p][k]
                 /\ p \in Listeners /\ id \in DOMAIN told'[p] => Len(told[p][id]) > 1
                 /\ p \notin Listeners => told'[p] = told[p]
<1>1. DOMAIN told' = DOMAIN told
  BY DEF TellRemoved
<1> SUFFICES ASSUME NEW p \in DOMAIN told
    PROVE  /\ DOMAIN told'[p] \subseteq DOMAIN told[p]
           /\ DOMAIN told[p] \subseteq DOMAIN told'[p] \cup {id}
           /\ told'[p] \in [DOMAIN told'[p] -> Places]
           /\ \A k \in DOMAIN told'[p] : k # id => told'[p][k] = told[p][k]
           /\ p \in Listeners /\ id \in DOMAIN told'[p] => Len(told[p][id]) > 1
           /\ p \notin Listeners => told'[p] = told[p]
  BY <1>1
<1>2. told[p] \in [DOMAIN told[p] -> Places]
  BY DEF TypeOK
<1>3. CASE p \notin Hearers(id)
  <2>1. told'[p] = told[p]
    BY <1>3 DEF TellRemoved
  <2> QED
    BY <1>2, <1>3, <2>1 DEF Hearers
<1>4. CASE p \in Hearers(id)
  <2>1. id \in DOMAIN told[p] /\ told[p][id] \in Places /\ p \in Listeners
    BY <1>2, <1>4 DEF Hearers
  <2>2. PICK i \in DOMAIN told[p][id] : told'[p] = WithoutActor(told[p], id, i)
    BY <1>4 DEF TellRemoved, Found
  <2>3. /\ Len(told[p][id]) \in Nat /\ Len(told[p][id]) # 0
        /\ DOMAIN told[p][id] = 1..Len(told[p][id])
    BY <2>1, PlacesFields
  <2>4. CASE Len(told[p][id]) = 1
    <3>1. told'[p] = Drop(told[p], id)
      BY <2>2, <2>4 DEF WithoutActor
    <3>2. /\ DOMAIN told'[p] = DOMAIN told[p] \ {id}
          /\ \A k \in DOMAIN told'[p] : told'[p][k] = told[p][k]
          /\ told'[p] \in [DOMAIN told[p] \ {id} -> Places]
      BY <1>2, <3>1 DEF Drop
    <3> QED
      BY <2>1, <3>2
  <2>5. CASE Len(told[p][id]) # 1
    <3> DEFINE old == told[p][id]
               new == RemoveAt(old, i)
    <3>1. told'[p] = [told[p] EXCEPT ![id] = new]
      BY <2>2, <2>5 DEF WithoutActor
    <3>2. new \in Places
      <4>1. old \in Places /\ i \in 1..Len(old) /\ Len(old) # 1
        BY <2>1, <2>2, <2>3, <2>5
      <4> HIDE DEF old
      <4> QED
        BY <4>1, RemoveAtLeaves
    <3> HIDE DEF new
    <3>3. Len(told[p][id]) > 1
      <4> DEFINE n == Len(told[p][id])
      <4>1. n \in Nat /\ n # 0 /\ n # 1
        BY <2>3, <2>5
      <4> HIDE DEF n
      <4>2. n > 1
        BY <4>1
      <4> QED
        BY <4>2 DEF n
    <3>4. /\ DOMAIN told'[p] = DOMAIN told[p]
          /\ told'[p] \in [DOMAIN told[p] -> Places]
          /\ \A k \in DOMAIN told[p] : k # id => told'[p][k] = told[p][k]
      BY <1>2, <2>1, <3>1, <3>2
    <3> QED
      BY <2>1, <3>3, <3>4
  <2> QED
    BY <2>4, <2>5
<1> QED
  BY <1>3, <1>4

LEMMA BroadcastAddedHolds ==
    ASSUME InductiveInvariant, NEW t \in Threads, BroadcastAdded(t)
    PROVE  InductiveInvariant'
<1> USE DEF InductiveInvariant
<1> DEFINE id == call[t].id
           pos == call[t].pos
<1>1. /\ call[t].at = "tell added" /\ Return(t)
      /\ TellAdded(id, pos) /\ Unheard(id)
      /\ UNCHANGED <<objects, nextId, player, raced, crossed, contested>>
  BY DEF BroadcastAdded
<1>2. call[t] \in Calls
  BY DEF TypeOK
<1>3. id \in Ids /\ pos \in Cells /\ id \in 1..nextId - 1
  <2>1. id \in Ids /\ pos \in Cells
    BY <1>1, <1>2, CallFields DEF Named, Carrying
  <2>2. id < nextId
    BY <1>1 DEF IdsOK, Named
  <2> QED
    BY <2>1, <2>2, StatsAssumption DEF Ids, TypeOK
<1>4. /\ call' = [call EXCEPT ![t] = Idle]
      /\ serving' \in [Threads -> Sessions \cup {Nobody}]
  BY <1>1, ThreadMoves
<1>5. Idle \in Calls /\ Idle.at = "idle"
  BY DEF Calls, Idle
<1>6. /\ call' \in [Threads -> Calls] /\ call'[t] = Idle
      /\ \A u \in Threads : u # t => call'[u] = call[u]
  BY <1>4, <1>5 DEF TypeOK
<1>7. \A u \in Threads : call'[u].at # "idle" => u # t /\ call'[u] = call[u]
  BY <1>5, <1>6
<1>8. /\ missed' \subseteq Ids \X Ids /\ missed \subseteq missed'
      /\ \A p \in Entering : <<p, id>> \in missed'
  BY <1>1, <1>3, UnheardIsPairs
<1>9. /\ DOMAIN told' = DOMAIN told
      /\ \A p \in DOMAIN told :
            /\ DOMAIN told[p] \subseteq DOMAIN told'[p]
            /\ DOMAIN told'[p] \subseteq DOMAIN told[p] \cup {id}
            /\ DOMAIN told'[p] \subseteq 1..nextId - 1
            /\ told'[p] \in [DOMAIN told'[p] -> Places]
            /\ \A k \in DOMAIN told[p] : k # id => told'[p][k] = told[p][k]
            /\ p \in Listeners /\ p # id => id \in DOMAIN told'[p]
            /\ id \in DOMAIN told'[p] \ DOMAIN told[p] => told'[p][id] = <<pos>>
            /\ p \notin Listeners \/ p = id => told'[p] = told[p]
  BY <1>1, <1>3, TellAddedEffect
<1>10. SameCast(t, Idle) /\ SamePlaces(t, Idle)
  BY <1>1, <1>4, <1>5, <1>9 DEF SameCast, SamePlaces, Named
<1>11. IdsOK' /\ SharedOK' /\ MonsterOK' /\ DeathOK'
  BY <1>5, <1>10, SameCastHolds, SamePlacesHold
<1>12. TypeOK'
  BY <1>1, <1>4, <1>6, <1>8, <1>9 DEF TypeOK
<1>13. id \in raced \/ (id \in DOMAIN objects /\ objects[id].pos = pos)
  BY <1>1 DEF CopiesOK, Carrying
<1>14. \A p \in DOMAIN told : p \in Listeners \/ <<p, id>> \in missed'
  BY <1>8 DEF IdsOK
<1>15. \A p \in DOMAIN told : /\ DOMAIN told[p] \subseteq DOMAIN told'[p]
                              /\ DOMAIN told'[p] \subseteq DOMAIN told[p] \cup {id}
                              /\ \A k \in DOMAIN told[p] : k # id => told'[p][k] = told[p][k]
  BY <1>9
\* Who is told of the object for the first time has it where it is.
<1>a. \A p \in DOMAIN told : id \in DOMAIN told'[p] /\ id \notin DOMAIN told[p] =>
          AllAt(told'[p][id], pos)
  BY <1>3, <1>9 DEF AllAt
\* Who has it already is its own client, or has two actors for it from now on.
<1>b. \A p \in DOMAIN told : id \in DOMAIN told[p] =>
          \/ p = id /\ told'[p] = told[p]
          \/ <<p, id>> \in crossed
  BY <1>1, <1>9 DEF DoublesOK, DoubleOK
\* Its own client is not told.
<1>c. \A p \in DOMAIN told : id \in DOMAIN told'[p] /\ p # id =>
          AllAt(told'[p][id], pos) \/ <<p, id>> \in crossed
  BY <1>a, <1>b
<1>16. CopiesOK'
  BY <1>1, <1>7 DEF CopiesOK, Carrying
<1>17. SentOK'
  <2> SUFFICES ASSUME NEW u \in Threads, call'[u].at = "unmark", NEW p \in DOMAIN told,
                      call'[u].id \in DOMAIN told'[p], call'[u].id \in DOMAIN objects
      PROVE \/ AllAt(told'[p][call'[u].id], objects[call'[u].id].pos)
            \/ call'[u].id \in raced \/ <<p, call'[u].id>> \in missed' \cup crossed
    BY <1>1, <1>9 DEF SentOK
  <2>1. CASE call'[u].id = id /\ p # id
    BY <1>13, <1>c, <2>1
  <2>3. CASE call'[u].id = id /\ p = id
    <3>1. call'[u] = call[u] /\ told'[p] = told[p] /\ id \in DOMAIN told[p]
      BY <1>7, <1>9, <2>3
    <3>2. \/ AllAt(told[p][id], objects[id].pos)
          \/ id \in raced \/ <<p, id>> \in missed \cup crossed
      BY <2>3, <3>1 DEF SentOK
    <3> QED
      BY <1>8, <2>3, <3>1, <3>2
  <2>2. CASE call'[u].id # id
    <3>1. call'[u] = call[u] /\ call[u].id \in DOMAIN told[p] /\ call[u].id # id
      BY <1>7, <1>15, <2>2
    <3>2. \/ AllAt(told[p][call[u].id], objects[call[u].id].pos)
          \/ call[u].id \in raced \/ <<p, call[u].id>> \in missed \cup crossed
      BY <3>1 DEF SentOK
    <3>3. told'[p][call[u].id] = told[p][call[u].id]
      BY <1>15, <3>1
    <3> QED
      BY <1>8, <3>1, <3>2, <3>3
  <2> QED
    BY <2>1, <2>2, <2>3
<1>18. ViewsOK'
  <2> SUFFICES ASSUME NEW p \in DOMAIN told
      PROVE ViewOK(p)'
    BY <1>9 DEF ViewsOK
  <2>1. ViewOK(p)
    BY DEF ViewsOK
  <2>2. \A k : Announcing(k, "tell added") => k = id \/ Announcing(k, "tell added")'
    BY <1>4, AnnouncingStays
  <2>3. /\ \A k : Announcing(k, "tell removed") => Announcing(k, "tell removed")'
        /\ \A k : Announcing(k, "mark") => Announcing(k, "mark")'
    BY <1>1, <1>4, AnnouncingStays
  <2>4. ASSUME NEW k \in DOMAIN objects \ DOMAIN told'[p]
        PROVE  <<p, k>> \in missed' \/ Announcing(k, "tell added")'
    <3>1. k \in DOMAIN objects \ DOMAIN told[p]
      BY <1>15
    <3>2. <<p, k>> \in missed \/ Announcing(k, "tell added")
      BY <2>1, <3>1 DEF ViewOK
    <3>3. k # id \/ <<p, k>> \in missed'
      <4>1. p \in Listeners /\ p # id => id \in DOMAIN told'[p]
        BY <1>9
      <4>2. p = id => id \in DOMAIN told'[p]
        BY <1>15 DEF DoublesOK, DoubleOK
      <4> QED
        BY <1>14, <2>4, <4>1, <4>2
    <3> QED
      BY <1>8, <2>2, <3>2, <3>3
  <2>5. ASSUME NEW k \in DOMAIN told'[p] \ DOMAIN objects
        PROVE  \/ k = p \/ <<p, k>> \in missed' \cup crossed \/ k \in raced
               \/ Announcing(k, "tell removed")'
    <3>1. CASE k = id
      BY <1>13, <3>1
    <3>2. CASE k # id
      <4>1. k \in DOMAIN told[p] \ DOMAIN objects
        BY <1>15, <3>2
      <4> QED
        BY <1>8, <2>1, <2>3, <4>1 DEF ViewOK
    <3> QED
      BY <3>1, <3>2
  <2>6. ASSUME NEW k \in DOMAIN told'[p] \cap DOMAIN objects
        PROVE  \/ AllAt(told'[p][k], objects[k].pos)
               \/ objects[k].dirty \/ Announcing(k, "mark")'
               \/ k \in raced \/ <<p, k>> \in missed' \cup crossed
    <3>1. CASE k = id /\ p # id
      BY <1>13, <1>c, <2>6, <3>1
    <3>3. CASE k = id /\ p = id
      <4>1. told'[p] = told[p] /\ k \in DOMAIN told[p]
        BY <1>9, <2>6, <3>3
      <4>2. \/ AllAt(told[p][k], objects[k].pos)
            \/ objects[k].dirty \/ Announcing(k, "mark")
            \/ k \in raced \/ <<p, k>> \in missed \cup crossed
        BY <2>1, <4>1 DEF ViewOK
      <4> QED
        BY <1>8, <2>3, <4>1, <4>2
    <3>2. CASE k # id
      <4>1. k \in DOMAIN told[p] \cap DOMAIN objects
        BY <1>15, <3>2
      <4>2. \/ AllAt(told[p][k], objects[k].pos)
            \/ objects[k].dirty \/ Announcing(k, "mark")
            \/ k \in raced \/ <<p, k>> \in missed \cup crossed
        BY <2>1, <4>1 DEF ViewOK
      <4>3. told'[p][k] = told[p][k]
        BY <1>15, <3>2, <4>1
      <4> QED
        BY <1>8, <2>3, <4>2, <4>3
    <3> QED
      BY <3>1, <3>2, <3>3
  <2>7. ASSUME NEW u \in Threads, call'[u].at = "insert", call'[u].id \in DOMAIN told'[p]
        PROVE  p = call'[u].id /\ told'[p][p] = <<call'[u].info.pos>>
    <3>1. u # t /\ call'[u] = call[u]
      BY <1>7, <2>7
    <3>2. call[u].id # id
      BY <1>1, <2>7, <3>1 DEF IdsOK, Named
    <3>3. call[u].id \in DOMAIN told[p]
      BY <1>15, <2>7, <3>1, <3>2
    <3>4. p = call[u].id /\ told[p][p] = <<call[u].info.pos>>
      BY <2>1, <2>7, <3>1, <3>3 DEF ViewOK
    <3>5. told'[p][p] = told[p][p]
      BY <1>15, <3>2, <3>3, <3>4
    <3> QED
      BY <3>1, <3>4, <3>5
  <2> QED
    BY <1>1, <1>9, <2>4, <2>5, <2>6, <2>7 DEF ViewOK
<1>19. DoublesOK'
  <2> SUFFICES ASSUME NEW p \in DOMAIN told
      PROVE DoubleOK(p)'
    BY <1>9 DEF DoublesOK
  <2>1. DoubleOK(p) /\ crossed \subseteq crossed'
    BY <1>1 DEF DoublesOK
  <2>2. p \in DOMAIN told'[p]
    BY <1>15, <2>1 DEF DoubleOK
  <2>3. ASSUME NEW k \in DOMAIN told'[p], Len(told'[p][k]) > 1
        PROVE  <<p, k>> \in crossed'
    <3>1. CASE k = id /\ id \notin DOMAIN told[p]
      <4>1. told'[p][k] = <<pos>>
        BY <1>9, <2>3, <3>1
      <4>2. Len(<<pos>>) = 1
        OBVIOUS
      <4>3. Len(told'[p][k]) = 1
        BY <4>1, <4>2
      <4> QED
        BY <2>3, <4>3
    <3>2. CASE k = id /\ id \in DOMAIN told[p]
      BY <1>b, <2>1, <2>3, <3>2 DEF DoubleOK
    <3>3. CASE k # id
      <4>1. k \in DOMAIN told[p] /\ told'[p][k] = told[p][k]
        BY <1>15, <2>3, <3>3
      <4> QED
        BY <2>1, <2>3, <4>1 DEF DoubleOK
    <3> QED
      BY <3>1, <3>2, <3>3
  <2>4. ASSUME NEW u \in Threads,
               call'[u].at = "tell added", call'[u].id \in DOMAIN told'[p]
        PROVE  p = call'[u].id \/ <<p, call'[u].id>> \in crossed'
    <3>1. PICK k : k = call[u].id /\ u # t /\ call'[u] = call[u]
      BY <1>7, <2>4
    <3>2. call[u].at = "tell added" /\ k # id
      BY <1>1, <2>4, <3>1 DEF IdsOK
    <3>3. k \in DOMAIN told[p]
      BY <1>15, <2>4, <3>1, <3>2
    <3>4. p = k \/ <<p, k>> \in crossed
      BY <2>1, <3>1, <3>2, <3>3 DEF DoubleOK
    <3> QED
      BY <2>1, <3>1, <3>4
  <2> QED
    BY <2>2, <2>3, <2>4 DEF DoubleOK
<1> QED
  BY <1>11, <1>12, <1>16, <1>17, <1>18, <1>19

LEMMA BroadcastRemovedHolds ==
    ASSUME InductiveInvariant, NEW t \in Threads, BroadcastRemoved(t)
    PROVE  InductiveInvariant'
<1> USE DEF InductiveInvariant
<1> DEFINE id == call[t].id
<1>1. /\ call[t].at = "tell removed" /\ AfterRemoval(t, call[t].respawn)
      /\ TellRemoved(id) /\ Unheard(id)
      /\ UNCHANGED <<objects, nextId, player, raced, crossed, contested>>
  BY DEF BroadcastRemoved
<1>2. call[t] \in Calls
  BY DEF TypeOK
<1>3. id \in Ids /\ call[t].respawn \in BOOLEAN
  BY <1>1, <1>2, CallFields DEF Named
<1>4. PICK next \in Calls :
              /\ call' = [call EXCEPT ![t] = next]
              /\ serving' \in [Threads -> Sessions \cup {Nobody}]
              /\ next.at \in {"idle", "respawn"}
              /\ call[t].respawn => next.at = "respawn"
  BY <1>1, <1>3, AfterRemovalMoves
<1>5. id \notin DOMAIN objects
  BY <1>1 DEF IdsOK
<1>6. /\ call' \in [Threads -> Calls] /\ call'[t] = next
      /\ \A u \in Threads : u # t => call'[u] = call[u]
  BY <1>4 DEF TypeOK
<1>7. \A u \in Threads :
        call'[u].at \notin {"idle", "respawn"} => u # t /\ call'[u] = call[u]
  BY <1>4, <1>6
<1>8. /\ missed' \subseteq Ids \X Ids /\ missed \subseteq missed'
      /\ \A p \in Entering : <<p, id>> \in missed'
  BY <1>1, <1>3, UnheardIsPairs
<1>9. /\ DOMAIN told' = DOMAIN told
      /\ \A p \in DOMAIN told :
            /\ DOMAIN told'[p] \subseteq DOMAIN told[p]
            /\ DOMAIN told[p] \subseteq DOMAIN told'[p] \cup {id}
            /\ told'[p] \in [DOMAIN told'[p] -> Places]
            /\ \A k \in DOMAIN told'[p] : k # id => told'[p][k] = told[p][k]
            /\ p \in Listeners /\ id \in DOMAIN told'[p] => Len(told[p][id]) > 1
            /\ p \notin Listeners => told'[p] = told[p]
  BY <1>1, TellRemovedEffect
<1>10. SameCast(t, next) /\ SamePlaces(t, next)
  BY <1>1, <1>4, <1>9 DEF SameCast, SamePlaces, Named
<1>11. IdsOK' /\ SharedOK' /\ MonsterOK' /\ DeathOK'
  BY <1>10, SameCastHolds, SamePlacesHold
<1>12. TypeOK'
  BY <1>1, <1>4, <1>6, <1>8, <1>9 DEF TypeOK
<1>13. \A p \in DOMAIN told : p \in Listeners \/ <<p, id>> \in missed'
  BY <1>8 DEF IdsOK
<1>14. \A p \in DOMAIN told : /\ DOMAIN told'[p] \subseteq DOMAIN told[p]
                              /\ DOMAIN told[p] \subseteq DOMAIN told'[p] \cup {id}
                              /\ \A k \in DOMAIN told'[p] : k # id => told'[p][k] = told[p][k]
  BY <1>9
\* A client that keeps an actor with that id had two, or does not hear of it.
<1>a. \A p \in DOMAIN told : id \in DOMAIN told'[p] =>
          <<p, id>> \in missed' \cup crossed
  BY <1>9, <1>13, <1>14 DEF DoublesOK, DoubleOK
<1>15. CopiesOK'
  BY <1>1, <1>7 DEF CopiesOK, Carrying
<1>16. SentOK'
  <2> SUFFICES ASSUME NEW u \in Threads, call'[u].at = "unmark", NEW p \in DOMAIN told,
                      call'[u].id \in DOMAIN told'[p], call'[u].id \in DOMAIN objects
      PROVE \/ AllAt(told'[p][call'[u].id], objects[call'[u].id].pos)
            \/ call'[u].id \in raced \/ <<p, call'[u].id>> \in missed' \cup crossed
    BY <1>1, <1>9 DEF SentOK
  <2>1. call'[u] = call[u] /\ call[u].id \in DOMAIN told[p] /\ call[u].id # id
    BY <1>5, <1>7, <1>14
  <2>2. \/ AllAt(told[p][call[u].id], objects[call[u].id].pos)
        \/ call[u].id \in raced \/ <<p, call[u].id>> \in missed \cup crossed
    BY <2>1 DEF SentOK
  <2> QED
    BY <1>8, <1>14, <2>1, <2>2
<1>17. ViewsOK'
  <2> SUFFICES ASSUME NEW p \in DOMAIN told
      PROVE ViewOK(p)'
    BY <1>9 DEF ViewsOK
  <2>1. ViewOK(p)
    BY DEF ViewsOK
  <2>2. \A k : Announcing(k, "tell removed") => k = id \/ Announcing(k, "tell removed")'
    BY <1>4, AnnouncingStays
  <2>3. /\ \A k : Announcing(k, "tell added") => Announcing(k, "tell added")'
        /\ \A k : Announcing(k, "mark") => Announcing(k, "mark")'
    BY <1>1, <1>4, AnnouncingStays
  <2>4. ASSUME NEW k \in DOMAIN objects \ DOMAIN told'[p]
        PROVE  <<p, k>> \in missed' \/ Announcing(k, "tell added")'
    <3>1. k \in DOMAIN objects \ DOMAIN told[p]
      BY <1>5, <1>14
    <3> QED
      BY <1>8, <2>1, <2>3, <3>1 DEF ViewOK
  <2>5. ASSUME NEW k \in DOMAIN told'[p] \ DOMAIN objects
        PROVE  \/ k = p \/ <<p, k>> \in missed' \cup crossed \/ k \in raced
               \/ Announcing(k, "tell removed")'
    <3>1. k \in DOMAIN told[p] \ DOMAIN objects
      BY <1>14
    <3>2. \/ k = p \/ <<p, k>> \in missed \cup crossed \/ k \in raced
          \/ Announcing(k, "tell removed")
      BY <2>1, <3>1 DEF ViewOK
    <3>3. k = id => <<p, k>> \in missed' \cup crossed
      BY <1>a, <2>5
    <3> QED
      BY <1>8, <2>2, <3>2, <3>3
  <2>6. ASSUME NEW k \in DOMAIN told'[p] \cap DOMAIN objects
        PROVE  \/ AllAt(told'[p][k], objects[k].pos)
               \/ objects[k].dirty \/ Announcing(k, "mark")'
               \/ k \in raced \/ <<p, k>> \in missed' \cup crossed
    <3>1. k \in DOMAIN told[p] \cap DOMAIN objects /\ told'[p][k] = told[p][k]
      BY <1>5, <1>14
    <3>2. \/ AllAt(told[p][k], objects[k].pos)
          \/ objects[k].dirty \/ Announcing(k, "mark")
          \/ k \in raced \/ <<p, k>> \in missed \cup crossed
      BY <2>1, <3>1 DEF ViewOK
    <3> QED
      BY <1>8, <2>3, <3>1, <3>2
  <2>7. ASSUME NEW u \in Threads, call'[u].at = "insert", call'[u].id \in DOMAIN told'[p]
        PROVE  p = call'[u].id /\ told'[p][p] = <<call'[u].info.pos>>
    <3>1. call'[u] = call[u] /\ call[u].id \in DOMAIN told[p]
      BY <1>7, <1>14, <2>7
    <3>2. p = call[u].id /\ told[p][p] = <<call[u].info.pos>>
      BY <2>1, <2>7, <3>1 DEF ViewOK
    <3>3. call[u].id # id
      BY <1>1, <2>7, <3>1 DEF IdsOK, Named
    <3> QED
      BY <1>14, <2>7, <3>1, <3>2, <3>3
  <2> QED
    BY <1>1, <1>9, <2>4, <2>5, <2>6, <2>7 DEF ViewOK
<1>18. DoublesOK'
  <2> SUFFICES ASSUME NEW p \in DOMAIN told
      PROVE DoubleOK(p)'
    BY <1>9 DEF DoublesOK
  <2>1. DoubleOK(p) /\ crossed \subseteq crossed'
    BY <1>1 DEF DoublesOK
  <2>2. p \in DOMAIN told'[p]
    <3>1. CASE p \in Listeners
      BY <1>5, <1>14, <2>1, <3>1 DEF DoubleOK, Listeners, OfType
    <3>2. CASE p \notin Listeners
      BY <1>9, <2>1, <3>2 DEF DoubleOK
    <3> QED
      BY <3>1, <3>2
  <2>3. ASSUME NEW k \in DOMAIN told'[p], Len(told'[p][k]) > 1
        PROVE  <<p, k>> \in crossed'
    <3>1. CASE k = id /\ p \in Listeners
      BY <1>9, <1>14, <2>1, <2>3, <3>1 DEF DoubleOK
    <3>2. CASE k # id \/ p \notin Listeners
      <4>1. k \in DOMAIN told[p] /\ told'[p][k] = told[p][k]
        BY <1>9, <2>3, <3>2
      <4> QED
        BY <2>1, <2>3, <4>1 DEF DoubleOK
    <3> QED
      BY <3>1, <3>2
  <2>4. ASSUME NEW u \in Threads,
               call'[u].at = "tell added", call'[u].id \in DOMAIN told'[p]
        PROVE  p = call'[u].id \/ <<p, call'[u].id>> \in crossed'
    <3>1. PICK k : k = call[u].id /\ call'[u] = call[u]
      BY <1>7, <2>4
    <3>2. call[u].at = "tell added" /\ k \in DOMAIN told[p]
      BY <1>14, <2>4, <3>1
    <3>3. p = k \/ <<p, k>> \in crossed
      BY <2>1, <3>1, <3>2 DEF DoubleOK
    <3> QED
      BY <2>1, <3>1, <3>3
  <2> QED
    BY <2>2, <2>3, <2>4 DEF DoubleOK
<1> QED
  BY <1>11, <1>12, <1>15, <1>16, <1>17, <1>18

-----------------------------------------------------------------------------
(* BroadcastGameState copies what is marked and takes the marks off *)

LEMMA UnmarkHolds ==
    ASSUME InductiveInvariant, NEW t \in Threads, Unmark(t)
    PROVE  InductiveInvariant'
<1> USE DEF InductiveInvariant
<1> DEFINE id == call[t].id
           next == [at |-> "survey", left |-> call[t].left]
<1>1. /\ call[t].at = "unmark" /\ Go(t, next)
      /\ objects' = IF id \in DOMAIN objects
                    THEN [objects EXCEPT ![id].dirty = FALSE] ELSE objects
      /\ UNCHANGED <<told, nextId, player, missed, raced, crossed, contested>>
  BY DEF Unmark, history
<1>2. call[t] \in Calls /\ objects \in [DOMAIN objects -> Info]
  BY DEF TypeOK
<1>3. next \in Calls /\ next.at = "survey"
  <2>1. call[t].left \in SUBSET Ids
    BY <1>1, <1>2, CallFields DEF Named
  <2> QED
    BY <2>1 DEF Calls
<1> HIDE DEF next
<1>4. /\ call' = [call EXCEPT ![t] = next]
      /\ serving' \in [Threads -> Sessions \cup {Nobody}]
  BY <1>1, ThreadMoves
<1>5. /\ call' \in [Threads -> Calls] /\ call'[t] = next
      /\ \A u \in Threads : u # t => call'[u] = call[u]
  BY <1>3, <1>4 DEF TypeOK
<1>6. \A u \in Threads : call'[u].at # "survey" => u # t /\ call'[u] = call[u]
  BY <1>3, <1>5
<1>7. /\ objects' \in [DOMAIN objects -> Info]
      /\ \A k \in DOMAIN objects :
            /\ objects'[k].type = objects[k].type
            /\ objects'[k].pos = objects[k].pos
            /\ objects'[k].hp = objects[k].hp
            /\ k # id => objects'[k].dirty = objects[k].dirty
  <2>1. CASE id \in DOMAIN objects
    <3>1. objects[id] \in Info /\ [objects[id] EXCEPT !.dirty = FALSE] \in Info
      BY <1>2, <2>1 DEF Info
    <3>2. objects' = [objects EXCEPT ![id] = [objects[id] EXCEPT !.dirty = FALSE]]
      BY <1>1, <2>1
    <3>3. /\ objects' \in [DOMAIN objects -> Info]
          /\ objects'[id] = [objects[id] EXCEPT !.dirty = FALSE]
          /\ \A k \in DOMAIN objects : k # id => objects'[k] = objects[k]
      BY <1>2, <2>1, <3>1, <3>2
    <3>4. /\ objects'[id].type = objects[id].type /\ objects'[id].pos = objects[id].pos
          /\ objects'[id].hp = objects[id].hp
      BY <3>1, <3>3 DEF Info
    <3> QED
      BY <3>3, <3>4
  <2>2. CASE id \notin DOMAIN objects
    BY <1>1, <1>2, <2>2
  <2> QED
    BY <2>1, <2>2
<1>8. DOMAIN objects' = DOMAIN objects
  BY <1>7
<1>9. SameCast(t, next) /\ SamePlaces(t, next)
  BY <1>1, <1>3, <1>4, <1>7, <1>8 DEF SameCast, SamePlaces, Named
<1>10. IdsOK' /\ SharedOK' /\ MonsterOK' /\ DeathOK'
  BY <1>3, <1>9, SameCastHolds, SamePlacesHold
<1>11. TypeOK'
  BY <1>1, <1>4, <1>5, <1>7 DEF TypeOK
<1>12. CopiesOK'
  <2> SUFFICES ASSUME NEW u \in Threads, call'[u].at \in Carrying \cup {"unmark"}
      PROVE /\ call'[u].at \in Carrying =>
                  \/ call'[u].id \in raced
                  \/ /\ call'[u].id \in DOMAIN objects
                     /\ objects'[call'[u].id].pos = call'[u].pos
            /\ call'[u].at = "unmark" =>
                  call'[u].id \in raced \/ call'[u].id \in DOMAIN objects
    BY <1>1, <1>8 DEF CopiesOK, Carrying
  <2>1. call'[u] = call[u]
    BY <1>6 DEF Carrying
  <2> QED
    BY <1>7, <2>1 DEF CopiesOK
<1>13. SentOK'
  BY <1>1, <1>6, <1>7, <1>8 DEF SentOK
<1>14. ViewsOK'
  <2> SUFFICES ASSUME NEW p \in DOMAIN told
      PROVE ViewOK(p)'
    BY <1>1 DEF ViewsOK
  <2>1. ViewOK(p)
    BY DEF ViewsOK
  <2>2. /\ \A k : Announcing(k, "tell added") => Announcing(k, "tell added")'
        /\ \A k : Announcing(k, "tell removed") => Announcing(k, "tell removed")'
        /\ \A k : Announcing(k, "mark") => Announcing(k, "mark")'
    BY <1>1, <1>4, AnnouncingStays
  <2>3. ASSUME NEW k \in DOMAIN told[p] \cap DOMAIN objects
        PROVE  \/ AllAt(told[p][k], objects'[k].pos)
               \/ objects'[k].dirty \/ Announcing(k, "mark")'
               \/ k \in raced \/ <<p, k>> \in missed \cup crossed
    <3>1. CASE k = id
      BY <1>1, <1>7, <3>1 DEF SentOK
    <3>2. CASE k # id
      <4>1. \/ AllAt(told[p][k], objects[k].pos)
            \/ objects[k].dirty \/ Announcing(k, "mark")
            \/ k \in raced \/ <<p, k>> \in missed \cup crossed
        BY <2>1 DEF ViewOK
      <4> QED
        BY <1>7, <2>2, <3>2, <4>1
    <3> QED
      BY <3>1, <3>2
  <2>4. \A u \in Threads : call'[u].at = "insert" => call'[u] = call[u]
    BY <1>6
  <2>5. /\ \A k \in DOMAIN objects \ DOMAIN told[p] :
              <<p, k>> \in missed \/ Announcing(k, "tell added")'
        /\ \A k \in DOMAIN told[p] \ DOMAIN objects :
              \/ k = p \/ <<p, k>> \in missed \cup crossed \/ k \in raced
              \/ Announcing(k, "tell removed")'
    BY <2>1, <2>2 DEF ViewOK
  <2>6. \A u \in Threads : call'[u].at = "insert" /\ call'[u].id \in DOMAIN told[p] =>
             p = call'[u].id /\ told[p][p] = <<call'[u].info.pos>>
    BY <2>1, <2>4 DEF ViewOK
  <2> QED
    BY <1>1, <1>8, <2>3, <2>5, <2>6 DEF ViewOK
<1>15. DoublesOK'
  BY <1>1, <1>3, <1>4, DoublesStay
<1> QED
  BY <1>10, <1>11, <1>12, <1>13, <1>14, <1>15

\* The survey is over, or the next marked object is copied; only then is an
\* object that nobody else carries a copy of no longer raced.
LEMMA SurveyHolds ==
    ASSUME InductiveInvariant, NEW t \in Threads, Survey(t)
    PROVE  InductiveInvariant'
<1> USE DEF InductiveInvariant
<1>1. call[t].at = "survey" /\ call[t] \in Calls /\ call[t].left \in SUBSET Ids
      /\ UNCHANGED <<objects, told, nextId, player, missed, crossed, contested>>
  <2>1. call[t].at = "survey" /\ call[t] \in Calls
        /\ UNCHANGED <<objects, told, nextId, player, missed, crossed, contested>>
    BY DEF Survey, room, TypeOK
  <2> QED
    BY <2>1, CallFields
<1>2. PICK next \in Calls :
        /\ call' = [call EXCEPT ![t] = next]
        /\ serving' \in [Threads -> Sessions \cup {Nobody}]
        /\ next.at \in {"idle", "tell state"}
        /\ next.at = "tell state" =>
              /\ next.id \in DOMAIN objects /\ objects[next.id].dirty
              /\ objects[next.id].pos = next.pos
        /\ raced' \subseteq raced
        /\ \A k \in raced \ raced' :
              next.at = "tell state" /\ k = next.id /\ Carriers(k) = {}
  <2>1. CASE Return(t) /\ UNCHANGED raced
    <3>1. /\ call' = [call EXCEPT ![t] = Idle]
          /\ serving' \in [Threads -> Sessions \cup {Nobody}]
      BY <2>1, ThreadMoves
    <3>2. Idle \in Calls /\ Idle.at = "idle"
      BY DEF Calls, Idle
    <3> QED
      BY <2>1, <3>1, <3>2
  <2>2. CASE \E id \in MarkedAmong(call[t].left) :
                /\ Go(t, [at |-> "tell state", id |-> id, pos |-> objects[id].pos,
                          left |-> call[t].left \ {id}])
                /\ raced' = raced \ {i \in {id} : Carriers(i) = {}}
    <3>1. PICK id \in MarkedAmong(call[t].left) :
                /\ Go(t, [at |-> "tell state", id |-> id, pos |-> objects[id].pos,
                          left |-> call[t].left \ {id}])
                /\ raced' = raced \ {i \in {id} : Carriers(i) = {}}
      BY <2>2
    <3> DEFINE n == [at |-> "tell state", id |-> id, pos |-> objects[id].pos,
                     left |-> call[t].left \ {id}]
    <3>2. id \in DOMAIN objects /\ objects[id].dirty
      BY <3>1 DEF MarkedAmong
    <3>3. id \in Ids /\ objects[id].pos \in Cells
      BY <3>2, ObjectFields
    <3>4. /\ n \in Calls /\ n.at = "tell state" /\ n.id = id /\ n.pos = objects[id].pos
      BY <1>1, <3>3 DEF Calls
    <3>5. Go(t, n)
      BY <3>1
    <3> HIDE DEF n
    <3>6. /\ call' = [call EXCEPT ![t] = n]
          /\ serving' \in [Threads -> Sessions \cup {Nobody}]
      BY <3>5, ThreadMoves
    <3>7. raced' \subseteq raced /\ \A k \in raced \ raced' : k = id /\ Carriers(k) = {}
      BY <3>1
    <3> QED
      BY <3>2, <3>4, <3>6, <3>7
  <2> QED
    BY <2>1, <2>2 DEF Survey
<1>3. /\ call' \in [Threads -> Calls] /\ call'[t] = next
      /\ \A u \in Threads : u # t => call'[u] = call[u]
  BY <1>2 DEF TypeOK
<1>4. SameCast(t, next) /\ SamePlaces(t, next)
  BY <1>1, <1>2 DEF SameCast, SamePlaces, Named
<1>5. IdsOK' /\ SharedOK' /\ MonsterOK' /\ DeathOK'
  BY <1>4, SameCastHolds, SamePlacesHold
<1>6. TypeOK'
  BY <1>1, <1>2, <1>3 DEF TypeOK
<1>7. ASSUME NEW u \in Threads, call[u].id \in raced,
             call[u].at \in {"tell added", "tell moved", "tell state", "unmark"}
      PROVE  call[u].id \in raced'
  BY <1>2, <1>7 DEF Carriers
<1>8. CopiesOK'
  <2> SUFFICES ASSUME NEW u \in Threads
      PROVE /\ call'[u].at \in Carrying =>
                  \/ call'[u].id \in raced'
                  \/ /\ call'[u].id \in DOMAIN objects
                     /\ objects[call'[u].id].pos = call'[u].pos
            /\ call'[u].at = "unmark" =>
                  call'[u].id \in raced' \/ call'[u].id \in DOMAIN objects
    BY <1>1 DEF CopiesOK
  <2>1. CASE u # t
    BY <1>3, <1>7, <2>1 DEF CopiesOK, Carrying
  <2>2. CASE u = t
    BY <1>2, <1>3, <2>2 DEF Carrying
  <2> QED
    BY <2>1, <2>2
<1>9. SentOK'
  <2> SUFFICES ASSUME NEW u \in Threads, call'[u].at = "unmark", NEW p \in DOMAIN told,
                      call'[u].id \in DOMAIN told[p], call'[u].id \in DOMAIN objects
      PROVE \/ AllAt(told[p][call'[u].id], objects[call'[u].id].pos)
            \/ call'[u].id \in raced' \/ <<p, call'[u].id>> \in missed \cup crossed
    BY <1>1 DEF SentOK
  <2>1. call'[u] = call[u]
    BY <1>2, <1>3
  <2> QED
    BY <1>7, <2>1 DEF SentOK
<1>10. ViewsOK'
  <2> SUFFICES ASSUME NEW p \in DOMAIN told
      PROVE ViewOK(p)'
    BY <1>1 DEF ViewsOK
  <2>1. ViewOK(p)
    BY DEF ViewsOK
  <2>2. /\ \A k : Announcing(k, "tell added") => Announcing(k, "tell added")'
        /\ \A k : Announcing(k, "tell removed") => Announcing(k, "tell removed")'
        /\ \A k : Announcing(k, "mark") => Announcing(k, "mark")'
    BY <1>1, <1>2, AnnouncingStays
  <2>3. \A k \in raced \ raced' : k \in DOMAIN objects /\ objects[k].dirty
    BY <1>2
  <2>4. \A u \in Threads : call'[u].at = "insert" => call'[u] = call[u]
    BY <1>2, <1>3
  <2>5. \A k \in DOMAIN objects \ DOMAIN told[p] :
              <<p, k>> \in missed \/ Announcing(k, "tell added")'
    BY <2>1, <2>2 DEF ViewOK
  <2>6. \A k \in DOMAIN told[p] \ DOMAIN objects :
              \/ k = p \/ <<p, k>> \in missed \cup crossed \/ k \in raced'
              \/ Announcing(k, "tell removed")'
    BY <2>1, <2>2, <2>3 DEF ViewOK
  <2>7. \A k \in DOMAIN told[p] \cap DOMAIN objects :
               \/ AllAt(told[p][k], objects[k].pos)
               \/ objects[k].dirty \/ Announcing(k, "mark")'
               \/ k \in raced' \/ <<p, k>> \in missed \cup crossed
    BY <2>1, <2>2, <2>3 DEF ViewOK
  <2>8. \A u \in Threads : call'[u].at = "insert" /\ call'[u].id \in DOMAIN told[p] =>
             p = call'[u].id /\ told[p][p] = <<call'[u].info.pos>>
    BY <2>1, <2>4 DEF ViewOK
  <2> QED
    BY <1>1, <2>5, <2>6, <2>7, <2>8 DEF ViewOK
<1>11. DoublesOK'
  BY <1>1, <1>2, DoublesStay
<1> QED
  BY <1>5, <1>6, <1>8, <1>9, <1>10, <1>11

-----------------------------------------------------------------------------
(* Steps that move, remove or insert an object *)

\* A thread that carries a copy of an object's place is counted.
LEMMA CarriersRaced ==
    ASSUME NEW id, NEW u \in Threads, call[u].id = id,
           call[u].at \in Carrying \cup {"unmark"},
           raced' = raced \cup {i \in {id} : Carriers(i) # {}}
    PROVE  id \in raced'
<1>1. u \in Carriers(id)
  BY DEF Carriers, Carrying
<1> QED
  BY <1>1

LEMMA PlaceHolds ==
    ASSUME InductiveInvariant, NEW t \in Threads, Place(t),
           call[t].id \in DOMAIN objects, objects[call[t].id].pos # call[t].cell
    PROVE  InductiveInvariant'
<1> USE DEF InductiveInvariant
<1> DEFINE id == call[t].id
           cell == call[t].cell
           next == [at |-> "mark", id |-> id, aloud |-> call[t].aloud]
<1>1. /\ call[t].at = "place" /\ Go(t, next)
      /\ objects' = [objects EXCEPT ![id].pos = cell]
      /\ raced' = raced \cup {i \in {id} : Carriers(i) # {}}
      /\ UNCHANGED <<told, nextId, player, missed, crossed, contested>>
  BY DEF Place
<1>2. call[t] \in Calls /\ objects \in [DOMAIN objects -> Info]
  BY DEF TypeOK
<1>3. id \in Ids /\ cell \in Cells /\ call[t].aloud \in BOOLEAN
  <2> HIDE DEF next
  <2> QED BY <1>1, <1>2, CallFields DEF Named
<1>4. next \in Calls /\ next.at = "mark" /\ next.id = id
  BY <1>3 DEF Calls
<1> HIDE DEF next
<1>5. /\ call' = [call EXCEPT ![t] = next]
      /\ serving' \in [Threads -> Sessions \cup {Nobody}]
  BY <1>1, ThreadMoves
<1>6. /\ call' \in [Threads -> Calls] /\ call'[t] = next
      /\ \A u \in Threads : u # t => call'[u] = call[u]
  BY <1>4, <1>5 DEF TypeOK
<1>7. \A u \in Threads : call'[u].at # "mark" => u # t /\ call'[u] = call[u]
  BY <1>4, <1>6
<1>8. /\ objects' \in [DOMAIN objects -> Info] /\ DOMAIN objects' = DOMAIN objects
      /\ objects'[id].pos = cell
      /\ \A k \in DOMAIN objects :
            /\ objects'[k].type = objects[k].type
            /\ objects'[k].hp = objects[k].hp
            /\ objects'[k].dirty = objects[k].dirty
            /\ k # id => objects'[k].pos = objects[k].pos
  <2>1. objects[id] \in Info /\ [objects[id] EXCEPT !.pos = cell] \in Info
    BY <1>2, <1>3 DEF Info
  <2>2. objects' = [objects EXCEPT ![id] = [objects[id] EXCEPT !.pos = cell]]
    BY <1>1
  <2>3. /\ objects' \in [DOMAIN objects -> Info]
        /\ objects'[id] = [objects[id] EXCEPT !.pos = cell]
        /\ \A k \in DOMAIN objects : k # id => objects'[k] = objects[k]
    BY <1>2, <2>1, <2>2
  <2>4. /\ objects'[id].type = objects[id].type /\ objects'[id].pos = cell
        /\ objects'[id].hp = objects[id].hp /\ objects'[id].dirty = objects[id].dirty
    BY <2>1, <2>3 DEF Info
  <2> QED
    BY <2>3, <2>4
<1>9. SameCast(t, next)
  BY <1>1, <1>4, <1>5, <1>8 DEF SameCast, Named
<1>10. IdsOK' /\ MonsterOK' /\ DeathOK'
  BY <1>4, <1>9, SameCastHolds
<1>11. raced \subseteq raced' /\ raced' \subseteq raced \cup {id}
  BY <1>1
<1>12. TypeOK'
  BY <1>1, <1>3, <1>5, <1>6, <1>8, <1>11 DEF TypeOK
<1>13. \A u \in Threads :
          call'[u].at \in Carrying \cup {"unmark"} =>
              /\ u # t /\ call'[u] = call[u]
              /\ call'[u].id = id => id \in raced'
  BY <1>1, <1>7, CarriersRaced DEF Carrying
<1>14. SharedOK'
  <2>1. Unchecked' = Unchecked
    BY DEF Unchecked
  <2>2. \A c : ~Claims(call'[t], c)
    BY <1>4, <1>6 DEF Claims
  <2>3. ASSUME NEW a \in DOMAIN objects, a # id, objects[a].pos = cell
        PROVE  cell \in contested \cup Unchecked
    BY <1>1, <2>3 DEF SharedOK, Claims
  <2>4. SharedCellsContested'
    <3> SUFFICES ASSUME NEW a \in DOMAIN objects, NEW b \in DOMAIN objects,
                        a # b, objects'[a].pos = objects'[b].pos
        PROVE objects'[a].pos \in contested \cup Unchecked
      BY <1>1, <1>8, <2>1 DEF SharedCellsContested
    <3>1. CASE a = id
      BY <1>8, <2>3, <3>1
    <3>2. CASE b = id
      BY <1>8, <2>3, <3>2
    <3>3. CASE a # id /\ b # id
      BY <1>8, <3>3 DEF SharedOK, SharedCellsContested
    <3> QED
      BY <3>1, <3>2, <3>3
  <2>5. ASSUME NEW u \in Threads, NEW a \in DOMAIN objects,
               Claims(call'[u], objects'[a].pos), call'[u].id # a
        PROVE  objects'[a].pos \in contested \cup Unchecked
    <3>1. u # t /\ call'[u] = call[u]
      BY <1>6, <2>2, <2>5
    <3>2. CASE a = id
      <4>1. Claims(call[u], cell) /\ Claims(call[t], cell)
        BY <1>1, <1>8, <2>5, <3>1, <3>2 DEF Claims
      <4> QED
        BY <1>3, <1>8, <3>1, <3>2, <4>1 DEF SharedOK
    <3>3. CASE a # id
      BY <1>8, <2>5, <3>1, <3>3 DEF SharedOK
    <3> QED
      BY <3>2, <3>3
  <2>6. ASSUME NEW u \in Threads, NEW v \in Threads, NEW c \in Cells,
               u # v, Claims(call'[u], c), Claims(call'[v], c)
        PROVE  c \in contested \cup Unchecked
    BY <1>6, <2>2, <2>6 DEF SharedOK
  <2> QED
    BY <1>1, <1>8, <2>1, <2>4, <2>5, <2>6 DEF SharedOK
<1>15. CopiesOK'
  <2> SUFFICES ASSUME NEW u \in Threads, call'[u].at \in Carrying \cup {"unmark"}
      PROVE /\ call'[u].at \in Carrying =>
                  \/ call'[u].id \in raced'
                  \/ /\ call'[u].id \in DOMAIN objects
                     /\ objects'[call'[u].id].pos = call'[u].pos
            /\ call'[u].at = "unmark" =>
                  call'[u].id \in raced' \/ call'[u].id \in DOMAIN objects
    BY <1>8 DEF CopiesOK, Carrying
  <2>1. call'[u] = call[u]
    BY <1>13
  <2>2. CASE call'[u].id = id
    BY <1>13, <2>2
  <2>3. CASE call'[u].id # id
    BY <1>8, <1>11, <2>1, <2>3 DEF CopiesOK
  <2> QED
    BY <2>2, <2>3
<1>16. SentOK'
  <2> SUFFICES ASSUME NEW u \in Threads, call'[u].at = "unmark", NEW p \in DOMAIN told,
                      call'[u].id \in DOMAIN told[p], call'[u].id \in DOMAIN objects
      PROVE \/ AllAt(told[p][call'[u].id], objects'[call'[u].id].pos)
            \/ call'[u].id \in raced' \/ <<p, call'[u].id>> \in missed \cup crossed
    BY <1>1, <1>8 DEF SentOK
  <2>1. call'[u] = call[u]
    BY <1>13
  <2>2. CASE call'[u].id = id
    BY <1>13, <2>2
  <2>3. CASE call'[u].id # id
    BY <1>8, <1>11, <2>1, <2>3 DEF SentOK
  <2> QED
    BY <2>2, <2>3
<1>17. ViewsOK'
  <2> SUFFICES ASSUME NEW p \in DOMAIN told
      PROVE ViewOK(p)'
    BY <1>1 DEF ViewsOK
  <2>1. ViewOK(p)
    BY DEF ViewsOK
  <2>2. /\ \A k : Announcing(k, "tell added") => Announcing(k, "tell added")'
        /\ \A k : Announcing(k, "tell removed") => Announcing(k, "tell removed")'
        /\ \A k : Announcing(k, "mark") => Announcing(k, "mark")'
    BY <1>1, <1>5, AnnouncingStays
  <2>3. ASSUME NEW k, k = id
        PROVE  Announcing(k, "mark")'
    BY <1>4, <1>6, <2>3 DEF Announcing, Threads
  <2>4. \A u \in Threads : call'[u].at = "insert" => call'[u] = call[u]
    BY <1>7
  <2>5. \A k \in DOMAIN objects \ DOMAIN told[p] :
              <<p, k>> \in missed \/ Announcing(k, "tell added")'
    BY <2>1, <2>2 DEF ViewOK
  <2>6. \A k \in DOMAIN told[p] \ DOMAIN objects :
              \/ k = p \/ <<p, k>> \in missed \cup crossed \/ k \in raced'
              \/ Announcing(k, "tell removed")'
    BY <1>11, <2>1, <2>2 DEF ViewOK
  <2>7. ASSUME NEW k \in DOMAIN told[p] \cap DOMAIN objects
        PROVE  \/ AllAt(told[p][k], objects'[k].pos)
               \/ objects'[k].dirty \/ Announcing(k, "mark")'
               \/ k \in raced' \/ <<p, k>> \in missed \cup crossed
    <3>1. \/ AllAt(told[p][k], objects[k].pos)
          \/ objects[k].dirty \/ Announcing(k, "mark")
          \/ k \in raced \/ <<p, k>> \in missed \cup crossed
      BY <2>1 DEF ViewOK
    <3>2. CASE k = id
      BY <2>3, <3>2
    <3>3. CASE k # id
      BY <1>8, <1>11, <2>2, <3>1, <3>3
    <3> QED
      BY <3>2, <3>3
  <2>8. \A u \in Threads : call'[u].at = "insert" /\ call'[u].id \in DOMAIN told[p] =>
             p = call'[u].id /\ told[p][p] = <<call'[u].info.pos>>
    BY <2>1, <2>4 DEF ViewOK
  <2> QED
    BY <1>1, <1>8, <2>5, <2>6, <2>7, <2>8 DEF ViewOK
<1>18. DoublesOK'
  BY <1>1, <1>4, <1>5, DoublesStay
<1> QED
  BY <1>10, <1>12, <1>14, <1>15, <1>16, <1>17, <1>18

LEMMA EraseHolds ==
    ASSUME InductiveInvariant, NEW t \in Threads, Erase(t), call[t].id \in DOMAIN objects
    PROVE  InductiveInvariant'
<1> USE DEF InductiveInvariant
<1>0. PICK id : id = call[t].id
  OBVIOUS
<1> DEFINE next == [at |-> "tell removed", id |-> id, respawn |-> call[t].respawn]
<1>1. /\ call[t].at = "erase" /\ Go(t, next) /\ id \in DOMAIN objects
      /\ objects' = Drop(objects, id) /\ told' = Drop(told, id)
      /\ raced' = raced \cup {i \in {id} : Carriers(i) # {}}
      /\ UNCHANGED <<nextId, player, missed, crossed, contested>>
  BY <1>0 DEF Erase
<1>2. call[t] \in Calls /\ objects \in [DOMAIN objects -> Info]
  BY DEF TypeOK
<1>3. id \in Ids /\ call[t].respawn \in BOOLEAN
  <2> HIDE DEF next
  <2> QED BY <1>0, <1>1, <1>2, CallFields DEF Named
<1>4. next \in Calls /\ next.at = "tell removed" /\ next.id = id
      /\ next.respawn = call[t].respawn
  BY <1>3 DEF Calls
<1> HIDE DEF next
<1>5. /\ call' = [call EXCEPT ![t] = next]
      /\ serving' \in [Threads -> Sessions \cup {Nobody}]
  BY <1>1, ThreadMoves
<1>6. /\ call' \in [Threads -> Calls] /\ call'[t] = next
      /\ \A u \in Threads : u # t => call'[u] = call[u]
  BY <1>4, <1>5 DEF TypeOK
<1>7. \A u \in Threads : call'[u].at # "tell removed" => u # t /\ call'[u] = call[u]
  BY <1>4, <1>6
<1>8. /\ objects' \in [DOMAIN objects' -> Info] /\ DOMAIN objects' = DOMAIN objects \ {id}
      /\ \A k \in DOMAIN objects' : objects'[k] = objects[k]
  BY <1>1, <1>2 DEF Drop
<1>9. /\ DOMAIN told' = DOMAIN told \ {id}
      /\ \A p \in DOMAIN told' : told'[p] = told[p]
  BY <1>1 DEF Drop
<1>10. raced \subseteq raced' /\ raced' \subseteq raced \cup {id}
  BY <1>1
<1>11. TypeOK'
  BY <1>1, <1>3, <1>5, <1>6, <1>8, <1>9, <1>10 DEF TypeOK
<1>12. \A u \in Threads :
          call'[u].at \in Carrying \cup {"unmark"} =>
              /\ u # t /\ call'[u] = call[u]
              /\ call'[u].id = id => id \in raced'
  BY <1>1, <1>7, CarriersRaced DEF Carrying
<1>13. Listeners' = Listeners \ {id}
  BY <1>8 DEF Listeners, OfType
<1>14. Entering' = Entering /\ id \notin Entering
  <2>1. \A u \in Threads :
          /\ call'[u].at = "insert" => call'[u] = call[u]
          /\ call[u].at = "insert" => call'[u] = call[u]
    BY <1>1, <1>6, <1>7
  <2>2. Threads' = Threads
    BY DEF Threads
  <2>3. Entering' = Entering
    BY <2>1, <2>2 DEF Entering
  <2>4. id \notin Entering
    BY <1>1 DEF Entering, IdsOK
  <2> QED
    BY <2>3, <2>4
<1>15. IdsOK'
  <2>1. \A u \in Threads : call'[u].at \in Named => call'[u].id < nextId
    BY <1>0, <1>1, <1>4, <1>6 DEF IdsOK, Named
  <2>2. ASSUME NEW u \in Threads, NEW v \in Threads, u # v,
               call'[u].at = "insert", call'[v].at \in Named
        PROVE  call'[v].id # call'[u].id
    <3>1. u # t /\ call'[u] = call[u]
      BY <1>7, <2>2
    <3>2. CASE v # t
      BY <1>6, <2>2, <3>1, <3>2 DEF IdsOK
    <3>3. CASE v = t
      BY <1>0, <1>1, <1>4, <1>6, <2>2, <3>1, <3>3, ZenonT(30) DEF IdsOK, Named
    <3> QED
      BY <3>2, <3>3
  <2>3. \A u \in Threads : call'[u].at \in {"insert", "tell removed"} =>
            call'[u].id \notin DOMAIN objects'
    BY <1>4, <1>6, <1>8 DEF IdsOK
  <2>4. \A p : p \in DOMAIN told' <=> p \in Listeners' \cup Entering'
    BY <1>9, <1>13, <1>14 DEF IdsOK
  <2>5. ASSUME NEW u \in Threads, NEW v \in Threads, u # v,
               call'[u].at = "tell added", call'[v].at = "tell added"
        PROVE  call'[v].id # call'[u].id
    BY <1>7, <2>5 DEF IdsOK
  <2> QED
    BY <1>1, <2>1, <2>2, <2>3, <2>4, <2>5 DEF IdsOK
<1>16. SharedOK'
  <2>1. Unchecked' = Unchecked
    BY DEF Unchecked
  <2>2. \A c : ~Claims(call'[t], c)
    BY <1>4, <1>6 DEF Claims
  <2>3. SharedCellsContested'
    BY <1>1, <1>8, <2>1 DEF SharedOK, SharedCellsContested
  <2>4. ASSUME NEW u \in Threads, NEW a \in DOMAIN objects',
               Claims(call'[u], objects'[a].pos), call'[u].id # a
        PROVE  objects'[a].pos \in contested \cup Unchecked
    BY <1>6, <1>8, <2>2, <2>4 DEF SharedOK
  <2>5. ASSUME NEW u \in Threads, NEW v \in Threads, NEW c \in Cells,
               u # v, Claims(call'[u], c), Claims(call'[v], c)
        PROVE  c \in contested \cup Unchecked
    BY <1>6, <2>2, <2>5 DEF SharedOK
  <2> QED
    BY <1>1, <2>1, <2>3, <2>4, <2>5 DEF SharedOK
<1>17. CopiesOK'
  <2> SUFFICES ASSUME NEW u \in Threads, call'[u].at \in Carrying \cup {"unmark"}
      PROVE /\ call'[u].at \in Carrying =>
                  \/ call'[u].id \in raced'
                  \/ /\ call'[u].id \in DOMAIN objects'
                     /\ objects'[call'[u].id].pos = call'[u].pos
            /\ call'[u].at = "unmark" =>
                  call'[u].id \in raced' \/ call'[u].id \in DOMAIN objects'
    BY DEF CopiesOK, Carrying
  <2>1. call'[u] = call[u]
    BY <1>12
  <2>2. CASE call'[u].id = id
    BY <1>12, <2>2
  <2>3. CASE call'[u].id # id
    BY <1>8, <1>10, <2>1, <2>3 DEF CopiesOK
  <2> QED
    BY <2>2, <2>3
<1>18. SentOK'
  <2> SUFFICES ASSUME NEW u \in Threads, call'[u].at = "unmark", NEW p \in DOMAIN told',
                      call'[u].id \in DOMAIN told'[p], call'[u].id \in DOMAIN objects'
      PROVE \/ AllAt(told'[p][call'[u].id], objects'[call'[u].id].pos)
            \/ call'[u].id \in raced' \/ <<p, call'[u].id>> \in missed \cup crossed
    BY <1>1 DEF SentOK
  <2>1. call'[u] = call[u]
    BY <1>12
  <2> QED
    BY <1>8, <1>9, <1>10, <2>1 DEF SentOK
<1>19. ViewsOK'
  <2> SUFFICES ASSUME NEW p \in DOMAIN told'
      PROVE ViewOK(p)'
    BY DEF ViewsOK
  <2>1. ViewOK(p) /\ told'[p] = told[p] /\ p # id
    BY <1>9 DEF ViewsOK
  <2>2. /\ \A k : Announcing(k, "tell added") => Announcing(k, "tell added")'
        /\ \A k : Announcing(k, "tell removed") => Announcing(k, "tell removed")'
        /\ \A k : Announcing(k, "mark") => Announcing(k, "mark")'
    BY <1>1, <1>5, AnnouncingStays
  <2>3. Announcing(id, "tell removed")'
    BY <1>4, <1>6 DEF Announcing, Threads
  <2>4. \A u \in Threads : call'[u].at = "insert" => call'[u] = call[u]
    BY <1>7
  <2>5. \A k \in DOMAIN objects' \ DOMAIN told[p] :
              <<p, k>> \in missed \/ Announcing(k, "tell added")'
    BY <1>8, <2>1, <2>2 DEF ViewOK
  <2>6. ASSUME NEW k \in DOMAIN told[p] \ DOMAIN objects'
        PROVE  \/ k = p \/ <<p, k>> \in missed \cup crossed \/ k \in raced'
               \/ Announcing(k, "tell removed")'
    <3>1. CASE k = id
      BY <2>3, <3>1
    <3>2. CASE k # id
      BY <1>8, <1>10, <2>1, <2>2, <3>2 DEF ViewOK
    <3> QED
      BY <3>1, <3>2
  <2>7. \A k \in DOMAIN told[p] \cap DOMAIN objects' :
               \/ AllAt(told[p][k], objects'[k].pos)
               \/ objects'[k].dirty \/ Announcing(k, "mark")'
               \/ k \in raced' \/ <<p, k>> \in missed \cup crossed
    BY <1>8, <1>10, <2>1, <2>2 DEF ViewOK
  <2>8. \A u \in Threads : call'[u].at = "insert" /\ call'[u].id \in DOMAIN told[p] =>
             p = call'[u].id /\ told[p][p] = <<call'[u].info.pos>>
    BY <2>1, <2>4 DEF ViewOK
  <2> QED
    BY <1>1, <2>1, <2>5, <2>6, <2>7, <2>8 DEF ViewOK
<1>20. MonsterOK'
  <2>1. MonsterRemains'
    <3>1. CASE objects[id].type = "monster"
      <4>1. call[t].respawn
        BY <1>0, <1>1, <3>1 DEF MonsterOK
      <4> QED
        BY <1>4, <1>6, <4>1 DEF MonsterRemains, Threads
    <3>2. CASE objects[id].type # "monster"
      <4>1. \A k \in OfType(objects, "monster") : k \in OfType(objects', "monster")
        BY <1>8, <3>2 DEF OfType
      <4>2. CASE OfType(objects, "monster") # {}
        BY <4>1, <4>2 DEF MonsterRemains
      <4>3. CASE \E u \in Threads :
                  \/ call[u].at = "tell removed" /\ call[u].respawn
                  \/ call[u].at = "respawn"
                  \/ call[u].at = "insert" /\ call[u].info.type = "monster"
        <5>1. PICK u \in Threads :
                  \/ call[u].at = "tell removed" /\ call[u].respawn
                  \/ call[u].at = "respawn"
                  \/ call[u].at = "insert" /\ call[u].info.type = "monster"
          BY <4>3
        <5>2. call'[u] = call[u]
          BY <1>1, <1>6, <5>1
        <5> QED
          BY <5>1, <5>2 DEF MonsterRemains, Threads
      <4> QED
        BY <4>2, <4>3 DEF MonsterOK, MonsterRemains
    <3> QED
      BY <3>1, <3>2
  <2>2. \A u \in Threads : call'[u].at \in {"insert", "erase"} => call'[u] = call[u]
    BY <1>7
  <2>3. \A s \in Sessions : player[s] \in DOMAIN objects' =>
          objects'[player[s]].type = "player"
    BY <1>8 DEF MonsterOK
  <2>4. \A u \in Threads : \A s \in Sessions :
          call'[u].at = "insert" /\ call'[u].id = player[s] =>
              call'[u].info.type = "player"
    BY <2>2 DEF MonsterOK
  <2>5. \A u \in Threads : call'[u].at = "erase" /\ ~call'[u].respawn =>
          \E s \in Sessions : call'[u].id = player[s]
    BY <2>2 DEF MonsterOK
  <2> QED
    BY <1>1, <2>1, <2>3, <2>4, <2>5 DEF MonsterOK
<1>21. DeathOK'
  <2>1. ASSUME NEW k \in DOMAIN objects', objects'[k].hp = 0
        PROVE  \E u \in Threads :
                  /\ call'[u].at \in {"erase", "revive"} /\ call'[u].id = k
                  /\ call'[u].at = "erase" => call'[u].respawn
    <3>1. k \in DOMAIN objects /\ k # id /\ objects[k].hp = 0
      BY <1>8, <2>1
    <3>2. PICK u \in Threads : /\ call[u].at \in {"erase", "revive"} /\ call[u].id = k
                               /\ call[u].at = "erase" => call[u].respawn
      BY <3>1 DEF DeathOK, DeathIsHandled
    <3>3. u # t
      BY <1>0, <3>1, <3>2
    <3> QED
      BY <1>6, <3>2, <3>3
  <2>2. \A u \in Threads : call'[u].at = "insert" => call'[u] = call[u]
    BY <1>7
  <2>3. DeathIsHandled'
    BY <2>1 DEF DeathIsHandled, Threads
  <2> QED
    BY <2>2, <2>3 DEF DeathOK
<1>22. DoublesOK'
  BY <1>1, <1>4, <1>5, <1>9, DoublesStay
<1> QED
  BY <1>11, <1>15, <1>16, <1>17, <1>18, <1>19, <1>20, <1>21, <1>22

LEMMA InsertHolds ==
    ASSUME InductiveInvariant, NEW t \in Threads, Insert(t)
    PROVE  InductiveInvariant'
<1> USE DEF InductiveInvariant
<1>0. PICK id, info : id = call[t].id /\ info = call[t].info
  OBVIOUS
<1> DEFINE next == [at |-> "tell added", id |-> id, pos |-> info.pos]
<1>1. /\ call[t].at = "insert" /\ Go(t, next) /\ objects' = Put(objects, id, info)
      /\ UNCHANGED <<told, nextId, player, missed, raced, crossed, contested>>
  BY <1>0 DEF Insert, history
<1>2. call[t] \in Calls /\ objects \in [DOMAIN objects -> Info]
  BY DEF TypeOK
<1>3. id \in Ids /\ info \in Info /\ info.pos \in Cells /\ id < nextId
  <2>1. id \in Ids /\ info \in Info
    <3> HIDE DEF next
    <3> QED BY <1>0, <1>1, <1>2, CallFields DEF Named
  <2>2. info.pos \in Cells
    BY <2>1 DEF Info
  <2>3. id < nextId
    BY <1>0, <1>1 DEF IdsOK, Named
  <2> QED
    BY <2>1, <2>2, <2>3
<1>4. next \in Calls /\ next.at = "tell added" /\ next.id = id /\ next.pos = info.pos
  BY <1>3 DEF Calls
<1> HIDE DEF next
<1>5. /\ call' = [call EXCEPT ![t] = next]
      /\ serving' \in [Threads -> Sessions \cup {Nobody}]
  BY <1>1, ThreadMoves
<1>6. /\ call' \in [Threads -> Calls] /\ call'[t] = next
      /\ \A u \in Threads : u # t => call'[u] = call[u]
  BY <1>4, <1>5 DEF TypeOK
<1>7. \A u \in Threads : call'[u].at # "tell added" => u # t /\ call'[u] = call[u]
  BY <1>4, <1>6
<1>8. id \notin DOMAIN objects
      /\ \A u \in Threads : u # t /\ call[u].at \in Named => call[u].id # id
  BY <1>0, <1>1 DEF IdsOK
<1>9. /\ DOMAIN objects' = DOMAIN objects \cup {id}
      /\ objects' \in [DOMAIN objects' -> Info]
      /\ objects'[id] = info
      /\ \A k \in DOMAIN objects : objects'[k] = objects[k]
  BY <1>1, <1>2, <1>3, <1>8 DEF Put
<1>10. id \in 1..nextId - 1
  BY <1>3, StatsAssumption DEF Ids, TypeOK
<1>11. TypeOK'
  BY <1>1, <1>5, <1>6, <1>9, <1>10 DEF TypeOK
<1>12. /\ Listeners' = Listeners \cup {k \in {id} : info.type = "player"}
       /\ Entering' = Entering \ {id}
       /\ id \in Entering <=> info.type = "player"
  <2>1. Listeners' = Listeners \cup {k \in {id} : info.type = "player"}
    <3>1. \A k : k \in Listeners' <=>
                    k \in Listeners \/ (k = id /\ info.type = "player")
      BY <1>8, <1>9 DEF Listeners, OfType
    <3> QED
      BY <3>1
  <2>2. \A k : k \in Entering <=> \E u \in Threads :
            call[u].at = "insert" /\ call[u].info.type = "player" /\ k = call[u].id
    BY DEF Entering
  <2>3. \A k : k \in Entering' <=> \E u \in Threads :
            call'[u].at = "insert" /\ call'[u].info.type = "player" /\ k = call'[u].id
    BY DEF Entering, Threads
  <2>4. ASSUME NEW k \in Entering'
        PROVE  k \in Entering \ {id}
    <3>1. PICK u \in Threads :
            call'[u].at = "insert" /\ call'[u].info.type = "player" /\ k = call'[u].id
      BY <2>3, <2>4
    <3>2. u # t /\ call'[u] = call[u]
      BY <1>7, <3>1
    <3> QED
      BY <1>8, <2>2, <3>1, <3>2 DEF Named
  <2>5. ASSUME NEW k \in Entering \ {id}
        PROVE  k \in Entering'
    <3>1. PICK u \in Threads :
            call[u].at = "insert" /\ call[u].info.type = "player" /\ k = call[u].id
      BY <2>2, <2>5
    <3>2. u # t
      BY <1>0, <2>5, <3>1
    <3> QED
      BY <1>6, <2>3, <3>1, <3>2
  <2>6. ASSUME id \in Entering
        PROVE  info.type = "player"
    <3>1. PICK u \in Threads :
            call[u].at = "insert" /\ call[u].info.type = "player" /\ id = call[u].id
      BY <2>2, <2>6
    <3>2. u = t
      BY <1>8, <3>1 DEF Named
    <3> QED
      BY <1>0, <3>1, <3>2
  <2>7. info.type = "player" => id \in Entering
    BY <1>0, <1>1, <2>2
  <2> QED
    BY <2>1, <2>4, <2>5, <2>6, <2>7
<1>13. IdsOK'
  <2>1. \A u \in Threads : call'[u].at \in Named => call'[u].id < nextId
    BY <1>3, <1>4, <1>6 DEF IdsOK
  <2>2. ASSUME NEW u \in Threads, NEW v \in Threads, u # v,
               call'[u].at = "insert", call'[v].at \in Named
        PROVE  call'[v].id # call'[u].id
    <3>1. u # t /\ call'[u] = call[u] /\ call[u].id # id
      BY <1>7, <1>8, <2>2 DEF Named
    <3>2. CASE v # t
      BY <1>6, <2>2, <3>1, <3>2 DEF IdsOK
    <3>3. CASE v = t
      BY <1>4, <1>6, <3>1, <3>3
    <3> QED
      BY <3>2, <3>3
  <2>3. ASSUME NEW u \in Threads, call'[u].at \in {"insert", "tell removed"}
        PROVE  call'[u].id \notin DOMAIN objects'
    <3>1. u # t /\ call'[u] = call[u] /\ call[u].id # id
      BY <1>7, <1>8, <2>3 DEF Named
    <3> QED
      BY <1>9, <2>3, <3>1 DEF IdsOK
  <2>4. \A p : p \in DOMAIN told <=> p \in Listeners' \cup Entering'
    BY <1>12 DEF IdsOK
  <2>5. ASSUME NEW u \in Threads, NEW v \in Threads, u # v,
               call'[u].at = "tell added", call'[v].at = "tell added"
        PROVE  call'[v].id # call'[u].id
    <3>1. CASE u = t
      BY <1>4, <1>6, <1>8, <2>5, <3>1 DEF Named
    <3>2. CASE v = t
      BY <1>4, <1>6, <1>8, <2>5, <3>2 DEF Named
    <3>3. CASE u # t /\ v # t
      BY <1>6, <2>5, <3>3 DEF IdsOK
    <3> QED
      BY <3>1, <3>2, <3>3
  <2> QED
    BY <1>1, <2>1, <2>2, <2>3, <2>4, <2>5 DEF IdsOK
<1>14. SharedOK'
  <2>1. Unchecked' = Unchecked
    BY DEF Unchecked
  <2>2. \A c : ~Claims(call'[t], c)
    BY <1>4, <1>6 DEF Claims
  <2>3. ASSUME NEW a \in DOMAIN objects, objects[a].pos = info.pos
        PROVE  info.pos \in contested \cup Unchecked
    <3>1. Claims(call[t], objects[a].pos) /\ call[t].id # a
      BY <1>0, <1>1, <1>8, <2>3 DEF Claims
    <3> QED
      BY <2>3, <3>1 DEF SharedOK
  <2>4. SharedCellsContested'
    <3> SUFFICES ASSUME NEW a \in DOMAIN objects', NEW b \in DOMAIN objects',
                        a # b, objects'[a].pos = objects'[b].pos
        PROVE objects'[a].pos \in contested \cup Unchecked
      BY <1>1, <2>1 DEF SharedCellsContested
    <3>1. CASE a = id
      BY <1>9, <2>3, <3>1
    <3>2. CASE b = id
      BY <1>9, <2>3, <3>2
    <3>3. CASE a # id /\ b # id
      BY <1>9, <3>3 DEF SharedOK, SharedCellsContested
    <3> QED
      BY <3>1, <3>2, <3>3
  <2>5. ASSUME NEW u \in Threads, NEW a \in DOMAIN objects',
               Claims(call'[u], objects'[a].pos), call'[u].id # a
        PROVE  objects'[a].pos \in contested \cup Unchecked
    <3>1. u # t /\ call'[u] = call[u]
      BY <1>6, <2>2, <2>5
    <3>2. CASE a = id
      <4>1. Claims(call[u], info.pos) /\ Claims(call[t], info.pos)
        BY <1>0, <1>1, <1>9, <2>5, <3>1, <3>2 DEF Claims
      <4> QED
        BY <1>3, <1>9, <3>1, <3>2, <4>1 DEF SharedOK
    <3>3. CASE a # id
      BY <1>9, <2>5, <3>1, <3>3 DEF SharedOK
    <3> QED
      BY <3>2, <3>3
  <2>6. ASSUME NEW u \in Threads, NEW v \in Threads, NEW c \in Cells,
               u # v, Claims(call'[u], c), Claims(call'[v], c)
        PROVE  c \in contested \cup Unchecked
    BY <1>6, <2>2, <2>6 DEF SharedOK
  <2> QED
    BY <1>1, <2>1, <2>4, <2>5, <2>6 DEF SharedOK
<1>15. CopiesOK'
  <2> SUFFICES ASSUME NEW u \in Threads, call'[u].at \in Carrying \cup {"unmark"}
      PROVE /\ call'[u].at \in Carrying =>
                  \/ call'[u].id \in raced
                  \/ /\ call'[u].id \in DOMAIN objects'
                     /\ objects'[call'[u].id].pos = call'[u].pos
            /\ call'[u].at = "unmark" =>
                  call'[u].id \in raced \/ call'[u].id \in DOMAIN objects'
    BY <1>1 DEF CopiesOK, Carrying
  <2>1. CASE u = t
    BY <1>4, <1>6, <1>9, <2>1
  <2>2. CASE u # t
    BY <1>6, <1>9, <2>2 DEF CopiesOK
  <2> QED
    BY <2>1, <2>2
<1>16. SentOK'
  <2> SUFFICES ASSUME NEW u \in Threads, call'[u].at = "unmark", NEW p \in DOMAIN told,
                      call'[u].id \in DOMAIN told[p], call'[u].id \in DOMAIN objects'
      PROVE \/ AllAt(told[p][call'[u].id], objects'[call'[u].id].pos)
            \/ call'[u].id \in raced \/ <<p, call'[u].id>> \in missed \cup crossed
    BY <1>1 DEF SentOK
  <2>1. call'[u] = call[u] /\ call[u].id # id
    BY <1>7, <1>8 DEF Named
  <2> QED
    BY <1>9, <2>1 DEF SentOK
<1>17. ViewsOK'
  <2> SUFFICES ASSUME NEW p \in DOMAIN told
      PROVE ViewOK(p)'
    BY <1>1 DEF ViewsOK
  <2>1. ViewOK(p)
    BY DEF ViewsOK
  <2>2. /\ \A k : Announcing(k, "tell added") => Announcing(k, "tell added")'
        /\ \A k : Announcing(k, "tell removed") => Announcing(k, "tell removed")'
        /\ \A k : Announcing(k, "mark") => Announcing(k, "mark")'
    BY <1>1, <1>5, AnnouncingStays
  <2>3. Announcing(id, "tell added")'
    BY <1>4, <1>6 DEF Announcing, Threads
  <2>4. \A u \in Threads : call'[u].at = "insert" => call'[u] = call[u]
    BY <1>7
  <2>5. ASSUME NEW k \in DOMAIN objects' \ DOMAIN told[p]
        PROVE  <<p, k>> \in missed \/ Announcing(k, "tell added")'
    <3>1. CASE k = id
      BY <2>3, <3>1
    <3>2. CASE k # id
      BY <1>9, <2>1, <2>2, <3>2 DEF ViewOK
    <3> QED
      BY <3>1, <3>2
  <2>6. \A k \in DOMAIN told[p] \ DOMAIN objects' :
              \/ k = p \/ <<p, k>> \in missed \cup crossed \/ k \in raced
              \/ Announcing(k, "tell removed")'
    BY <1>9, <2>1, <2>2 DEF ViewOK
  <2>7. ASSUME NEW k \in DOMAIN told[p] \cap DOMAIN objects'
        PROVE  \/ AllAt(told[p][k], objects'[k].pos)
               \/ objects'[k].dirty \/ Announcing(k, "mark")'
               \/ k \in raced \/ <<p, k>> \in missed \cup crossed
    <3>1. CASE k = id
      <4>1. p = id /\ told[p][p] = <<info.pos>>
        BY <1>0, <1>1, <2>1, <3>1 DEF ViewOK
      <4>2. AllAt(<<info.pos>>, info.pos)
        BY DEF AllAt
      <4> QED
        BY <1>9, <3>1, <4>1, <4>2
    <3>2. CASE k # id
      <4>1. k \in DOMAIN told[p] \cap DOMAIN objects /\ objects'[k] = objects[k]
        BY <1>9, <3>2
      <4> QED
        BY <2>1, <2>2, <4>1 DEF ViewOK
    <3> QED
      BY <3>1, <3>2
  <2>8. \A u \in Threads : call'[u].at = "insert" /\ call'[u].id \in DOMAIN told[p] =>
             p = call'[u].id /\ told[p][p] = <<call'[u].info.pos>>
    BY <2>1, <2>4 DEF ViewOK
  <2> QED
    BY <1>1, <2>5, <2>6, <2>7, <2>8 DEF ViewOK
<1>18. MonsterOK'
  <2>1. MonsterRemains'
    <3>1. CASE info.type = "monster"
      <4>1. id \in OfType(objects', "monster")
        BY <1>9, <3>1 DEF OfType
      <4> QED
        BY <4>1 DEF MonsterRemains
    <3>2. CASE info.type # "monster"
      <4>1. \A k \in OfType(objects, "monster") : k \in OfType(objects', "monster")
        BY <1>9 DEF OfType
      <4>2. CASE OfType(objects, "monster") # {}
        BY <4>1, <4>2 DEF MonsterRemains
      <4>3. CASE \E u \in Threads :
                  \/ call[u].at = "tell removed" /\ call[u].respawn
                  \/ call[u].at = "respawn"
                  \/ call[u].at = "insert" /\ call[u].info.type = "monster"
        <5>1. PICK u \in Threads :
                  \/ call[u].at = "tell removed" /\ call[u].respawn
                  \/ call[u].at = "respawn"
                  \/ call[u].at = "insert" /\ call[u].info.type = "monster"
          BY <4>3
        <5>2. call'[u] = call[u]
          BY <1>0, <1>1, <1>6, <3>2, <5>1
        <5> QED
          BY <5>1, <5>2 DEF MonsterRemains, Threads
      <4> QED
        BY <4>2, <4>3 DEF MonsterOK, MonsterRemains
    <3> QED
      BY <3>1, <3>2
  <2>2. \A u \in Threads : call'[u].at \in {"insert", "erase"} => call'[u] = call[u]
    BY <1>7
  <2>3. ASSUME NEW s \in Sessions, player[s] \in DOMAIN objects'
        PROVE  objects'[player[s]].type = "player"
    <3>1. CASE player[s] = id
      BY <1>0, <1>1, <1>9, <3>1 DEF MonsterOK
    <3>2. CASE player[s] # id
      BY <1>9, <2>3, <3>2 DEF MonsterOK
    <3> QED
      BY <3>1, <3>2
  <2>4. \A u \in Threads : \A s \in Sessions :
          call'[u].at = "insert" /\ call'[u].id = player[s] =>
              call'[u].info.type = "player"
    BY <2>2 DEF MonsterOK
  <2>5. \A u \in Threads : call'[u].at = "erase" /\ ~call'[u].respawn =>
          \E s \in Sessions : call'[u].id = player[s]
    BY <2>2 DEF MonsterOK
  <2> QED
    BY <1>1, <2>1, <2>3, <2>4, <2>5 DEF MonsterOK
<1>19. DeathOK'
  <2>1. ASSUME NEW k \in DOMAIN objects', objects'[k].hp = 0
        PROVE  \E u \in Threads :
                  /\ call'[u].at \in {"erase", "revive"} /\ call'[u].id = k
                  /\ call'[u].at = "erase" => call'[u].respawn
    <3>1. k # id
      BY <1>0, <1>1, <1>9, <2>1, StatsAssumption DEF DeathOK
    <3>2. k \in DOMAIN objects /\ objects[k].hp = 0
      BY <1>9, <2>1, <3>1
    <3>3. PICK u \in Threads : /\ call[u].at \in {"erase", "revive"} /\ call[u].id = k
                               /\ call[u].at = "erase" => call[u].respawn
      BY <3>2 DEF DeathOK, DeathIsHandled
    <3>4. u # t
      BY <1>1, <3>3
    <3> QED
      BY <1>6, <3>3, <3>4
  <2>2. \A u \in Threads : call'[u].at = "insert" => call'[u] = call[u]
    BY <1>7
  <2>3. DeathIsHandled'
    BY <2>1 DEF DeathIsHandled, Threads
  <2> QED
    BY <2>2, <2>3 DEF DeathOK
<1>20. DoublesOK'
  <2> SUFFICES ASSUME NEW p \in DOMAIN told
      PROVE DoubleOK(p)'
    BY <1>1 DEF DoublesOK
  <2>1. DoubleOK(p) /\ ViewOK(p)
    BY DEF DoublesOK, ViewsOK
  <2>2. id \in DOMAIN told[p] => p = id
    BY <1>0, <1>1, <2>1 DEF ViewOK
  <2>3. ASSUME NEW u \in Threads,
               call'[u].at = "tell added", call'[u].id \in DOMAIN told[p]
        PROVE  p = call'[u].id \/ <<p, call'[u].id>> \in crossed
    <3>1. CASE u = t
      BY <1>4, <1>6, <2>2, <2>3, <3>1
    <3>2. CASE u # t
      BY <1>6, <2>1, <2>3, <3>2 DEF DoubleOK
    <3> QED
      BY <3>1, <3>2
  <2> QED
    BY <1>1, <2>1, <2>3 DEF DoubleOK
<1> QED
  BY <1>11, <1>13, <1>14, <1>15, <1>16, <1>17, <1>18, <1>19, <1>20

-----------------------------------------------------------------------------
(* Steps that generate an id *)

\* The next id is nobody's.
LEMMA NextIdIsNew ==
    ASSUME InductiveInvariant
    PROVE  /\ nextId \notin DOMAIN objects /\ nextId \notin DOMAIN told
           /\ \A p \in DOMAIN told : nextId \notin DOMAIN told[p]
           /\ \A s \in Sessions : player[s] # nextId
           /\ \A u \in Threads : call[u].at \in Named => call[u].id # nextId
           /\ nextId \in Nat /\ nextId # 0
<1>1. /\ nextId \in 2..MaxId + 1 /\ nextId \in Nat /\ nextId # 0
      /\ \A k \in 0..nextId - 1 : k < nextId
  BY StatsAssumption DEF InductiveInvariant, TypeOK
<1>2. \A u \in Threads : call[u].at \in Named => call[u].id # nextId
  <2> SUFFICES ASSUME NEW u \in Threads, call[u].at \in Named, call[u].id = nextId
      PROVE FALSE
    OBVIOUS
  <2>1. call[u].id < nextId
    BY DEF InductiveInvariant, IdsOK
  <2> QED
    BY <1>1, <2>1
<1>3. \A s \in Sessions : player[s] \in 0..nextId - 1
  BY DEF InductiveInvariant, TypeOK
<1>4. /\ DOMAIN objects \subseteq 1..nextId - 1 /\ DOMAIN told \subseteq 1..nextId - 1
      /\ \A p \in DOMAIN told : DOMAIN told[p] \subseteq 1..nextId - 1
  BY DEF InductiveInvariant, TypeOK
<1>5. nextId \notin 1..nextId - 1 /\ nextId \notin 0..nextId - 1
  BY <1>1
<1> QED
  BY <1>1, <1>2, <1>3, <1>4, <1>5

LEMMA RespawnHolds ==
    ASSUME InductiveInvariant, NEW t \in Threads, Respawn(t)
    PROVE  InductiveInvariant'
<1> USE DEF InductiveInvariant
<1>0. PICK id : id = nextId
  OBVIOUS
<1>1. PICK cell \in RandomEmptyCells(objects) :
          /\ Grant(cell)
          /\ Go(t, [at |-> "insert", id |-> nextId, info |-> NewMonster(cell)])
  BY DEF Respawn
<1> DEFINE next == [at |-> "insert", id |-> id, info |-> NewMonster(cell)]
<1>2. /\ call[t].at = "respawn" /\ Go(t, next)
      /\ nextId' = nextId + 1 /\ id <= MaxId
      /\ UNCHANGED <<objects, told, player, missed, raced, crossed>>
  BY <1>0, <1>1 DEF Respawn
<1>3. /\ id \notin DOMAIN objects /\ id \notin DOMAIN told
      /\ \A p \in DOMAIN told : id \notin DOMAIN told[p]
      /\ \A s \in Sessions : player[s] # id
      /\ \A u \in Threads : call[u].at \in Named => call[u].id # id
      /\ id \in Ids
  <2>1. nextId \in Nat /\ nextId # 0
    BY NextIdIsNew
  <2>2. id \in Ids
    BY <1>0, <1>2, <2>1, StatsAssumption DEF Ids
  <2> QED
    BY <1>0, <2>2, NextIdIsNew
<1>4. cell \in Cells /\ (cell \in Unchecked \/ \A k \in DOMAIN objects : objects[k].pos # cell)
  BY <1>1, CellsAssumption DEF RandomEmptyCells, CanGo, Unchecked
<1>5. /\ next \in Calls /\ next.at = "insert" /\ next.id = id
      /\ next.info.type = "monster" /\ next.info.pos = cell /\ next.info.hp = MaxHp
  <2>1. NewMonster(cell) \in Info
    BY <1>4, StatsAssumption DEF NewMonster, Info, Types
  <2> QED
    BY <1>3, <2>1 DEF Calls, NewMonster
<1> HIDE DEF next
<1>6. /\ call' = [call EXCEPT ![t] = next]
      /\ serving' \in [Threads -> Sessions \cup {Nobody}]
  BY <1>2, ThreadMoves
<1>7. /\ call' \in [Threads -> Calls] /\ call'[t] = next
      /\ \A u \in Threads : u # t => call'[u] = call[u]
  BY <1>5, <1>6 DEF TypeOK
<1>8. \A u \in Threads : call'[u].at # "insert" => u # t /\ call'[u] = call[u]
  BY <1>5, <1>7
<1>9. /\ contested' \subseteq Cells /\ contested \subseteq contested'
      /\ \/ cell \in contested' \cup Unchecked
         \/ \A u \in Threads : ~Claims(call[u], cell)
  BY <1>1, <1>4, GrantExcuses
<1>10. TypeOK'
  <2>1. nextId' \in 2..MaxId + 1
    BY <1>0, <1>2, StatsAssumption DEF TypeOK
  <2>2. \A k \in 0..nextId - 1 : k \in 0..nextId' - 1
    BY <1>2, StatsAssumption DEF TypeOK
  <2>3. \A k \in 1..nextId - 1 : k \in 1..nextId' - 1
    BY <1>2, StatsAssumption DEF TypeOK
  <2>4. player' \in [Sessions -> 0..nextId' - 1]
    BY <1>2, <2>2 DEF TypeOK
  <2>5. /\ DOMAIN objects' \subseteq 1..nextId' - 1 /\ DOMAIN told' \subseteq 1..nextId' - 1
        /\ \A p \in DOMAIN told' : DOMAIN told'[p] \subseteq 1..nextId' - 1
    BY <1>2, <2>3 DEF TypeOK
  <2> QED
    BY <1>2, <1>6, <1>7, <1>9, <2>1, <2>4, <2>5 DEF TypeOK
<1>11. Listeners' = Listeners /\ Entering' = Entering
  <2>1. \A u \in Threads :
          (call'[u].at = "insert" /\ call'[u].info.type = "player"
              => call'[u] = call[u])
    BY <1>5, <1>7
  <2>2. \A u \in Threads : call[u].at = "insert" => call'[u] = call[u]
    BY <1>2, <1>7
  <2>3. Threads' = Threads
    BY DEF Threads
  <2> QED
    BY <1>2, <2>1, <2>2, <2>3 DEF Entering, Listeners
<1>12. IdsOK'
  <2>1. \A u \in Threads : call'[u].at \in Named => call'[u].id < nextId'
    <3> SUFFICES ASSUME NEW u \in Threads, call'[u].at \in Named
        PROVE call'[u].id < nextId + 1
      BY <1>2
    <3>1. nextId \in Int
      BY NextIdIsNew
    <3>2. CASE u = t
      BY <1>0, <1>5, <1>7, <3>1, <3>2
    <3>3. CASE u # t
      <4>1. call'[u] = call[u] /\ call[u].id < nextId /\ call[u] \in Calls
        BY <1>7, <3>3 DEF IdsOK, TypeOK
      <4>2. call[u].id \in Ids
        BY <4>1, CallFields
      <4>3. call[u].id \in Int
        BY <4>2, StatsAssumption DEF Ids
      <4> QED
        BY <3>1, <4>1, <4>3
    <3> QED
      BY <3>2, <3>3
  <2>2. ASSUME NEW u \in Threads, NEW v \in Threads, u # v,
               call'[u].at = "insert", call'[v].at \in Named
        PROVE  call'[v].id # call'[u].id
    <3>1. CASE u = t
      BY <1>3, <1>5, <1>7, <2>2, <3>1
    <3>2. CASE v = t
      BY <1>3, <1>5, <1>7, <2>2, <3>2 DEF Named
    <3>3. CASE u # t /\ v # t
      BY <1>7, <2>2, <3>3 DEF IdsOK
    <3> QED
      BY <3>1, <3>2, <3>3
  <2>3. \A u \in Threads : call'[u].at \in {"insert", "tell removed"} =>
            call'[u].id \notin DOMAIN objects
    BY <1>3, <1>5, <1>7 DEF IdsOK
  <2>4. ASSUME NEW u \in Threads, NEW v \in Threads, u # v,
               call'[u].at = "tell added", call'[v].at = "tell added"
        PROVE  call'[v].id # call'[u].id
    BY <1>8, <2>4 DEF IdsOK
  <2> QED
    BY <1>2, <1>11, <2>1, <2>2, <2>3, <2>4 DEF IdsOK
<1>13. SharedOK'
  <2>1. Unchecked' = Unchecked
    BY DEF Unchecked
  <2>2. \A c : Claims(call'[t], c) => c = cell
    BY <1>5, <1>7 DEF Claims
  <2>3. SharedCellsContested'
    BY <1>2, <1>9, <2>1 DEF SharedOK, SharedCellsContested
  <2>4. ASSUME NEW u \in Threads, NEW a \in DOMAIN objects,
               Claims(call'[u], objects[a].pos), call'[u].id # a
        PROVE  objects[a].pos \in contested' \cup Unchecked
    <3>1. CASE u # t
      BY <1>7, <1>9, <2>4, <3>1 DEF SharedOK
    <3>2. CASE u = t
      BY <1>4, <2>2, <2>4, <3>2
    <3> QED
      BY <3>1, <3>2
  <2>5. ASSUME NEW u \in Threads, NEW v \in Threads, NEW c \in Cells,
               u # v, Claims(call'[u], c), Claims(call'[v], c)
        PROVE  c \in contested' \cup Unchecked
    <3>1. CASE u # t /\ v # t
      BY <1>7, <1>9, <2>5, <3>1 DEF SharedOK
    <3>2. CASE u = t
      BY <1>7, <1>9, <2>2, <2>5, <3>2
    <3>3. CASE v = t
      BY <1>7, <1>9, <2>2, <2>5, <3>3
    <3> QED
      BY <3>1, <3>2, <3>3
  <2> QED
    BY <1>2, <2>1, <2>3, <2>4, <2>5 DEF SharedOK
<1>14. CopiesOK' /\ SentOK'
  BY <1>2, <1>8 DEF CopiesOK, SentOK, Carrying
<1>15. ViewsOK'
  <2> SUFFICES ASSUME NEW p \in DOMAIN told
      PROVE ViewOK(p)'
    BY <1>2 DEF ViewsOK
  <2>1. ViewOK(p)
    BY DEF ViewsOK
  <2>2. /\ \A k : Announcing(k, "tell added") => Announcing(k, "tell added")'
        /\ \A k : Announcing(k, "tell removed") => Announcing(k, "tell removed")'
        /\ \A k : Announcing(k, "mark") => Announcing(k, "mark")'
    BY <1>2, <1>6, AnnouncingStays
  <2>3. ASSUME NEW u \in Threads, call'[u].at = "insert", call'[u].id \in DOMAIN told[p]
        PROVE  p = call'[u].id /\ told[p][p] = <<call'[u].info.pos>>
    <3>1. u # t /\ call'[u] = call[u]
      BY <1>3, <1>5, <1>7, <2>3
    <3> QED
      BY <2>1, <2>3, <3>1 DEF ViewOK
  <2>4. /\ \A k \in DOMAIN objects \ DOMAIN told[p] :
              <<p, k>> \in missed \/ Announcing(k, "tell added")'
        /\ \A k \in DOMAIN told[p] \ DOMAIN objects :
              \/ k = p \/ <<p, k>> \in missed \cup crossed \/ k \in raced
              \/ Announcing(k, "tell removed")'
        /\ \A k \in DOMAIN told[p] \cap DOMAIN objects :
               \/ AllAt(told[p][k], objects[k].pos)
               \/ objects[k].dirty \/ Announcing(k, "mark")'
               \/ k \in raced \/ <<p, k>> \in missed \cup crossed
    BY <2>1, <2>2 DEF ViewOK
  <2> QED
    BY <1>2, <2>3, <2>4 DEF ViewOK
<1>16. MonsterOK'
  <2>1. MonsterRemains'
    BY <1>5, <1>7 DEF MonsterRemains, Threads
  <2>2. \A u \in Threads : \A s \in Sessions :
          call'[u].at = "insert" /\ call'[u].id = player[s] =>
              call'[u].info.type = "player"
    BY <1>3, <1>5, <1>7 DEF MonsterOK
  <2>3. \A u \in Threads : call'[u].at = "erase" /\ ~call'[u].respawn =>
          \E s \in Sessions : call'[u].id = player[s]
    BY <1>8 DEF MonsterOK
  <2> QED
    BY <1>2, <2>1, <2>2, <2>3 DEF MonsterOK
<1>17. DeathOK'
  <2>1. ASSUME NEW k \in DOMAIN objects, objects[k].hp = 0
        PROVE  \E u \in Threads :
                  /\ call'[u].at \in {"erase", "revive"} /\ call'[u].id = k
                  /\ call'[u].at = "erase" => call'[u].respawn
    <3>1. PICK u \in Threads : /\ call[u].at \in {"erase", "revive"} /\ call[u].id = k
                               /\ call[u].at = "erase" => call[u].respawn
      BY <2>1 DEF DeathOK, DeathIsHandled
    <3>2. u # t
      BY <1>2, <3>1
    <3> QED
      BY <1>7, <3>1, <3>2
  <2>2. \A u \in Threads : call'[u].at = "insert" => call'[u].info.hp = MaxHp
    BY <1>5, <1>7 DEF DeathOK
  <2>3. DeathIsHandled'
    BY <1>2, <2>1 DEF DeathIsHandled, Threads
  <2> QED
    BY <2>2, <2>3 DEF DeathOK
<1>18. DoublesOK'
  BY <1>2, <1>5, <1>6, DoublesStay
<1> QED
  BY <1>10, <1>12, <1>13, <1>14, <1>15, <1>16, <1>17, <1>18

LEMMA EnterRoomHolds ==
    ASSUME InductiveInvariant, NEW t \in Threads, NEW s \in Sessions, EnterRoom(t, s)
    PROVE  InductiveInvariant'
<1> USE DEF InductiveInvariant
<1>0. PICK id : id = nextId
  OBVIOUS
<1> DEFINE next == [at |-> "insert", id |-> id, info |-> NewPlayer]
<1>1. /\ player[s] = 0 /\ id <= MaxId /\ Take(t, s, next)
      /\ player' = [player EXCEPT ![s] = id]
      /\ told' = Put(told, id, Snapshot(id))
      /\ nextId' = nextId + 1
      /\ UNCHANGED <<objects, missed, raced, contested>>
  BY <1>0 DEF EnterRoom, history
<1>2. /\ id \notin DOMAIN objects /\ id \notin DOMAIN told
      /\ \A p \in DOMAIN told : id \notin DOMAIN told[p]
      /\ \A r \in Sessions : player[r] # id
      /\ \A u \in Threads : call[u].at \in Named => call[u].id # id
      /\ id \in Ids /\ id # 0
  <2>1. nextId \in Nat /\ nextId # 0
    BY NextIdIsNew
  <2>2. id \in Ids
    BY <1>0, <1>1, <2>1, StatsAssumption DEF Ids
  <2> QED
    BY <1>0, <2>1, <2>2, NextIdIsNew
<1>3. /\ next \in Calls /\ next.at = "insert" /\ next.id = id
      /\ next.info.type = "player" /\ next.info.pos = SpawnCell /\ next.info.hp = MaxHp
  <2>1. NewPlayer \in Info
    BY CellsAssumption, StatsAssumption DEF NewPlayer, Info, Types
  <2> QED
    BY <1>2, <2>1 DEF Calls, NewPlayer
<1> HIDE DEF next
<1>4. /\ call' = [call EXCEPT ![t] = next] /\ call[t].at = "idle"
      /\ serving' \in [Threads -> Sessions \cup {Nobody}]
  BY <1>1, ThreadMoves
<1>5. /\ call' \in [Threads -> Calls] /\ call'[t] = next
      /\ \A u \in Threads : u # t => call'[u] = call[u]
  BY <1>3, <1>4 DEF TypeOK
<1>6. \A u \in Threads : call'[u].at # "insert" => u # t /\ call'[u] = call[u]
  BY <1>3, <1>5
<1>7. /\ DOMAIN told' = DOMAIN told \cup {id}
      /\ \A p \in DOMAIN told : told'[p] = told[p]
      /\ told'[id] = Snapshot(id)
  BY <1>1, <1>2 DEF Put
<1>8. /\ DOMAIN Snapshot(id) = DOMAIN objects \cup {id}
      /\ Snapshot(id) \in [DOMAIN objects \cup {id} -> Places]
      /\ Snapshot(id)[id] = <<SpawnCell>>
      /\ \A k \in DOMAIN objects : Snapshot(id)[k] = <<objects[k].pos>>
      /\ \A k \in DOMAIN Snapshot(id) : ~(Len(Snapshot(id)[k]) > 1)
      /\ \A k \in DOMAIN objects : AllAt(Snapshot(id)[k], objects[k].pos)
  <2>1. \A k \in DOMAIN objects : objects[k].pos \in Cells
    BY ObjectFields
  <2>2. \A c \in Cells : <<c>> \in Places /\ AllAt(<<c>>, c) /\ ~(Len(<<c>>) > 1)
    BY DEF Places, AllAt
  <2>3. /\ Snapshot(id)[id] = <<SpawnCell>> /\ DOMAIN Snapshot(id) = DOMAIN objects \cup {id}
        /\ \A k \in DOMAIN objects : Snapshot(id)[k] = <<objects[k].pos>>
    BY <1>2 DEF Snapshot
  <2>4. \A k \in DOMAIN Snapshot(id) :
            Snapshot(id)[k] \in Places /\ ~(Len(Snapshot(id)[k]) > 1)
    BY <2>1, <2>2, <2>3, CellsAssumption
  <2>5. Snapshot(id) \in [DOMAIN objects \cup {id} -> Places]
    <3>1. Snapshot(id) = [k \in DOMAIN objects \cup {id} |-> Snapshot(id)[k]]
      BY DEF Snapshot
    <3> QED
      BY <2>3, <2>4, <3>1
  <2> QED
    BY <2>1, <2>2, <2>3, <2>4, <2>5
<1>8a. /\ crossed \subseteq crossed' /\ crossed' \subseteq Ids \X Ids
       /\ \A k \in DOMAIN objects : Announcing(k, "tell added") => <<id, k>> \in crossed'
  <2>1. crossed' = crossed \cup
            {<<id, k>> : k \in {j \in DOMAIN objects : Announcing(j, "tell added")}}
    BY <1>0 DEF EnterRoom
  <2>2. \A k \in DOMAIN objects : k \in Ids
    BY ObjectFields
  <2>3. crossed \subseteq Ids \X Ids
    BY DEF TypeOK
  <2>4. \A k \in DOMAIN objects : Announcing(k, "tell added") => <<id, k>> \in crossed'
    BY <2>1, Zenon
  <2>5. ASSUME NEW pair \in crossed'
        PROVE  pair \in Ids \X Ids
    <3>1. CASE pair \in crossed
      BY <2>3, <3>1
    <3>2. CASE \E k \in DOMAIN objects : pair = <<id, k>>
      BY <1>2, <2>2, <3>2
    <3>3. pair \in crossed \/ \E k \in DOMAIN objects : pair = <<id, k>>
      BY <2>1, Zenon
    <3> QED
      BY <3>1, <3>2, <3>3
  <2>6. crossed \subseteq crossed'
    BY <2>1, Zenon
  <2> QED
    BY <2>4, <2>5, <2>6
<1>9. /\ player' \in [Sessions -> Nat] /\ player'[s] = id
      /\ \A r \in Sessions : r # s => player'[r] = player[r]
  BY <1>1, <1>2, StatsAssumption DEF TypeOK, Ids
<1>10. TypeOK'
  <2>1. nextId' \in 2..MaxId + 1 /\ id \in 1..nextId' - 1 /\ id \in 0..nextId' - 1
    BY <1>0, <1>1, <1>2, StatsAssumption DEF TypeOK, Ids
  <2>2. \A k \in 0..nextId - 1 : k \in 0..nextId' - 1
    BY <1>1, StatsAssumption DEF TypeOK
  <2>3. \A k \in 1..nextId - 1 : k \in 1..nextId' - 1
    BY <1>1, StatsAssumption DEF TypeOK
  <2>4. player' \in [Sessions -> 0..nextId' - 1]
    BY <1>1, <2>1, <2>2 DEF TypeOK
  <2>5. DOMAIN objects' \subseteq 1..nextId' - 1 /\ DOMAIN told' \subseteq 1..nextId' - 1
    BY <1>1, <1>7, <2>1, <2>3 DEF TypeOK
  <2>6. ASSUME NEW p \in DOMAIN told'
        PROVE  /\ DOMAIN told'[p] \subseteq 1..nextId' - 1
               /\ told'[p] \in [DOMAIN told'[p] -> Places]
    <3>1. CASE p = id
      BY <1>1, <1>7, <1>8, <2>1, <2>5, <3>1
    <3>2. CASE p # id
      BY <1>7, <2>3, <3>2 DEF TypeOK
    <3> QED
      BY <3>1, <3>2
  <2> QED
    BY <1>1, <1>4, <1>5, <1>8a, <2>1, <2>4, <2>5, <2>6 DEF TypeOK
<1>11. Listeners' = Listeners /\ Entering' = Entering \cup {id}
  <2>1. Listeners' = Listeners
    BY <1>1 DEF Listeners
  <2>2. \A k : k \in Entering <=> \E u \in Threads :
            call[u].at = "insert" /\ call[u].info.type = "player" /\ k = call[u].id
    BY DEF Entering
  <2>3. \A k : k \in Entering' <=> \E u \in Threads :
            call'[u].at = "insert" /\ call'[u].info.type = "player" /\ k = call'[u].id
    BY DEF Entering, Threads
  <2>4. ASSUME NEW k \in Entering'
        PROVE  k \in Entering \cup {id}
    <3>1. PICK u \in Threads :
            call'[u].at = "insert" /\ call'[u].info.type = "player" /\ k = call'[u].id
      BY <2>3, <2>4
    <3>2. CASE u = t
      BY <1>3, <1>5, <3>1, <3>2
    <3>3. CASE u # t
      BY <1>5, <2>2, <3>1, <3>3
    <3> QED
      BY <3>2, <3>3
  <2>5. ASSUME NEW k \in Entering
        PROVE  k \in Entering'
    <3>1. PICK u \in Threads :
            call[u].at = "insert" /\ call[u].info.type = "player" /\ k = call[u].id
      BY <2>2, <2>5
    <3>2. u # t
      BY <1>4, <3>1
    <3> QED
      BY <1>5, <2>3, <3>1, <3>2
  <2>6. id \in Entering'
    BY <1>3, <1>5, <2>3
  <2> QED
    BY <2>1, <2>4, <2>5, <2>6
<1>12. IdsOK'
  <2>1. \A u \in Threads : call'[u].at \in Named => call'[u].id < nextId'
    <3> SUFFICES ASSUME NEW u \in Threads, call'[u].at \in Named
        PROVE call'[u].id < nextId + 1
      BY <1>1
    <3>1. nextId \in Int
      BY NextIdIsNew
    <3>2. CASE u = t
      BY <1>0, <1>3, <1>5, <3>1, <3>2
    <3>3. CASE u # t
      <4>1. call'[u] = call[u] /\ call[u].id < nextId /\ call[u] \in Calls
        BY <1>5, <3>3 DEF IdsOK, TypeOK
      <4>2. call[u].id \in Ids
        BY <4>1, CallFields
      <4>3. call[u].id \in Int
        BY <4>2, StatsAssumption DEF Ids
      <4> QED
        BY <3>1, <4>1, <4>3
    <3> QED
      BY <3>2, <3>3
  <2>2. ASSUME NEW u \in Threads, NEW v \in Threads, u # v,
               call'[u].at = "insert", call'[v].at \in Named
        PROVE  call'[v].id # call'[u].id
    <3>1. CASE u = t
      BY <1>2, <1>3, <1>5, <2>2, <3>1
    <3>2. CASE v = t
      BY <1>2, <1>3, <1>5, <2>2, <3>2 DEF Named
    <3>3. CASE u # t /\ v # t
      BY <1>5, <2>2, <3>3 DEF IdsOK
    <3> QED
      BY <3>1, <3>2, <3>3
  <2>3. \A u \in Threads : call'[u].at \in {"insert", "tell removed"} =>
            call'[u].id \notin DOMAIN objects
    BY <1>2, <1>3, <1>5 DEF IdsOK
  <2>4. \A p : p \in DOMAIN told' <=> p \in Listeners' \cup Entering'
    BY <1>7, <1>11 DEF IdsOK
  <2>5. ASSUME NEW u \in Threads, NEW v \in Threads, u # v,
               call'[u].at = "tell added", call'[v].at = "tell added"
        PROVE  call'[v].id # call'[u].id
    BY <1>6, <2>5 DEF IdsOK
  <2> QED
    BY <1>1, <2>1, <2>2, <2>3, <2>4, <2>5 DEF IdsOK
<1>13. SharedOK'
  <2>1. Unchecked' = Unchecked
    BY DEF Unchecked
  <2>2. \A c : Claims(call'[t], c) => c \in Unchecked
    BY <1>3, <1>5 DEF Claims, Unchecked
  <2>3. SharedCellsContested'
    BY <1>1, <2>1 DEF SharedOK, SharedCellsContested
  <2>4. ASSUME NEW u \in Threads, NEW a \in DOMAIN objects,
               Claims(call'[u], objects[a].pos), call'[u].id # a
        PROVE  objects[a].pos \in contested \cup Unchecked
    <3>1. CASE u # t
      BY <1>5, <2>4, <3>1 DEF SharedOK
    <3>2. CASE u = t
      BY <2>2, <2>4, <3>2
    <3> QED
      BY <3>1, <3>2
  <2>5. ASSUME NEW u \in Threads, NEW v \in Threads, NEW c \in Cells,
               u # v, Claims(call'[u], c), Claims(call'[v], c)
        PROVE  c \in contested \cup Unchecked
    <3>1. CASE u # t /\ v # t
      BY <1>5, <2>5, <3>1 DEF SharedOK
    <3>2. CASE u = t \/ v = t
      BY <2>2, <2>5, <3>2
    <3> QED
      BY <3>1, <3>2
  <2> QED
    BY <1>1, <2>1, <2>3, <2>4, <2>5 DEF SharedOK
<1>14. CopiesOK'
  BY <1>1, <1>6 DEF CopiesOK, Carrying
<1>15. SentOK'
  <2> SUFFICES ASSUME NEW u \in Threads, call'[u].at = "unmark", NEW p \in DOMAIN told',
                      call'[u].id \in DOMAIN told'[p], call'[u].id \in DOMAIN objects
      PROVE \/ AllAt(told'[p][call'[u].id], objects[call'[u].id].pos)
            \/ call'[u].id \in raced \/ <<p, call'[u].id>> \in missed \cup crossed'
    BY <1>1 DEF SentOK
  <2>1. call'[u] = call[u]
    BY <1>6
  <2>2. CASE p = id
    BY <1>7, <1>8, <2>2
  <2>3. CASE p # id
    BY <1>7, <1>8a, <2>1, <2>3 DEF SentOK
  <2> QED
    BY <2>2, <2>3
<1>16. ViewsOK'
  <2> SUFFICES ASSUME NEW p \in DOMAIN told'
      PROVE ViewOK(p)'
    BY DEF ViewsOK
  <2>1. CASE p = id
    <3>1. /\ DOMAIN told'[p] = DOMAIN objects \cup {p}
          /\ \A k \in DOMAIN objects : AllAt(told'[p][k], objects[k].pos)
      BY <1>7, <1>8, <2>1
    <3>2. ASSUME NEW u \in Threads, call'[u].at = "insert", call'[u].id \in DOMAIN told'[p]
          PROVE  p = call'[u].id /\ told'[p][p] = <<call'[u].info.pos>>
      <4>1. CASE u = t
        BY <1>3, <1>5, <1>7, <1>8, <2>1, <4>1
      <4>2. CASE u # t
        <5>1. call[u].at = "insert" /\ call[u].id \notin DOMAIN objects /\ call[u].id # id
          BY <1>2, <1>5, <3>2, <4>2 DEF IdsOK, Named
        <5> QED
          BY <1>5, <2>1, <3>1, <3>2, <4>2, <5>1
      <4> QED
        BY <4>1, <4>2
    <3>3. /\ \A k \in DOMAIN objects' \ DOMAIN told'[p] : FALSE
          /\ \A k \in DOMAIN told'[p] \ DOMAIN objects' : k = p
          /\ \A k \in DOMAIN told'[p] \cap DOMAIN objects' : AllAt(told'[p][k], objects'[k].pos)
      BY <1>1, <3>1
    <3> QED
      BY <3>2, <3>3 DEF ViewOK, Threads
  <2>2. CASE p # id
    <3>1. p \in DOMAIN told /\ told'[p] = told[p] /\ ViewOK(p)
      BY <1>7, <2>2 DEF ViewsOK
    <3>2. /\ \A k : Announcing(k, "tell added") => Announcing(k, "tell added")'
          /\ \A k : Announcing(k, "tell removed") => Announcing(k, "tell removed")'
          /\ \A k : Announcing(k, "mark") => Announcing(k, "mark")'
      BY <1>4, AnnouncingStays
    <3>3. ASSUME NEW u \in Threads, call'[u].at = "insert", call'[u].id \in DOMAIN told[p]
          PROVE  p = call'[u].id /\ told[p][p] = <<call'[u].info.pos>>
      <4>1. u # t /\ call'[u] = call[u]
        BY <1>2, <1>3, <1>5, <3>1, <3>3
      <4> QED
        BY <3>1, <3>3, <4>1 DEF ViewOK
    <3>4. /\ \A k \in DOMAIN objects \ DOMAIN told[p] :
                <<p, k>> \in missed \/ Announcing(k, "tell added")'
          /\ \A k \in DOMAIN told[p] \ DOMAIN objects :
                \/ k = p \/ <<p, k>> \in missed \cup crossed' \/ k \in raced
                \/ Announcing(k, "tell removed")'
          /\ \A k \in DOMAIN told[p] \cap DOMAIN objects :
                 \/ AllAt(told[p][k], objects[k].pos)
                 \/ objects[k].dirty \/ Announcing(k, "mark")'
                 \/ k \in raced \/ <<p, k>> \in missed \cup crossed'
      BY <1>8a, <3>1, <3>2 DEF ViewOK
    <3> QED
      BY <1>1, <3>1, <3>3, <3>4 DEF ViewOK, Threads
  <2> QED
    BY <2>1, <2>2
<1>17. MonsterOK'
  <2>1. MonsterRemains'
    <3>1. CASE OfType(objects, "monster") # {}
      BY <1>1, <3>1 DEF MonsterRemains
    <3>2. CASE \E u \in Threads :
                \/ call[u].at = "tell removed" /\ call[u].respawn
                \/ call[u].at = "respawn"
                \/ call[u].at = "insert" /\ call[u].info.type = "monster"
      <4>1. PICK u \in Threads :
                \/ call[u].at = "tell removed" /\ call[u].respawn
                \/ call[u].at = "respawn"
                \/ call[u].at = "insert" /\ call[u].info.type = "monster"
        BY <3>2
      <4>2. call'[u] = call[u]
        BY <1>4, <1>5, <4>1
      <4> QED
        BY <4>1, <4>2 DEF MonsterRemains, Threads
    <3> QED
      BY <3>1, <3>2 DEF MonsterOK, MonsterRemains
  <2>2. \A r \in Sessions : player'[r] \in DOMAIN objects =>
          objects[player'[r]].type = "player"
    BY <1>2, <1>9 DEF MonsterOK
  <2>3. ASSUME NEW u \in Threads, NEW r \in Sessions,
               call'[u].at = "insert", call'[u].id = player'[r]
        PROVE  call'[u].info.type = "player"
    <3>1. CASE u = t
      BY <1>3, <1>5, <3>1
    <3>2. CASE u # t
      <4>1. call'[u] = call[u] /\ call[u].id # id
        BY <1>2, <1>5, <2>3, <3>2 DEF Named
      <4>2. r # s
        BY <1>9, <2>3, <4>1
      <4> QED
        BY <1>9, <2>3, <4>1, <4>2 DEF MonsterOK
    <3> QED
      BY <3>1, <3>2
  <2>4. ASSUME NEW u \in Threads, call'[u].at = "erase", ~call'[u].respawn
        PROVE  \E r \in Sessions : call'[u].id = player'[r]
    <3>1. call'[u] = call[u] /\ call[u] \in Calls
      BY <1>6, <2>4 DEF TypeOK
    <3>2. call[u].id \in Ids
      BY <2>4, <3>1, CallFields DEF Named
    <3>3. PICK r \in Sessions : call[u].id = player[r]
      BY <2>4, <3>1 DEF MonsterOK
    <3>4. r # s
      BY <1>1, <3>2, <3>3, StatsAssumption DEF Ids
    <3> QED
      BY <1>9, <3>1, <3>3, <3>4
  <2> QED
    BY <1>1, <2>1, <2>2, <2>3, <2>4 DEF MonsterOK
<1>18. DeathOK'
  <2>1. ASSUME NEW k \in DOMAIN objects, objects[k].hp = 0
        PROVE  \E u \in Threads :
                  /\ call'[u].at \in {"erase", "revive"} /\ call'[u].id = k
                  /\ call'[u].at = "erase" => call'[u].respawn
    <3>1. PICK u \in Threads : /\ call[u].at \in {"erase", "revive"} /\ call[u].id = k
                               /\ call[u].at = "erase" => call[u].respawn
      BY <2>1 DEF DeathOK, DeathIsHandled
    <3>2. u # t
      BY <1>4, <3>1
    <3> QED
      BY <1>5, <3>1, <3>2
  <2>2. \A u \in Threads : call'[u].at = "insert" => call'[u].info.hp = MaxHp
    BY <1>3, <1>5 DEF DeathOK
  <2>3. DeathIsHandled'
    BY <1>1, <2>1 DEF DeathIsHandled, Threads
  <2> QED
    BY <2>2, <2>3 DEF DeathOK
<1>19. DoublesOK'
  <2>1. \A u \in Threads : call'[u].at = "tell added" => call'[u] = call[u]
    BY <1>6
  <2> SUFFICES ASSUME NEW p \in DOMAIN told'
      PROVE DoubleOK(p)'
    BY DEF DoublesOK
  <2>2. CASE p = id
    <3>1. /\ p \in DOMAIN told'[p]
          /\ \A k \in DOMAIN told'[p] : ~(Len(told'[p][k]) > 1)
      BY <1>7, <1>8, <2>2
    <3>2. ASSUME NEW u \in Threads, call'[u].at = "tell added",
                 call'[u].id \in DOMAIN told'[p]
          PROVE  p = call'[u].id \/ <<p, call'[u].id>> \in crossed'
      <4>1. PICK k : k = call[u].id /\ call'[u] = call[u]
        BY <2>1, <3>2
      <4>2. Announcing(k, "tell added") /\ k \in DOMAIN objects \cup {id}
        BY <1>7, <1>8, <2>2, <3>2, <4>1 DEF Announcing
      <4> QED
        BY <1>8a, <2>2, <4>1, <4>2
    <3> QED
      BY <3>1, <3>2 DEF DoubleOK
  <2>3. CASE p # id
    <3>1. DoubleOK(p) /\ told'[p] = told[p]
      BY <1>7, <2>3 DEF DoublesOK
    <3>2. \A k \in DOMAIN told'[p] : Len(told'[p][k]) > 1 => <<p, k>> \in crossed'
      BY <1>8a, <3>1 DEF DoubleOK
    <3>3. ASSUME NEW u \in Threads, call'[u].at = "tell added",
                 call'[u].id \in DOMAIN told'[p]
          PROVE  p = call'[u].id \/ <<p, call'[u].id>> \in crossed'
      <4>1. PICK k : k = call[u].id /\ call'[u] = call[u]
        BY <2>1, <3>3
      <4>2. p = k \/ <<p, k>> \in crossed
        BY <3>1, <3>3, <4>1 DEF DoubleOK
      <4> QED
        BY <1>8a, <4>1, <4>2
    <3>4. p \in DOMAIN told'[p]
      BY <3>1 DEF DoubleOK
    <3> QED
      BY <3>2, <3>3, <3>4 DEF DoubleOK
  <2> QED
    BY <2>2, <2>3
<1> QED
  BY <1>10, <1>12, <1>13, <1>14, <1>15, <1>16, <1>17, <1>18, <1>19

-----------------------------------------------------------------------------
(* The theorems *)

LEMMA StutterHolds == InductiveInvariant /\ UNCHANGED vars => InductiveInvariant'
<1> SUFFICES ASSUME InductiveInvariant, UNCHANGED vars PROVE InductiveInvariant'
  OBVIOUS
<1>1. UNCHANGED <<objects, told, nextId, player, call, serving, missed, raced, crossed, contested>>
  BY DEF vars, room, history
<1>2. Threads' = Threads /\ Unchecked' = Unchecked
  BY DEF Threads, Unchecked
<1>3. Listeners' = Listeners /\ Entering' = Entering
  BY <1>1, <1>2 DEF Listeners, Entering
<1>4. \A k, kind : Announcing(k, kind)' <=> Announcing(k, kind)
  BY <1>1, <1>2 DEF Announcing
<1>5. TypeOK' /\ IdsOK' /\ CopiesOK' /\ SentOK'
  BY <1>1, <1>2, <1>3 DEF InductiveInvariant, TypeOK, IdsOK, CopiesOK, SentOK
<1>6. SharedOK'
  BY <1>1, <1>2 DEF InductiveInvariant, SharedOK, SharedCellsContested
<1>7. ViewsOK'
  BY <1>1, <1>2, <1>4 DEF InductiveInvariant, ViewsOK, ViewOK
<1>8. MonsterOK'
  BY <1>1, <1>2 DEF InductiveInvariant, MonsterOK, MonsterRemains
<1>9. DeathOK'
  BY <1>1, <1>2 DEF InductiveInvariant, DeathOK, DeathIsHandled
<1>10. DoublesOK'
  BY <1>1, <1>2 DEF InductiveInvariant, DoublesOK, DoubleOK
<1> QED
  BY <1>5, <1>6, <1>7, <1>8, <1>9, <1>10 DEF InductiveInvariant

LEMMA NextHolds == InductiveInvariant /\ [Next]_vars => InductiveInvariant'
<1> SUFFICES ASSUME InductiveInvariant, Next PROVE InductiveInvariant'
  BY StutterHolds
<1>1. TypeOK /\ Main \in Threads /\ Workers \subseteq Threads
  BY DEF InductiveInvariant, Threads
<1>2. ASSUME NEW t \in Workers, NEW s \in Sessions,
             \/ EnterRoom(t, s) \/ LeaveRoom(t, s)
             \/ Stop(t, s) \/ \E dir \in InputDirs : Reject(t, s, dir)
             \/ \E dir \in InputDirs : Move(t, s, dir)
             \/ \E target \in Ids : Attack(t, s, target)
      PROVE  InductiveInvariant'
  <2>1. t \in Threads
    BY <1>1
  <2>2. CASE EnterRoom(t, s)
    BY <2>1, <2>2, EnterRoomHolds
  <2>3. CASE LeaveRoom(t, s)
    BY <1>1, <2>1, <2>3, LeaveRoomSteady, SteadyHolds
  <2>4. CASE Stop(t, s) \/ \E dir \in InputDirs : Reject(t, s, dir)
    BY <1>1, <2>1, <2>4, StopSteady, SteadyHolds
  <2>5. CASE \E dir \in InputDirs : Move(t, s, dir)
    BY <1>1, <2>1, <2>5, MoveSteady, SteadyHolds
  <2>6. CASE \E target \in Ids : Attack(t, s, target)
    BY <1>1, <2>1, <2>6, AttackSteady, SteadyHolds
  <2> QED
    BY <1>2, <2>2, <2>3, <2>4, <2>5, <2>6
<1>3. ASSUME NEW m \in Ids, NEW p \in Ids,
             \/ MonsterTurns(m, p) \/ MonsterStays(m, p)
             \/ \E dir \in Dirs : MonsterSteps(m, p, dir)
      PROVE  InductiveInvariant'
  <2>1. CASE MonsterTurns(m, p)
    BY <1>1, <2>1, MonsterTurnsSteady, SteadyHolds
  <2>2. CASE MonsterStays(m, p)
    BY <1>1, <2>2, MonsterStaysSteady, SteadyHolds
  <2>3. CASE \E dir \in Dirs : MonsterSteps(m, p, dir)
    BY <1>1, <2>3, MonsterStepsSteady, SteadyHolds
  <2> QED
    BY <1>3, <2>1, <2>2, <2>3
<1>4. ASSUME NEW m \in Ids, MonsterRests(m)
      PROVE  InductiveInvariant'
  BY <1>1, <1>4, MonsterRestsSteady, SteadyHolds
<1>5. CASE BroadcastGameState
  BY <1>1, <1>5, BroadcastGameStateSteady, SteadyHolds
<1>6. ASSUME NEW t \in Threads,
             \/ Insert(t) \/ BroadcastAdded(t) \/ Erase(t) \/ BroadcastRemoved(t)
             \/ Place(t) \/ Mark(t) \/ BroadcastMove(t)
             \/ AttackOfMonster(t) \/ Wound(t) \/ Revive(t) \/ Respawn(t)
             \/ Survey(t) \/ BroadcastState(t) \/ Unmark(t)
      PROVE  InductiveInvariant'
  <2>1. CASE Insert(t)
    BY <2>1, InsertHolds
  <2>2. CASE BroadcastAdded(t)
    BY <2>2, BroadcastAddedHolds
  <2>3. CASE Erase(t)
    <3>1. CASE call[t].id \in DOMAIN objects
      BY <2>3, <3>1, EraseHolds
    <3>2. CASE call[t].id \notin DOMAIN objects
      BY <1>1, <2>3, <3>2, EraseSteady, SteadyHolds
    <3> QED
      BY <3>1, <3>2
  <2>4. CASE BroadcastRemoved(t)
    BY <2>4, BroadcastRemovedHolds
  <2>5. CASE Place(t)
    <3>1. CASE call[t].id \in DOMAIN objects /\ objects[call[t].id].pos # call[t].cell
      BY <2>5, <3>1, PlaceHolds
    <3>2. CASE ~(call[t].id \in DOMAIN objects /\ objects[call[t].id].pos # call[t].cell)
      BY <1>1, <2>5, <3>2, PlaceSteady, SteadyHolds
    <3> QED
      BY <3>1, <3>2
  <2>6. CASE Mark(t)
    BY <1>1, <2>6, MarkSteady, SteadyHolds
  <2>7. CASE BroadcastMove(t)
    BY <2>7, BroadcastMoveHolds
  <2>8. CASE AttackOfMonster(t)
    BY <1>1, <2>8, AttackOfMonsterSteady, SteadyHolds
  <2>9. CASE Wound(t)
    BY <1>1, <2>9, WoundSteady, SteadyHolds
  <2>10. CASE Revive(t)
    BY <1>1, <2>10, ReviveSteady, SteadyHolds
  <2>11. CASE Respawn(t)
    BY <2>11, RespawnHolds
  <2>12. CASE Survey(t)
    BY <2>12, SurveyHolds
  <2>13. CASE BroadcastState(t)
    BY <2>13, BroadcastStateHolds
  <2>14. CASE Unmark(t)
    BY <2>14, UnmarkHolds
  <2> QED
    BY <1>6, <2>1, <2>2, <2>3, <2>4, <2>5, <2>6, <2>7, <2>8, <2>9, <2>10, <2>11,
       <2>12, <2>13, <2>14
<1> QED
  BY <1>2, <1>3, <1>4, <1>5, <1>6 DEF Next

LEMMA InvariantHolds == Spec => []InductiveInvariant
  BY InitHolds, NextHolds, PTL DEF Spec

\* Whatever the threads interleave, they stay in the code, and the room and
\* what the clients know keep their form.
THEOREM RaceTypes == Spec => []TypeOK
<1>1. InductiveInvariant => TypeOK
  BY DEF InductiveInvariant
<1> QED
  BY InvariantHolds, <1>1, PTL

\* AddObject, RemoveObject and EnterRoom of any number of threads: a client
\* knows who is in the room, up to the excuses of KnowsWhoIsThere, and has two
\* actors for an object only if it entered while the object was announced.
THEOREM RaceKnowsWhoIsThere == Spec => []KnowsWhoIsThere
<1>1. InductiveInvariant => KnowsWhoIsThere
  <2> SUFFICES ASSUME InductiveInvariant, NEW p \in Listeners
      PROVE /\ \A id \in DOMAIN objects \ DOMAIN told[p] :
                  <<p, id>> \in missed \/ Announcing(id, "tell added")
            /\ \A id \in DOMAIN told[p] \ DOMAIN objects :
                  \/ <<p, id>> \in missed \cup crossed \/ id \in raced
                  \/ Announcing(id, "tell removed")
            /\ \A id \in DOMAIN told[p] :
                  Len(told[p][id]) > 1 => <<p, id>> \in crossed
    BY DEF KnowsWhoIsThere
  <2>1. p \in DOMAIN told /\ p \in DOMAIN objects
    BY DEF InductiveInvariant, IdsOK, Listeners, OfType
  <2>2. ViewOK(p) /\ DoubleOK(p)
    BY <2>1 DEF InductiveInvariant, ViewsOK, DoublesOK
  <2> QED
    BY <2>1, <2>2 DEF ViewOK, DoubleOK
<1> QED
  BY InvariantHolds, <1>1, PTL

\* SetCellPos against BroadcastGameState: a place that no mark will bring to a
\* client is where each of the client's actors for the object stands, unless
\* the change raced a broadcast or one of them is an actor too many.
THEOREM RaceFresh == Spec => []FreshUnlessRaced
<1>1. InductiveInvariant => FreshUnlessRaced
  <2> SUFFICES ASSUME InductiveInvariant, NEW p \in Listeners
      PROVE \A id \in DOMAIN told[p] \cap DOMAIN objects :
               \/ AllAt(told[p][id], objects[id].pos)
               \/ objects[id].dirty \/ Announcing(id, "mark")
               \/ id \in raced \/ <<p, id>> \in missed \cup crossed
    BY DEF FreshUnlessRaced, AllAt
  <2>1. p \in DOMAIN told
    BY DEF InductiveInvariant, IdsOK
  <2> QED
    BY <2>1 DEF InductiveInvariant, ViewsOK, ViewOK
<1> QED
  BY InvariantHolds, <1>1, PTL

\* CanGo and GetRandomEmptyCellPos against SetCellPos and AddObject: objects
\* share a cell only where two threads found it free, or nobody looked.
THEOREM RaceSharedCells == Spec => []SharedCellsContested
<1>1. InductiveInvariant => SharedCellsContested
  BY DEF InductiveInvariant, SharedOK
<1> QED
  BY InvariantHolds, <1>1, PTL

\* However many threads kill the monster, RemoveObject and AddObject leave one
\* in the room or on its way.
THEOREM RaceMonsterRemains == Spec => []MonsterRemains
<1>1. InductiveInvariant => MonsterRemains
  BY DEF InductiveInvariant, MonsterOK
<1> QED
  BY InvariantHolds, <1>1, PTL

\* Whoever writes an hp of 0 handles the death, even if another thread has
\* overwritten the hp in between.
THEOREM RaceDeathIsHandled == Spec => []DeathIsHandled
<1>1. InductiveInvariant => DeathIsHandled
  BY DEF InductiveInvariant, DeathOK
<1> QED
  BY InvariantHolds, <1>1, PTL

-----------------------------------------------------------------------------
(* What a lock would change                                                *)

\* Handlers and Update one after the other, as if each of them took the
\* _roomMutex that GameRoom.h declares.
Serial ==
    \A t, u \in Threads : call[t].at # "idle" /\ call[u].at # "idle" => t = u

\* The excuses of KnowsWhoIsThere, FreshUnlessRaced and SharedCellsContested.
NoExcuses == missed = {} /\ raced = {} /\ crossed = {} /\ contested = {}

\* Between two handlers every client has one actor for each object in the room
\* and, unless the object is marked for the next BroadcastGameState, where it
\* stands; and no two objects stand in one cell, except where objects are put
\* without a look.
RoomAgrees ==
    (\A t \in Threads : call[t].at = "idle") =>
        /\ \A p \in Listeners :
              /\ DOMAIN told[p] = DOMAIN objects
              /\ \A id \in DOMAIN objects :
                    /\ Len(told[p][id]) = 1
                    /\ objects[id].dirty \/ told[p][id][1] = objects[id].pos
        /\ \A a, b \in DOMAIN objects :
              a # b /\ objects[a].pos = objects[b].pos => objects[a].pos \in Unchecked

\* A thread that tells or moves is alone, so nobody enters or carries a copy.
LEMMA SerialAlone ==
    ASSUME Serial, NEW t \in Threads, call[t].at # "idle"
    PROVE  /\ call[t].at # "insert" => Entering = {}
           /\ \A id : call[t].at \notin {"tell added", "tell moved", "tell state", "unmark"}
                        => Carriers(id) = {}
           /\ \A cell : call[t].at \notin {"place", "insert"} =>
                 \A u \in Threads : /\ ~(call[u].at = "place" /\ call[u].cell = cell)
                                    /\ ~(call[u].at = "insert" /\ call[u].info.pos = cell)
  BY DEF Serial, Entering, Carriers

\* A thread that begins a handler other than an empty one does so alone.
LEMMA SerialBegins ==
    ASSUME TypeOK, Serial', NEW t \in Threads, NEW next, next.at # "idle", CanBegin(t),
           call' = [call EXCEPT ![t] = next]
    PROVE  \A u \in Threads : call[u].at = "idle"
<1>1. call'[t] = next /\ \A u \in Threads \ {t} : call'[u] = call[u]
  BY DEF TypeOK
<1> QED
  BY <1>1 DEF Serial, CanBegin

LEMMA SerialGrant ==
    ASSUME NEW cell, Grant(cell), contested = {},
           \A u \in Threads : call[u].at \notin {"place", "insert"}
    PROVE  contested' = {}
  BY DEF Grant

LEMMA SerialNoExcuses ==
    ASSUME TypeOK, Serial, Serial', NoExcuses, [Next]_vars
    PROVE  NoExcuses'
<1> USE DEF NoExcuses, history
<1>1. ASSUME NEW t \in Threads,
             BroadcastAdded(t) \/ BroadcastRemoved(t) \/ BroadcastMove(t) \/ BroadcastState(t)
      PROVE  NoExcuses'
  <2>1. call[t].at \in {"tell added", "tell removed", "tell moved", "tell state"}
    BY <1>1 DEF BroadcastAdded, BroadcastRemoved, BroadcastMove, BroadcastState
  <2>2. Entering = {}
    BY <2>1, SerialAlone
  <2> QED
    BY <1>1, <2>2
    DEF BroadcastAdded, BroadcastRemoved, BroadcastMove, BroadcastState, Unheard
<1>2. ASSUME NEW t \in Threads, Erase(t) \/ Place(t)
      PROVE  NoExcuses'
  <2>1. call[t].at \in {"erase", "place"}
    BY <1>2 DEF Erase, Place
  <2>2. \A id : Carriers(id) = {}
    BY <2>1, SerialAlone
  <2> QED
    BY <1>2, <2>2 DEF Erase, Place
<1>3. ASSUME NEW t \in Threads, Respawn(t) PROVE NoExcuses'
  <2>1. \A u \in Threads : call[u].at \notin {"place", "insert"}
    BY <1>3 DEF Respawn, Serial
  <2> QED
    BY <1>3, <2>1, SerialGrant DEF Respawn
<1>4. ASSUME NEW t \in Threads, NEW s \in Sessions, NEW dir \in InputDirs, Move(t, s, dir)
      PROVE  NoExcuses'
  <2> PICK cell, next : /\ Grant(cell) /\ next.at = "place" /\ CanBegin(t)
                        /\ call' = [call EXCEPT ![t] = next]
    BY <1>4 DEF Move, Take, Begin
  <2>1. \A u \in Threads : call[u].at = "idle"
    BY SerialBegins
  <2> QED
    BY <1>4, <2>1, SerialGrant DEF Move
<1>5. ASSUME NEW m \in Ids, NEW p \in Ids, NEW dir \in Dirs, MonsterSteps(m, p, dir)
      PROVE  NoExcuses'
  <2> PICK cell, next : /\ Grant(cell) /\ next.at = "place" /\ CanBegin(Main)
                        /\ call' = [call EXCEPT ![Main] = next]
    BY <1>5 DEF MonsterSteps, Begin
  <2>1. \A u \in Threads : call[u].at = "idle"
    BY SerialBegins DEF Threads
  <2> QED
    BY <1>5, <2>1, SerialGrant DEF MonsterSteps
<1>6. ASSUME NEW t \in Threads, Survey(t) PROVE NoExcuses'
  BY <1>6 DEF Survey
<1>7. ASSUME NEW t \in Workers, NEW s \in Sessions,
             \/ LeaveRoom(t, s) \/ Stop(t, s)
             \/ \E dir \in InputDirs : Reject(t, s, dir)
             \/ \E target \in Ids : Attack(t, s, target)
      PROVE  NoExcuses'
  BY <1>7 DEF LeaveRoom, Stop, Reject, Attack
<1>8. ASSUME NEW m \in Ids, NEW p \in Ids,
             MonsterTurns(m, p) \/ MonsterStays(m, p) \/ MonsterRests(m)
      PROVE  NoExcuses'
  BY <1>8 DEF MonsterTurns, MonsterStays, MonsterRests
<1>9. ASSUME NEW t \in Threads,
             Insert(t) \/ Mark(t) \/ AttackOfMonster(t) \/ Wound(t) \/ Revive(t) \/ Unmark(t)
      PROVE  NoExcuses'
  BY <1>9 DEF Insert, Mark, AttackOfMonster, Wound, Revive, Unmark
<1>10. CASE BroadcastGameState
  BY <1>10 DEF BroadcastGameState
<1>11. CASE UNCHANGED vars
  BY <1>11 DEF vars
<1>12. ASSUME NEW t \in Workers, NEW s \in Sessions, EnterRoom(t, s)
       PROVE  NoExcuses'
  <2> PICK next : /\ next.at = "insert" /\ CanBegin(t)
                  /\ call' = [call EXCEPT ![t] = next]
    BY <1>12 DEF EnterRoom, Take, Begin
  <2>1. \A u \in Threads : call[u].at = "idle"
    BY SerialBegins DEF Threads
  <2>2. \A id : ~Announcing(id, "tell added")
    BY <2>1 DEF Announcing
  <2> QED
    BY <1>12, <2>2 DEF EnterRoom
<1> HIDE DEF NoExcuses, history
<1>13. ASSUME NEW t \in Workers, NEW s \in Sessions,
              \/ EnterRoom(t, s) \/ LeaveRoom(t, s) \/ Stop(t, s)
              \/ \E dir \in InputDirs : Reject(t, s, dir) \/ Move(t, s, dir)
              \/ \E target \in Ids : Attack(t, s, target)
       PROVE  NoExcuses'
  BY <1>4, <1>7, <1>12, <1>13 DEF Threads
<1>14. ASSUME NEW m \in Ids, NEW p \in Ids,
              \/ MonsterTurns(m, p) \/ MonsterStays(m, p)
              \/ \E dir \in Dirs : MonsterSteps(m, p, dir)
       PROVE  NoExcuses'
  BY <1>5, <1>8, <1>14
<1>15. ASSUME NEW m \in Ids, MonsterRests(m) PROVE NoExcuses'
  BY <1>8, <1>15
<1>16. ASSUME NEW t \in Threads,
              \/ Insert(t) \/ BroadcastAdded(t) \/ Erase(t) \/ BroadcastRemoved(t)
              \/ Place(t) \/ Mark(t) \/ BroadcastMove(t)
              \/ AttackOfMonster(t) \/ Wound(t) \/ Revive(t) \/ Respawn(t)
              \/ Survey(t) \/ BroadcastState(t) \/ Unmark(t)
       PROVE  NoExcuses'
  BY <1>1, <1>2, <1>3, <1>6, <1>9, <1>16
<1> QED
  BY <1>10, <1>11, <1>13, <1>14, <1>15, <1>16 DEF Next

\* If the handlers and Update excluded each other, which they would if they
\* took _roomMutex, then what the other theorems excuse would not happen: every
\* client would agree with the room whenever nobody is in it, for any map, any
\* number of threads, sessions and handlers.  The interleaving is to blame, not
\* the order of the broadcasts within a handler.
THEOREM RaceNeedsThreads == Spec /\ []Serial => [](NoExcuses /\ RoomAgrees)
<1>1. Init => NoExcuses
  BY DEF Init, NoExcuses
<1>2. TypeOK /\ Serial /\ Serial' /\ NoExcuses /\ [Next]_vars => NoExcuses'
  BY SerialNoExcuses
<1>3. ASSUME NoExcuses, TypeOK, IdsOK, KnowsWhoIsThere, FreshUnlessRaced,
             SharedCellsContested
      PROVE  RoomAgrees
  <2> USE DEF RoomAgrees
  <2> HAVE \A t \in Threads : call[t].at = "idle"
  <2>1. \A id, kind : kind \in {"tell added", "tell removed", "mark"} => ~Announcing(id, kind)
    BY DEF Announcing
  <2>2. ASSUME NEW p \in Listeners
        PROVE  /\ DOMAIN told[p] = DOMAIN objects /\ p \in DOMAIN told
               /\ \A id \in DOMAIN objects : ~(Len(told[p][id]) > 1)
    BY <1>3, <2>1 DEF NoExcuses, KnowsWhoIsThere, IdsOK
  <2>3. ASSUME NEW p \in Listeners, NEW id \in DOMAIN objects
        PROVE  told[p][id] \in Places /\ Len(told[p][id]) = 1 /\ 1 \in DOMAIN told[p][id]
    <3>1. told[p][id] \in Places
      BY <1>3, <2>2 DEF TypeOK
    <3> QED
      BY <2>2, <3>1, SMTT(30) DEF Places
  <2>4. ASSUME NEW p \in Listeners, NEW id \in DOMAIN objects
        PROVE  objects[id].dirty \/ told[p][id][1] = objects[id].pos
    BY <1>3, <2>1, <2>2, <2>3 DEF NoExcuses, FreshUnlessRaced
  <2> QED
    BY <1>3, <2>2, <2>3, <2>4 DEF NoExcuses, SharedCellsContested
<1>4. InductiveInvariant => IdsOK
  BY DEF InductiveInvariant
<1> QED
  BY <1>1, <1>2, <1>3, <1>4, InvariantHolds, RaceTypes, RaceKnowsWhoIsThere, RaceFresh,
     RaceSharedCells, PTL DEF Spec
=============================================================================
