----------------------- MODULE ClientPrediction_proofs -----------------------
(***************************************************************************)
(* Proofs of the properties of ClientPrediction for every map, any number  *)
(* of players and messages, and any delay.                                 *)
(*                                                                         *)
(* Two facts carry them.  LastWord: the last message about a place that is *)
(* under way is still true, unless the place has been marked since.        *)
(* Foreseen: when no such message is due, either a request is under way    *)
(* that is certain to cause one, or the client is wrong in no other way    *)
(* than that it ran ahead.                                                 *)
(***************************************************************************)
EXTENDS ClientPrediction, SequenceTheorems, FiniteSetTheorems, TLAPS

\* A request that marks the player with this info at the server, whatever the
\* map is like.
Disturbs(request, info) ==
    \/ request.id = "C_Move" /\ (request.dir # info.dir \/ info.state # "idle")
    \/ request.id = "C_Stop" /\ info.state # "idle"

LastAbout(i, p) ==
    /\ i \in DOMAIN down /\ Places(down[i], p)
    /\ \A j \in DOMAIN down : j > i => ~Places(down[j], p)

LastWord ==
    \A p \in Players : \A i \in DOMAIN down :
        ~objects[p].dirty /\ LastAbout(i, p) =>
            /\ down[i].pos = objects[p].pos
            /\ down[i].dir = objects[p].dir

Foreseen ==
    Me \in DOMAIN scene /\ Settled(Me) =>
        \/ \E i \in DOMAIN up : Disturbs(up[i], objects[Me])
        \/ scene[Me].pos = objects[Me].pos
        \/ RunAhead

InductiveInvariant == TypeOK /\ LastWord /\ OthersAgree /\ Foreseen

-----------------------------------------------------------------------------
(* Geometry *)

\* The step ahead leaves its cell, and stays on the ray it goes along.
LEMMA AheadFacts ==
    ASSUME NEW c \in Int \X Int, NEW dir \in Dirs
    PROVE  /\ Ahead(c, dir) # c
           /\ Ahead(c, dir) \in Int \X Int
  <1>1. /\ c = <<c[1], c[2]>>
        /\ c[1] \in Int /\ c[2] \in Int
    OBVIOUS
  <1>2. CASE dir = "up"
    BY <1>1, <1>2 DEF Ahead
  <1>3. CASE dir = "down"
    BY <1>1, <1>3 DEF Ahead
  <1>4. CASE dir = "left"
    BY <1>1, <1>4 DEF Ahead
  <1>5. CASE dir = "right"
    BY <1>1, <1>5 DEF Ahead
  <1> QED
    BY <1>2, <1>3, <1>4, <1>5 DEF Dirs

LEMMA RayFacts ==
    ASSUME NEW c \in Cells, NEW dir \in Dirs
    PROVE  /\ c \in Ray(c, dir)
           /\ \A d \in Ray(c, dir) :
                 Ahead(d, dir) \in Cells => Ahead(d, dir) \in Ray(c, dir)
  <1>0. c \in Int \X Int /\ Cells \subseteq Int \X Int
    BY MapAssumption
  <1>1. c[1] \in Int /\ c[2] \in Int
    BY <1>0
  <1>2. c \in Ray(c, dir)
    <2>1. c[1] <= c[1] /\ c[1] >= c[1] /\ c[2] <= c[2] /\ c[2] >= c[2]
      BY <1>1
    <2>2. CASE dir = "up"
      BY <2>1, <2>2 DEF Ray
    <2>3. CASE dir = "down"
      BY <2>1, <2>3 DEF Ray
    <2>4. CASE dir = "left"
      BY <2>1, <2>4 DEF Ray
    <2>5. CASE dir = "right"
      BY <2>1, <2>5 DEF Ray
    <2> QED
      BY <2>2, <2>3, <2>4, <2>5 DEF Dirs
  <1>3. ASSUME NEW d \in Ray(c, dir), Ahead(d, dir) \in Cells
        PROVE  Ahead(d, dir) \in Ray(c, dir)
    <2>1. d \in Cells
      BY DEF Ray
    <2>2. d[1] \in Int /\ d[2] \in Int
      BY <2>1, <1>0
    <2>3. CASE dir = "up"
      <3>1. Ahead(d, dir) = <<d[1], d[2] - 1>>
        BY <2>3 DEF Ahead
      <3>2. d[1] = c[1] /\ d[2] <= c[2]
        BY <2>3 DEF Ray
      <3> QED
        BY <3>1, <3>2, <2>2, <2>3, <1>1, <1>3 DEF Ray
    <2>4. CASE dir = "down"
      <3>1. Ahead(d, dir) = <<d[1], d[2] + 1>>
        BY <2>4 DEF Ahead
      <3>2. d[1] = c[1] /\ d[2] >= c[2]
        BY <2>4 DEF Ray
      <3> QED
        BY <3>1, <3>2, <2>2, <2>4, <1>1, <1>3 DEF Ray
    <2>5. CASE dir = "left"
      <3>1. Ahead(d, dir) = <<d[1] - 1, d[2]>>
        BY <2>5 DEF Ahead
      <3>2. d[2] = c[2] /\ d[1] <= c[1]
        BY <2>5 DEF Ray
      <3> QED
        BY <3>1, <3>2, <2>2, <2>5, <1>1, <1>3 DEF Ray
    <2>6. CASE dir = "right"
      <3>1. Ahead(d, dir) = <<d[1] + 1, d[2]>>
        BY <2>6 DEF Ahead
      <3>2. d[2] = c[2] /\ d[1] >= c[1]
        BY <2>6 DEF Ray
      <3> QED
        BY <3>1, <3>2, <2>2, <2>6, <1>1, <1>3 DEF Ray
    <2> QED
      BY <2>3, <2>4, <2>5, <2>6 DEF Dirs
  <1> QED
    BY <1>2, <1>3

-----------------------------------------------------------------------------
(* What the server does to the players *)

\* The info of q is as before, or it changed and is marked.
Marks(q) ==
    /\ objects[q].dirty => objects'[q].dirty
    /\ ~objects'[q].dirty => /\ objects'[q].pos = objects[q].pos
                             /\ objects'[q].dir = objects[q].dir
                             /\ objects'[q].state = objects[q].state

\* A message about a swing, or none, has been sent.
Swings == down' = down \/ \E p \in Players : down' = Append(down, S_Attack(p))

\* A move leaves an info in order and marks what it changes; it is certain to
\* mark one that looks elsewhere or is not idle.
LEMMA MovedMarks ==
    ASSUME TypeOK, NEW p \in Players, NEW dir \in Dirs
    PROVE  LET info == objects[p]
               after == Moved(info, dir)
           IN  /\ after \in Infos
               /\ info.dirty => after.dirty
               /\ ~after.dirty => /\ after.pos = info.pos /\ after.dir = info.dir
                                  /\ after.state = info.state
                                  /\ info.dir = dir /\ info.state = "idle"
  <1> DEFINE info == objects[p]
             cell == Ahead(info.pos, dir)
  <1>1. info \in Infos
    BY DEF TypeOK
  <1>2. info.pos \in Int \X Int /\ cell # info.pos
    <2>1. info.pos \in Int \X Int
      BY <1>1, MapAssumption DEF Infos
    <2> QED
      BY <2>1, AheadFacts
  <1>3. CASE CanGo(objects, cell)
    <2>1. cell \in Cells \ Walls
      BY <1>3 DEF CanGo
    <2> DEFINE after == SetCellPos(SetDir(SetState(info, "move"), dir), cell)
    <2>2. Moved(info, dir) = after
      BY <1>3 DEF Moved
    <2>3. after.dirty = TRUE
      BY <1>1, <1>2 DEF Infos, SetCellPos, SetDir, SetState
    <2>4. after \in Infos
      BY <1>1, <2>1, <2>3 DEF Infos, SetCellPos, SetDir, SetState, States
    <2> QED
      BY <2>2, <2>3, <2>4
  <1>4. CASE ~CanGo(objects, cell)
    <2> DEFINE after == SetState(SetDir(info, dir), "idle")
    <2>2. Moved(info, dir) = after
      BY <1>4 DEF Moved
    <2>3. after \in Infos
      BY <1>1 DEF Infos, SetDir, SetState, States
    <2>4. /\ info.dirty => after.dirty
          /\ ~after.dirty => /\ after.pos = info.pos /\ after.dir = info.dir
                             /\ after.state = info.state
                             /\ info.dir = dir /\ info.state = "idle"
      BY <1>1 DEF Infos, SetDir, SetState
    <2> QED
      BY <2>2, <2>3, <2>4
  <1> QED
    BY <1>3, <1>4

LEMMA StoppedMarks ==
    ASSUME NEW info \in Infos
    PROVE  LET after == Stopped(info)
           IN  /\ after \in Infos
               /\ info.dirty => after.dirty
               /\ ~after.dirty => /\ after.pos = info.pos /\ after.dir = info.dir
                                  /\ after.state = info.state /\ info.state = "idle"
  BY DEF Infos, Stopped, SetState, States

LEMMA StruckMarks ==
    ASSUME NEW info \in Infos
    PROVE  LET after == Struck(info)
           IN  /\ after \in Infos
               /\ info.dirty => after.dirty
               /\ ~after.dirty => /\ after.pos = info.pos /\ after.dir = info.dir
                                  /\ after.state = info.state
  <1>1. HitsToKill \in 1..HitsToKill /\ HitsToKill \in Nat \ {0}
    BY NumbersAssumption
  <1>2. CASE info.hp > 1
    BY <1>1, <1>2 DEF Infos, Struck
  <1>3. CASE ~(info.hp > 1)
    BY <1>1, <1>3, MapAssumption DEF Infos, Struck, SetCellPos
  <1> QED
    BY <1>2, <1>3

\* Handling a request marks what it changes, says nothing about a place, and
\* leaves the player unmarked only if the request did not disturb it.
LEMMA HandleMarks ==
    ASSUME TypeOK, NEW p \in Players, NEW request \in Requests, Handle(p, request)
    PROVE  /\ objects' \in [Players -> Infos]
           /\ \A q \in Players : Marks(q)
           /\ Swings
           /\ p = Me /\ ~objects'[Me].dirty => ~Disturbs(request, objects[Me])
  <1>0. objects \in [Players -> Infos] /\ objects[p] \in Infos
    BY DEF TypeOK
  <1>1. CASE request.id = "C_Move" /\ objects' = [objects EXCEPT ![p] = Moved(@, request.dir)]
             /\ UNCHANGED down
    <2>1. request.dir \in Dirs
      BY <1>1 DEF Requests, C_Move, C_Stop, C_Attack
    <2>2. objects'[p] = Moved(objects[p], request.dir)
          /\ \A q \in Players \ {p} : objects'[q] = objects[q]
      BY <1>0, <1>1
    <2>3. objects' \in [Players -> Infos]
      BY <1>0, <1>1, <2>1, MovedMarks
    <2>4. \A q \in Players : Marks(q)
      BY <2>1, <2>2, MovedMarks DEF Marks
    <2>5. ~objects'[p].dirty => objects[p].dir = request.dir /\ objects[p].state = "idle"
      BY <2>1, <2>2, MovedMarks
    <2> QED
      BY <1>1, <2>3, <2>4, <2>5 DEF Swings, Disturbs
  <1>2. CASE request.id = "C_Stop" /\ objects' = [objects EXCEPT ![p] = Stopped(@)]
             /\ UNCHANGED down
    <2>2. objects'[p] = Stopped(objects[p])
          /\ \A q \in Players \ {p} : objects'[q] = objects[q]
      BY <1>0, <1>2
    <2>3. objects' \in [Players -> Infos]
      BY <1>0, <1>2, StoppedMarks
    <2>4. \A q \in Players : Marks(q)
      BY <1>0, <2>2, StoppedMarks DEF Marks
    <2>5. ~objects'[p].dirty => objects[p].state = "idle"
      BY <1>0, <2>2, StoppedMarks
    <2> QED
      BY <1>2, <2>3, <2>4, <2>5 DEF Swings, Disturbs
  <1>3. CASE request.id = "C_Attack" /\ Attack(p, request.target)
    <2>1. request.target \in Players \cup {Nobody}
      BY <1>3 DEF Requests, C_Move, C_Stop, C_Attack
    <2>2. ~Disturbs(request, objects[Me])
      BY <1>3 DEF Disturbs
    <2>3. CASE UNCHANGED objects /\ Swings
      BY <1>0, <2>2, <2>3 DEF Marks
    <2>4. CASE /\ request.target # Nobody /\ Swings
               /\ objects' = [objects EXCEPT ![request.target] = Struck(@)]
      <3> DEFINE t == request.target
      <3>1. t \in Players /\ objects[t] \in Infos
        BY <1>0, <2>1, <2>4
      <3>2. objects'[t] = Struck(objects[t])
            /\ \A q \in Players \ {t} : objects'[q] = objects[q]
        BY <1>0, <2>4, <3>1
      <3>3. objects' \in [Players -> Infos]
        BY <1>0, <2>4, <3>1, StruckMarks
      <3>4. \A q \in Players : Marks(q)
        BY <3>1, <3>2, StruckMarks DEF Marks
      <3> QED
        BY <2>2, <2>4, <3>3, <3>4
    <2> QED
      BY <1>3, <2>3, <2>4 DEF Attack, Swings
  <1> QED
    BY <1>1, <1>2, <1>3 DEF Handle

-----------------------------------------------------------------------------
(* What reaches the messages under way *)

LEMMA SwingsFacts ==
    ASSUME TypeOK, Swings
    PROVE  /\ down' \in Seq(Messages)
           /\ DOMAIN down \subseteq DOMAIN down'
           /\ \A i \in DOMAIN down : down'[i] = down[i]
           /\ \A i \in DOMAIN down', p \in Players :
                 Places(down'[i], p) => i \in DOMAIN down
  <1>0. down \in Seq(Messages)
    BY DEF TypeOK
  <1>1. CASE down' = down
    BY <1>0, <1>1
  <1>2. ASSUME NEW q \in Players, down' = Append(down, S_Attack(q))
        PROVE  /\ down' \in Seq(Messages)
               /\ DOMAIN down \subseteq DOMAIN down'
               /\ \A i \in DOMAIN down : down'[i] = down[i]
               /\ \A i \in DOMAIN down', p \in Players :
                     Places(down'[i], p) => i \in DOMAIN down
    <2>1. S_Attack(q) \in Messages /\ \A p : ~Places(S_Attack(q), p)
      BY DEF S_Attack, Messages, Places
    <2>2. /\ down' \in Seq(Messages) /\ Len(down') = Len(down) + 1
          /\ \A i \in 1..Len(down) : down'[i] = down[i]
          /\ down'[Len(down) + 1] = S_Attack(q)
      BY <1>0, <1>2, <2>1, AppendProperties
    <2>3. DOMAIN down = 1..Len(down) /\ DOMAIN down' = 1..(Len(down) + 1) /\ Len(down) \in Nat
      BY <1>0, <2>2, LenProperties
    <2> QED
      BY <2>1, <2>2, <2>3
  <1> QED
    BY <1>1, <1>2 DEF Swings

\* The server has p where it had it; the client shows p where it did.
SamePlace(p) ==
    /\ objects'[p].pos = objects[p].pos
    /\ objects'[p].dir = objects[p].dir
    /\ objects'[p].state = objects[p].state
SameActor(p) ==
    scene'[p].pos = scene[p].pos /\ scene'[p].dir = scene[p].dir

\* Whoever is settled was so before, and is where it was.
StaySettled == \A p \in Players : Settled(p)' => Settled(p) /\ SamePlace(p)

\* While the server handles a request the last word about a place stays true
\* unless the place is marked, and no place becomes settled.
LEMMA HandleKeeps ==
    ASSUME TypeOK, LastWord, Swings, \A q \in Players : Marks(q)
    PROVE  LastWord' /\ StaySettled
  <1>0. /\ DOMAIN down \subseteq DOMAIN down'
        /\ \A i \in DOMAIN down : down'[i] = down[i]
        /\ \A i \in DOMAIN down', p \in Players :
              Places(down'[i], p) => i \in DOMAIN down
    BY SwingsFacts
  <1>1. ASSUME NEW p \in Players, NEW i \in DOMAIN down',
               ~objects'[p].dirty, LastAbout(i, p)'
        PROVE  down'[i].pos = objects'[p].pos /\ down'[i].dir = objects'[p].dir
    <2>1. i \in DOMAIN down /\ down'[i] = down[i]
      BY <1>0, <1>1 DEF LastAbout
    <2>2. LastAbout(i, p)
      BY <1>0, <1>1, <2>1 DEF LastAbout
    <2>3. /\ ~objects[p].dirty
          /\ objects'[p].pos = objects[p].pos /\ objects'[p].dir = objects[p].dir
      BY <1>1 DEF Marks
    <2> QED
      BY <2>1, <2>2, <2>3 DEF LastWord
  <1>2. ASSUME NEW p \in Players, Settled(p)'
        PROVE  Settled(p) /\ SamePlace(p)
    BY <1>0, <1>2 DEF Settled, Marks, SamePlace
  <1> QED
    BY <1>1, <1>2 DEF LastWord, StaySettled

\* When a message has been taken, a place is settled by it only if the message
\* was the last about it, and true.
LEMMA TailFacts ==
    ASSUME TypeOK, LastWord, down # <<>>, down' = Tail(down), objects' = objects
    PROVE  /\ Head(down) \in Messages /\ down' \in Seq(Messages)
           /\ LastWord'
           /\ \A p \in Players : Settled(p)' =>
                 \/ Settled(p) /\ ~Places(Head(down), p)
                 \/ /\ Places(Head(down), p)
                    /\ Head(down).pos = objects[p].pos
                    /\ Head(down).dir = objects[p].dir
  <1>0. down \in Seq(Messages) /\ Len(down) \in Nat /\ DOMAIN down = 1..Len(down)
    BY LenProperties DEF TypeOK
  <1>1. /\ Head(down) \in Messages /\ Head(down) = down[1] /\ 1 \in DOMAIN down
        /\ down' \in Seq(Messages) /\ Len(down') = Len(down) - 1
        /\ \A i \in 1..Len(down) - 1 : down'[i] = down[i + 1]
    BY <1>0, HeadTailProperties, EmptySeq
  <1>2. DOMAIN down' = 1..Len(down) - 1
    BY <1>1, LenProperties
  <1>3. \A j \in DOMAIN down : j > 1 => j - 1 \in DOMAIN down' /\ down'[j - 1] = down[j]
    BY <1>0, <1>1, <1>2
  <1>4. ASSUME NEW p \in Players, NEW i \in DOMAIN down',
               ~objects'[p].dirty, LastAbout(i, p)'
        PROVE  down'[i].pos = objects'[p].pos /\ down'[i].dir = objects'[p].dir
    <2>1. i + 1 \in DOMAIN down /\ down'[i] = down[i + 1]
      BY <1>0, <1>1, <1>2, <1>4
    <2>2. ASSUME NEW j \in DOMAIN down, j > i + 1
          PROVE  ~Places(down[j], p)
      <3>1. j - 1 \in DOMAIN down' /\ down'[j - 1] = down[j] /\ j - 1 > i
        BY <1>0, <1>2, <1>3, <2>2
      <3> QED
        BY <1>4, <3>1 DEF LastAbout
    <2>3. LastAbout(i + 1, p)
      BY <1>4, <2>1, <2>2 DEF LastAbout
    <2> QED
      BY <1>4, <2>1, <2>3 DEF LastWord
  <1>5. ASSUME NEW p \in Players, Settled(p)'
        PROVE  \/ Settled(p) /\ ~Places(Head(down), p)
               \/ /\ Places(Head(down), p)
                  /\ Head(down).pos = objects[p].pos
                  /\ Head(down).dir = objects[p].dir
    <2>1. ~objects[p].dirty /\ \A j \in DOMAIN down : j > 1 => ~Places(down[j], p)
      BY <1>3, <1>5 DEF Settled
    <2>2. CASE Places(Head(down), p)
      <3>1. LastAbout(1, p)
        BY <1>1, <2>1, <2>2 DEF LastAbout
      <3> QED
        BY <1>1, <2>1, <2>2, <3>1 DEF LastWord
    <2>3. CASE ~Places(Head(down), p)
      BY <1>0, <1>1, <2>1, <2>3 DEF Settled
    <2> QED
      BY <2>2, <2>3
  <1> QED
    BY <1>1, <1>4, <1>5 DEF LastWord

\* What the client shows stays right if it stays as it is, nobody becomes
\* settled, and a request that disturbs is still under way.
LEMMA Persists ==
    ASSUME InductiveInvariant, StaySettled,
           DOMAIN scene' \subseteq DOMAIN scene, \A p \in DOMAIN scene' : SameActor(p),
           ASSUME Settled(Me)', NEW i \in DOMAIN up, Disturbs(up[i], objects[Me])
           PROVE  \E j \in DOMAIN up' : up'[j] = up[i]
    PROVE  OthersAgree' /\ Foreseen'
  <1> USE DEF InductiveInvariant
  <1>0. Me \in Players
    BY PlayersAssumption
  <1>1. ASSUME NEW p \in DOMAIN scene' \ {Me}, Settled(p)'
        PROVE  scene'[p].pos = objects'[p].pos /\ scene'[p].dir = objects'[p].dir
    <2>1. p \in Players /\ p \in DOMAIN scene \ {Me}
      BY DEF TypeOK
    <2>2. Settled(p) /\ SamePlace(p) /\ SameActor(p)
      BY <1>1, <2>1 DEF StaySettled
    <2> QED
      BY <2>1, <2>2 DEF OthersAgree, SamePlace, SameActor
  <1>2. ASSUME Me \in DOMAIN scene', Settled(Me)'
        PROVE  \/ \E i \in DOMAIN up' : Disturbs(up'[i], objects'[Me])
               \/ scene'[Me].pos = objects'[Me].pos
               \/ RunAhead'
    <2>1. Me \in DOMAIN scene /\ Settled(Me) /\ SamePlace(Me) /\ SameActor(Me)
      BY <1>0, <1>2 DEF StaySettled
    <2>2. CASE \E i \in DOMAIN up : Disturbs(up[i], objects[Me])
      <3>1. PICK i \in DOMAIN up : Disturbs(up[i], objects[Me])
        BY <2>2
      <3>2. PICK j \in DOMAIN up' : up'[j] = up[i]
        BY <1>2, <3>1
      <3>3. Disturbs(up'[j], objects'[Me])
        BY <2>1, <3>1, <3>2 DEF Disturbs, SamePlace
      <3> QED
        BY <3>3
    <2>3. CASE scene[Me].pos = objects[Me].pos
      BY <2>1, <2>3 DEF SamePlace, SameActor
    <2>4. CASE RunAhead
      BY <2>1, <2>4 DEF SamePlace, SameActor, RunAhead
    <2> QED
      BY <2>1, <2>2, <2>3, <2>4 DEF Foreseen
  <1> QED
    BY <1>1, <1>2 DEF OthersAgree, Foreseen

-----------------------------------------------------------------------------
(* The steps of the server *)

LEMMA HandleMineStep ==
    ASSUME InductiveInvariant, HandleMine
    PROVE  InductiveInvariant'
  <1> USE DEF InductiveInvariant
  <1> DEFINE request == Head(up)
  <1>0. up \in Seq(Requests) /\ up # <<>> /\ Me \in Players /\ Len(up) <= MaxUp
    BY PlayersAssumption DEF TypeOK, HandleMine
  <1>1. /\ request \in Requests /\ request = up[1]
        /\ up' \in Seq(Requests) /\ Len(up') = Len(up) - 1 /\ Len(up) \in Nat
        /\ \A i \in 1..Len(up) - 1 : up'[i] = up[i + 1]
    BY <1>0, HeadTailProperties, LenProperties DEF HandleMine
  <1>2. DOMAIN up = 1..Len(up) /\ DOMAIN up' = 1..Len(up) - 1
    BY <1>0, <1>1, LenProperties
  <1>3. /\ objects' \in [Players -> Infos]
        /\ \A q \in Players : Marks(q)
        /\ Swings
        /\ ~objects'[Me].dirty => ~Disturbs(request, objects[Me])
    BY <1>0, <1>1, HandleMarks DEF HandleMine
  <1>4. LastWord' /\ StaySettled
    BY <1>3, HandleKeeps
  <1>5. TypeOK'
    <2>1. down' \in Seq(Messages)
      BY <1>3, SwingsFacts
    <2>2. Len(up') <= MaxUp
      BY <1>0, <1>1, NumbersAssumption
    <2> QED
      BY <1>1, <1>3, <2>1, <2>2 DEF TypeOK, HandleMine
  <1>6. ASSUME Settled(Me)', NEW i \in DOMAIN up, Disturbs(up[i], objects[Me])
        PROVE  \E j \in DOMAIN up' : up'[j] = up[i]
    <2>1. ~Disturbs(up[1], objects[Me])
      BY <1>1, <1>3, <1>6 DEF Settled
    <2>2. i \in 2..Len(up)
      BY <1>1, <1>2, <1>6, <2>1
    <2>3. i - 1 \in DOMAIN up' /\ up'[i - 1] = up[i]
      BY <1>1, <1>2, <2>2
    <2> QED
      BY <2>3
  <1>7. OthersAgree' /\ Foreseen'
    <2>1. DOMAIN scene' \subseteq DOMAIN scene /\ \A p \in DOMAIN scene' : SameActor(p)
      BY DEF HandleMine, SameActor
    <2> QED
      BY <1>4, <1>6, <2>1, Persists
  <1> QED
    BY <1>4, <1>5, <1>7

LEMMA HandleOtherStep ==
    ASSUME InductiveInvariant, HandleOther
    PROVE  InductiveInvariant'
  <1> USE DEF InductiveInvariant
  <1>0. scene' = scene /\ up' = up
    BY DEF HandleOther
  <1>1. /\ \A dir \in Dirs : C_Move(dir) \in Requests
        /\ C_Stop \in Requests
        /\ \A p \in Players \cup {Nobody} : C_Attack(p) \in Requests
    BY DEF Requests
  <1>2. \E p \in Players, request \in Requests : Handle(p, request)
    BY <1>1, MapAssumption DEF HandleOther
  <1>3. /\ objects' \in [Players -> Infos]
        /\ \A q \in Players : Marks(q)
        /\ Swings
    BY <1>2, HandleMarks
  <1>4. LastWord' /\ StaySettled
    BY <1>3, HandleKeeps
  <1>5. TypeOK'
    <2>1. down' \in Seq(Messages)
      BY <1>3, SwingsFacts
    <2> QED
      BY <1>0, <1>3, <2>1 DEF TypeOK
  <1>6. OthersAgree' /\ Foreseen'
    <2>1. DOMAIN scene' \subseteq DOMAIN scene /\ \A p \in DOMAIN scene' : SameActor(p)
      BY <1>0 DEF SameActor
    <2> QED
      BY <1>0, <1>4, <2>1, Persists
  <1> QED
    BY <1>4, <1>5, <1>6

\* Every marked player is told of, and nobody else is.
LEMMA OrdersFacts ==
    ASSUME TypeOK, NEW order \in Orders(Marked)
    PROVE  /\ order \in Seq(Marked)
           /\ \A p \in Marked : \E i \in DOMAIN order : order[i] = p
  <1>1. Cardinality(Marked) \in Nat
    <2>1. IsFiniteSet(Marked)
      BY PlayersAssumption, FS_Subset DEF Marked
    <2> QED
      BY <2>1, FS_CardinalityType
  <1>2. order \in [1..Cardinality(Marked) -> Marked]
        /\ \A p \in Marked : \E i \in DOMAIN order : order[i] = p
    BY DEF Orders
  <1> QED
    BY <1>1, <1>2

LEMMA BroadcastGameStateStep ==
    ASSUME InductiveInvariant, BroadcastGameState
    PROVE  InductiveInvariant'
  <1> USE DEF InductiveInvariant
  <1>0. /\ scene' = scene /\ up' = up
        /\ objects' = [p \in Players |-> [objects[p] EXCEPT !.dirty = FALSE]]
        /\ objects \in [Players -> Infos]
        /\ down \in Seq(Messages)
    BY DEF BroadcastGameState, TypeOK
  <1>1. PICK order \in Orders(Marked) :
          down' = down \o [i \in DOMAIN order |-> S_Move(order[i], objects[order[i]])]
    BY DEF BroadcastGameState
  <1> DEFINE news == [i \in DOMAIN order |-> S_Move(order[i], objects[order[i]])]
  <1>2. /\ order \in Seq(Marked) /\ Len(order) \in Nat /\ DOMAIN order = 1..Len(order)
        /\ \A p \in Marked : \E i \in DOMAIN order : order[i] = p
    BY <1>1, OrdersFacts, LenProperties
  <1>3. ASSUME NEW i \in DOMAIN order
        PROVE  /\ order[i] \in Marked /\ order[i] \in Players
               /\ news[i] \in Messages
               /\ \A p : Places(news[i], p) <=> p = order[i]
               /\ news[i].pos = objects[order[i]].pos
               /\ news[i].dir = objects[order[i]].dir
    <2>1. order[i] \in Marked /\ order[i] \in Players
      BY <1>2, <1>3 DEF Marked
    <2>2. objects[order[i]] \in Infos
      BY <1>0, <2>1
    <2>3. news[i] = S_Move(order[i], objects[order[i]])
      BY <1>3
    <2>4. news[i] \in Messages
      BY <2>1, <2>2, <2>3 DEF S_Move, Messages, Infos
    <2>5. /\ \A p : Places(news[i], p) <=> p = order[i]
          /\ news[i].pos = objects[order[i]].pos
          /\ news[i].dir = objects[order[i]].dir
      <3> HIDE DEF news
      <3> QED
        BY <2>3 DEF S_Move, Places
    <2> QED
      BY <2>1, <2>4, <2>5
  <1>4. news \in Seq(Messages) /\ Len(news) = Len(order)
    BY <1>2, <1>3
  <1> HIDE DEF news
  <1>5. /\ down' \in Seq(Messages) /\ Len(down) \in Nat
        /\ DOMAIN down = 1..Len(down)
        /\ DOMAIN down' = 1..Len(down) + Len(order)
        /\ \A i \in 1..Len(down) : down'[i] = down[i]
        /\ \A i \in 1..Len(order) : down'[Len(down) + i] = news[i]
    <2>1. down' = down \o news
      BY <1>1 DEF news
    <2>2. /\ Len(down') = Len(down) + Len(order) /\ Len(down) \in Nat
          /\ down' \in Seq(Messages) /\ DOMAIN down = 1..Len(down)
      <3>1. /\ Len(down \o news) = Len(down) + Len(news)
            /\ down \o news \in Seq(Messages)
        BY <1>0, <1>4, ConcatProperties
      <3>2. Len(down) \in Nat /\ DOMAIN down = 1..Len(down)
        BY <1>0, LenProperties
      <3> QED
        BY <1>4, <2>1, <3>1, <3>2
    <2>3. \A i \in 1..Len(down) + Len(order) :
            down'[i] = IF i <= Len(down) THEN down[i] ELSE news[i - Len(down)]
      BY <1>0, <1>4, <2>1, <2>2, ConcatProperties
    <2>4. DOMAIN down' = 1..Len(down) + Len(order)
      BY <2>2, LenProperties
    <2>5. ASSUME NEW i \in 1..Len(order)
          PROVE  down'[Len(down) + i] = news[i]
      <3>1. Len(down) + i \in 1..Len(down) + Len(order) /\ ~(Len(down) + i <= Len(down))
            /\ (Len(down) + i) - Len(down) = i
        BY <1>2, <2>2
      <3> QED
        BY <2>3, <3>1
    <2>6. ASSUME NEW i \in 1..Len(down)
          PROVE  down'[i] = down[i]
      <3>1. i \in 1..Len(down) + Len(order) /\ i <= Len(down)
        BY <1>2, <2>2
      <3> QED
        BY <2>3, <3>1
    <2> QED
      BY <2>2, <2>4, <2>5, <2>6
  \* The messages that are new: each is about a marked player, and right.
  <1>6. ASSUME NEW p \in Players, NEW i \in DOMAIN down', i > Len(down), Places(down'[i], p)
        PROVE  p \in Marked /\ down'[i].pos = objects[p].pos /\ down'[i].dir = objects[p].dir
    <2>1. i - Len(down) \in DOMAIN order /\ Len(down) + (i - Len(down)) = i
      BY <1>2, <1>5, <1>6
    <2>2. PICK k \in DOMAIN order : i = Len(down) + k
      BY <2>1
    <2>3. down'[i] = news[k]
      BY <1>2, <1>5, <2>2
    <2>4. order[k] = p
      BY <1>3, <1>6, <2>3
    <2> QED
      BY <1>3, <2>3, <2>4
  <1>7. ASSUME NEW p \in Marked
        PROVE  \E i \in DOMAIN down' : i > Len(down) /\ Places(down'[i], p)
    <2>1. PICK i \in DOMAIN order : order[i] = p
      BY <1>2
    <2>2. Len(down) + i \in DOMAIN down' /\ Len(down) + i > Len(down)
          /\ down'[Len(down) + i] = news[i]
      BY <1>2, <1>5
    <2>3. Places(news[i], p)
      BY <1>3, <2>1
    <2> QED
      BY <2>2, <2>3
  <1>8. \A p \in Players : SamePlace(p) /\ objects'[p].dirty = FALSE /\ objects'[p] \in Infos
    BY <1>0 DEF SamePlace, Infos
  <1>9. ASSUME NEW p \in Players, NEW i \in DOMAIN down', LastAbout(i, p)'
        PROVE  down'[i].pos = objects'[p].pos /\ down'[i].dir = objects'[p].dir
    <2>0. i \in DOMAIN down' /\ Places(down'[i], p)
          /\ \A j \in DOMAIN down' : j > i => ~Places(down'[j], p)
      BY <1>9 DEF LastAbout
    <2>1. CASE i > Len(down)
      BY <1>6, <1>8, <2>0, <2>1 DEF SamePlace
    <2>2. CASE ~(i > Len(down))
      <3>1. i \in DOMAIN down /\ down'[i] = down[i]
        BY <1>2, <1>5, <2>2
      <3>2. p \notin Marked
        <4>1. SUFFICES ASSUME p \in Marked PROVE FALSE
          OBVIOUS
        <4>2. PICK j \in DOMAIN down' : j > Len(down) /\ Places(down'[j], p)
          BY <1>7, <4>1
        <4>3. j > i
          BY <1>2, <1>5, <2>2, <4>2
        <4> QED
          BY <2>0, <4>2, <4>3
      <3>3. ASSUME NEW j \in DOMAIN down, j > i
            PROVE  ~Places(down[j], p)
        <4>1. j \in DOMAIN down' /\ down'[j] = down[j]
          BY <1>2, <1>5
        <4> QED
          BY <2>0, <3>3, <4>1
      <3>4. LastAbout(i, p) /\ ~objects[p].dirty
        BY <2>0, <3>1, <3>2, <3>3 DEF LastAbout, Marked
      <3> QED
        BY <1>8, <3>1, <3>4 DEF LastWord, SamePlace
    <2> QED
      BY <2>1, <2>2
  <1>10. ASSUME NEW p \in Players, Settled(p)'
         PROVE  Settled(p) /\ SamePlace(p)
    <2>1. \A i \in DOMAIN down' : ~Places(down'[i], p)
      BY <1>10 DEF Settled
    <2>2. ~objects[p].dirty
      BY <1>7, <2>1 DEF Marked
    <2>3. \A i \in DOMAIN down : i \in DOMAIN down' /\ down'[i] = down[i]
      BY <1>2, <1>5
    <2> QED
      BY <1>8, <2>1, <2>2, <2>3 DEF Settled
  <1>11. TypeOK'
    BY <1>0, <1>5, <1>8 DEF TypeOK
  <1>12. OthersAgree' /\ Foreseen'
    <2>1. DOMAIN scene' \subseteq DOMAIN scene /\ \A p \in DOMAIN scene' : SameActor(p)
      BY <1>0 DEF SameActor
    <2>2. StaySettled
      BY <1>10 DEF StaySettled
    <2> QED
      BY <1>0, <2>1, <2>2, Persists
  <1> QED
    BY <1>9, <1>11, <1>12 DEF LastWord

-----------------------------------------------------------------------------
(* The steps of the client *)

\* Nothing has changed at the server or on the way from it.
LEMMA ServerRests ==
    ASSUME LastWord, objects' = objects, down' = down
    PROVE  LastWord' /\ StaySettled
  <1>1. \A i, p : LastAbout(i, p)' => LastAbout(i, p)
    BY DEF LastAbout
  <1>2. ASSUME NEW p \in Players, NEW i \in DOMAIN down',
               ~objects'[p].dirty, LastAbout(i, p)'
        PROVE  down'[i].pos = objects'[p].pos /\ down'[i].dir = objects'[p].dir
    BY <1>1, <1>2 DEF LastWord
  <1>3. ASSUME NEW p \in Players, Settled(p)'
        PROVE  Settled(p) /\ SamePlace(p)
    BY <1>3 DEF Settled, SamePlace
  <1> QED
    BY <1>2, <1>3 DEF LastWord, StaySettled

\* A request is sent after those under way.
LEMMA SendFacts ==
    ASSUME TypeOK, NEW request \in Requests, up' = Append(up, request), Len(up) < MaxUp
    PROVE  /\ up' \in Seq(Requests) /\ Len(up') <= MaxUp
           /\ \A i \in DOMAIN up : i \in DOMAIN up' /\ up'[i] = up[i]
           /\ \E j \in DOMAIN up' : up'[j] = request
  <1>0. up \in Seq(Requests) /\ Len(up) \in Nat /\ DOMAIN up = 1..Len(up)
    BY LenProperties DEF TypeOK
  <1>1. /\ up' \in Seq(Requests) /\ Len(up') = Len(up) + 1
        /\ \A i \in 1..Len(up) : up'[i] = up[i]
        /\ up'[Len(up) + 1] = request
    BY <1>0, AppendProperties
  <1>2. DOMAIN up' = 1..Len(up) + 1
    BY <1>0, <1>1, LenProperties
  <1> QED
    BY <1>0, <1>1, <1>2, NumbersAssumption

LEMMA TryMoveStep ==
    ASSUME InductiveInvariant, NEW dir \in Dirs, TryMove(dir)
    PROVE  InductiveInvariant'
  <1> USE DEF InductiveInvariant
  <1> DEFINE turned == [scene[Me] EXCEPT !.dir = dir]
             front == Ahead(scene[Me].pos, dir)
  <1>0. /\ Me \in Players /\ Me \in DOMAIN scene /\ DOMAIN scene \subseteq Players
        /\ scene \in [DOMAIN scene -> Actors] /\ scene[Me] \in Actors
        /\ Len(up) < MaxUp
    BY PlayersAssumption DEF TypeOK, TryMove, Ready
  <1>1. turned \in Actors /\ turned.pos = scene[Me].pos /\ turned.dir = dir
    BY <1>0 DEF Actors
  <1>2. GetFrontCellPos(turned) = front
    BY <1>1 DEF GetFrontCellPos
  <1>3. PICK after \in Actors :
           /\ scene' = [scene EXCEPT ![Me] = after]
           /\ after.dir = dir
           /\ after.pos = scene[Me].pos \/ (after.pos = front /\ front \in Cells)
    <2> HIDE DEF turned
    <2>1. scene' = [scene EXCEPT ![Me] = StartMove(turned, front)]
      BY <1>2 DEF TryMove, turned
    <2>2. CASE CanGo(scene, front)
      <3>1. front \in Cells \ Walls
        BY <2>2 DEF CanGo
      <3>2. StartMove(turned, front) = [turned EXCEPT !.pos = front, !.state = "move"]
        BY <2>2 DEF StartMove
      <3> QED
        BY <1>1, <2>1, <3>1, <3>2 DEF Actors, States
    <2>3. CASE ~CanGo(scene, front)
      BY <1>1, <2>1, <2>3 DEF StartMove
    <2> QED
      BY <2>2, <2>3
  <1> HIDE DEF turned
  <1>4. objects' = objects /\ down' = down /\ up' = Append(up, C_Move(dir))
        /\ C_Move(dir) \in Requests
    BY DEF TryMove, Requests
  <1>5. /\ up' \in Seq(Requests) /\ Len(up') <= MaxUp
        /\ \A i \in DOMAIN up : i \in DOMAIN up' /\ up'[i] = up[i]
        /\ \E j \in DOMAIN up' : up'[j] = C_Move(dir)
    BY <1>0, <1>4, SendFacts
  <1>6. LastWord' /\ StaySettled
    BY <1>4, ServerRests
  <1>7. DOMAIN scene' = DOMAIN scene /\ scene' \in [DOMAIN scene' -> Actors]
        /\ scene'[Me] = after /\ \A p \in DOMAIN scene \ {Me} : scene'[p] = scene[p]
    BY <1>0, <1>3
  <1>8. TypeOK'
    BY <1>0, <1>4, <1>5, <1>7 DEF TypeOK
  <1>9. OthersAgree'
    <2>1. ASSUME NEW p \in DOMAIN scene' \ {Me}, Settled(p)'
          PROVE  scene'[p].pos = objects'[p].pos /\ scene'[p].dir = objects'[p].dir
      <3>1. Settled(p) /\ p \in DOMAIN scene \ {Me}
        BY <1>0, <1>6, <1>7, <2>1 DEF StaySettled
      <3> QED
        BY <1>4, <1>7, <3>1 DEF OthersAgree
    <2> QED
      BY <2>1 DEF OthersAgree
  <1>10. ASSUME Settled(Me)'
         PROVE  \/ \E i \in DOMAIN up' : Disturbs(up'[i], objects'[Me])
                \/ scene'[Me].pos = objects'[Me].pos
                \/ RunAhead'
    <2>1. Settled(Me)
      BY <1>0, <1>6, <1>10 DEF StaySettled
    <2>2. CASE \E i \in DOMAIN up : Disturbs(up[i], objects[Me])
      BY <1>4, <1>5, <2>2
    <2>3. CASE Disturbs(C_Move(dir), objects[Me])
      BY <1>4, <1>5, <2>3
    <2>4. CASE /\ ~Disturbs(C_Move(dir), objects[Me])
               /\ scene[Me].pos = objects[Me].pos \/ RunAhead
      <3>1. objects[Me].dir = dir /\ objects[Me].state = "idle"
        BY <2>4 DEF Disturbs, C_Move
      <3>2. objects[Me].pos \in Cells
        BY <1>0 DEF TypeOK, Infos
      <3>3. scene[Me].pos \in Ray(objects[Me].pos, dir)
        BY <2>4, <3>1, <3>2, RayFacts DEF RunAhead
      <3>4. after.pos \in Ray(objects[Me].pos, dir)
        BY <1>3, <3>2, <3>3, RayFacts
      <3> QED
        BY <1>3, <1>4, <1>7, <3>1, <3>4 DEF RunAhead
    <2> QED
      BY <1>0, <2>1, <2>2, <2>3, <2>4 DEF Foreseen
  <1>11. Foreseen'
    BY <1>10 DEF Foreseen
  <1> QED
    BY <1>6, <1>8, <1>9, <1>11

LEMMA TryStopStep ==
    ASSUME InductiveInvariant, TryStop
    PROVE  InductiveInvariant'
  <1> USE DEF InductiveInvariant
  <1>0. /\ Me \in DOMAIN scene /\ DOMAIN scene \subseteq Players /\ Len(up) < MaxUp
        /\ scene \in [DOMAIN scene -> Actors] /\ scene[Me] \in Actors
        /\ objects' = objects /\ down' = down
        /\ up' = Append(up, C_Stop) /\ C_Stop \in Requests
    BY DEF TypeOK, TryStop, Ready, Requests
  <1>1. scene' = [scene EXCEPT ![Me].state = "idle"]
    BY DEF TryStop
  <1>2. /\ DOMAIN scene' = DOMAIN scene /\ scene' \in [DOMAIN scene' -> Actors]
        /\ \A p \in DOMAIN scene' : SameActor(p)
    BY <1>0, <1>1 DEF Actors, States, SameActor
  <1>3. /\ up' \in Seq(Requests) /\ Len(up') <= MaxUp
        /\ \A i \in DOMAIN up : i \in DOMAIN up' /\ up'[i] = up[i]
    BY <1>0, SendFacts
  <1>4. LastWord' /\ StaySettled
    BY <1>0, ServerRests
  <1>5. TypeOK'
    BY <1>0, <1>2, <1>3 DEF TypeOK
  <1>6. OthersAgree' /\ Foreseen'
    BY <1>2, <1>3, <1>4, Persists
  <1> QED
    BY <1>4, <1>5, <1>6

LEMMA TryAttackStep ==
    ASSUME InductiveInvariant, TryAttack
    PROVE  InductiveInvariant'
  <1> USE DEF InductiveInvariant
  <1>0. /\ DOMAIN scene \subseteq Players /\ Len(up) < MaxUp
        /\ objects' = objects /\ down' = down /\ scene' = scene
    BY DEF TypeOK, TryAttack, Ready
  <1>1. PICK target \in Players \cup {Nobody} : up' = Append(up, C_Attack(target))
    BY <1>0 DEF TryAttack
  <1>2. C_Attack(target) \in Requests
    BY DEF Requests
  <1>3. /\ up' \in Seq(Requests) /\ Len(up') <= MaxUp
        /\ \A i \in DOMAIN up : i \in DOMAIN up' /\ up'[i] = up[i]
    BY <1>0, <1>1, <1>2, SendFacts
  <1>4. LastWord' /\ StaySettled
    BY <1>0, ServerRests
  <1>5. TypeOK'
    BY <1>0, <1>3 DEF TypeOK
  <1>6. OthersAgree' /\ Foreseen'
    BY <1>0, <1>3, <1>4, Persists DEF SameActor
  <1> QED
    BY <1>4, <1>5, <1>6

LEMMA HandleSMoveStep ==
    ASSUME InductiveInvariant, Handle_S_Move
    PROVE  InductiveInvariant'
  <1> USE DEF InductiveInvariant
  <1> DEFINE msg == Head(down)
  <1>0. /\ down # <<>> /\ msg.id = "S_Move" /\ down' = Tail(down)
        /\ objects' = objects /\ up' = up
        /\ DOMAIN scene \subseteq Players /\ scene \in [DOMAIN scene -> Actors]
        /\ Me \in Players
    BY PlayersAssumption DEF Handle_S_Move, TypeOK
  <1>1. /\ msg \in Messages /\ down' \in Seq(Messages)
        /\ LastWord'
        /\ \A p \in Players : Settled(p)' =>
              \/ Settled(p) /\ ~Places(msg, p)
              \/ /\ Places(msg, p)
                 /\ msg.pos = objects[p].pos
                 /\ msg.dir = objects[p].dir
    BY <1>0, TailFacts
  <1>2. /\ msg.player \in Players /\ msg.pos \in Cells \ Walls /\ msg.dir \in Dirs
        /\ msg.state \in States
    BY <1>0, <1>1 DEF Messages
  <1>3. scene' = IF msg.player \in DOMAIN scene
                 THEN [scene EXCEPT ![msg.player] = Placed(@, msg)] ELSE scene
    BY DEF Handle_S_Move
  <1> HIDE DEF msg
  <1>4. \A p \in DOMAIN scene : /\ Placed(scene[p], msg) \in Actors
                                /\ Placed(scene[p], msg).pos = msg.pos
                                /\ Placed(scene[p], msg).dir = msg.dir
    BY <1>0, <1>2 DEF Placed, Actors
  <1>5. /\ DOMAIN scene' = DOMAIN scene /\ scene' \in [DOMAIN scene' -> Actors]
        /\ \A p \in DOMAIN scene : p # msg.player => scene'[p] = scene[p]
        /\ \A p \in DOMAIN scene : p = msg.player => /\ scene'[p].pos = msg.pos
                                                     /\ scene'[p].dir = msg.dir
    BY <1>0, <1>3, <1>4
  <1>6. TypeOK'
    BY <1>0, <1>1, <1>5 DEF TypeOK
  <1>7. ASSUME NEW p \in DOMAIN scene', Settled(p)'
        PROVE  \/ Settled(p) /\ scene'[p] = scene[p]
               \/ scene'[p].pos = objects'[p].pos /\ scene'[p].dir = objects'[p].dir
    BY <1>0, <1>1, <1>5, <1>7 DEF Places
  <1>8. OthersAgree'
    <2>1. ASSUME NEW p \in DOMAIN scene' \ {Me}, Settled(p)'
          PROVE  scene'[p].pos = objects'[p].pos /\ scene'[p].dir = objects'[p].dir
      BY <1>0, <1>5, <1>7, <2>1 DEF OthersAgree
    <2> QED
      BY <2>1 DEF OthersAgree
  <1>9. ASSUME Me \in DOMAIN scene', Settled(Me)'
        PROVE  \/ \E i \in DOMAIN up' : Disturbs(up'[i], objects'[Me])
               \/ scene'[Me].pos = objects'[Me].pos
               \/ RunAhead'
    <2>1. CASE scene'[Me].pos = objects'[Me].pos
      BY <2>1
    <2>2. CASE Settled(Me) /\ scene'[Me] = scene[Me]
      <3>1. CASE RunAhead
        BY <1>0, <2>2, <3>1 DEF RunAhead
      <3>2. CASE scene[Me].pos = objects[Me].pos
        BY <1>0, <2>2, <3>2
      <3>3. CASE \E i \in DOMAIN up : Disturbs(up[i], objects[Me])
        BY <1>0, <3>3
      <3> QED
        BY <1>5, <1>9, <2>2, <3>1, <3>2, <3>3 DEF Foreseen
    <2> QED
      BY <1>7, <1>9, <2>1, <2>2
  <1>10. Foreseen'
    BY <1>9 DEF Foreseen
  <1> QED
    BY <1>1, <1>6, <1>8, <1>10

LEMMA HandleSAttackStep ==
    ASSUME InductiveInvariant, Handle_S_Attack
    PROVE  InductiveInvariant'
  <1> USE DEF InductiveInvariant
  <1> DEFINE msg == Head(down)
  <1>0. /\ down # <<>> /\ msg.id = "S_Attack" /\ down' = Tail(down)
        /\ objects' = objects /\ up' = up
        /\ DOMAIN scene \subseteq Players /\ scene \in [DOMAIN scene -> Actors]
    BY DEF Handle_S_Attack, TypeOK
  <1>1. /\ down' \in Seq(Messages)
        /\ LastWord'
        /\ \A p \in Players : Settled(p)' => Settled(p) \/ Places(msg, p)
    BY <1>0, TailFacts
  <1>2. StaySettled
    BY <1>0, <1>1 DEF Places, StaySettled, SamePlace
  <1>3. scene' = IF msg.player \in DOMAIN scene
                 THEN [scene EXCEPT ![msg.player].state = "skill"] ELSE scene
    BY DEF Handle_S_Attack
  <1>4. /\ DOMAIN scene' = DOMAIN scene /\ scene' \in [DOMAIN scene' -> Actors]
        /\ \A p \in DOMAIN scene' : SameActor(p)
    BY <1>0, <1>3 DEF Actors, States, SameActor
  <1>5. TypeOK'
    BY <1>0, <1>1, <1>4 DEF TypeOK
  <1>6. OthersAgree' /\ Foreseen'
    BY <1>0, <1>2, <1>4, Persists
  <1> QED
    BY <1>1, <1>5, <1>6

LEMMA TickSkillStep ==
    ASSUME InductiveInvariant, NEW p \in Players, TickSkill(p)
    PROVE  InductiveInvariant'
  <1> USE DEF InductiveInvariant
  <1> DEFINE rested == [scene EXCEPT ![p].state = "idle"]
  <1>0. /\ objects' = objects /\ up' = up /\ down' = down /\ p \in DOMAIN scene
        /\ DOMAIN scene \subseteq Players /\ scene \in [DOMAIN scene -> Actors]
    BY DEF TickSkill, TypeOK
  <1>1. /\ rested \in [DOMAIN scene -> Actors]
        /\ \A q \in DOMAIN scene : rested[q].pos = scene[q].pos /\ rested[q].dir = scene[q].dir
    BY <1>0 DEF Actors, States
  <1>2. scene' = rested \/ \E victim \in DOMAIN scene : scene' = OnDamaged(rested, victim)
    BY DEF TickSkill
  <1> HIDE DEF rested
  <1>3. /\ DOMAIN scene' \subseteq DOMAIN scene /\ scene' \in [DOMAIN scene' -> Actors]
        /\ \A q \in DOMAIN scene' : SameActor(q)
    <2>1. CASE scene' = rested
      BY <1>1, <2>1 DEF SameActor
    <2>2. ASSUME NEW victim \in DOMAIN scene, scene' = OnDamaged(rested, victim)
          PROVE  /\ DOMAIN scene' \subseteq DOMAIN scene
                 /\ scene' \in [DOMAIN scene' -> Actors]
                 /\ \A q \in DOMAIN scene' : SameActor(q)
      <3>1. CASE rested[victim].hp > 1
        <4>1. rested[victim].hp - 1 \in 1..SwingsToRemove
          BY <1>1, <3>1, NumbersAssumption DEF Actors
        <4>2. scene' = [rested EXCEPT ![victim].hp = @ - 1]
          BY <2>2, <3>1 DEF OnDamaged
        <4> QED
          BY <1>1, <4>1, <4>2 DEF Actors, SameActor
      <3>2. CASE ~(rested[victim].hp > 1)
        BY <1>1, <2>2, <3>2 DEF OnDamaged, SameActor
      <3> QED
        BY <3>1, <3>2
    <2> QED
      BY <1>2, <2>1, <2>2
  <1>4. LastWord' /\ StaySettled
    BY <1>0, ServerRests
  <1>5. TypeOK'
    BY <1>0, <1>3 DEF TypeOK
  <1>6. OthersAgree' /\ Foreseen'
    BY <1>0, <1>3, <1>4, Persists
  <1> QED
    BY <1>4, <1>5, <1>6

-----------------------------------------------------------------------------

LEMMA InitInvariant == Init => InductiveInvariant
  <1> SUFFICES ASSUME Init PROVE InductiveInvariant
    OBVIOUS
  <1>0. HitsToKill \in 1..HitsToKill /\ SwingsToRemove \in 1..SwingsToRemove /\ 0 <= MaxUp
    BY NumbersAssumption
  <1>1. /\ DOMAIN scene = Players /\ up = <<>> /\ down = <<>>
        /\ \A p \in Players : /\ scene[p].pos = Start[p] /\ objects[p].pos = Start[p]
                               /\ scene[p].dir = objects[p].dir
    BY DEF Init
  <1>2. objects \in [Players -> Infos] /\ scene \in [DOMAIN scene -> Actors]
    BY <1>0, MapAssumption DEF Init, Infos, Actors, Dirs, States
  <1>3. TypeOK
    BY <1>0, <1>1, <1>2 DEF TypeOK
  <1>4. LastWord
    BY <1>1 DEF LastWord
  <1>5. OthersAgree
    BY <1>1 DEF OthersAgree
  <1>6. Foreseen
    BY <1>1, PlayersAssumption DEF Foreseen
  <1> QED
    BY <1>3, <1>4, <1>5, <1>6 DEF InductiveInvariant

LEMMA NextInvariant == InductiveInvariant /\ [Next]_vars => InductiveInvariant'
  <1> SUFFICES ASSUME InductiveInvariant, [Next]_vars PROVE InductiveInvariant'
    OBVIOUS
  <1>1. ASSUME NEW dir \in Dirs, TryMove(dir) PROVE InductiveInvariant'
    BY <1>1, TryMoveStep
  <1>2. CASE TryStop
    BY <1>2, TryStopStep
  <1>3. CASE TryAttack
    BY <1>3, TryAttackStep
  <1>4. CASE HandleMine
    BY <1>4, HandleMineStep
  <1>5. CASE HandleOther
    BY <1>5, HandleOtherStep
  <1>6. CASE BroadcastGameState
    BY <1>6, BroadcastGameStateStep
  <1>7. CASE Handle_S_Move
    BY <1>7, HandleSMoveStep
  <1>8. CASE Handle_S_Attack
    BY <1>8, HandleSAttackStep
  <1>9. ASSUME NEW p \in Players, TickSkill(p) PROVE InductiveInvariant'
    BY <1>9, TickSkillStep
  <1>10. CASE UNCHANGED vars
    <2>1. objects' = objects /\ scene' = scene /\ up' = up /\ down' = down
      BY <1>10 DEF vars
    <2>2. LastWord' /\ StaySettled
      BY <2>1, ServerRests DEF InductiveInvariant
    <2>3. TypeOK'
      BY <2>1 DEF InductiveInvariant, TypeOK
    <2>4. OthersAgree' /\ Foreseen'
      BY <2>1, <2>2, Persists DEF SameActor
    <2> QED
      BY <2>2, <2>3, <2>4 DEF InductiveInvariant
  <1> QED
    BY <1>1, <1>2, <1>3, <1>4, <1>5, <1>6, <1>7, <1>8, <1>9, <1>10 DEF Next

\* The states of server and client keep their shape, no request exceeds the
\* bound, and nobody is ever in a wall, not even where the client runs ahead.
THEOREM TypeCorrect == Spec => []TypeOK
  <1>1. InductiveInvariant => TypeOK
    BY DEF InductiveInvariant
  <1> QED
    BY <1>1, InitInvariant, NextInvariant, PTL DEF Spec

\* MyPlayer::TryMove and Handle_S_Move: once everything has been delivered the
\* own player is where the server has it, or further in the direction the
\* server has it look in.
THEOREM WrongOnlyByRunningAhead == Spec => []OnlyRunsAhead
  <1>1. InductiveInvariant => OnlyRunsAhead
    BY DEF InductiveInvariant, Foreseen, OnlyRunsAhead
  <1> QED
    BY <1>1, InitInvariant, NextInvariant, PTL DEF Spec

\* BroadcastGameState and Handle_S_Move: an actor of another player is wrong
\* only as long as a message about it is due.
THEOREM OthersShown == Spec => []OthersAgree
  <1>1. InductiveInvariant => OthersAgree
    BY DEF InductiveInvariant
  <1> QED
    BY <1>1, InitInvariant, NextInvariant, PTL DEF Spec
=============================================================================
