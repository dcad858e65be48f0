------------------------ MODULE SessionLifecycle_proofs ------------------------
(***************************************************************************)
(* Proofs about the life of sessions, for any number of threads, accept    *)
(* events and sessions.                                                    *)
(*                                                                         *)
(* The calls of a thread are counted from the outermost: so the place of a *)
(* call stays what it is while calls come and go above it.                 *)
(***************************************************************************)
EXTENDS SessionLifecycle, SequenceTheorems, FiniteSetTheorems, TLAPS

Positions == {p \in Threads \X Nat : p[2] \in 1..Len(stack[p[1]])}
frames == [p \in Positions |-> stack[p[1]][Len(stack[p[1]]) + 1 - p[2]]]

Place(t, d) == <<t, d>>
Innermost(t) == Place(t, Len(stack[t]))
Below(p) == Place(p[1], p[2] - 1)

\* Calls that are at work on the send event, on the receive event, and on
\* taking a session out of the registries; and those of a session that
\* nobody else has heard of.
SendWork == {"register", "own", "submit", "forget", "clear"}
RecvWork == {"connect", "list", "manage", "greet", "tell", "enter",
             "announce", "receive", "post", "handle", "again"}
LeaveWork == {"unmanage", "leave", "farewell", "unlist"}
Early == {"connect", "list", "manage"}

\* Calls that rely on the reference of the one that made them.
Supported == Disconnecting \cup {"post"}
Supporting == {"return", "accept", "forget"}

Works(p, places, s) == frames[p].at \in places /\ frames[p].session = s

\* At most one call works on the same thing of the same session.
OnlyOne(places) ==
    \A s \in Sessions : \A p, q \in Positions :
        Works(p, places, s) /\ Works(q, places, s) => p = q

Shapes ==
    /\ offered \in [Accepts -> Sessions \cup {NoSession}]
    /\ listening \subseteq Accepts
    /\ fresh \subseteq Sessions /\ connected \subseteq Sessions
    /\ service \subseteq Sessions /\ manager \subseteq Sessions
    /\ room \subseteq Sessions /\ receiving \subseteq Sessions
    /\ leaving \subseteq Sessions
    /\ send \in [Sessions -> SendStates]
    /\ stack \in [Threads -> Seq(Frames)]

\* Only the main loop's call is about no session, and that of a lost thread.
Named == \A p \in Positions :
    frames[p].session = NoSession <=> frames[p].at \in {"update", "lost"}

\* A call agrees with the state of the send event.
Fits(c, v) ==
    /\ c.at \in {"submit", "forget"} => v = "held"
    /\ c.at \in {"register", "own", "clear"} => v = "taken"

Sends ==
    /\ \A p \in Positions : Fits(frames[p], send[frames[p].session])
    /\ OnlyOne(SendWork)

Receives ==
    /\ \A p \in Positions :
          frames[p].at \in RecvWork => frames[p].session \notin receiving
    /\ OnlyOne(RecvWork)

Leaves ==
    /\ \A p \in Positions : frames[p].at \in LeaveWork =>
          /\ frames[p].session \in service \ connected
          /\ frames[p].session \in manager <=> frames[p].at = "unmanage"
    /\ OnlyOne(LeaveWork)

\* Nothing has begun with the session but its connection.
Blank(s) ==
    /\ s \notin manager \cup room \cup receiving \cup leaving
    /\ send[s] = "free"
    /\ \A p \in Positions : s \notin frames[p].todo

Unborn(s) == s \in fresh \/ \E e \in listening : offered[e] = s

Births ==
    \A s \in Sessions : Unborn(s) =>
        /\ Blank(s) /\ s \notin connected \cup service
        /\ \A p \in Positions : frames[p].session # s

Starts ==
    \A s \in Sessions : \A p \in Positions : Works(p, Early, s) =>
        /\ Blank(s)
        /\ \A q \in Positions : frames[q].session = s => q = p
        /\ s \in connected <=> frames[p].at # "connect"
        /\ s \in service <=> frames[p].at = "manage"

Registers ==
    \A s \in Sessions :
        /\ s \in connected =>
              \/ s \in service \cap manager
              \/ \E p \in Positions : Works(p, Early, s)
        /\ s \notin connected =>
              \/ s \notin service \cup manager
              \/ \E p \in Positions : Works(p, LeaveWork, s)

Offers ==
    /\ \A d, e \in Accepts : offered[d] = offered[e] /\ offered[d] # NoSession => d = e
    /\ \A e \in Accepts : offered[e] \notin fresh
    /\ \A e \in listening : offered[e] # NoSession
    /\ \A e \in Accepts :
          \/ e \in listening \/ offered[e] = NoSession
          \/ \E p \in Positions : p[2] = 1 /\ Works(p, Connecting, offered[e])
    /\ OnlyOne(Connecting)

\* A call of Disconnect, or of WSARecv, was made by one that keeps the
\* session alive.
Supports ==
    \A s \in Sessions : \A p \in Positions : Works(p, Supported, s) =>
        Below(p) \in Positions /\ Works(Below(p), Supporting, s)

InductiveInvariant ==
    /\ Shapes /\ Named /\ Sends /\ Receives /\ Leaves /\ Births /\ Starts
    /\ Registers /\ Offers /\ Supports

-----------------------------------------------------------------------------
(* Calls and their places *)

LEMMA InnermostIsTop ==
    ASSUME Shapes, NEW t \in Threads, Busy(t)
    PROVE  /\ Innermost(t) \in Positions /\ frames[Innermost(t)] = Top(t)
           /\ \A p \in Positions : Below(p) # Innermost(t)
           /\ Top(t) \in Frames
  BY DEF Shapes, Busy, Top, Innermost, Positions, frames, Place, Below

LEMMA FramesAreFrames ==
    ASSUME Shapes
    PROVE  \A p \in Positions : frames[p] \in Frames
  BY DEF Shapes, Positions, frames

\* The calls a thread keeps.
Keeps(t, kept) ==
    /\ kept \in Seq(Frames)
    /\ stack[t] = kept \/ (stack[t] # <<>> /\ kept = Tail(stack[t]))

\* What a thread's new calls are, above the calls it keeps.
CallsPlaced(t, calls, kept) ==
    /\ stack' \in [Threads -> Seq(Frames)]
    /\ \A d \in 1..Len(kept) :
          /\ Place(t, d) \in Positions /\ Place(t, d) \in Positions'
          /\ frames'[Place(t, d)] = frames[Place(t, d)]
    /\ \A p \in Positions : p[1] # t => p \in Positions' /\ frames'[p] = frames[p]
    /\ \A p \in Positions' : \/ p[1] # t /\ p \in Positions
                             \/ \E d \in 1..(Len(kept) + Len(calls)) : p = Place(t, d)
    /\ \A j \in 1..Len(calls) :
          /\ Place(t, Len(kept) + j) \in Positions'
          /\ frames'[Place(t, Len(kept) + j)] = calls[Len(calls) + 1 - j]

LEMMA NewCalls ==
    ASSUME Shapes, NEW t \in Threads, NEW kept, Keeps(t, kept),
           NEW calls \in Seq(Frames),
           stack' = [stack EXCEPT ![t] = calls \o kept]
    PROVE  CallsPlaced(t, calls, kept)
<1>0. /\ kept \in Seq(Frames)
      /\ stack[t] = kept \/ (stack[t] # <<>> /\ kept = Tail(stack[t]))
  BY DEF Keeps
<1>1. stack \in [Threads -> Seq(Frames)]
  BY DEF Shapes
<1>2. stack' \in [Threads -> Seq(Frames)] /\ stack'[t] = calls \o kept
  BY <1>0, <1>1
<1>3. \A u \in Threads : u # t => stack'[u] = stack[u]
  BY <1>1
<1>4. /\ Len(stack'[t]) = Len(kept) + Len(calls)
      /\ Len(kept) \in Nat /\ Len(calls) \in Nat
  BY <1>0, <1>2
<1>5. ASSUME NEW d \in 1..Len(kept)
      PROVE  /\ Place(t, d) \in Positions /\ Place(t, d) \in Positions'
             /\ frames'[Place(t, d)] = frames[Place(t, d)]
  <2>1. stack[t] \in Seq(Frames) /\ d \in Nat /\ d <= Len(kept)
    BY <1>1, <1>4
  <2>2. /\ Len(kept) <= Len(stack[t])
        /\ stack[t][Len(stack[t]) + 1 - d] = kept[Len(kept) + 1 - d]
    <3>1. CASE stack[t] = kept
      BY <3>1, <2>1, <1>0
    <3>2. CASE stack[t] # <<>> /\ kept = Tail(stack[t])
      <4>1. Len(kept) = Len(stack[t]) - 1
        BY <3>2, <2>1
      <4>2. kept[Len(kept) + 1 - d] = stack[t][(Len(kept) + 1 - d) + 1]
        BY <3>2, <4>1, <2>1, <1>4
      <4> QED
        BY <4>1, <4>2, <2>1
    <3> QED
      BY <1>0, <3>1, <3>2
  <2>3. stack'[t][Len(stack'[t]) + 1 - d] = kept[Len(kept) + 1 - d]
    BY <1>0, <1>2, <1>4
  <2>4. Place(t, d) \in Positions /\ Place(t, d) \in Positions'
    BY <2>1, <2>2, <1>4 DEF Positions, Place
  <2>5. /\ frames[Place(t, d)] = stack[t][Len(stack[t]) + 1 - d]
        /\ frames'[Place(t, d)] = stack'[t][Len(stack'[t]) + 1 - d]
    BY <2>4 DEF frames, Place
  <2> QED
    BY <2>2, <2>3, <2>4, <2>5
<1>6. ASSUME NEW p \in Positions, p[1] # t
      PROVE  p \in Positions' /\ frames'[p] = frames[p]
  BY <1>3, <1>6 DEF Positions, frames
<1>7. ASSUME NEW p \in Positions'
      PROVE  \/ p[1] # t /\ p \in Positions
             \/ \E d \in 1..(Len(kept) + Len(calls)) : p = Place(t, d)
  BY <1>3, <1>4 DEF Positions, Place
<1>8. ASSUME NEW j \in 1..Len(calls)
      PROVE  /\ Place(t, Len(kept) + j) \in Positions'
             /\ frames'[Place(t, Len(kept) + j)] = calls[Len(calls) + 1 - j]
  <2>1. stack'[t][Len(stack'[t]) + 1 - (Len(kept) + j)] = calls[Len(calls) + 1 - j]
    BY <1>0, <1>2, <1>4
  <2> QED
    BY <2>1, <1>4, SMTT(30) DEF Positions, Place, frames
<1> QED
  BY <1>2, <1>4, <1>5, <1>6, <1>7, <1>8 DEF CallsPlaced

\* The innermost call returns.
LEMMA OneCallLess ==
    ASSUME Shapes, NEW t \in Threads, Busy(t), Return(t)
    PROVE  /\ stack' \in [Threads -> Seq(Frames)]
           /\ Positions' = Positions \ {Innermost(t)}
           /\ \A p \in Positions' : frames'[p] = frames[p]
<1> DEFINE kept == Tail(stack[t])
<1>1. stack[t] \in Seq(Frames) /\ stack[t] # <<>>
  BY DEF Shapes, Busy
<1>2. kept \in Seq(Frames) /\ Len(kept) = Len(stack[t]) - 1 /\ Len(stack[t]) \in Nat
  BY <1>1
<1>3. stack' = [stack EXCEPT ![t] = <<>> \o kept] /\ <<>> \in Seq(Frames)
  BY DEF Return, Become
<1> HIDE DEF kept
<1>4. /\ stack' \in [Threads -> Seq(Frames)]
      /\ \A d \in 1..Len(kept) :
            /\ Place(t, d) \in Positions /\ Place(t, d) \in Positions'
            /\ frames'[Place(t, d)] = frames[Place(t, d)]
      /\ \A p \in Positions : p[1] # t => p \in Positions' /\ frames'[p] = frames[p]
      /\ \A p \in Positions' : \/ p[1] # t /\ p \in Positions
                               \/ \E d \in 1..Len(kept) : p = Place(t, d)
  <2> DEFINE new == <<>>
  <2>1. Len(kept) + Len(new) = Len(kept)
    BY <1>2
  <2>2. Keeps(t, kept)
    BY <1>1, <1>2 DEF kept, Keeps
  <2>3. new \in Seq(Frames) /\ stack' = [stack EXCEPT ![t] = new \o kept]
    BY <1>3
  <2> HIDE DEF new
  <2>4. CallsPlaced(t, new, kept)
    BY <2>2, <2>3, NewCalls
  <2> QED
    BY <2>1, <2>4 DEF CallsPlaced
<1>5. \A p \in Positions : p[1] = t => \E d \in 1..Len(stack[t]) : p = Place(t, d)
  BY DEF Positions, Place
<1>6. \A d \in 1..Len(kept) : Place(t, d) # Innermost(t)
  BY <1>2 DEF Place, Innermost
<1>7. \A d \in 1..Len(stack[t]) : d \in 1..Len(kept) \/ Place(t, d) = Innermost(t)
  BY <1>2 DEF Innermost
<1>8. Innermost(t)[1] = t
  BY DEF Innermost, Place
<1> QED
  BY <1>4, <1>5, <1>6, <1>7, <1>8

\* The innermost call becomes z.
LEMMA OneCall ==
    ASSUME Shapes, NEW t \in Threads, Busy(t), NEW z \in Frames, Become(t, <<z>>)
    PROVE  /\ stack' \in [Threads -> Seq(Frames)]
           /\ Positions' = Positions
           /\ frames'[Innermost(t)] = z
           /\ \A p \in Positions : p # Innermost(t) => frames'[p] = frames[p]
<1> DEFINE kept == Tail(stack[t])
<1>1. stack[t] \in Seq(Frames) /\ stack[t] # <<>>
  BY DEF Shapes, Busy
<1>2. /\ kept \in Seq(Frames) /\ Len(kept) = Len(stack[t]) - 1 /\ Len(stack[t]) \in Nat
      /\ Len(stack[t]) > 0
  BY <1>1
<1>3. stack' = [stack EXCEPT ![t] = <<z>> \o kept] /\ <<z>> \in Seq(Frames)
  BY DEF Become
<1> HIDE DEF kept
<1>4. /\ stack' \in [Threads -> Seq(Frames)]
      /\ \A d \in 1..Len(kept) :
            /\ Place(t, d) \in Positions /\ Place(t, d) \in Positions'
            /\ frames'[Place(t, d)] = frames[Place(t, d)]
      /\ \A p \in Positions : p[1] # t => p \in Positions' /\ frames'[p] = frames[p]
      /\ \A p \in Positions' : \/ p[1] # t /\ p \in Positions
                               \/ \E d \in 1..Len(stack[t]) : p = Place(t, d)
      /\ Innermost(t) \in Positions' /\ frames'[Innermost(t)] = z
  <2> DEFINE new == <<z>>
  <2>1. /\ Len(kept) + Len(new) = Len(stack[t]) /\ Len(kept) + 1 = Len(stack[t])
        /\ 1 \in 1..Len(new) /\ new[Len(new) + 1 - 1] = z
    BY <1>2
  <2>2. Keeps(t, kept)
    BY <1>1, <1>2 DEF kept, Keeps
  <2>3. new \in Seq(Frames) /\ stack' = [stack EXCEPT ![t] = new \o kept]
    BY <1>3
  <2> HIDE DEF new
  <2>4. CallsPlaced(t, new, kept)
    BY <2>2, <2>3, NewCalls
  <2> QED
    BY <2>1, <2>4 DEF CallsPlaced, Innermost
<1>5. \A p \in Positions : p[1] = t => \E d \in 1..Len(stack[t]) : p = Place(t, d)
  BY DEF Positions, Place
<1>6. \A d \in 1..Len(stack[t]) : d \in 1..Len(kept) \/ Place(t, d) = Innermost(t)
  BY <1>2 DEF Innermost
<1>7. Innermost(t) \in Positions
  BY InnermostIsTop
<1>8. ASSUME NEW p \in Positions
      PROVE  p \in Positions' /\ (p # Innermost(t) => frames'[p] = frames[p])
  <2>1. CASE p[1] # t
    BY <2>1, <1>4
  <2>2. CASE p[1] = t
    <3>1. PICK d \in 1..Len(stack[t]) : p = Place(t, d)
      BY <2>2, <1>5
    <3> QED
      BY <3>1, <1>4, <1>6
  <2> QED
    BY <2>1, <2>2
<1>9. Positions' \subseteq Positions
  BY <1>4, <1>6, <1>7
<1> QED
  BY <1>4, <1>8, <1>9

\* The innermost call becomes z and makes the call y.
LEMMA OneCallMore ==
    ASSUME Shapes, NEW t \in Threads, Busy(t), NEW y \in Frames, NEW z \in Frames,
           Become(t, <<y, z>>)
    PROVE  /\ stack' \in [Threads -> Seq(Frames)]
           /\ \E q : /\ q \notin Positions /\ Positions' = Positions \cup {q}
                     /\ q[2] # 1 /\ Below(q) = Innermost(t)
                     /\ frames'[q] = y
           /\ frames'[Innermost(t)] = z
           /\ \A p \in Positions : p # Innermost(t) => frames'[p] = frames[p]
<1> DEFINE kept == Tail(stack[t])
           q == Place(t, Len(stack[t]) + 1)
<1>1. stack[t] \in Seq(Frames) /\ stack[t] # <<>>
  BY DEF Shapes, Busy
<1>2. /\ kept \in Seq(Frames) /\ Len(kept) = Len(stack[t]) - 1 /\ Len(stack[t]) \in Nat
      /\ Len(stack[t]) > 0
  BY <1>1
<1>3. stack' = [stack EXCEPT ![t] = <<y, z>> \o kept] /\ <<y, z>> \in Seq(Frames)
  BY DEF Become
<1> HIDE DEF kept
<1>4. /\ stack' \in [Threads -> Seq(Frames)]
      /\ \A d \in 1..Len(kept) :
            /\ Place(t, d) \in Positions /\ Place(t, d) \in Positions'
            /\ frames'[Place(t, d)] = frames[Place(t, d)]
      /\ \A p \in Positions : p[1] # t => p \in Positions' /\ frames'[p] = frames[p]
      /\ \A p \in Positions' : \/ p[1] # t /\ p \in Positions
                               \/ \E d \in 1..(Len(stack[t]) + 1) : p = Place(t, d)
      /\ Innermost(t) \in Positions' /\ frames'[Innermost(t)] = z
      /\ q \in Positions' /\ frames'[q] = y
  <2> DEFINE new == <<y, z>>
  <2>1. /\ Len(kept) + Len(new) = Len(stack[t]) + 1 /\ Len(kept) + 1 = Len(stack[t])
        /\ Len(kept) + 2 = Len(stack[t]) + 1
        /\ 1 \in 1..Len(new) /\ new[Len(new) + 1 - 1] = z
        /\ 2 \in 1..Len(new) /\ new[Len(new) + 1 - 2] = y
    BY <1>2
  <2>2. Keeps(t, kept)
    BY <1>1, <1>2 DEF kept, Keeps
  <2>3. new \in Seq(Frames) /\ stack' = [stack EXCEPT ![t] = new \o kept]
    BY <1>3
  <2> HIDE DEF new
  <2>4. CallsPlaced(t, new, kept)
    BY <2>2, <2>3, NewCalls
  <2> QED
    BY <2>1, <2>4 DEF CallsPlaced, Innermost
<1>5. \A p \in Positions : p[1] = t => \E d \in 1..Len(stack[t]) : p = Place(t, d)
  BY DEF Positions, Place
<1>6. \A d \in 1..(Len(stack[t]) + 1) :
          d \in 1..Len(kept) \/ Place(t, d) = Innermost(t) \/ Place(t, d) = q
  BY <1>2 DEF Innermost
<1>7. Innermost(t) \in Positions
  BY InnermostIsTop
<1>8. q \notin Positions /\ q[2] # 1 /\ Below(q) = Innermost(t)
  BY <1>2 DEF Positions, Place, Below, Innermost
<1>9. Positions \subseteq Positions' /\ \A p \in Positions : p # Innermost(t) => frames'[p] = frames[p]
  <2> SUFFICES ASSUME NEW p \in Positions
               PROVE  p \in Positions' /\ (p # Innermost(t) => frames'[p] = frames[p])
    OBVIOUS
  <2>1. CASE p[1] # t
    BY <2>1, <1>4
  <2>2. CASE p[1] = t
    <3>1. PICK d \in 1..Len(stack[t]) : p = Place(t, d)
      BY <2>2, <1>5
    <3>2. d \in 1..Len(kept) \/ p = Innermost(t)
      BY <3>1, <1>2 DEF Innermost
    <3> QED
      BY <3>1, <3>2, <1>4
  <2> QED
    BY <2>1, <2>2
<1>10. Positions' \subseteq Positions \cup {q}
  BY <1>4, <1>6, <1>7
<1> QED
  BY <1>4, <1>8, <1>9, <1>10

\* An idle thread's first calls.
Begins(t, calls) == stack' = [stack EXCEPT ![t] = calls]

\* An idle thread begins a call.
LEMMA FirstCall ==
    ASSUME Shapes, NEW t \in Threads, ~Busy(t), NEW z \in Frames,
           Begins(t, <<z>>)
    PROVE  /\ stack' \in [Threads -> Seq(Frames)]
           /\ \E q : /\ q \notin Positions /\ Positions' = Positions \cup {q}
                     /\ q[2] = 1 /\ frames'[q] = z
                     /\ \A p \in Positions : frames'[p] = frames[p] /\ Below(p) # q
<1> DEFINE q == Place(t, 1)
<1>1. stack \in [Threads -> Seq(Frames)] /\ stack[t] = <<>>
  BY DEF Shapes, Busy
<1>2. /\ stack' \in [Threads -> Seq(Frames)] /\ stack'[t] = <<z>>
      /\ \A u \in Threads : u # t => stack'[u] = stack[u]
  BY <1>1 DEF Begins
<1>a. Len(stack'[t]) = 1 /\ stack'[t][1] = z
  BY <1>2
<1>3. q \notin Positions /\ \A p \in Positions : p[1] # t
  BY <1>1 DEF Positions, Place
<1>4. Positions' = Positions \cup {q}
  <2>1. \A p \in Positions : p \in Positions'
    BY <1>2, <1>3 DEF Positions
  <2>2. q \in Positions'
    BY <1>a DEF Positions, Place
  <2>3. \A p \in Positions' : p[1] # t => p \in Positions
    BY <1>2 DEF Positions
  <2>4. ASSUME NEW p \in Positions', p[1] = t PROVE p = q
    <3>1. p \in Threads \X Nat /\ p[2] \in 1..1
      BY <2>4, <1>a DEF Positions
    <3> QED
      BY <3>1, <2>4 DEF Place
  <2> QED
    BY <2>1, <2>2, <2>3, <2>4
<1>5. frames'[q] = z
  <2>1. q \in Positions' /\ stack'[q[1]][Len(stack'[q[1]]) + 1 - q[2]] = z
    BY <1>a, <1>4 DEF Place
  <2> QED
    BY <2>1 DEF frames
<1>6. \A p \in Positions : frames'[p] = frames[p] /\ Below(p) # q
  BY <1>1, <1>2, <1>3, <1>4 DEF frames, Positions, Below, Place
<1>7. q[2] = 1
  BY DEF Place
<1> QED
  BY <1>2, <1>3, <1>4, <1>5, <1>6, <1>7

\* An idle thread begins the call z, which calls y.
LEMMA FirstTwoCalls ==
    ASSUME Shapes, NEW t \in Threads, ~Busy(t), NEW y \in Frames, NEW z \in Frames,
           Begins(t, <<y, z>>)
    PROVE  /\ stack' \in [Threads -> Seq(Frames)]
           /\ \E q, r : /\ q \notin Positions /\ r \notin Positions /\ q # r
                        /\ Positions' = Positions \cup {q, r}
                        /\ q[2] = 1 /\ r[2] # 1 /\ Below(r) = q
                        /\ frames'[q] = z /\ frames'[r] = y
                        /\ \A p \in Positions : /\ frames'[p] = frames[p]
                                                /\ Below(p) # q /\ Below(p) # r
<1> DEFINE q == Place(t, 1)
           r == Place(t, 2)
<1>1. stack \in [Threads -> Seq(Frames)] /\ stack[t] = <<>>
  BY DEF Shapes, Busy
<1>2. /\ stack' \in [Threads -> Seq(Frames)] /\ stack'[t] = <<y, z>>
      /\ \A u \in Threads : u # t => stack'[u] = stack[u]
  BY <1>1 DEF Begins
<1>a. Len(stack'[t]) = 2 /\ stack'[t][1] = y /\ stack'[t][2] = z
  BY <1>2
<1>3. q \notin Positions /\ r \notin Positions /\ \A p \in Positions : p[1] # t
  BY <1>1 DEF Positions, Place
<1>4. Positions' = Positions \cup {q, r}
  <2>1. \A p \in Positions : p \in Positions'
    BY <1>2, <1>3 DEF Positions
  <2>2. q \in Positions' /\ r \in Positions'
    BY <1>a DEF Positions, Place
  <2>3. \A p \in Positions' : p[1] # t => p \in Positions
    BY <1>2 DEF Positions
  <2>4. ASSUME NEW p \in Positions', p[1] = t PROVE p = q \/ p = r
    <3>1. p \in Threads \X Nat /\ p[2] \in 1..2
      BY <2>4, <1>a DEF Positions
    <3> QED
      BY <3>1, <2>4 DEF Place
  <2> QED
    BY <2>1, <2>2, <2>3, <2>4
<1>5. frames'[q] = z /\ frames'[r] = y
  <2>1. q \in Positions' /\ r \in Positions'
    BY <1>4
  <2>2. /\ frames'[q] = stack'[t][Len(stack'[t]) + 1 - 1]
        /\ frames'[r] = stack'[t][Len(stack'[t]) + 1 - 2]
    BY <2>1 DEF frames, Place
  <2>3. Len(stack'[t]) + 1 - 1 = 2 /\ Len(stack'[t]) + 1 - 2 = 1
    BY <1>a
  <2> QED
    BY <2>2, <2>3, <1>a
<1>6. \A p \in Positions : frames'[p] = frames[p] /\ Below(p) # q /\ Below(p) # r
  BY <1>1, <1>2, <1>3, <1>4 DEF frames, Positions, Below, Place
<1>7. q[2] = 1 /\ r[2] # 1 /\ q # r /\ Below(r) = q
  BY DEF Place, Below
<1> QED
  BY <1>2, <1>3, <1>4, <1>5, <1>6, <1>7

LEMMA PutBefore ==
    ASSUME NEW y \in Frames, NEW z \in Frames
    PROVE  <<y>> \o <<z>> = <<y, z>>
<1>1. /\ <<y, z>> \in Seq(Frames) /\ <<y>> \o <<z>> \in Seq(Frames)
      /\ Len(<<y>> \o <<z>>) = 2 /\ Len(<<y, z>>) = 2
  OBVIOUS
<1>2. \A i \in 1..2 : (<<y>> \o <<z>>)[i] = <<y, z>>[i]
  OBVIOUS
<1> QED
  BY <1>1, <1>2, SeqEqual

-----------------------------------------------------------------------------
(* The steps *)

\* Others have heard of the session.
Told(s) == ~Unborn(s) /\ \A p \in Positions : ~Works(p, Early, s)

LEMMA WhoIsTold ==
    ASSUME InductiveInvariant, NEW s \in Sessions,
           \/ s \in room \cup receiving \cup leaving \/ send[s] # "free"
           \/ \E p \in Positions : s \in frames[p].todo
           \/ \E p \in Positions : frames[p].session = s /\ frames[p].at \notin Early
    PROVE  Told(s)
  BY DEF InductiveInvariant, Births, Starts, Blank, Told, Works

Settling == {"greet", "tell", "enter", "announce", "receive"}

\* Where a call goes on without ending its work, or beginning another.
Alike(new, old) ==
    \/ new = old
    \/ {new, old} \subseteq Settling
    \/ {new, old} \subseteq {"handle", "again"}
    \/ {new, old} \subseteq {"leave", "farewell", "unlist"}
    \/ {new, old} \subseteq SendWork
    \/ new = "accept" /\ old = "receive"
    \/ new = "return" /\ old = "again"
    \/ new = "register" /\ old = "send"
    \/ new = "disconnect" /\ old = "post"

LEMMA AlikeKeepsWork ==
    ASSUME NEW a, NEW b, Alike(a, b)
    PROVE  /\ a \in SendWork => b \in SendWork \cup {"send"}
           /\ a \in RecvWork => b \in RecvWork
           /\ a \in LeaveWork <=> b \in LeaveWork
           /\ a = "unmanage" <=> b = "unmanage"
           /\ a \in Early \/ b \in Early => a = b
           /\ a \in Connecting <=> b \in Connecting
           /\ a \in Supported => b \in Supported
           /\ a \in {"update", "lost"} <=> b \in {"update", "lost"}
  BY DEF Alike, SendWork, RecvWork, LeaveWork, Early, Connecting, Disconnecting,
         Supported, Settling

\* A call goes on as another, or its thread is lost.
GoesOnAs(new, old) ==
    \/ /\ new.session = old.session /\ Alike(new.at, old.at)
       /\ new.at \in SendWork /\ old.at = "send" => send[old.session] = "free"
    \/ /\ new.at = "lost" /\ new.session = NoSession
       /\ old.at \in {"send", "register", "own", "clear"}

\* A call may end here: it registers no accept event, and is not between the
\* registries.
Ending == {"return", "update", "hangup", "disconnect", "post", "send"} \cup SendWork

\* A call may come here at p, with the one at top below it.
MayCome(p, top) ==
    LET c == frames'[p]
    IN  /\ c.at # "update" => c.session \in Sessions
        /\ \/ c.at \in {"send", "return"} /\ Told(c.session)
           \/ /\ c.at = "disconnect" /\ Told(c.session)
              /\ Below(p) \in Positions' /\ frames'[Below(p)].at \in Supporting
              /\ frames'[Below(p)].session = c.session
           \/ /\ c.at = "post" /\ top \in Positions \cap Positions'
              /\ frames[top].at \in {"receive", "again"}
              /\ frames[top].session = c.session
              /\ Below(p) = top /\ frames'[top].at \in {"accept", "return"}
              /\ frames'[top].session = c.session
           \/ c.at = "handle" /\ c.session \in receiving \ receiving'
           \/ c.at = "register" /\ send[c.session] = "sending"
           \/ c.at = "update" /\ c.session = NoSession

\* One call, at top, goes on or ends, and others come: what becomes of the
\* events of the sessions agrees with the calls.
LEMMA StepKeeps ==
    ASSUME InductiveInvariant, NEW top,
           stack' \in [Threads -> Seq(Frames)],
           \A p \in Positions : Below(p) = top => top \notin Positions,
           \A p \in Positions : p # top => p \in Positions' /\ frames'[p] = frames[p],
           top \in Positions /\ top \in Positions' => GoesOnAs(frames'[top], frames[top]),
           top \in Positions /\ top \notin Positions' => frames[top].at \in Ending,
           \A p \in Positions' \ Positions : MayCome(p, top),
           \A p, q \in Positions' \ Positions :
               {frames'[p].at, frames'[q].at} \subseteq {"handle", "post", "register"} => p = q,
           room' \subseteq Sessions, \A r \in room' : Told(r),
           \A p \in Positions' : p = top \/ p \notin Positions =>
               /\ \A r \in frames'[p].todo : Told(r)
               /\ Fits(frames'[p], send'[frames'[p].session]),
           NEW f, send' = f, f \in [Sessions -> SendStates],
           \A s \in Sessions : f[s] # send[s] =>
               \/ send[s] = "sending"
               \/ /\ top \in Positions /\ frames[top].session = s
                  /\ \/ frames[top].at \in SendWork
                     \/ frames[top].at = "send" /\ send[s] = "free",
           receiving' \subseteq Sessions,
           \A s \in receiving' : s \notin receiving =>
               /\ top \in Positions /\ frames[top].session = s
               /\ frames[top].at = "post" /\ top \notin Positions',
           leaving' \subseteq Sessions,
           \A s \in leaving' : s \notin leaving =>
               top \in Positions /\ frames[top].session = s /\ frames[top].at = "hangup",
           UNCHANGED <<events, connected, service, manager>>
    PROVE  InductiveInvariant'
<1>0. /\ Shapes /\ Named /\ Sends /\ Receives /\ Leaves /\ Births /\ Starts
      /\ Registers /\ Offers /\ Supports
      /\ offered' = offered /\ listening' = listening /\ fresh' = fresh
      /\ connected' = connected /\ service' = service /\ manager' = manager
  BY DEF InductiveInvariant, events
<1>a. NoSession \notin Sessions /\ \A p \in Positions : frames[p] \in Frames
  BY <1>0, SessionsAssumption, FramesAreFrames
\* Where the work of a call comes from.
<1>1. ASSUME NEW p \in Positions, p \in Positions', NEW r \in Sessions
      PROVE  /\ Works(p, SendWork, r)' =>
                   \/ Works(p, SendWork, r)
                   \/ /\ p = top /\ frames[p].at = "send" /\ frames[p].session = r
                      /\ send[r] = "free"
             /\ Works(p, RecvWork, r)' => Works(p, RecvWork, r)
             /\ Works(p, LeaveWork, r)' <=> Works(p, LeaveWork, r)
             /\ Works(p, LeaveWork, r) =>
                   (frames'[p].at = "unmanage" <=> frames[p].at = "unmanage")
             /\ Works(p, Early, r)' <=> Works(p, Early, r)
             /\ Works(p, Early, r) => frames'[p].at = frames[p].at
             /\ Works(p, Connecting, r)' <=> Works(p, Connecting, r)
             /\ Works(p, Supported, r)' => Works(p, Supported, r)
             /\ frames'[p].session = r => frames[p].session = r
  <2>1. CASE p # top
    BY <2>1 DEF Works
  <2>2. CASE p = top
    <3>1. CASE /\ frames'[p].session = frames[p].session
               /\ Alike(frames'[p].at, frames[p].at)
               /\ frames'[p].at \in SendWork /\ frames[p].at = "send"
                       => send[frames[p].session] = "free"
      <4>1. /\ Works(p, SendWork, r)' =>
                   \/ Works(p, SendWork, r)
                   \/ /\ p = top /\ frames[p].at = "send" /\ frames[p].session = r
                      /\ send[r] = "free"
            /\ Works(p, RecvWork, r)' => Works(p, RecvWork, r)
            /\ Works(p, LeaveWork, r)' <=> Works(p, LeaveWork, r)
            /\ Works(p, Connecting, r)' <=> Works(p, Connecting, r)
            /\ Works(p, Supported, r)' => Works(p, Supported, r)
            /\ frames'[p].session = r => frames[p].session = r
        BY <2>2, <3>1, AlikeKeepsWork DEF Works
      <4>2. /\ Works(p, LeaveWork, r) =>
                   (frames'[p].at = "unmanage" <=> frames[p].at = "unmanage")
            /\ Works(p, Early, r)' <=> Works(p, Early, r)
            /\ Works(p, Early, r) => frames'[p].at = frames[p].at
        BY <3>1, AlikeKeepsWork DEF Works
      <4> QED
        BY <4>1, <4>2
    <3>2. CASE /\ frames'[p].at = "lost" /\ frames'[p].session = NoSession
               /\ frames[p].at \in {"send", "register", "own", "clear"}
      BY <3>2, <1>a DEF Works, LeaveWork, Early, Connecting
    <3> QED
      BY <1>1, <2>2, <3>1, <3>2 DEF GoesOnAs
  <2> QED
    BY <2>1, <2>2
<1>2. ASSUME NEW p \in Positions', p \notin Positions
      PROVE  /\ frames'[p].at # "update" => Told(frames'[p].session)
             /\ frames'[p].session = NoSession <=> frames'[p].at \in {"update", "lost"}
             /\ \A r \in Sessions :
                   /\ Works(p, SendWork, r)' => send[r] = "sending" /\ frames'[p].at = "register"
                   /\ Works(p, RecvWork, r)' =>
                         \/ frames'[p].at = "handle" /\ r \in receiving \ receiving'
                         \/ /\ frames'[p].at = "post" /\ top \in Positions \cap Positions'
                            /\ Works(top, RecvWork, r) /\ ~Works(top, RecvWork, r)'
                   /\ ~Works(p, LeaveWork, r)' /\ ~Works(p, Early, r)'
                   /\ ~Works(p, Connecting, r)'
                   /\ Works(p, Supported, r)' =>
                         Below(p) \in Positions' /\ Works(Below(p), Supporting, r)'
  <2>1. CASE frames'[p].at \in {"send", "return"} /\ Told(frames'[p].session)
    BY <2>1, <1>a, <1>2 DEF MayCome, Works, SendWork, RecvWork, LeaveWork, Early, Connecting,
       Supported, Disconnecting
  <2>2. CASE /\ frames'[p].at = "disconnect" /\ Told(frames'[p].session)
             /\ Below(p) \in Positions' /\ frames'[Below(p)].at \in Supporting
             /\ frames'[Below(p)].session = frames'[p].session
    BY <2>2, <1>a, <1>2 DEF MayCome, Works, SendWork, RecvWork, LeaveWork, Early, Connecting,
       Supported, Disconnecting
  <2>3. CASE /\ frames'[p].at = "post" /\ top \in Positions \cap Positions'
             /\ frames[top].at \in {"receive", "again"}
             /\ frames[top].session = frames'[p].session
             /\ Below(p) = top /\ frames'[top].at \in {"accept", "return"}
             /\ frames'[top].session = frames'[p].session
    <3>1. frames'[p].session \in Sessions
      BY <2>3, <1>2 DEF MayCome
    <3>2. Told(frames'[p].session)
      BY <2>3, <3>1, WhoIsTold DEF Early
    <3> QED
      BY <2>3, <3>1, <3>2, <1>a, <1>2 DEF Works, SendWork, RecvWork, LeaveWork, Early,
         Connecting, Supported, Supporting, Disconnecting
  <2>4. CASE frames'[p].at = "handle" /\ frames'[p].session \in receiving \ receiving'
    <3>1. frames'[p].session \in Sessions /\ Told(frames'[p].session)
      BY <2>4, <1>0, WhoIsTold DEF Shapes
    <3> QED
      BY <2>4, <3>1, <1>a DEF Works, SendWork, RecvWork, LeaveWork, Early, Connecting,
         Supported, Disconnecting
  <2>5. CASE frames'[p].at = "register" /\ send[frames'[p].session] = "sending"
    <3>1. frames'[p].session \in Sessions
      BY <2>5, <1>2 DEF MayCome
    <3>2. Told(frames'[p].session)
      BY <2>5, <3>1, WhoIsTold
    <3> QED
      BY <2>5, <3>1, <3>2, <1>a DEF Works, SendWork, RecvWork, LeaveWork, Early, Connecting,
         Supported, Disconnecting
  <2>6. CASE frames'[p].at = "update" /\ frames'[p].session = NoSession
    BY <2>6, <1>a DEF Works, SendWork, RecvWork, LeaveWork, Early, Connecting,
       Supported, Disconnecting
  <2> QED
    BY <2>1, <2>2, <2>3, <2>4, <2>5, <2>6, <1>2 DEF MayCome
<1>3. ASSUME NEW p \in Positions, p \notin Positions', NEW r
      PROVE  p = top /\ ~Works(p, Connecting, r) /\ ~Works(p, LeaveWork, r) /\ ~Works(p, Early, r)
  BY <1>3 DEF Ending, SendWork, Works, Connecting, LeaveWork, Early
<1>4. Shapes'
  BY <1>0 DEF Shapes
<1>5. Named'
  <2> SUFFICES ASSUME NEW p \in Positions'
               PROVE  frames'[p].session = NoSession <=> frames'[p].at \in {"update", "lost"}
    BY DEF Named
  <2>1. CASE p \notin Positions
    BY <2>1, <1>2
  <2>2. CASE p \in Positions /\ p # top
    BY <2>2, <1>0 DEF Named
  <2>3. CASE p \in Positions /\ p = top
    BY <2>3, <1>0, AlikeKeepsWork DEF Named, GoesOnAs
  <2> QED
    BY <2>1, <2>2, <2>3
<1>6. Sends'
  <2>1. ASSUME NEW p \in Positions, NEW r \in Sessions, Works(p, SendWork, r)
        PROVE  send[r] \in {"held", "taken"}
    BY <2>1, <1>0 DEF Sends, Fits, Works, SendWork
  <2>2. OnlyOne(SendWork)'
    <3> SUFFICES ASSUME NEW r \in Sessions, NEW p \in Positions', NEW u \in Positions',
                        Works(p, SendWork, r)', Works(u, SendWork, r)'
                 PROVE  p = u
      BY DEF OnlyOne
    <3>1. CASE p \in Positions /\ u \in Positions
      BY <3>1, <2>1, <1>0, <1>1 DEF Sends, OnlyOne
    <3>2. CASE p \notin Positions /\ u \notin Positions
      BY <3>2, <1>2
    <3>3. CASE p \in Positions /\ u \notin Positions
      BY <3>3, <2>1, <1>1, <1>2
    <3>4. CASE p \notin Positions /\ u \in Positions
      BY <3>4, <2>1, <1>1, <1>2
    <3> QED
      BY <3>1, <3>2, <3>3, <3>4
  <2>3. ASSUME NEW p \in Positions', p \in Positions, p # top
        PROVE  Fits(frames'[p], send'[frames'[p].session])
    <3>1. frames'[p] = frames[p] /\ frames[p] \in Frames
      BY <2>3, <1>a
    <3>2. CASE frames[p].at \in SendWork
      <4>1. frames[p].session \in Sessions
        BY <2>3, <3>1, <3>2, <1>0 DEF Named, SendWork, Frames
      <4>2. Works(p, SendWork, frames[p].session)
        BY <3>2 DEF Works
      <4>3. send[frames[p].session] \in {"held", "taken"}
        BY <4>1, <4>2, <2>1, <2>3
      <4>4. ~(top \in Positions /\ Works(top, SendWork, frames[p].session))
        BY <4>1, <4>2, <2>3, <1>0 DEF Sends, OnlyOne
      <4>5. f[frames[p].session] = send[frames[p].session]
        BY <4>1, <4>3, <4>4 DEF Works
      <4> QED
        BY <3>1, <4>5, <1>0 DEF Sends
    <3>3. CASE frames[p].at \notin SendWork
      BY <3>1, <3>3 DEF Fits, SendWork
    <3> QED
      BY <3>2, <3>3
  <2> QED
    BY <2>2, <2>3 DEF Sends
<1>7. Receives'
  <2>1. ASSUME NEW p \in Positions, NEW r \in Sessions, Works(p, RecvWork, r)
        PROVE  r \notin receiving
    BY <2>1, <1>0 DEF Receives, Works
  <2>2. OnlyOne(RecvWork)'
    <3> SUFFICES ASSUME NEW r \in Sessions, NEW p \in Positions', NEW u \in Positions',
                        Works(p, RecvWork, r)', Works(u, RecvWork, r)'
                 PROVE  p = u
      BY DEF OnlyOne
    <3>1. CASE p \in Positions /\ u \in Positions
      BY <3>1, <1>0, <1>1 DEF Receives, OnlyOne
    <3>2. CASE p \notin Positions /\ u \notin Positions
      BY <3>2, <1>2
    <3>3. ASSUME NEW v \in Positions, NEW w \in Positions', w \notin Positions,
                 v \in Positions', Works(v, RecvWork, r)', Works(w, RecvWork, r)'
          PROVE  FALSE
      <4>1. Works(v, RecvWork, r)
        BY <3>3, <1>1
      <4>2. Works(top, RecvWork, r) /\ ~Works(top, RecvWork, r)' /\ top \in Positions
        BY <3>3, <4>1, <2>1, <1>2
      <4> QED
        BY <3>3, <4>1, <4>2, <1>0 DEF Receives, OnlyOne
    <3> QED
      BY <3>1, <3>2, <3>3
  <2>3. ASSUME NEW p \in Positions', frames'[p].at \in RecvWork
        PROVE  frames'[p].session \notin receiving'
    <3> SUFFICES ASSUME NEW r, r = frames'[p].session, r \in receiving' PROVE FALSE
      OBVIOUS
    <3>1. r \in Sessions /\ Works(p, RecvWork, r)'
      BY <2>3 DEF Works
    <3>2. CASE p \in Positions
      <4>1. Works(p, RecvWork, r) /\ r \notin receiving
        BY <3>1, <3>2, <2>1, <1>1
      <4>2. top \in Positions /\ Works(top, RecvWork, r) /\ top \notin Positions'
        BY <4>1 DEF Works, RecvWork
      <4> QED
        BY <3>1, <3>2, <4>1, <4>2, <1>0 DEF Receives, OnlyOne
    <3>3. CASE p \notin Positions
      <4>1. top \in Positions \cap Positions' /\ Works(top, RecvWork, r)
        BY <3>1, <3>3, <1>2
      <4> QED
        BY <4>1, <2>1, <3>1
    <3> QED
      BY <3>2, <3>3
  <2> QED
    BY <2>2, <2>3 DEF Receives
<1>8. Leaves'
  <2>1. OnlyOne(LeaveWork)'
    BY <1>0, <1>1, <1>2 DEF Leaves, OnlyOne
  <2>2. ASSUME NEW p \in Positions', frames'[p].at \in LeaveWork
        PROVE  /\ frames'[p].session \in service' \ connected'
               /\ frames'[p].session \in manager' <=> frames'[p].at = "unmanage"
    <3> PICK r : r = frames'[p].session
      OBVIOUS
    <3>1. r \in Sessions
      <4>1. CASE p \in Positions
        <5>1. CASE p = top
          BY <5>1, <4>1, <2>2, <1>0, <1>a, AlikeKeepsWork DEF GoesOnAs, Leaves, LeaveWork, Shapes
        <5>2. CASE p # top
          BY <5>2, <4>1, <2>2, <1>0 DEF Leaves, Shapes
        <5> QED
          BY <5>1, <5>2
      <4>2. CASE p \notin Positions
        BY <4>2, <2>2 DEF MayCome, LeaveWork
      <4> QED
        BY <4>1, <4>2
    <3>2. Works(p, LeaveWork, r)'
      BY <2>2 DEF Works
    <3>3. p \in Positions /\ Works(p, LeaveWork, r)
      BY <3>1, <3>2, <1>1, <1>2
    <3>4. frames'[p].at = "unmanage" <=> frames[p].at = "unmanage"
      BY <3>1, <3>3, <1>1
    <3> QED
      BY <3>3, <3>4, <1>0 DEF Leaves, Works
  <2> QED
    BY <2>1, <2>2 DEF Leaves
<1>9. \A r : Unborn(r)' <=> Unborn(r)
  BY <1>0 DEF Unborn
<1>10. ASSUME NEW r \in Sessions, Blank(r), ~Told(r)
       PROVE  Blank(r)'
  <2>1. top \in Positions /\ frames[top].session = r => frames[top].at \in Early
    BY <1>10, WhoIsTold
  <2>2. r \notin receiving' /\ r \notin leaving' /\ f[r] = "free"
    BY <2>1, <1>10 DEF Blank, Early, SendWork
  <2>3. \A p \in Positions' : r \notin frames'[p].todo
    BY <1>10 DEF Blank
  <2> QED
    BY <2>2, <2>3, <1>0, <1>10 DEF Blank
<1>11. Births'
  <2> SUFFICES ASSUME NEW r \in Sessions, Unborn(r)
               PROVE  /\ Blank(r)' /\ r \notin connected \cup service
                      /\ \A p \in Positions' : frames'[p].session # r
    BY <1>0, <1>9 DEF Births
  <2>1. ~Told(r) /\ Blank(r)
    BY <1>0 DEF Births, Told
  <2>2. \A p \in Positions' : frames'[p].session # r
    BY <2>1, <1>0, <1>1, <1>2, <1>a DEF Births
  <2> QED
    BY <2>1, <2>2, <1>0, <1>10 DEF Births
<1>12. Starts'
  <2> SUFFICES ASSUME NEW r \in Sessions, NEW p \in Positions', Works(p, Early, r)'
               PROVE  /\ Blank(r)'
                      /\ \A u \in Positions' : frames'[u].session = r => u = p
                      /\ r \in connected' <=> frames'[p].at # "connect"
                      /\ r \in service' <=> frames'[p].at = "manage"
    BY DEF Starts
  <2>1. p \in Positions /\ Works(p, Early, r) /\ frames'[p].at = frames[p].at
    BY <1>1, <1>2
  <2>2. ~Told(r) /\ Blank(r)
    BY <2>1, <1>0 DEF Told, Starts
  <2>3. ASSUME NEW u \in Positions', frames'[u].session = r PROVE u = p
    BY <2>1, <2>2, <2>3, <1>0, <1>1, <1>2, <1>a DEF Starts
  <2> QED
    BY <2>1, <2>2, <2>3, <1>0, <1>10 DEF Starts
<1>13. Registers'
  BY <1>0, <1>1, <1>3 DEF Registers
<1>14. Offers'
  <2>1. OnlyOne(Connecting)'
    BY <1>0, <1>1, <1>2 DEF Offers, OnlyOne
  <2>2. ASSUME NEW e \in Accepts, e \notin listening, offered[e] # NoSession
        PROVE  \E p \in Positions' : p[2] = 1 /\ Works(p, Connecting, offered[e])'
    <3>1. PICK p \in Positions : p[2] = 1 /\ Works(p, Connecting, offered[e])
      BY <2>2, <1>0 DEF Offers
    <3> QED
      BY <3>1, <2>2, <1>0, <1>1, <1>3 DEF Shapes
  <2> QED
    BY <2>1, <2>2, <1>0 DEF Offers
<1>15. Supports'
  <2> SUFFICES ASSUME NEW r \in Sessions, NEW p \in Positions', Works(p, Supported, r)'
               PROVE  Below(p) \in Positions' /\ Works(Below(p), Supporting, r)'
    BY DEF Supports, Below
  <2>1. CASE p \notin Positions
    BY <2>1, <1>2
  <2>2. CASE p \in Positions
    <3>1. Below(p) \in Positions /\ Works(Below(p), Supporting, r)
      BY <2>2, <1>0, <1>1 DEF Supports
    <3>2. Below(p) # top
      BY <2>2, <3>1
    <3> QED
      BY <3>1, <3>2 DEF Works
  <2> QED
    BY <2>1, <2>2
<1> QED
  BY <1>4, <1>5, <1>6, <1>7, <1>8, <1>11, <1>12, <1>13, <1>14, <1>15
     DEF InductiveInvariant

\* What a call at work on the send event may do to it.
SendsAs(o, f) ==
    /\ f \in [Sessions -> SendStates]
    /\ \A s \in Sessions : f[s] # send[s] =>
          s = o.session /\ (o.at \in SendWork \/ (o.at = "send" /\ send[s] = "free"))

\* The innermost call goes on as another.
LEMMA GoesOnKeeps ==
    ASSUME InductiveInvariant, NEW t \in Threads, Busy(t),
           NEW z \in Frames, Become(t, <<z>>), GoesOnAs(z, Top(t)),
           NEW f, send' = f, SendsAs(Top(t), f), Fits(z, f[z.session]),
           room' \subseteq Sessions, \A r \in z.todo \cup room' : Told(r),
           UNCHANGED <<events, connected, service, manager, receiving, leaving>>
    PROVE  InductiveInvariant'
<1> PICK top : top = Innermost(t)
  OBVIOUS
<1>0. Shapes /\ receiving \subseteq Sessions /\ leaving \subseteq Sessions
  BY DEF InductiveInvariant, Shapes
<1>1. /\ top \in Positions /\ frames[top] = Top(t) /\ Positions' = Positions
      /\ frames'[top] = z /\ stack' \in [Threads -> Seq(Frames)]
      /\ \A p \in Positions : p # top => frames'[p] = frames[p]
      /\ \A p \in Positions : Below(p) # top
  BY <1>0, InnermostIsTop, OneCall
<1> QED
  BY <1>0, <1>1, StepKeeps, SMTT(30) DEF SendsAs

\* It goes on as z and makes the call y.
LEMMA CallsKeep ==
    ASSUME InductiveInvariant, NEW t \in Threads, Busy(t),
           NEW y \in Frames, NEW z \in Frames, Become(t, <<y, z>>),
           GoesOnAs(z, Top(t)), Fits(z, send[z.session]), \A r \in z.todo : Told(r),
           y.session \in Sessions, y.todo = {},
           \/ y.at = "send" /\ Told(y.session)
           \/ /\ y.at = "disconnect" /\ Told(y.session)
              /\ z.at \in Supporting /\ z.session = y.session
           \/ /\ y.at = "post" /\ Top(t).at \in {"receive", "again"}
              /\ z.at \in {"accept", "return"}
              /\ z.session = y.session /\ Top(t).session = y.session,
           UNCHANGED <<events, connected, service, manager, room, receiving, send, leaving>>
    PROVE  InductiveInvariant'
<1> PICK top : top = Innermost(t)
  OBVIOUS
<1> PICK f : f = send
  OBVIOUS
<1>0. /\ Shapes /\ receiving \subseteq Sessions /\ leaving \subseteq Sessions
      /\ f \in [Sessions -> SendStates]
  BY DEF InductiveInvariant, Shapes
<1>1. /\ top \in Positions /\ frames[top] = Top(t)
      /\ frames'[top] = z /\ stack' \in [Threads -> Seq(Frames)]
      /\ \A p \in Positions : p # top => frames'[p] = frames[p]
      /\ \A p \in Positions : Below(p) # top
  BY <1>0, InnermostIsTop, OneCallMore
<1>2. PICK q : q \notin Positions /\ Positions' = Positions \cup {q}
               /\ q[2] # 1 /\ Below(q) = top /\ frames'[q] = y
  BY <1>0, OneCallMore
<1>3. MayCome(q, top)
  BY <1>1, <1>2 DEF MayCome
<1>4. Fits(y, send[y.session])
  BY DEF Fits
<1>5. room' \subseteq Sessions /\ \A r \in room' : Told(r)
  BY WhoIsTold DEF InductiveInvariant, Shapes
<1> QED
  BY <1>0, <1>1, <1>2, <1>3, <1>4, <1>5, StepKeeps

\* It returns.
LEMMA ReturnKeeps ==
    ASSUME InductiveInvariant, NEW t \in Threads, Busy(t), Return(t),
           Top(t).at \in Ending,
           NEW f, send' = f, SendsAs(Top(t), f),
           receiving' \subseteq Sessions, receiving' \subseteq receiving \cup {Top(t).session},
           receiving' # receiving => Top(t).at = "post",
           leaving' \subseteq Sessions, leaving' \subseteq leaving \cup {Top(t).session},
           leaving' # leaving => Top(t).at = "hangup",
           UNCHANGED <<events, connected, service, manager, room>>
    PROVE  InductiveInvariant'
<1> PICK top : top = Innermost(t)
  OBVIOUS
<1>0. Shapes
  BY DEF InductiveInvariant
<1>1. /\ top \in Positions /\ frames[top] = Top(t) /\ Positions' = Positions \ {top}
      /\ stack' \in [Threads -> Seq(Frames)]
      /\ \A p \in Positions' : frames'[p] = frames[p]
      /\ \A p \in Positions : Below(p) # top
  BY <1>0, InnermostIsTop, OneCallLess
<1>2. room' \subseteq Sessions /\ \A r \in room' : Told(r)
  BY WhoIsTold DEF InductiveInvariant, Shapes
<1> QED
  BY <1>0, <1>1, <1>2, StepKeeps DEF SendsAs

\* An idle thread begins the call z, which may make the call y at once.
LEMMA BeginKeeps ==
    ASSUME InductiveInvariant, NEW t \in Threads, ~Busy(t),
           NEW y \in Frames, NEW z \in Frames,
           \/ Begins(t, <<z>>) /\ z.at \in {"handle", "update"}
           \/ /\ Begins(t, <<y, z>>) /\ z.at = "return"
              /\ y.at \in {"disconnect", "register"} /\ y.session = z.session /\ y.todo = {},
           z.at = "update" => z.session = NoSession,
           z.at # "update" => z.session \in Sessions /\ Told(z.session),
           z.at = "handle" => z.session \in receiving \ receiving',
           \A r \in z.todo : Told(r),
           receiving' \subseteq receiving,
           NEW f, send' = f, f \in [Sessions -> SendStates],
           \A s \in Sessions : f[s] # send[s] => send[s] = "sending",
           Begins(t, <<y, z>>) /\ y.at = "register" =>
               send[y.session] = "sending" /\ f[y.session] = "taken",
           UNCHANGED <<events, connected, service, manager, room, leaving>>
    PROVE  InductiveInvariant'
<1>0. /\ Shapes /\ receiving \subseteq Sessions /\ leaving \subseteq Sessions
      /\ room' \subseteq Sessions /\ \A r \in room' : Told(r)
  BY WhoIsTold DEF InductiveInvariant, Shapes
<1>a. Fits(z, f[z.session])
  BY DEF Fits
<1>1. CASE Begins(t, <<z>>) /\ z.at \in {"handle", "update"}
  <2>1. stack' \in [Threads -> Seq(Frames)]
    BY <1>0, <1>1, FirstCall
  <2>2. PICK q : /\ q \notin Positions /\ Positions' = Positions \cup {q}
                 /\ q[2] = 1 /\ frames'[q] = z
                 /\ \A p \in Positions : frames'[p] = frames[p] /\ Below(p) # q
    BY <1>0, <1>1, FirstCall
  <2>3. MayCome(q, q)
    BY <2>2, <1>1 DEF MayCome
  <2> QED
    BY <1>0, <1>a, <2>1, <2>2, <2>3, StepKeeps
<1>2. CASE /\ Begins(t, <<y, z>>) /\ z.at = "return"
           /\ y.at \in {"disconnect", "register"} /\ y.session = z.session /\ y.todo = {}
  <2>1. stack' \in [Threads -> Seq(Frames)]
    BY <1>0, <1>2, FirstTwoCalls
  <2>2. PICK q, r : /\ q \notin Positions /\ r \notin Positions /\ q # r
                    /\ Positions' = Positions \cup {q, r}
                    /\ q[2] = 1 /\ r[2] # 1 /\ Below(r) = q
                    /\ frames'[q] = z /\ frames'[r] = y
                    /\ \A p \in Positions : /\ frames'[p] = frames[p]
                                            /\ Below(p) # q /\ Below(p) # r
    BY <1>0, <1>2, FirstTwoCalls
  <2>3. MayCome(q, q) /\ MayCome(r, q)
    BY <2>2, <1>2 DEF MayCome, Supporting
  <2>4. Fits(y, f[y.session])
    BY <1>2 DEF Fits
  <2> QED
    BY <1>0, <1>2, <1>a, <2>1, <2>2, <2>3, <2>4, StepKeeps
<1> QED
  BY <1>1, <1>2

\* An operation that has completed leaves the calls as they are.
LEMMA EventKeeps ==
    ASSUME InductiveInvariant,
           NEW f, send' = f, f \in [Sessions -> SendStates],
           \A s \in Sessions : f[s] # send[s] => send[s] = "sending",
           leaving' \subseteq leaving,
           UNCHANGED <<events, connected, service, manager, room, receiving, stack>>
    PROVE  InductiveInvariant'
<1> PICK top : top = Place(Main, 0)
  OBVIOUS
<1>0. /\ Shapes /\ stack' = stack /\ receiving' \subseteq Sessions /\ leaving' \subseteq Sessions
      /\ room' \subseteq Sessions /\ \A r \in room' : Told(r)
  BY WhoIsTold DEF InductiveInvariant, Shapes
<1>1. Positions' = Positions /\ frames' = frames
  BY <1>0 DEF Positions, frames
<1>2. top \notin Positions
  BY DEF Positions, Place
<1> QED
  BY <1>0, <1>1, <1>2, StepKeeps DEF Shapes

LEMMA ProcessAcceptKeeps ==
    ASSUME InductiveInvariant, NEW w \in Workers, NEW e \in Accepts, ProcessAccept(w, e)
    PROVE  InductiveInvariant'
<1> PICK s : s = offered[e]
  OBVIOUS
<1>0. /\ Shapes /\ Named /\ Sends /\ Receives /\ Leaves /\ Births /\ Starts
      /\ Registers /\ Offers /\ Supports
      /\ offered' = offered /\ listening' = listening \ {e} /\ fresh' = fresh
      /\ connected' = connected /\ service' = service /\ manager' = manager
      /\ room' = room /\ receiving' = receiving /\ send' = send /\ leaving' = leaving
      /\ e \in listening
  BY DEF InductiveInvariant, ProcessAccept
<1>1. s \in Sessions /\ s # NoSession /\ Unborn(s)
  BY <1>0 DEF Shapes, Offers, Unborn
<1>2. PICK z \in {Call("connect", s), Call("accept", s)} : Begins(w, <<z>>)
  BY DEF ProcessAccept, Begins
<1>3. z \in Frames /\ z.session = s /\ z.todo = {} /\ z.at \in {"connect", "accept"}
  BY <1>1 DEF Call, Frame, Frames, Places, Connecting
<1>4. w \in Threads /\ ~Busy(w)
  BY DEF Threads, ProcessAccept
<1>5. stack' \in [Threads -> Seq(Frames)]
  BY <1>0, <1>2, <1>3, <1>4, FirstCall
<1>6. PICK q : /\ q \notin Positions /\ Positions' = Positions \cup {q}
               /\ q[2] = 1 /\ frames'[q] = z
               /\ \A p \in Positions : frames'[p] = frames[p] /\ Below(p) # q
  BY <1>0, <1>2, <1>3, <1>4, FirstCall
<1>7. \A p \in Positions : frames[p].session # s /\ s \notin frames[p].todo
  BY <1>0, <1>1 DEF Births, Blank
<1>8. \A p \in Positions : \A places, r : Works(p, places, r)' <=> Works(p, places, r)
  BY <1>6 DEF Works
<1>9. /\ \A r : ~Works(q, SendWork, r)' /\ ~Works(q, LeaveWork, r)' /\ ~Works(q, Supported, r)'
      /\ \A r : Works(q, RecvWork, r)' => r = s
      /\ \A r : Works(q, Early, r)' => r = s /\ z.at = "connect"
      /\ Works(q, Connecting, s)'
  BY <1>3, <1>6 DEF Works, SendWork, LeaveWork, Supported, Supporting, Disconnecting, RecvWork, Early, Connecting
<1>10. Shapes' /\ Named'
  BY <1>0, <1>1, <1>3, <1>5, <1>6 DEF Shapes, Named
<1>11. Sends'
  <2>1. OnlyOne(SendWork)'
    BY <1>0, <1>6, <1>8, <1>9 DEF Sends, OnlyOne
  <2> QED
    BY <2>1, <1>0, <1>3, <1>6 DEF Sends, Fits
<1>12. Receives'
  <2>1. OnlyOne(RecvWork)'
    <3>1. \A p \in Positions : ~Works(p, RecvWork, s)
      BY <1>7 DEF Works
    <3> QED
      BY <3>1, <1>0, <1>6, <1>8, <1>9 DEF Receives, OnlyOne
  <2>2. s \notin receiving
    BY <1>0, <1>1 DEF Births, Blank
  <2> QED
    BY <2>1, <2>2, <1>0, <1>3, <1>6 DEF Receives
<1>13. Leaves'
  <2>1. OnlyOne(LeaveWork)'
    BY <1>0, <1>6, <1>8, <1>9 DEF Leaves, OnlyOne
  <2>2. z.at \notin LeaveWork
    BY <1>3 DEF LeaveWork
  <2> QED
    BY <2>1, <2>2, <1>0, <1>6 DEF Leaves
<1>14. \A r : Unborn(r)' => Unborn(r) /\ r # s
  BY <1>0, <1>1 DEF Unborn, Offers, Shapes
<1>15. \A r \in Sessions : Blank(r) => Blank(r)'
  BY <1>0, <1>3, <1>6 DEF Blank
<1>16. Births'
  BY <1>0, <1>3, <1>6, <1>14, <1>15 DEF Births
<1>17. Starts'
  <2> SUFFICES ASSUME NEW r \in Sessions, NEW p \in Positions', Works(p, Early, r)'
               PROVE  /\ Blank(r)'
                      /\ \A u \in Positions' : frames'[u].session = r => u = p
                      /\ r \in connected' <=> frames'[p].at # "connect"
                      /\ r \in service' <=> frames'[p].at = "manage"
    BY DEF Starts
  <2>1. CASE p = q
    <3>1. r = s /\ z.at = "connect"
      BY <2>1, <1>9
    <3>2. Blank(s) /\ s \notin connected \cup service
      BY <1>0, <1>1 DEF Births
    <3> QED
      BY <2>1, <3>1, <3>2, <1>0, <1>1, <1>6, <1>7, <1>15
  <2>2. CASE p \in Positions
    <3>1. Works(p, Early, r) /\ r # s /\ frames'[p] = frames[p]
      BY <2>2, <1>6, <1>7, <1>8 DEF Works
    <3>2. /\ Blank(r)
          /\ \A u \in Positions : frames[u].session = r => u = p
          /\ r \in connected <=> frames[p].at # "connect"
          /\ r \in service <=> frames[p].at = "manage"
      BY <2>2, <3>1, <1>0 DEF Starts
    <3> QED
      BY <2>2, <3>1, <3>2, <1>0, <1>3, <1>6, <1>15
  <2> QED
    BY <2>1, <2>2, <1>6
<1>18. Registers'
  BY <1>0, <1>6, <1>8 DEF Registers
<1>19. Offers'
  <2>1. OnlyOne(Connecting)'
    <3>1. \A p \in Positions : ~Works(p, Connecting, s)
      BY <1>7 DEF Works
    <3>2. \A r : Works(q, Connecting, r)' => r = s
      BY <1>3, <1>6 DEF Works
    <3> QED
      BY <3>1, <3>2, <1>0, <1>6, <1>8 DEF Offers, OnlyOne
  <2> QED
    BY <2>1, <1>0, <1>6, <1>8, <1>9 DEF Offers
<1>20. Supports'
  BY <1>0, <1>6, <1>8, <1>9 DEF Supports, Below, Place
<1> QED
  BY <1>10, <1>11, <1>12, <1>13, <1>16, <1>17, <1>18, <1>19, <1>20
     DEF InductiveInvariant

\* The flag of the session is set, then it is listed.
LEMMA ConnectingKeeps ==
    ASSUME InductiveInvariant, NEW t \in Threads, Connect(t) \/ AddSession(t)
    PROVE  InductiveInvariant'
<1> PICK top : top = Innermost(t)
  OBVIOUS
<1> PICK s : s = Top(t).session
  OBVIOUS
<1> PICK z : z = Call(IF Top(t).at = "connect" THEN "list" ELSE "manage", s)
  OBVIOUS
<1>0. /\ Shapes /\ Named /\ Sends /\ Receives /\ Leaves /\ Births /\ Starts
      /\ Registers /\ Offers /\ Supports
      /\ offered' = offered /\ listening' = listening /\ fresh' = fresh /\ manager' = manager
      /\ room' = room /\ receiving' = receiving /\ send' = send /\ leaving' = leaving
  BY DEF InductiveInvariant, Connect, AddSession, events
<1>1. Busy(t) /\ Become(t, <<z>>) /\ Top(t).at \in {"connect", "list"}
  BY DEF Connect, AddSession, At, Goto
<1>2. /\ top \in Positions /\ frames[top] = Top(t) /\ Top(t) \in Frames
      /\ \A p \in Positions : Below(p) # top
  BY <1>0, <1>1, InnermostIsTop
<1>3. s \in Sessions /\ s # NoSession
  BY <1>0, <1>1, <1>2, SessionsAssumption DEF Named, Frames
<1>4. /\ z \in Frames /\ z.session = s /\ z.todo = {} /\ z.at \in {"list", "manage"}
      /\ z.at = "list" <=> Top(t).at = "connect"
      /\ connected' = connected \cup {s}
      /\ service' = IF z.at = "list" THEN service ELSE service \cup {s}
  BY <1>0, <1>1, <1>2, <1>3 DEF Call, Frame, Frames, Places, Connecting, Connect, AddSession,
     At, Starts, Works, Early
<1>5. /\ stack' \in [Threads -> Seq(Frames)] /\ Positions' = Positions
      /\ frames'[top] = z /\ \A p \in Positions : p # top => frames'[p] = frames[p]
  BY <1>0, <1>1, <1>4, OneCall
<1>6. \A p \in Positions \ {top} : \A places, r : Works(p, places, r)' <=> Works(p, places, r)
  BY <1>5 DEF Works
<1>7. /\ \A r : ~Works(top, SendWork, r)' /\ ~Works(top, LeaveWork, r)' /\ ~Works(top, Supported, r)'
      /\ \A r : Works(top, RecvWork, r) <=> Works(top, RecvWork, r)'
      /\ \A r : Works(top, Early, r) <=> Works(top, Early, r)'
      /\ \A r : Works(top, Connecting, r) <=> Works(top, Connecting, r)'
      /\ \A r : ~Works(top, LeaveWork, r) /\ ~Works(top, Supporting, r)
      /\ Works(top, Early, s)
  BY <1>1, <1>2, <1>4, <1>5
     DEF Works, SendWork, LeaveWork, Supported, Supporting, Disconnecting, RecvWork, Early, Connecting
<1>8. /\ \A p \in Positions : frames[p].session = s => p = top
      /\ Blank(s) /\ s \notin service
      /\ s \in connected <=> Top(t).at # "connect"
  BY <1>0, <1>1, <1>2, <1>3, <1>7 DEF Starts
<1>9. Shapes' /\ Named'
  BY <1>0, <1>1, <1>2, <1>3, <1>4, <1>5 DEF Shapes, Named
<1>10. Sends'
  <2>1. OnlyOne(SendWork)'
    BY <1>0, <1>5, <1>6, <1>7 DEF Sends, OnlyOne
  <2> QED
    BY <2>1, <1>0, <1>4, <1>5 DEF Sends, Fits
<1>11. Receives'
  <2>1. OnlyOne(RecvWork)'
    BY <1>0, <1>5, <1>6, <1>7 DEF Receives, OnlyOne
  <2> QED
    BY <2>1, <1>0, <1>4, <1>5, <1>8 DEF Receives, Blank
<1>12. Leaves'
  <2>1. OnlyOne(LeaveWork)'
    BY <1>0, <1>5, <1>6, <1>7 DEF Leaves, OnlyOne
  <2>2. ASSUME NEW p \in Positions', frames'[p].at \in LeaveWork
        PROVE  /\ frames'[p].session \in service' \ connected'
               /\ frames'[p].session \in manager' <=> frames'[p].at = "unmanage"
    <3>1. p # top /\ frames'[p] = frames[p]
      BY <2>2, <1>4, <1>5 DEF LeaveWork
    <3> QED
      BY <2>2, <3>1, <1>0, <1>4, <1>5, <1>8 DEF Leaves
  <2> QED
    BY <2>1, <2>2 DEF Leaves
<1>13. \A r : Unborn(r)' <=> Unborn(r)
  BY <1>0 DEF Unborn
<1>14. \A r \in Sessions : Blank(r) => Blank(r)'
  BY <1>0, <1>4, <1>5 DEF Blank
<1>15. Births'
  BY <1>0, <1>2, <1>4, <1>5, <1>13, <1>14 DEF Births
<1>16. Starts'
  <2> SUFFICES ASSUME NEW r \in Sessions, NEW p \in Positions', Works(p, Early, r)'
               PROVE  /\ Blank(r)'
                      /\ \A u \in Positions' : frames'[u].session = r => u = p
                      /\ r \in connected' <=> frames'[p].at # "connect"
                      /\ r \in service' <=> frames'[p].at = "manage"
    BY DEF Starts
  <2>1. CASE p = top
    <3>1. r = s
      BY <2>1, <1>4, <1>5 DEF Works
    <3> QED
      BY <2>1, <3>1, <1>0, <1>3, <1>4, <1>5, <1>8, <1>14
  <2>2. CASE p # top
    <3>1. Works(p, Early, r) /\ frames'[p] = frames[p] /\ frames[p].session = r /\ r # s
      BY <2>2, <1>5, <1>6, <1>8 DEF Works
    <3>2. /\ Blank(r)
          /\ \A u \in Positions : frames[u].session = r => u = p
          /\ r \in connected <=> frames[p].at # "connect"
          /\ r \in service <=> frames[p].at = "manage"
      BY <3>1, <1>0, <1>5 DEF Starts
    <3> QED
      BY <2>2, <3>1, <3>2, <1>0, <1>4, <1>5, <1>14
  <2> QED
    BY <2>1, <2>2
<1>17. Registers'
  BY <1>0, <1>2, <1>4, <1>5, <1>6, <1>7 DEF Registers
<1>18. Offers'
  <2>1. OnlyOne(Connecting)'
    BY <1>0, <1>2, <1>5, <1>6, <1>7 DEF Offers, OnlyOne
  <2> QED
    BY <2>1, <1>0, <1>2, <1>5, <1>6, <1>7 DEF Offers
<1>19. Supports'
  BY <1>0, <1>2, <1>5, <1>6, <1>7 DEF Supports, Below, Place
<1> QED
  BY <1>9, <1>10, <1>11, <1>12, <1>15, <1>16, <1>17, <1>18, <1>19 DEF InductiveInvariant

LEMMA AddToManagerKeeps ==
    ASSUME InductiveInvariant, NEW t \in Threads, AddToManager(t)
    PROVE  InductiveInvariant'
<1> PICK top : top = Innermost(t)
  OBVIOUS
<1> PICK s : s = Top(t).session
  OBVIOUS
<1> PICK z : z = Frame("greet", s, {s})
  OBVIOUS
<1>0. /\ Shapes /\ Named /\ Sends /\ Receives /\ Leaves /\ Births /\ Starts
      /\ Registers /\ Offers /\ Supports
      /\ offered' = offered /\ listening' = listening /\ fresh' = fresh /\ connected' = connected
      /\ service' = service /\ room' = room /\ receiving' = receiving /\ send' = send
      /\ leaving' = leaving
  BY DEF InductiveInvariant, AddToManager, events
<1>1. Busy(t) /\ Become(t, <<z>>) /\ Top(t).at = "manage"
  BY DEF AddToManager, At, GotoSending
<1>2. /\ top \in Positions /\ frames[top] = Top(t) /\ Top(t) \in Frames
      /\ \A p \in Positions : Below(p) # top
  BY <1>0, <1>1, InnermostIsTop
<1>3. s \in Sessions /\ s # NoSession
  BY <1>0, <1>1, <1>2, SessionsAssumption DEF Named, Frames
<1>4. /\ z \in Frames /\ z.session = s /\ z.todo = {s} /\ z.at = "greet"
      /\ manager' = manager \cup {s}
  BY <1>3 DEF Frame, Frames, Places, Connecting, AddToManager
<1>5. /\ stack' \in [Threads -> Seq(Frames)] /\ Positions' = Positions
      /\ frames'[top] = z /\ \A p \in Positions : p # top => frames'[p] = frames[p]
  BY <1>0, <1>1, <1>4, OneCall
<1>6. \A p \in Positions \ {top} : \A places, r : Works(p, places, r)' <=> Works(p, places, r)
  BY <1>5 DEF Works
<1>7. /\ \A r : ~Works(top, SendWork, r)' /\ ~Works(top, LeaveWork, r)' /\ ~Works(top, Supported, r)'
      /\ \A r : Works(top, RecvWork, r) <=> Works(top, RecvWork, r)'
      /\ \A r : ~Works(top, Early, r)'
      /\ \A r : Works(top, Early, r) => r = s
      /\ \A r : Works(top, Connecting, r) <=> Works(top, Connecting, r)'
      /\ \A r : ~Works(top, LeaveWork, r) /\ ~Works(top, Supporting, r)
      /\ Works(top, Early, s)
  BY <1>1, <1>2, <1>4, <1>5
     DEF Works, SendWork, LeaveWork, Supported, Supporting, Disconnecting, RecvWork, Early, Connecting
<1>8. /\ \A p \in Positions : frames[p].session = s => p = top
      /\ s \in connected /\ s \in service /\ s \notin receiving
  BY <1>0, <1>1, <1>2, <1>3, <1>7 DEF Starts, Blank
<1>9. Shapes' /\ Named'
  BY <1>0, <1>1, <1>2, <1>3, <1>4, <1>5, ZenonT(30) DEF Shapes, Named
<1>10. Sends'
  <2>1. OnlyOne(SendWork)'
    BY <1>0, <1>5, <1>6, <1>7 DEF Sends, OnlyOne
  <2> QED
    BY <2>1, <1>0, <1>4, <1>5 DEF Sends, Fits
<1>11. Receives'
  <2>1. OnlyOne(RecvWork)'
    BY <1>0, <1>5, <1>6, <1>7 DEF Receives, OnlyOne
  <2> QED
    BY <2>1, <1>0, <1>4, <1>5, <1>8 DEF Receives
<1>12. Leaves'
  <2>1. OnlyOne(LeaveWork)'
    BY <1>0, <1>5, <1>6, <1>7 DEF Leaves, OnlyOne
  <2>2. ASSUME NEW p \in Positions', frames'[p].at \in LeaveWork
        PROVE  /\ frames'[p].session \in service' \ connected'
               /\ frames'[p].session \in manager' <=> frames'[p].at = "unmanage"
    <3>1. p # top /\ frames'[p] = frames[p]
      BY <2>2, <1>4, <1>5 DEF LeaveWork
    <3> QED
      BY <2>2, <3>1, <1>0, <1>4, <1>5, <1>8 DEF Leaves
  <2> QED
    BY <2>1, <2>2 DEF Leaves
<1>13. \A r : Unborn(r)' <=> Unborn(r)
  BY <1>0 DEF Unborn
<1>14. \A r \in Sessions : Blank(r) /\ r # s => Blank(r)'
  BY <1>0, <1>4, <1>5, ZenonT(30) DEF Blank
<1>15. Births'
  BY <1>0, <1>2, <1>4, <1>5, <1>13, <1>14 DEF Births
<1>16. Starts'
  <2> SUFFICES ASSUME NEW r \in Sessions, NEW p \in Positions', Works(p, Early, r)'
               PROVE  /\ Blank(r)'
                      /\ \A u \in Positions' : frames'[u].session = r => u = p
                      /\ r \in connected' <=> frames'[p].at # "connect"
                      /\ r \in service' <=> frames'[p].at = "manage"
    BY DEF Starts
  <2>1. p # top /\ p \in Positions
    BY <1>5, <1>7
  <2>2. Works(p, Early, r) /\ frames'[p] = frames[p] /\ frames[p].session = r
    BY <2>1, <1>5, <1>6 DEF Works
  <2>3. /\ Blank(r)
        /\ \A u \in Positions : frames[u].session = r => u = p
        /\ r \in connected <=> frames[p].at # "connect"
        /\ r \in service <=> frames[p].at = "manage"
    BY <2>1, <2>2, <1>0 DEF Starts
  <2>4. r # s
    BY <2>1, <2>3, <1>2
  <2> QED
    BY <2>1, <2>2, <2>3, <2>4, <1>0, <1>3, <1>4, <1>5, <1>14
<1>17. Registers'
  BY <1>0, <1>2, <1>4, <1>5, <1>6, <1>7, <1>8, SMTT(30) DEF Registers
<1>18. Offers'
  <2>1. OnlyOne(Connecting)'
    BY <1>0, <1>2, <1>5, <1>6, <1>7 DEF Offers, OnlyOne
  <2> QED
    BY <2>1, <1>0, <1>2, <1>5, <1>6, <1>7 DEF Offers
<1>19. Supports'
  BY <1>0, <1>2, <1>5, <1>6, <1>7 DEF Supports, Below, Place
<1> QED
  BY <1>9, <1>10, <1>11, <1>12, <1>15, <1>16, <1>17, <1>18, <1>19 DEF InductiveInvariant

\* A session is taken out of the flag, the manager and the service in turn.
LEMMA DisconnectingKeeps ==
    ASSUME InductiveInvariant, NEW t \in Threads,
           \/ Disconnect(t) /\ Top(t).session \in connected
           \/ RemoveFromManager(t)
           \/ ReleaseSession(t)
    PROVE  InductiveInvariant'
<1> PICK top : top = Innermost(t)
  OBVIOUS
<1> PICK s : s = Top(t).session
  OBVIOUS
<1> PICK z : z = Call(CASE Top(t).at = "disconnect" -> "unmanage"
                       [] Top(t).at = "unmanage" -> "leave"
                       [] Top(t).at = "unlist" -> "hangup", s)
  OBVIOUS
<1>0. /\ Shapes /\ Named /\ Sends /\ Receives /\ Leaves /\ Births /\ Starts
      /\ Registers /\ Offers /\ Supports
      /\ offered' = offered /\ listening' = listening /\ fresh' = fresh /\ room' = room
      /\ receiving' = receiving /\ send' = send /\ leaving' = leaving
  BY DEF InductiveInvariant, Disconnect, RemoveFromManager, ReleaseSession, events
<1>1. Busy(t) /\ Become(t, <<z>>) /\ Top(t).at \in {"disconnect", "unmanage", "unlist"}
  BY DEF Disconnect, RemoveFromManager, ReleaseSession, At, Goto
<1>2. /\ top \in Positions /\ frames[top] = Top(t) /\ Top(t) \in Frames
      /\ \A p \in Positions : Below(p) # top
  BY <1>0, <1>1, InnermostIsTop
<1>3. s \in Sessions /\ s # NoSession
  BY <1>0, <1>1, <1>2, SessionsAssumption DEF Named, Frames
<1>a. /\ z \in Frames /\ z.session = s /\ z.todo = {}
      /\ \/ /\ Top(t).at = "disconnect" /\ z.at = "unmanage" /\ s \in connected
            /\ connected' = connected \ {s} /\ service' = service /\ manager' = manager
         \/ /\ Top(t).at = "unmanage" /\ z.at = "leave"
            /\ connected' = connected /\ service' = service /\ manager' = manager \ {s}
         \/ /\ Top(t).at = "unlist" /\ z.at = "hangup"
            /\ connected' = connected /\ service' = service \ {s} /\ manager' = manager
  BY <1>3 DEF Call, Frame, Frames, Places, Disconnecting,
              Disconnect, RemoveFromManager, ReleaseSession, At
<1>b. Top(t).at \in LeaveWork <=> Top(t).at # "disconnect"
  BY <1>1 DEF LeaveWork
<1>c. Told(s)
  BY <1>1, <1>2, <1>3, WhoIsTold DEF Early
<1>d. \A p \in Positions \ {top} : ~Works(p, LeaveWork, s)
  BY <1>0, <1>2, <1>3, <1>a, <1>b DEF Leaves, OnlyOne, Works
<1>4. /\ z \in Frames /\ z.session = s /\ z.todo = {}
      /\ z.at \in {"unmanage", "leave", "hangup"}
      /\ connected' = connected \ {s}
      /\ service' = IF z.at = "hangup" THEN service \ {s} ELSE service
      /\ manager' = IF z.at = "unmanage" THEN manager ELSE manager \ {s}
      /\ s \in service /\ (s \in manager <=> z.at # "hangup" )
  <2>1. CASE Top(t).at = "disconnect"
    BY <2>1, <1>0, <1>3, <1>a, <1>c DEF Registers, Told
  <2>2. CASE Top(t).at # "disconnect"
    <3>1. /\ s \in service /\ s \notin connected
          /\ s \in manager <=> Top(t).at = "unmanage"
      BY <2>2, <1>0, <1>2, <1>b DEF Leaves
    <3> QED
      BY <2>2, <3>1, <1>a
  <2> QED
    BY <2>1, <2>2
<1>5. /\ stack' \in [Threads -> Seq(Frames)] /\ Positions' = Positions
      /\ frames'[top] = z /\ \A p \in Positions : p # top => frames'[p] = frames[p]
  BY <1>0, <1>1, <1>4, OneCall
<1>6. \A p \in Positions \ {top} : \A places, r : Works(p, places, r)' <=> Works(p, places, r)
  BY <1>5 DEF Works
<1>7. /\ \A r : ~Works(top, SendWork, r)' /\ ~Works(top, RecvWork, r)'
      /\ \A r : ~Works(top, Early, r)'
      /\ \A r : ~Works(top, Early, r) /\ ~Works(top, Connecting, r)
      /\ \A r : ~Works(top, Connecting, r)'
      /\ \A r : Works(top, LeaveWork, r) \/ Works(top, LeaveWork, r)' => r = s
      /\ z.at # "hangup" => Works(top, LeaveWork, s)'
      /\ \A r : Works(top, Supported, r) <=> Works(top, Supported, r)'
      /\ \A r : ~Works(top, Supporting, r)
  BY <1>1, <1>2, <1>4, <1>5
     DEF Works, SendWork, LeaveWork, Supported, Supporting, Disconnecting, RecvWork, Early, Connecting
<1>9. Shapes' /\ Named'
  BY <1>0, <1>1, <1>2, <1>3, <1>4, <1>5 DEF Shapes, Named
<1>10. Sends'
  <2>1. OnlyOne(SendWork)'
    BY <1>0, <1>5, <1>6, <1>7 DEF Sends, OnlyOne
  <2> QED
    BY <2>1, <1>0, <1>4, <1>5 DEF Sends, Fits
<1>11. Receives'
  <2>1. OnlyOne(RecvWork)'
    BY <1>0, <1>5, <1>6, <1>7 DEF Receives, OnlyOne
  <2>2. z.at \notin RecvWork
    BY <1>4 DEF RecvWork
  <2> QED
    BY <2>1, <2>2, <1>0, <1>5 DEF Receives
<1>12. Leaves'
  <2>1. OnlyOne(LeaveWork)'
    BY <1>0, <1>5, <1>6, <1>7, <1>d DEF Leaves, OnlyOne
  <2>2. ASSUME NEW p \in Positions', frames'[p].at \in LeaveWork
        PROVE  /\ frames'[p].session \in service' \ connected'
               /\ frames'[p].session \in manager' <=> frames'[p].at = "unmanage"
    <3>1. CASE p = top
      <4>1. z.at # "hangup"
        BY <2>2, <3>1, <1>5 DEF LeaveWork
      <4> QED
        BY <3>1, <4>1, <1>4, <1>5
    <3>2. CASE p # top
      <4>1. frames'[p] = frames[p] /\ frames[p].session # s
        BY <2>2, <3>2, <1>5, <1>d DEF Works
      <4> QED
        BY <2>2, <3>2, <4>1, <1>0, <1>4, <1>5 DEF Leaves
    <3> QED
      BY <3>1, <3>2
  <2> QED
    BY <2>1, <2>2 DEF Leaves
<1>13. \A r : Unborn(r)' <=> Unborn(r)
  BY <1>0 DEF Unborn
<1>14. \A r \in Sessions : Blank(r) => Blank(r)'
  BY <1>0, <1>4, <1>5 DEF Blank
<1>15. Births'
  BY <1>0, <1>2, <1>4, <1>5, <1>13, <1>14 DEF Births
<1>16. Starts'
  <2> SUFFICES ASSUME NEW r \in Sessions, NEW p \in Positions', Works(p, Early, r)'
               PROVE  /\ Blank(r)'
                      /\ \A u \in Positions' : frames'[u].session = r => u = p
                      /\ r \in connected' <=> frames'[p].at # "connect"
                      /\ r \in service' <=> frames'[p].at = "manage"
    BY DEF Starts
  <2>1. p # top /\ p \in Positions
    BY <1>5, <1>7
  <2>2. Works(p, Early, r) /\ frames'[p] = frames[p] /\ frames[p].session = r
    BY <2>1, <1>5, <1>6 DEF Works
  <2>3. /\ Blank(r)
        /\ \A u \in Positions : frames[u].session = r => u = p
        /\ r \in connected <=> frames[p].at # "connect"
        /\ r \in service <=> frames[p].at = "manage"
    BY <2>1, <2>2, <1>0 DEF Starts
  <2>4. r # s
    BY <2>1, <2>3, <1>2
  <2> QED
    BY <2>1, <2>2, <2>3, <2>4, <1>0, <1>3, <1>4, <1>5, <1>14
<1>17. Registers'
  <2> SUFFICES ASSUME NEW r \in Sessions
               PROVE  /\ r \in connected' =>
                            \/ r \in service' \cap manager'
                            \/ \E p \in Positions' : Works(p, Early, r)'
                      /\ r \notin connected' =>
                            \/ r \notin service' \cup manager'
                            \/ \E p \in Positions' : Works(p, LeaveWork, r)'
    BY DEF Registers
  <2>1. CASE r = s
    BY <2>1, <1>2, <1>4, <1>5, <1>7
  <2>2. CASE r # s
    BY <2>2, <1>0, <1>4, <1>5, <1>6, <1>7 DEF Registers
  <2> QED
    BY <2>1, <2>2
<1>18. Offers'
  <2>1. OnlyOne(Connecting)'
    BY <1>0, <1>2, <1>5, <1>6, <1>7 DEF Offers, OnlyOne
  <2> QED
    BY <2>1, <1>0, <1>2, <1>5, <1>6, <1>7 DEF Offers
<1>19. Supports'
  <2> SUFFICES ASSUME NEW r \in Sessions, NEW p \in Positions', Works(p, Supported, r)'
               PROVE  /\ Below(p) \in Positions'
                      /\ Works(Below(p), Supporting, r)'
    BY DEF Supports, Below
  <2>1. p \in Positions /\ Works(p, Supported, r)
    BY <1>5, <1>6, <1>7
  <2> QED
    BY <2>1, <1>0, <1>2, <1>5, <1>6 DEF Supports
<1> QED
  BY <1>9, <1>10, <1>11, <1>12, <1>15, <1>16, <1>17, <1>18, <1>19 DEF InductiveInvariant

LEMMA AcceptNextKeeps ==
    ASSUME InductiveInvariant, NEW t \in Threads, AcceptNext(t)
    PROVE  InductiveInvariant'
<1> PICK top : top = Innermost(t)
  OBVIOUS
<1> PICK s : s = Top(t).session
  OBVIOUS
<1>0. /\ Shapes /\ Named /\ Sends /\ Receives /\ Leaves /\ Births /\ Starts
      /\ Registers /\ Offers /\ Supports
      /\ connected' = connected /\ service' = service /\ manager' = manager
      /\ room' = room /\ receiving' = receiving /\ send' = send /\ leaving' = leaving
  BY DEF InductiveInvariant, AcceptNext
<1>1. Busy(t) /\ Return(t) /\ Top(t).at = "accept"
  BY DEF AcceptNext, At
<1>2. /\ top \in Positions /\ frames[top] = Top(t) /\ Top(t) \in Frames
      /\ \A p \in Positions : Below(p) # top
  BY <1>0, <1>1, InnermostIsTop
<1>3. s \in Sessions /\ s # NoSession
  BY <1>0, <1>1, <1>2, SessionsAssumption DEF Named, Frames
<1>4. PICK e \in Accepts :
        /\ offered[e] = s
        /\ \/ \E r \in fresh : /\ offered' = [offered EXCEPT ![e] = r]
                               /\ listening' = listening \cup {e}
                               /\ fresh' = fresh \ {r}
           \/ /\ offered' = [offered EXCEPT ![e] = NoSession]
              /\ listening' = listening /\ fresh' = fresh
  BY DEF AcceptNext, RegisterAccept
<1>5. /\ stack' \in [Threads -> Seq(Frames)] /\ Positions' = Positions \ {top}
      /\ \A p \in Positions' : frames'[p] = frames[p]
  BY <1>0, <1>1, OneCallLess
<1>6. \A p \in Positions' : \A places, r : Works(p, places, r)' <=> Works(p, places, r)
  BY <1>5 DEF Works
<1>7. /\ \A r : ~Works(top, LeaveWork, r) /\ ~Works(top, Early, r)
      /\ \A r : Works(top, Connecting, r) => r = s
  BY <1>1, <1>2 DEF Works, LeaveWork, Early
<1>8. ~Unborn(s)
  BY <1>0, <1>2, <1>3 DEF Births
<1>9. /\ offered' \in [Accepts -> Sessions \cup {NoSession}]
      /\ listening' \subseteq Accepts /\ fresh' \subseteq Sessions
      /\ \A d \in Accepts \ {e} : offered'[d] = offered[d]
      /\ e \notin listening
      /\ \/ /\ offered'[e] \in fresh /\ fresh' = fresh \ {offered'[e]}
            /\ listening' = listening \cup {e}
         \/ offered'[e] = NoSession /\ listening' = listening /\ fresh' = fresh
  <2>1. e \notin listening
    BY <1>4, <1>8 DEF Unborn
  <2> QED
    BY <2>1, <1>0, <1>4 DEF Shapes
<1>10. Shapes' /\ Named'
  BY <1>0, <1>5, <1>9 DEF Shapes, Named
<1>11. Sends'
  <2>1. OnlyOne(SendWork)'
    BY <1>0, <1>5, <1>6 DEF Sends, OnlyOne
  <2> QED
    BY <2>1, <1>0, <1>5 DEF Sends, Fits
<1>12. Receives' /\ Leaves'
  <2>1. OnlyOne(RecvWork)' /\ OnlyOne(LeaveWork)'
    BY <1>0, <1>5, <1>6 DEF Receives, Leaves, OnlyOne
  <2> QED
    BY <2>1, <1>0, <1>5 DEF Receives, Leaves
<1>13. \A r \in Sessions : Unborn(r)' => Unborn(r)
  <2> SUFFICES ASSUME NEW r \in Sessions, NEW d \in listening', offered'[d] = r
               PROVE  Unborn(r)
    BY <1>9 DEF Unborn
  <2>1. CASE d = e
    BY <2>1, <1>3, <1>9, SessionsAssumption DEF Unborn
  <2>2. CASE d # e
    <3>1. d \in listening /\ offered[d] = r
      BY <2>2, <1>9
    <3> QED
      BY <3>1 DEF Unborn
  <2> QED
    BY <2>1, <2>2
<1>14. \A r \in Sessions : Blank(r) => Blank(r)'
  BY <1>0, <1>5 DEF Blank
<1>15. Births'
  BY <1>0, <1>5, <1>13, <1>14 DEF Births
<1>16. Starts'
  BY <1>0, <1>5, <1>6, <1>14 DEF Starts
<1>17. Registers'
  BY <1>0, <1>5, <1>6, <1>7 DEF Registers
<1>18. Offers'
  <2>1. \A d \in Accepts : d # e => offered[d] # s
    BY <1>0, <1>3, <1>4 DEF Offers
  <2>2. \A d, c \in Accepts : offered'[d] = offered'[c] /\ offered'[d] # NoSession => d = c
    BY <1>0, <1>9 DEF Offers
  <2>3. \A d \in Accepts : offered'[d] \notin fresh'
    BY <1>0, <1>9, SessionsAssumption DEF Offers, Shapes
  <2>4. \A d \in listening' : offered'[d] # NoSession
    BY <1>0, <1>9, SessionsAssumption DEF Offers, Shapes
  <2>5. ASSUME NEW d \in Accepts
        PROVE  \/ d \in listening' \/ offered'[d] = NoSession
               \/ \E p \in Positions' : p[2] = 1 /\ Works(p, Connecting, offered[d])'
    <3>1. CASE d = e
      BY <3>1, <1>9
    <3>2. CASE d # e
      <4>1. offered'[d] = offered[d] /\ (d \in listening <=> d \in listening')
        BY <3>2, <1>9
      <4>2. CASE \E p \in Positions : p[2] = 1 /\ Works(p, Connecting, offered[d])
        <5>1. PICK p \in Positions : p[2] = 1 /\ Works(p, Connecting, offered[d])
          BY <4>2
        <5>2. p # top
          BY <5>1, <3>2, <2>1, <1>7
        <5>3. p \in Positions' /\ frames'[p] = frames[p]
          BY <5>2, <1>5
        <5> QED
          BY <5>1, <5>3, <4>1 DEF Works
      <4> QED
        BY <4>1, <4>2, <1>0 DEF Offers
    <3> QED
      BY <3>1, <3>2
  <2>6. OnlyOne(Connecting)'
    BY <1>0, <1>5, <1>6 DEF Offers, OnlyOne
  <2> QED
    BY <2>2, <2>3, <2>4, <2>5, <2>6 DEF Offers
<1>19. Supports'
  <2> SUFFICES ASSUME NEW r \in Sessions, NEW p \in Positions', Works(p, Supported, r)'
               PROVE  /\ Below(p) \in Positions'
                      /\ Works(Below(p), Supporting, r)'
    BY DEF Supports, Below
  <2>1. p \in Positions /\ Works(p, Supported, r)
    BY <1>5, <1>6
  <2> QED
    BY <2>1, <1>0, <1>2, <1>5, <1>6 DEF Supports
<1> QED
  BY <1>10, <1>11, <1>12, <1>15, <1>16, <1>17, <1>18, <1>19 DEF InductiveInvariant

LEMMA TopIsTold ==
    ASSUME InductiveInvariant, NEW t \in Threads, Busy(t)
    PROVE  /\ Top(t) \in Frames
           /\ Top(t).at \notin {"update", "lost"} => Top(t).session \in Sessions
           /\ \A r \in Top(t).todo \cup room : r \in Sessions /\ Told(r)
           /\ Top(t).at \notin Early \cup {"update", "lost"} => Told(Top(t).session)
<1> PICK top : top = Innermost(t)
  OBVIOUS
<1>1. Shapes /\ Named
  BY DEF InductiveInvariant
<1>2. top \in Positions /\ frames[top] = Top(t) /\ Top(t) \in Frames
  BY <1>1, InnermostIsTop
<1>3. Top(t).at \notin {"update", "lost"} => Top(t).session \in Sessions
  BY <1>1, <1>2 DEF Named, Frames
<1>4. Top(t).todo \cup room \subseteq Sessions
  BY <1>1, <1>2 DEF Shapes, Frames
<1> QED
  BY <1>2, <1>3, <1>4, WhoIsTold

\* The innermost call finds the send event as it should be.
LEMMA TopFits ==
    ASSUME InductiveInvariant, NEW t \in Threads, Busy(t)
    PROVE  Fits(Top(t), send[Top(t).session])
  BY InnermostIsTop DEF InductiveInvariant, Sends

\* A call goes on at another place and nothing else changes.
LEMMA PlaceKeeps ==
    ASSUME InductiveInvariant, NEW t \in Threads, Busy(t),
           NEW place \in Places, NEW todo,
           GotoSending(t, place, todo), Alike(place, Top(t).at),
           Top(t).at \notin Early \cup {"update", "lost", "send"} \cup SendWork,
           \A r \in todo : r \in room' \cup {Top(t).session},
           room' \subseteq room \cup {Top(t).session},
           UNCHANGED <<events, connected, service, manager, receiving, send, leaving>>
    PROVE  InductiveInvariant'
<1> PICK s : s = Top(t).session
  OBVIOUS
<1> PICK f : f = send
  OBVIOUS
<1>1. s \in Sessions /\ Told(s) /\ \A r \in room : r \in Sessions /\ Told(r)
  BY TopIsTold
<1> PICK z : z = Frame(place, s, todo)
  OBVIOUS
<1>2. z \in Frames /\ z.at = place /\ z.session = s /\ z.todo = todo /\ Become(t, <<z>>)
  BY <1>1 DEF Frame, Frames, GotoSending
<1>3. z.at \notin SendWork
  BY <1>2, AlikeKeepsWork
<1>4. GoesOnAs(z, Top(t)) /\ Fits(z, f[z.session])
  BY <1>2, <1>3 DEF GoesOnAs, Fits, SendWork
<1>5. send' = f /\ SendsAs(Top(t), f)
  BY DEF SendsAs, InductiveInvariant, Shapes
<1>6. room' \subseteq Sessions /\ \A r \in z.todo \cup room' : Told(r)
  BY <1>1, <1>2
<1> QED
  BY <1>2, <1>4, <1>5, <1>6, GoesOnKeeps

\* The steps that only lead on.
LEMMA LeadingOnKeeps ==
    ASSUME InductiveInvariant, NEW t \in Threads,
           \/ TellRoom(t) \/ BeforeEnter(t) \/ AfterEnter(t) \/ Handled(t) \/ AfterLeave(t)
    PROVE  InductiveInvariant'
<1> PICK s : s = Top(t).session
  OBVIOUS
<1>1. Busy(t)
  BY DEF TellRoom, BeforeEnter, AfterEnter, Handled, AfterLeave, At
<1>2. /\ UNCHANGED <<events, connected, service, manager, room, receiving, send, leaving>>
      /\ \E place \in Places, todo \in SUBSET {s} :
            /\ GotoSending(t, place, todo) /\ Alike(place, Top(t).at)
            /\ Top(t).at \notin Early \cup {"update", "lost", "send"} \cup SendWork
  <2>1. CASE TellRoom(t)
    BY <2>1 DEF TellRoom, At, Alike, Settling, Places, Connecting, Early, SendWork
  <2>2. CASE BeforeEnter(t)
    BY <2>2 DEF BeforeEnter, At, Alike, Settling, Places, Connecting, Early, SendWork,
                Goto, GotoSending, Call
  <2>3. CASE AfterEnter(t)
    BY <2>3 DEF AfterEnter, At, Alike, Settling, Places, Connecting, Early, SendWork,
                Goto, GotoSending, Call
  <2>4. CASE Handled(t)
    BY <2>4 DEF Handled, At, Alike, Places, Dispatching, Early, SendWork,
                Goto, GotoSending, Call
  <2>5. CASE AfterLeave(t)
    BY <2>5 DEF AfterLeave, At, Alike, Places, Disconnecting, Early, SendWork,
                Goto, GotoSending, Call
  <2> QED
    BY <2>1, <2>2, <2>3, <2>4, <2>5
<1>3. PICK place \in Places, todo \in SUBSET {s} :
        /\ GotoSending(t, place, todo) /\ Alike(place, Top(t).at)
        /\ Top(t).at \notin Early \cup {"update", "lost", "send"} \cup SendWork
  BY <1>2
<1>4. UNCHANGED <<events, connected, service, manager, receiving, send, leaving>> /\ room' = room
  BY <1>2
<1> QED
  BY <1>1, <1>3, <1>4, PlaceKeeps

\* A player enters the room or leaves it.
LEMMA RoomKeeps ==
    ASSUME InductiveInvariant, NEW t \in Threads, EnterRoom(t) \/ LeaveRoom(t)
    PROVE  InductiveInvariant'
<1> PICK s : s = Top(t).session
  OBVIOUS
<1>1. /\ Busy(t) /\ Top(t).at \notin Early \cup {"update", "lost", "send"} \cup SendWork
      /\ UNCHANGED <<events, connected, service, manager, receiving, send, leaving>>
  BY DEF EnterRoom, LeaveRoom, At, Early, SendWork
<1>2. /\ room' \subseteq room \cup {s}
      /\ \E place \in Places, todo \in {{}, room'} :
            GotoSending(t, place, todo) /\ Alike(place, Top(t).at)
  <2>1. CASE EnterRoom(t)
    BY <2>1 DEF EnterRoom, At, Alike, Settling, Places, Connecting
  <2>2. CASE LeaveRoom(t)
    <3>1. /\ Top(t).at = "leave" /\ room' = room \ {s}
          /\ GotoSending(t, "farewell", room') \/ GotoSending(t, "unlist", {})
      BY <2>2 DEF LeaveRoom, At, Goto, GotoSending, Call
    <3> QED
      BY <3>1 DEF Alike, Places, Disconnecting
  <2> QED
    BY <2>1, <2>2
<1>3. PICK place \in Places, todo \in {{}, room'} :
        GotoSending(t, place, todo) /\ Alike(place, Top(t).at)
  BY <1>2
<1>4. \A r \in todo : r \in room' \cup {s}
  BY <1>3
<1> QED
  BY <1>1, <1>2, <1>3, <1>4, PlaceKeeps

LEMMA RegisterRecvKeeps ==
    ASSUME InductiveInvariant, NEW t \in Threads, RegisterRecv(t)
    PROVE  InductiveInvariant'
<1> PICK s : s = Top(t).session
  OBVIOUS
<1> PICK then : then = IF Top(t).at = "receive" THEN "accept" ELSE "return"
  OBVIOUS
<1> PICK z : z = Call(then, s)
  OBVIOUS
<1> PICK y : y = Call("post", s)
  OBVIOUS
<1>1. /\ Busy(t) /\ Top(t).at \in {"receive", "again"}
      /\ UNCHANGED <<events, connected, service, manager, room, receiving, send, leaving>>
      /\ GotoSending(t, then, {}) \/ Become(t, <<y, z>>)
  BY DEF RegisterRecv, At, Goto, GotoSending, Call
<1>2. /\ Top(t).at \notin Early \cup {"update", "lost", "send"} \cup SendWork
      /\ then \in Places /\ Alike(then, Top(t).at) /\ then \in {"accept", "return"}
  BY <1>1 DEF Early, SendWork, Places, Connecting, Dispatching, Alike, Settling
<1>3. s \in Sessions
  BY <1>1, <1>2, TopIsTold
<1>4. CASE GotoSending(t, then, {})
  <2>1. room' = room
    BY <1>1
  <2> PICK none : none = {}
    OBVIOUS
  <2>2. GotoSending(t, then, none) /\ \A r \in none : r \in room' \cup {s}
    BY <1>4
  <2>3. UNCHANGED <<events, connected, service, manager, receiving, send, leaving>>
    BY <1>1
  <2> QED
    BY <1>1, <1>2, <2>1, <2>2, <2>3, PlaceKeeps
<1>5. CASE Become(t, <<y, z>>)
  <2>1. /\ z \in Frames /\ z.at = then /\ z.session = s /\ z.todo = {}
        /\ y \in Frames /\ y.at = "post" /\ y.session = s /\ y.todo = {}
    BY <1>2, <1>3 DEF Call, Frame, Frames, Places, Registering
  <2>2. GoesOnAs(z, Top(t)) /\ Fits(z, send[z.session])
    BY <1>2, <2>1 DEF GoesOnAs, Fits, SendWork
  <2> QED
    BY <1>1, <1>2, <1>3, <1>5, <2>1, <2>2, CallsKeep
<1> QED
  BY <1>1, <1>4, <1>5

LEMMA PostRecvKeeps ==
    ASSUME InductiveInvariant, NEW t \in Threads, PostRecv(t)
    PROVE  InductiveInvariant'
<1> PICK s : s = Top(t).session
  OBVIOUS
<1> PICK f : f = send
  OBVIOUS
<1>1. /\ Busy(t) /\ Top(t).at = "post"
      /\ UNCHANGED <<events, connected, service, manager, room, send, leaving>>
      /\ \/ Return(t) /\ receiving' \in {receiving, receiving \cup {s}}
         \/ GotoSending(t, "disconnect", {}) /\ receiving' = receiving
  BY DEF PostRecv, At, Goto, GotoSending, Call
<1>2. Top(t).at \notin Early \cup {"update", "lost", "send"} \cup SendWork
  BY <1>1 DEF Early, SendWork
<1>3. s \in Sessions /\ receiving \subseteq Sessions /\ leaving \subseteq Sessions
  BY <1>1, <1>2, TopIsTold DEF InductiveInvariant, Shapes
<1>4. send' = f /\ SendsAs(Top(t), f)
  BY <1>1 DEF SendsAs, InductiveInvariant, Shapes
<1>5. CASE Return(t) /\ receiving' \in {receiving, receiving \cup {s}}
  BY <1>1, <1>3, <1>4, <1>5, ReturnKeeps DEF Ending
<1>6. CASE GotoSending(t, "disconnect", {}) /\ receiving' = receiving
  <2> PICK place, none : place = "disconnect" /\ none = {}
    OBVIOUS
  <2>1. place \in Places /\ Alike(place, Top(t).at) /\ GotoSending(t, place, none)
    BY <1>1, <1>6 DEF Places, Disconnecting, Alike
  <2>2. /\ room' = room
        /\ UNCHANGED <<events, connected, service, manager, receiving, send, leaving>>
    BY <1>1, <1>6
  <2>3. \A r \in none : r \in room' \cup {s}
    OBVIOUS
  <2> QED
    BY <1>1, <1>2, <2>1, <2>2, <2>3, PlaceKeeps
<1> QED
  BY <1>1, <1>5, <1>6

LEMMA SendNextKeeps ==
    ASSUME InductiveInvariant, NEW t \in Threads, SendNext(t)
    PROVE  InductiveInvariant'
<1> PICK f : f = send
  OBVIOUS
<1>1. /\ Busy(t)
      /\ UNCHANGED <<events, connected, service, manager, room, receiving, send, leaving>>
  BY DEF SendNext
<1>2. PICK s \in Top(t).todo :
        LET below == <<[Top(t) EXCEPT !.todo = @ \ {s}]>>
        IN  Become(t, below) \/ Become(t, <<Call("send", s)>> \o below)
  BY DEF SendNext
<1> PICK z : z = [Top(t) EXCEPT !.todo = @ \ {s}]
  OBVIOUS
<1> PICK y : y = Call("send", s)
  OBVIOUS
<1>3. /\ Top(t) \in Frames /\ s \in Sessions /\ Told(s)
      /\ \A r \in Top(t).todo \cup room : Told(r)
      /\ room \subseteq Sessions
  BY <1>1, TopIsTold
<1>4. /\ z \in Frames /\ z.at = Top(t).at /\ z.session = Top(t).session
      /\ z.todo = Top(t).todo \ {s}
      /\ y \in Frames /\ y.at = "send" /\ y.session = s /\ y.todo = {}
  BY <1>3 DEF Frames, Call, Frame, Places, Registering
<1>5. GoesOnAs(z, Top(t)) /\ Fits(z, f[z.session])
  BY <1>1, <1>4, TopFits DEF GoesOnAs, Alike, Fits, SendWork
<1>6. SendsAs(Top(t), f)
  BY DEF SendsAs, InductiveInvariant, Shapes
<1>7. CASE Become(t, <<z>>)
  <2>1. room' \subseteq Sessions /\ \A r \in z.todo \cup room' : Told(r)
    BY <1>1, <1>3, <1>4
  <2> QED
    BY <1>1, <1>4, <1>5, <1>6, <1>7, <2>1, GoesOnKeeps
<1>8. CASE Become(t, <<y, z>>)
  <2>1. \A r \in z.todo : Told(r)
    BY <1>3, <1>4
  <2> QED
    BY <1>1, <1>3, <1>4, <1>5, <1>8, <2>1, CallsKeep
<1>9. <<y>> \o <<z>> = <<y, z>>
  BY <1>4, PutBefore
<1> QED
  BY <1>2, <1>7, <1>8, <1>9

\* The steps of Send and RegisterSend, and of giving the event up.
LEMMA SendingKeeps ==
    ASSUME InductiveInvariant, NEW t \in Threads,
           \/ Send(t) \/ RegisterSend(t) \/ OwnSend(t) \/ SubmitSend(t) \/ Forget(t)
           \/ Clear(t)
    PROVE  InductiveInvariant'
<1> PICK s : s = Top(t).session
  OBVIOUS
<1> PICK o : o = Top(t)
  OBVIOUS
<1>1. /\ Busy(t) /\ o.at \in SendWork \cup {"send"}
      /\ UNCHANGED <<events, connected, service, manager, room, receiving, leaving>>
  BY DEF Send, RegisterSend, OwnSend, SubmitSend, Forget, Clear, At, SendWork
<1>2. s \in Sessions /\ Told(s)
  BY <1>1, TopIsTold DEF Early, SendWork
<1>3. send \in [Sessions -> SendStates] /\ room \subseteq Sessions /\ \A r \in room : Told(r)
  BY <1>1, TopIsTold DEF InductiveInvariant, Shapes
\* What each of them comes to.
<1>4. \/ /\ Return(t)
         /\ \/ send' = send
            \/ o.at \in SendWork /\ \E v \in SendStates : send' = [send EXCEPT ![s] = v]
      \/ \E place \in SendWork, v \in SendStates :
            /\ Goto(t, place) /\ send' = [send EXCEPT ![s] = v]
            /\ Fits(Call(place, s), v)
            /\ o.at \in SendWork \/ (place = "register" /\ send[s] = "free")
      \/ /\ o.at = "submit" /\ send' = send
         /\ Become(t, <<Call("disconnect", s), Call("forget", s)>>)
  <2>1. CASE Send(t)
    BY <2>1, <1>2, <1>3 DEF Send, Call, Frame, Fits, SendStates, SendWork
  <2>2. CASE RegisterSend(t)
    <3>1. send[s] = "taken" /\ o.at = "register"
      BY <2>2, <1>1, TopFits DEF Fits, RegisterSend, At
    <3>2. send = [send EXCEPT ![s] = "taken"]
      BY <3>1, <1>2, <1>3
    <3> QED
      BY <2>2, <3>1, <3>2, <1>2, <1>3 DEF RegisterSend, Call, Frame, Fits, SendStates, SendWork
  <2>3. CASE OwnSend(t)
    BY <2>3, <1>2, <1>3 DEF OwnSend, At, Call, Frame, Fits, SendStates, SendWork
  <2>4. CASE SubmitSend(t)
    <3>1. send[s] = "held" /\ o.at = "submit"
      BY <2>4, <1>1, TopFits DEF Fits, SubmitSend, At
    <3>2. send = [send EXCEPT ![s] = "held"]
      BY <3>1, <1>2, <1>3
    <3> QED
      BY <2>4, <3>1, <3>2, <1>2, <1>3
         DEF SubmitSend, Refused, Call, Frame, Fits, SendStates, SendWork
  <2>5. CASE Forget(t)
    BY <2>5, <1>2, <1>3 DEF Forget, At, Call, Frame, Fits, SendStates, SendWork
  <2>6. CASE Clear(t)
    BY <2>6, <1>2, <1>3 DEF Clear, At, SendStates, SendWork
  <2> QED
    BY <2>1, <2>2, <2>3, <2>4, <2>5, <2>6
<1>5. CASE /\ Return(t)
           /\ \/ send' = send
              \/ o.at \in SendWork /\ \E v \in SendStates : send' = [send EXCEPT ![s] = v]
  <2> PICK f : f = send'
    OBVIOUS
  <2>1. SendsAs(Top(t), f)
    BY <1>3, <1>5 DEF SendsAs
  <2>2. receiving \subseteq Sessions /\ leaving \subseteq Sessions
    BY DEF InductiveInvariant, Shapes
  <2>3. Top(t).at \in Ending
    BY <1>1 DEF Ending
  <2>4. send' = f
    OBVIOUS
  <2> QED
    BY <1>1, <1>5, <2>1, <2>2, <2>3, <2>4, ReturnKeeps
<1>6. ASSUME NEW place \in SendWork, NEW v \in SendStates,
             Goto(t, place), send' = [send EXCEPT ![s] = v],
             Fits(Call(place, s), v),
             o.at \in SendWork \/ (place = "register" /\ send[s] = "free")
      PROVE  InductiveInvariant'
  <2> PICK z : z = Call(place, s)
    OBVIOUS
  <2> PICK f : f = [send EXCEPT ![s] = v]
    OBVIOUS
  <2>1. z \in Frames /\ z.at = place /\ z.session = s /\ z.todo = {} /\ Become(t, <<z>>)
    BY <1>2, <1>6 DEF Call, Frame, Frames, Places, Registering, SendWork, Goto
  <2>2. Alike(place, o.at)
    <3>1. CASE o.at = "send"
      BY <1>6, <3>1 DEF Alike, SendWork
    <3> QED
      BY <3>1, <1>1, <1>6 DEF Alike
  <2>3. GoesOnAs(z, Top(t)) /\ Fits(z, f[z.session])
    BY <1>2, <1>3, <1>6, <2>1, <2>2 DEF GoesOnAs, SendWork
  <2>4. send' = f /\ SendsAs(Top(t), f)
    BY <1>1, <1>2, <1>3, <1>6 DEF SendsAs
  <2>5. room' \subseteq Sessions /\ \A r \in z.todo \cup room' : Told(r)
    BY <1>1, <1>3, <2>1
  <2> QED
    BY <1>1, <2>1, <2>3, <2>4, <2>5, GoesOnKeeps
<1>7. CASE /\ o.at = "submit" /\ send' = send
           /\ Become(t, <<Call("disconnect", s), Call("forget", s)>>)
  <2> PICK z : z = Call("forget", s)
    OBVIOUS
  <2> PICK y : y = Call("disconnect", s)
    OBVIOUS
  <2>1. /\ z \in Frames /\ z.at = "forget" /\ z.session = s /\ z.todo = {}
        /\ y \in Frames /\ y.at = "disconnect" /\ y.session = s /\ y.todo = {}
    BY <1>2 DEF Call, Frame, Frames, Places, Registering, Disconnecting
  <2>2. GoesOnAs(z, Top(t)) /\ Fits(z, send[z.session])
    BY <1>1, <1>7, <2>1, TopFits DEF GoesOnAs, Alike, SendWork, Fits
  <2>3. Become(t, <<y, z>>) /\ z.at \in Supporting /\ \A r \in z.todo : Told(r)
    BY <1>7, <2>1 DEF Supporting
  <2> QED
    BY <1>1, <1>2, <1>7, <2>1, <2>2, <2>3, CallsKeep
<1> QED
  BY <1>4, <1>5, <1>6, <1>7

LEMMA UseDestroyedKeeps ==
    ASSUME InductiveInvariant, NEW t \in Threads, UseDestroyed(t)
    PROVE  InductiveInvariant'
<1> PICK z : z = Call("lost", NoSession)
  OBVIOUS
<1> PICK f : f = send
  OBVIOUS
<1>1. /\ Busy(t) /\ Top(t).at \in {"send", "register", "own", "clear"} /\ Become(t, <<z>>)
      /\ UNCHANGED <<events, connected, service, manager, room, receiving, send, leaving>>
  BY DEF UseDestroyed, At
<1>2. z \in Frames /\ z.at = "lost" /\ z.session = NoSession /\ z.todo = {}
  BY DEF Call, Frame, Frames, Places
<1>3. GoesOnAs(z, Top(t)) /\ Fits(z, f[z.session])
  BY <1>1, <1>2 DEF GoesOnAs, Fits
<1>4. send' = f /\ SendsAs(Top(t), f)
  BY <1>1 DEF SendsAs, InductiveInvariant, Shapes
<1>5. room' \subseteq Sessions /\ \A r \in z.todo \cup room' : Told(r)
  BY <1>1, <1>2, TopIsTold
<1> QED
  BY <1>1, <1>2, <1>3, <1>4, <1>5, GoesOnKeeps

\* The steps by which a call only returns.
LEMMA ReturningKeeps ==
    ASSUME InductiveInvariant, NEW t \in Threads,
           \/ Returned(t) \/ RegisterDisconnect(t)
           \/ Disconnect(t) /\ Top(t).session \notin connected
    PROVE  InductiveInvariant'
<1> PICK s : s = Top(t).session
  OBVIOUS
<1> PICK f : f = send
  OBVIOUS
<1>0. receiving \subseteq Sessions /\ leaving \subseteq Sessions
  BY DEF InductiveInvariant, Shapes
<1>1. /\ Busy(t) /\ Return(t) /\ Top(t).at \in {"return", "update", "hangup", "disconnect"}
      /\ service' = service /\ manager' = manager
      /\ UNCHANGED <<events, room, receiving, send>>
  BY DEF Returned, RegisterDisconnect, Disconnect, At
<1>2. connected' = connected
  BY DEF Returned, RegisterDisconnect, Disconnect, InductiveInvariant, Shapes
<1>3. leaving' = leaving \/ (leaving' = leaving \cup {s} /\ Top(t).at = "hangup")
  BY DEF Returned, RegisterDisconnect, Disconnect, At
<1>4. leaving' \subseteq Sessions
  BY <1>1, <1>3, <1>0, TopIsTold
<1>5. send' = f /\ SendsAs(Top(t), f)
  BY <1>1 DEF SendsAs, InductiveInvariant, Shapes
<1>6. UNCHANGED <<events, connected, service, manager, room, receiving>>
  BY <1>1, <1>2
<1> QED
  BY <1>0, <1>1, <1>3, <1>4, <1>5, <1>6, ReturnKeeps DEF Ending

\* The steps by which an idle thread begins a call.
LEMMA BeginningKeeps ==
    ASSUME InductiveInvariant,
           \/ \E w \in Workers, s \in Sessions : ProcessRecv(w, s) \/ ProcessSend(w, s)
           \/ Update
    PROVE  InductiveInvariant'
<1>0. /\ send \in [Sessions -> SendStates] /\ room \subseteq Sessions
      /\ \A r \in room : r \in Sessions /\ Told(r)
  BY WhoIsTold DEF InductiveInvariant, Shapes
<1>1. ASSUME NEW w \in Workers, NEW s \in Sessions, ProcessRecv(w, s)
      PROVE  InductiveInvariant'
  <2>1. /\ ~Busy(w) /\ s \in receiving /\ receiving' = receiving \ {s}
        /\ UNCHANGED <<events, connected, service, manager, room, leaving>>
        /\ send' = send
    BY <1>1 DEF ProcessRecv
  <2>2. Told(s) /\ w \in Threads /\ s # NoSession
    BY <2>1, WhoIsTold, SessionsAssumption DEF Threads
  <2> PICK y : y = Call("disconnect", s)
    OBVIOUS
  <2>3. PICK z \in {Call("return", s), Call("handle", s), Frame("handle", s, room)} :
          \/ Begins(w, <<z>>) /\ z.at = "handle"
          \/ Begins(w, <<y, z>>) /\ z.at = "return"
    BY <1>1 DEF ProcessRecv, Begins, Call, Frame
  <2>4. /\ z \in Frames /\ z.session = s /\ z.at \in {"handle", "return"}
        /\ \A r \in z.todo : Told(r)
        /\ y \in Frames /\ y.session = s /\ y.at = "disconnect" /\ y.todo = {}
    BY <1>0 DEF Call, Frame, Frames, Places, Dispatching, Disconnecting
  <2> PICK f : f = send
    OBVIOUS
  <2>5. send' = f /\ f \in [Sessions -> SendStates] /\ \A r \in Sessions : f[r] = send[r]
    BY <2>1, <1>0
  <2> HIDE DEF Begins
  <2> QED
    BY <2>1, <2>2, <2>3, <2>4, <2>5, BeginKeeps
<1>2. ASSUME NEW w \in Workers, NEW s \in Sessions, ProcessSend(w, s)
      PROVE  InductiveInvariant'
  <2>1. /\ ~Busy(w) /\ send[s] = "sending" /\ receiving' = receiving
        /\ UNCHANGED <<events, connected, service, manager, room, leaving>>
    BY <1>2 DEF ProcessSend
  <2>2. Told(s) /\ w \in Threads /\ s # NoSession
    BY <2>1, WhoIsTold, SessionsAssumption DEF Threads
  <2>3. CASE stack' = stack /\ send' = [send EXCEPT ![s] = "free"]
    <3> PICK f : f = [send EXCEPT ![s] = "free"]
      OBVIOUS
    <3>1. /\ send' = f /\ f \in [Sessions -> SendStates]
          /\ \A r \in Sessions : f[r] # send[r] => send[r] = "sending"
      BY <2>1, <2>3, <1>0 DEF SendStates
    <3> QED
      BY <2>1, <2>3, <3>1, EventKeeps
  <2>4. CASE \/ /\ Begins(w, <<Call("disconnect", s), Call("return", s)>>)
                /\ send' = [send EXCEPT ![s] = "stuck"]
             \/ /\ Begins(w, <<Call("register", s), Call("return", s)>>)
                /\ send' = [send EXCEPT ![s] = "taken"]
    <3> PICK z : z = Call("return", s)
      OBVIOUS
    <3>1. PICK y \in {Call("disconnect", s), Call("register", s)}, v \in SendStates :
            /\ Begins(w, <<y, z>>) /\ send' = [send EXCEPT ![s] = v]
            /\ y.at = "register" => v = "taken"
      BY <2>4 DEF Call, Frame, SendStates
    <3>2. /\ z \in Frames /\ z.session = s /\ z.at = "return" /\ z.todo = {}
          /\ y \in Frames /\ y.session = s /\ y.at \in {"disconnect", "register"} /\ y.todo = {}
      BY DEF Call, Frame, Frames, Places, Dispatching, Disconnecting, Registering
    <3> PICK f : f = [send EXCEPT ![s] = v]
      OBVIOUS
    <3>3. /\ send' = f /\ f \in [Sessions -> SendStates] /\ f[s] = v
          /\ \A r \in Sessions : f[r] # send[r] => send[r] = "sending"
      BY <2>1, <3>1, <1>0
    <3>4. y.at = "register" => send[y.session] = "sending" /\ f[y.session] = "taken"
      BY <2>1, <3>1, <3>2, <3>3
    <3>5. /\ z.at # "update" => z.session \in Sessions /\ Told(z.session)
          /\ receiving' \subseteq receiving /\ \A r \in z.todo : Told(r)
      BY <2>1, <2>2, <3>2
    <3>6. Begins(w, <<y, z>>) /\ ~Busy(w) /\ w \in Threads
      BY <2>1, <2>2, <3>1
    <3>7. /\ UNCHANGED <<events, connected, service, manager, room, leaving>>
          /\ z.at = "return" /\ z \in Frames /\ y \in Frames
          /\ y.at \in {"disconnect", "register"} /\ y.session = z.session /\ y.todo = {}
      BY <2>1, <3>2
    <3>8. /\ send' = f /\ f \in [Sessions -> SendStates]
          /\ \A r \in Sessions : f[r] # send[r] => send[r] = "sending"
      BY <3>3
    <3>9. /\ z.at = "update" => z.session = NoSession
          /\ z.at = "handle" => z.session \in receiving \ receiving'
      BY <3>7
    <3>10. \/ Begins(w, <<z>>) /\ z.at \in {"handle", "update"}
           \/ /\ Begins(w, <<y, z>>) /\ z.at = "return"
              /\ y.at \in {"disconnect", "register"} /\ y.session = z.session /\ y.todo = {}
      BY <3>6, <3>7
    <3>11. Begins(w, <<y, z>>) /\ y.at = "register" =>
              send[y.session] = "sending" /\ f[y.session] = "taken"
      BY <3>4
    <3> QED
      BY <3>5, <3>6, <3>7, <3>8, <3>9, <3>10, <3>11, BeginKeeps
  <2> QED
    BY <1>2, <2>3, <2>4 DEF ProcessSend, Begins
<1>3. ASSUME Update
      PROVE  InductiveInvariant'
  <2> PICK z : z = Frame("update", NoSession, room)
    OBVIOUS
  <2> PICK y : y = z
    OBVIOUS
  <2>1. /\ ~Busy(Main) /\ Main \in Threads /\ Begins(Main, <<z>>)
        /\ UNCHANGED <<events, connected, service, manager, room, leaving>>
        /\ send' = send /\ receiving' = receiving
    BY <1>3 DEF Update, Begins, Threads
  <2>2. /\ z \in Frames /\ z.session = NoSession /\ z.at = "update"
        /\ \A r \in z.todo : Told(r)
    BY <1>0 DEF Frame, Frames, Places
  <2> PICK f : f = send
    OBVIOUS
  <2>3. /\ send' = f /\ f \in [Sessions -> SendStates]
        /\ \A r \in Sessions : f[r] = send[r]
    BY <2>1, <1>0
  <2> HIDE DEF Begins
  <2> QED
    BY <2>1, <2>2, <2>3, BeginKeeps
<1> QED
  BY <1>1, <1>2, <1>3

\* An operation that has completed without a call, and a step of nobody.
LEMMA QuietKeeps ==
    ASSUME InductiveInvariant,
           \/ \E w \in Workers, s \in Sessions : ProcessDisconnect(w, s)
           \/ UNCHANGED vars
    PROVE  InductiveInvariant'
<1>1. /\ UNCHANGED <<events, connected, service, manager, room, receiving, stack>>
      /\ send' = send /\ leaving' \subseteq leaving
  BY DEF ProcessDisconnect, vars, events
<1> PICK f : f = send
  OBVIOUS
<1>2. send' = f /\ f \in [Sessions -> SendStates] /\ \A r \in Sessions : f[r] = send[r]
  BY <1>1 DEF InductiveInvariant, Shapes
<1> QED
  BY <1>1, <1>2, EventKeeps

LEMMA InitHolds == Init => InductiveInvariant
<1> SUFFICES ASSUME Init
             PROVE  InductiveInvariant
  OBVIOUS
<1>1. \A t \in Threads : stack[t] = <<>>
  BY DEF Init
<1>2. Positions = {}
  BY <1>1 DEF Positions
<1>3. Shapes
  <2>1. stack \in [Threads -> Seq(Frames)]
    BY DEF Init
  <2> QED
    BY <2>1 DEF Init, Shapes, SendStates
<1>4. Named /\ Sends /\ Receives /\ Leaves /\ Starts /\ Supports
  BY <1>2 DEF Named, Sends, Receives, Leaves, Starts, Supports, OnlyOne
<1>5. Births /\ Registers
  BY <1>2 DEF Init, Births, Blank, Registers
<1>6. Offers
  BY <1>2, SessionsAssumption DEF Init, Offers, OnlyOne
<1> QED
  BY <1>3, <1>4, <1>5, <1>6 DEF InductiveInvariant

\* Each step keeps the inductive invariant.
LEMMA Invariance == InductiveInvariant /\ [Next]_vars => InductiveInvariant'
<1> SUFFICES ASSUME InductiveInvariant, [Next]_vars
             PROVE  InductiveInvariant'
  OBVIOUS
<1>1. ASSUME NEW t \in Threads, Run(t)
      PROVE  InductiveInvariant'
  <2>1. CASE AcceptNext(t)
    BY <2>1, AcceptNextKeeps
  <2>2. CASE Connect(t) \/ AddSession(t)
    BY <2>2, ConnectingKeeps
  <2>3. CASE AddToManager(t)
    BY <2>3, AddToManagerKeeps
  <2>4. CASE TellRoom(t) \/ BeforeEnter(t) \/ AfterEnter(t) \/ Handled(t) \/ AfterLeave(t)
    BY <2>4, LeadingOnKeeps
  <2>5. CASE EnterRoom(t) \/ LeaveRoom(t)
    BY <2>5, RoomKeeps
  <2>6. CASE RegisterRecv(t)
    BY <2>6, RegisterRecvKeeps
  <2>7. CASE PostRecv(t)
    BY <2>7, PostRecvKeeps
  <2>8. CASE SendNext(t)
    BY <2>8, SendNextKeeps
  <2>9. CASE \/ Send(t) \/ RegisterSend(t) \/ OwnSend(t) \/ SubmitSend(t) \/ Forget(t)
             \/ Clear(t)
    BY <2>9, SendingKeeps
  <2>10. CASE \/ Disconnect(t) /\ Top(t).session \in connected
              \/ RemoveFromManager(t) \/ ReleaseSession(t)
    BY <2>10, DisconnectingKeeps
  <2>11. CASE \/ Returned(t) \/ RegisterDisconnect(t)
              \/ Disconnect(t) /\ Top(t).session \notin connected
    BY <2>11, ReturningKeeps
  <2>12. CASE UseDestroyed(t)
    BY <2>12, UseDestroyedKeeps
  <2> QED
    BY <1>1, <2>1, <2>2, <2>3, <2>4, <2>5, <2>6, <2>7, <2>8, <2>9, <2>10, <2>11, <2>12
       DEF Run
<1>2. ASSUME NEW w \in Workers, NEW e \in Accepts, ProcessAccept(w, e)
      PROVE  InductiveInvariant'
  BY <1>2, ProcessAcceptKeeps
<1>3. CASE \/ \E w \in Workers, s \in Sessions : ProcessRecv(w, s) \/ ProcessSend(w, s)
           \/ Update
  BY <1>3, BeginningKeeps
<1>4. CASE \/ \E w \in Workers, s \in Sessions : ProcessDisconnect(w, s)
           \/ UNCHANGED vars
  BY <1>4, QuietKeeps
<1> QED
  BY <1>1, <1>2, <1>3, <1>4 DEF Next

LEMMA Inductive == Spec => []InductiveInvariant
<1>1. Init => InductiveInvariant
  BY InitHolds
<1>2. InductiveInvariant /\ [Next]_vars => InductiveInvariant'
  BY Invariance
<1> QED
  BY <1>1, <1>2, PTL DEF Spec

-----------------------------------------------------------------------------
(* What follows from it *)

LEMMA CallsArePlaced ==
    ASSUME Shapes
    PROVE  /\ \A c \in Calls : \E p \in Positions : frames[p] = c
           /\ \A p \in Positions : frames[p] \in Calls
<1>1. ASSUME NEW c \in Calls
      PROVE  \E p \in Positions : frames[p] = c
  <2>0. PICK t \in Threads : \E i \in DOMAIN stack[t] : c = stack[t][i]
    BY DEF Calls
  <2>1. PICK i \in DOMAIN stack[t] : c = stack[t][i]
    BY <2>0
  <2>2. stack[t] \in Seq(Frames) /\ Len(stack[t]) \in Nat /\ i \in 1..Len(stack[t])
    BY DEF Shapes
  <2> PICK p : p = Place(t, Len(stack[t]) + 1 - i)
    OBVIOUS
  <2>3. p \in Positions /\ p[1] = t /\ Len(stack[t]) + 1 - p[2] = i
    BY <2>2 DEF Positions, Place
  <2> QED
    BY <2>1, <2>3 DEF frames
<1>2. ASSUME NEW p \in Positions
      PROVE  frames[p] \in Calls
  <2>1. p[1] \in Threads /\ p[2] \in 1..Len(stack[p[1]])
    BY DEF Positions
  <2>2. stack[p[1]] \in Seq(Frames)
    BY <2>1 DEF Shapes
  <2>3. Len(stack[p[1]]) + 1 - p[2] \in DOMAIN stack[p[1]]
    BY <2>1, <2>2
  <2> QED
    BY <2>1, <2>3 DEF Calls, frames
<1> QED
  BY <1>1, <1>2

\* Every variable has its type, and the calls agree with the events: between
\* the exchange of _sendRegistered and WSASend, and while a refused send is
\* given up, the event is where the call believes it to be, and nobody
\* registers a receive while one is under way.
THEOREM TypeCorrect == Spec => []TypeOK
<1>1. InductiveInvariant => TypeOK
  <2> SUFFICES ASSUME InductiveInvariant
               PROVE  TypeOK
    OBVIOUS
  <2>1. Shapes /\ Sends /\ Receives
    BY DEF InductiveInvariant
  <2>2. ASSUME NEW c \in Calls
        PROVE  /\ c.at \in {"submit", "forget"} => send[c.session] = "held"
               /\ c.at \in {"register", "own", "clear"} => send[c.session] = "taken"
               /\ c.at \in {"receive", "again", "post"} => c.session \notin receiving
    <3>1. PICK p \in Positions : frames[p] = c
      BY <2>1, CallsArePlaced
    <3>2. c.at \in {"receive", "again", "post"} => c.at \in RecvWork
      BY DEF RecvWork
    <3> QED
      BY <3>1, <3>2, <2>1 DEF Sends, Fits, Receives
  <2> QED
    BY <2>1, <2>2 DEF TypeOK, Shapes
<1> QED
  BY <1>1, Inductive, PTL

\* The assertion of Service::ReleaseSession holds with any number of threads:
\* the session it is to erase is still in the set.
THEOREM ReleaseIsOfListed == Spec => []ReleaseFindsSession
<1>1. InductiveInvariant => ReleaseFindsSession
  <2> SUFFICES ASSUME InductiveInvariant, NEW c \in Calls, c.at = "unlist"
               PROVE  c.session \in service
    BY DEF ReleaseFindsSession
  <2>1. PICK p \in Positions : frames[p] = c
    BY CallsArePlaced DEF InductiveInvariant
  <2> QED
    BY <2>1 DEF InductiveInvariant, Leaves, LeaveWork
<1> QED
  BY <1>1, Inductive, PTL

\* ProcessConnect and Disconnect, which enter a session in the registries and
\* take it out one after the other, leave them in agreement with _connected
\* when no thread is in a call on the session.
THEOREM RegistriesAgreeAlways == Spec => []RegistriesAgree
<1>1. InductiveInvariant => RegistriesAgree
  <2> SUFFICES ASSUME InductiveInvariant, NEW s \in Sessions, ~InCall(s)
               PROVE  (s \in connected <=> s \in service) /\ (s \in connected <=> s \in manager)
    BY DEF RegistriesAgree
  <2>1. \A p \in Positions : frames[p].session # s
    BY CallsArePlaced DEF InductiveInvariant, InCall
  <2> QED
    BY <2>1 DEF InductiveInvariant, Registers, Works
<1> QED
  BY <1>1, Inductive, PTL

\* ProcessAccept registers the accept event again on each of its paths, and
\* one thread only does: while AcceptEx is under way no call holds the session
\* that it offers, and when it has completed one call of ProcessConnect does.
THEOREM AcceptsAreKept == Spec => []AcceptsKept
<1>1. InductiveInvariant => AcceptsKept
  <2> SUFFICES ASSUME InductiveInvariant, NEW e \in Accepts
               PROVE  IF e \in listening
                      THEN offered[e] # NoSession /\ WillAccept(e) = {}
                      ELSE \/ offered[e] = NoSession
                           \/ \E t \in Threads : WillAccept(e) = {t}
    BY DEF AcceptsKept
  <2>0. /\ Shapes /\ Births /\ Offers
        /\ offered[e] \in Sessions \cup {NoSession}
    BY DEF InductiveInvariant, Shapes
  <2>1. ASSUME NEW t \in WillAccept(e)
        PROVE  /\ t \in Threads /\ Place(t, 1) \in Positions
               /\ Works(Place(t, 1), Connecting, offered[e])
    <3>1. /\ t \in Threads /\ Busy(t)
          /\ stack[t][Len(stack[t])].at \in Connecting
          /\ stack[t][Len(stack[t])].session = offered[e]
      BY DEF WillAccept
    <3>2. stack[t] \in Seq(Frames) /\ Len(stack[t]) \in Nat /\ Len(stack[t]) >= 1
      BY <3>1, <2>0 DEF Shapes, Busy
    <3>3. Place(t, 1) \in Positions
      BY <3>1, <3>2 DEF Positions, Place
    <3>4. frames[Place(t, 1)] = stack[t][Len(stack[t])]
      BY <3>2, <3>3 DEF frames, Place
    <3> QED
      BY <3>1, <3>3, <3>4 DEF Works
  <2>2. CASE e \in listening
    <3>1. offered[e] # NoSession /\ Unborn(offered[e]) /\ offered[e] \in Sessions
      BY <2>0, <2>2 DEF Offers, Unborn
    <3>2. \A p \in Positions : frames[p].session # offered[e]
      BY <3>1, <2>0 DEF Births
    <3> QED
      BY <2>1, <2>2, <3>1, <3>2 DEF Works
  <2>3. CASE e \notin listening /\ offered[e] # NoSession
    <3>1. PICK p \in Positions : p[2] = 1 /\ Works(p, Connecting, offered[e])
      BY <2>0, <2>3 DEF Offers
    <3> PICK t : t = p[1]
      OBVIOUS
    <3>2. t \in Threads /\ p[2] \in 1..Len(stack[t])
      BY DEF Positions
    <3>3. stack[t] \in Seq(Frames)
      BY <3>2, <2>0 DEF Shapes
    <3>4. Busy(t) /\ Len(stack[t]) + 1 - p[2] = Len(stack[t])
      BY <3>1, <3>2, <3>3 DEF Busy
    <3>5. frames[p] = stack[t][Len(stack[t])]
      BY <3>4 DEF frames
    <3>6. t \in WillAccept(e)
      BY <3>1, <3>2, <3>4, <3>5 DEF Works, WillAccept
    <3>7. ASSUME NEW u \in WillAccept(e) PROVE u = t
      <4>1. Place(u, 1) = p
        BY <3>1, <3>7, <2>0, <2>1, <2>3 DEF Offers, OnlyOne
      <4> QED
        BY <4>1 DEF Place
    <3> QED
      BY <2>3, <3>2, <3>6, <3>7
  <2> QED
    BY <2>2, <2>3
<1> QED
  BY <1>1, Inductive, PTL


-----------------------------------------------------------------------------
(* What a call may do next, and what called it *)

\* Where a call goes on.
Leads == {
    <<"connect", "list">>, <<"list", "manage">>, <<"manage", "greet">>,
    <<"greet", "tell">>, <<"tell", "enter">>, <<"enter", "announce">>,
    <<"announce", "receive">>, <<"receive", "accept">>,
    <<"handle", "again">>, <<"again", "return">>, <<"post", "disconnect">>,
    <<"disconnect", "unmanage">>, <<"unmanage", "leave">>,
    <<"leave", "farewell">>, <<"leave", "unlist">>, <<"farewell", "unlist">>,
    <<"unlist", "hangup">>, <<"send", "register">>, <<"register", "own">>,
    <<"own", "submit">>, <<"submit", "forget">>, <<"forget", "clear">>}

\* Only a broadcast sends to others, and two steps of EnterRoom to the session
\* itself.
Rests(c) ==
    \/ c.todo = {}
    \/ c.at \in {"greet", "tell"} /\ c.todo = {c.session}
    \/ c.at \in Broadcasting /\ c.todo \subseteq Sessions

LeadsOn(t) ==
    \E z \in Frames :
        /\ Become(t, <<z>>) /\ <<Top(t).at, z.at>> \in Leads
        /\ z.session = Top(t).session /\ z.session \in Sessions /\ Rests(z)

ReturnsOn(t) ==
    /\ Return(t)
    /\ Top(t).at \in {"accept", "return", "update", "hangup", "disconnect", "post",
                      "send", "register", "submit", "clear"}
    /\ Top(t).at = "submit" => send'[Top(t).session] = "sending"

CallsOn(t) ==
    \E y, z \in Frames :
        /\ Become(t, <<y, z>>)
        /\ <<Top(t).at, y.at, z.at>> \in
              {<<"receive", "post", "accept">>, <<"again", "post", "return">>,
               <<"submit", "disconnect", "forget">>}
        /\ y.session = Top(t).session /\ z.session = Top(t).session
        /\ y.todo = {} /\ z.todo = {} /\ y.session \in Sessions

LEMMA RunsOn ==
    ASSUME InductiveInvariant, NEW t \in Threads, Run(t)
    PROVE  /\ Busy(t)
           /\ \/ Top(t).todo = {} /\ (LeadsOn(t) \/ ReturnsOn(t) \/ CallsOn(t))
              \/ SendNext(t) \/ UseDestroyed(t)
<1> PICK s : s = Top(t).session
  OBVIOUS
<1> PICK o : o = Top(t).at
  OBVIOUS
<1>1. Busy(t)
  BY DEF Run, AcceptNext, Connect, AddSession, AddToManager, TellRoom, BeforeEnter, EnterRoom,
         AfterEnter, Handled, RegisterRecv, PostRecv, SendNext, Send, RegisterSend, OwnSend,
         SubmitSend, Forget, Clear, UseDestroyed, Disconnect, RemoveFromManager, LeaveRoom,
         AfterLeave, ReleaseSession, RegisterDisconnect, Returned, At
<1>2. /\ o \notin {"update", "lost"} => s \in Sessions
      /\ room \subseteq Sessions /\ send \in [Sessions -> SendStates]
  BY <1>1, TopIsTold DEF InductiveInvariant, Shapes
<1>3. ASSUME NEW place \in Places, NEW todo \in SUBSET Sessions,
             GotoSending(t, place, todo), <<o, place>> \in Leads,
             Rests(Frame(place, s, todo))
      PROVE  LeadsOn(t)
  <2> PICK z : z = Frame(place, s, todo)
    OBVIOUS
  <2>1. o \notin {"update", "lost"}
    BY <1>3 DEF Leads
  <2>2. z \in Frames /\ z.at = place /\ z.session = s
    BY <2>1, <1>2 DEF Frame, Frames
  <2> QED
    BY <1>2, <1>3, <2>1, <2>2 DEF LeadsOn, GotoSending
<1>4. ASSUME NEW place \in Places, Goto(t, place), <<o, place>> \in Leads
      PROVE  LeadsOn(t)
  <2>1. Rests(Frame(place, s, {})) /\ GotoSending(t, place, {})
    BY <1>4 DEF Rests, Frame, Goto, GotoSending, Call
  <2> QED
    BY <1>3, <1>4, <2>1
<1>5. CASE Connect(t) \/ AddSession(t) \/ BeforeEnter(t) \/ AfterEnter(t)
  <2>1. \E place \in Places : Goto(t, place) /\ <<o, place>> \in Leads
    BY <1>5 DEF Connect, AddSession, BeforeEnter, AfterEnter, At, Places, Connecting, Leads
  <2> QED
    BY <1>4, <1>5, <2>1 DEF Connect, AddSession, BeforeEnter, AfterEnter, At
<1>6. CASE Handled(t) \/ RemoveFromManager(t) \/ AfterLeave(t) \/ ReleaseSession(t) \/ Forget(t)
  <2>1. \E place \in Places : Goto(t, place) /\ <<o, place>> \in Leads
    BY <1>6 DEF Handled, RemoveFromManager, AfterLeave, ReleaseSession, Forget, At, Places,
                Dispatching, Disconnecting, Registering, Leads
  <2> QED
    BY <1>4, <1>6, <2>1 DEF Handled, RemoveFromManager, AfterLeave, ReleaseSession, Forget, At
<1>7. CASE AddToManager(t) \/ TellRoom(t)
  <2>1. /\ o \in {"manage", "greet"} /\ Top(t).todo = {}
        /\ \E place \in {"greet", "tell"} :
              GotoSending(t, place, {s}) /\ <<o, place>> \in Leads
    BY <1>7 DEF AddToManager, TellRoom, At, Leads
  <2>2. s \in Sessions
    BY <1>2, <2>1
  <2>3. PICK place \in {"greet", "tell"} : GotoSending(t, place, {s}) /\ <<o, place>> \in Leads
    BY <2>1
  <2>4. place \in Places /\ {s} \in SUBSET Sessions /\ Rests(Frame(place, s, {s}))
    BY <2>2 DEF Places, Connecting, Rests, Frame
  <2> QED
    BY <1>1, <1>3, <2>1, <2>3, <2>4
<1>8. CASE EnterRoom(t) \/ LeaveRoom(t)
  <2>1. o \in {"enter", "leave"} /\ Top(t).todo = {} /\ room' \subseteq room \cup {s}
    BY <1>8 DEF EnterRoom, LeaveRoom, At
  <2>2. room' \in SUBSET Sessions
    BY <1>2, <2>1
  <2>3. CASE Goto(t, "unlist") /\ o = "leave"
    BY <1>1, <1>4, <2>1, <2>3 DEF Places, Disconnecting, Leads
  <2>4. ASSUME NEW place \in {"announce", "farewell"}, GotoSending(t, place, room'),
               <<o, place>> \in Leads
        PROVE  LeadsOn(t)
    <3>1. place \in Places /\ Rests(Frame(place, s, room'))
      BY <2>2 DEF Places, Connecting, Disconnecting, Rests, Frame, Broadcasting
    <3> QED
      BY <1>3, <2>2, <2>4, <3>1
  <2> QED
    BY <1>8, <2>1, <2>3, <2>4 DEF EnterRoom, LeaveRoom, At, Leads
<1>9. CASE RegisterRecv(t)
  <2> PICK then : then = IF o = "receive" THEN "accept" ELSE "return"
    OBVIOUS
  <2>1. /\ o \in {"receive", "again"} /\ Top(t).todo = {} /\ s \in Sessions
        /\ Become(t, <<Call("post", s), Call(then, s)>>) \/ Goto(t, then)
    BY <1>2, <1>9 DEF RegisterRecv, At
  <2>2. then \in Places /\ <<o, then>> \in Leads
    BY <2>1 DEF Places, Connecting, Dispatching, Leads
  <2>3. ASSUME Become(t, <<Call("post", s), Call(then, s)>>)
        PROVE  CallsOn(t)
    <3> PICK y, z : y = Call("post", s) /\ z = Call(then, s)
      OBVIOUS
    <3>1. /\ y \in Frames /\ y.at = "post" /\ y.session = s /\ y.todo = {}
          /\ z \in Frames /\ z.at = then /\ z.session = s /\ z.todo = {}
      BY <2>1, <2>2 DEF Call, Frame, Frames, Places, Registering
    <3>2. Become(t, <<y, z>>)
      BY <2>3
    <3> QED
      BY <2>1, <3>1, <3>2 DEF CallsOn
  <2> QED
    BY <1>1, <1>4, <2>1, <2>2, <2>3
<1>10. CASE PostRecv(t)
  <2>1. o = "post" /\ Top(t).todo = {} /\ (Return(t) \/ Goto(t, "disconnect"))
    BY <1>10 DEF PostRecv, At
  <2> QED
    BY <1>1, <1>4, <2>1 DEF Places, Disconnecting, Leads, ReturnsOn
<1>11. CASE Send(t) \/ RegisterSend(t) \/ OwnSend(t)
  <2>1. /\ o \in {"send", "register", "own"} /\ Top(t).todo = {}
        /\ \/ Return(t) /\ o \in {"send", "register"}
           \/ \E place \in Places : Goto(t, place) /\ <<o, place>> \in Leads
    BY <1>11 DEF Send, RegisterSend, OwnSend, At, Places, Registering, Leads
  <2> QED
    BY <1>1, <1>4, <2>1 DEF ReturnsOn
<1>12. CASE SubmitSend(t)
  <2>1. /\ o = "submit" /\ Top(t).todo = {} /\ s \in Sessions
        /\ \/ Return(t) /\ send' = [send EXCEPT ![s] = "sending"]
           \/ Goto(t, "forget")
           \/ Become(t, <<Call("disconnect", s), Call("forget", s)>>)
    BY <1>2, <1>12 DEF SubmitSend, Refused, At
  <2>2. ASSUME Become(t, <<Call("disconnect", s), Call("forget", s)>>)
        PROVE  CallsOn(t)
    <3> PICK y, z : y = Call("disconnect", s) /\ z = Call("forget", s)
      OBVIOUS
    <3>1. /\ y \in Frames /\ y.at = "disconnect" /\ y.session = s /\ y.todo = {}
          /\ z \in Frames /\ z.at = "forget" /\ z.session = s /\ z.todo = {}
      BY <2>1 DEF Call, Frame, Frames, Places, Registering, Disconnecting
    <3>2. Become(t, <<y, z>>)
      BY <2>2
    <3> QED
      BY <2>1, <3>1, <3>2 DEF CallsOn
  <2>3. Goto(t, "forget") => LeadsOn(t)
    BY <1>4, <2>1 DEF Places, Registering, Leads
  <2>4. Return(t) /\ send' = [send EXCEPT ![s] = "sending"] => ReturnsOn(t)
    BY <1>2, <2>1 DEF ReturnsOn
  <2> QED
    BY <1>1, <2>1, <2>2, <2>3, <2>4
<1>13. CASE Disconnect(t)
  <2>1. o = "disconnect" /\ Top(t).todo = {} /\ (Return(t) \/ Goto(t, "unmanage"))
    BY <1>13 DEF Disconnect, At
  <2> QED
    BY <1>1, <1>4, <2>1 DEF Places, Disconnecting, Leads, ReturnsOn
<1>14. CASE AcceptNext(t) \/ Clear(t) \/ RegisterDisconnect(t) \/ Returned(t)
  BY <1>14 DEF AcceptNext, Clear, RegisterDisconnect, Returned, At, ReturnsOn
<1>16. Connect(t) \/ AddSession(t) \/ BeforeEnter(t) \/ AfterEnter(t) => Top(t).todo = {}
  BY DEF Connect, AddSession, BeforeEnter, AfterEnter, At
<1>17. Handled(t) \/ RemoveFromManager(t) \/ AfterLeave(t) \/ ReleaseSession(t) \/ Forget(t)
           => Top(t).todo = {}
  BY DEF Handled, RemoveFromManager, AfterLeave, ReleaseSession, Forget, At
<1> QED
  BY <1>1, <1>5, <1>6, <1>7, <1>8, <1>9, <1>10, <1>11, <1>12, <1>13, <1>14, <1>16, <1>17
     DEF Run

\* Who may be below a call of Send, and of RegisterSend as far as the event has
\* no reference yet: a broadcast, or a call about the same session.
Unheld == {"send", "register", "own"}
Greeting == {"greet", "tell", "return"}

CalledFor(p) ==
    frames[p].at \in Unheld =>
        /\ Below(p) \in Positions
        /\ \/ frames[Below(p)].at \in Broadcasting
           \/ /\ frames[Below(p)].at \in Greeting
              /\ frames[Below(p)].session = frames[p].session

\* Who holds an event without an operation is a call of RegisterSend.
GivingUp == {"submit", "forget"}

HeldInCalls ==
    \A s \in Sessions : send[s] = "held" => \E p \in Positions : Works(p, GivingUp, s)

CallsInPlace ==
    /\ \A p \in Positions : Rests(frames[p]) /\ CalledFor(p)
    /\ HeldInCalls

\* One call, at top, goes on or ends, and others come.
LEMMA StepKeepsPlaces ==
    ASSUME CallsInPlace, NEW top,
           \A p \in Positions : Below(p) = top => top \notin Positions,
           \A p \in Positions : p # top => p \in Positions' /\ frames'[p] = frames[p],
           \A p \in Positions' : p = top \/ p \notin Positions =>
               Rests(frames'[p]) /\ CalledFor(p)',
           \A s \in Sessions : send'[s] = "held" =>
               \/ send[s] = "held" /\ ~(top \in Positions /\ Works(top, GivingUp, s))
               \/ \E p \in Positions' : Works(p, GivingUp, s)'
    PROVE  CallsInPlace'
<1>1. ASSUME NEW p \in Positions', p \in Positions, p # top
      PROVE  Rests(frames'[p]) /\ CalledFor(p)'
  <2>1. frames'[p] = frames[p] /\ Rests(frames[p]) /\ CalledFor(p)
    BY <1>1 DEF CallsInPlace
  <2>2. CASE frames[p].at \in Unheld
    <3>1. Below(p) \in Positions /\ Below(p) # top
      BY <1>1, <2>1, <2>2 DEF CalledFor
    <3>2. Below(p) \in Positions' /\ frames'[Below(p)] = frames[Below(p)]
      BY <3>1
    <3> QED
      BY <2>1, <3>2 DEF CalledFor, Below
  <2> QED
    BY <2>1, <2>2 DEF CalledFor
<1>2. HeldInCalls'
  <2> SUFFICES ASSUME NEW s \in Sessions, send'[s] = "held"
               PROVE  \E p \in Positions' : Works(p, GivingUp, s)'
    BY DEF HeldInCalls
  <2>1. CASE send[s] = "held" /\ ~(top \in Positions /\ Works(top, GivingUp, s))
    <3>1. PICK p \in Positions : Works(p, GivingUp, s)
      BY <2>1 DEF CallsInPlace, HeldInCalls
    <3>2. p \in Positions' /\ frames'[p] = frames[p]
      BY <2>1, <3>1
    <3> QED
      BY <3>1, <3>2 DEF Works
  <2> QED
    BY <2>1
<1> QED
  BY <1>1, <1>2 DEF CallsInPlace

\* Only RegisterSend takes the reference, and Forget gives it up.
LEMMA HoldingsOfRun ==
    ASSUME InductiveInvariant, NEW t \in Threads, Run(t), Top(t).todo = {},
           NEW s \in Sessions, send'[s] = "held"
    PROVE  \/ send[s] = "held" /\ (s = Top(t).session => Top(t).at # "forget")
           \/ s = Top(t).session /\ Top(t).at = "own"
<1>0. send \in [Sessions -> SendStates]
  BY DEF InductiveInvariant, Shapes
<1>1. CASE Send(t) \/ RegisterSend(t) \/ Clear(t)
  BY <1>0, <1>1 DEF Send, RegisterSend, Clear, At
<1>2. CASE OwnSend(t)
  BY <1>0, <1>2 DEF OwnSend, At
<1>3. CASE SubmitSend(t) \/ Forget(t)
  BY <1>0, <1>3 DEF SubmitSend, Refused, Forget, At
<1>4. CASE ~(\/ Send(t) \/ RegisterSend(t) \/ OwnSend(t) \/ SubmitSend(t) \/ Forget(t)
             \/ Clear(t))
  <2>1. send' = send
    BY <1>4 DEF Run, AcceptNext, Connect, AddSession, AddToManager, TellRoom, BeforeEnter,
       EnterRoom, AfterEnter, Handled, RegisterRecv, PostRecv, SendNext, UseDestroyed,
       Disconnect, RemoveFromManager, LeaveRoom, AfterLeave, ReleaseSession,
       RegisterDisconnect, Returned
  <2>2. Top(t).at # "forget"
    BY <1>4 DEF Run, AcceptNext, Connect, AddSession, AddToManager, TellRoom, BeforeEnter,
       EnterRoom, AfterEnter, Handled, RegisterRecv, PostRecv, SendNext, UseDestroyed,
       Disconnect, RemoveFromManager, LeaveRoom, AfterLeave, ReleaseSession,
       RegisterDisconnect, Returned, At
  <2> QED
    BY <2>1, <2>2
<1> QED
  BY <1>1, <1>2, <1>3, <1>4

LEMMA RunKeepsPlaces ==
    ASSUME InductiveInvariant, CallsInPlace, NEW t \in Threads, Run(t)
    PROVE  CallsInPlace'
<1> PICK top : top = Innermost(t)
  OBVIOUS
<1>0. Shapes /\ Busy(t)
  BY RunsOn DEF InductiveInvariant
<1>1. /\ top \in Positions /\ frames[top] = Top(t) /\ Top(t) \in Frames
      /\ \A p \in Positions : Below(p) # top
      /\ Rests(Top(t)) /\ CalledFor(top)
  BY <1>0, InnermostIsTop DEF CallsInPlace
<1>2. Below(top) \in Positions => Below(top) # top
  BY <1>1
\* The innermost call goes on as z.
<1>3. ASSUME NEW z \in Frames, Become(t, <<z>>), Rests(z),
             z.at \in Unheld => Top(t).at \in Unheld /\ z.session = Top(t).session,
             \A s \in Sessions : send'[s] = "held" =>
                 \/ z.at \in GivingUp /\ z.session = s
                 \/ send[s] = "held" /\ ~Works(top, GivingUp, s)
      PROVE  CallsInPlace'
  <2>1. /\ Positions' = Positions /\ frames'[top] = z
        /\ \A p \in Positions : p # top => frames'[p] = frames[p]
    BY <1>0, <1>3, OneCall
  <2>2. CalledFor(top)'
    BY <1>1, <1>2, <1>3, <2>1 DEF CalledFor, Below
  <2>3. \A s \in Sessions : send'[s] = "held" =>
            \/ send[s] = "held" /\ ~Works(top, GivingUp, s)
            \/ \E p \in Positions' : Works(p, GivingUp, s)'
    BY <1>1, <1>3, <2>1 DEF Works
  <2> QED
    BY <1>1, <1>3, <2>1, <2>2, <2>3, StepKeepsPlaces
\* It goes on as z and calls y.
<1>4. ASSUME NEW y \in Frames, NEW z \in Frames, Become(t, <<y, z>>), Rests(y), Rests(z),
             z.at \notin Unheld,
             y.at \in Unheld => \/ z.at \in Broadcasting
                                \/ z.at \in Greeting /\ z.session = y.session,
             \A s \in Sessions : send'[s] = "held" =>
                 \/ z.at \in GivingUp /\ z.session = s
                 \/ send[s] = "held" /\ ~Works(top, GivingUp, s)
      PROVE  CallsInPlace'
  <2>1. /\ frames'[top] = z
        /\ \A p \in Positions : p # top => frames'[p] = frames[p]
    BY <1>0, <1>4, OneCallMore
  <2>2. PICK q : /\ q \notin Positions /\ Positions' = Positions \cup {q}
                 /\ q[2] # 1 /\ Below(q) = top /\ frames'[q] = y
    BY <1>0, <1>4, OneCallMore
  <2>3. CalledFor(top)' /\ CalledFor(q)'
    BY <1>1, <1>4, <2>1, <2>2 DEF CalledFor, Below
  <2>4. \A s \in Sessions : send'[s] = "held" =>
            \/ send[s] = "held" /\ ~Works(top, GivingUp, s)
            \/ \E p \in Positions' : Works(p, GivingUp, s)'
    BY <1>1, <1>4, <2>1, <2>2 DEF Works
  <2> QED
    BY <1>1, <1>4, <2>1, <2>2, <2>3, <2>4, StepKeepsPlaces
<1>5. ASSUME Return(t),
             \A s \in Sessions : send'[s] = "held" => send[s] = "held" /\ ~Works(top, GivingUp, s)
      PROVE  CallsInPlace'
  <2>1. Positions' = Positions \ {top} /\ \A p \in Positions' : frames'[p] = frames[p]
    BY <1>0, <1>5, OneCallLess
  <2>2. \A p \in Positions : Below(p) = top => top \notin Positions
    BY <1>1
  <2>3. \A p \in Positions : p # top => p \in Positions' /\ frames'[p] = frames[p]
    BY <2>1
  <2>4. \A p \in Positions' : p = top \/ p \notin Positions =>
               Rests(frames'[p]) /\ CalledFor(p)'
    BY <2>1
  <2>5. \A s \in Sessions : send'[s] = "held" =>
               \/ send[s] = "held" /\ ~(top \in Positions /\ Works(top, GivingUp, s))
               \/ \E p \in Positions' : Works(p, GivingUp, s)'
    BY <1>5
  <2> QED
    BY <2>2, <2>3, <2>4, <2>5, StepKeepsPlaces
<1>6. CASE Top(t).todo = {} /\ (LeadsOn(t) \/ ReturnsOn(t) \/ CallsOn(t))
  <2>1. \A s \in Sessions : send'[s] = "held" =>
           \/ send[s] = "held" /\ (s = Top(t).session => Top(t).at # "forget")
           \/ s = Top(t).session /\ Top(t).at = "own"
    BY <1>6, HoldingsOfRun
  <2>2. CASE LeadsOn(t)
    <3>1. PICK z \in Frames :
            /\ Become(t, <<z>>) /\ <<Top(t).at, z.at>> \in Leads
            /\ z.session = Top(t).session /\ z.session \in Sessions /\ Rests(z)
      BY <2>2 DEF LeadsOn
    <3>2. /\ z.at \in Unheld => Top(t).at \in Unheld
          /\ Top(t).at = "own" => z.at \in GivingUp
          /\ Top(t).at \in GivingUp => z.at \in GivingUp \/ Top(t).at = "forget"
      BY <3>1 DEF Leads, Unheld, GivingUp
    <3>3. \A s \in Sessions : send'[s] = "held" =>
                 \/ z.at \in GivingUp /\ z.session = s
                 \/ send[s] = "held" /\ ~Works(top, GivingUp, s)
      BY <1>1, <2>1, <3>1, <3>2 DEF Works
    <3> QED
      BY <1>3, <3>1, <3>2, <3>3
  <2>3. CASE ReturnsOn(t)
    <3>1. \A s \in Sessions : send'[s] = "held" => send[s] = "held" /\ ~Works(top, GivingUp, s)
      BY <1>1, <2>1, <2>3 DEF ReturnsOn, Works, GivingUp
    <3> QED
      BY <1>5, <2>3, <3>1 DEF ReturnsOn
  <2>4. CASE CallsOn(t)
    <3>1. PICK y, z \in Frames :
            /\ Become(t, <<y, z>>)
            /\ <<Top(t).at, y.at, z.at>> \in
                  {<<"receive", "post", "accept">>, <<"again", "post", "return">>,
                   <<"submit", "disconnect", "forget">>}
            /\ y.session = Top(t).session /\ z.session = Top(t).session
            /\ y.todo = {} /\ z.todo = {} /\ y.session \in Sessions
      BY <2>4 DEF CallsOn
    <3>2. /\ y.at \notin Unheld /\ z.at \notin Unheld /\ Top(t).at # "own"
          /\ Top(t).at \in GivingUp => z.at \in GivingUp
      BY <3>1 DEF Unheld, GivingUp
    <3>3. \A s \in Sessions : send'[s] = "held" =>
                 \/ z.at \in GivingUp /\ z.session = s
                 \/ send[s] = "held" /\ ~Works(top, GivingUp, s)
      BY <1>1, <2>1, <3>1, <3>2 DEF Works
    <3>4. Rests(y) /\ Rests(z)
      BY <3>1 DEF Rests
    <3> QED
      BY <1>4, <3>1, <3>2, <3>3, <3>4
  <2> QED
    BY <1>6, <2>2, <2>3, <2>4
<1>7. CASE SendNext(t)
  <2>1. PICK s \in Top(t).todo :
        LET below == <<[Top(t) EXCEPT !.todo = @ \ {s}]>>
        IN  \/ Become(t, below)
            \/ Become(t, <<Call("send", s)>> \o below)
    BY <1>7 DEF SendNext
  <2> PICK z : z = [Top(t) EXCEPT !.todo = @ \ {s}]
    OBVIOUS
  <2> PICK y : y = Call("send", s)
    OBVIOUS
  <2>2. send' = send /\ s \in Sessions
    BY <1>1, <1>7 DEF SendNext, Frames
  <2>3. /\ z \in Frames /\ z.at = Top(t).at /\ z.session = Top(t).session
        /\ z.todo = Top(t).todo \ {s}
        /\ y \in Frames /\ y.at = "send" /\ y.session = s /\ y.todo = {}
    BY <1>1, <2>2 DEF Frames, Call, Frame, Places, Registering
  <2>4. \/ Top(t).at \in {"greet", "tell"} /\ Top(t).todo = {Top(t).session}
        \/ Top(t).at \in Broadcasting /\ Top(t).todo \subseteq Sessions
    BY <1>1, <2>1 DEF Rests
  <2>5. Rests(y) /\ Rests(z)
    BY <2>3, <2>4 DEF Rests
  <2>6. /\ z.at \notin Unheld /\ z.at \notin GivingUp
        /\ z.at \in Broadcasting \/ (z.at \in Greeting /\ z.session = y.session)
    BY <2>1, <2>3, <2>4 DEF Unheld, GivingUp, Broadcasting, Greeting
  <2>7. \A r \in Sessions : send'[r] = "held" => send[r] = "held" /\ ~Works(top, GivingUp, r)
    BY <1>1, <2>2, <2>3, <2>6 DEF Works
  <2>8. <<y>> \o <<z>> = <<y, z>>
    BY <2>3, PutBefore
  <2>9. Become(t, <<z>>) => CallsInPlace'
    BY <1>3, <2>3, <2>5, <2>6, <2>7
  <2>10. Become(t, <<y, z>>) => CallsInPlace'
    BY <1>4, <2>3, <2>5, <2>6, <2>7
  <2> QED
    BY <2>1, <2>8, <2>9, <2>10
<1>8. CASE UseDestroyed(t)
  <2> PICK z : z = Call("lost", NoSession)
    OBVIOUS
  <2>1. /\ z \in Frames /\ z.at = "lost" /\ z.todo = {} /\ Rests(z)
        /\ z.at \notin Unheld
    BY DEF Call, Frame, Frames, Places, Rests, Unheld
  <2>2. Become(t, <<z>>) /\ send' = send /\ Top(t).at \in {"send", "register", "own", "clear"}
    BY <1>8 DEF UseDestroyed, At
  <2>3. \A r \in Sessions : send'[r] = "held" => send[r] = "held" /\ ~Works(top, GivingUp, r)
    BY <1>1, <2>2 DEF Works, GivingUp
  <2> QED
    BY <1>3, <2>1, <2>2, <2>3
<1> QED
  BY <1>6, <1>7, <1>8, RunsOn

\* An idle thread begins a call, or none.
LEMMA EventsKeepPlaces ==
    ASSUME InductiveInvariant, CallsInPlace,
           \/ \E w \in Workers : \/ \E e \in Accepts : ProcessAccept(w, e)
                                 \/ \E r \in Sessions : \/ ProcessRecv(w, r)
                                                        \/ ProcessSend(w, r)
                                                        \/ ProcessDisconnect(w, r)
           \/ Update \/ UNCHANGED vars
    PROVE  CallsInPlace'
<1>0. Shapes /\ room \subseteq Sessions /\ send \in [Sessions -> SendStates]
  BY DEF InductiveInvariant, Shapes
<1>1. \A s \in Sessions : send'[s] = "held" => send[s] = "held"
  BY <1>0 DEF ProcessAccept, ProcessRecv, ProcessSend, ProcessDisconnect, Update, vars
<1>2. ASSUME NEW t \in Threads, ~Busy(t), NEW z \in Frames, Begins(t, <<z>>), Rests(z),
             z.at \notin Unheld
      PROVE  CallsInPlace'
  <2>1. PICK q : /\ q \notin Positions /\ Positions' = Positions \cup {q}
                 /\ q[2] = 1 /\ frames'[q] = z
                 /\ \A p \in Positions : frames'[p] = frames[p] /\ Below(p) # q
    BY <1>0, <1>2, FirstCall
  <2>2. CalledFor(q)'
    BY <1>2, <2>1 DEF CalledFor
  <2>3. \A s \in Sessions : send'[s] = "held" =>
               \/ send[s] = "held" /\ ~(q \in Positions /\ Works(q, GivingUp, s))
               \/ \E p \in Positions' : Works(p, GivingUp, s)'
    BY <1>1, <2>1
  <2> QED
    BY <1>2, <2>1, <2>2, <2>3, StepKeepsPlaces
<1>3. ASSUME NEW t \in Threads, ~Busy(t), NEW y \in Frames, NEW z \in Frames,
             Begins(t, <<y, z>>), y.todo = {}, z.todo = {}, z.at = "return",
             y.session = z.session
      PROVE  CallsInPlace'
  <2>1. PICK q, r : /\ q \notin Positions /\ r \notin Positions /\ q # r
                    /\ Positions' = Positions \cup {q, r}
                    /\ q[2] = 1 /\ r[2] # 1 /\ Below(r) = q
                    /\ frames'[q] = z /\ frames'[r] = y
                    /\ \A p \in Positions : /\ frames'[p] = frames[p]
                                            /\ Below(p) # q /\ Below(p) # r
    BY <1>0, <1>3, FirstTwoCalls
  <2>2. CalledFor(q)' /\ CalledFor(r)'
    BY <1>3, <2>1 DEF CalledFor, Below, Unheld, Greeting
  <2>3. \A s \in Sessions : send'[s] = "held" =>
               \/ send[s] = "held" /\ ~(q \in Positions /\ Works(q, GivingUp, s))
               \/ \E p \in Positions' : Works(p, GivingUp, s)'
    BY <1>1, <2>1
  <2>4. Rests(y) /\ Rests(z)
    BY <1>3 DEF Rests
  <2> QED
    BY <1>3, <2>1, <2>2, <2>3, <2>4, StepKeepsPlaces
<1>4. ASSUME stack' = stack
      PROVE  CallsInPlace'
  <2>1. Positions' = Positions /\ frames' = frames
    BY <1>4 DEF Positions, frames
  <2>2. \A p \in Positions : CalledFor(p)'
    BY <2>1 DEF CallsInPlace, CalledFor
  <2>3. HeldInCalls'
    BY <1>1, <2>1 DEF CallsInPlace, HeldInCalls, Works
  <2> QED
    BY <2>1, <2>2, <2>3 DEF CallsInPlace
<1>5. ASSUME NEW w \in Workers, NEW e \in Accepts, ProcessAccept(w, e)
      PROVE  CallsInPlace'
  <2>1. /\ ~Busy(w) /\ w \in Threads /\ offered[e] \in Sessions \cup {NoSession}
        /\ \E place \in {"connect", "accept"} : Begins(w, <<Call(place, offered[e])>>)
    BY <1>0, <1>5 DEF ProcessAccept, Threads, Begins, Shapes
  <2>2. \A place \in {"connect", "accept"} :
           LET z == Call(place, offered[e])
           IN  z \in Frames /\ Rests(z) /\ z.at \notin Unheld
    BY <2>1 DEF Call, Frame, Frames, Places, Connecting, Rests, Unheld
  <2> HIDE DEF Begins
  <2> QED
    BY <1>2, <2>1, <2>2
<1>6. ASSUME NEW w \in Workers, NEW r \in Sessions, ProcessRecv(w, r)
      PROVE  CallsInPlace'
  <2> PICK y, z : y = Call("disconnect", r) /\ z = Call("return", r)
    OBVIOUS
  <2>1. /\ ~Busy(w) /\ w \in Threads
        /\ \/ Begins(w, <<y, z>>)
           \/ \E todo \in SUBSET Sessions : Begins(w, <<Frame("handle", r, todo)>>)
    BY <1>0, <1>6 DEF ProcessRecv, Threads, Begins, Call
  <2>2. \A todo \in SUBSET Sessions :
           LET x == Frame("handle", r, todo)
           IN  x \in Frames /\ Rests(x) /\ x.at \notin Unheld
    BY DEF Frame, Frames, Places, Dispatching, Rests, Unheld, Broadcasting
  <2>3. /\ y \in Frames /\ y.todo = {} /\ y.session = r
        /\ z \in Frames /\ z.todo = {} /\ z.session = r /\ z.at = "return"
    BY DEF Call, Frame, Frames, Places, Dispatching, Disconnecting
  <2> HIDE DEF Begins
  <2> QED
    BY <1>2, <1>3, <2>1, <2>2, <2>3
<1>7. ASSUME NEW w \in Workers, NEW r \in Sessions, ProcessSend(w, r)
      PROVE  CallsInPlace'
  <2>1. /\ ~Busy(w) /\ w \in Threads
        /\ \/ stack' = stack
           \/ \E place \in {"disconnect", "register"} :
                 Begins(w, <<Call(place, r), Call("return", r)>>)
    BY <1>7 DEF ProcessSend, Threads, Begins
  <2>2. \A place \in {"disconnect", "register", "return"} :
           LET x == Call(place, r)
           IN  x \in Frames /\ x.todo = {} /\ x.session = r /\ x.at = place
    BY DEF Call, Frame, Frames, Places, Dispatching, Disconnecting, Registering
  <2> HIDE DEF Begins
  <2> QED
    BY <1>3, <1>4, <2>1, <2>2
<1>8. CASE Update
  <2> PICK z : z = Frame("update", NoSession, room)
    OBVIOUS
  <2>1. /\ ~Busy(Main) /\ Main \in Threads /\ Begins(Main, <<z>>)
    BY <1>8 DEF Update, Threads, Begins
  <2>2. z \in Frames /\ Rests(z) /\ z.at \notin Unheld
    BY <1>0 DEF Frame, Frames, Places, Rests, Unheld, Broadcasting
  <2> HIDE DEF Begins
  <2> QED
    BY <1>2, <2>1, <2>2
<1>9. CASE (\E w \in Workers, r \in Sessions : ProcessDisconnect(w, r)) \/ UNCHANGED vars
  BY <1>4, <1>9 DEF ProcessDisconnect, vars
<1> QED
  BY <1>5, <1>6, <1>7, <1>8, <1>9

\* Each step keeps the calls in their places.
LEMMA PlacesInductive == Spec => [](InductiveInvariant /\ CallsInPlace)
<1>1. Init => CallsInPlace
  <2> SUFFICES ASSUME Init
               PROVE  CallsInPlace
    OBVIOUS
  <2>1. \A t \in Threads : stack[t] = <<>>
    BY DEF Init
  <2>2. Positions = {}
    BY <2>1 DEF Positions
  <2>3. \A s \in Sessions : send[s] # "held"
    BY DEF Init
  <2> QED
    BY <2>2, <2>3 DEF CallsInPlace, HeldInCalls
<1>2. ASSUME InductiveInvariant, CallsInPlace, [Next]_vars
      PROVE  CallsInPlace'
  <2>1. ASSUME NEW t \in Threads, Run(t)
        PROVE  CallsInPlace'
    BY <1>2, <2>1, RunKeepsPlaces
  <2>2. CASE ~\E t \in Threads : Run(t)
    <3>1. \/ \E w \in Workers : \/ \E e \in Accepts : ProcessAccept(w, e)
                                \/ \E r \in Sessions : \/ ProcessRecv(w, r)
                                                       \/ ProcessSend(w, r)
                                                       \/ ProcessDisconnect(w, r)
          \/ Update \/ UNCHANGED vars
      BY <1>2, <2>2 DEF Next
    <3> QED
      BY <1>2, <3>1, EventsKeepPlaces
  <2> QED
    BY <2>1, <2>2
<1>3. InductiveInvariant /\ CallsInPlace /\ [Next]_vars => CallsInPlace'
  BY <1>2
<1> QED
  BY <1>1, <1>3, Inductive, PTL DEF Spec

\* What keeps the session of a call alive: the call itself, the event that
\* RegisterSend has made its owner, or the call that made it.
LEMMA CallsAreAlive ==
    ASSUME InductiveInvariant, NEW p \in Positions,
           frames[p].at \notin Unheld \cup {"clear", "update", "lost"}
    PROVE  Alive(frames[p].session)
<1>1. Shapes /\ Named /\ Sends /\ Supports
  BY DEF InductiveInvariant
<1>2. ASSUME NEW q \in Positions, frames[q].at \in Holding \cup GivingUp
      PROVE  Alive(frames[q].session)
  <2>1. frames[q] \in Calls
    BY <1>1, CallsArePlaced
  <2>2. CASE frames[q].at \in Holding
    BY <2>1, <2>2 DEF Alive
  <2>3. CASE frames[q].at \in GivingUp
    <3>1. send[frames[q].session] = "held"
      BY <1>1, <2>3 DEF GivingUp, Sends, Fits
    <3> QED
      BY <3>1 DEF Alive
  <2> QED
    BY <1>2, <2>2, <2>3
<1>3. CASE frames[p].at \in {"disconnect", "hangup", "post"}
  <2>1. frames[p].session \in Sessions
    BY <1>1, <1>3, FramesAreFrames DEF Named, Frames
  <2>2. Works(p, Supported, frames[p].session)
    BY <1>3 DEF Works, Supported, Disconnecting
  <2>3. Below(p) \in Positions /\ Works(Below(p), Supporting, frames[p].session)
    BY <1>1, <2>1, <2>2 DEF Supports
  <2>4. frames[Below(p)].at \in Holding \cup GivingUp
    BY <2>3 DEF Works, Supporting, Holding, GivingUp, Connecting, Dispatching
  <2> QED
    BY <1>2, <2>3, <2>4 DEF Works
<1>4. CASE frames[p].at \notin {"disconnect", "hangup", "post"}
  <2>1. frames[p].at \in Places
    BY <1>1, FramesAreFrames DEF Frames
  <2>2. frames[p].at \in Holding \cup GivingUp
    BY <1>4, <2>1 DEF Places, Holding, GivingUp, Connecting, Dispatching, Disconnecting,
                      Registering, Unheld
  <2> QED
    BY <1>2, <2>2
<1> QED
  BY <1>3, <1>4

\* A thread works on a session that has been destroyed in two cases only: it
\* has found the player in a broadcast, and has come to no reference yet; or it
\* is about to clear the flag, after the reference of a send that has failed.
\* Every other call is on a session that its own reference, that of the call
\* below or an event keeps alive.
THEOREM SessionsStayAlive == Spec => []KeptAlive
<1>1. ASSUME InductiveInvariant, CallsInPlace
      PROVE  KeptAlive
  <2>0. Shapes /\ Named
    BY <1>1 DEF InductiveInvariant
  <2> SUFFICES ASSUME NEW t \in Threads, NEW i \in DOMAIN stack[t],
                      stack[t][i].session # NoSession, ~Alive(stack[t][i].session)
               PROVE  \/ /\ stack[t][i].at \in {"send", "register", "own"}
                         /\ FromBroadcast(t, i)
                      \/ stack[t][i].at = "clear"
    BY DEF KeptAlive
  <2>1. stack[t] \in Seq(Frames) /\ Len(stack[t]) \in Nat /\ i \in 1..Len(stack[t])
    BY <2>0 DEF Shapes
  <2> PICK p : p = Place(t, Len(stack[t]) + 1 - i)
    OBVIOUS
  <2>2. /\ p \in Positions /\ p[1] = t /\ p[2] = Len(stack[t]) + 1 - i
        /\ frames[p] = stack[t][i]
    <3>1. p[1] = t /\ p[2] = Len(stack[t]) + 1 - i /\ p \in Positions
      BY <2>1 DEF Positions, Place
    <3>2. Len(stack[t]) + 1 - p[2] = i
      BY <2>1, <3>1
    <3> QED
      BY <3>1, <3>2 DEF frames
  <2>3. frames[p].at \notin {"update", "lost"}
    BY <2>0, <2>2 DEF Named
  <2>4. frames[p].at \in Unheld \cup {"clear"}
    BY <1>1, <2>2, <2>3, CallsAreAlive
  <2>5. CASE frames[p].at \in Unheld
    <3>1. /\ Below(p) \in Positions
          /\ \/ frames[Below(p)].at \in Broadcasting
             \/ /\ frames[Below(p)].at \in Greeting
                /\ frames[Below(p)].session = frames[p].session
      BY <1>1, <2>2, <2>5 DEF CallsInPlace, CalledFor
    <3>2. Below(p)[1] = t /\ Below(p)[2] = Len(stack[t]) - i
      BY <2>1, <2>2 DEF Below, Place
    <3>3. Len(stack[t]) - i >= 1
      BY <3>1, <3>2 DEF Positions
    <3>4. Len(stack[t]) + 1 - Below(p)[2] = i + 1 /\ i < Len(stack[t])
      BY <2>1, <3>2, <3>3
    <3>5. frames[Below(p)] = stack[t][i + 1]
      BY <3>1, <3>2, <3>4 DEF frames
    <3>6. CASE frames[Below(p)].at \in Greeting
      <4>1. frames[Below(p)].at \notin Unheld \cup {"clear", "update", "lost"} \cup Broadcasting
        BY <3>6 DEF Greeting, Unheld, Broadcasting
      <4> QED
        BY <1>1, <2>2, <3>1, <4>1, CallsAreAlive
    <3>7. CASE frames[Below(p)].at \in Broadcasting
      BY <2>2, <2>5, <3>4, <3>5, <3>7 DEF FromBroadcast, Unheld
    <3> QED
      BY <3>1, <3>6, <3>7
  <2> QED
    BY <2>2, <2>4, <2>5
<1>2. InductiveInvariant /\ CallsInPlace => KeptAlive
  BY <1>1
<1> QED
  BY <1>2, PlacesInductive, PTL

-----------------------------------------------------------------------------
(* How sessions pass from stage to stage *)

\* Calls come in place of others.
LEMMA CallsReplaced ==
    ASSUME Shapes, NEW t \in Threads, Busy(t), NEW calls \in Seq(Frames),
           Become(t, calls)
    PROVE  /\ \A c \in Calls' : c \in Calls \/ \E i \in 1..Len(calls) : c = calls[i]
           /\ \A c \in Calls : c = Top(t) \/ c \in Calls'
           /\ \A i \in 1..Len(calls) : calls[i] \in Calls'
<1> DEFINE kept == Tail(stack[t])
<1>1. stack \in [Threads -> Seq(Frames)] /\ stack[t] \in Seq(Frames) /\ stack[t] # <<>>
  BY DEF Shapes, Busy
<1>2. /\ kept \in Seq(Frames) /\ Len(kept) = Len(stack[t]) - 1
      /\ \A i \in 1..Len(kept) : kept[i] = stack[t][i + 1]
      /\ Len(stack[t]) \in Nat /\ Len(calls) \in Nat /\ Len(kept) \in Nat
  BY <1>1
<1>3. stack'[t] = calls \o kept /\ \A u \in Threads : u # t => stack'[u] = stack[u]
  BY <1>1 DEF Become
<1> HIDE DEF kept
<1>4. /\ DOMAIN stack'[t] = 1..(Len(calls) + Len(kept))
      /\ \A i \in 1..Len(calls) : stack'[t][i] = calls[i]
      /\ \A i \in 1..Len(kept) : stack'[t][Len(calls) + i] = kept[i]
  <2> PICK new : new = calls \o kept
    OBVIOUS
  <2>1. /\ new \in Seq(Frames) /\ Len(new) = Len(calls) + Len(kept)
        /\ \A i \in 1..Len(calls) + Len(kept) :
              new[i] = IF i <= Len(calls) THEN calls[i] ELSE kept[i - Len(calls)]
    BY <1>2, ConcatProperties
  <2>2. /\ \A i \in 1..Len(calls) : new[i] = calls[i]
        /\ \A i \in 1..Len(kept) : new[Len(calls) + i] = kept[i]
    BY <1>2, <2>1
  <2> QED
    BY <1>3, <2>1, <2>2
<1>5. ASSUME NEW c \in Calls'
      PROVE  c \in Calls \/ \E i \in 1..Len(calls) : c = calls[i]
  <2>1. PICK u \in Threads : \E i \in DOMAIN stack'[u] : c = stack'[u][i]
    BY DEF Calls
  <2>2. PICK i \in DOMAIN stack'[u] : c = stack'[u][i]
    BY <2>1
  <2>3. CASE u # t
    BY <1>3, <2>2, <2>3 DEF Calls
  <2>4. CASE u = t /\ i > Len(calls)
    <3>1. /\ i - Len(calls) \in 1..Len(kept) /\ i = Len(calls) + (i - Len(calls))
          /\ i - Len(calls) + 1 \in 1..Len(stack[t])
      BY <1>2, <1>4, <2>4
    <3>2. c = stack[t][i - Len(calls) + 1]
      BY <1>2, <1>4, <2>2, <2>4, <3>1
    <3> QED
      BY <1>1, <3>1, <3>2 DEF Calls
  <2>5. CASE u = t /\ i <= Len(calls)
    BY <1>2, <1>4, <2>2, <2>5
  <2> QED
    BY <2>3, <2>4, <2>5, <1>2, <1>4
<1>6. ASSUME NEW c \in Calls, c # Top(t)
      PROVE  c \in Calls'
  <2>1. PICK u \in Threads : \E i \in DOMAIN stack[u] : c = stack[u][i]
    BY DEF Calls
  <2>2. PICK i \in DOMAIN stack[u] : c = stack[u][i]
    BY <2>1
  <2>3. CASE u # t
    BY <1>3, <2>2, <2>3 DEF Calls
  <2>4. CASE u = t
    <3>1. i \in 1..Len(stack[t]) /\ i # 1
      BY <1>1, <1>6, <2>2, <2>4 DEF Top
    <3>2. /\ i - 1 \in 1..Len(kept) /\ Len(calls) + (i - 1) \in DOMAIN stack'[t]
          /\ kept[i - 1] = stack[t][i - 1 + 1] /\ i - 1 + 1 = i
      BY <1>2, <1>4, <3>1, SMTT(30)
    <3>3. stack'[t][Len(calls) + (i - 1)] = c
      BY <1>4, <2>2, <2>4, <3>2
    <3> QED
      BY <3>2, <3>3 DEF Calls
  <2> QED
    BY <2>3, <2>4
<1>7. ASSUME NEW i \in 1..Len(calls)
      PROVE  calls[i] \in Calls'
  <2>1. i \in DOMAIN stack'[t] /\ stack'[t][i] = calls[i]
    BY <1>2, <1>4
  <2> QED
    BY <2>1 DEF Calls
<1> QED
  BY <1>5, <1>6, <1>7

\* The calls after a step of t in which the calls of a set come in place of
\* the innermost one.
CallsBecome(t, new) ==
    /\ \A c \in Calls' : c \in Calls \/ c \in new
    /\ \A c \in Calls : c = Top(t) \/ c \in Calls'
    /\ \A c \in new : c \in Calls'

LEMMA CallsOfReturn ==
    ASSUME Shapes, NEW t \in Threads, Busy(t), Return(t)
    PROVE  CallsBecome(t, {})
<1> DEFINE new == <<>>
<1>1. new \in Seq(Frames) /\ Len(new) = 0 /\ Become(t, new)
  BY DEF Return
<1> HIDE DEF new
<1>2. /\ \A c \in Calls' : c \in Calls \/ \E i \in 1..Len(new) : c = new[i]
      /\ \A c \in Calls : c = Top(t) \/ c \in Calls'
      /\ \A i \in 1..Len(new) : new[i] \in Calls'
  BY <1>1, CallsReplaced
<1> QED
  BY <1>1, <1>2 DEF CallsBecome

LEMMA CallsOfOne ==
    ASSUME Shapes, NEW t \in Threads, Busy(t), NEW z \in Frames, Become(t, <<z>>)
    PROVE  CallsBecome(t, {z})
<1> DEFINE new == <<z>>
<1>1. /\ new \in Seq(Frames) /\ Len(new) = 1 /\ new[1] = z /\ Become(t, new)
      /\ 1..Len(new) = {1}
  OBVIOUS
<1> HIDE DEF new
<1>2. /\ \A c \in Calls' : c \in Calls \/ \E i \in 1..Len(new) : c = new[i]
      /\ \A c \in Calls : c = Top(t) \/ c \in Calls'
      /\ \A i \in 1..Len(new) : new[i] \in Calls'
  BY <1>1, CallsReplaced
<1> QED
  BY <1>1, <1>2 DEF CallsBecome

LEMMA CallsOfTwo ==
    ASSUME Shapes, NEW t \in Threads, Busy(t), NEW y \in Frames, NEW z \in Frames,
           Become(t, <<y, z>>)
    PROVE  CallsBecome(t, {y, z})
<1> DEFINE new == <<y, z>>
<1>1. /\ new \in Seq(Frames) /\ Len(new) = 2 /\ new[1] = y /\ new[2] = z
      /\ Become(t, new) /\ 1..Len(new) = {1, 2}
  OBVIOUS
<1> HIDE DEF new
<1>2. /\ \A c \in Calls' : c \in Calls \/ \E i \in 1..Len(new) : c = new[i]
      /\ \A c \in Calls : c = Top(t) \/ c \in Calls'
      /\ \A i \in 1..Len(new) : new[i] \in Calls'
  BY <1>1, CallsReplaced
<1> QED
  BY <1>1, <1>2 DEF CallsBecome

\* A thread that is in no call begins one.
LEMMA CallsBegun ==
    ASSUME Shapes, NEW t \in Threads, ~Busy(t), NEW calls \in Seq(Frames),
           Begins(t, calls)
    PROVE  /\ \A c \in Calls' : c \in Calls \/ \E i \in 1..Len(calls) : c = calls[i]
           /\ \A c \in Calls : c \in Calls'
           /\ \A i \in 1..Len(calls) : calls[i] \in Calls'
<1>1. stack \in [Threads -> Seq(Frames)] /\ DOMAIN stack[t] = {}
  BY DEF Shapes, Busy
<1>2. stack'[t] = calls /\ \A u \in Threads : u # t => stack'[u] = stack[u]
  BY <1>1 DEF Begins
<1>3. DOMAIN calls = 1..Len(calls)
  OBVIOUS
<1>4. ASSUME NEW c \in Calls'
      PROVE  c \in Calls \/ \E i \in 1..Len(calls) : c = calls[i]
  <2>1. PICK u \in Threads : \E i \in DOMAIN stack'[u] : c = stack'[u][i]
    BY DEF Calls
  <2>2. CASE u = t
    BY <1>2, <1>3, <2>1, <2>2
  <2>3. CASE u # t
    BY <1>2, <2>1, <2>3 DEF Calls
  <2> QED
    BY <2>2, <2>3
<1>5. ASSUME NEW c \in Calls
      PROVE  c \in Calls'
  <2>1. PICK u \in Threads : \E i \in DOMAIN stack[u] : c = stack[u][i]
    BY DEF Calls
  <2>2. u # t /\ stack'[u] = stack[u]
    BY <1>1, <1>2, <2>1
  <2> QED
    BY <2>1, <2>2 DEF Calls
<1>6. ASSUME NEW i \in 1..Len(calls)
      PROVE  calls[i] \in Calls'
  BY <1>2, <1>3 DEF Calls
<1> QED
  BY <1>4, <1>5, <1>6

LEMMA CallsBegunByOne ==
    ASSUME Shapes, NEW t \in Threads, ~Busy(t), NEW z \in Frames, Begins(t, <<z>>)
    PROVE  (\A c \in Calls' : c \in Calls \/ c = z) /\ (\A c \in Calls : c \in Calls')
<1> PICK calls : calls = <<z>>
  OBVIOUS
<1>1. /\ calls \in Seq(Frames) /\ Len(calls) = 1 /\ calls[1] = z /\ 1..Len(calls) = {1}
      /\ Begins(t, calls)
  OBVIOUS
<1>2. /\ \A c \in Calls' : c \in Calls \/ \E i \in 1..Len(calls) : c = calls[i]
      /\ \A c \in Calls : c \in Calls'
  BY <1>1, CallsBegun
<1> QED
  BY <1>1, <1>2

LEMMA CallsBegunByTwo ==
    ASSUME Shapes, NEW t \in Threads, ~Busy(t), NEW y \in Frames, NEW z \in Frames,
           Begins(t, <<y, z>>)
    PROVE  (\A c \in Calls' : c \in Calls \/ c \in {y, z}) /\ (\A c \in Calls : c \in Calls')
<1> PICK calls : calls = <<y, z>>
  OBVIOUS
<1>1. /\ calls \in Seq(Frames) /\ Len(calls) = 2 /\ calls[1] = y /\ calls[2] = z
      /\ 1..Len(calls) = {1, 2} /\ Begins(t, calls)
  OBVIOUS
<1> QED
  BY <1>1, CallsBegun, ZenonT(30)

\* Somebody other than a call refers to the session.
Kept(s) ==
    \/ s \in service \cup manager \cup room \cup receiving \cup leaving
    \/ \E e \in Accepts : offered[e] = s
    \/ send[s] \in {"sending", "held"}

LEMMA AliveIsKeptOrHeld ==
    ASSUME NEW s
    PROVE  Alive(s) <=> Kept(s) \/ \E c \in Calls : c.session = s /\ c.at \in Holding
  BY DEF Alive, Kept

\* What the stages of a session have to do with each other.
Apart ==
    \A s \in Sessions :
        /\ Expected(s) => s \notin connected \cup fresh /\ Alive(s)
        /\ s \in connected => s \notin fresh /\ Alive(s)

LEMMA StagesApart == InductiveInvariant => Apart
<1> SUFFICES ASSUME InductiveInvariant, NEW s \in Sessions
             PROVE  /\ Expected(s) => s \notin connected \cup fresh /\ Alive(s)
                    /\ s \in connected => s \notin fresh /\ Alive(s)
  BY DEF Apart
<1>1. Shapes /\ Births /\ Starts /\ Registers /\ Offers
  BY DEF InductiveInvariant
<1>2. CASE \E e \in listening : offered[e] = s
  BY <1>1, <1>2 DEF Births, Unborn, Alive, Shapes, Offers
<1>3. ASSUME NEW c \in Calls, c.session = s, c.at = "connect"
      PROVE  s \notin connected \cup fresh /\ Alive(s)
  <2>1. PICK p \in Positions : frames[p] = c
    BY <1>1, CallsArePlaced
  <2>2. Works(p, Early, s)
    BY <1>3, <2>1 DEF Works, Early
  <2>3. s \notin connected
    BY <1>1, <1>3, <2>1, <2>2 DEF Starts
  <2>4. s \notin fresh
    BY <1>1, <1>3, <2>1 DEF Births, Unborn
  <2>5. c.at \in Holding
    BY <1>3 DEF Holding, Connecting
  <2> QED
    BY <1>3, <2>3, <2>4, <2>5 DEF Alive
<1>4. ASSUME s \in connected
      PROVE  s \notin fresh /\ Alive(s)
  <2>1. s \notin fresh
    BY <1>1, <1>4 DEF Births, Unborn
  <2>2. CASE s \in service
    BY <2>1, <2>2 DEF Alive
  <2>3. CASE \E p \in Positions : Works(p, Early, s)
    <3>1. PICK p \in Positions : Works(p, Early, s)
      BY <2>3
    <3>2. frames[p] \in Calls /\ frames[p].session = s /\ frames[p].at \in Holding
      BY <1>1, <3>1, CallsArePlaced DEF Works, Early, Holding, Connecting
    <3> QED
      BY <2>1, <3>2 DEF Alive
  <2> QED
    BY <1>1, <1>4, <2>2, <2>3 DEF Registers
<1> QED
  BY <1>2, <1>3, <1>4 DEF Expected

\* s stays where it is, or passes to a stage that may follow.
Passes(s) == Stage(s)' = Stage(s) \/ <<Stage(s), Stage(s)'>> \in Life!Passages

\* A step that offers nothing: calls come and go, and no reference appears but
\* to a session that is alive.
LEMMA Passing ==
    ASSUME InductiveInvariant, InductiveInvariant', NEW s \in Sessions,
           NEW gone, NEW new, UNCHANGED events,
           \A c \in Calls' : c \in Calls \/ c \in new,
           \A c \in Calls : c \in gone \/ c \in Calls',
           \A c \in new : c.session = s =>
               c.at # "connect" /\ (c.at \in Holding => Alive(s)),
           \A c \in gone : c.session = s /\ c.at = "connect" => s \in connected',
           Kept(s)' => Alive(s),
           s \in connected' => s \in connected \/ Expected(s),
           s \in connected => s \in connected' \/ Alive(s)'
    PROVE  Passes(s)
<1>1. /\ Expected(s) => s \notin connected \cup fresh /\ Alive(s)
      /\ s \in connected => s \notin fresh /\ Alive(s)
  BY StagesApart DEF Apart
<1>2. /\ Expected(s)' => s \notin connected' \cup fresh' /\ Alive(s)'
      /\ s \in connected' => s \notin fresh' /\ Alive(s)'
  <2>1. (InductiveInvariant => Apart)'
    BY StagesApart, PTL
  <2> QED
    BY <2>1 DEF Apart
<1>3. Alive(s)' => Alive(s)
  BY DEF Alive, Kept
<1>4. offered' = offered /\ listening' = listening /\ fresh' = fresh
  BY DEF events
<1>5. Expected(s)' => Expected(s)
  BY <1>4 DEF Expected
<1>6. Expected(s) => Expected(s)' \/ s \in connected'
  BY <1>4 DEF Expected
<1> QED
  BY <1>1, <1>2, <1>3, <1>4, <1>5, <1>6 DEF Passes, Stage, Life!Passages

\* The innermost call, and whether its session is alive for certain.
LEMMA TopIsAlive ==
    ASSUME InductiveInvariant, NEW t \in Threads, Busy(t)
    PROVE  /\ Top(t) \in Frames /\ Top(t) \in Calls
           /\ Top(t).at \notin {"update", "lost"} => Top(t).session \in Sessions
           /\ Top(t).at \notin Unheld \cup {"clear", "update", "lost"} =>
                 Alive(Top(t).session)
<1> PICK top : top = Innermost(t)
  OBVIOUS
<1>1. Shapes /\ Named
  BY DEF InductiveInvariant
<1>2. top \in Positions /\ frames[top] = Top(t) /\ Top(t) \in Frames
  BY <1>1, InnermostIsTop
<1>3. Top(t) \in Calls
  BY <1>1, <1>2, CallsArePlaced
<1> QED
  BY <1>1, <1>2, <1>3, TopIsTold, CallsAreAlive

\* A step inside a call that neither connects nor disconnects.
LEMMA CallPasses ==
    ASSUME InductiveInvariant, InductiveInvariant', NEW s \in Sessions,
           NEW t \in Threads, Busy(t), Top(t).at # "connect",
           NEW new, CallsBecome(t, new), UNCHANGED <<events, connected>>,
           \A c \in new : c.session = s =>
               c.at # "connect" /\ (c.at \in Holding => Alive(s)),
           Kept(s)' => Alive(s)
    PROVE  Passes(s)
<1> PICK gone : gone = {Top(t)}
  OBVIOUS
<1>1. s \in connected => Alive(s)'
  <2>1. (InductiveInvariant => Apart)'
    BY StagesApart, PTL
  <2> QED
    BY <2>1 DEF Apart
<1>2. /\ UNCHANGED events /\ connected' = connected
      /\ \A c \in Calls' : c \in Calls \/ c \in new
      /\ \A c \in Calls : c \in gone \/ c \in Calls'
      /\ \A c \in gone : c.session = s /\ c.at = "connect" => s \in connected'
  BY DEF CallsBecome
<1> QED
  BY <1>1, <1>2, Passing

\* Who takes a reference in a step of a call has one, or is in RegisterSend.
LEMMA KeptByRun ==
    ASSUME InductiveInvariant, NEW t \in Threads, Run(t), ~AcceptNext(t),
           NEW s \in Sessions, Kept(s)'
    PROVE  Alive(s)
<1>0. /\ send \in [Sessions -> SendStates] /\ \A r : Kept(r) => Alive(r)
      /\ Busy(t) => Fits(Top(t), send[Top(t).session])
  BY AliveIsKeptOrHeld, TopFits DEF InductiveInvariant, Shapes
<1>1. CASE AddSession(t) \/ AddToManager(t) \/ EnterRoom(t) \/ PostRecv(t) \/ RegisterDisconnect(t)
  <2>1. /\ Busy(t) /\ Top(t).at \notin Unheld \cup {"clear", "update", "lost"}
        /\ Kept(s) \/ s = Top(t).session
    BY <1>1 DEF AddSession, AddToManager, EnterRoom, PostRecv, RegisterDisconnect, At, Unheld,
                Kept, events
  <2> QED
    BY <1>0, <2>1, TopIsAlive
<1>2. CASE Send(t) \/ RegisterSend(t) \/ Clear(t) \/ Forget(t)
  BY <1>0, <1>2 DEF Send, RegisterSend, Clear, Forget, At, Kept, events
<1>3. CASE OwnSend(t)
  BY <1>0, <1>3 DEF OwnSend, Kept, events
<1>4. CASE SubmitSend(t)
  <2>1. Busy(t) /\ Top(t).at = "submit"
    BY <1>4 DEF SubmitSend, At
  <2>2. Kept(s) \/ s = Top(t).session
    BY <1>0, <1>4 DEF SubmitSend, Refused, Kept, events
  <2> QED
    BY <1>0, <2>1, <2>2 DEF Fits, Kept
<1>5. CASE ~(\/ AddSession(t) \/ AddToManager(t) \/ EnterRoom(t) \/ PostRecv(t)
             \/ RegisterDisconnect(t) \/ Send(t) \/ RegisterSend(t) \/ Clear(t) \/ Forget(t)
             \/ OwnSend(t) \/ SubmitSend(t))
  <2>1. /\ UNCHANGED <<events, receiving, leaving, send>>
        /\ service' \subseteq service /\ manager' \subseteq manager /\ room' \subseteq room
    BY <1>5 DEF Run, Connect, TellRoom, BeforeEnter, AfterEnter, Handled, RegisterRecv,
       SendNext, UseDestroyed, Disconnect, RemoveFromManager, LeaveRoom, AfterLeave,
       ReleaseSession, Returned
  <2>2. Kept(s)
    BY <2>1 DEF Kept, events
  <2> QED
    BY <1>0, <2>2
<1> QED
  BY <1>1, <1>2, <1>3, <1>4, <1>5

LEMMA ConnectPasses ==
    ASSUME InductiveInvariant, InductiveInvariant', NEW s \in Sessions,
           NEW t \in Threads, Connect(t)
    PROVE  Passes(s)
<1>1. /\ Busy(t) /\ Top(t).at = "connect" /\ UNCHANGED events
      /\ connected' = connected \cup {Top(t).session}
      /\ UNCHANGED <<service, manager, room, receiving, send, leaving>>
      /\ Become(t, <<Call("list", Top(t).session)>>)
  BY DEF Connect, At, Goto
<1> PICK z : z = Call("list", Top(t).session)
  OBVIOUS
<1>2. /\ Shapes /\ Top(t) \in Frames /\ Top(t) \in Calls /\ Top(t).session \in Sessions
      /\ Alive(Top(t).session)
  BY <1>1, TopIsAlive DEF InductiveInvariant, Unheld
<1>3. z \in Frames /\ z.at = "list" /\ z.session = Top(t).session
  BY <1>2 DEF Call, Frame, Frames, Places, Connecting
<1>4. CallsBecome(t, {z})
  BY <1>1, <1>2, <1>3, CallsOfOne
<1> PICK gone, new : gone = {Top(t)} /\ new = {z}
  OBVIOUS
<1>5. /\ \A c \in Calls' : c \in Calls \/ c \in new
      /\ \A c \in Calls : c \in gone \/ c \in Calls'
      /\ \A c \in new : c.session = s =>
             c.at # "connect" /\ (c.at \in Holding => Alive(s))
      /\ \A c \in gone : c.session = s /\ c.at = "connect" => s \in connected'
  BY <1>1, <1>2, <1>3, <1>4 DEF CallsBecome
<1>6. s \in connected' => s \in connected \/ Expected(s)
  BY <1>1, <1>2 DEF Expected
<1>7. Kept(s)' => Alive(s)
  BY <1>1, AliveIsKeptOrHeld DEF Kept, events
<1>8. s \in connected => s \in connected'
  BY <1>1
<1> QED
  BY <1>1, <1>5, <1>6, <1>7, <1>8, Passing

LEMMA DisconnectPasses ==
    ASSUME InductiveInvariant, InductiveInvariant', NEW s \in Sessions,
           NEW t \in Threads, Disconnect(t), Top(t).session \in connected
    PROVE  Passes(s)
<1>1. /\ Busy(t) /\ Top(t).at = "disconnect" /\ UNCHANGED events
      /\ connected' = connected \ {Top(t).session}
      /\ UNCHANGED <<service, manager, room, receiving, send, leaving>>
      /\ Become(t, <<Call("unmanage", Top(t).session)>>)
  BY DEF Disconnect, At, Goto
<1> PICK z : z = Call("unmanage", Top(t).session)
  OBVIOUS
<1>2. /\ Shapes /\ Top(t) \in Frames /\ Top(t) \in Calls /\ Top(t).session \in Sessions
      /\ Alive(Top(t).session)
  BY <1>1, TopIsAlive DEF InductiveInvariant, Unheld
<1>3. z \in Frames /\ z.at = "unmanage" /\ z.session = Top(t).session
  BY <1>2 DEF Call, Frame, Frames, Places, Disconnecting
<1>4. CallsBecome(t, {z})
  BY <1>1, <1>2, <1>3, CallsOfOne
<1> PICK gone, new : gone = {Top(t)} /\ new = {z}
  OBVIOUS
<1>5. /\ \A c \in Calls' : c \in Calls \/ c \in new
      /\ \A c \in Calls : c \in gone \/ c \in Calls'
      /\ \A c \in new : c.session = s =>
             c.at # "connect" /\ (c.at \in Holding => Alive(s))
      /\ \A c \in gone : c.session = s /\ c.at = "connect" => s \in connected'
  BY <1>1, <1>2, <1>3, <1>4 DEF CallsBecome
<1>6. s \in connected => s \in connected' \/ Alive(s)'
  <2>1. z \in Calls' /\ z.at \in Holding
    BY <1>3, <1>4 DEF CallsBecome, Holding
  <2> QED
    BY <1>1, <1>3, <2>1 DEF Alive
<1>7. Kept(s)' => Alive(s)
  BY <1>1, AliveIsKeptOrHeld DEF Kept, events
<1>8. s \in connected' => s \in connected
  BY <1>1
<1> QED
  BY <1>1, <1>5, <1>6, <1>7, <1>8, Passing

\* Every other step of a call.
LEMMA RunningPasses ==
    ASSUME InductiveInvariant, CallsInPlace, InductiveInvariant', NEW s \in Sessions,
           NEW t \in Threads, Run(t), ~AcceptNext(t), ~Connect(t),
           ~(Disconnect(t) /\ Top(t).session \in connected)
    PROVE  Passes(s)
<1> PICK o : o = Top(t)
  OBVIOUS
<1>0. Shapes /\ Busy(t)
  BY RunsOn DEF InductiveInvariant
<1>1. o \in Frames /\ (o.at \notin Unheld \cup {"clear", "update", "lost"} => Alive(o.session))
  BY <1>0, TopIsAlive
<1>2. Rests(o)
  BY <1>0, InnermostIsTop DEF CallsInPlace
<1>3. Kept(s)' => Alive(s)
  BY KeptByRun
<1>4. UNCHANGED <<events, connected>>
  BY DEF Run, AddSession, AddToManager, TellRoom, BeforeEnter, EnterRoom,
         AfterEnter, Handled, RegisterRecv, PostRecv, SendNext, Send, RegisterSend, OwnSend,
         SubmitSend, Forget, Clear, UseDestroyed, Disconnect, RemoveFromManager, LeaveRoom,
         AfterLeave, ReleaseSession, RegisterDisconnect, Returned
<1>5. o.at # "connect"
  <2>1. SendNext(t) => o.todo # {}
    BY DEF SendNext
  <2>2. SendNext(t) => o.at # "connect"
    BY <1>2, <2>1 DEF Rests, Broadcasting
  <2> QED
    BY <2>2 DEF Run, AddSession, AddToManager, TellRoom, BeforeEnter, EnterRoom,
         AfterEnter, Handled, RegisterRecv, PostRecv, Send, RegisterSend, OwnSend,
         SubmitSend, Forget, Clear, UseDestroyed, Disconnect, RemoveFromManager, LeaveRoom,
         AfterLeave, ReleaseSession, RegisterDisconnect, Returned, At
\* The calls that come hold no session but the one of the call they come from.
<1>6. \E new : /\ CallsBecome(t, new)
               /\ \A c \in new : /\ c.at # "connect"
                                 /\ c.at \in Holding =>
                                       /\ c.session = o.session
                                       /\ o.at \notin Unheld \cup {"clear", "update", "lost"}
  <2>1. CASE LeadsOn(t)
    <3>1. PICK z \in Frames :
            /\ Become(t, <<z>>) /\ <<o.at, z.at>> \in Leads
            /\ z.session = o.session /\ z.session \in Sessions /\ Rests(z)
      BY <2>1 DEF LeadsOn
    <3>2. CallsBecome(t, {z})
      BY <1>0, <3>1, CallsOfOne
    <3>3. z.at # "connect"
      BY <3>1 DEF Leads
    <3>4. z.at \in Holding => o.at \notin Unheld \cup {"clear", "update", "lost"}
      BY <3>1 DEF Leads, Holding, Unheld, Connecting, Dispatching
    <3> QED
      BY <3>1, <3>2, <3>3, <3>4
  <2>2. CASE ReturnsOn(t)
    <3>1. CallsBecome(t, {})
      BY <1>0, <2>2, CallsOfReturn DEF ReturnsOn
    <3> QED
      BY <3>1
  <2>3. CASE CallsOn(t)
    <3>1. PICK y, z \in Frames :
            /\ Become(t, <<y, z>>)
            /\ <<o.at, y.at, z.at>> \in
                  {<<"receive", "post", "accept">>, <<"again", "post", "return">>,
                   <<"submit", "disconnect", "forget">>}
            /\ y.session = o.session /\ z.session = o.session
            /\ y.todo = {} /\ z.todo = {} /\ y.session \in Sessions
      BY <2>3 DEF CallsOn
    <3>2. CallsBecome(t, {y, z})
      BY <1>0, <3>1, CallsOfTwo
    <3>3. o.at \notin Unheld \cup {"clear", "update", "lost"} /\ y.at # "connect" /\ z.at # "connect"
      BY <3>1 DEF Unheld
    <3> QED
      BY <3>1, <3>2, <3>3
  <2>4. CASE SendNext(t)
    <3>1. PICK r \in o.todo :
          LET below == <<[o EXCEPT !.todo = @ \ {r}]>>
          IN  \/ Become(t, below)
              \/ Become(t, <<Call("send", r)>> \o below)
      BY <2>4 DEF SendNext
    <3> PICK z : z = [o EXCEPT !.todo = @ \ {r}]
      OBVIOUS
    <3> PICK y : y = Call("send", r)
      OBVIOUS
    <3>2. /\ z \in Frames /\ z.at = o.at /\ z.session = o.session
          /\ y \in Frames /\ y.at = "send"
      BY <1>1, <3>1 DEF Frames, Call, Frame, Places, Registering
    <3>3. CallsBecome(t, {z}) \/ CallsBecome(t, {y, z})
      BY <1>0, <3>1, <3>2, PutBefore, CallsOfOne, CallsOfTwo
    <3>4. o.at \in Holding => o.at \notin Unheld \cup {"clear", "update", "lost"}
      BY DEF Holding, Unheld, Connecting, Dispatching
    <3>5. "send" \notin Holding
      BY DEF Holding, Connecting, Dispatching
    <3>6. z.at # "connect" /\ y.at # "connect" /\ y.at \notin Holding
      BY <1>5, <3>2, <3>5
    <3>7. CASE CallsBecome(t, {z})
      <4> PICK new : new = {z}
        OBVIOUS
      <4>1. \A c \in new : /\ c.at # "connect"
                           /\ c.at \in Holding =>
                                 /\ c.session = o.session
                                 /\ o.at \notin Unheld \cup {"clear", "update", "lost"}
        BY <3>2, <3>4, <3>6
      <4> QED
        BY <3>7, <4>1
    <3>8. CASE CallsBecome(t, {y, z})
      <4> PICK new : new = {y, z}
        OBVIOUS
      <4>1. \A c \in new : /\ c.at # "connect"
                           /\ c.at \in Holding =>
                                 /\ c.session = o.session
                                 /\ o.at \notin Unheld \cup {"clear", "update", "lost"}
        BY <3>2, <3>4, <3>6
      <4> QED
        BY <3>8, <4>1
    <3> QED
      BY <3>3, <3>7, <3>8
  <2>5. CASE UseDestroyed(t)
    <3> PICK z : z = Call("lost", NoSession)
      OBVIOUS
    <3>1. z \in Frames /\ z.at = "lost" /\ Become(t, <<z>>)
      BY <2>5 DEF Call, Frame, Frames, Places, UseDestroyed
    <3>2. CallsBecome(t, {z})
      BY <1>0, <3>1, CallsOfOne
    <3>3. "lost" \notin Holding
      BY DEF Holding, Connecting, Dispatching
    <3> QED
      BY <3>1, <3>2, <3>3
  <2> QED
    BY <2>1, <2>2, <2>3, <2>4, <2>5, RunsOn
<1>7. PICK new : /\ CallsBecome(t, new)
                 /\ \A c \in new : /\ c.at # "connect"
                                   /\ c.at \in Holding =>
                                         /\ c.session = o.session
                                         /\ o.at \notin Unheld \cup {"clear", "update", "lost"}
  BY <1>6
<1>8. \A c \in new : c.session = s => c.at # "connect" /\ (c.at \in Holding => Alive(s))
  BY <1>1, <1>7
<1> QED
  BY <1>0, <1>3, <1>4, <1>5, <1>7, <1>8, CallPasses

\* A thread that was in no call handles an event of session r.
LEMMA BeginningPasses ==
    ASSUME InductiveInvariant, InductiveInvariant', NEW s \in Sessions,
           NEW t \in Threads, ~Busy(t), NEW calls \in Seq(Frames), Begins(t, calls),
           UNCHANGED <<events, connected>>,
           \A i \in 1..Len(calls) :
               calls[i].at # "connect" /\ (calls[i].session = s => Alive(s)),
           Kept(s)' => Alive(s)
    PROVE  Passes(s)
<1> PICK gone, new : gone = {} /\ new = {calls[i] : i \in 1..Len(calls)}
  OBVIOUS
<1>1. Shapes
  BY DEF InductiveInvariant
<1>2. /\ \A c \in Calls' : c \in Calls \/ c \in new
      /\ \A c \in Calls : c \in gone \/ c \in Calls'
  BY <1>1, CallsBegun
<1>3. UNCHANGED events /\ connected' = connected
  OBVIOUS
<1>4. \A c \in new : c.session = s => c.at # "connect" /\ (c.at \in Holding => Alive(s))
  OBVIOUS
<1> QED
  BY <1>2, <1>3, <1>4, Passing

LEMMA EventPasses ==
    ASSUME InductiveInvariant, InductiveInvariant', NEW s \in Sessions,
           \/ \E w \in Workers, r \in Sessions : ProcessRecv(w, r) \/ ProcessSend(w, r)
           \/ Update
    PROVE  Passes(s)
<1>0. /\ room \subseteq Sessions /\ send \in [Sessions -> SendStates] /\ Shapes
      /\ \A r : Kept(r) => Alive(r)
  BY AliveIsKeptOrHeld DEF InductiveInvariant, Shapes
\* One call begins, or two.
<1>1. ASSUME NEW w \in Threads, ~Busy(w), UNCHANGED <<events, connected>>, Kept(s)' => Alive(s),
             NEW y \in Frames, NEW z \in Frames, Begins(w, <<z>>) \/ Begins(w, <<y, z>>),
             y.at # "connect", z.at # "connect",
             y.session = s \/ z.session = s => Alive(s)
      PROVE  Passes(s)
  <2>1. PICK calls \in Seq(Frames) :
            /\ Begins(w, calls)
            /\ \A i \in 1..Len(calls) :
                  calls[i].at # "connect" /\ (calls[i].session = s => Alive(s))
    <3>1. CASE Begins(w, <<z>>)
      <4> PICK calls : calls = <<z>>
        OBVIOUS
      <4>1. /\ calls \in Seq(Frames)
            /\ \A i \in 1..Len(calls) :
                  calls[i].at # "connect" /\ (calls[i].session = s => Alive(s))
        BY <1>1
      <4> QED
        BY <3>1, <4>1
    <3>2. CASE Begins(w, <<y, z>>)
      <4> PICK calls : calls = <<y, z>>
        OBVIOUS
      <4>1. /\ calls \in Seq(Frames)
            /\ \A i \in 1..Len(calls) :
                  calls[i].at # "connect" /\ (calls[i].session = s => Alive(s))
        BY <1>1
      <4> QED
        BY <3>2, <4>1
    <3> QED
      BY <1>1, <3>1, <3>2
  <2> HIDE DEF Begins
  <2> QED
    BY <1>1, <2>1, BeginningPasses
<1>2. ASSUME NEW w \in Workers, NEW r \in Sessions, ProcessRecv(w, r)
      PROVE  Passes(s)
  <2>1. /\ ~Busy(w) /\ w \in Threads /\ UNCHANGED <<events, connected>> /\ Alive(r)
        /\ Kept(s)' => Alive(s)
    BY <1>0, <1>2 DEF ProcessRecv, Threads, Kept, events
  <2> PICK y : y = Call("disconnect", r)
    OBVIOUS
  <2>2. PICK z \in {Call("return", r), Call("handle", r), Frame("handle", r, room)} :
            Begins(w, <<z>>) \/ Begins(w, <<y, z>>)
    BY <1>2 DEF ProcessRecv, Begins
  <2>3. /\ y \in Frames /\ y.session = r /\ y.at # "connect"
        /\ z \in Frames /\ z.session = r /\ z.at # "connect"
    BY <1>0 DEF Call, Frame, Frames, Places, Disconnecting, Dispatching
  <2> HIDE DEF Begins
  <2> QED
    BY <1>1, <2>1, <2>2, <2>3
<1>3. ASSUME NEW w \in Workers, NEW r \in Sessions, ProcessSend(w, r)
      PROVE  Passes(s)
  <2>1. /\ ~Busy(w) /\ w \in Threads /\ UNCHANGED <<events, connected>> /\ Alive(r)
        /\ UNCHANGED <<service, manager, room, receiving, leaving>>
    BY <1>0, <1>3 DEF ProcessSend, Threads, Kept
  <2>2. Kept(s)' => Alive(s)
    BY <1>0, <1>3, <2>1 DEF ProcessSend, Kept, events
  <2>3. CASE stack' = stack
    <3> PICK gone, new : gone = {} /\ new = {}
      OBVIOUS
    <3>1. /\ \A c \in Calls' : c \in Calls \/ c \in new
          /\ \A c \in Calls : c \in gone \/ c \in Calls'
          /\ \A c \in new : c.session = s => c.at # "connect" /\ (c.at \in Holding => Alive(s))
          /\ \A c \in gone : c.session = s /\ c.at = "connect" => s \in connected'
      BY <2>3 DEF Calls
    <3>2. UNCHANGED events /\ connected' = connected
      BY <2>1
    <3> QED
      BY <2>2, <3>1, <3>2, Passing
  <2>4. CASE stack' # stack
    <3> PICK z : z = Call("return", r)
      OBVIOUS
    <3>1. PICK y \in {Call("disconnect", r), Call("register", r)} : Begins(w, <<y, z>>)
      BY <1>3, <2>4 DEF ProcessSend, Begins
    <3>2. /\ y \in Frames /\ y.session = r /\ y.at # "connect"
          /\ z \in Frames /\ z.session = r /\ z.at # "connect"
      BY <3>1 DEF Call, Frame, Frames, Places, Disconnecting, Dispatching, Registering
    <3> HIDE DEF Begins
    <3> QED
      BY <1>1, <2>1, <2>2, <3>1, <3>2
  <2> QED
    BY <2>3, <2>4
<1>4. ASSUME Update
      PROVE  Passes(s)
  <2>1. /\ ~Busy(Main) /\ Main \in Threads /\ UNCHANGED <<events, connected>>
        /\ Kept(s)' => Alive(s)
    BY <1>0, <1>4 DEF Update, Threads, Kept, events
  <2> PICK z : z = Frame("update", NoSession, room)
    OBVIOUS
  <2>2. Begins(Main, <<z>>)
    BY <1>4 DEF Update, Begins
  <2>3. z \in Frames /\ z.session # s /\ z.at # "connect"
    BY <1>0, SessionsAssumption DEF Frame, Frames, Places
  <2> HIDE DEF Begins
  <2> QED
    BY <1>1, <2>1, <2>2, <2>3
<1> QED
  BY <1>2, <1>3, <1>4

LEMMA QuietPasses ==
    ASSUME InductiveInvariant, InductiveInvariant', NEW s \in Sessions,
           \/ \E w \in Workers, r \in Sessions : ProcessDisconnect(w, r)
           \/ UNCHANGED vars
    PROVE  Passes(s)
<1>1. /\ UNCHANGED <<events, connected, service, manager, room, receiving, stack, send>>
      /\ leaving' \subseteq leaving
  BY DEF ProcessDisconnect, vars, events
<1>2. Kept(s)' => Alive(s)
  BY <1>1, AliveIsKeptOrHeld DEF Kept, events
<1> PICK gone, new : gone = {} /\ new = {}
  OBVIOUS
<1>3. /\ \A c \in Calls' : c \in Calls \/ c \in new
      /\ \A c \in Calls : c \in gone \/ c \in Calls'
      /\ \A c \in new : c.session = s => c.at # "connect" /\ (c.at \in Holding => Alive(s))
      /\ \A c \in gone : c.session = s /\ c.at = "connect" => s \in connected'
  BY <1>1 DEF Calls
<1>4. UNCHANGED events /\ connected' = connected
  BY <1>1
<1> QED
  BY <1>2, <1>3, <1>4, Passing

\* A session that the step is not about stays where it is.
LEMMA StayingPasses ==
    ASSUME NEW s, s \in fresh' <=> s \in fresh, s \in connected' <=> s \in connected,
           Kept(s)' <=> Kept(s),
           \A c : c.session = s => (c \in Calls' <=> c \in Calls),
           (\E e \in listening' : offered'[e] = s) <=> (\E e \in listening : offered[e] = s)
    PROVE  Passes(s)
<1>1. Alive(s)' <=> Alive(s)
  BY DEF Alive, Kept
<1>2. Expected(s)' <=> Expected(s)
  BY DEF Expected
<1> QED
  BY <1>1, <1>2 DEF Passes, Stage

LEMMA ProcessAcceptPasses ==
    ASSUME InductiveInvariant, InductiveInvariant', NEW s \in Sessions,
           NEW w \in Workers, NEW e \in Accepts, ProcessAccept(w, e)
    PROVE  Passes(s)
<1> PICK r : r = offered[e]
  OBVIOUS
<1>1. /\ Shapes /\ Births /\ Offers /\ Starts
      /\ offered' = offered /\ listening' = listening \ {e} /\ fresh' = fresh
      /\ connected' = connected /\ e \in listening /\ r \in Sessions /\ Unborn(r)
      /\ Kept(s)' <=> Kept(s)
  BY SessionsAssumption DEF InductiveInvariant, ProcessAccept, Shapes, Offers, Unborn, Kept
<1>2. PICK z \in {Call("connect", r), Call("accept", r)} : Begins(w, <<z>>)
  BY DEF ProcessAccept, Begins
<1>3. z \in Frames /\ z.session = r /\ z.at \in {"connect", "accept"}
  BY <1>1 DEF Call, Frame, Frames, Places, Connecting
<1>4. /\ \A c \in Calls' : c \in Calls \/ c = z
      /\ \A c \in Calls : c \in Calls'
      /\ z \in Calls'
  <2> PICK calls : calls = <<z>>
    OBVIOUS
  <2>1. /\ calls \in Seq(Frames) /\ Len(calls) = 1 /\ calls[1] = z /\ 1..Len(calls) = {1}
        /\ Begins(w, calls)
    BY <1>2, <1>3
  <2>2. w \in Threads /\ ~Busy(w)
    BY DEF Threads, ProcessAccept
  <2>3. /\ \A c \in Calls' : c \in Calls \/ \E i \in 1..Len(calls) : c = calls[i]
        /\ \A c \in Calls : c \in Calls'
        /\ \A i \in 1..Len(calls) : calls[i] \in Calls'
    BY <1>1, <2>1, <2>2, CallsBegun
  <2> QED
    BY <2>1, <2>3
<1>5. CASE s = r
  <2>1. Expected(s) /\ Alive(s)
    BY <1>1, <1>5 DEF Expected, Alive, Shapes
  <2>2. s \notin connected /\ s \notin fresh
    BY <2>1, StagesApart DEF Apart
  <2>3. Alive(s)'
    BY <1>1, <1>5 DEF Alive, Shapes
  <2>4. Stage(s) = "expected" /\ Stage(s)' \in {"expected", "closing"}
    BY <1>1, <2>1, <2>2, <2>3 DEF Stage
  <2> QED
    BY <2>4 DEF Passes, Life!Passages
<1>6. CASE s # r
  BY <1>1, <1>3, <1>4, <1>6, StayingPasses
<1> QED
  BY <1>5, <1>6

LEMMA AcceptNextPasses ==
    ASSUME InductiveInvariant, InductiveInvariant', NEW s \in Sessions,
           NEW t \in Threads, AcceptNext(t)
    PROVE  Passes(s)
<1> PICK r : r = Top(t).session
  OBVIOUS
<1>1. /\ Busy(t) /\ Top(t).at = "accept" /\ Return(t)
      /\ connected' = connected
      /\ UNCHANGED <<service, manager, room, receiving, send, leaving>>
  BY DEF AcceptNext, At
<1>2. PICK e \in Accepts : offered[e] = r /\ RegisterAccept(e)
  BY DEF AcceptNext
<1>3. /\ Shapes /\ Births /\ Starts /\ Offers
      /\ Top(t) \in Calls /\ r \in Sessions /\ Alive(r)
  BY <1>1, TopIsAlive DEF InductiveInvariant, Unheld
<1>4. PICK n : /\ offered' = [offered EXCEPT ![e] = n]
               /\ \/ n \in fresh /\ listening' = listening \cup {e} /\ fresh' = fresh \ {n}
                  \/ n = NoSession /\ listening' = listening /\ fresh' = fresh
  BY <1>2 DEF RegisterAccept
<1>5. CallsBecome(t, {})
  BY <1>1, <1>3, CallsOfReturn
<1>6. PICK p \in Positions : frames[p] = Top(t)
  BY <1>3, CallsArePlaced
<1>7. /\ r \notin fresh /\ \A d \in listening : offered[d] # r
      /\ \A c \in Calls : c.session = r => c.at # "connect"
  <2>1. ~Unborn(r)
    BY <1>3, <1>6 DEF Births
  <2>2. ASSUME NEW c \in Calls, c.session = r, c.at = "connect"
        PROVE  FALSE
    <3>1. PICK q \in Positions : frames[q] = c
      BY <1>3, CallsArePlaced
    <3>2. Works(q, Early, r)
      BY <2>2, <3>1 DEF Works, Early
    <3>3. p = q
      BY <1>3, <1>6, <3>2 DEF Starts
    <3> QED
      BY <1>1, <1>6, <2>2, <3>1, <3>3
  <2> QED
    BY <2>1, <2>2 DEF Unborn
<1>8. /\ offered \in [Accepts -> Sessions \cup {NoSession}] /\ listening \subseteq Accepts
      /\ \A d \in Accepts : offered[d] = r => d = e
      /\ n # r /\ fresh \subseteq Sessions
  BY <1>2, <1>3, <1>4, <1>7, SessionsAssumption DEF Shapes, Offers
<1>9. CASE s = r
  <2>1. ~Expected(s) /\ s \notin fresh /\ Alive(s)
    BY <1>3, <1>7, <1>9 DEF Expected
  <2>2. ~Expected(s)'
    BY <1>4, <1>5, <1>7, <1>8, <1>9 DEF Expected, CallsBecome
  <2>3. s \notin fresh'
    BY <1>4, <2>1
  <2>4. s \in connected' => Alive(s)'
    <3>1. (InductiveInvariant => Apart)'
      BY StagesApart, PTL
    <3> QED
      BY <3>1 DEF Apart
  <2>5. \/ Stage(s) = "open" /\ Stage(s)' = "open"
        \/ Stage(s) = "closing" /\ Stage(s)' \in {"closing", "destroyed"}
    BY <1>1, <2>1, <2>2, <2>3, <2>4 DEF Stage
  <2> QED
    BY <2>5 DEF Passes, Life!Passages
<1>10. CASE s = n /\ n \in fresh
  <2>1. Stage(s) = "unborn"
    BY <1>10 DEF Stage
  <2>2. s \notin connected
    BY <1>3, <1>10 DEF Births, Unborn
  <2>3. s \notin fresh' /\ listening' = listening \cup {e}
    BY <1>4, <1>8, <1>10, SessionsAssumption
  <2>4. Expected(s)' /\ Alive(s)'
    BY <1>4, <1>8, <1>10, <2>3 DEF Expected, Alive
  <2>5. Stage(s)' = "expected"
    BY <1>1, <2>2, <2>3, <2>4 DEF Stage
  <2> QED
    BY <2>1, <2>5 DEF Passes, Life!Passages
<1>11. CASE s # r /\ s # n
  <2>1. s \in fresh' <=> s \in fresh
    BY <1>4, <1>11
  <2>2. Kept(s)' <=> Kept(s)
    BY <1>1, <1>2, <1>4, <1>8, <1>11 DEF Kept
  <2>3. \A c : c.session = s => (c \in Calls' <=> c \in Calls)
    BY <1>5, <1>11 DEF CallsBecome
  <2>4. (\E d \in listening' : offered'[d] = s) <=> (\E d \in listening : offered[d] = s)
    BY <1>2, <1>4, <1>8, <1>11
  <2> QED
    BY <1>1, <2>1, <2>2, <2>3, <2>4, StayingPasses
<1> QED
  BY <1>4, <1>9, <1>10, <1>11, SessionsAssumption

\* A session that somebody keeps and nobody works on is connected, is waited
\* for by an operation that the system completes, or is a ghost of the room:
\* no registry, no owner of an event and no accept event keeps one for ever.
THEOREM NothingIsLeaked == Spec => []NothingLeaks
<1>1. ASSUME InductiveInvariant, CallsInPlace, RegistriesAgree, AcceptsKept
      PROVE  NothingLeaks
  <2> SUFFICES ASSUME NEW s \in Sessions, Alive(s), ~InCall(s)
               PROVE  \/ s \in connected \/ Ghost(s)
                      \/ s \in receiving \cup leaving \/ send[s] = "sending"
                      \/ \E e \in listening : offered[e] = s
    BY DEF NothingLeaks
  <2>0. Shapes
    BY <1>1 DEF InductiveInvariant
  <2>1. CASE s \in service \cup manager
    BY <1>1, <2>1 DEF RegistriesAgree
  <2>2. CASE s \in room
    BY <2>2 DEF Ghost
  <2>3. CASE s \in receiving \cup leaving \/ send[s] = "sending"
    BY <2>3
  <2>4. CASE send[s] = "held"
    <3>1. PICK p \in Positions : Works(p, GivingUp, s)
      BY <1>1, <2>4 DEF CallsInPlace, HeldInCalls
    <3>2. frames[p] \in Calls /\ frames[p].session = s
      BY <2>0, <3>1, CallsArePlaced DEF Works
    <3> QED
      BY <3>2 DEF InCall
  <2>5. ASSUME NEW e \in Accepts, offered[e] = s
        PROVE  e \in listening
    <3>1. ASSUME NEW t \in WillAccept(e)
          PROVE  FALSE
      <4>0. t \in Threads /\ Busy(t) /\ stack[t][Len(stack[t])].session = s
        BY <2>5 DEF WillAccept
      <4>1. stack[t] \in Seq(Frames) /\ stack[t] # <<>>
        BY <2>0, <4>0 DEF Shapes, Busy
      <4>2. Len(stack[t]) \in DOMAIN stack[t]
        BY <4>1
      <4>3. stack[t][Len(stack[t])] \in Calls
        BY <4>0, <4>2 DEF Calls
      <4> QED
        BY <4>0, <4>3 DEF InCall
    <3> QED
      BY <1>1, <2>5, <3>1, SessionsAssumption DEF AcceptsKept
  <2>6. ~\E c \in Calls : c.session = s /\ c.at \in Holding
    BY DEF InCall
  <2> QED
    BY <2>1, <2>2, <2>3, <2>4, <2>5, <2>6 DEF Alive
<1> QED
  BY <1>1, PlacesInductive, RegistriesAgreeAlways, AcceptsAreKept, PTL

\* The life of sessions implements SessionLife: a session is created for an
\* accept event, is connected and disconnected at most once, and is destroyed
\* for good, never while it is connected.  A thread that finds it destroyed in
\* Send takes no reference to it: it stops, or goes on with what is left and
\* comes to the end without one.
THEOREM SessionsLiveOnce == Spec => ImplementsLife
<1>1. ASSUME Init
      PROVE  Life!Init
  <2>1. InductiveInvariant
    BY <1>1, InitHolds
  <2>2. ASSUME NEW s \in Sessions
        PROVE  Stage(s) \in {"unborn", "expected"}
    <3>1. CASE s \in fresh
      BY <3>1 DEF Stage
    <3>2. CASE s \notin fresh
      <4>1. PICK e \in Accepts : offered[e] = s
        BY <1>1, <3>2 DEF Init
      <4>2. Expected(s) /\ Alive(s) /\ s \notin connected
        BY <1>1, <4>1 DEF Init, Expected, Alive
      <4> QED
        BY <3>2, <4>2 DEF Stage
    <3> QED
      BY <3>1, <3>2
  <2> QED
    BY <2>2 DEF Life!Init
<1>2. ASSUME InductiveInvariant, InductiveInvariant', CallsInPlace, [Next]_vars
      PROVE  [Life!Next]_([s \in Sessions |-> Stage(s)])
  <2>1. ASSUME NEW s \in Sessions
        PROVE  Passes(s)
    <3>1. ASSUME NEW t \in Threads, Run(t)
          PROVE  Passes(s)
      <4>1. CASE AcceptNext(t)
        BY <1>2, <4>1, AcceptNextPasses
      <4>2. CASE Connect(t)
        BY <1>2, <4>2, ConnectPasses
      <4>3. CASE Disconnect(t) /\ Top(t).session \in connected
        BY <1>2, <4>3, DisconnectPasses
      <4> QED
        BY <1>2, <3>1, <4>1, <4>2, <4>3, RunningPasses
    <3>2. ASSUME NEW w \in Workers, NEW e \in Accepts, ProcessAccept(w, e)
          PROVE  Passes(s)
      BY <1>2, <3>2, ProcessAcceptPasses
    <3>3. CASE \/ \E w \in Workers, r \in Sessions : ProcessRecv(w, r) \/ ProcessSend(w, r)
               \/ Update
      BY <1>2, <3>3, EventPasses
    <3>4. CASE \/ \E w \in Workers, r \in Sessions : ProcessDisconnect(w, r)
               \/ UNCHANGED vars
      BY <1>2, <3>4, QuietPasses
    <3> QED
      BY <1>2, <3>1, <3>2, <3>3, <3>4 DEF Next
  <2>2. \A s \in Sessions : Stage(s)' \in Life!Stages
    BY DEF Stage, Life!Stages
  <2> QED
    BY <2>1, <2>2 DEF Passes, Life!Next
<1>3. InductiveInvariant /\ InductiveInvariant' /\ CallsInPlace /\ [Next]_vars
         => [Life!Next]_([s \in Sessions |-> Stage(s)])
  BY <1>2
<1> QED
  BY <1>1, <1>3, PlacesInductive, PTL DEF Spec, ImplementsLife, Life!Spec

-----------------------------------------------------------------------------
(* Who stays in the room *)

\* A call is about to take the player of s out of the room.
TakingOut(s) == \E c \in Calls : c.at \in {"unmanage", "leave"} /\ c.session = s

Remains(s) == s \in room \ connected /\ ~TakingOut(s)

\* OnConnected goes on to enter the room although s has been disconnected.
EntersLate(s) == s \notin connected /\ \E c \in Calls : c.at = "enter" /\ c.session = s

RemainsOnlyByEnteringLate ==
    \A s \in Sessions : Remains(s)' => Remains(s) \/ EntersLate(s)

\* A call goes on as a call that takes the same player out, or another one is
\* in its place.
LEMMA StillTakingOut ==
    ASSUME NEW t \in Threads, NEW new, CallsBecome(t, new), NEW s, TakingOut(s),
           \/ Top(t).at \notin {"unmanage", "leave"} \/ Top(t).session # s
           \/ \E c \in new : c.at \in {"unmanage", "leave"} /\ c.session = s
    PROVE  TakingOut(s)'
<1>1. CASE \E c \in new : c.at \in {"unmanage", "leave"} /\ c.session = s
  BY <1>1 DEF CallsBecome, TakingOut
<1>2. CASE Top(t).at \notin {"unmanage", "leave"} \/ Top(t).session # s
  BY <1>2 DEF CallsBecome, TakingOut
<1> QED
  BY <1>1, <1>2

\* What leaves a player to the call that is taking it out.
LEMMA RunTakesOut ==
    ASSUME InductiveInvariant, CallsInPlace, NEW t \in Threads, Run(t),
           NEW s \in Sessions, TakingOut(s)
    PROVE  TakingOut(s)' \/ s \notin room'
<1> PICK o : o = Top(t)
  OBVIOUS
<1>0. Shapes /\ Busy(t)
  BY RunsOn DEF InductiveInvariant
<1>1. o \in Frames /\ Rests(o)
  BY <1>0, InnermostIsTop DEF CallsInPlace
<1>2. CASE o.at = "leave" /\ o.session = s
  <2>1. o.todo = {}
    BY <1>1, <1>2 DEF Rests, Broadcasting
  <2>2. LeaveRoom(t)
    BY <1>2, <2>1 DEF Run, AcceptNext, Connect, AddSession, AddToManager, TellRoom,
       BeforeEnter, EnterRoom, AfterEnter, Handled, RegisterRecv, PostRecv, SendNext, Send,
       RegisterSend, OwnSend, SubmitSend, Forget, Clear, UseDestroyed, Disconnect,
       RemoveFromManager, AfterLeave, ReleaseSession, RegisterDisconnect, Returned, At
  <2> QED
    BY <1>2, <2>2 DEF LeaveRoom
<1>3. CASE o.at = "unmanage" /\ o.session = s
  <2>1. o.todo = {}
    BY <1>1, <1>3 DEF Rests, Broadcasting
  <2>2. LeadsOn(t)
    <3>1. ~ReturnsOn(t) /\ ~CallsOn(t) /\ ~SendNext(t) /\ ~UseDestroyed(t)
      BY <1>3, <2>1 DEF ReturnsOn, CallsOn, SendNext, UseDestroyed, At
    <3> QED
      BY <3>1, RunsOn
  <2>3. PICK z \in Frames :
          /\ Become(t, <<z>>) /\ <<o.at, z.at>> \in Leads
          /\ z.session = o.session /\ z.session \in Sessions /\ Rests(z)
    BY <2>2 DEF LeadsOn
  <2>4. CallsBecome(t, {z}) /\ z.at = "leave"
    BY <1>0, <1>3, <2>3, CallsOfOne DEF Leads
  <2> QED
    BY <1>3, <2>3, <2>4, StillTakingOut
<1>4. CASE o.at \notin {"unmanage", "leave"} \/ o.session # s
  <2>1. \E new : CallsBecome(t, new)
    <3>1. CASE LeadsOn(t)
      BY <1>0, <3>1, CallsOfOne DEF LeadsOn
    <3>2. CASE ReturnsOn(t)
      BY <1>0, <3>2, CallsOfReturn DEF ReturnsOn
    <3>3. CASE CallsOn(t)
      BY <1>0, <3>3, CallsOfTwo DEF CallsOn
    <3>4. CASE SendNext(t)
      <4>1. PICK r \in o.todo :
            LET below == <<[o EXCEPT !.todo = @ \ {r}]>>
            IN  \/ Become(t, below)
                \/ Become(t, <<Call("send", r)>> \o below)
        BY <3>4 DEF SendNext
      <4> PICK z : z = [o EXCEPT !.todo = @ \ {r}]
        OBVIOUS
      <4> PICK y : y = Call("send", r)
        OBVIOUS
      <4>2. z \in Frames /\ y \in Frames
        BY <1>1, <4>1 DEF Frames, Call, Frame, Places, Registering
      <4> QED
        BY <1>0, <4>1, <4>2, PutBefore, CallsOfOne, CallsOfTwo, ZenonT(30)
    <3>5. CASE UseDestroyed(t)
      <4> PICK z : z = Call("lost", NoSession)
        OBVIOUS
      <4>1. z \in Frames /\ Become(t, <<z>>)
        BY <3>5 DEF Call, Frame, Frames, Places, UseDestroyed
      <4> QED
        BY <1>0, <4>1, CallsOfOne
    <3> QED
      BY <3>1, <3>2, <3>3, <3>4, <3>5, RunsOn
  <2> QED
    BY <1>4, <2>1, StillTakingOut
<1> QED
  BY <1>2, <1>3, <1>4

\* What puts a player into the room, and what disconnects its session.
LEMMA RunRemains ==
    ASSUME InductiveInvariant, CallsInPlace, NEW t \in Threads, Run(t),
           NEW s \in Sessions, Remains(s)'
    PROVE  Remains(s) \/ EntersLate(s)
<1>1. CASE s \notin room
  <2>1. EnterRoom(t) /\ Top(t).session = s
    BY <1>1 DEF Remains, Run, AcceptNext, Connect, AddSession, AddToManager, TellRoom,
       BeforeEnter, EnterRoom, AfterEnter, Handled, RegisterRecv, PostRecv, SendNext, Send,
       RegisterSend, OwnSend, SubmitSend, Forget, Clear, UseDestroyed, Disconnect,
       RemoveFromManager, LeaveRoom, AfterLeave, ReleaseSession, RegisterDisconnect, Returned
  <2>2. Busy(t) /\ Top(t).at = "enter" /\ s \notin connected
    BY <2>1 DEF EnterRoom, At, Remains
  <2>3. Top(t) \in Calls
    BY <2>2, TopIsAlive
  <2> QED
    BY <2>1, <2>2, <2>3 DEF EntersLate
<1>2. CASE s \in connected
  <2>1. Disconnect(t) /\ Top(t).session = s
    BY <1>2 DEF Remains, Run, AcceptNext, Connect, AddSession, AddToManager, TellRoom,
       BeforeEnter, EnterRoom, AfterEnter, Handled, RegisterRecv, PostRecv, SendNext, Send,
       RegisterSend, OwnSend, SubmitSend, Forget, Clear, UseDestroyed, Disconnect,
       RemoveFromManager, LeaveRoom, AfterLeave, ReleaseSession, RegisterDisconnect, Returned
  <2> PICK z : z = Call("unmanage", s)
    OBVIOUS
  <2>2. Busy(t) /\ Become(t, <<z>>)
    BY <1>2, <2>1 DEF Disconnect, At, Goto
  <2>3. z \in Frames /\ z.at = "unmanage" /\ z.session = s
    BY DEF Call, Frame, Frames, Places, Disconnecting
  <2>4. CallsBecome(t, {z})
    BY <2>2, <2>3, CallsOfOne DEF InductiveInvariant
  <2> QED
    BY <2>3, <2>4 DEF CallsBecome, Remains, TakingOut
<1>3. CASE s \in room \ connected /\ TakingOut(s)
  BY <1>3, RunTakesOut DEF Remains
<1> QED
  BY <1>1, <1>2, <1>3 DEF Remains

\* A completion that is dispatched, or an update, ends no call.
LEMMA EventsKeepCalls ==
    ASSUME Shapes,
           \/ \E w \in Workers : \/ \E e \in Accepts : ProcessAccept(w, e)
                                 \/ \E r \in Sessions : \/ ProcessRecv(w, r)
                                                        \/ ProcessSend(w, r)
                                                        \/ ProcessDisconnect(w, r)
           \/ Update
    PROVE  \A c \in Calls : c \in Calls'
<1>1. stack' = stack \/ \E t \in Threads : ~Busy(t) /\ \A u \in Threads : u # t => stack'[u] = stack[u]
  BY DEF Shapes, Threads, ProcessAccept, ProcessRecv, ProcessSend, ProcessDisconnect,
     Update
<1>2. CASE stack' = stack
  BY <1>2 DEF Calls
<1>3. ASSUME NEW t \in Threads, ~Busy(t), \A u \in Threads : u # t => stack'[u] = stack[u],
             NEW c \in Calls
      PROVE  c \in Calls'
  <2>1. PICK u \in Threads : \E i \in DOMAIN stack[u] : c = stack[u][i]
    BY DEF Calls
  <2>2. u # t
    BY <1>3, <2>1 DEF Busy
  <2> QED
    BY <1>3, <2>1, <2>2 DEF Calls
<1> QED
  BY <1>1, <1>2, <1>3

\* A player whose session is disconnected and whom nobody is taking out of the
\* room has been put there by OnConnected after the session was disconnected.
THEOREM GhostsEnterLate == Spec => [][RemainsOnlyByEnteringLate]_vars
<1>1. ASSUME InductiveInvariant, CallsInPlace, [Next]_vars
      PROVE  [RemainsOnlyByEnteringLate]_vars
  <2>1. ASSUME NEW t \in Threads, Run(t)
        PROVE  RemainsOnlyByEnteringLate
    BY <1>1, <2>1, RunRemains DEF RemainsOnlyByEnteringLate
  <2>2. CASE ~(\E t \in Threads : Run(t)) /\ ~UNCHANGED vars
    <3>1. \/ \E w \in Workers : \/ \E e \in Accepts : ProcessAccept(w, e)
                                \/ \E r \in Sessions : \/ ProcessRecv(w, r)
                                                       \/ ProcessSend(w, r)
                                                       \/ ProcessDisconnect(w, r)
          \/ Update
      BY <1>1, <2>2 DEF Next
    <3>2. connected' = connected /\ room' = room
      BY <3>1 DEF ProcessAccept, ProcessRecv, ProcessSend, ProcessDisconnect, Update
    <3>3. \A c \in Calls : c \in Calls'
      BY <1>1, <3>1, EventsKeepCalls DEF InductiveInvariant
    <3> QED
      BY <3>2, <3>3 DEF RemainsOnlyByEnteringLate, Remains, TakingOut
  <2> QED
    BY <2>1, <2>2
<1> QED
  BY <1>1, PlacesInductive, PTL DEF Spec

\* If no session were disconnected before OnConnected enters it into the room,
\* what the comment at OnDisconnected says would be true: the player of a
\* session that has been disconnected leaves the game.
THEOREM PlayersLeaveIfTheyEnterInTime ==
    Spec /\ [](\A s \in Sessions : ~EntersLate(s)) => []LeavesGame
<1> DEFINE InTime == \A s \in Sessions : ~EntersLate(s)
           Left == \A s \in Sessions : ~Remains(s)
<1>1. Init => Left
  BY DEF Init, Remains
<1>2. Left /\ InTime /\ [RemainsOnlyByEnteringLate]_vars => Left'
  <2>1. ASSUME Left, UNCHANGED vars
        PROVE  Left'
    BY <2>1 DEF Remains, TakingOut, Calls, vars
  <2>2. ASSUME Left, InTime, RemainsOnlyByEnteringLate
        PROVE  Left'
    BY <2>2 DEF RemainsOnlyByEnteringLate
  <2> QED
    BY <2>1, <2>2
<1>3. Left /\ InductiveInvariant => LeavesGame
  BY DEF InductiveInvariant, Shapes, Remains, TakingOut, LeavesGame, InCall
<1> HIDE DEF InTime, Left
<1>4. Spec /\ []InTime => []LeavesGame
  BY <1>1, <1>2, <1>3, GhostsEnterLate, Inductive, PTL DEF Spec
<1> QED
  BY <1>4 DEF InTime

-----------------------------------------------------------------------------
(* Handlers return *)

\* How many steps a call that is at a place may still cause, in itself and in
\* the calls it makes, but for the sends it has to do.  A send causes eight,
\* its disconnect, its forget and its clear included, and one more to get to
\* it; a disconnect that is the first of its session is counted with the
\* connection.
SessionCount == Cardinality(Sessions)

StepsAt(place) ==
    CASE place \in {"return", "update", "accept", "hangup", "disconnect", "lost"} -> 1
      [] place \in {"unlist", "post", "clear"} -> 2
      [] place \in {"farewell", "forget"} -> 3
      [] place \in {"receive", "again"} -> 4
      [] place \in {"announce", "handle", "submit"} -> 5
      [] place = "own" -> 6
      [] place = "register" -> 7
      [] place = "send" -> 8
      [] place = "leave" -> 4 + 9 * SessionCount
      [] place = "unmanage" -> 5 + 9 * SessionCount
      [] place = "enter" -> 6 + 9 * SessionCount
      [] place = "tell" -> 7 + 9 * SessionCount
      [] place = "greet" -> 17 + 9 * SessionCount
      [] place = "manage" -> 27 + 9 * SessionCount
      [] place = "list" -> 28 + 9 * SessionCount
      [] place = "connect" -> 34 + 18 * SessionCount

Steps(c) == StepsAt(c.at) + 9 * Cardinality(c.todo)
StepsOfDisconnect == 5 + 9 * SessionCount

\* The steps of the calls at some places, one by one.
Parts(places, steps) == {x \in places \X Nat : x[2] \in 1..steps[x[1]]}
Column(place, steps) == {place} \X (1..steps)

stepsOf == [p \in Positions |-> Steps(frames[p])]
Counted == IsFiniteSet(Parts(Positions, stepsOf))
HandlerSteps == Cardinality(Parts(Positions, stepsOf))
HandlerWork == HandlerSteps + StepsOfDisconnect * Cardinality(connected)

\* A step of a thread that is in a call leaves all calls less to do.
HandlersReturn == \A t \in Threads : Run(t) => HandlerWork' < HandlerWork

\* A call that has to register an accept event again finds it, and there is one
\* such call for a session at most.
Accepting ==
    /\ \A p \in Positions : frames[p].at \in Connecting =>
          \E e \in Accepts \ listening : offered[e] = frames[p].session
    /\ OnlyOne(Connecting)

\* Each call has a step to take: one of its sends, or the one of its place, and
\* what the step that registers an accept event needs is there.  (OwnSend needs
\* its session; without it the step is UseDestroyed.)  Only a thread that is
\* lost has none.
CallsGoOn ==
    \A t \in Threads : Busy(t) =>
        \/ Top(t).todo # {}
        \/ At(t, "lost")
        \/ \E place \in Places \ {"accept", "lost"} : At(t, place)
        \/ /\ At(t, "accept")
           /\ \E e \in Accepts : offered[e] = Top(t).session

LEMMA PartsOfOne ==
    ASSUME NEW q, NEW n \in Nat
    PROVE  IsFiniteSet(Column(q, n)) /\ Cardinality(Column(q, n)) = n
<1> DEFINE f == [i \in 1..n |-> <<q, i>>]
<1>1. f \in Bijection(1..n, Column(q, n))
  <2>1. f \in [1..n -> Column(q, n)]
    BY DEF Column
  <2>2. \A i, j \in 1..n : f[i] = f[j] => i = j
    OBVIOUS
  <2>3. \A x \in Column(q, n) : \E i \in 1..n : f[i] = x
    BY DEF Column
  <2> QED
    BY <2>1, <2>2, <2>3 DEF Bijection, Injection, Surjection, IsInjective
<1>2. IsFiniteSet(1..n) /\ Cardinality(1..n) = n
  BY FS_Interval
<1>3. ExistsBijection(1..n, Column(q, n))
  BY <1>1 DEF ExistsBijection
<1> QED
  BY <1>2, <1>3, FS_Bijection

\* The steps of one call more.
LEMMA OnePartMore ==
    ASSUME NEW old, NEW q, NEW n \in Nat, IsFiniteSet(old), old \cap Column(q, n) = {}
    PROVE  /\ IsFiniteSet(old \cup Column(q, n))
           /\ Cardinality(old \cup Column(q, n)) = Cardinality(old) + n
           /\ Cardinality(old) \in Nat
<1>1. IsFiniteSet(Column(q, n)) /\ Cardinality(Column(q, n)) = n
  BY PartsOfOne
<1>2. /\ IsFiniteSet(old \cup Column(q, n))
      /\ Cardinality(old \cup Column(q, n))
            = Cardinality(old) + Cardinality(Column(q, n))
                - Cardinality(old \cap Column(q, n))
  BY <1>1, FS_Union
<1>3. Cardinality(old \cap Column(q, n)) = 0 /\ Cardinality(old) \in Nat
  BY FS_EmptySet, FS_CardinalityType
<1> QED
  BY <1>1, <1>2, <1>3

LEMMA StepsAreNumbers ==
    ASSUME IsFiniteSet(Sessions)
    PROVE  /\ SessionCount \in Nat
           /\ \A c \in Frames : /\ Cardinality(c.todo) \in 0..SessionCount
                                /\ Steps(c) \in Nat \ {0}
<1>1. SessionCount \in Nat
  BY FS_CardinalityType DEF SessionCount
<1>2. ASSUME NEW c \in Frames
      PROVE  Cardinality(c.todo) \in 0..SessionCount
  <2>1. c.todo \in SUBSET Sessions
    BY DEF Frames
  <2>2. IsFiniteSet(c.todo) /\ Cardinality(c.todo) <= Cardinality(Sessions)
    BY <2>1, FS_Subset
  <2> QED
    BY <1>1, <2>2, FS_CardinalityType DEF SessionCount
<1>3. \A place \in Places : StepsAt(place) \in Nat \ {0}
  BY <1>1 DEF StepsAt, Places, Connecting, Dispatching, Disconnecting, Registering
<1>4. ASSUME NEW c \in Frames
      PROVE  Steps(c) \in Nat \ {0}
  <2>1. StepsAt(c.at) \in Nat \ {0}
    BY <1>3 DEF Frames
  <2> QED
    BY <1>1, <1>2, <2>1 DEF Steps
<1> QED
  BY <1>1, <1>2, <1>4

\* What the calls of t but the innermost one have to do.
OthersSteps(t) == Parts(Positions \ {Innermost(t)}, stepsOf)

LEMMA StepsBelow ==
    ASSUME IsFiniteSet(Sessions), Shapes, Counted, NEW t \in Threads, Busy(t)
    PROVE  /\ IsFiniteSet(OthersSteps(t))
           /\ HandlerSteps = Cardinality(OthersSteps(t)) + Steps(Top(t))
           /\ Cardinality(OthersSteps(t)) \in Nat
<1> DEFINE top == Innermost(t)
           n == Steps(Top(t))
<1>1. top \in Positions /\ frames[top] = Top(t) /\ Top(t) \in Frames
  BY InnermostIsTop
<1>2. stepsOf[top] = n /\ n \in Nat
  BY <1>1, StepsAreNumbers DEF stepsOf
<1> HIDE DEF top, n
<1>3. Parts(Positions, stepsOf) = Parts(Positions \ {top}, stepsOf) \cup Column(top, n)
  BY <1>1, <1>2 DEF Parts, Column
<1>4. Parts(Positions \ {top}, stepsOf) = OthersSteps(t)
  BY DEF OthersSteps, top
<1>5. OthersSteps(t) \in SUBSET Parts(Positions, stepsOf)
  BY <1>4 DEF Parts
<1>6. IsFiniteSet(OthersSteps(t))
  BY <1>5, FS_Subset DEF Counted
<1>7. OthersSteps(t) \cap Column(top, n) = {}
  BY <1>4 DEF Parts, Column
<1>8. /\ Cardinality(OthersSteps(t) \cup Column(top, n))
            = Cardinality(OthersSteps(t)) + n
      /\ Cardinality(OthersSteps(t)) \in Nat
  BY <1>2, <1>6, <1>7, OnePartMore
<1>9. HandlerSteps = Cardinality(OthersSteps(t) \cup Column(top, n))
  BY <1>3, <1>4, Zenon DEF HandlerSteps
<1> QED
  BY <1>6, <1>8, <1>9 DEF n

LEMMA StepsOfReturn ==
    ASSUME IsFiniteSet(Sessions), Shapes, Counted, NEW t \in Threads, Busy(t), Return(t)
    PROVE  Counted' /\ HandlerSteps' = HandlerSteps - Steps(Top(t))
<1>1. /\ Positions' = Positions \ {Innermost(t)}
      /\ \A p \in Positions \ {Innermost(t)} : stepsOf'[p] = stepsOf[p]
  BY OneCallLess DEF stepsOf
<1>2. Parts(Positions, stepsOf)' = OthersSteps(t)
  BY <1>1 DEF Parts, OthersSteps
<1>3. /\ IsFiniteSet(OthersSteps(t))
      /\ HandlerSteps = Cardinality(OthersSteps(t)) + Steps(Top(t))
      /\ Cardinality(OthersSteps(t)) \in Nat /\ Steps(Top(t)) \in Nat
  BY StepsBelow, StepsAreNumbers, InnermostIsTop
<1>4. Counted' /\ HandlerSteps' = Cardinality(OthersSteps(t))
  BY <1>2, <1>3, Zenon DEF Counted, HandlerSteps
<1> QED
  BY <1>3, <1>4

LEMMA StepsOfOne ==
    ASSUME IsFiniteSet(Sessions), Shapes, Counted, NEW t \in Threads, Busy(t),
           NEW z \in Frames, Become(t, <<z>>)
    PROVE  Counted' /\ HandlerSteps' = HandlerSteps - Steps(Top(t)) + Steps(z)
<1> DEFINE top == Innermost(t)
           others == OthersSteps(t)
           m == Steps(z)
<1>0. top \in Positions /\ Steps(Top(t)) \in Nat /\ m \in Nat
  BY InnermostIsTop, StepsAreNumbers
<1>1. /\ Positions' = Positions /\ stepsOf'[top] = m
      /\ \A p \in Positions \ {top} : stepsOf'[p] = stepsOf[p]
  BY <1>0, OneCall DEF stepsOf
<1>2. /\ IsFiniteSet(others)
      /\ HandlerSteps = Cardinality(others) + Steps(Top(t))
      /\ Cardinality(others) \in Nat
  BY StepsBelow
<1> HIDE DEF m
<1>3. others = Parts(Positions \ {top}, stepsOf)
  BY DEF OthersSteps
<1> HIDE DEF top, others
<1>4. Parts(Positions, stepsOf)' = others \cup Column(top, m)
  BY <1>0, <1>1, <1>3 DEF Parts, Column
<1>5. others \cap Column(top, m) = {}
  BY <1>3 DEF Parts, Column
<1>6. /\ IsFiniteSet(others \cup Column(top, m))
      /\ Cardinality(others \cup Column(top, m)) = Cardinality(others) + m
  BY <1>0, <1>2, <1>5, OnePartMore
<1>7. Counted' /\ HandlerSteps' = Cardinality(others) + m
  BY <1>4, <1>6, Zenon DEF Counted, HandlerSteps
<1> QED
  BY <1>0, <1>2, <1>7 DEF m

LEMMA StepsOfTwo ==
    ASSUME IsFiniteSet(Sessions), Shapes, Counted, NEW t \in Threads, Busy(t),
           NEW y \in Frames, NEW z \in Frames, Become(t, <<y, z>>)
    PROVE  /\ Counted'
           /\ HandlerSteps' = HandlerSteps - Steps(Top(t)) + Steps(z) + Steps(y)
<1> DEFINE top == Innermost(t)
           others == OthersSteps(t)
           m == Steps(z)
           n == Steps(y)
<1>0. top \in Positions /\ Steps(Top(t)) \in Nat /\ m \in Nat /\ n \in Nat
  BY InnermostIsTop, StepsAreNumbers
<1>1. PICK q : /\ q \notin Positions /\ Positions' = Positions \cup {q}
               /\ frames'[q] = y /\ frames'[top] = z
               /\ \A p \in Positions : p # top => frames'[p] = frames[p]
  BY OneCallMore
<1>2. /\ stepsOf'[top] = m /\ stepsOf'[q] = n
      /\ \A p \in Positions \ {top} : stepsOf'[p] = stepsOf[p]
  BY <1>0, <1>1 DEF stepsOf
<1>3. /\ IsFiniteSet(others)
      /\ HandlerSteps = Cardinality(others) + Steps(Top(t))
      /\ Cardinality(others) \in Nat
  BY StepsBelow
<1> HIDE DEF m, n
<1>4. others = Parts(Positions \ {top}, stepsOf)
  BY DEF OthersSteps
<1> HIDE DEF top, others
<1> DEFINE more == others \cup Column(top, m)
<1>5. Parts(Positions, stepsOf)' = more \cup Column(q, n)
  BY <1>0, <1>1, <1>2, <1>4 DEF Parts, Column
<1>6. others \cap Column(top, m) = {} /\ more \cap Column(q, n) = {}
  BY <1>0, <1>1, <1>4 DEF Parts, Column
<1>7. IsFiniteSet(more) /\ Cardinality(more) = Cardinality(others) + m
  BY <1>0, <1>3, <1>6, OnePartMore
<1> HIDE DEF more
<1>8. /\ IsFiniteSet(more \cup Column(q, n))
      /\ Cardinality(more \cup Column(q, n)) = Cardinality(more) + n
  BY <1>0, <1>6, <1>7, OnePartMore
<1>9. Counted' /\ HandlerSteps' = Cardinality(more) + n
  BY <1>5, <1>8, Zenon DEF Counted, HandlerSteps
<1> QED
  BY <1>0, <1>3, <1>7, <1>9 DEF m, n

\* What the steps of a thread that is in a call, and of one that begins one,
\* have to do with the accept events.
AcceptsStay == offered' = offered /\ listening' = listening

LEMMA AcceptingStays ==
    ASSUME Accepting, AcceptsStay,
           \A p \in Positions' : frames'[p].at \in Connecting =>
              /\ p \in Positions /\ frames[p].at \in Connecting
              /\ frames'[p].session = frames[p].session
    PROVE  Accepting'
<1>1. \A p \in Positions' : frames'[p].at \in Connecting =>
          \E e \in Accepts \ listening' : offered'[e] = frames'[p].session
  BY DEF Accepting, AcceptsStay
<1>2. \A s \in Sessions : \A p, q \in Positions' :
          /\ frames'[p].at \in Connecting /\ frames'[p].session = s
          /\ frames'[q].at \in Connecting /\ frames'[q].session = s
          => p = q
  BY DEF Accepting, OnlyOne, Works
<1> QED
  BY <1>1, <1>2 DEF Accepting, OnlyOne, Works

LEMMA WorkIsNumber ==
    ASSUME IsFiniteSet(Sessions), Shapes, Counted
    PROVE  /\ HandlerSteps \in Nat /\ StepsOfDisconnect \in Nat
           /\ IsFiniteSet(connected) /\ Cardinality(connected) \in Nat
           /\ HandlerWork \in Nat
<1>1. HandlerSteps \in Nat
  BY FS_CardinalityType DEF HandlerSteps, Counted
<1>2. StepsOfDisconnect \in Nat
  BY StepsAreNumbers DEF StepsOfDisconnect
<1>3. IsFiniteSet(connected)
  BY FS_Subset DEF Shapes
<1>4. Cardinality(connected) \in Nat
  BY <1>3, FS_CardinalityType
<1> QED
  BY <1>1, <1>2, <1>3, <1>4 DEF HandlerWork

\* The call z is in the place of the innermost one, and comes from it.
Continues(t, z) ==
    z.at \in Connecting => Top(t).at \in Connecting /\ z.session = Top(t).session

\* One call less, or in its place one or two that have less to do.
LEMMA CallsDoWork ==
    ASSUME IsFiniteSet(Sessions), Shapes, Counted, Accepting, AcceptsStay,
           NEW t \in Threads, Busy(t), NEW y \in Frames, NEW z \in Frames,
           Continues(t, z), y.at \notin Connecting, NEW n \in Int,
           \/ Return(t) /\ Steps(Top(t)) > n
           \/ Become(t, <<z>>) /\ Steps(Top(t)) > n + Steps(z)
           \/ Become(t, <<y, z>>) /\ Steps(Top(t)) > n + Steps(z) + Steps(y)
    PROVE  Counted' /\ Accepting' /\ HandlerSteps' + n < HandlerSteps
<1>0. /\ Innermost(t) \in Positions /\ frames[Innermost(t)] = Top(t)
      /\ Steps(Top(t)) \in Nat /\ Steps(y) \in Nat /\ Steps(z) \in Nat
      /\ HandlerSteps \in Nat
  BY InnermostIsTop, StepsAreNumbers, WorkIsNumber
<1>1. CASE Return(t) /\ Steps(Top(t)) > n
  <2>1. Counted' /\ HandlerSteps' = HandlerSteps - Steps(Top(t))
    BY <1>1, StepsOfReturn
  <2>2. /\ Positions' = Positions \ {Innermost(t)}
        /\ \A p \in Positions' : frames'[p] = frames[p]
    BY <1>1, OneCallLess
  <2>3. Accepting'
    BY <2>2, AcceptingStays
  <2> QED
    BY <1>0, <1>1, <2>1, <2>3
<1>2. CASE Become(t, <<z>>) /\ Steps(Top(t)) > n + Steps(z)
  <2>1. Counted' /\ HandlerSteps' = HandlerSteps - Steps(Top(t)) + Steps(z)
    BY <1>2, StepsOfOne
  <2>2. /\ Positions' = Positions /\ frames'[Innermost(t)] = z
        /\ \A p \in Positions : p # Innermost(t) => frames'[p] = frames[p]
    BY <1>2, OneCall
  <2>3. Accepting'
    BY <1>0, <2>2, AcceptingStays DEF Continues
  <2> QED
    BY <1>0, <1>2, <2>1, <2>3
<1>3. CASE Become(t, <<y, z>>) /\ Steps(Top(t)) > n + Steps(z) + Steps(y)
  <2>1. Counted' /\ HandlerSteps' = HandlerSteps - Steps(Top(t)) + Steps(z) + Steps(y)
    BY <1>3, StepsOfTwo
  <2>2. PICK q : /\ Positions' = Positions \cup {q}
                 /\ frames'[q] = y /\ frames'[Innermost(t)] = z
                 /\ \A p \in Positions : p # Innermost(t) => frames'[p] = frames[p]
    BY <1>3, OneCallMore
  <2>3. Accepting'
    BY <1>0, <2>2, AcceptingStays DEF Continues
  <2> QED
    BY <1>0, <1>3, <2>1, <2>3
<1> QED
  BY <1>1, <1>2, <1>3

\* What the steps of a thread that is in a call come to.
Progresses(t) == Counted' /\ Accepting' /\ HandlerWork' < HandlerWork

LEMMA ConnectionsStay ==
    ASSUME IsFiniteSet(Sessions), Shapes, Counted, connected' = connected, NEW t,
           Counted', Accepting', HandlerSteps' + 0 < HandlerSteps
    PROVE  Progresses(t)
<1> DEFINE more == StepsOfDisconnect * Cardinality(connected)
<1>1. HandlerSteps \in Nat /\ more \in Nat
  BY WorkIsNumber
<1>2. HandlerWork = HandlerSteps + more /\ HandlerWork' = HandlerSteps' + more
  BY DEF HandlerWork, StepsOfDisconnect, SessionCount
<1> HIDE DEF more
<1>3. HandlerSteps' \in Nat
  BY FS_CardinalityType DEF HandlerSteps, Counted
<1> \A a, b, c \in Nat : a + 0 < b => a + c < b + c
  OBVIOUS
<1>4. HandlerSteps' + more < HandlerSteps + more
  BY <1>1, <1>3
<1>5. HandlerWork' < HandlerWork
  BY <1>2, <1>4
<1> QED
  BY <1>5 DEF Progresses

\* A connection costs the steps of its disconnect; a disconnect pays them.
LEMMA ConnectionsChange ==
    ASSUME IsFiniteSet(Sessions), Shapes, Counted, NEW t, NEW s \in Sessions,
           Counted', Accepting',
           \/ /\ connected' = connected \cup {s}
              /\ HandlerSteps' + StepsOfDisconnect < HandlerSteps
           \/ /\ s \in connected /\ connected' = connected \ {s}
              /\ HandlerSteps' - StepsOfDisconnect < HandlerSteps
    PROVE  Progresses(t)
<1> PICK k, c, d : k = StepsOfDisconnect /\ c = Cardinality(connected)
                   /\ d = Cardinality(connected')
  OBVIOUS
<1> PICK now, next : now = HandlerSteps /\ next = HandlerSteps'
  OBVIOUS
<1>1. now \in Nat /\ next \in Nat /\ k \in Nat /\ c \in Nat /\ IsFiniteSet(connected)
  <2>1. HandlerSteps' \in Nat
    BY FS_CardinalityType DEF HandlerSteps, Counted
  <2> QED
    BY <2>1, WorkIsNumber
<1>2. HandlerWork = now + k * c /\ HandlerWork' = next + k * d
  BY DEF HandlerWork, StepsOfDisconnect, SessionCount
<1>3. CASE connected' = connected \cup {s} /\ next + k < now
  <2>1. d = c \/ d = c + 1
    BY <1>1, <1>3, FS_AddElement
  <2>2. k * d = k * c \/ k * d = k * c + k
    BY <1>1, <2>1
  <2>3. k * c \in Nat /\ k * d \in Nat
    BY <1>1, <2>1
  <2> PICK x, y : x = k * c /\ y = k * d
    OBVIOUS
  <2> \A a, b, i, j, l \in Nat :
         a + l < b /\ (j = i \/ j = i + l) => a + j < b + i
    OBVIOUS
  <2>4. next + y < now + x
    BY <1>1, <1>3, <2>2, <2>3
  <2>5. HandlerWork' < HandlerWork
    BY <1>2, <2>4
  <2> QED
    BY <2>5 DEF Progresses
<1>4. CASE s \in connected /\ connected' = connected \ {s} /\ next - k < now
  <2>1. d = c - 1 /\ d \in Nat
    BY <1>1, <1>4, FS_RemoveElement, FS_CardinalityType
  <2>2. k * d = k * c - k
    BY <1>1, <2>1
  <2>3. k * c \in Nat /\ k * d \in Nat
    BY <1>1, <2>1
  <2> PICK x, y : x = k * c /\ y = k * d
    OBVIOUS
  <2> \A a, b, i, j, l \in Nat :
         a - l < b /\ j = i - l => a + j < b + i
    OBVIOUS
  <2>4. next + y < now + x
    BY <1>1, <1>4, <2>2, <2>3
  <2>5. HandlerWork' < HandlerWork
    BY <1>2, <2>4
  <2> QED
    BY <2>5 DEF Progresses
<1> QED
  BY <1>3, <1>4

\* The call that gets a new session for an accept event.
LEMMA AcceptNextDoesWork ==
    ASSUME IsFiniteSet(Sessions), InductiveInvariant, Counted, Accepting,
           NEW t \in Threads, AcceptNext(t)
    PROVE  Progresses(t)
<1>1. /\ Shapes /\ Busy(t) /\ Return(t) /\ connected' = connected
      /\ Top(t).at = "accept" /\ Top(t).session \in Sessions /\ Top(t) \in Frames
      /\ Innermost(t) \in Positions /\ frames[Innermost(t)] = Top(t)
  BY TopIsTold, InnermostIsTop DEF AcceptNext, At, InductiveInvariant
<1>2. PICK e \in Accepts : offered[e] = Top(t).session /\ RegisterAccept(e)
  BY DEF AcceptNext
<1>3. /\ Counted' /\ HandlerSteps' = HandlerSteps - Steps(Top(t))
      /\ HandlerSteps \in Nat /\ Steps(Top(t)) \in Nat \ {0}
  BY <1>1, StepsOfReturn, StepsAreNumbers, WorkIsNumber
<1>4. /\ Positions' = Positions \ {Innermost(t)}
      /\ \A p \in Positions' : frames'[p] = frames[p]
  BY <1>1, OneCallLess
<1>5. \A d \in Accepts : d # e => offered'[d] = offered[d]
  BY <1>1, <1>2 DEF RegisterAccept, Shapes
<1>6. \A d \in Accepts : d \in listening' => d \in listening \/ d = e
  BY <1>2 DEF RegisterAccept
<1>7. Accepting'
  <2>1. ASSUME NEW p \in Positions', frames'[p].at \in Connecting
        PROVE  \E d \in Accepts \ listening' : offered'[d] = frames'[p].session
    <3>1. p \in Positions /\ p # Innermost(t) /\ frames[p].at \in Connecting
      BY <1>4, <2>1
    <3>2. PICK d \in Accepts \ listening : offered[d] = frames[p].session
      BY <3>1 DEF Accepting
    <3>3. d # e
      BY <1>1, <1>2, <3>1, <3>2 DEF Accepting, OnlyOne, Works, Connecting
    <3> QED
      BY <1>4, <1>5, <1>6, <2>1, <3>2, <3>3
  <2>2. OnlyOne(Connecting)'
    BY <1>4 DEF Accepting, OnlyOne, Works
  <2> QED
    BY <2>1, <2>2 DEF Accepting
<1>8. HandlerSteps' + 0 < HandlerSteps
  BY <1>3
<1> QED
  BY <1>1, <1>3, <1>7, <1>8, ConnectionsStay

\* How many sends a call may have to do at a place, and what a step from there
\* costs or pays for a connection.
Sendings(place) ==
    IF place \in Broadcasting THEN SessionCount
    ELSE IF place \in {"greet", "tell"} THEN 1 ELSE 0

Price(place) ==
    IF place = "connect" THEN StepsOfDisconnect
    ELSE IF place = "disconnect" THEN 0 - StepsOfDisconnect ELSE 0

\* A call that goes on has less to do, though it may have more to send.
LEMMA LeadsDown ==
    ASSUME SessionCount \in Nat, NEW a, NEW b, <<a, b>> \in Leads
    PROVE  StepsAt(a) > Price(a) + StepsAt(b) + 9 * Sendings(b)
<1> USE DEF StepsAt, Price, Sendings, StepsOfDisconnect, Broadcasting
<1> PICK n \in Nat : n = SessionCount
  OBVIOUS
<1>1. CASE <<a, b>> \in {<<"connect", "list">>, <<"list", "manage">>, <<"manage", "greet">>,
                         <<"greet", "tell">>, <<"tell", "enter">>}
  <2>1. CASE a = "connect" /\ b = "list"
    BY <2>1
  <2>2. CASE a = "list" /\ b = "manage"
    BY <2>2
  <2>3. CASE a = "manage" /\ b = "greet"
    BY <2>3
  <2>4. CASE a = "greet" /\ b = "tell"
    BY <2>4
  <2>5. CASE a = "tell" /\ b = "enter"
    BY <2>5
  <2> QED
    BY <1>1, <2>1, <2>2, <2>3, <2>4, <2>5
<1>2. CASE <<a, b>> \in {<<"enter", "announce">>, <<"announce", "receive">>,
                         <<"receive", "accept">>, <<"handle", "again">>, <<"again", "return">>,
                         <<"post", "disconnect">>}
  <2>1. CASE a = "enter" /\ b = "announce"
    BY <2>1
  <2>2. CASE a = "announce" /\ b = "receive"
    BY <2>2
  <2>3. CASE a = "receive" /\ b = "accept"
    BY <2>3
  <2>4. CASE a = "handle" /\ b = "again"
    BY <2>4
  <2>5. CASE a = "again" /\ b = "return"
    BY <2>5
  <2>6. CASE a = "post" /\ b = "disconnect"
    BY <2>6
  <2> QED
    BY <1>2, <2>1, <2>2, <2>3, <2>4, <2>5, <2>6
<1>3. CASE <<a, b>> \in {<<"disconnect", "unmanage">>, <<"unmanage", "leave">>,
                         <<"leave", "farewell">>, <<"leave", "unlist">>,
                         <<"farewell", "unlist">>, <<"unlist", "hangup">>}
  <2>1. CASE a = "disconnect" /\ b = "unmanage"
    BY <2>1
  <2>2. CASE a = "unmanage" /\ b = "leave"
    BY <2>2
  <2>3. CASE a = "leave" /\ b = "farewell"
    BY <2>3
  <2>4. CASE a = "leave" /\ b = "unlist"
    BY <2>4
  <2>5. CASE a = "farewell" /\ b = "unlist"
    BY <2>5
  <2>6. CASE a = "unlist" /\ b = "hangup"
    BY <2>6
  <2> QED
    BY <1>3, <2>1, <2>2, <2>3, <2>4, <2>5, <2>6
<1>4. CASE <<a, b>> \in {<<"send", "register">>, <<"register", "own">>, <<"own", "submit">>,
                         <<"submit", "forget">>, <<"forget", "clear">>}
  <2>1. CASE a = "send" /\ b = "register"
    BY <2>1
  <2>2. CASE a = "register" /\ b = "own"
    BY <2>2
  <2>3. CASE a = "own" /\ b = "submit"
    BY <2>3
  <2>4. CASE a = "submit" /\ b = "forget"
    BY <2>4
  <2>5. CASE a = "forget" /\ b = "clear"
    BY <2>5
  <2> QED
    BY <1>4, <2>1, <2>2, <2>3, <2>4, <2>5
<1> QED
  BY <1>1, <1>2, <1>3, <1>4 DEF Leads

\* What a step of Run but AcceptNext does to the accept events and to the
\* connections.
LEMMA StepsOfRun ==
    ASSUME InductiveInvariant, NEW t \in Threads, Run(t), ~AcceptNext(t)
    PROVE  /\ AcceptsStay
           /\ \/ connected' = connected
              \/ Connect(t) /\ connected' = connected \cup {Top(t).session}
              \/ /\ Disconnect(t) /\ Top(t).session \in connected
                 /\ connected' = connected \ {Top(t).session}
<1>1. CASE Connect(t) \/ Disconnect(t)
  BY <1>1 DEF Connect, Disconnect, events, AcceptsStay
<1> QED
  BY <1>1 DEF Run, AddSession, AddToManager, TellRoom, BeforeEnter, EnterRoom,
     AfterEnter, Handled, RegisterRecv, PostRecv, SendNext, Send, RegisterSend, OwnSend,
     SubmitSend, Forget, Clear, UseDestroyed, RemoveFromManager, LeaveRoom, AfterLeave,
     ReleaseSession, RegisterDisconnect, Returned, events, AcceptsStay

LEMMA NoSends == Cardinality({}) = 0
  BY FS_EmptySet

LEMMA LeadingOnWorks ==
    ASSUME IsFiniteSet(Sessions), Shapes, Counted, Accepting, AcceptsStay,
           NEW t \in Threads, Busy(t), Top(t).todo = {}, LeadsOn(t)
    PROVE  Counted' /\ Accepting' /\ HandlerSteps' + Price(Top(t).at) < HandlerSteps
<1>1. PICK z \in Frames : /\ Become(t, <<z>>) /\ <<Top(t).at, z.at>> \in Leads
                          /\ z.session = Top(t).session /\ Rests(z)
  BY DEF LeadsOn
<1> PICK a, b, k, m : a = Top(t).at /\ b = z.at /\ k = Price(a) /\ m = Cardinality(z.todo)
  OBVIOUS
<1>2. SessionCount \in Nat /\ m \in 0..SessionCount
  BY StepsAreNumbers
<1>3. Steps(Top(t)) = StepsAt(a) /\ Steps(z) = StepsAt(b) + 9 * m
  <2>1. Top(t) \in Frames /\ a \in Places
    BY InnermostIsTop DEF Frames
  <2>2. StepsAt(a) \in Nat
    BY <1>2, <2>1 DEF StepsAt, Places, Connecting, Dispatching, Disconnecting, Registering
  <2> QED
    BY <2>2, NoSends DEF Steps
<1>4. m <= Sendings(b) /\ Sendings(b) \in Nat
  <2>1. CASE b \in Broadcasting
    BY <1>2, <2>1 DEF Sendings
  <2>2. CASE b \in {"greet", "tell"} /\ z.todo = {z.session}
    <3>1. m = 1
      BY <2>2, FS_Singleton
    <3> QED
      BY <2>2, <3>1 DEF Sendings, Broadcasting
  <2>3. CASE z.todo = {}
    BY <1>2, <2>3, NoSends DEF Sendings
  <2> QED
    BY <1>1, <2>1, <2>2, <2>3 DEF Rests
<1>5. k \in Int /\ StepsAt(a) \in Nat /\ StepsAt(b) \in Nat
  <2>1. a \in Places /\ b \in Places
    BY <1>1, InnermostIsTop DEF Frames
  <2>2. k \in Int
    BY <1>2 DEF Price, StepsOfDisconnect
  <2> QED
    BY <1>2, <2>1, <2>2 DEF StepsAt, Places, Connecting, Dispatching, Disconnecting,
       Registering
<1>6. Steps(Top(t)) > k + Steps(z)
  <2>1. StepsAt(a) > k + StepsAt(b) + 9 * Sendings(b)
    BY <1>1, <1>2, LeadsDown
  <2> QED
    BY <1>2, <1>3, <1>4, <1>5, <2>1
<1>7. Continues(t, z)
  BY <1>1 DEF Continues, Leads, Connecting
<1> PICK y : y = [z EXCEPT !.at = "return"]
  OBVIOUS
<1>8. y \in Frames /\ y.at \notin Connecting
  BY DEF Frames, Places, Dispatching, Connecting
<1> QED
  BY <1>1, <1>5, <1>6, <1>7, <1>8, CallsDoWork

LEMMA ReturningWorks ==
    ASSUME IsFiniteSet(Sessions), Shapes, Counted, Accepting, AcceptsStay,
           NEW t \in Threads, Busy(t), Return(t)
    PROVE  Counted' /\ Accepting' /\ HandlerSteps' + 0 < HandlerSteps
<1>1. Top(t) \in Frames
  BY InnermostIsTop
<1> PICK y : y = [Top(t) EXCEPT !.at = "return"]
  OBVIOUS
<1>2. y \in Frames /\ y.at \notin Connecting
  BY <1>1 DEF Frames, Places, Dispatching, Connecting
<1> PICK n \in Int : n = 0
  OBVIOUS
<1>3. Steps(Top(t)) > n
  BY <1>1, StepsAreNumbers
<1>4. Continues(t, y)
  BY <1>2 DEF Continues
<1>5. Counted' /\ Accepting' /\ HandlerSteps' + n < HandlerSteps
  BY <1>2, <1>3, <1>4, CallsDoWork
<1> QED
  BY <1>5

LEMMA CallingOnWorks ==
    ASSUME IsFiniteSet(Sessions), Shapes, Counted, Accepting, AcceptsStay,
           NEW t \in Threads, Busy(t), Top(t).todo = {}, CallsOn(t)
    PROVE  Counted' /\ Accepting' /\ HandlerSteps' + 0 < HandlerSteps
<1>1. PICK y \in Frames, z \in Frames :
           /\ Become(t, <<y, z>>)
           /\ <<Top(t).at, y.at, z.at>> \in
                 {<<"receive", "post", "accept">>, <<"again", "post", "return">>,
                  <<"submit", "disconnect", "forget">>}
           /\ z.session = Top(t).session /\ y.todo = {} /\ z.todo = {}
  BY DEF CallsOn
<1>2. Continues(t, z) /\ y.at \notin Connecting
  BY <1>1 DEF Continues, Connecting
<1>3. /\ Steps(Top(t)) = StepsAt(Top(t).at) + 9 * 0
      /\ Steps(y) = StepsAt(y.at) + 9 * 0 /\ Steps(z) = StepsAt(z.at) + 9 * 0
  BY <1>1, NoSends DEF Steps
<1> PICK n \in Int : n = 0
  OBVIOUS
<1>4. Steps(Top(t)) > n + Steps(z) + Steps(y)
  BY <1>1, <1>3 DEF StepsAt
<1>5. Counted' /\ Accepting' /\ HandlerSteps' + n < HandlerSteps
  BY <1>1, <1>2, <1>4, CallsDoWork
<1> QED
  BY <1>5

\* Of its sends a call has one less, which is worth the steps of a send and one.
LEMMA SendingWorks ==
    ASSUME IsFiniteSet(Sessions), Shapes, Counted, Accepting, AcceptsStay,
           NEW t \in Threads, SendNext(t)
    PROVE  Counted' /\ Accepting' /\ HandlerSteps' + 0 < HandlerSteps
<1>1. PICK r \in Top(t).todo :
        LET below == <<[Top(t) EXCEPT !.todo = @ \ {r}]>>
        IN  Become(t, below) \/ Become(t, <<Call("send", r)>> \o below)
  BY DEF SendNext
<1> PICK z : z = [Top(t) EXCEPT !.todo = @ \ {r}]
  OBVIOUS
<1> PICK y : y = Call("send", r)
  OBVIOUS
<1>2. Busy(t) /\ Top(t) \in Frames
  BY InnermostIsTop DEF SendNext
<1>3. /\ z \in Frames /\ z.at = Top(t).at /\ z.session = Top(t).session
      /\ z.todo = Top(t).todo \ {r} /\ r \in Sessions /\ Top(t).todo \in SUBSET Sessions
  BY <1>1, <1>2 DEF Frames
<1>4. y \in Frames /\ y.at = "send" /\ y.todo = {}
  BY <1>3 DEF Call, Frame, Frames, Places, Registering
<1>5. Become(t, <<z>>) \/ Become(t, <<y, z>>)
  <2>1. <<y>> \o <<z>> = <<y, z>>
    BY <1>3, <1>4, PutBefore
  <2> QED
    BY <1>1, <2>1
<1>6. Steps(Top(t)) = Steps(z) + 9
  <2> PICK old, new : old = Top(t).todo /\ new = z.todo
    OBVIOUS
  <2>1. IsFiniteSet(old) /\ Cardinality(old) \in Nat /\ Cardinality(new) \in Nat
    BY <1>3, FS_Subset, FS_CardinalityType
  <2>2. new = old \ {r} /\ r \in old
    BY <1>1, <1>3
  <2>3. Cardinality(new) = Cardinality(old) - 1
    BY <2>1, <2>2, FS_RemoveElement, ZenonT(30)
  <2>4. StepsAt(Top(t).at) \in Nat
    BY <1>2, StepsAreNumbers DEF StepsAt, Frames, Places, Connecting, Dispatching,
       Disconnecting, Registering
  <2> QED
    BY <1>3, <2>1, <2>3, <2>4 DEF Steps
<1>7. Steps(y) = 8
  BY <1>4, NoSends DEF Steps, StepsAt
<1>8. Steps(z) \in Nat /\ Steps(Top(t)) \in Nat
  BY <1>2, <1>3, StepsAreNumbers
<1> PICK n \in Int : n = 0
  OBVIOUS
<1>9. Steps(Top(t)) > n + Steps(z) /\ Steps(Top(t)) > n + Steps(z) + Steps(y)
  BY <1>6, <1>7, <1>8
<1>10. Continues(t, z) /\ y.at \notin Connecting
  BY <1>3, <1>4 DEF Continues, Connecting
<1>11. Counted' /\ Accepting' /\ HandlerSteps' + n < HandlerSteps
  BY <1>2, <1>3, <1>4, <1>5, <1>9, <1>10, CallsDoWork
<1> QED
  BY <1>11

LEMMA LosingWorks ==
    ASSUME IsFiniteSet(Sessions), Shapes, Counted, Accepting, AcceptsStay,
           NEW t \in Threads, UseDestroyed(t)
    PROVE  Counted' /\ Accepting' /\ HandlerSteps' + 0 < HandlerSteps
<1> PICK z : z = Call("lost", NoSession)
  OBVIOUS
<1>1. /\ Busy(t) /\ Top(t).todo = {} /\ Top(t).at \in {"send", "register", "own", "clear"}
      /\ Become(t, <<z>>)
  BY DEF UseDestroyed, At
<1>2. z \in Frames /\ z.at = "lost" /\ z.todo = {}
  BY DEF Call, Frame, Frames, Places
<1>3. Steps(Top(t)) = StepsAt(Top(t).at) + 9 * 0 /\ Steps(z) = StepsAt("lost") + 9 * 0
  BY <1>1, <1>2, NoSends DEF Steps
<1> PICK n \in Int : n = 0
  OBVIOUS
<1>4. Steps(Top(t)) > n + Steps(z)
  BY <1>1, <1>3 DEF StepsAt
<1>5. Continues(t, z) /\ z.at \notin Connecting
  BY <1>2 DEF Continues, Connecting
<1>6. Counted' /\ Accepting' /\ HandlerSteps' + n < HandlerSteps
  BY <1>1, <1>2, <1>4, <1>5, CallsDoWork
<1> QED
  BY <1>6

\* Each step a thread takes in a call leaves it, and all of them, less to do.
LEMMA RunDoesWork ==
    ASSUME IsFiniteSet(Sessions), InductiveInvariant, Counted, Accepting,
           NEW t \in Threads, Run(t)
    PROVE  Progresses(t)
<1>0. Shapes /\ Busy(t)
  BY RunsOn DEF InductiveInvariant
<1>1. CASE AcceptNext(t)
  BY <1>1, AcceptNextDoesWork
<1>2. CASE Connect(t)
  <2>1. /\ Top(t).at = "connect" /\ Top(t).todo = {} /\ ~AcceptNext(t) /\ LeadsOn(t)
        /\ connected' = connected \cup {Top(t).session}
    <3>1. Top(t).at = "connect" /\ Top(t).todo = {} /\ Goto(t, "list")
      BY <1>2 DEF Connect, At
    <3>2. Top(t).session \in Sessions
      BY <1>0, <3>1, TopIsTold
    <3> PICK z : z = Call("list", Top(t).session)
      OBVIOUS
    <3>3. /\ z \in Frames /\ z.at = "list" /\ z.session = Top(t).session /\ z.todo = {}
          /\ Become(t, <<z>>)
      BY <3>1, <3>2 DEF Call, Frame, Frames, Places, Connecting, Goto
    <3>4. LeadsOn(t)
      BY <3>1, <3>2, <3>3 DEF LeadsOn, Rests, Leads
    <3> QED
      BY <1>2, <3>1, <3>4 DEF Connect, AcceptNext, At
  <2>2. Top(t).session \in Sessions
    BY <1>0, <2>1, TopIsTold
  <2>3. AcceptsStay
    BY <2>1, StepsOfRun
  <2>4. Counted' /\ Accepting' /\ HandlerSteps' + StepsOfDisconnect < HandlerSteps
    BY <1>0, <2>1, <2>3, LeadingOnWorks DEF Price
  <2> QED
    BY <1>0, <2>1, <2>2, <2>4, ConnectionsChange
<1>3. CASE Disconnect(t) /\ Top(t).session \in connected
  <2>1. /\ Top(t).at = "disconnect" /\ Top(t).todo = {} /\ ~AcceptNext(t) /\ LeadsOn(t)
        /\ connected' = connected \ {Top(t).session}
    <3>1. Top(t).at = "disconnect" /\ Top(t).todo = {} /\ Goto(t, "unmanage")
      BY <1>3 DEF Disconnect, At
    <3>2. Top(t).session \in Sessions
      BY <1>0, <3>1, TopIsTold
    <3> PICK z : z = Call("unmanage", Top(t).session)
      OBVIOUS
    <3>3. /\ z \in Frames /\ z.at = "unmanage" /\ z.session = Top(t).session /\ z.todo = {}
          /\ Become(t, <<z>>)
      BY <3>1, <3>2 DEF Call, Frame, Frames, Places, Disconnecting, Goto
    <3>4. LeadsOn(t)
      BY <3>1, <3>2, <3>3 DEF LeadsOn, Rests, Leads
    <3> QED
      BY <1>3, <3>1, <3>4 DEF Disconnect, AcceptNext, At
  <2>2. Top(t).session \in Sessions
    BY <1>0, <2>1, TopIsTold
  <2>3. AcceptsStay
    BY <2>1, StepsOfRun
  <2>4. Counted' /\ Accepting' /\ HandlerSteps' + (0 - StepsOfDisconnect) < HandlerSteps
    BY <1>0, <2>1, <2>3, LeadingOnWorks DEF Price
  <2>5. HandlerSteps' - StepsOfDisconnect < HandlerSteps
    <3>1. HandlerSteps' \in Nat
      BY <2>4, FS_CardinalityType DEF HandlerSteps, Counted
    <3>2. HandlerSteps \in Nat /\ StepsOfDisconnect \in Nat
      BY <1>0, WorkIsNumber
    <3> \A a, b, k \in Nat : a + (0 - k) < b => a - k < b
      OBVIOUS
    <3> QED
      BY <2>4, <3>1, <3>2
  <2> QED
    BY <1>0, <1>3, <2>1, <2>2, <2>4, <2>5, ConnectionsChange
<1>4. CASE ~AcceptNext(t) /\ ~Connect(t) /\ ~(Disconnect(t) /\ Top(t).session \in connected)
  <2>1. AcceptsStay /\ connected' = connected
    BY <1>4, StepsOfRun
  <2>2. LeadsOn(t) /\ Top(t).todo = {} => Price(Top(t).at) = 0
    <3> SUFFICES ASSUME LeadsOn(t), Top(t).at \in {"connect", "disconnect"}, Top(t).todo = {}
                 PROVE  FALSE
      BY DEF Price
    <3>1. PICK z \in Frames : Become(t, <<z>>) /\ <<Top(t).at, z.at>> \in Leads
      BY DEF LeadsOn
    <3>2. Disconnect(t) /\ Return(t)
      BY <1>4 DEF Run, AddSession, AddToManager, TellRoom, BeforeEnter, EnterRoom,
         AfterEnter, Handled, RegisterRecv, PostRecv, SendNext, Send, RegisterSend, OwnSend,
         SubmitSend, Forget, Clear, UseDestroyed, Disconnect, RemoveFromManager, LeaveRoom,
         AfterLeave, ReleaseSession, RegisterDisconnect, Returned, At
    <3>3. Positions' = Positions \ {Innermost(t)} /\ Positions' = Positions
      BY <1>0, <3>1, <3>2, OneCallLess, OneCall
    <3> QED
      BY <1>0, <3>3, InnermostIsTop
  <2>3. Counted' /\ Accepting' /\ HandlerSteps' + 0 < HandlerSteps
    <3>1. CASE LeadsOn(t) /\ Top(t).todo = {}
      BY <1>0, <2>1, <2>2, <3>1, LeadingOnWorks
    <3>2. CASE ReturnsOn(t)
      BY <1>0, <2>1, <3>2, ReturningWorks DEF ReturnsOn
    <3> QED
      BY <1>0, <2>1, <3>1, <3>2, RunsOn, CallingOnWorks, SendingWorks, LosingWorks
  <2> QED
    BY <1>0, <2>1, <2>3, ConnectionsStay
<1> QED
  BY <1>1, <1>2, <1>3, <1>4

\* The first calls of an idle thread.
LEMMA FirstCallsCounted ==
    ASSUME IsFiniteSet(Sessions), Shapes, Counted, NEW t \in Threads, ~Busy(t),
           NEW y \in Frames, NEW z \in Frames,
           Begins(t, <<z>>) \/ Begins(t, <<y, z>>)
    PROVE  /\ Counted'
           /\ \A p \in Positions' : \/ p \in Positions /\ frames'[p] = frames[p]
                                    \/ frames'[p] \in {y, z}
<1> DEFINE old == Parts(Positions, stepsOf)
           m == Steps(z)
           n == Steps(y)
<1>0. m \in Nat /\ n \in Nat /\ IsFiniteSet(old)
  BY StepsAreNumbers DEF Counted
<1>1. CASE Begins(t, <<z>>)
  <2>1. PICK q : /\ q \notin Positions /\ Positions' = Positions \cup {q}
                 /\ q[2] = 1 /\ frames'[q] = z
                 /\ \A p \in Positions : frames'[p] = frames[p] /\ Below(p) # q
    BY <1>1, FirstCall
  <2>2. stepsOf'[q] = m /\ \A p \in Positions : stepsOf'[p] = stepsOf[p]
    BY <2>1 DEF stepsOf
  <2> HIDE DEF m
  <2>3. Parts(Positions, stepsOf)' = old \cup Column(q, m)
    BY <1>0, <2>1, <2>2 DEF Parts, Column
  <2>4. old \cap Column(q, m) = {}
    BY <2>1 DEF Parts, Column
  <2> HIDE DEF old
  <2>5. IsFiniteSet(old \cup Column(q, m))
    BY <1>0, <2>4, OnePartMore
  <2>6. Counted'
    BY <2>3, <2>5, Zenon DEF Counted
  <2> QED
    BY <2>1, <2>6
<1>2. CASE Begins(t, <<y, z>>)
  <2>1. PICK q, r : /\ q \notin Positions /\ r \notin Positions /\ q # r
                    /\ Positions' = Positions \cup {q, r}
                    /\ q[2] = 1 /\ r[2] # 1 /\ Below(r) = q
                    /\ frames'[q] = z /\ frames'[r] = y
                    /\ \A p \in Positions : /\ frames'[p] = frames[p]
                                            /\ Below(p) # q /\ Below(p) # r
    BY <1>2, FirstTwoCalls
  <2>2. /\ stepsOf'[q] = m /\ stepsOf'[r] = n
        /\ \A p \in Positions : stepsOf'[p] = stepsOf[p]
    BY <2>1 DEF stepsOf
  <2> HIDE DEF m, n
  <2> DEFINE more == old \cup Column(q, m)
  <2>3. Parts(Positions, stepsOf)' = more \cup Column(r, n)
    BY <1>0, <2>1, <2>2 DEF Parts, Column
  <2>4. old \cap Column(q, m) = {} /\ more \cap Column(r, n) = {}
    BY <2>1 DEF Parts, Column
  <2> HIDE DEF old
  <2>5. IsFiniteSet(more)
    BY <1>0, <2>4, OnePartMore
  <2> HIDE DEF more
  <2>6. IsFiniteSet(more \cup Column(r, n))
    BY <1>0, <2>4, <2>5, OnePartMore
  <2>7. Counted'
    BY <2>3, <2>6, Zenon DEF Counted
  <2> QED
    BY <2>1, <2>7
<1> QED
  BY <1>1, <1>2

LEMMA CallsBeginCounted ==
    ASSUME IsFiniteSet(Sessions), InductiveInvariant, Counted, Accepting,
           \/ \E w \in Workers, s \in Sessions : \/ ProcessRecv(w, s)
                                                 \/ ProcessSend(w, s)
                                                 \/ ProcessDisconnect(w, s)
           \/ Update
    PROVE  Counted' /\ Accepting'
<1>1. Shapes /\ AcceptsStay
  BY DEF InductiveInvariant, ProcessRecv, ProcessSend, ProcessDisconnect, Update, events,
     AcceptsStay
<1>2. CASE stack' = stack
  <2>1. Positions' = Positions /\ frames' = frames /\ stepsOf' = stepsOf
    BY <1>2 DEF Positions, frames, stepsOf, Steps, StepsAt, SessionCount
  <2> QED
    BY <1>1, <2>1, AcceptingStays DEF Counted
<1>3. CASE \E t \in Threads : /\ ~Busy(t)
                              /\ \E y, z \in Frames :
                                    /\ y.at \notin Connecting /\ z.at \notin Connecting
                                    /\ Begins(t, <<z>>) \/ Begins(t, <<y, z>>)
  <2>1. PICK t \in Threads, y \in Frames, z \in Frames :
               /\ ~Busy(t) /\ y.at \notin Connecting /\ z.at \notin Connecting
               /\ Begins(t, <<z>>) \/ Begins(t, <<y, z>>)
    BY <1>3
  <2>2. /\ Counted'
        /\ \A p \in Positions' : \/ p \in Positions /\ frames'[p] = frames[p]
                                 \/ frames'[p] \in {y, z}
    BY <1>1, <2>1, FirstCallsCounted
  <2> QED
    BY <1>1, <2>1, <2>2, AcceptingStays
<1>4. ASSUME NEW w \in Workers, NEW s \in Sessions, ProcessRecv(w, s) \/ ProcessSend(w, s),
             stack' # stack
      PROVE  \E t \in Threads : /\ ~Busy(t)
                                /\ \E y, z \in Frames :
                                      /\ y.at \notin Connecting /\ z.at \notin Connecting
                                      /\ Begins(t, <<z>>) \/ Begins(t, <<y, z>>)
  <2>1. PICK x \in {Call("disconnect", s), Call("register", s)},
             z \in {Call("return", s), Call("handle", s), Frame("handle", s, room)} :
             ~Busy(w) /\ (Begins(w, <<z>>) \/ Begins(w, <<x, z>>))
    BY <1>4 DEF ProcessRecv, ProcessSend, Begins
  <2>2. x \in Frames /\ x.at \notin Connecting /\ z \in Frames /\ z.at \notin Connecting
    BY <1>1 DEF Shapes, Call, Frame, Frames, Places, Connecting, Dispatching, Disconnecting,
       Registering
  <2> QED
    BY <2>1, <2>2 DEF Threads
<1>5. ASSUME Update
      PROVE  \E t \in Threads : /\ ~Busy(t)
                                /\ \E y, z \in Frames :
                                      /\ y.at \notin Connecting /\ z.at \notin Connecting
                                      /\ Begins(t, <<z>>) \/ Begins(t, <<y, z>>)
  <2> PICK z : z = Frame("update", NoSession, room)
    OBVIOUS
  <2>1. ~Busy(Main) /\ Begins(Main, <<z>>)
    BY <1>5 DEF Update, Begins
  <2>2. z \in Frames /\ z.at \notin Connecting
    BY <1>1 DEF Shapes, Frame, Frames, Places, Connecting
  <2> QED
    BY <2>1, <2>2 DEF Threads
<1> QED
  BY <1>2, <1>3, <1>4, <1>5 DEF ProcessDisconnect

LEMMA ProcessAcceptCounted ==
    ASSUME IsFiniteSet(Sessions), InductiveInvariant, Counted, Accepting,
           NEW w \in Workers, NEW e \in Accepts, ProcessAccept(w, e)
    PROVE  Counted' /\ Accepting'
<1> PICK s : s = offered[e]
  OBVIOUS
<1>1. /\ Shapes /\ s \in Sessions /\ offered' = offered /\ e \in listening
      /\ listening' = listening \ {e} /\ \A p \in Positions : frames[p].session # s
  BY DEF InductiveInvariant, Shapes, Offers, Births, Unborn, ProcessAccept
<1>2. PICK z \in {Call("connect", s), Call("accept", s)} : Begins(w, <<z>>)
  BY DEF ProcessAccept, Begins
<1>3. z \in Frames /\ z.session = s
  BY <1>1 DEF Call, Frame, Frames, Places, Connecting
<1>4. w \in Threads /\ ~Busy(w)
  BY DEF Threads, ProcessAccept
<1>5. Counted'
  BY <1>1, <1>2, <1>3, <1>4, FirstCallsCounted
<1>6. PICK q : /\ q \notin Positions /\ Positions' = Positions \cup {q} /\ q[2] = 1
               /\ frames'[q] = z
               /\ \A p \in Positions : frames'[p] = frames[p] /\ Below(p) # q
  BY <1>1, <1>2, <1>3, <1>4, FirstCall
<1>7. \A p \in Positions' : frames'[p].at \in Connecting =>
         \E d \in Accepts \ listening' : offered'[d] = frames'[p].session
  BY <1>1, <1>3, <1>6 DEF Accepting
<1>8. OnlyOne(Connecting)'
  BY <1>1, <1>3, <1>6 DEF Accepting, OnlyOne, Works
<1> QED
  BY <1>5, <1>7, <1>8 DEF Accepting

\* The threads' calls come to an end: HandlerWork is a natural number, every
\* step of a thread that is in a call lowers it, however sends fail and
\* disconnect sessions on the way, and each call has a step to take until it
\* returns, unless its thread is lost in a session that was destroyed under it.
\* Only a completion that is dispatched and the main loop's next update give
\* the threads more to do.
THEOREM HandlersComeToEnd ==
    ASSUME IsFiniteSet(Sessions)
    PROVE  Spec => /\ [](HandlerWork \in Nat) /\ []CallsGoOn
                   /\ [][HandlersReturn]_vars
<1> DEFINE Working == InductiveInvariant /\ Counted /\ Accepting
<1>1. Init => Counted /\ Accepting
  <2> SUFFICES ASSUME Init PROVE Counted /\ Accepting
    OBVIOUS
  <2>1. Positions = {}
    BY DEF Init, Positions
  <2>2. Parts(Positions, stepsOf) = {}
    BY <2>1 DEF Parts
  <2> QED
    BY <2>1, <2>2, FS_EmptySet DEF Counted, Accepting, OnlyOne
<1>2. ASSUME Working, InductiveInvariant', [Next]_vars
      PROVE  /\ Counted' /\ Accepting'
             /\ [HandlersReturn]_vars
  <2>1. CASE UNCHANGED vars
    <3>1. Positions' = Positions /\ frames' = frames /\ stepsOf' = stepsOf
      BY <2>1 DEF vars, Positions, frames, stepsOf, Steps, StepsAt, SessionCount
    <3>2. AcceptsStay
      BY <2>1 DEF vars, AcceptsStay
    <3> QED
      BY <1>2, <2>1, <3>1, <3>2, AcceptingStays DEF Counted
  <2>2. ASSUME NEW t \in Threads, Run(t)
        PROVE  Progresses(t)
    BY <1>2, <2>2, RunDoesWork
  <2>3. Counted' /\ Accepting'
    BY <1>2, <2>1, <2>2, CallsBeginCounted, ProcessAcceptCounted DEF Next, Progresses
  <2>4. HandlersReturn
    BY <2>2 DEF HandlersReturn, Progresses
  <2> QED
    BY <2>3, <2>4
<1>3. Working => HandlerWork \in Nat
  BY WorkIsNumber DEF InductiveInvariant
<1>4. Working => CallsGoOn
  <2> SUFFICES ASSUME Working, NEW t \in Threads, Busy(t), Top(t).todo = {}
               PROVE  \/ At(t, "lost")
                      \/ \E place \in Places \ {"accept", "lost"} : At(t, place)
                      \/ /\ At(t, "accept")
                         /\ \E e \in Accepts : offered[e] = Top(t).session
    BY DEF CallsGoOn
  <2>1. /\ Innermost(t) \in Positions /\ frames[Innermost(t)] = Top(t)
        /\ Top(t).at \in Places
    BY InnermostIsTop DEF InductiveInvariant, Frames
  <2> QED
    BY <2>1 DEF At, Accepting, Connecting
<1>5. Spec => []Working
  <2>1. Working /\ InductiveInvariant' /\ [Next]_vars => Working'
    BY <1>2
  <2> HIDE DEF Working
  <2>2. Init /\ InductiveInvariant => Working
    BY <1>1 DEF Working
  <2> QED
    BY <2>1, <2>2, Inductive, PTL DEF Spec
<1>6. Working /\ InductiveInvariant' /\ [Next]_vars => [HandlersReturn]_vars
  BY <1>2
<1> HIDE DEF Working
<1> QED
  BY <1>3, <1>4, <1>5, <1>6, Inductive, PTL DEF Spec
================================================================================
