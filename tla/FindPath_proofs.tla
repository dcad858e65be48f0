--------------------------- MODULE FindPath_proofs ---------------------------
(***************************************************************************)
(* Proofs about the search, for any map and any range: the path that is    *)
(* found can be walked, and it ends as near to the target as can be.       *)
(***************************************************************************)
EXTENDS FindPath, FiniteSetTheorems, TLAPS

\* A cell that is known was entered from an earlier one, for the cost it has.
Tree ==
    /\ DOMAIN best \subseteq Cells
    /\ DOMAIN parent = DOMAIN best /\ DOMAIN reached = DOMAIN best
    /\ turn \in Nat
    /\ at \notin {"start", "refused"} => src \in DOMAIN best /\ parent[src] = src
    /\ \A c \in DOMAIN best :
          /\ best[c] = Cost(c)
          /\ reached[c] \in Nat /\ reached[c] < turn
          /\ parent[c] \in DOMAIN best
          /\ c # src => /\ c \in free /\ InRange(c)
                        /\ c \in Neighbours(parent[c])
                        /\ reached[parent[c]] < reached[c]

\* A cell that is known waits in the queue, or all its neighbours are known.
\* The target, if it is known, is next.
Frontier ==
    /\ \A e \in pq : e = Entry(e.pos) /\ e.pos \in DOMAIN best
    /\ at = "search" =>
          /\ target \in DOMAIN best => Entry(target) \in pq
          /\ \A c \in DOMAIN best :
                \/ Entry(c) \in pq
                \/ \A n \in Neighbours(c) : n \in free /\ InRange(n) => n \in DOMAIN best

\* Every cell that is known can be reached.
Sound ==
    \A cells \in SUBSET (free \cup {src}) :
        src \in cells /\ Closed(cells) => DOMAIN best \subseteq cells

NoBetter(c, others) ==
    \A d \in others : \/ Cost(c) < Cost(d)
                      \/ Cost(c) = Cost(d) /\ Distance(c, src) <= Distance(d, src)

\* Between the search and the walk every cell that can be reached is known,
\* and dest is the best of those compared so far.
Comparison ==
    /\ at \in {"start", "search"} => dest = target /\ bestScore = NoScore /\ path = <<>>
    /\ at = "compare" =>
          /\ path = <<>> /\ Closed(DOMAIN best) /\ rest \subseteq DOMAIN best
          /\ \/ rest = DOMAIN best /\ bestScore = NoScore
             \/ /\ dest \in DOMAIN best /\ bestScore = Cost(dest)
                /\ NoBetter(dest, DOMAIN best \ rest)
    /\ at \in {"walk", "found"} =>
          /\ dest \in DOMAIN best
          /\ \A c \in Cells : Reachable(c) => NoBetter(dest, {c})

\* The path so far: each cell was entered from the one before.
Walk ==
    /\ path \in Seq(DOMAIN best)
    /\ path # <<>> =>
          /\ path[Len(path)] = dest
          /\ \A i \in 2..Len(path) : path[i] # src /\ path[i - 1] = parent[path[i]]
          /\ \A i, j \in 1..Len(path) : i < j => reached[path[i]] < reached[path[j]]
          /\ at = "walk" => parent[path[1]] # path[1]
          /\ at \in {"walk", "found"}
    /\ at = "found" => path # <<>> /\ path[1] = src

InductiveInvariant ==
    /\ src \in Cells /\ target \in Cells /\ free \subseteq Cells \ {src}
    /\ at \in {"start", "refused", "search", "compare", "walk", "found"}
    /\ Tree /\ Frontier /\ Sound /\ Comparison /\ Walk

-----------------------------------------------------------------------------
(* Cells *)

LEMMA DistanceIsNat ==
    ASSUME NEW c \in Cells, NEW d \in Cells
    PROVE  /\ Distance(c, d) \in Nat
           /\ Distance(c, d) = 0 => c = d
           /\ Distance(c, c) = 0
<1>1. PICK x \in Int, y \in Int : c = <<x, y>>
  BY CellsAssumption
<1>2. PICK v \in Int, w \in Int : d = <<v, w>>
  BY CellsAssumption
<1> QED
  BY <1>1, <1>2 DEF Distance, Abs

LEMMA InitHolds == Init => InductiveInvariant
  BY DEF Init, InductiveInvariant, Tree, Frontier, Sound, Comparison, Walk

LEMMA CostIsNat ==
    ASSUME InductiveInvariant, NEW c \in Cells
    PROVE  /\ Cost(c) \in Nat /\ (Cost(c) = 0 <=> c = target)
           /\ Distance(c, src) \in Nat
  BY DistanceIsNat DEF InductiveInvariant, Cost

LEMMA StutterKeeps ==
    ASSUME InductiveInvariant, UNCHANGED vars
    PROVE  InductiveInvariant'
  BY DEF InductiveInvariant, Tree, Frontier, Sound, Comparison, Walk, NoBetter,
         vars, arguments, maps, Cost, Entry, InRange, Closed, Reachable

-----------------------------------------------------------------------------
(* The steps *)

LEMMA TooFarKeeps ==
    ASSUME InductiveInvariant, TooFar
    PROVE  InductiveInvariant'
  BY DEF InductiveInvariant, Tree, Frontier, Sound, Comparison, Walk, NoBetter,
         TooFar, arguments, maps, Cost, Entry, InRange, Closed, Reachable

LEMMA StartKeeps ==
    ASSUME InductiveInvariant, Start
    PROVE  InductiveInvariant'
<1> USE DEF InductiveInvariant, Start, arguments
<1>1. Cost(src) \in Nat /\ src \in Cells
  BY CostIsNat
<1>2. Tree'
  BY <1>1 DEF Tree, Cost
<1>3. Frontier'
  BY <1>1 DEF Frontier, Entry, Cost
<1>4. Sound'
  BY DEF Sound, Closed, InRange
<1>5. Comparison' /\ Walk'
  BY DEF Comparison, Walk
<1> QED
  BY <1>2, <1>3, <1>4, <1>5

\* While another cell is the cheapest, the target is not known.
LEMMA TargetUnknown ==
    ASSUME InductiveInvariant, at = "search",
           NEW e \in pq, Cheapest(e), e.pos # target
    PROVE  /\ target \notin DOMAIN best
           /\ \A c \in DOMAIN best : ~Better(c)
<1>1. /\ e = Entry(e.pos) /\ e.pos \in DOMAIN best /\ DOMAIN best \subseteq Cells
      /\ \A c \in DOMAIN best : best[c] = Cost(c)
  BY DEF InductiveInvariant, Frontier, Tree
<1>2. target \notin DOMAIN best
  <2> SUFFICES ASSUME target \in DOMAIN best PROVE FALSE
    OBVIOUS
  <2>1. Entry(target) \in pq
    BY DEF InductiveInvariant, Frontier
  <2>2. e.cost <= Entry(target).cost
    BY <2>1 DEF Cheapest
  <2>3. Cost(e.pos) <= Cost(target)
    BY <2>2, <1>1 DEF Entry
  <2> QED
    BY <2>3, <1>1, CostIsNat
<1>3. ASSUME NEW c \in DOMAIN best PROVE ~Better(c)
  <2>1. best[c] = Cost(c) /\ Cost(c) \in Nat /\ Cost(c) # 0
    BY <1>1, <1>2, CostIsNat
  <2> QED
    BY <2>1 DEF Better
<1> QED
  BY <1>2, <1>3

LEMMA VisitKeeps ==
    ASSUME InductiveInvariant, at = "search",
           NEW e \in pq, Cheapest(e), e.pos # target, Visit(e),
           UNCHANGED <<arguments, at, dest, rest, bestScore, path>>
    PROVE  InductiveInvariant'
<1> PICK new : new = Entered(e.pos)
  OBVIOUS
<1>a. /\ src \in Cells /\ target \in Cells /\ free \subseteq Cells \ {src}
      /\ src' = src /\ target' = target /\ free' = free /\ at' = at
  BY DEF InductiveInvariant, arguments
<1>b. Tree /\ Frontier /\ Sound /\ Comparison /\ Walk
  BY DEF InductiveInvariant
<1>1. /\ e = Entry(e.pos) /\ e.pos \in DOMAIN best
      /\ DOMAIN best \subseteq Cells
      /\ src \in DOMAIN best /\ parent[src] = src
  BY <1>b DEF Frontier, Tree
<1>2. /\ new \subseteq free /\ new \cap DOMAIN best = {} /\ src \notin new
      /\ \A c \in new : InRange(c) /\ c \in Neighbours(e.pos)
  BY <1>1, TargetUnknown DEF Entered, Better
<1>3. /\ best' = [c \in DOMAIN best \cup new |-> IF c \in new THEN Cost(c) ELSE best[c]]
      /\ parent' = [c \in DOMAIN best \cup new |-> IF c \in new THEN e.pos ELSE parent[c]]
      /\ reached' = [c \in DOMAIN best \cup new |-> IF c \in new THEN turn ELSE reached[c]]
      /\ turn' = IF new = {} THEN turn ELSE turn + 1
      /\ pq' = (pq \ {e}) \cup {Entry(c) : c \in new}
  <2>1. new \ DOMAIN best = new
    BY <1>2
  <2> QED
    BY <2>1 DEF Visit, Enter
<1>4. ASSUME NEW c PROVE /\ Cost(c)' = Cost(c) /\ Entry(c)' = Entry(c)
                         /\ InRange(c)' = InRange(c)
                         /\ Neighbours(c)' = Neighbours(c)
  BY <1>a DEF Cost, Entry, InRange, Neighbours
<1>5. Tree'
  <2>1. DOMAIN best' = DOMAIN best \cup new
    BY <1>3
  <2>2. turn \in Nat /\ turn' \in Nat /\ turn <= turn' /\ (new # {} => turn' = turn + 1)
    BY <1>b, <1>3 DEF Tree
  <2>3. ASSUME NEW c \in new
        PROVE  /\ best'[c] = Cost(c) /\ reached'[c] = turn /\ turn < turn'
               /\ parent'[c] = e.pos /\ reached'[e.pos] < turn
    <3>1. e.pos \notin new /\ reached[e.pos] < turn
      BY <1>1, <1>2, <1>b DEF Tree
    <3> QED
      BY <3>1, <1>1, <1>3, <2>2
  <2>4. ASSUME NEW c \in DOMAIN best
        PROVE  /\ best'[c] = best[c] /\ reached'[c] = reached[c]
               /\ parent'[c] = parent[c]
    BY <1>2, <1>3
  <2>5. ASSUME NEW c \in DOMAIN best
        PROVE  /\ best'[c] = Cost(c)
               /\ reached'[c] \in Nat /\ reached'[c] < turn'
               /\ parent'[c] \in DOMAIN best
               /\ c # src => /\ c \in free /\ InRange(c)
                             /\ c \in Neighbours(parent'[c])
                             /\ reached'[parent'[c]] < reached'[c]
    <3>1. /\ best[c] = Cost(c) /\ parent[c] \in DOMAIN best
          /\ reached[c] \in Nat /\ reached[c] < turn
          /\ c # src => /\ c \in free /\ InRange(c)
                        /\ c \in Neighbours(parent[c])
                        /\ reached[parent[c]] < reached[c]
      BY <1>b DEF Tree
    <3> QED
      BY <3>1, <2>2, <2>4
  <2>6. src \in DOMAIN best' /\ parent'[src] = src
    BY <1>1, <2>1, <2>4
  <2>7. ASSUME NEW c \in DOMAIN best'
        PROVE  /\ best'[c] = Cost(c)
               /\ reached'[c] \in Nat /\ reached'[c] < turn'
               /\ parent'[c] \in DOMAIN best'
               /\ c # src => /\ c \in free /\ InRange(c)
                             /\ c \in Neighbours(parent'[c])
                             /\ reached'[parent'[c]] < reached'[c]
    <3>1. CASE c \in new
      BY <3>1, <1>1, <1>2, <2>1, <2>2, <2>3
    <3>2. CASE c \in DOMAIN best
      BY <3>2, <2>1, <2>5
    <3> QED
      BY <3>1, <3>2, <2>1
  <2>8. /\ DOMAIN best' \subseteq Cells
        /\ DOMAIN parent' = DOMAIN best' /\ DOMAIN reached' = DOMAIN best'
    BY <1>1, <1>2, <1>3, <1>a
  <2> QED
    BY <2>2, <2>6, <2>7, <2>8, <1>4, <1>a DEF Tree
<1>6. Frontier'
  <2>1. DOMAIN best' = DOMAIN best \cup new
    BY <1>3
  <2>2. ASSUME NEW f \in pq' PROVE f = Entry(f.pos) /\ f.pos \in DOMAIN best'
    BY <1>b, <1>3, <2>1 DEF Frontier, Entry
  <2>3. target \in DOMAIN best' => Entry(target) \in pq'
    BY <2>1, <1>3, TargetUnknown
  <2>4. ASSUME NEW c \in DOMAIN best'
        PROVE  \/ Entry(c) \in pq'
               \/ \A n \in Neighbours(c) : n \in free /\ InRange(n) => n \in DOMAIN best'
    <3>1. CASE c \in new
      BY <3>1, <1>3
    <3>2. CASE c = e.pos
      BY <3>2, <2>1 DEF Entered, Better
    <3>3. CASE c \in DOMAIN best /\ c # e.pos
      <4>1. Entry(c) # e
        BY <3>3, <1>1 DEF Entry
      <4> QED
        BY <4>1, <3>3, <1>b, <1>3, <2>1 DEF Frontier
    <3> QED
      BY <3>1, <3>2, <3>3, <2>1
  <2> QED
    BY <2>2, <2>3, <2>4, <1>4, <1>a DEF Frontier
<1>7. Sound'
  <2> SUFFICES ASSUME NEW cells \in SUBSET (free \cup {src}), src \in cells, Closed(cells)
               PROVE  DOMAIN best \cup new \subseteq cells
    BY <1>3, <1>4, <1>a DEF Sound, Closed
  <2>1. DOMAIN best \subseteq cells
    BY <1>b DEF Sound
  <2> QED
    BY <2>1, <1>1, <1>2 DEF Closed
<1>8. Comparison' /\ Walk'
  BY <1>a, <1>b DEF Comparison, Walk
<1> QED
  BY <1>5, <1>6, <1>7, <1>8, <1>a DEF InductiveInvariant

LEMMA SearchKeeps ==
    ASSUME InductiveInvariant, Search
    PROVE  InductiveInvariant'
<1>1. PICK e \in pq :
          /\ Cheapest(e)
          /\ \/ /\ best[e.pos] < e.cost
                /\ pq' = pq \ {e} /\ UNCHANGED <<at, maps>>
             \/ /\ best[e.pos] >= e.cost /\ e.pos = target
                /\ pq' = pq \ {e} /\ at' = "walk" /\ UNCHANGED maps
             \/ /\ best[e.pos] >= e.cost /\ e.pos # target
                /\ Visit(e) /\ UNCHANGED at
  BY DEF Search
<1>2. at = "search" /\ UNCHANGED <<arguments, dest, rest, bestScore, path>>
  BY DEF Search
<1>3. /\ e.pos \in DOMAIN best /\ best[e.pos] = e.cost /\ e.cost \in Nat
      /\ DOMAIN best \subseteq Cells
  <2>1. e = Entry(e.pos) /\ e.pos \in DOMAIN best /\ DOMAIN best \subseteq Cells
    BY DEF InductiveInvariant, Frontier, Tree
  <2>2. e.cost = Cost(e.pos)
    BY <2>1 DEF Entry
  <2>3. best[e.pos] = Cost(e.pos)
    BY <2>1 DEF InductiveInvariant, Tree
  <2> QED
    BY <2>1, <2>2, <2>3, CostIsNat
<1>4. CASE e.pos = target
  <2>1. /\ pq' = pq \ {e} /\ at' = "walk" /\ UNCHANGED maps
    BY <1>1, <1>3, <1>4
  <2>2. dest = target /\ target \in DOMAIN best /\ path = <<>>
    BY <1>2, <1>3, <1>4 DEF InductiveInvariant, Comparison
  <2>3. ASSUME NEW c \in Cells PROVE NoBetter(target, {c})
    BY CostIsNat, <1>3, <1>4 DEF NoBetter
  <2>4. Tree' /\ Frontier' /\ Sound'
    BY <1>2, <2>1 DEF InductiveInvariant, Tree, Frontier, Sound, arguments, maps,
                      Cost, Entry, InRange, Closed
  <2>5. Comparison'
    BY <1>2, <2>1, <2>2, <2>3 DEF Comparison, arguments, maps, NoBetter, Cost
  <2>6. Walk'
    BY <1>2, <2>1, <2>2 DEF Walk
  <2> QED
    BY <1>2, <2>1, <2>4, <2>5, <2>6 DEF InductiveInvariant, arguments
<1>5. CASE e.pos # target
  BY <1>1, <1>2, <1>3, <1>5, VisitKeeps
<1> QED
  BY <1>4, <1>5

LEMMA GiveUpKeeps ==
    ASSUME InductiveInvariant, GiveUp
    PROVE  InductiveInvariant'
<1> USE DEF InductiveInvariant, GiveUp, arguments, maps
<1>1. Tree' /\ Frontier' /\ Sound'
  BY DEF Tree, Frontier, Sound, Cost, Entry, InRange, Closed
<1>2. Closed(DOMAIN best)'
  BY DEF Frontier, Closed, InRange
<1>3. Comparison'
  BY <1>2 DEF Comparison
<1>4. Walk'
  BY DEF Walk, Comparison
<1> QED
  BY <1>1, <1>3, <1>4

\* What can be reached is known when the search has left nothing open.
LEMMA ReachableIsKnown ==
    ASSUME InductiveInvariant, at = "compare", NEW c, Reachable(c)
    PROVE  c \in DOMAIN best
<1>1. DOMAIN best \in SUBSET (free \cup {src}) /\ src \in DOMAIN best
  BY DEF InductiveInvariant, Tree
<1>2. Closed(DOMAIN best)
  BY DEF InductiveInvariant, Comparison
<1> QED
  BY <1>1, <1>2 DEF Reachable

LEMMA CompareKeeps ==
    ASSUME InductiveInvariant, Compare
    PROVE  InductiveInvariant'
<1>1. PICK c \in rest :
          /\ dest' = IF Preferable(c) THEN c ELSE dest
          /\ bestScore' = IF Preferable(c) THEN best[c] ELSE bestScore
          /\ rest' = rest \ {c}
          /\ at' = IF rest = {c} THEN "walk" ELSE at
  BY DEF Compare
<1>2. at = "compare" /\ UNCHANGED <<arguments, pq, maps, path>>
  BY DEF Compare
<1>3. /\ rest \subseteq DOMAIN best /\ path = <<>> /\ Closed(DOMAIN best)
      /\ DOMAIN best \subseteq Cells /\ best[c] = Cost(c)
  BY <1>2 DEF InductiveInvariant, Comparison, Tree
<1>4. \A d \in DOMAIN best : Cost(d) \in Nat /\ Distance(d, src) \in Nat
  BY <1>3, CostIsNat
<1>5. /\ dest' \in DOMAIN best /\ bestScore' = Cost(dest')
      /\ NoBetter(dest', DOMAIN best \ (rest \ {c}))
  <2>1. CASE bestScore = NoScore
    <3>1. Preferable(c)
      BY <2>1 DEF Preferable
    <3>2. rest = DOMAIN best
      BY <2>1, <1>2, <1>4 DEF InductiveInvariant, Comparison, NoScore
    <3> QED
      BY <3>1, <3>2, <1>1, <1>3, <1>4 DEF NoBetter
  <2>2. CASE bestScore # NoScore
    <3>1. /\ dest \in DOMAIN best /\ bestScore = Cost(dest)
          /\ NoBetter(dest, DOMAIN best \ rest)
      BY <2>2, <1>2 DEF InductiveInvariant, Comparison
    <3>2. CASE Preferable(c)
      <4>1. \/ Cost(c) < Cost(dest)
            \/ Cost(c) = Cost(dest) /\ Distance(dest, src) > Distance(c, src)
        BY <2>2, <3>1, <3>2, <1>3 DEF Preferable
      <4>2. ASSUME NEW d \in DOMAIN best \ (rest \ {c})
            PROVE  \/ Cost(c) < Cost(d)
                   \/ Cost(c) = Cost(d) /\ Distance(c, src) <= Distance(d, src)
        <5>1. CASE d = c
          BY <5>1, <1>3, <1>4
        <5>2. CASE d \in DOMAIN best \ rest
          <6>1. \/ Cost(dest) < Cost(d)
                \/ Cost(dest) = Cost(d) /\ Distance(dest, src) <= Distance(d, src)
            BY <5>2, <3>1 DEF NoBetter
          <6> QED
            BY <4>1, <6>1, <1>3, <1>4, <3>1
        <5> QED
          BY <5>1, <5>2
      <4> QED
        BY <4>2, <3>2, <1>1, <1>3 DEF NoBetter
    <3>3. CASE ~Preferable(c)
      <4>1. \/ Cost(dest) < Cost(c)
            \/ Cost(dest) = Cost(c) /\ Distance(dest, src) <= Distance(c, src)
        BY <2>2, <3>1, <3>3, <1>3, <1>4 DEF Preferable
      <4> QED
        BY <4>1, <3>1, <3>3, <1>1 DEF NoBetter
    <3> QED
      BY <3>2, <3>3
  <2> QED
    BY <2>1, <2>2
<1>6. ASSUME NEW d PROVE /\ Cost(d)' = Cost(d) /\ Entry(d)' = Entry(d)
                         /\ InRange(d)' = InRange(d)
                         /\ Reachable(d)' = Reachable(d)
  BY <1>2 DEF Cost, Entry, InRange, Reachable, Closed, arguments
<1>7. Tree' /\ Frontier' /\ Sound'
  BY <1>1, <1>2 DEF InductiveInvariant, Tree, Frontier, Sound, arguments, maps,
                    Cost, Entry, InRange, Closed
<1>8. Closed(DOMAIN best)'
  BY <1>2, <1>3 DEF Closed, InRange, arguments, maps
<1>9. Comparison'
  <2>1. CASE rest = {c}
    <3>1. NoBetter(dest', DOMAIN best)
      BY <2>1, <1>5
    <3>2. ASSUME NEW d \in Cells, Reachable(d) PROVE NoBetter(dest', {d})
      BY <3>1, <3>2, <1>2, ReachableIsKnown DEF NoBetter
    <3>3. ASSUME NEW d \in Cells, Reachable(d)' PROVE NoBetter(dest, {d})'
      BY <3>2, <3>3, <1>6, <1>2 DEF NoBetter, arguments
    <3>4. at' = "walk" /\ dest' \in DOMAIN best'
      BY <2>1, <1>1, <1>2, <1>5 DEF maps
    <3> QED
      BY <3>3, <3>4 DEF Comparison
  <2>2. CASE rest # {c}
    <3>1. at' = "compare" /\ path' = <<>> /\ DOMAIN best' = DOMAIN best
      BY <2>2, <1>1, <1>2, <1>3 DEF maps
    <3>2. bestScore' = Cost(dest)' /\ NoBetter(dest, DOMAIN best \ rest)'
      BY <1>1, <1>2, <1>5 DEF NoBetter, Cost, arguments, maps
    <3> QED
      BY <3>1, <3>2, <1>1, <1>3, <1>5, <1>8 DEF Comparison
  <2> QED
    BY <2>1, <2>2
<1>10. Walk'
  BY <1>1, <1>2, <1>3 DEF Walk
<1> QED
  BY <1>1, <1>2, <1>5, <1>7, <1>9, <1>10 DEF InductiveInvariant, arguments

LEMMA WalkBackKeeps ==
    ASSUME InductiveInvariant, WalkBack
    PROVE  InductiveInvariant'
<1> PICK pos : pos = IF path = <<>> THEN dest ELSE parent[path[1]]
  OBVIOUS
<1>1. /\ at = "walk" /\ path' = <<pos>> \o path
      /\ at' = IF pos = parent[pos] THEN "found" ELSE at
      /\ UNCHANGED <<arguments, pq, maps, dest, rest, bestScore, turn>>
  BY DEF WalkBack
<1>2. /\ path \in Seq(DOMAIN best) /\ dest \in DOMAIN best
      /\ src \in DOMAIN best /\ parent[src] = src
      /\ \A c \in DOMAIN best :
            /\ parent[c] \in DOMAIN best /\ reached[c] \in Nat
            /\ c # src => reached[parent[c]] < reached[c]
  BY <1>1 DEF InductiveInvariant, Walk, Comparison, Tree
<1>3. path # <<>> =>
          /\ path[Len(path)] = dest
          /\ \A i \in 2..Len(path) : path[i] # src /\ path[i - 1] = parent[path[i]]
          /\ \A i, j \in 1..Len(path) : i < j => reached[path[i]] < reached[path[j]]
          /\ parent[path[1]] # path[1]
  BY <1>1 DEF InductiveInvariant, Walk
<1>4. pos \in DOMAIN best
  BY <1>2
<1>5. pos = parent[pos] => pos = src
  BY <1>2, <1>4
<1>6. /\ path' \in Seq(DOMAIN best) /\ path' # <<>>
      /\ Len(path') = Len(path) + 1 /\ path'[1] = pos
      /\ \A i \in 1..Len(path) : path'[i + 1] = path[i]
      /\ \A i \in 2..Len(path') : i - 1 \in 1..Len(path) /\ path'[i] = path[i - 1]
  BY <1>1, <1>2, <1>4
<1>7. path'[Len(path')] = dest
  <2>1. CASE path = <<>>
    BY <2>1, <1>6
  <2>2. CASE path # <<>>
    BY <2>2, <1>2, <1>3, <1>6
  <2> QED
    BY <2>1, <2>2
<1>8. ASSUME NEW i \in 2..Len(path')
      PROVE  path'[i] # src /\ path'[i - 1] = parent[path'[i]]
  <2>1. path'[i] = path[i - 1] /\ i - 1 \in 1..Len(path) /\ path # <<>>
    BY <1>6
  <2>2. CASE i = 2
    BY <2>1, <2>2, <1>2, <1>3, <1>6
  <2>3. CASE i # 2
    <3>1. i - 1 \in 2..Len(path) /\ path'[i - 1] = path[(i - 1) - 1]
      BY <2>1, <2>3, <1>6
    <3> QED
      BY <3>1, <2>1, <1>3
  <2> QED
    BY <2>2, <2>3
<1>9. ASSUME NEW i \in 1..Len(path'), NEW j \in 1..Len(path'), i < j
      PROVE  reached[path'[i]] < reached[path'[j]]
  <2>1. /\ j - 1 \in 1..Len(path) /\ path'[j] = path[j - 1]
        /\ Len(path) \in Nat /\ path # <<>> /\ 1 \in 1..Len(path)
    BY <1>2, <1>6, <1>9
  <2>2. CASE i = 1
    <3>1. path[1] \in DOMAIN best /\ path[j - 1] \in DOMAIN best
      BY <1>2, <2>1
    <3>2. pos = parent[path[1]] /\ path[1] # src
      BY <1>2, <1>3, <2>1
    <3>3. reached[pos] < reached[path[1]]
      BY <3>1, <3>2, <1>2
    <3>4. j - 1 = 1 \/ reached[path[1]] < reached[path[j - 1]]
      BY <1>3, <2>1
    <3> QED
      BY <3>1, <3>3, <3>4, <2>1, <2>2, <1>2, <1>4, <1>6
  <2>3. CASE i # 1
    <3>1. i - 1 \in 1..Len(path) /\ path'[i] = path[i - 1] /\ i - 1 < j - 1
      BY <2>3, <1>6, <1>9
    <3> QED
      BY <3>1, <2>1, <1>3
  <2> QED
    BY <2>2, <2>3
<1>10. /\ at' \in {"walk", "found"}
       /\ at' = "walk" => parent[path'[1]] # path'[1]
       /\ at' = "found" => path'[1] = src
  BY <1>1, <1>5, <1>6
<1>11. Walk'
  <2>1. best' = best /\ parent' = parent /\ reached' = reached /\ dest' = dest
    BY <1>1 DEF maps
  <2>2. \A i \in 2..Len(path') : path'[i] # src' /\ path'[i - 1] = parent'[path'[i]]
    BY <1>1, <1>8, <2>1 DEF arguments
  <2>3. \A i, j \in 1..Len(path') : i < j => reached'[path'[i]] < reached'[path'[j]]
    BY <1>9, <2>1
  <2>4. path'[1] = src => path'[1] = src'
    BY <1>1 DEF arguments
  <2> QED
    BY <1>6, <1>7, <1>10, <2>1, <2>2, <2>3, <2>4 DEF Walk
<1>12. Tree' /\ Frontier' /\ Sound'
  BY <1>1 DEF InductiveInvariant, Tree, Frontier, Sound, arguments, maps,
              Cost, Entry, InRange, Closed
<1>13. Comparison'
  BY <1>1, <1>10 DEF InductiveInvariant, Comparison, NoBetter, Reachable, Closed,
                     InRange, Cost, arguments, maps
<1> QED
  BY <1>1, <1>11, <1>12, <1>13 DEF InductiveInvariant, arguments

LEMMA Invariance == Spec => []InductiveInvariant
<1>1. InductiveInvariant /\ [Next]_vars => InductiveInvariant'
  <2> SUFFICES ASSUME InductiveInvariant, [Next]_vars
               PROVE  InductiveInvariant'
    OBVIOUS
  <2> QED
    BY TooFarKeeps, StartKeeps, SearchKeeps, GiveUpKeeps, CompareKeeps,
       WalkBackKeeps, StutterKeeps DEF Next
<1> QED
  BY <1>1, InitHolds, PTL DEF Spec

-----------------------------------------------------------------------------
(* The theorems *)

\* On any map the path GameRoom::FindPath returns leads from the monster,
\* step by step over free cells in range, to its end, and enters no cell
\* twice.
THEOREM FindPathWalks == Spec => []PathWalks
<1>1. InductiveInvariant => PathWalks
  <2> SUFFICES ASSUME InductiveInvariant, at = "found"
               PROVE  /\ path # <<>> /\ path[1] = src /\ path[Len(path)] = dest
                      /\ \A i \in 2..Len(path) :
                            /\ path[i] \in free /\ InRange(path[i])
                            /\ path[i] \in Neighbours(path[i - 1])
                      /\ \A i, j \in 1..Len(path) : path[i] = path[j] => i = j
    BY DEF PathWalks
  <2>1. path \in Seq(DOMAIN best) /\ path # <<>> /\ path[1] = src
    BY DEF InductiveInvariant, Walk
  <2>2. /\ path[Len(path)] = dest
        /\ \A i \in 2..Len(path) : path[i] # src /\ path[i - 1] = parent[path[i]]
        /\ \A i, j \in 1..Len(path) : i < j => reached[path[i]] < reached[path[j]]
    BY <2>1 DEF InductiveInvariant, Walk
  <2>3. ASSUME NEW i \in 2..Len(path)
        PROVE  /\ path[i] \in free /\ InRange(path[i])
               /\ path[i] \in Neighbours(path[i - 1])
    <3>1. path[i] \in DOMAIN best /\ path[i] # src /\ path[i - 1] = parent[path[i]]
      BY <2>1, <2>2
    <3> QED
      BY <3>1 DEF InductiveInvariant, Tree
  <2>4. ASSUME NEW i \in 1..Len(path), NEW j \in 1..Len(path), path[i] = path[j]
        PROVE  i = j
    <3>1. reached[path[i]] \in Nat
      BY <2>1 DEF InductiveInvariant, Tree
    <3>2. ~(reached[path[i]] < reached[path[j]]) /\ ~(reached[path[j]] < reached[path[i]])
      BY <3>1, <2>4
    <3> QED
      BY <3>2, <2>1, <2>2
  <2> QED
    BY <2>1, <2>2, <2>3, <2>4
<1> QED
  BY <1>1, Invariance, PTL

\* On any map that path ends in a cell the monster can reach; no cell it can
\* reach is nearer to the target, and none as near is closer to the monster.
THEOREM FindPathEndsNearest == Spec => []EndsNearest
<1>1. InductiveInvariant => EndsNearest
  <2> SUFFICES ASSUME InductiveInvariant, at = "found"
               PROVE  /\ Reachable(dest)
                      /\ \A c \in Cells : Reachable(c) =>
                            \/ Cost(dest) < Cost(c)
                            \/ /\ Cost(dest) = Cost(c)
                               /\ Distance(dest, src) <= Distance(c, src)
    BY DEF EndsNearest
  <2>1. dest \in DOMAIN best /\ \A c \in Cells : Reachable(c) => NoBetter(dest, {c})
    BY DEF InductiveInvariant, Comparison
  <2>2. Reachable(dest)
    BY <2>1 DEF InductiveInvariant, Sound, Reachable
  <2> QED
    BY <2>1, <2>2 DEF NoBetter
<1> QED
  BY <1>1, Invariance, PTL

-----------------------------------------------------------------------------
(* The search comes to an end *)

\* The loops, in the order in which they run.
Order == [start |-> 0, search |-> 1, compare |-> 2, walk |-> 3, found |-> 4,
          refused |-> 4]

\* What the running loop has still to do: an entry of the queue may become an
\* entry for each cell that is not known yet; the cells of best still to be
\* compared; and the way back, whose cells were seen earlier and earlier.
LeftToDo ==
    IF at = "search" THEN 2 * Cardinality(Cells \ DOMAIN best) + Cardinality(pq)
    ELSE IF at = "compare" THEN Cardinality(rest)
    ELSE IF at = "walk" THEN IF path = <<>> THEN turn ELSE reached[path[1]]
    ELSE 0

\* A step passes on to a later loop, or leaves less to do in this one.
Progresses ==
    \/ Order[at'] > Order[at]
    \/ at' = at /\ LeftToDo' < LeftToDo

\* And wherever it has not ended there is a step to take: the queue has a
\* cheapest entry, the cells to compare have a first one, and the cell from
\* which the walk goes on has a parent.
GoesOn ==
    /\ at = "search" => pq = {} \/ \E e \in pq : Cheapest(e) /\ e.pos \in DOMAIN best
    /\ at = "compare" => \E c \in rest : First(c, rest) /\ c \in DOMAIN best
    /\ at = "walk" => /\ dest \in DOMAIN parent
                      /\ path # <<>> => path[1] \in DOMAIN parent
                                        /\ parent[path[1]] \in DOMAIN parent

\* The entries of some cells are no more than the cells.
LEMMA EntriesOfCells ==
    ASSUME NEW new, IsFiniteSet(new)
    PROVE  /\ IsFiniteSet({Entry(c) : c \in new})
           /\ Cardinality({Entry(c) : c \in new}) \in Nat
           /\ Cardinality({Entry(c) : c \in new}) <= Cardinality(new)
<1> DEFINE entries == {Entry(c) : c \in new}
           f == [c \in new |-> Entry(c)]
<1>1. f \in Surjection(new, entries)
  BY DEF Surjection
<1> HIDE DEF f, entries
<1>2. IsFiniteSet(entries) /\ Cardinality(entries) <= Cardinality(new)
  BY <1>1, FS_Surjection
<1>3. Cardinality(entries) \in Nat
  BY <1>2, FS_CardinalityType
<1> QED
  BY <1>2, <1>3 DEF entries

\* A set of cells or entries among which any two can be compared has a least
\* member: one that the fewest come before.
LEMMA LeastMember ==
    ASSUME NEW S, IsFiniteSet(S), S # {}, NEW R,
           \A c, d \in S : <<c, d>> \in R \/ <<d, c>> \in R,
           \A b, c, d \in S : <<b, c>> \in R /\ <<c, d>> \in R => <<b, d>> \in R
    PROVE  \E c \in S : \A d \in S : <<c, d>> \in R
<1> DEFINE Down(c) == {b \in S : <<c, b>> \notin R}
           T == {Down(c) : c \in S}
<1>1. T \subseteq FiniteSubsetsOf(S) /\ T # {}
  <2>1. ASSUME NEW c \in S
        PROVE  Down(c) \in FiniteSubsetsOf(S)
    <3> PICK down \in SUBSET S : down = Down(c)
      OBVIOUS
    <3>1. IsFiniteSet(down)
      BY FS_Subset
    <3> QED
      BY <3>1 DEF FiniteSubsetsOf
  <2>2. T # {}
    <3> PICK c : c \in S
      OBVIOUS
    <3>1. Down(c) \in T
      OBVIOUS
    <3> QED
      BY <3>1
  <2> HIDE DEF Down
  <2> QED
    BY <2>1, <2>2
<1>2. PICK x \in T : \A y \in T : <<y, x>> \notin StrictSubsetOrdering(S)
  <2> HIDE DEF T
  <2> QED
    BY <1>1, WFMin, FS_StrictSubsetOrderingWellFounded
<1>3. PICK c \in S : x = Down(c)
  BY DEF T
<1>4. ASSUME NEW d \in S, <<c, d>> \notin R
      PROVE  FALSE
  <2>1. <<d, c>> \in R
    BY <1>4
  <2>2. Down(d) \subseteq Down(c)
    BY <1>4, <2>1
  <2>3. d \in Down(c) /\ d \notin Down(d)
    BY <1>4
  <2>4. Down(d) \in T /\ Down(d) \in SUBSET S /\ x \in SUBSET S
    BY <1>3
  <2>5. <<Down(d), x>> \in StrictSubsetOrdering(S)
    BY <1>1, <1>3, <2>2, <2>3, <2>4 DEF StrictSubsetOrdering, FiniteSubsetsOf
  <2> QED
    BY <1>2, <2>4, <2>5
<1> QED
  BY <1>4

\* What InductiveInvariant says of the sets that the loops work off.
Finite == IsFiniteSet(pq) /\ (at = "compare" => rest # {})

LEMMA NewCells ==
    ASSUME InductiveInvariant, IsFiniteSet(pq), at = "search",
           NEW e \in pq, Cheapest(e), e.pos # target, Visit(e)
    PROVE  /\ IsFiniteSet(pq')
           /\ 2 * Cardinality(Cells \ DOMAIN best') + Cardinality(pq') + 1
                 <= 2 * Cardinality(Cells \ DOMAIN best) + Cardinality(pq)
<1> DEFINE new == Entered(e.pos)
           entries == {Entry(c) : c \in new}
           unknown == Cells \ DOMAIN best
<1>1. new \subseteq Cells /\ new \cap DOMAIN best = {}
  BY TargetUnknown DEF Entered, Better, InductiveInvariant
<1>2. DOMAIN best' = DOMAIN best \cup new /\ pq' = (pq \ {e}) \cup entries
  BY DEF Visit, Enter
<1> HIDE DEF new, entries
<1>3. IsFiniteSet(new) /\ Cardinality(new) \in Nat
  BY <1>1, FS_Subset, FS_CardinalityType, MapAssumption
<1>4. /\ IsFiniteSet(entries) /\ Cardinality(entries) \in Nat
      /\ Cardinality(entries) <= Cardinality(new)
  BY <1>3, EntriesOfCells DEF entries
<1>5. /\ Cells \ DOMAIN best' = unknown \ new /\ unknown \cap new = new
      /\ IsFiniteSet(unknown)
  BY <1>1, <1>2, FS_Difference, MapAssumption
<1> HIDE DEF unknown
<1>6. /\ Cardinality(unknown) \in Nat
      /\ Cardinality(unknown \ new) = Cardinality(unknown) - Cardinality(new)
      /\ Cardinality(unknown \ new) \in Nat
  BY <1>5, FS_Difference, FS_CardinalityType
<1>7. /\ IsFiniteSet(pq \ {e}) /\ Cardinality(pq \ {e}) = Cardinality(pq) - 1
      /\ Cardinality(pq) \in Nat /\ Cardinality(pq \ {e}) \in Nat
  BY FS_RemoveElement, FS_CardinalityType
<1>8. /\ IsFiniteSet(pq') /\ Cardinality(pq') \in Nat
      /\ Cardinality(pq') <= Cardinality(pq) - 1 + Cardinality(new)
  <2> DEFINE old == pq \ {e}
  <2>1. /\ IsFiniteSet(old \cup entries)
        /\ Cardinality(old \cup entries)
              = Cardinality(old) + Cardinality(entries) - Cardinality(old \cap entries)
    BY <1>4, <1>7, FS_Union
  <2>2. Cardinality(old \cap entries) \in Nat /\ Cardinality(old \cup entries) \in Nat
    BY <1>4, <1>7, <2>1, FS_Intersection, FS_CardinalityType
  <2> HIDE DEF old
  <2>3. pq' = old \cup entries
    BY <1>2 DEF old
  <2>4. Cardinality(old) = Cardinality(pq) - 1
    BY <1>7 DEF old
  <2> QED
    BY <1>3, <1>4, <1>7, <2>1, <2>2, <2>3, <2>4
<1>9. Cardinality(Cells \ DOMAIN best') = Cardinality(unknown) - Cardinality(new)
  BY <1>5, <1>6
<1>10. 2 * Cardinality(Cells \ DOMAIN best') + Cardinality(pq') + 1
          <= 2 * Cardinality(unknown) + Cardinality(pq)
  BY <1>3, <1>6, <1>7, <1>8, <1>9
<1> QED
  BY <1>8, <1>10 DEF unknown

LEMMA FiniteKept ==
    ASSUME InductiveInvariant, InductiveInvariant', Finite, [Next]_vars
    PROVE  Finite'
<1>1. CASE TooFar
  BY <1>1 DEF TooFar, Finite
<1>2. CASE Start
  BY <1>2, FS_Singleton DEF Start, Finite
<1>3. CASE Search
  <2>1. PICK e \in pq : /\ Cheapest(e) /\ at = "search"
                        /\ \/ pq' = pq \ {e}
                           \/ e.pos # target /\ Visit(e)
    BY <1>3 DEF Search
  <2>2. at' # "compare"
    BY <1>3 DEF Search
  <2>3. CASE pq' = pq \ {e}
    BY <2>2, <2>3, FS_RemoveElement DEF Finite
  <2>4. CASE e.pos # target /\ Visit(e)
    BY <2>1, <2>2, <2>4, NewCells DEF Finite
  <2> QED
    BY <2>1, <2>3, <2>4
<1>4. CASE GiveUp
  BY <1>4 DEF GiveUp, Finite, InductiveInvariant, Tree
<1>5. CASE Compare
  BY <1>5 DEF Compare, Finite, First
<1>6. CASE WalkBack
  BY <1>6 DEF WalkBack, Finite
<1>7. CASE UNCHANGED vars
  BY <1>7 DEF vars, Finite
<1> QED
  BY <1>1, <1>2, <1>3, <1>4, <1>5, <1>6, <1>7 DEF Next

LEMMA FiniteAlways == Spec => [](InductiveInvariant /\ Finite)
<1>1. Init => InductiveInvariant /\ Finite
  BY InitHolds, FS_EmptySet DEF Init, Finite
<1>2. Spec => []InductiveInvariant
  BY Invariance
<1>3. InductiveInvariant /\ InductiveInvariant' /\ Finite /\ [Next]_vars => Finite'
  BY FiniteKept
<1> QED
  BY <1>1, <1>2, <1>3, PTL DEF Spec

LEMMA LeftIsNat ==
    ASSUME InductiveInvariant, Finite
    PROVE  LeftToDo \in Nat
<1>1. DOMAIN best \in SUBSET Cells
  BY DEF InductiveInvariant, Tree
<1>2. IsFiniteSet(Cells \ DOMAIN best) /\ IsFiniteSet(DOMAIN best)
  BY <1>1, MapAssumption, FS_Difference, FS_Subset
<1>3. Cardinality(Cells \ DOMAIN best) \in Nat /\ Cardinality(pq) \in Nat
  BY <1>2, FS_CardinalityType DEF Finite
<1>4. at = "compare" => Cardinality(rest) \in Nat
  BY <1>2, FS_Subset, FS_CardinalityType DEF InductiveInvariant, Comparison
<1>5. turn \in Nat /\ (path # <<>> => reached[path[1]] \in Nat)
  BY DEF InductiveInvariant, Tree, Walk
<1> QED
  BY <1>3, <1>4, <1>5 DEF LeftToDo

\* The search never loops: each iteration of each loop passes on to a later
\* loop or leaves less to do in this one, a natural number -- for any map, any
\* range and whoever stands in the way.
THEOREM FindPathProgresses == Spec => [][Progresses]_vars
<1>1. ASSUME InductiveInvariant, InductiveInvariant', Finite, Finite', Next
      PROVE  Progresses
  <2>1. CASE TooFar \/ Start
    BY <2>1 DEF TooFar, Start, Progresses, Order
  <2>2. CASE Search
    <3>1. PICK e \in pq :
            /\ Cheapest(e) /\ at = "search"
            /\ \/ pq' = pq \ {e} /\ best' = best /\ at' \in {"search", "walk"}
               \/ e.pos # target /\ Visit(e) /\ at' = "search"
      BY <2>2 DEF Search, maps
    <3>2. CASE at' = "walk"
      BY <3>1, <3>2 DEF Progresses, Order
    <3>3. LeftToDo = 2 * Cardinality(Cells \ DOMAIN best) + Cardinality(pq)
      BY <3>1 DEF LeftToDo
    <3>4. at' = "search" =>
             LeftToDo' = 2 * Cardinality(Cells \ DOMAIN best') + Cardinality(pq')
      BY DEF LeftToDo
    <3>5. LeftToDo \in Nat /\ LeftToDo' \in Nat
      <4>1. (InductiveInvariant /\ Finite => LeftToDo \in Nat)'
        BY LeftIsNat, PTL
      <4> QED
        BY <1>1, <4>1, LeftIsNat
    <3>6. CASE e.pos # target /\ Visit(e) /\ at' = "search"
      <4>1. 2 * Cardinality(Cells \ DOMAIN best') + Cardinality(pq') + 1
               <= 2 * Cardinality(Cells \ DOMAIN best) + Cardinality(pq)
        BY <1>1, <3>1, <3>6, NewCells DEF Finite
      <4>2. LeftToDo' + 1 <= LeftToDo
        BY <3>3, <3>4, <3>6, <4>1
      <4> QED
        <5>1. \A m, n \in Nat : m + 1 <= n => m < n
          OBVIOUS
        <5>2. LeftToDo' < LeftToDo
          BY <3>5, <4>2, <5>1
        <5> QED
          BY <3>1, <3>6, <5>2 DEF Progresses
    <3>7. CASE pq' = pq \ {e} /\ best' = best /\ at' = "search"
      <4>1. Cardinality(pq') = Cardinality(pq) - 1 /\ Cardinality(pq) \in Nat
        BY <1>1, <3>7, FS_RemoveElement, FS_CardinalityType DEF Finite
      <4>2. Cardinality(Cells \ DOMAIN best) \in Nat
        BY MapAssumption, FS_Difference, FS_CardinalityType
      <4> QED
        BY <3>1, <3>3, <3>4, <3>7, <4>1, <4>2 DEF Progresses
    <3> QED
      BY <3>1, <3>2, <3>6, <3>7
  <2>3. CASE GiveUp
    BY <2>3 DEF GiveUp, Progresses, Order
  <2>4. CASE Compare
    <3>1. PICK c \in rest : rest' = rest \ {c} /\ at = "compare" /\ at' \in {"compare", "walk"}
      BY <2>4 DEF Compare
    <3>2. CASE at' = "walk"
      BY <3>1, <3>2 DEF Progresses, Order
    <3>3. CASE at' = "compare"
      <4>1. DOMAIN best \in SUBSET Cells /\ rest \in SUBSET DOMAIN best
        BY <1>1, <3>1 DEF InductiveInvariant, Tree, Comparison
      <4>2. IsFiniteSet(rest)
        BY <4>1, MapAssumption, FS_Subset
      <4>3. Cardinality(rest') = Cardinality(rest) - 1 /\ Cardinality(rest) \in Nat
        BY <3>1, <4>2, FS_RemoveElement, FS_CardinalityType
      <4> QED
        BY <3>1, <3>3, <4>3 DEF Progresses, LeftToDo
    <3> QED
      BY <3>1, <3>2, <3>3
  <2>5. CASE WalkBack
    <3> PICK pos : pos = IF path = <<>> THEN dest ELSE parent[path[1]]
      OBVIOUS
    <3>1. /\ at = "walk" /\ path' = <<pos>> \o path /\ UNCHANGED <<maps>>
          /\ at' = IF pos = parent[pos] THEN "found" ELSE at
      BY <2>5 DEF WalkBack, maps
    <3>2. CASE at' = "found"
      BY <3>1, <3>2 DEF Progresses, Order
    <3>3. CASE at' = "walk"
      <4>1. path \in Seq(DOMAIN best) /\ dest \in DOMAIN best
        BY <1>1, <3>1 DEF InductiveInvariant, Walk, Comparison
      <4>2. pos \in DOMAIN best
        BY <1>1, <4>1 DEF InductiveInvariant, Tree
      <4>3. path' # <<>> /\ path'[1] = pos
        BY <3>1, <4>1, <4>2
      <4>4. LeftToDo' = reached[pos]
        BY <3>1, <3>3, <4>3 DEF LeftToDo, maps
      <4>5. CASE path = <<>>
        BY <1>1, <3>1, <3>3, <4>2, <4>4, <4>5
           DEF InductiveInvariant, Tree, Progresses, LeftToDo
      <4>6. CASE path # <<>>
        <5>1. path[1] \in DOMAIN best /\ pos = parent[path[1]] /\ pos # path[1]
          BY <1>1, <3>1, <4>1, <4>6 DEF InductiveInvariant, Walk
        <5>2. reached[pos] < reached[path[1]]
          BY <1>1, <3>1, <5>1 DEF InductiveInvariant, Tree
        <5> QED
          BY <3>1, <3>3, <4>4, <4>6, <5>2 DEF Progresses, LeftToDo
      <4> QED
        BY <4>5, <4>6
    <3> QED
      BY <3>1, <3>2, <3>3
  <2> QED
    BY <1>1, <2>1, <2>2, <2>3, <2>4, <2>5 DEF Next
<1>2. InductiveInvariant /\ InductiveInvariant' /\ Finite /\ Finite' /\ [Next]_vars
         => [Progresses]_vars
  BY <1>1
<1> QED
  BY <1>2, FiniteAlways, PTL DEF Spec

\* A search that has not ended has a step to take, which finds what it looks
\* up: with FindPathProgresses, that the function returns.  What is left to
\* fairness is that the thread takes its steps.
THEOREM FindPathGoesOn == Spec => []GoesOn
<1>1. ASSUME InductiveInvariant, Finite, at = "search", pq # {}
      PROVE  \E e \in pq : Cheapest(e) /\ e.pos \in DOMAIN best
  <2> DEFINE R == {p \in pq \X pq : p[1].cost <= p[2].cost}
  <2>1. \A e \in pq : e.pos \in DOMAIN best /\ e.cost \in Nat
    <3> TAKE e \in pq
    <3>1. e = Entry(e.pos) /\ e.pos \in DOMAIN best /\ e.pos \in Cells
      BY <1>1 DEF InductiveInvariant, Frontier, Tree
    <3> PICK c : c = e.pos
      OBVIOUS
    <3>2. Entry(c).cost = Cost(c)
      BY DEF Entry
    <3> QED
      BY <1>1, <3>1, <3>2, CostIsNat
  <2>2. \A e, f \in pq : <<e, f>> \in R <=> e.cost <= f.cost
    OBVIOUS
  <2> HIDE DEF R
  <2>3. \A e, f \in pq : <<e, f>> \in R \/ <<f, e>> \in R
    <3> TAKE e, f \in pq
    <3>1. e.cost <= f.cost \/ f.cost <= e.cost
      BY <2>1
    <3> QED
      BY <2>2, <3>1
  <2>4. \A e, f, g \in pq : <<e, f>> \in R /\ <<f, g>> \in R => <<e, g>> \in R
    BY <2>1, <2>2
  <2>5. PICK e \in pq : \A f \in pq : <<e, f>> \in R
    BY <1>1, <2>3, <2>4, LeastMember DEF Finite
  <2> QED
    BY <2>1, <2>2, <2>5 DEF Cheapest
<1>2. ASSUME InductiveInvariant, Finite, at = "compare"
      PROVE  \E c \in rest : First(c, rest) /\ c \in DOMAIN best
  <2> DEFINE R == {p \in rest \X rest : Before(p[1], p[2])}
  <2>1. rest \subseteq DOMAIN best /\ rest \subseteq Cells
    BY <1>2 DEF InductiveInvariant, Comparison, Tree
  <2>2. \A c, d \in rest : <<c, d>> \in R <=> Before(c, d)
    OBVIOUS
  <2> HIDE DEF R
  <2>3. rest \subseteq Int \X Int
    BY <2>1, CellsAssumption
  <2>4. \A c, d \in rest : <<c, d>> \in R \/ <<d, c>> \in R
    <3> TAKE c, d \in rest
    <3>1. Before(c, d) \/ Before(d, c)
      BY <2>3 DEF Before
    <3> QED
      BY <2>2, <3>1
  <2>5. \A b, c, d \in rest : <<b, c>> \in R /\ <<c, d>> \in R => <<b, d>> \in R
    BY <2>2, <2>3 DEF Before
  <2>6. IsFiniteSet(rest) /\ rest # {}
    BY <1>2, <2>1, MapAssumption, FS_Subset DEF Finite
  <2>7. PICK c \in rest : \A d \in rest : <<c, d>> \in R
    BY <2>4, <2>5, <2>6, LeastMember
  <2> QED
    BY <2>1, <2>2, <2>7 DEF First
<1>3. ASSUME InductiveInvariant, at = "walk"
      PROVE  /\ dest \in DOMAIN parent
             /\ path # <<>> => /\ path[1] \in DOMAIN parent
                               /\ parent[path[1]] \in DOMAIN parent
  <2>1. DOMAIN parent = DOMAIN best /\ \A c \in DOMAIN best : parent[c] \in DOMAIN best
    BY <1>3 DEF InductiveInvariant, Tree
  <2>2. dest \in DOMAIN best /\ path \in Seq(DOMAIN best)
    BY <1>3 DEF InductiveInvariant, Comparison, Walk
  <2>3. path # <<>> => path[1] \in DOMAIN best
    BY <2>2
  <2> QED
    BY <2>1, <2>2, <2>3
<1>4. InductiveInvariant /\ Finite => GoesOn
  BY <1>1, <1>2, <1>3 DEF GoesOn
<1> QED
  BY <1>4, FiniteAlways, PTL
=============================================================================
