------------------------------ MODULE FindPath ------------------------------
(***************************************************************************)
(* GameRoom::FindPath, the search with which a monster follows a player,   *)
(* one iteration of its loops per step: the greedy search for the target,  *)
(* the choice of another end if there is no way, and the walk back along   *)
(* the parents.  DevScene::FindPath of the client is the same code.        *)
(* Who stands where does not change during a search.  The queue is a set:  *)
(* an entry pushed twice would be handled a second time to no effect.      *)
(***************************************************************************)
EXTENDS Tilemap, Sequences, FiniteSets

CONSTANT MaxDepth    \* maxDepth: how far from src the search looks, 10

ASSUME DepthAssumption == MaxDepth \in Nat \ {0}

\* The map is read from a file: rows and columns of tiles.
ASSUME MapAssumption == IsFiniteSet(Cells)

VARIABLES
    src, target,     \* the arguments
    free,            \* the cells CanGo says yes to
    at,              \* the loop that is running
    pq,              \* the queue: records of a cell and its cost
    best, parent,    \* the two maps, on the cells seen so far
    dest,            \* where the path will end: target, or what replaces it
    rest, bestScore, \* the cells of best still to compare, the best score
    path,            \* the path from where the walk back has come to
    turn, reached    \* history: the turn each cell was first seen in

arguments == <<src, target, free>>
maps == <<best, parent, reached, turn>>
vars == <<arguments, at, pq, maps, dest, rest, bestScore, path>>

NoScore == -1        \* FLT_MAX

-----------------------------------------------------------------------------

\* The monster stands at src, so src is not free; the target may be.
Init ==
    /\ src \in Cells /\ target \in Cells
    /\ free \in SUBSET (Cells \ (Walls \cup {src}))
    /\ at = "start"
    /\ pq = {} /\ best = [c \in {} |-> 0] /\ parent = [c \in {} |-> c]
    /\ dest = target /\ rest = {} /\ bestScore = NoScore /\ path = <<>>
    /\ turn = 0 /\ reached = [c \in {} |-> 0]

\* How far a cell is from the target is the cost of being there.
Cost(c) == Distance(target, c)
Entry(c) == [pos |-> c, cost |-> Cost(c)]

InRange(c) == Distance(src, c) < MaxDepth

\* A target too far away is not looked for.
TooFar ==
    /\ at = "start" /\ ~InRange(target)
    /\ at' = "refused"
    /\ UNCHANGED <<arguments, pq, maps, dest, rest, bestScore, path>>

Start ==
    /\ at = "start" /\ InRange(target)
    /\ at' = "search"
    /\ pq' = {Entry(src)}
    /\ best' = [c \in {src} |-> Cost(src)]
    /\ parent' = [c \in {src} |-> src]
    /\ reached' = [c \in {src} |-> turn]
    /\ turn' = turn + 1
    /\ UNCHANGED <<arguments, dest, rest, bestScore, path>>

Neighbours(c) == {Ahead(c, dir) : dir \in Dirs}

\* (mutant) A cell is entered however good a way to it is known.
AlwaysBetter(c) == c \in free /\ InRange(c)

\* A neighbour is entered unless it is known with a cost that is no worse;
\* 0 is what best[c] is for a cell that is not known.
Better(c) ==
    /\ c \in free /\ InRange(c)
    /\ c \in DOMAIN best /\ best[c] # 0 => best[c] > Cost(c)

Entered(pos) == {c \in Neighbours(pos) : Better(c)}

\* The maps after the cells in new were entered with the given parent.
Enter(new, from) ==
    LET known == DOMAIN best \cup new
        unseen == new \ DOMAIN best
    IN  /\ best' = [c \in known |-> IF c \in new THEN Cost(c) ELSE best[c]]
        /\ parent' = [c \in known |-> IF c \in new THEN from ELSE parent[c]]
        /\ reached' = [c \in known |-> IF c \in unseen THEN turn ELSE reached[c]]
        /\ turn' = IF unseen = {} THEN turn ELSE turn + 1

\* (mutant) The neighbours are given the source as their parent.
VisitFromSource(e) ==
    /\ Enter(Entered(e.pos), src)
    /\ pq' = (pq \ {e}) \cup {Entry(c) : c \in Entered(e.pos)}

\* The four neighbours of a cell, in whatever order.
Visit(e) ==
    /\ Enter(Entered(e.pos), e.pos)
    /\ pq' = (pq \ {e}) \cup {Entry(c) : c \in Entered(e.pos)}

Cheapest(e) == e \in pq /\ \A f \in pq : e.cost <= f.cost

\* The cheapest entry is taken from the queue: an outdated one is skipped,
\* one at the target ends the search.
Search ==
    /\ at = "search" /\ pq # {}
    /\ \E e \in pq :
          /\ Cheapest(e)
          /\ \/ /\ best[e.pos] < e.cost
                /\ pq' = pq \ {e} /\ UNCHANGED <<at, maps>>
             \/ /\ best[e.pos] >= e.cost /\ e.pos = target
                /\ pq' = pq \ {e} /\ at' = "walk" /\ UNCHANGED maps
             \/ /\ best[e.pos] >= e.cost /\ e.pos # target
                /\ Visit(e) /\ UNCHANGED at
    /\ UNCHANGED <<arguments, dest, rest, bestScore, path>>

\* The target was not found: the cells of best are compared.
GiveUp ==
    /\ at = "search" /\ pq = {}
    /\ at' = "compare" /\ rest' = DOMAIN best
    /\ UNCHANGED <<arguments, pq, maps, dest, bestScore, path>>

\* VectorInt::operator<, the order in which a map is gone through.
Before(c, d) == c[1] < d[1] \/ (c[1] = d[1] /\ c[2] <= d[2])
First(c, cells) == c \in cells /\ \A d \in cells : Before(c, d)

\* (mutant) The last of the best cells wins, not the one closest to src.
PreferableOnTie(c) == bestScore = NoScore \/ best[c] <= bestScore

\* A lower score wins; among equals, what is closer to src.
Preferable(c) ==
    \/ bestScore = NoScore \/ best[c] < bestScore
    \/ best[c] = bestScore /\ Distance(dest, src) > Distance(c, src)

Compare ==
    /\ at = "compare"
    /\ \E c \in rest :
          /\ First(c, rest)
          /\ dest' = IF Preferable(c) THEN c ELSE dest
          /\ bestScore' = IF Preferable(c) THEN best[c] ELSE bestScore
          /\ rest' = rest \ {c}
          /\ at' = IF rest = {c} THEN "walk" ELSE at
    /\ UNCHANGED <<arguments, pq, maps, path>>

\* From the end along the parents to the cell that is its own parent; the
\* path, reversed when the walk ends, is written from its end here.
WalkBack ==
    /\ at = "walk"
    /\ LET pos == IF path = <<>> THEN dest ELSE parent[path[1]]
       IN  /\ path' = <<pos>> \o path
           /\ at' = IF pos = parent[pos] THEN "found" ELSE at
    /\ UNCHANGED <<arguments, pq, maps, dest, rest, bestScore, turn>>

Next == TooFar \/ Start \/ Search \/ GiveUp \/ Compare \/ WalkBack

Spec == Init /\ [][Next]_vars

\* One thread runs the search and waits for nothing.
FairSpec == Spec /\ WF_vars(Next)

-----------------------------------------------------------------------------

Entries == [pos : Cells, cost : Nat]

\* The maps know the same cells, which are cells of the map.
TypeOK ==
    /\ src \in Cells /\ target \in Cells /\ free \subseteq Cells
    /\ at \in {"start", "refused", "search", "compare", "walk", "found"}
    /\ DOMAIN best \subseteq Cells /\ DOMAIN parent = DOMAIN best
    /\ best \in [DOMAIN best -> Nat] /\ parent \in [DOMAIN best -> DOMAIN best]
    /\ reached \in [DOMAIN best -> Nat] /\ turn \in Nat
    /\ pq \subseteq Entries /\ \A e \in pq : e.pos \in DOMAIN best
    /\ dest \in Cells /\ rest \subseteq DOMAIN best
    /\ bestScore \in Nat \cup {NoScore}
    /\ path \in Seq(DOMAIN best)

\* A set of cells that the search cannot leave.
Closed(cells) ==
    \A c \in cells : \A n \in Neighbours(c) :
        n \in free /\ InRange(n) => n \in cells

\* What can be reached from src, said without a search: what is in every
\* set with src that is closed.
Reachable(c) ==
    \A cells \in SUBSET (free \cup {src}) : src \in cells /\ Closed(cells) => c \in cells

\* The path leads from src, step by step over free cells in range, to its
\* end, and enters no cell twice.
PathWalks ==
    at = "found" =>
        /\ path # <<>> /\ path[1] = src /\ path[Len(path)] = dest
        /\ \A i \in 2..Len(path) :
              /\ path[i] \in free /\ InRange(path[i])
              /\ path[i] \in Neighbours(path[i - 1])
        /\ \A i, j \in 1..Len(path) : path[i] = path[j] => i = j

\* The end of the path is reachable, no reachable cell is nearer to the
\* target, and of those that are as near none is closer to src.
EndsNearest ==
    at = "found" =>
        /\ Reachable(dest)
        /\ \A c \in Cells : Reachable(c) =>
              \/ Cost(dest) < Cost(c)
              \/ Cost(dest) = Cost(c) /\ Distance(dest, src) <= Distance(c, src)

\* The search ends: no cell is entered for ever, and the parents form no
\* cycle.
Terminates == <>(at \in {"refused", "found"})
=============================================================================
