-------------------------- MODULE ServerLoop_proofs --------------------------
(***************************************************************************)
(* Proofs about the pool of workers and the sessions it dispatches, for    *)
(* any number of workers, accept events and sessions.                      *)
(***************************************************************************)
EXTENDS ServerLoop, SessionLifecycle_proofs, FiniteSetTheorems

Waiting == {w \in threads : loop[w] = "wait"}

\* Where the completion c stands in the queue q.
Where(q, c) == {i \in DOMAIN q : q[i] = c}

\* A pool that is not running has no workers, and one that stops says so.
PoolShapes ==
    /\ PoolTypeOK
    /\ threads = {} => \A w \in Pool : loop[w] = "ended"
    /\ control = "post" => stopFlag

\* An event is in the port or with a worker, and only once.
OnePlace ==
    /\ \A i, j \in DOMAIN port : port[i] = port[j] /\ port[i] # Null => i = j
    /\ \A i \in DOMAIN port, w \in Pool : taken[w] = port[i] => port[i] = Null
    /\ \A v, w \in Pool : taken[v] = taken[w] /\ taken[v] # Null => v = w

PoolInvariant == PoolShapes /\ OnePlace /\ PoolKeepsItsWorkers /\ NullsSuffice

-----------------------------------------------------------------------------
(* Queues and sets *)

LEMMA WhereIsFinite ==
    ASSUME NEW S, NEW q \in Seq(S), NEW c
    PROVE  IsFiniteSet(Where(q, c)) /\ Cardinality(Where(q, c)) \in Nat
<1>1. Where(q, c) \subseteq 1..Len(q) /\ Len(q) \in Int
  BY DEF Where
<1>2. IsFiniteSet(1..Len(q))
  BY <1>1, FS_Interval
<1> QED
  BY <1>1, <1>2, FS_Subset, FS_CardinalityType

LEMMA CountAppended ==
    ASSUME NEW S, NEW q \in Seq(S), NEW x \in S, NEW c
    PROVE  Cardinality(Where(Append(q, x), c))
             = IF x = c THEN Cardinality(Where(q, c)) + 1 ELSE Cardinality(Where(q, c))
<1>1. /\ Append(q, x) \in Seq(S) /\ Len(Append(q, x)) = Len(q) + 1 /\ Len(q) \in Nat
      /\ \A i \in 1..Len(q) : Append(q, x)[i] = q[i]
      /\ Append(q, x)[Len(q) + 1] = x
  OBVIOUS
<1>2. DOMAIN q = 1..Len(q) /\ DOMAIN Append(q, x) = 1..(Len(q) + 1)
  BY <1>1
<1>3. Len(q) + 1 \notin Where(q, c)
  BY <1>1, <1>2 DEF Where
<1>4. CASE x = c
  <2>1. Where(Append(q, x), c) = Where(q, c) \cup {Len(q) + 1}
    BY <1>1, <1>2, <1>4 DEF Where
  <2> QED
    BY <2>1, <1>3, <1>4, WhereIsFinite, FS_AddElement
<1>5. CASE x # c
  <2>1. Where(Append(q, x), c) = Where(q, c)
    BY <1>1, <1>2, <1>5 DEF Where
  <2> QED
    BY <2>1, <1>5
<1> QED
  BY <1>4, <1>5

LEMMA CountBehind ==
    ASSUME NEW S, NEW q \in Seq(S), q # <<>>, NEW c
    PROVE  Cardinality(Where(Tail(q), c))
             = IF Head(q) = c THEN Cardinality(Where(q, c)) - 1 ELSE Cardinality(Where(q, c))
<1> DEFINE rest == Where(q, c) \ {1}
           f == [i \in rest |-> i - 1]
<1>1. /\ Tail(q) \in Seq(S) /\ Len(Tail(q)) = Len(q) - 1 /\ Len(q) \in Nat /\ Len(q) > 0
      /\ \A i \in 1..(Len(q) - 1) : Tail(q)[i] = q[i + 1]
      /\ Head(q) = q[1]
  OBVIOUS
<1>2. DOMAIN q = 1..Len(q) /\ DOMAIN Tail(q) = 1..(Len(q) - 1)
  BY <1>1
<1>3. \A i : i \in Where(Tail(q), c) <=> i \in 1..(Len(q) - 1) /\ q[i + 1] = c
  BY <1>1, <1>2 DEF Where
<1>4. \A i : i \in rest <=> i \in 2..Len(q) /\ q[i] = c
  BY <1>1, <1>2 DEF Where
<1>5. f \in Bijection(rest, Where(Tail(q), c))
  <2>1. \A i \in rest : i - 1 \in Where(Tail(q), c)
    BY <1>1, <1>3, <1>4
  <2>2. \A i, j \in rest : i - 1 = j - 1 => i = j
    BY <1>4
  <2>3. \A k \in Where(Tail(q), c) : k + 1 \in rest /\ (k + 1) - 1 = k
    BY <1>1, <1>3, <1>4
  <2>4. f \in Injection(rest, Where(Tail(q), c))
    BY <2>1, <2>2 DEF Injection, IsInjective
  <2>5. f \in Surjection(rest, Where(Tail(q), c))
    BY <2>1, <2>3 DEF Surjection
  <2> QED
    BY <2>4, <2>5 DEF Bijection
<1>6. IsFiniteSet(Where(q, c)) /\ Cardinality(Where(q, c)) \in Nat
  BY WhereIsFinite
<1>7. /\ IsFiniteSet(rest)
      /\ Cardinality(rest) = IF 1 \in Where(q, c) THEN Cardinality(Where(q, c)) - 1
                                                  ELSE Cardinality(Where(q, c))
  BY <1>6, FS_RemoveElement
<1>8. Cardinality(Where(Tail(q), c)) = Cardinality(rest)
  BY <1>5, <1>7, FS_Bijection DEF ExistsBijection
<1>9. 1 \in Where(q, c) <=> Head(q) = c
  BY <1>1, <1>2 DEF Where
<1> HIDE DEF rest
<1> QED
  BY <1>7, <1>8, <1>9

LEMMA NullsAreCounted ==
    ASSUME PoolShapes
    PROVE  Nulls = Cardinality(Where(port, Null)) /\ Nulls \in Nat
<1>1. port \in Seq(Events \cup {Null})
  BY DEF PoolShapes, PoolTypeOK
<1>2. Nulls = Cardinality(Where(port, Null))
  BY DEF Nulls, Where
<1> QED
  BY <1>1, <1>2, WhereIsFinite

LEMMA PoolIsFinite ==
    ASSUME PoolShapes
    PROVE  /\ \A w : IsFiniteSet(Ended \cup {w}) /\ IsFiniteSet(Waiting \ {w})
           /\ IsFiniteSet(Ended) /\ IsFiniteSet(Waiting) /\ IsFiniteSet(threads)
           /\ Cardinality(Ended) \in Nat /\ Cardinality(Waiting) \in Nat
           /\ Cardinality(Waiting) <= Cardinality(threads)
           /\ Cardinality(threads) \in Nat /\ Cardinality(Pool) \in Nat
           /\ Cardinality(threads) <= Cardinality(Pool)
<1>1. /\ threads \subseteq Pool /\ Ended \subseteq threads /\ Waiting \subseteq threads
      /\ threads \in {{}, Pool}
  BY DEF PoolShapes, PoolTypeOK, Ended, Waiting
<1>2. IsFiniteSet(threads) /\ IsFiniteSet(Pool)
  BY <1>1, PoolAssumption, FS_Subset
<1>3. IsFiniteSet(Ended) /\ IsFiniteSet(Waiting) /\ Cardinality(Waiting) <= Cardinality(threads)
  BY <1>1, <1>2, FS_Subset
<1>4. Cardinality(threads) <= Cardinality(Pool)
  BY <1>1, <1>2, FS_Subset
<1>5. \A w : IsFiniteSet(Ended \cup {w}) /\ IsFiniteSet(Waiting \ {w})
  BY <1>3, FS_AddElement, FS_RemoveElement
<1>6. /\ Cardinality(Ended) \in Nat /\ Cardinality(Waiting) \in Nat
      /\ Cardinality(threads) \in Nat /\ Cardinality(Pool) \in Nat
  BY <1>2, <1>3, FS_CardinalityType
<1> QED
  BY <1>2, <1>3, <1>4, <1>5, <1>6

-----------------------------------------------------------------------------
(* The steps of the pool *)

LEMMA ControlKeepsPool ==
    ASSUME PoolInvariant, Control
    PROVE  PoolInvariant'
<1>0. /\ PoolShapes /\ OnePlace /\ PoolKeepsItsWorkers /\ NullsSuffice
      /\ PoolTypeOK /\ Nulls \in Nat
  BY NullsAreCounted DEF PoolInvariant, PoolShapes
<1>1. CASE StartWorkerThreads
  <2>1. /\ control = "idle" /\ threads = {} /\ starts < MaxStarts
        /\ stopFlag' = FALSE /\ threads' = Pool /\ loop' = [w \in Pool |-> "test"]
        /\ starts' = starts + 1 /\ stale' = Nulls
        /\ control' = control /\ toPost' = toPost /\ port' = port /\ taken' = taken
    BY <1>1 DEF StartWorkerThreads
  <2>2. \A w \in Pool : taken[w] = Null
    BY <1>0, <2>1 DEF PoolShapes, PoolTypeOK
  <2>3. PoolTypeOK'
    <3>1. loop' \in [Pool -> LoopPlaces] /\ \A w \in Pool : loop'[w] = "test"
      BY <2>1 DEF LoopPlaces
    <3>2. starts' \in 0..MaxStarts /\ stale' \in Nat
      BY <1>0, <2>1, PoolAssumption DEF PoolTypeOK
    <3> QED
      BY <1>0, <2>1, <2>2, <3>1, <3>2 DEF PoolTypeOK
  <2>4. PoolShapes'
    BY <1>0, <2>1, <2>3, PoolAssumption DEF PoolShapes
  <2>5. Nulls' = Nulls /\ Ended' = {} /\ Cardinality({}) = 0
    BY <2>1, FS_EmptySet DEF Nulls, Ended
  <2>6. PoolKeepsItsWorkers'
    BY <2>1, <2>5, <1>0 DEF PoolKeepsItsWorkers
  <2>7. OnePlace' /\ NullsSuffice'
    BY <1>0, <2>1 DEF OnePlace, NullsSuffice
  <2> QED
    BY <2>4, <2>6, <2>7 DEF PoolInvariant
<1>2. CASE StopWorkerThreads
  <2>1. /\ control = "idle" /\ threads # {}
        /\ stopFlag' = TRUE /\ toPost' = Cardinality(threads) /\ control' = "post"
        /\ threads' = threads /\ port' = port /\ loop' = loop /\ taken' = taken
        /\ starts' = starts /\ stale' = stale
    BY <1>2 DEF StopWorkerThreads, PostToAll
  <2>2. PoolTypeOK'
    BY <1>0, <2>1, PoolIsFinite DEF PoolTypeOK
  <2>3. PoolShapes' /\ PoolKeepsItsWorkers'
    BY <1>0, <2>1, <2>2 DEF PoolShapes, PoolKeepsItsWorkers
  <2>4. Waiting' = Waiting /\ Nulls' = Nulls
    BY <2>1 DEF Waiting, Nulls
  <2>5. NullsSuffice'
    BY <1>0, <2>1, <2>4, PoolIsFinite DEF NullsSuffice, Waiting
  <2>6. OnePlace'
    BY <1>0, <2>1 DEF OnePlace
  <2> QED
    BY <2>3, <2>5, <2>6 DEF PoolInvariant
<1>3. CASE PostNull
  <2>1. /\ control = "post" /\ toPost > 0
        /\ port' = Append(port, Null) /\ toPost' = toPost - 1
        /\ stopFlag' = stopFlag /\ threads' = threads /\ control' = control
        /\ loop' = loop /\ taken' = taken /\ starts' = starts /\ stale' = stale
    BY <1>3 DEF PostNull
  <2>2. /\ port \in Seq(Events \cup {Null}) /\ toPost \in Nat /\ toPost <= Cardinality(Pool)
        /\ Cardinality(Pool) \in Nat
    BY <1>0, PoolIsFinite DEF PoolTypeOK
  <2>3. PoolTypeOK'
    <3>1. port' \in Seq(Events \cup {Null}) /\ toPost' \in 0..Cardinality(Pool)
      BY <2>1, <2>2
    <3> QED
      BY <3>1, <2>1, <1>0 DEF PoolTypeOK
  <2>4. PoolShapes' /\ stopFlag
    BY <1>0, <2>1, <2>3 DEF PoolShapes
  <2>5. PoolKeepsItsWorkers'
    BY <2>1, <2>4 DEF PoolKeepsItsWorkers
  <2>6. Nulls' = Nulls + 1
    <3>1. Nulls' = Cardinality(Where(port', Null))
      BY DEF Nulls, Where
    <3> QED
      BY <3>1, <2>1, <2>2, <1>0, CountAppended, NullsAreCounted
  <2>7. Waiting' = Waiting /\ Cardinality(Waiting) \in Nat
    BY <2>1, <1>0, PoolIsFinite DEF Waiting
  <2>8. NullsSuffice'
    BY <1>0, <2>1, <2>2, <2>6, <2>7 DEF NullsSuffice, Waiting
  <2>9. OnePlace'
    <3>1. /\ DOMAIN port' = 1..(Len(port) + 1) /\ DOMAIN port = 1..Len(port)
          /\ \A i \in DOMAIN port : port'[i] = port[i]
          /\ port'[Len(port) + 1] = Null /\ Len(port) \in Nat
      BY <2>1, <2>2
    <3>2. \A i \in DOMAIN port' : i \in DOMAIN port \/ port'[i] = Null
      BY <3>1
    <3> QED
      BY <3>1, <3>2, <2>1, <1>0 DEF OnePlace
  <2> QED
    BY <2>4, <2>5, <2>8, <2>9 DEF PoolInvariant
<1>4. CASE Join
  <2>1. /\ control = "post" /\ Ended = threads /\ threads' = {} /\ control' = "idle"
        /\ stopFlag' = stopFlag /\ toPost' = toPost /\ port' = port /\ loop' = loop
        /\ taken' = taken /\ starts' = starts /\ stale' = stale
    BY <1>4 DEF Join
  <2>2. \A w \in Pool : loop[w] = "ended"
    BY <1>0, <2>1 DEF PoolShapes, PoolTypeOK, Ended
  <2>3. PoolTypeOK'
    BY <1>0, <2>1 DEF PoolTypeOK
  <2>4. PoolShapes' /\ PoolKeepsItsWorkers' /\ NullsSuffice' /\ OnePlace'
    BY <1>0, <2>1, <2>2, <2>3 DEF PoolShapes, PoolKeepsItsWorkers, NullsSuffice, OnePlace
  <2> QED
    BY <2>4 DEF PoolInvariant
<1> QED
  BY <1>1, <1>2, <1>3, <1>4 DEF Control

\* A worker at its test, and one whose handler begins.
LEMMA LoopingKeepsPool ==
    ASSUME PoolInvariant, NEW w \in Pool, Test(w) \/ Dispatch(w)
    PROVE  PoolInvariant'
<1>0. /\ PoolShapes /\ OnePlace /\ PoolKeepsItsWorkers /\ NullsSuffice
      /\ PoolTypeOK /\ Nulls \in Nat
  BY NullsAreCounted DEF PoolInvariant, PoolShapes
<1>1. /\ stopFlag' = stopFlag /\ threads' = threads /\ control' = control
      /\ toPost' = toPost /\ port' = port /\ starts' = starts /\ stale' = stale
  BY DEF Test, Dispatch
<1>2. /\ loop \in [Pool -> LoopPlaces] /\ taken \in [Pool -> Events \cup {Null}]
      /\ threads \in {{}, Pool}
      /\ \A v \in Pool : loop[v] = "dispatch" <=> taken[v] # Null
  BY <1>0 DEF PoolTypeOK
<1>3. /\ loop' \in [Pool -> LoopPlaces] /\ taken' \in [Pool -> Events \cup {Null}]
      /\ \A v \in Pool : v # w => loop'[v] = loop[v] /\ taken'[v] = taken[v]
      /\ \/ /\ loop[w] = "test" /\ taken'[w] = taken[w]
            /\ loop'[w] = IF stopFlag THEN "ended" ELSE "wait"
         \/ loop[w] = "dispatch" /\ taken'[w] = Null /\ loop'[w] = "test"
  BY <1>2 DEF Test, Dispatch, LoopPlaces
<1>4. PoolTypeOK'
  BY <1>0, <1>1, <1>2, <1>3 DEF PoolTypeOK
<1>5. PoolShapes'
  BY <1>0, <1>1, <1>2, <1>3, <1>4 DEF PoolShapes
<1>6. OnePlace'
  <2>1. \A v \in Pool : taken'[v] = taken[v] \/ taken'[v] = Null
    BY <1>3
  <2> QED
    BY <1>0, <1>1, <2>1 DEF OnePlace
<1>7. Nulls' = Nulls
  BY <1>1 DEF Nulls
<1>8. PoolKeepsItsWorkers'
  <2> SUFFICES ASSUME threads # {}, ~stopFlag
               PROVE  Cardinality(Ended') + Nulls' = stale'
    BY <1>1 DEF PoolKeepsItsWorkers
  <2>1. Ended' = Ended
    BY <1>1, <1>2, <1>3 DEF Ended
  <2> QED
    BY <2>1, <1>0, <1>1, <1>7 DEF PoolKeepsItsWorkers
<1>9. NullsSuffice'
  <2> SUFFICES ASSUME control = "post"
               PROVE  Cardinality(Waiting') <= Nulls' + toPost'
    BY <1>1 DEF NullsSuffice, Waiting
  <2>1. stopFlag
    BY <1>0 DEF PoolShapes
  <2>2. Waiting' = Waiting
    BY <2>1, <1>1, <1>2, <1>3 DEF Waiting
  <2> QED
    BY <2>2, <1>0, <1>1, <1>7 DEF NullsSuffice, Waiting
<1> QED
  BY <1>5, <1>6, <1>8, <1>9 DEF PoolInvariant

\* A worker takes the first completion.
LEMMA TakingKeepsPool ==
    ASSUME PoolInvariant, NEW w \in Pool, TakeNull(w) \/ TakeEvent(w)
    PROVE  PoolInvariant'
<1> PICK c : c = Head(port)
  OBVIOUS
<1>0. /\ PoolShapes /\ OnePlace /\ PoolKeepsItsWorkers /\ NullsSuffice
      /\ PoolTypeOK /\ Nulls \in Nat
  BY NullsAreCounted DEF PoolInvariant, PoolShapes
<1>1. /\ stopFlag' = stopFlag /\ threads' = threads /\ control' = control
      /\ toPost' = toPost /\ starts' = starts /\ stale' = stale
      /\ loop[w] = "wait" /\ port # <<>> /\ port' = Tail(port)
      /\ \/ c = Null /\ loop' = [loop EXCEPT ![w] = "ended"] /\ taken' = taken
         \/ /\ c # Null /\ loop' = [loop EXCEPT ![w] = "dispatch"]
            /\ taken' = [taken EXCEPT ![w] = c]
  BY DEF TakeNull, TakeEvent, Ends
<1>2. /\ loop \in [Pool -> LoopPlaces] /\ taken \in [Pool -> Events \cup {Null}]
      /\ threads \in {{}, Pool} /\ port \in Seq(Events \cup {Null}) /\ toPost \in Nat
      /\ \A v \in Pool : loop[v] = "dispatch" <=> taken[v] # Null
  BY <1>0 DEF PoolTypeOK
<1>3. /\ Len(port) \in Nat /\ Len(port) > 0 /\ c = port[1] /\ c \in Events \cup {Null}
      /\ port' \in Seq(Events \cup {Null})
      /\ DOMAIN port' = 1..(Len(port) - 1) /\ DOMAIN port = 1..Len(port)
      /\ \A i \in DOMAIN port' : port'[i] = port[i + 1]
  BY <1>1, <1>2
<1>4. /\ loop' \in [Pool -> LoopPlaces] /\ taken' \in [Pool -> Events \cup {Null}]
      /\ \A v \in Pool : v # w => loop'[v] = loop[v] /\ taken'[v] = taken[v]
      /\ taken[w] = Null /\ taken'[w] = c
      /\ loop'[w] = IF c = Null THEN "ended" ELSE "dispatch"
  BY <1>1, <1>2, <1>3 DEF LoopPlaces
<1>5. PoolTypeOK'
  BY <1>0, <1>1, <1>2, <1>3, <1>4 DEF PoolTypeOK
<1>6. threads = Pool
  BY <1>0, <1>1, <1>2 DEF PoolShapes
<1>7. PoolShapes'
  BY <1>0, <1>1, <1>5, <1>6 DEF PoolShapes
<1>8. OnePlace'
  <2>1. \A i, j \in DOMAIN port' : port'[i] = port'[j] /\ port'[i] # Null => i = j
    <3> SUFFICES ASSUME NEW i \in DOMAIN port', NEW j \in DOMAIN port',
                        port'[i] = port'[j], port'[i] # Null
                 PROVE  i = j
      OBVIOUS
    <3>1. i + 1 \in DOMAIN port /\ j + 1 \in DOMAIN port
      BY <1>3
    <3>2. i + 1 = j + 1
      BY <3>1, <1>0, <1>3 DEF OnePlace
    <3> QED
      BY <3>2, <1>3
  <2>2. \A i \in DOMAIN port' : port'[i] = c => c = Null
    <3> SUFFICES ASSUME NEW i \in DOMAIN port', port'[i] = c, c # Null
                 PROVE  FALSE
      OBVIOUS
    <3>1. i + 1 \in DOMAIN port /\ 1 \in DOMAIN port
      BY <1>3
    <3>2. i + 1 = 1
      BY <3>1, <1>0, <1>3 DEF OnePlace
    <3> QED
      BY <3>2, <1>3
  <2>3. \A i \in DOMAIN port', v \in Pool : taken'[v] = port'[i] => port'[i] = Null
    <3> SUFFICES ASSUME NEW i \in DOMAIN port', NEW v \in Pool, taken'[v] = port'[i]
                 PROVE  port'[i] = Null
      OBVIOUS
    <3>1. CASE v = w
      BY <3>1, <2>2, <1>4
    <3>2. CASE v # w
      <4>1. i + 1 \in DOMAIN port /\ taken[v] = port[i + 1]
        BY <3>2, <1>3, <1>4
      <4> QED
        BY <4>1, <1>0, <1>3 DEF OnePlace
    <3> QED
      BY <3>1, <3>2
  <2>4. \A v \in Pool : v # w => (taken[v] = c => c = Null)
    <3>1. 1 \in DOMAIN port
      BY <1>3
    <3> QED
      BY <3>1, <1>0, <1>3 DEF OnePlace
  <2>5. \A u, v \in Pool : taken'[u] = taken'[v] /\ taken'[u] # Null => u = v
    BY <2>4, <1>0, <1>4 DEF OnePlace
  <2> QED
    BY <2>1, <2>3, <2>5 DEF OnePlace
<1>9. Nulls' = IF c = Null THEN Nulls - 1 ELSE Nulls
  <2>1. Nulls' = Cardinality(Where(port', Null))
    BY DEF Nulls, Where
  <2> QED
    BY <2>1, <1>0, <1>1, <1>2, CountBehind, NullsAreCounted
<1>10. PoolKeepsItsWorkers'
  <2>1. w \in threads /\ w \notin Ended
    BY <1>1, <1>6 DEF Ended
  <2>2. CASE c = Null
    <3>1. Ended' = Ended \cup {w}
      BY <2>1, <2>2, <1>1, <1>4, <1>6 DEF Ended
    <3>2. Cardinality(Ended') = Cardinality(Ended) + 1 /\ Cardinality(Ended) \in Nat
      BY <3>1, <2>1, <1>0, PoolIsFinite, FS_AddElement
    <3> QED
      BY <3>2, <2>2, <1>0, <1>1, <1>9 DEF PoolKeepsItsWorkers
  <2>3. CASE c # Null
    <3>1. Ended' = Ended
      BY <2>1, <2>3, <1>1, <1>4, <1>6 DEF Ended
    <3> QED
      BY <3>1, <2>3, <1>0, <1>1, <1>9 DEF PoolKeepsItsWorkers
  <2> QED
    BY <2>2, <2>3
<1>11. NullsSuffice'
  <2>1. w \in Waiting /\ Waiting' = Waiting \ {w}
    BY <1>1, <1>4, <1>6 DEF Waiting
  <2>2. Cardinality(Waiting') = Cardinality(Waiting) - 1 /\ Cardinality(Waiting) \in Nat
    BY <2>1, <1>0, PoolIsFinite, FS_RemoveElement
  <2> QED
    BY <2>2, <1>0, <1>1, <1>2, <1>9 DEF NullsSuffice, Waiting
<1> QED
  BY <1>7, <1>8, <1>10, <1>11 DEF PoolInvariant

\* The system queues a completion.
LEMMA CompletingKeepsPool ==
    ASSUME PoolInvariant, NEW e \in Events, Complete(e)
    PROVE  PoolInvariant'
<1>0. /\ PoolShapes /\ OnePlace /\ PoolKeepsItsWorkers /\ NullsSuffice
      /\ PoolTypeOK /\ Nulls \in Nat
  BY NullsAreCounted DEF PoolInvariant, PoolShapes
<1>1. /\ stopFlag' = stopFlag /\ threads' = threads /\ control' = control
      /\ toPost' = toPost /\ starts' = starts /\ stale' = stale
      /\ loop' = loop /\ taken' = taken /\ port' = Append(port, e)
      /\ \A i \in DOMAIN port : port[i] # e
      /\ \A v \in Pool : taken[v] # e
      /\ e # Null
  BY PoolAssumption DEF Complete
<1>2. port \in Seq(Events \cup {Null})
  BY <1>0 DEF PoolTypeOK
<1>3. /\ DOMAIN port' = 1..(Len(port) + 1) /\ DOMAIN port = 1..Len(port)
      /\ \A i \in DOMAIN port : port'[i] = port[i]
      /\ port'[Len(port) + 1] = e /\ Len(port) \in Nat
      /\ port' \in Seq(Events \cup {Null})
  BY <1>1, <1>2
<1>4. PoolTypeOK'
  BY <1>0, <1>1, <1>3 DEF PoolTypeOK
<1>5. PoolShapes'
  BY <1>0, <1>1, <1>4 DEF PoolShapes
<1>6. OnePlace'
  <2>1. \A i \in DOMAIN port' : \/ i \in DOMAIN port /\ port'[i] = port[i] /\ port'[i] # e
                                \/ i = Len(port) + 1 /\ port'[i] = e
    BY <1>1, <1>3
  <2> QED
    BY <2>1, <1>0, <1>1 DEF OnePlace
<1>7. Nulls' = Nulls
  <2>1. Nulls' = Cardinality(Where(port', Null))
    BY DEF Nulls, Where
  <2> QED
    BY <2>1, <1>0, <1>1, <1>2, CountAppended, NullsAreCounted
<1>8. Ended' = Ended /\ Waiting' = Waiting
  BY <1>1 DEF Ended, Waiting
<1>9. PoolKeepsItsWorkers' /\ NullsSuffice'
  BY <1>0, <1>1, <1>7, <1>8 DEF PoolKeepsItsWorkers, NullsSuffice, Waiting
<1> QED
  BY <1>5, <1>6, <1>9 DEF PoolInvariant

LEMMA QuietKeepsPool ==
    ASSUME PoolInvariant, UNCHANGED poolVars
    PROVE  PoolInvariant'
  BY DEF PoolInvariant, poolVars, PoolShapes, PoolTypeOK, OnePlace,
         PoolKeepsItsWorkers, NullsSuffice, Ended, Nulls

-----------------------------------------------------------------------------
(* The sessions that the pool dispatches *)

LoopInvariant == InductiveInvariant /\ PoolInvariant /\ CompletionsOfOperations

\* The handler of an operation is a step of SessionLifecycle, and ends no other
\* operation.
LEMMA HandlersHandleTheirOwn ==
    ASSUME InductiveInvariant, NEW w \in Workers, NEW c \in UnderWay, Handler(w, c)
    PROVE  Next /\ \A d \in UnderWay : d # c => d \in UnderWay'
<1>0. /\ listening \subseteq Accepts /\ receiving \subseteq Sessions
      /\ leaving \subseteq Sessions /\ send \in [Sessions -> SendStates]
  BY DEF InductiveInvariant, Shapes
<1>1. ASSUME NEW e \in listening, c = Event("accept", e)
      PROVE  Next /\ \A d \in UnderWay : d # c => d \in UnderWay'
  <2>1. e \in Accepts /\ ProcessAccept(w, e)
    BY <1>0, <1>1 DEF Handler, Event
  <2>2. Next
    BY <2>1 DEF Next
  <2>3. /\ listening' = listening \ {e} /\ receiving' = receiving
        /\ send' = send /\ leaving' = leaving
    BY <2>1 DEF ProcessAccept
  <2> QED
    BY <2>2, <2>3, <1>1 DEF UnderWay, Event
<1>2. ASSUME NEW s \in receiving, c = Event("recv", s)
      PROVE  Next /\ \A d \in UnderWay : d # c => d \in UnderWay'
  <2>1. s \in Sessions /\ ProcessRecv(w, s)
    BY <1>0, <1>2 DEF Handler, Event
  <2>2. Next
    BY <2>1 DEF Next
  <2>3. /\ listening' = listening /\ receiving' = receiving \ {s}
        /\ send' = send /\ leaving' = leaving
    BY <2>1 DEF ProcessRecv, events
  <2> QED
    BY <2>2, <2>3, <1>2 DEF UnderWay, Event
<1>3. ASSUME NEW s \in Sessions, send[s] = "sending", c = Event("send", s)
      PROVE  Next /\ \A d \in UnderWay : d # c => d \in UnderWay'
  <2>1. ProcessSend(w, s)
    BY <1>3 DEF Handler, Event
  <2>2. Next
    BY <2>1 DEF Next
  <2>3. /\ listening' = listening /\ receiving' = receiving /\ leaving' = leaving
        /\ \A r \in Sessions : r # s => send'[r] = send[r]
    BY <2>1, <1>0 DEF ProcessSend, events
  <2> QED
    BY <2>2, <2>3, <1>3 DEF UnderWay, Event
<1>4. ASSUME NEW s \in leaving, c = Event("disconnect", s)
      PROVE  Next /\ \A d \in UnderWay : d # c => d \in UnderWay'
  <2>1. s \in Sessions /\ ProcessDisconnect(w, s)
    BY <1>0, <1>4 DEF Handler, Event
  <2>2. Next
    BY <2>1 DEF Next
  <2>3. /\ listening' = listening /\ receiving' = receiving
        /\ send' = send /\ leaving' = leaving \ {s}
    BY <2>1 DEF ProcessDisconnect, events
  <2> QED
    BY <2>2, <2>3, <1>4 DEF UnderWay, Event
<1> QED
  BY <1>1, <1>2, <1>3, <1>4 DEF UnderWay

\* No call ends an operation: only its completion does.
LEMMA CallsEndNoOperation ==
    ASSUME InductiveInvariant, NEW t \in Threads, Run(t)
    PROVE  UnderWay \subseteq UnderWay'
<1>0. send \in [Sessions -> SendStates] /\ Shapes /\ Sends
  BY DEF InductiveInvariant, Shapes
<1>1. SUFFICES /\ listening \subseteq listening' /\ receiving \subseteq receiving'
               /\ leaving \subseteq leaving'
               /\ \A s \in Sessions : send[s] = "sending" => send'[s] = "sending"
  BY DEF UnderWay
<1>2. CASE AcceptNext(t)
  BY <1>2 DEF AcceptNext, RegisterAccept
<1>3. CASE \/ Connect(t) \/ AddSession(t) \/ AddToManager(t) \/ TellRoom(t)
           \/ BeforeEnter(t) \/ EnterRoom(t) \/ AfterEnter(t) \/ Handled(t)
           \/ RegisterRecv(t) \/ SendNext(t) \/ UseDestroyed(t)
           \/ Disconnect(t) \/ RemoveFromManager(t) \/ LeaveRoom(t) \/ AfterLeave(t)
           \/ ReleaseSession(t) \/ Returned(t)
  BY <1>3 DEF Connect, AddSession, AddToManager, TellRoom, BeforeEnter, EnterRoom,
              AfterEnter, Handled, RegisterRecv, SendNext, UseDestroyed, Disconnect,
              RemoveFromManager, LeaveRoom, AfterLeave, ReleaseSession, Returned, events
<1>4. CASE PostRecv(t)
  BY <1>4 DEF PostRecv, events
<1>5. CASE RegisterDisconnect(t)
  BY <1>5 DEF RegisterDisconnect, events
<1>6. CASE Send(t) \/ RegisterSend(t) \/ OwnSend(t) \/ SubmitSend(t) \/ Forget(t) \/ Clear(t)
  <2> PICK s : s = Top(t).session
    OBVIOUS
  <2>1. listening' = listening /\ receiving' = receiving /\ leaving' = leaving
    BY <1>6 DEF Send, RegisterSend, OwnSend, SubmitSend, Forget, Clear, events
  <2>2. Busy(t) /\ Top(t).at \in {"send"} \cup SendWork
    BY <1>6 DEF Send, RegisterSend, OwnSend, SubmitSend, Forget, Clear, At, SendWork
  <2>3. s \in Sessions
    BY <2>2, TopIsTold DEF SendWork
  <2>4. send[s] # "sending" \/ send' = send
    <3>1. Top(t).at \in SendWork => send[s] # "sending"
      BY <2>2, TopFits DEF Fits, SendWork
    <3>2. CASE Send(t)
      BY <3>2 DEF Send
    <3> QED
      BY <1>6, <3>1, <3>2 DEF RegisterSend, OwnSend, SubmitSend, Forget, Clear, At, SendWork
  <2>5. send' = send \/ \E v \in SendStates : send' = [send EXCEPT ![s] = v]
    BY <1>6 DEF Send, RegisterSend, OwnSend, SubmitSend, Refused, Forget, Clear, SendStates
  <2> QED
    BY <2>1, <2>3, <2>4, <2>5, <1>0
<1> QED
  BY <1>2, <1>3, <1>4, <1>5, <1>6 DEF Run

\* What a step of the pool and the sessions together means for the sessions.
LEMMA LoopSteps ==
    ASSUME LoopInvariant, [LoopNext]_loopVars
    PROVE  [Next]_vars /\ PoolInvariant' /\ CompletionsOfOperations'
<1>0. /\ InductiveInvariant /\ PoolInvariant /\ CompletionsOfOperations
      /\ PoolTypeOK /\ OnePlace
  BY DEF LoopInvariant, PoolInvariant, PoolShapes
<1>1. ASSUME NEW e \in Events, SystemCompletes(e)
      PROVE  [Next]_vars /\ PoolInvariant' /\ CompletionsOfOperations'
  <2>1. Complete(e) /\ e \in UnderWay /\ UNCHANGED vars
    BY <1>1 DEF SystemCompletes
  <2>2. PoolInvariant'
    BY <2>1, <1>0, CompletingKeepsPool
  <2>3. UnderWay' = UnderWay
    BY <2>1 DEF vars, UnderWay, Event
  <2>4. port \in Seq(Events \cup {Null}) /\ port' = Append(port, e) /\ taken' = taken
    BY <2>1, <1>0 DEF PoolTypeOK, Complete
  <2>5. \A i \in DOMAIN port' : \/ i \in DOMAIN port /\ port'[i] = port[i]
                                \/ port'[i] = e
    BY <2>4
  <2> QED
    BY <2>1, <2>2, <2>3, <2>4, <2>5, <1>0 DEF CompletionsOfOperations
<1>2. ASSUME NEW w \in Workers, WorkerTests(w) \/ WorkerTakes(w)
      PROVE  [Next]_vars /\ PoolInvariant' /\ CompletionsOfOperations'
  <2>1. /\ Test(w) \/ TakeNull(w) \/ TakeEvent(w)
        /\ UNCHANGED vars /\ w \in Pool
    BY <1>2, OnePool DEF WorkerTests, WorkerTakes
  <2>2. PoolInvariant'
    BY <2>1, <1>0, LoopingKeepsPool, TakingKeepsPool
  <2>3. UnderWay' = UnderWay
    BY <2>1 DEF vars, UnderWay, Event
  <2>4. port \in Seq(Events \cup {Null}) /\ taken \in [Pool -> Events \cup {Null}]
    BY <1>0 DEF PoolTypeOK
  <2>5. CASE Test(w)
    BY <2>5, <2>1, <2>2, <2>3, <1>0 DEF Test, CompletionsOfOperations
  <2>6. CASE TakeNull(w) \/ TakeEvent(w)
    <3>1. /\ port # <<>> /\ port' = Tail(port)
          /\ taken' = taken \/ taken' = [taken EXCEPT ![w] = Head(port)]
      BY <2>6 DEF TakeNull, TakeEvent
    <3>2. 1 \in DOMAIN port /\ Head(port) = port[1]
      BY <3>1, <2>4
    <3>3. \A i \in DOMAIN port' : i + 1 \in DOMAIN port /\ port'[i] = port[i + 1]
      BY <3>1, <2>4
    <3>4. \A v \in Pool : taken'[v] = taken[v] \/ taken'[v] = port[1]
      BY <3>1, <3>2, <2>4
    <3> QED
      BY <3>2, <3>3, <3>4, <2>1, <2>2, <2>3, <1>0, OnePool DEF CompletionsOfOperations
  <2> QED
    BY <2>1, <2>5, <2>6
<1>3. ASSUME NEW w \in Workers, WorkerDispatches(w)
      PROVE  [Next]_vars /\ PoolInvariant' /\ CompletionsOfOperations'
  <2> PICK c : c = taken[w]
    OBVIOUS
  <2>1. Dispatch(w) /\ Handler(w, c) /\ w \in Pool
    BY <1>3, OnePool DEF WorkerDispatches
  <2>2. PoolInvariant'
    BY <2>1, <1>0, LoopingKeepsPool
  <2>3. taken \in [Pool -> Events \cup {Null}] /\ c # Null
    BY <2>1, <1>0 DEF PoolTypeOK, Dispatch
  <2>4. c \in UnderWay
    BY <2>3, <1>0 DEF CompletionsOfOperations
  <2>5. Next /\ \A d \in UnderWay : d # c => d \in UnderWay'
    BY <2>1, <2>4, <1>0, HandlersHandleTheirOwn
  <2>6. port' = port /\ taken' = [taken EXCEPT ![w] = Null]
    BY <2>1 DEF Dispatch
  <2>7. \A i \in DOMAIN port' : port'[i] # Null => port'[i] \in UnderWay'
    BY <2>3, <2>5, <2>6, <1>0, <2>1 DEF CompletionsOfOperations, OnePlace
  <2>8. \A v \in Workers : taken'[v] # Null => taken'[v] \in UnderWay'
    <3>1. \A v \in Pool : taken'[v] = Null \/ (v # w /\ taken'[v] = taken[v])
      BY <2>3, <2>6
    <3>2. \A v \in Pool : v # w /\ taken[v] # Null => taken[v] # c
      BY <2>1, <1>0 DEF OnePlace
    <3> QED
      BY <3>1, <3>2, <2>5, <1>0, OnePool DEF CompletionsOfOperations
  <2> QED
    BY <2>2, <2>5, <2>7, <2>8 DEF CompletionsOfOperations
<1>4. ASSUME NEW t \in Threads, Run(t), UNCHANGED poolVars
      PROVE  [Next]_vars /\ PoolInvariant' /\ CompletionsOfOperations'
  <2>1. Next
    BY <1>4 DEF Next
  <2>2. PoolInvariant'
    BY <1>0, <1>4, QuietKeepsPool
  <2>3. UnderWay \subseteq UnderWay'
    BY <1>0, <1>4, CallsEndNoOperation
  <2> QED
    BY <2>1, <2>2, <2>3, <1>0, <1>4 DEF CompletionsOfOperations, poolVars
<1>5. ASSUME MainControls
      PROVE  [Next]_vars /\ PoolInvariant' /\ CompletionsOfOperations'
  <2>1. Control /\ UNCHANGED vars
    BY <1>5 DEF MainControls
  <2>2. PoolInvariant'
    BY <2>1, <1>0, ControlKeepsPool
  <2>3. UnderWay' = UnderWay
    BY <2>1 DEF vars, UnderWay, Event
  <2>4. taken' = taken /\ (port' = port \/ port' = Append(port, Null))
    BY <2>1 DEF Control, StartWorkerThreads, StopWorkerThreads, PostNull, Join
  <2>5. port \in Seq(Events \cup {Null})
    BY <1>0 DEF PoolTypeOK
  <2>6. \A i \in DOMAIN port' : \/ i \in DOMAIN port /\ port'[i] = port[i]
                                \/ port'[i] = Null
    BY <2>4, <2>5
  <2> QED
    BY <2>1, <2>2, <2>3, <2>4, <2>6, <1>0 DEF CompletionsOfOperations
<1>6. ASSUME MainUpdates
      PROVE  [Next]_vars /\ PoolInvariant' /\ CompletionsOfOperations'
  <2>1. Update /\ UNCHANGED poolVars
    BY <1>6 DEF MainUpdates
  <2>2. Next
    BY <2>1 DEF Next
  <2>3. PoolInvariant'
    BY <2>1, <1>0, QuietKeepsPool
  <2>4. UnderWay' = UnderWay
    BY <2>1 DEF Update, events, UnderWay, Event
  <2> QED
    BY <2>1, <2>2, <2>3, <2>4, <1>0 DEF CompletionsOfOperations, poolVars
<1>7. CASE UNCHANGED loopVars
  <2>1. UNCHANGED vars /\ UNCHANGED poolVars
    BY <1>7 DEF loopVars
  <2>2. PoolInvariant'
    BY <2>1, <1>0, QuietKeepsPool
  <2>3. UnderWay' = UnderWay
    BY <2>1 DEF vars, UnderWay, Event
  <2> QED
    BY <2>1, <2>2, <2>3, <1>0 DEF CompletionsOfOperations, poolVars
<1>8. ASSUME NEW w \in Workers, WorkerRuns(w)
      PROVE  [Next]_vars /\ PoolInvariant' /\ CompletionsOfOperations'
  BY <1>4, <1>8 DEF WorkerRuns, Threads
<1>9. ASSUME MainRuns
      PROVE  [Next]_vars /\ PoolInvariant' /\ CompletionsOfOperations'
  BY <1>4, <1>9 DEF MainRuns, Threads
<1> QED
  BY <1>1, <1>2, <1>3, <1>5, <1>6, <1>7, <1>8, <1>9 DEF LoopNext, WorkerStep

LEMMA LoopInitHolds == LoopInit => LoopInvariant
<1> SUFFICES ASSUME LoopInit
             PROVE  LoopInvariant
  OBVIOUS
<1>1. Init /\ PoolInit
  BY DEF LoopInit
<1>2. InductiveInvariant
  BY <1>1, InitHolds
<1>3. threads = {} /\ control = "idle" /\ port = <<>> /\ \A w \in Pool : taken[w] = Null
  BY <1>1 DEF PoolInit
<1>4. PoolTypeOK
  <2>1. 0 \in 0..Cardinality(Pool) /\ 0 \in 0..MaxStarts
    BY PoolAssumption, FS_CardinalityType
  <2>2. port \in Seq(Events \cup {Null}) /\ loop \in [Pool -> LoopPlaces]
    BY <1>1 DEF PoolInit, LoopPlaces
  <2> QED
    BY <1>1, <2>1, <2>2 DEF PoolInit, PoolTypeOK
<1>5. PoolInvariant
  BY <1>1, <1>3, <1>4 DEF PoolInit, PoolInvariant, PoolShapes, OnePlace,
                          PoolKeepsItsWorkers, NullsSuffice
<1>6. CompletionsOfOperations
  BY <1>3, OnePool DEF CompletionsOfOperations
<1> QED
  BY <1>2, <1>5, <1>6 DEF LoopInvariant

LEMMA LoopInductive == LoopSpec => []LoopInvariant
<1>1. LoopInvariant /\ [LoopNext]_loopVars => LoopInvariant'
  BY LoopSteps, Invariance DEF LoopInvariant
<1> QED
  BY <1>1, LoopInitHolds, PTL DEF LoopSpec

-----------------------------------------------------------------------------
(* What follows from it *)

\* The sessions of a server whose workers take the events from the port behave
\* as SessionLifecycle says: whatever is proved of that module holds here.
THEOREM LoopImplementsSessions == LoopSpec => Spec
<1>1. LoopInit => Init
  BY DEF LoopInit
<1>2. LoopInvariant /\ [LoopNext]_loopVars => [Next]_vars
  BY LoopSteps
<1> QED
  BY <1>1, <1>2, LoopInductive, PTL DEF LoopSpec, Spec

\* StopWorkerThreads may join its workers: a worker ends by a null or by the
\* flag, and there is a null for each that waits while the pool stops.
THEOREM NullsAreAccounted == LoopSpec => []NullsAccounted
<1>1. LoopInvariant => NullsAccounted
  BY DEF LoopInvariant, PoolInvariant, NullsAccounted
<1> QED
  BY <1>1, LoopInductive, PTL

\* Nobody uses an OVERLAPPED again, or resets its owner, while its completion
\* waits in the port or with a worker.
THEOREM CompletionsAreOfOperations == LoopSpec => []CompletionsOfOperations
<1>1. LoopInvariant => CompletionsOfOperations
  BY DEF LoopInvariant
<1> QED
  BY <1>1, LoopInductive, PTL

\* Every variable of the pool has its type, and a worker holds an event exactly
\* while it is about to dispatch it.
THEOREM PoolTypeCorrect == LoopSpec => []PoolTypeOK
<1>1. LoopInvariant => PoolTypeOK
  BY DEF LoopInvariant, PoolInvariant, PoolShapes
<1> QED
  BY <1>1, LoopInductive, PTL

\* So the server's sessions keep what SessionLifecycle_proofs shows of them: its
\* invariants, the limits of what a broadcast may do to a session that has been
\* destroyed among them, and that each lives and is released once.
THEOREM LoopKeepsSessions ==
    LoopSpec => /\ [](ReleaseFindsSession /\ RegistriesAgree /\ AcceptsKept)
                /\ [](KeptAlive /\ NothingLeaks)
                /\ ImplementsLife
  BY LoopImplementsSessions, ReleaseIsOfListed, RegistriesAgreeAlways, AcceptsAreKept,
     SessionsStayAlive, NothingIsLeaked, SessionsLiveOnce, PTL

\* The handlers the worker threads run have less to do after each step of one of
\* them, and one to take unless the thread is lost, until a completion is
\* dispatched or the main thread updates the room.
THEOREM LoopHandlersComeToEnd ==
    ASSUME IsFiniteSet(Sessions)
    PROVE  LoopSpec => /\ [](HandlerWork \in Nat) /\ []CallsGoOn
                       /\ [][HandlersReturn]_vars
  BY LoopImplementsSessions, HandlersComeToEnd, PTL

-----------------------------------------------------------------------------
(* A stop comes to an end *)

\* The workers that are still at one of the places.
Yet(places) == Cardinality({w \in Pool : loop[w] \in places})

\* A worker passes them in this order, if it is not ended by a null.
AtPort == {"wait"}
WithEvent == {"wait", "dispatch"}
InLoop == {"wait", "dispatch", "test"}

\* What the pool does until every worker has ended: a worker that waits may
\* still take one event, one that has handled it finds the flag.
StopWork == toPost + Yet(AtPort) + Yet(WithEvent) + Yet(InLoop)

\* While the pool is stopped, what its threads do brings the end closer, and
\* what the system and the handlers do does not put it off.
StopNears ==
    control = "post" /\ control' = "post" =>
        /\ StopWork' <= StopWork
        /\ toPost' # toPost \/ loop' # loop => StopWork' < StopWork

\* Until the joins return somebody can go on: the main thread, a worker in its
\* loop, or one that waits and finds something in the port.
StopGoesOn ==
    control = "post" /\ toPost = 0 /\ Ended # threads =>
        \E w \in threads : \/ loop[w] \in {"test", "dispatch"}
                           \/ loop[w] = "wait" /\ port # <<>>

LEMMA YetIsNat == \A places : Yet(places) \in Nat
<1> TAKE places
<1> PICK still \in SUBSET Pool : still = {w \in Pool : loop[w] \in places}
  OBVIOUS
<1>1. IsFiniteSet(still)
  BY FS_Subset, PoolAssumption
<1> QED
  BY <1>1, FS_CardinalityType DEF Yet

LEMMA OneLess ==
    ASSUME NEW S, IsFiniteSet(S), NEW x \in S
    PROVE  Cardinality(S \ {x}) = Cardinality(S) - 1
  BY FS_RemoveElement

\* A worker that goes from one place to another.
LEMMA YetChanges ==
    ASSUME PoolTypeOK, NEW w \in Pool, NEW to, loop' = [loop EXCEPT ![w] = to], NEW places
    PROVE  /\ loop[w] \in places /\ to \notin places => Yet(places)' = Yet(places) - 1
           /\ loop[w] \in places /\ to \in places => Yet(places)' = Yet(places)
           /\ loop[w] \notin places /\ to \notin places => Yet(places)' = Yet(places)
<1> PICK still \in SUBSET Pool : still = {v \in Pool : loop[v] \in places}
  OBVIOUS
<1> PICK new \in SUBSET Pool : new = {v \in Pool : loop'[v] \in places}
  OBVIOUS
<1>1. IsFiniteSet(still) /\ Cardinality(still) = Yet(places) /\ Cardinality(new) = Yet(places)'
  BY FS_Subset, PoolAssumption DEF Yet
<1>2. loop'[w] = to /\ \A v \in Pool : v # w => loop'[v] = loop[v]
  BY DEF PoolTypeOK
<1>3. CASE loop[w] \in places /\ to \notin places
  <2>1. new = still \ {w} /\ w \in still
    BY <1>2, <1>3
  <2>2. Cardinality(still \ {w}) = Cardinality(still) - 1
    BY <1>1, <2>1, OneLess
  <2> QED
    BY <1>1, <1>3, <2>1, <2>2
<1>4. CASE (loop[w] \in places) = (to \in places)
  <2>1. new = still
    BY <1>2, <1>4
  <2> QED
    BY <1>1, <1>4, <2>1
<1> QED
  BY <1>3, <1>4

LEMMA StopStep ==
    ASSUME PoolTypeOK, control = "post", NEW w \in Pool,
           (Test(w) /\ stopFlag) \/ TakeNull(w) \/ TakeEvent(w) \/ Dispatch(w)
    PROVE  StopWork' < StopWork /\ StopWork' \in Int
<1> DEFINE a == Yet(AtPort)
           b == Yet(WithEvent)
           c == Yet(InLoop)
<1>1. a \in Nat /\ b \in Nat /\ c \in Nat /\ toPost \in Nat /\ toPost' = toPost
  BY YetIsNat DEF PoolTypeOK, Test, TakeNull, TakeEvent, Dispatch
<1>2. ASSUME NEW to, loop' = [loop EXCEPT ![w] = to],
             \/ loop[w] = "wait" /\ to = "ended"
             \/ loop[w] = "wait" /\ to = "dispatch"
             \/ loop[w] = "dispatch" /\ to = "test"
             \/ loop[w] = "test" /\ to = "ended"
      PROVE  /\ a' <= a /\ b' <= b /\ c' <= c /\ a' \in Int /\ b' \in Int /\ c' \in Int
             /\ a' < a \/ b' < b \/ c' < c
  <2>1. CASE loop[w] = "wait" /\ to = "ended"
    <3>1. /\ loop[w] \in AtPort /\ loop[w] \in WithEvent /\ loop[w] \in InLoop
          /\ to \notin AtPort /\ to \notin WithEvent /\ to \notin InLoop
      BY <2>1 DEF AtPort, WithEvent, InLoop
    <3>2. a' = a - 1 /\ b' = b - 1 /\ c' = c - 1
      BY <1>2, <3>1, YetChanges
    <3> QED
      BY <1>1, <3>2
  <2>2. CASE loop[w] = "wait" /\ to = "dispatch"
    <3>1. /\ loop[w] \in AtPort /\ loop[w] \in WithEvent /\ loop[w] \in InLoop
          /\ to \notin AtPort /\ to \in WithEvent /\ to \in InLoop
      BY <2>2 DEF AtPort, WithEvent, InLoop
    <3>2. a' = a - 1 /\ b' = b /\ c' = c
      BY <1>2, <3>1, YetChanges
    <3> QED
      BY <1>1, <3>2
  <2>3. CASE loop[w] = "dispatch" /\ to = "test"
    <3>1. /\ loop[w] \notin AtPort /\ loop[w] \in WithEvent /\ loop[w] \in InLoop
          /\ to \notin AtPort /\ to \notin WithEvent /\ to \in InLoop
      BY <2>3 DEF AtPort, WithEvent, InLoop
    <3>2. a' = a /\ b' = b - 1 /\ c' = c
      BY <1>2, <3>1, YetChanges
    <3> QED
      BY <1>1, <3>2
  <2>4. CASE loop[w] = "test" /\ to = "ended"
    <3>1. /\ loop[w] \notin AtPort /\ loop[w] \notin WithEvent /\ loop[w] \in InLoop
          /\ to \notin AtPort /\ to \notin WithEvent /\ to \notin InLoop
      BY <2>4 DEF AtPort, WithEvent, InLoop
    <3>2. a' = a /\ b' = b /\ c' = c - 1
      BY <1>2, <3>1, YetChanges
    <3> QED
      BY <1>1, <3>2
  <2> QED
    BY <1>2, <2>1, <2>2, <2>3, <2>4
<1>3. StopWork = toPost + a + b + c /\ StopWork' = toPost' + a' + b' + c'
  BY DEF StopWork
<1> HIDE DEF a, b, c
<1>4. PICK to : /\ loop' = [loop EXCEPT ![w] = to]
                /\ \/ loop[w] = "wait" /\ to = "ended"
                   \/ loop[w] = "wait" /\ to = "dispatch"
                   \/ loop[w] = "dispatch" /\ to = "test"
                   \/ loop[w] = "test" /\ to = "ended"
  BY DEF Test, TakeNull, TakeEvent, Dispatch
<1>5. /\ a' <= a /\ b' <= b /\ c' <= c /\ a' \in Int /\ b' \in Int /\ c' \in Int
      /\ a' < a \/ b' < b \/ c' < c
  BY <1>2, <1>4
<1>6. \A k, l, m, n, x, y, z \in Int :
          x <= l /\ y <= m /\ z <= n /\ (x < l \/ y < m \/ z < n) =>
              k + x + y + z < k + l + m + n /\ k + x + y + z \in Int
  OBVIOUS
<1>7. toPost \in Int /\ a \in Int /\ b \in Int /\ c \in Int
  BY <1>1
<1>8. /\ toPost + a' + b' + c' < toPost + a + b + c
      /\ toPost + a' + b' + c' \in Int
  BY <1>5, <1>6, <1>7
<1> QED
  BY <1>1, <1>3, <1>8

\* StopWorkerThreads comes to an end, for any number of workers: every step of
\* the pool brings it closer, and there is one to take until all have left.
\* Of the completions that are dispatched meanwhile there are finitely many, so
\* by the theorem above their handlers return, if no thread is lost; what is
\* left to fairness is that threads go on.
THEOREM StopComesToEnd == LoopSpec => [][StopNears]_loopVars /\ []StopGoesOn
<1>1. ASSUME PoolInvariant, LoopNext, control = "post", control' = "post"
      PROVE  StopNears
  <2>0. PoolTypeOK /\ stopFlag /\ StopWork \in Nat
    BY <1>1, YetIsNat DEF PoolInvariant, PoolShapes, PoolTypeOK, StopWork
  <2>1. ASSUME loop' = loop, toPost' = toPost PROVE StopNears
    <3>1. StopWork' = StopWork
      BY <2>1 DEF StopWork, Yet
    <3> QED
      BY <2>0, <2>1, <3>1 DEF StopNears
  <2>2. ASSUME NEW w \in Workers, Test(w) \/ TakeNull(w) \/ TakeEvent(w) \/ Dispatch(w)
        PROVE  StopNears
    <3>1. w \in Pool
      BY OnePool
    <3>2. StopWork' < StopWork /\ StopWork' \in Int
      BY <1>1, <2>0, <2>2, <3>1, StopStep
    <3> QED
      BY <2>0, <3>2 DEF StopNears
  <2>3. CASE MainControls
    <3>1. PostNull
      BY <1>1, <2>3 DEF MainControls, Control, StartWorkerThreads, StopWorkerThreads, Join
    <3>2. toPost' = toPost - 1 /\ loop' = loop /\ toPost \in Nat
      BY <2>0, <3>1 DEF PostNull, PoolTypeOK
    <3>3. \A places : Yet(places)' = Yet(places)
      BY <3>2 DEF Yet
    <3>4. StopWork' = StopWork - 1
      BY <3>2, <3>3, YetIsNat DEF StopWork
    <3> QED
      BY <2>0, <3>4 DEF StopNears
  <2>4. CASE \E c \in Events : SystemCompletes(c)
    BY <2>1, <2>4 DEF SystemCompletes, Complete
  <2>5. ASSUME NEW w \in Workers, WorkerStep(w) PROVE StopNears
    BY <2>1, <2>2, <2>5
    DEF WorkerStep, WorkerTests, WorkerTakes, WorkerDispatches, WorkerRuns, poolVars
  <2>6. CASE MainUpdates \/ MainRuns
    BY <2>1, <2>6 DEF MainUpdates, MainRuns, poolVars
  <2> QED
    BY <1>1, <2>3, <2>4, <2>5, <2>6 DEF LoopNext
<1>2. ASSUME PoolInvariant PROVE StopGoesOn
  <2> SUFFICES ASSUME control = "post", toPost = 0, NEW w \in threads, loop[w] # "ended",
                      loop[w] \notin {"test", "dispatch"}
               PROVE  loop[w] = "wait" /\ port # <<>>
    BY DEF StopGoesOn, Ended
  <2>1. loop[w] = "wait" /\ IsFiniteSet(threads)
    BY <1>2, PoolAssumption, FS_EmptySet DEF PoolInvariant, PoolShapes, PoolTypeOK, LoopPlaces
  <2>2. IsFiniteSet(Waiting) /\ w \in Waiting
    BY <2>1, FS_Subset DEF Waiting
  <2>3. Cardinality(Waiting) \in Nat /\ Cardinality(Waiting) # 0
    BY <2>2, FS_CardinalityType, FS_EmptySet
  <2>4. Cardinality(Waiting) <= Nulls + 0
    BY <1>2 DEF PoolInvariant, NullsSuffice, Waiting
  <2>5. port = <<>> => Nulls = 0
    <3>1. port = <<>> => {i \in DOMAIN port : port[i] = Null} = {}
      OBVIOUS
    <3> QED
      BY <3>1, FS_EmptySet DEF Nulls
  <2> QED
    BY <2>1, <2>3, <2>4, <2>5
<1>3. LoopInvariant => PoolInvariant
  BY DEF LoopInvariant
<1>4. PoolInvariant /\ [LoopNext]_loopVars => [StopNears]_loopVars
  BY <1>1 DEF StopNears
<1> QED
  BY <1>2, <1>3, <1>4, LoopInductive, PTL DEF LoopSpec
================================================================================
