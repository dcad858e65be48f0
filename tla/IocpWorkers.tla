---------------------------- MODULE IocpWorkers ----------------------------
(***************************************************************************)
(* The worker threads of IocpCore and the completion port they wait at.    *)
(*                                                                         *)
(* The port is a queue: the system appends the events that have completed, *)
(* StopWorkerThreads appends one null per worker, and a worker takes the   *)
(* first entry.  A worker leaves its loop when it takes a null or finds    *)
(* _stopFlag set; one that leaves by the flag leaves a null behind.        *)
(*                                                                         *)
(* What a worker does with an event is the business of the modules that    *)
(* build on this one.  Start and Stop are called by one thread; the        *)
(* server's main starts once and leaves the stop to the destructor, and    *)
(* the class lets its user start again.                                    *)
(***************************************************************************)
EXTENDS Naturals, Sequences, FiniteSets

CONSTANTS
    Pool,     \* threadCount threads
    Events,      \* the overlapped events, each in one operation at a time
    Null,        \* the completion that means: leave
    MaxStarts    \* bound: the calls of StartWorkerThreads that start

ASSUME PoolAssumption ==
    /\ IsFiniteSet(Pool) /\ Pool # {}
    /\ Null \notin Events
    /\ MaxStarts \in Nat

VARIABLES
    stopFlag,    \* IocpCore::_stopFlag
    threads,     \* IocpCore::_workerThreads
    control,     \* where the thread is that starts and stops
    toPost,      \* nulls StopWorkerThreads has still to post
    port,        \* the completions in the port
    loop,        \* where each worker is
    taken,       \* the event each worker has taken
    starts,      \* how often the pool was started
    stale        \* the nulls that were in the port when it was started last

poolVars == <<stopFlag, threads, control, toPost, port, loop, taken, starts, stale>>

\* test: at the loop's condition.  wait: in GetQueuedCompletionStatus.
\* dispatch: in the owner's Dispatch.  ended: not running.
LoopPlaces == {"test", "wait", "dispatch", "ended"}

Ended == {w \in threads : loop[w] = "ended"}
Nulls == Cardinality({i \in DOMAIN port : port[i] = Null})

PoolInit ==
    /\ stopFlag = FALSE
    /\ threads = {}
    /\ control = "idle" /\ toPost = 0
    /\ port = <<>>
    /\ loop = [w \in Pool |-> "ended"]
    /\ taken = [w \in Pool |-> Null]
    /\ starts = 0 /\ stale = 0

-----------------------------------------------------------------------------
(* StartWorkerThreads: with threads running it returns at once. *)

StartWorkerThreads ==
    /\ control = "idle" /\ threads = {}
    /\ starts < MaxStarts
    /\ stopFlag' = FALSE
    /\ threads' = Pool
    /\ loop' = [w \in Pool |-> "test"]
    /\ starts' = starts + 1
    /\ stale' = Nulls
    /\ UNCHANGED <<control, toPost, port, taken>>

-----------------------------------------------------------------------------
(* StopWorkerThreads *)

\* (mutant) One worker goes without a null.
PostToAllButOne == Cardinality(threads) - 1

PostToAll == Cardinality(threads)

StopWorkerThreads ==
    /\ control = "idle" /\ threads # {}
    /\ stopFlag' = TRUE
    /\ toPost' = PostToAll
    /\ control' = "post"
    /\ UNCHANGED <<threads, port, loop, taken, starts, stale>>

PostNull ==
    /\ control = "post" /\ toPost > 0
    /\ port' = Append(port, Null)
    /\ toPost' = toPost - 1
    /\ UNCHANGED <<stopFlag, threads, control, loop, taken, starts, stale>>

\* The joins return when every worker has left.
Join ==
    /\ control = "post" /\ toPost = 0
    /\ Ended = threads
    /\ threads' = {}
    /\ control' = "idle"
    /\ UNCHANGED <<stopFlag, toPost, port, loop, taken, starts, stale>>

Control == StartWorkerThreads \/ StopWorkerThreads \/ PostNull \/ Join

-----------------------------------------------------------------------------
(* WorkerThreadMain *)

\* (mutant) The byte count alone marks the null: any empty completion does.
EndsIfEmpty(c) == c \in {Null} \cup {e \in Events : e[1] = "disconnect"}

Ends(c) == c = Null

Test(w) ==
    /\ loop[w] = "test"
    /\ loop' = [loop EXCEPT ![w] = IF stopFlag THEN "ended" ELSE "wait"]
    /\ UNCHANGED <<stopFlag, threads, control, toPost, port, taken, starts, stale>>

TakeNull(w) ==
    /\ loop[w] = "wait" /\ port # <<>> /\ Ends(Head(port))
    /\ port' = Tail(port)
    /\ loop' = [loop EXCEPT ![w] = "ended"]
    /\ UNCHANGED <<stopFlag, threads, control, toPost, taken, starts, stale>>

\* Completions of operations that failed come the same way.
TakeEvent(w) ==
    /\ loop[w] = "wait" /\ port # <<>> /\ ~Ends(Head(port))
    /\ port' = Tail(port)
    /\ taken' = [taken EXCEPT ![w] = Head(port)]
    /\ loop' = [loop EXCEPT ![w] = "dispatch"]
    /\ UNCHANGED <<stopFlag, threads, control, toPost, starts, stale>>

\* The owner's Dispatch starts to handle the event; the worker is back at the
\* test when it has returned.
Dispatch(w) ==
    /\ loop[w] = "dispatch"
    /\ taken' = [taken EXCEPT ![w] = Null]
    /\ loop' = [loop EXCEPT ![w] = "test"]
    /\ UNCHANGED <<stopFlag, threads, control, toPost, port, starts, stale>>

\* The system queues the completion of an operation.
Complete(e) ==
    /\ \A i \in DOMAIN port : port[i] # e
    /\ \A w \in Pool : taken[w] # e
    /\ port' = Append(port, e)
    /\ UNCHANGED <<stopFlag, threads, control, toPost, loop, taken, starts, stale>>

-----------------------------------------------------------------------------

\* Every variable has its type; a worker holds an event exactly while it
\* dispatches it, and an event is in one place at most.
PoolTypeOK ==
    /\ stopFlag \in BOOLEAN
    /\ threads \in {{}, Pool}
    /\ control \in {"idle", "post"} /\ toPost \in 0 .. Cardinality(Pool)
    /\ port \in Seq(Events \cup {Null})
    /\ loop \in [Pool -> LoopPlaces]
    /\ taken \in [Pool -> Events \cup {Null}]
    /\ starts \in 0 .. MaxStarts /\ stale \in Nat
    /\ \A w \in Pool : (loop[w] = "dispatch") <=> (taken[w] # Null)

\* As long as nobody stops the pool it has lost as many workers as it has used
\* up nulls that were in the port when it was started, and none otherwise.
PoolKeepsItsWorkers ==
    threads # {} /\ ~stopFlag => Cardinality(Ended) + Nulls = stale

\* Whoever waits while the pool stops finds a null, now or when the rest has
\* been posted.
NullsSuffice ==
    control = "post" =>
        Cardinality({w \in threads : loop[w] = "wait"}) <= Nulls + toPost

\* No worker ends without a null or the flag, and none waits for ever in a
\* pool that stops: that is why StopWorkerThreads may join them all.
NullsAccounted == PoolKeepsItsWorkers /\ NullsSuffice
=============================================================================
