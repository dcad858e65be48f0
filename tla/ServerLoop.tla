----------------------------- MODULE ServerLoop -----------------------------
(***************************************************************************)
(* The sessions of SessionLifecycle, dispatched by the worker threads of   *)
(* IocpWorkers: an operation that is under way completes, its event goes   *)
(* through the port, and the worker that takes it runs the owner's handler *)
(* to the end before it looks at the port again.                           *)
(***************************************************************************)
EXTENDS SessionLifecycle, IocpWorkers

ASSUME OnePool == Pool = Workers

Event(kind, owner) == <<kind, owner>>

\* The events of operations that are under way.
UnderWay ==
    {Event("accept", e) : e \in listening}
        \cup {Event("recv", s) : s \in receiving}
        \cup {Event("send", s) : s \in {x \in Sessions : send[x] = "sending"}}
        \cup {Event("disconnect", s) : s \in leaving}

LoopInit == Init /\ PoolInit

loopVars == <<vars, poolVars>>

\* The system completes an operation.
SystemCompletes(c) ==
    /\ c \in UnderWay
    /\ Complete(c)
    /\ UNCHANGED vars

\* The handlers that Listener::Dispatch and Session::Dispatch call.
Handler(w, c) ==
    CASE c[1] = "accept" -> ProcessAccept(w, c[2])
      [] c[1] = "recv" -> ProcessRecv(w, c[2])
      [] c[1] = "send" -> ProcessSend(w, c[2])
      [] c[1] = "disconnect" -> ProcessDisconnect(w, c[2])

WorkerDispatches(w) == Dispatch(w) /\ Handler(w, taken[w])

WorkerTests(w) == ~Busy(w) /\ Test(w) /\ UNCHANGED vars
WorkerTakes(w) == (TakeNull(w) \/ TakeEvent(w)) /\ UNCHANGED vars

WorkerRuns(w) == Run(w) /\ UNCHANGED poolVars

WorkerStep(w) == WorkerTests(w) \/ WorkerTakes(w) \/ WorkerDispatches(w) \/ WorkerRuns(w)

\* The main thread starts the pool, updates the room, and stops the pool.
MainControls == ~Busy(Main) /\ Control /\ UNCHANGED vars
MainUpdates == control = "idle" /\ Update /\ UNCHANGED poolVars
MainRuns == Run(Main) /\ UNCHANGED poolVars

LoopNext ==
    \/ \E c \in Events : SystemCompletes(c)
    \/ \E w \in Workers : WorkerStep(w)
    \/ MainControls \/ MainUpdates \/ MainRuns

\* Every thread goes on, and a stop that was called with it; what the system
\* has taken completes, save a receive on a connection that is in use.
\* Nothing makes anybody start or stop the pool, or update the room.
LoopFairness ==
    /\ \A w \in Workers : WF_loopVars(WorkerStep(w))
    /\ WF_loopVars(MainRuns)
    /\ WF_loopVars(~Busy(Main) /\ (PostNull \/ Join) /\ UNCHANGED vars)
    /\ \A s \in Sessions :
          /\ WF_loopVars(SystemCompletes(Event("send", s)))
          /\ WF_loopVars(SystemCompletes(Event("disconnect", s)))
          /\ WF_loopVars(s \notin connected /\ SystemCompletes(Event("recv", s)))

LoopSpec == LoopInit /\ [][LoopNext]_loopVars /\ LoopFairness

-----------------------------------------------------------------------------

\* An event that waits in the port or in the hands of a worker belongs to an
\* operation that is still under way: nobody uses an OVERLAPPED again, or
\* resets its owner, before its completion has been handled.
CompletionsOfOperations ==
    /\ \A i \in DOMAIN port : port[i] # Null => port[i] \in UnderWay
    /\ \A w \in Workers : taken[w] # Null => taken[w] \in UnderWay

\* A thread has used a session that had been destroyed.
SomebodyLost == \E t \in Threads : At(t, "lost")

\* Nobody takes completions any more.
PoolGone == stopFlag \/ \A w \in Workers : loop[w] = "ended"

\* A session that is disconnected is destroyed in the end, unless its player
\* has become a ghost, the pool has been stopped or been ended by stale nulls,
\* or a thread was lost: no event, set or call keeps it for ever.
EventuallyDestroyed ==
    \A s \in Sessions :
        (\E c \in Calls : c.at = "unmanage" /\ c.session = s)
            ~> (~Alive(s) \/ Ghost(s) \/ PoolGone \/ SomebodyLost)

\* A stop returns, whatever the workers are doing, unless a thread was lost.
StopReturns == control = "post" ~> control = "idle" \/ SomebodyLost
=============================================================================
