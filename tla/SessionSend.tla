---------------------------- MODULE SessionSend -----------------------------
(***************************************************************************)
(* The sending half of a Session (ServerCore/Session.cpp): the queue, the  *)
(* _sendRegistered flag that decides which thread may use the one          *)
(* _sendEvent, and the overlapped WSASend it carries.                      *)
(*                                                                         *)
(* Every thread of the server may call Send: the IOCP workers, whose       *)
(* packet handlers broadcast, and the main thread, whose GameRoom::Update  *)
(* broadcasts.  Only workers take completions off the port.  A step of a   *)
(* thread is the code between two accesses to what other threads touch;    *)
(* a WRITE_LOCK section is one step.                                       *)
(*                                                                         *)
(* A session can be reached by senders only from ProcessConnect on, so     *)
(* the behaviour starts with a connected session and an idle send path.    *)
(***************************************************************************)
EXTENDS Naturals, Sequences, FiniteSets

CONSTANTS
    Threads,     \* all threads that may call Send
    Workers,     \* the ones that also dispatch completions
    MaxSends     \* bound: how many buffers are ever handed to Send

ASSUME ThreadsAssumption == Workers \subseteq Threads
ASSUME MaxSendsAssumption == MaxSends \in Nat

VARIABLES
    connected,        \* Session::_connected
    sendQueue,        \* Session::_sendQueue
    sendRegistered,   \* Session::_sendRegistered
    sendBuffers,      \* _sendEvent.sendBuffers: keeps the memory alive
    owner,            \* TRUE while _sendEvent.owner refers to the session
    ops,              \* the overlapped sends the system holds
    pc,               \* where each thread is in Send / ProcessSend
    accepted,         \* history: buffers accepted so far
    wire,             \* history: buffers transmitted, in order
    lastSubmit        \* history: what the latest WSASend call returned

sendVars == <<sendQueue, sendRegistered, sendBuffers, owner>>
vars == <<connected, sendQueue, sendRegistered, sendBuffers, owner, ops, pc,
          accepted, wire, lastSubmit>>

\* An overlapped operation: pending in the system, or completed (with its
\* bytes, or with none) and waiting in the completion port.
Op == [batch: Seq(1..MaxSends), status: {"pending", "sent", "failed"}]

PC == {"idle", "register", "drain", "submit", "reset", "failed", "release",
       "unregister", "next"}

Init ==
    /\ connected = TRUE
    /\ sendQueue = <<>>
    /\ sendRegistered = FALSE
    /\ sendBuffers = <<>>
    /\ owner = FALSE
    /\ ops = {}
    /\ pc = [t \in Threads |-> "idle"]
    /\ accepted = 0
    /\ wire = <<>>
    /\ lastSubmit = "none"

Goto(t, from, to) == pc[t] = from /\ pc' = [pc EXCEPT ![t] = to]

-----------------------------------------------------------------------------
(* Session::Send *)

\* (mutant) The thread registers whatever it found in the flag.
SendUnconditionally(t) ==
    /\ accepted < MaxSends
    /\ Goto(t, "idle", "register")
    /\ accepted' = accepted + 1
    /\ sendQueue' = Append(sendQueue, accepted + 1)
    /\ sendRegistered' = TRUE
    /\ UNCHANGED <<connected, sendBuffers, owner, ops, wire, lastSubmit>>

\* Under the lock: queue the buffer and exchange the flag; the thread that
\* found it clear goes on to RegisterSend.
Send(t) ==
    /\ accepted < MaxSends
    /\ Goto(t, "idle", IF sendRegistered THEN "idle" ELSE "register")
    /\ accepted' = accepted + 1
    /\ sendQueue' = Append(sendQueue, accepted + 1)
    /\ sendRegistered' = TRUE
    /\ UNCHANGED <<connected, sendBuffers, owner, ops, wire, lastSubmit>>

-----------------------------------------------------------------------------
(* Session::RegisterSend *)

\* A session that is no longer connected is left as it is: the flag stays set.
RegisterSendCheck(t) ==
    /\ Goto(t, "register", IF connected THEN "drain" ELSE "idle")
    /\ owner' = (connected \/ owner)
    /\ UNCHANGED <<connected, sendQueue, sendRegistered, sendBuffers, ops,
                   accepted, wire, lastSubmit>>

\* (mutant) The buffers are copied and the queue is not popped.
DrainWithoutPop(t) ==
    /\ Goto(t, "drain", "submit")
    /\ sendBuffers' = sendBuffers \o sendQueue
    /\ UNCHANGED <<connected, sendQueue, sendRegistered, owner, ops, accepted,
                   wire, lastSubmit>>

\* (mutant) The buffers are taken from the wrong end of the queue.
DrainNewestFirst(t) ==
    /\ Goto(t, "drain", "submit")
    /\ sendBuffers' = [i \in DOMAIN sendQueue |-> sendQueue[Len(sendQueue) - i + 1]]
    /\ sendQueue' = <<>>
    /\ UNCHANGED <<connected, sendRegistered, owner, ops, accepted, wire,
                   lastSubmit>>

\* Under the lock: move the whole queue into the event.
RegisterSendDrain(t) ==
    /\ Goto(t, "drain", "submit")
    /\ sendBuffers' = sendBuffers \o sendQueue
    /\ sendQueue' = <<>>
    /\ UNCHANGED <<connected, sendRegistered, owner, ops, accepted, wire,
                   lastSubmit>>

\* (mutant) The references are dropped when the call returns, not when the
\* operation completes.
SubmitAndRelease(t) ==
    /\ Goto(t, "submit", "idle")
    /\ ops' = ops \cup {[batch |-> sendBuffers, status |-> "pending"]}
    /\ sendBuffers' = <<>>
    /\ lastSubmit' = "ok"
    /\ UNCHANGED <<connected, sendQueue, sendRegistered, owner, accepted, wire>>

\* WSASend takes the operation (at once or pending, the completion comes
\* through the port either way) ...
SubmitAccepted(t) ==
    /\ Goto(t, "submit", "idle")
    /\ ops' = ops \cup {[batch |-> sendBuffers, status |-> "pending"]}
    /\ lastSubmit' = "ok"
    /\ UNCHANGED <<connected, sendVars, accepted, wire>>

\* ... or fails in the call: with a reset or aborted connection, or with
\* another error, which HandleError only logs.
SubmitRefused(t) ==
    /\ \E error \in {"reset", "failed"} :
          /\ Goto(t, "submit", error)
          /\ lastSubmit' = error
    /\ UNCHANGED <<connected, sendVars, ops, accepted, wire>>

HandleError(t) ==
    /\ \/ Goto(t, "reset", "release") /\ connected' = FALSE
       \/ Goto(t, "failed", "release") /\ UNCHANGED connected
    /\ UNCHANGED <<sendVars, ops, accepted, wire, lastSubmit>>

ReleaseBuffers(t) ==
    /\ Goto(t, "release", "unregister")
    /\ owner' = FALSE
    /\ sendBuffers' = <<>>
    /\ UNCHANGED <<connected, sendQueue, sendRegistered, ops, accepted, wire,
                   lastSubmit>>

\* The flag is cleared outside the lock and without another look at the queue.
Unregister(t) ==
    /\ Goto(t, "unregister", "idle")
    /\ sendRegistered' = FALSE
    /\ UNCHANGED <<connected, sendQueue, sendBuffers, owner, ops, accepted,
                   wire, lastSubmit>>

-----------------------------------------------------------------------------
(* The system: an operation ends with all its bytes on the wire, or with    *)
(* none.  One that carries nothing can only report zero bytes.              *)

Replace(op, status) ==
    ops' = (ops \ {op}) \cup {[op EXCEPT !.status = status]}

Transmit ==
    /\ \E op \in ops :
          /\ op.status = "pending"
          /\ op.batch # <<>>
          /\ Replace(op, "sent")
          /\ wire' = wire \o op.batch
    /\ UNCHANGED <<connected, sendVars, pc, accepted, lastSubmit>>

Abort ==
    /\ \E op \in ops : op.status = "pending" /\ Replace(op, "failed")
    /\ UNCHANGED <<connected, sendVars, pc, accepted, wire, lastSubmit>>

-----------------------------------------------------------------------------
(* Session::ProcessSend, on the worker that takes the completion *)

\* (mutant) The worker stops there and leaves the flag set.
ProcessSendAndStop(w) ==
    /\ owner
    /\ \E op \in ops :
          /\ op.status \in {"sent", "failed"}
          /\ ops' = ops \ {op}
          /\ connected' = (connected /\ op.status = "sent")
    /\ owner' = FALSE
    /\ sendBuffers' = <<>>
    /\ pc[w] = "idle"
    /\ UNCHANGED <<sendQueue, sendRegistered, pc, accepted, wire, lastSubmit>>

\* Zero bytes end the connection and leave the flag set.
ProcessSend(w) ==
    /\ owner
    /\ \E op \in ops :
          /\ op.status \in {"sent", "failed"}
          /\ ops' = ops \ {op}
          /\ Goto(w, "idle", IF op.status = "sent" THEN "next" ELSE "idle")
          /\ connected' = (connected /\ op.status = "sent")
    /\ owner' = FALSE
    /\ sendBuffers' = <<>>
    /\ UNCHANGED <<sendQueue, sendRegistered, accepted, wire, lastSubmit>>

\* (mutant) The flag is cleared without a look at the queue.
ProcessNextBlind(w) ==
    /\ Goto(w, "next", "idle")
    /\ sendRegistered' = FALSE
    /\ UNCHANGED <<connected, sendQueue, sendBuffers, owner, ops, accepted,
                   wire, lastSubmit>>

\* (mutant) The next send is registered even if nothing waits.
ProcessNextAlways(w) ==
    /\ Goto(w, "next", "register")
    /\ UNCHANGED <<connected, sendQueue, sendRegistered, sendBuffers, owner, ops,
                   accepted, wire, lastSubmit>>

\* Under the lock: clear the flag if nothing waits, else send again.
ProcessNext(w) ==
    /\ Goto(w, "next", IF sendQueue = <<>> THEN "idle" ELSE "register")
    /\ sendRegistered' = (sendQueue # <<>>)
    /\ UNCHANGED <<connected, sendQueue, sendBuffers, owner, ops, accepted,
                   wire, lastSubmit>>

\* The receiving half (or another failing call) disconnects the session.
Disconnect ==
    /\ connected
    /\ connected' = FALSE
    /\ UNCHANGED <<sendVars, ops, pc, accepted, wire, lastSubmit>>

-----------------------------------------------------------------------------

RegisterSend(t) ==
    \/ RegisterSendCheck(t)
    \/ RegisterSendDrain(t)
    \/ SubmitAccepted(t)
    \/ SubmitRefused(t)
    \/ HandleError(t)
    \/ ReleaseBuffers(t)
    \/ Unregister(t)

Next ==
    \/ \E t \in Threads : Send(t) \/ RegisterSend(t)
    \/ \E w \in Workers : ProcessSend(w) \/ ProcessNext(w)
    \/ Transmit
    \/ Abort
    \/ Disconnect

Spec == Init /\ [][Next]_vars

\* A thread inside a call keeps running, the system completes what it was
\* given, and some worker picks a completion up.  Nothing makes anybody call
\* Send, and nothing makes a connection fail.
Fairness ==
    /\ \A t \in Threads : WF_vars(RegisterSend(t))
    /\ \A w \in Workers : WF_vars(ProcessNext(w))
    /\ WF_vars(\E w \in Workers : ProcessSend(w))
    /\ WF_vars(Transmit \/ Abort)

FairSpec == Spec /\ Fairness

-----------------------------------------------------------------------------

\* Threads that may touch _sendEvent.
Holders == {t \in Threads : pc[t] # "idle"}

\* Every variable holds a value of its kind, and no more buffers are
\* transmitted than were accepted.
TypeOK ==
    /\ connected \in BOOLEAN
    /\ sendQueue \in Seq(1..MaxSends)
    /\ sendRegistered \in BOOLEAN
    /\ sendBuffers \in Seq(1..MaxSends)
    /\ owner \in BOOLEAN
    /\ ops \subseteq Op
    /\ pc \in [Threads -> PC]
    /\ accepted \in 0..MaxSends
    /\ wire \in Seq(1..MaxSends) /\ Len(wire) <= accepted
    /\ lastSubmit \in {"none", "ok", "reset", "failed"}

\* The one OVERLAPPED of the session has one user at a time: two threads are
\* never both between taking the flag and giving it up, and none is while an
\* operation is in the system or its completion waits (RegisterSend would
\* reset the OVERLAPPED of an operation under way).
ExclusiveSendEvent ==
    /\ \A t, u \in Holders : t = u
    /\ \A o, p \in ops : o = p
    /\ Holders # {} => ops = {}

\* While the system works on an operation, the event still refers to exactly
\* its buffers and to the session: nothing it reads has been released.
BuffersHeld ==
    \A op \in ops : owner /\ op.batch = sendBuffers

\* WSASend is never called with no buffers: its completion with zero bytes
\* would be read as the end of the connection.
NoEmptySubmit ==
    /\ \A t \in Threads : pc[t] = "submit" => sendBuffers # <<>>
    /\ \A op \in ops : op.batch # <<>>

\* A buffer waits in the queue of a connected session with nobody there to
\* send it only after WSASend failed in the call with an error HandleError
\* merely logs: the flag was cleared after the queue had been filled again.
NothingStranded ==
    connected /\ sendQueue # <<>> /\ Holders = {} /\ ops = {}
        => lastSubmit = "failed"

InSeq(n, s) == \E i \in DOMAIN s : s[i] = n

\* A buffer that Send accepted leaves the queue for the wire unless the
\* connection fails or a WSASend call does.
EventuallySent ==
    \A n \in 1..MaxSends :
        InSeq(n, sendQueue) ~>
            (InSeq(n, wire) \/ ~connected \/ lastSubmit \in {"reset", "failed"})

-----------------------------------------------------------------------------
(* Buffers that are still owed to the peer: the ones in the event, unless   *)
(* the operation that carries them has ended, then the queue.               *)

Ended == \E op \in ops : op.status \in {"sent", "failed"}

Backlog == (IF Ended THEN <<>> ELSE sendBuffers) \o sendQueue

Channel == INSTANCE OrderedChannel
             WITH backlog <- Backlog, delivered <- wire

\* The send path implements the ordered channel: acceptance order on the
\* wire, no buffer twice, losses only at the old end of the backlog.
ImplementsChannel == Channel!Spec
=============================================================================
