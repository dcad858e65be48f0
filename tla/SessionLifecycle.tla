-------------------------- MODULE SessionLifecycle --------------------------
(***************************************************************************)
(* A session from its AcceptEx to its last reference: the Listener, the    *)
(* Service's set of sessions, the GameSessionManager, the room's map of    *)
(* players, and the overlapped operations that keep a session alive.       *)
(*                                                                         *)
(* A thread is a stack of the calls it is in.  Send may fail in any of     *)
(* them, which disconnects the session it was called on, and that sends    *)
(* to others, so calls nest.  A step is the code between two accesses to   *)
(* what other threads touch.                                               *)
(*                                                                         *)
(* Broadcast takes no reference to a session between finding its player    *)
(* and the end of Send, so a session may be destroyed while a thread is    *)
(* in its Send.  Such a thread finds the memory as it was left, or is      *)
(* lost: what it, and the program, do then is undefined, and the model     *)
(* leaves it where it is.                                                  *)
(*                                                                         *)
(* The room's map is taken to survive concurrent handlers (it has no       *)
(* lock), and the assertion of ReleaseSession to be compiled in, as in the *)
(* builds in which main starts the service at all.                         *)
(***************************************************************************)
EXTENDS Naturals, Sequences, FiniteSets

CONSTANTS
    Workers,     \* the threads that dispatch completions
    Main,        \* the thread that updates the room
    Accepts,     \* the accept events, maxSessionCount of them
    Sessions,    \* bound: the sessions that are ever created
    NoSession

ASSUME ThreadsAssumption == Main \notin Workers
ASSUME SessionsAssumption == NoSession \notin Sessions

Threads == Workers \cup {Main}

VARIABLES
    offered,      \* IocpEvent::session of each accept event
    listening,    \* accept events whose AcceptEx is under way
    fresh,        \* sessions that have not been created yet
    connected,    \* Session::_connected
    service,      \* Service::_sessions
    manager,      \* GameSessionManager::_sessions
    room,         \* sessions whose player is in GameRoom::_players
    receiving,    \* sessions whose _recvEvent is under way
    send,         \* what the _sendEvent of each session is doing
    leaving,      \* sessions whose _disconnectEvent is under way
    stack         \* the calls each thread is in, innermost first

events == <<offered, listening, fresh>>
vars == <<offered, listening, fresh, connected, service, manager, room,
          receiving, send, leaving, stack>>

\* free: _sendRegistered is clear.  taken: it is set, owner is not, and a call
\* goes on from there.  held: owner is set, and WSASend is still to come or
\* has failed.  sending: an operation is under way.  stuck: set for good.
SendStates == {"free", "taken", "held", "sending", "stuck"}

\* Where a call is: the steps of ProcessConnect, ...
Connecting == {"connect", "list", "manage", "greet", "tell", "enter",
               "announce", "receive", "accept"}
\* ... of ProcessRecv and of a dispatch that only has to return, ...
Dispatching == {"handle", "again", "return"}
\* ... of Disconnect, ...
Disconnecting == {"disconnect", "unmanage", "leave", "farewell", "unlist", "hangup"}
\* ... of Send, RegisterSend and RegisterRecv; clear comes after the reference.
Registering == {"send", "register", "own", "submit", "forget", "clear", "post"}

\* The places of these where a call is in GameRoom::Broadcast.
Broadcasting == {"announce", "handle", "farewell", "update"}

Places == Connecting \cup Dispatching \cup Disconnecting \cup Registering
            \cup {"update", "lost"}

\* todo: the sessions that are still to be sent to before the call goes on.
Frame(at, s, todo) == [at |-> at, session |-> s, todo |-> todo]
Call(at, s) == Frame(at, s, {})
Frames == [at : Places, session : Sessions \cup {NoSession}, todo : SUBSET Sessions]

Init ==
    /\ offered \in [Accepts -> Sessions]
    /\ \A d, e \in Accepts : offered[d] = offered[e] => d = e
    /\ listening = Accepts
    /\ fresh = {s \in Sessions : \A e \in Accepts : offered[e] # s}
    /\ connected = {} /\ service = {} /\ manager = {} /\ room = {}
    /\ receiving = {} /\ leaving = {}
    /\ send = [s \in Sessions |-> "free"]
    /\ stack = [t \in Threads |-> <<>>]

Busy(t) == stack[t] # <<>>
Top(t) == Head(stack[t])

\* The innermost call of t is at this place and has nothing left to send.
At(t, place) == Busy(t) /\ Top(t).at = place /\ Top(t).todo = {}

\* The innermost call is replaced by these calls.
Become(t, calls) == stack' = [stack EXCEPT ![t] = calls \o Tail(@)]
Goto(t, place) == Become(t, <<Call(place, Top(t).session)>>)
GotoSending(t, place, todo) == Become(t, <<Frame(place, Top(t).session, todo)>>)
Return(t) == Become(t, <<>>)

\* The calls the threads are in.
Calls == UNION {{stack[t][i] : i \in DOMAIN stack[t]} : t \in Threads}
InCall(s) == \E c \in Calls : c.session = s

\* Calls that hold a reference of their own: the local variables of the
\* dispatching thread and the arguments of OnDisconnected's calls.  The ones
\* that do not rely on their caller or on an event.
Holding == Connecting \cup Dispatching \cup {"unmanage", "leave", "farewell", "unlist"}

\* Somebody refers to the session: otherwise it has been destroyed.
Alive(s) ==
    \/ s \in service \cup manager \cup room \cup receiving \cup leaving
    \/ \E e \in Accepts : offered[e] = s
    \/ send[s] \in {"sending", "held"}
    \/ \E c \in Calls : c.session = s /\ c.at \in Holding

-----------------------------------------------------------------------------
(* Listener *)

\* RegisterAccept offers a new session; with none left the listener rests.
\* (An AcceptEx that fails is tried again at once with yet another one.)
RegisterAccept(e) ==
    \/ \E s \in fresh :
          /\ offered' = [offered EXCEPT ![e] = s]
          /\ listening' = listening \cup {e}
          /\ fresh' = fresh \ {s}
    \/ /\ fresh = {}
       /\ offered' = [offered EXCEPT ![e] = NoSession]
       /\ UNCHANGED <<listening, fresh>>

\* (mutant) A failure ends the handler.
ProcessAcceptAndStop(w, e) ==
    /\ ~Busy(w) /\ e \in listening
    /\ listening' = listening \ {e}
    /\ stack' \in {stack, [stack EXCEPT ![w] = <<Call("connect", offered[e])>>]}
    /\ UNCHANGED <<offered, fresh, connected, service, manager, room, receiving,
                   send, leaving>>

\* A client has connected: its session goes through ProcessConnect, or it is
\* gone again before its address can be taken.
ProcessAccept(w, e) ==
    /\ ~Busy(w) /\ e \in listening
    /\ listening' = listening \ {e}
    /\ \E place \in {"connect", "accept"} :
          stack' = [stack EXCEPT ![w] = <<Call(place, offered[e])>>]
    /\ UNCHANGED <<offered, fresh, connected, service, manager, room, receiving,
                   send, leaving>>

AcceptNext(t) ==
    /\ At(t, "accept")
    /\ \E e \in Accepts : offered[e] = Top(t).session /\ RegisterAccept(e)
    /\ Return(t)
    /\ UNCHANGED <<connected, service, manager, room, receiving, send, leaving>>

-----------------------------------------------------------------------------
(* Session::ProcessConnect, GameSession::OnConnected, GameRoom::EnterRoom *)

\* (mutant) The session is never listed.
ConnectUnlisted(t) ==
    /\ At(t, "connect")
    /\ connected' = connected \cup {Top(t).session}
    /\ Goto(t, "manage")
    /\ UNCHANGED <<events, service, manager, room, receiving, send, leaving>>

Connect(t) ==
    /\ At(t, "connect")
    /\ connected' = connected \cup {Top(t).session}
    /\ Goto(t, "list")
    /\ UNCHANGED <<events, service, manager, room, receiving, send, leaving>>

AddSession(t) ==
    /\ At(t, "list")
    /\ service' = service \cup {Top(t).session}
    /\ Goto(t, "manage")
    /\ UNCHANGED <<events, connected, manager, room, receiving, send, leaving>>

\* Then S_EnterGame is sent, and S_MyPlayer and S_AddObject.
AddToManager(t) ==
    /\ At(t, "manage")
    /\ manager' = manager \cup {Top(t).session}
    /\ GotoSending(t, "greet", {Top(t).session})
    /\ UNCHANGED <<events, connected, service, room, receiving, send, leaving>>

TellRoom(t) ==
    /\ At(t, "greet")
    /\ GotoSending(t, "tell", {Top(t).session})
    /\ UNCHANGED <<events, connected, service, manager, room, receiving, send,
                   leaving>>

BeforeEnter(t) ==
    /\ At(t, "tell")
    /\ Goto(t, "enter")
    /\ UNCHANGED <<events, connected, service, manager, room, receiving, send,
                   leaving>>

\* The player is among _players, whatever has become of its session, and
\* everybody there is told.
EnterRoom(t) ==
    /\ At(t, "enter")
    /\ room' = room \cup {Top(t).session}
    /\ GotoSending(t, "announce", room')
    /\ UNCHANGED <<events, connected, service, manager, receiving, send, leaving>>

AfterEnter(t) ==
    /\ At(t, "announce")
    /\ Goto(t, "receive")
    /\ UNCHANGED <<events, connected, service, manager, room, receiving, send,
                   leaving>>

-----------------------------------------------------------------------------
(* Session::ProcessRecv, RegisterRecv *)

\* No bytes end the connection; a packet may make its handler broadcast.
ProcessRecv(w, s) ==
    /\ ~Busy(w) /\ s \in receiving
    /\ receiving' = receiving \ {s}
    /\ \E calls \in {<<Call("disconnect", s), Call("return", s)>>,
                     <<Call("handle", s)>>, <<Frame("handle", s, room)>>} :
          stack' = [stack EXCEPT ![w] = calls]
    /\ UNCHANGED <<events, connected, service, manager, room, send, leaving>>

Handled(t) ==
    /\ At(t, "handle")
    /\ Goto(t, "again")
    /\ UNCHANGED <<events, connected, service, manager, room, receiving, send,
                   leaving>>

\* Not for a session that is no longer connected.
RegisterRecv(t) ==
    /\ At(t, "receive") \/ At(t, "again")
    /\ LET s == Top(t).session
           then == IF Top(t).at = "receive" THEN "accept" ELSE "return"
       IN  IF s \in connected
           THEN Become(t, <<Call("post", s), Call(then, s)>>)
           ELSE Goto(t, then)
    /\ UNCHANGED <<events, connected, service, manager, room, receiving, send,
                   leaving>>

\* WSARecv is taken, or fails with an error that is only logged, or with one
\* that disconnects.
PostRecv(t) ==
    /\ At(t, "post")
    /\ \/ /\ receiving' = receiving \cup {Top(t).session}
          /\ Return(t)
       \/ /\ Return(t) \/ Goto(t, "disconnect")
          /\ UNCHANGED receiving
    /\ UNCHANGED <<events, connected, service, manager, room, send, leaving>>

-----------------------------------------------------------------------------
(* Session::Send, RegisterSend, ProcessSend *)

\* One of the sends a call has to do.  In a broadcast the session is found
\* among the players; one who has left meanwhile is passed over.
SendNext(t) ==
    /\ Busy(t)
    /\ \E s \in Top(t).todo :
          LET below == <<[Top(t) EXCEPT !.todo = @ \ {s}]>>
          IN  IF Top(t).at \in Broadcasting /\ s \notin room
              THEN Become(t, below)
              ELSE Become(t, <<Call("send", s)>> \o below)
    /\ UNCHANGED <<events, connected, service, manager, room, receiving, send,
                   leaving>>

\* The buffer is queued; who finds the flag clear goes on to RegisterSend.
Send(t) ==
    /\ At(t, "send")
    /\ LET s == Top(t).session
       IN  IF send[s] = "free"
           THEN send' = [send EXCEPT ![s] = "taken"] /\ Goto(t, "register")
           ELSE Return(t) /\ UNCHANGED send
    /\ UNCHANGED <<events, connected, service, manager, room, receiving, leaving>>

\* Without a connection the flag stays set for good.
RegisterSend(t) ==
    /\ At(t, "register")
    /\ LET s == Top(t).session
       IN  IF s \in connected
           THEN Goto(t, "own") /\ UNCHANGED send
           ELSE send' = [send EXCEPT ![s] = "stuck"] /\ Return(t)
    /\ UNCHANGED <<events, connected, service, manager, room, receiving, leaving>>

\* The event takes a reference, of which there has to be one still.
OwnSend(t) ==
    /\ At(t, "own")
    /\ Alive(Top(t).session)
    /\ send' = [send EXCEPT ![Top(t).session] = "held"]
    /\ Goto(t, "submit")
    /\ UNCHANGED <<events, connected, service, manager, room, receiving, leaving>>

\* (mutant) The reference is given up before the error is handled.
RefusedForgetFirst(t) ==
    /\ send' = [send EXCEPT ![Top(t).session] = "taken"]
    /\ \/ Goto(t, "clear")
       \/ Become(t, <<Call("disconnect", Top(t).session), Call("clear", Top(t).session)>>)

\* WSASend fails: HandleError disconnects or only logs, then the event is
\* given up.
Refused(t) ==
    /\ \/ Goto(t, "forget")
       \/ Become(t, <<Call("disconnect", Top(t).session), Call("forget", Top(t).session)>>)
    /\ UNCHANGED send

SubmitSend(t) ==
    /\ At(t, "submit")
    /\ \/ /\ send' = [send EXCEPT ![Top(t).session] = "sending"]
          /\ Return(t)
       \/ Refused(t)
    /\ UNCHANGED <<events, connected, service, manager, room, receiving, leaving>>

Forget(t) ==
    /\ At(t, "forget")
    /\ send' = [send EXCEPT ![Top(t).session] = "taken"]
    /\ Goto(t, "clear")
    /\ UNCHANGED <<events, connected, service, manager, room, receiving, leaving>>

Clear(t) ==
    /\ At(t, "clear")
    /\ send' = [send EXCEPT ![Top(t).session] = "free"]
    /\ Return(t)
    /\ UNCHANGED <<events, connected, service, manager, room, receiving, leaving>>

\* (mutant) The flag is clear while the next send is prepared.
ProcessSendUnguarded(w, s) ==
    /\ ~Busy(w) /\ send[s] = "sending"
    /\ send' = [send EXCEPT ![s] = "free"]
    /\ stack' = [stack EXCEPT ![w] = <<Call("register", s), Call("return", s)>>]
    /\ UNCHANGED <<events, connected, service, manager, room, receiving, leaving>>

\* An operation with no bytes ends the connection and leaves the flag set;
\* after one with bytes the flag is cleared, or what waits is sent.
ProcessSend(w, s) ==
    /\ ~Busy(w) /\ send[s] = "sending"
    /\ \/ /\ send' = [send EXCEPT ![s] = "stuck"]
          /\ stack' = [stack EXCEPT ![w] = <<Call("disconnect", s), Call("return", s)>>]
       \/ /\ send' = [send EXCEPT ![s] = "free"]
          /\ UNCHANGED stack
       \/ /\ send' = [send EXCEPT ![s] = "taken"]
          /\ stack' = [stack EXCEPT ![w] = <<Call("register", s), Call("return", s)>>]
    /\ UNCHANGED <<events, connected, service, manager, room, receiving, leaving>>

\* A thread touches a session that has been destroyed under it.
UseDestroyed(t) ==
    /\ \E place \in {"send", "register", "own", "clear"} : At(t, place)
    /\ ~Alive(Top(t).session)
    /\ Become(t, <<Call("lost", NoSession)>>)
    /\ UNCHANGED <<events, connected, service, manager, room, receiving, send,
                   leaving>>

-----------------------------------------------------------------------------
(* Session::Disconnect, GameSession::OnDisconnected *)

\* The exchange lets only the first one pass.
Disconnect(t) ==
    /\ At(t, "disconnect")
    /\ connected' = connected \ {Top(t).session}
    /\ IF Top(t).session \in connected THEN Goto(t, "unmanage") ELSE Return(t)
    /\ UNCHANGED <<events, service, manager, room, receiving, send, leaving>>

\* (mutant) The manager is forgotten.
RemoveNobody(t) ==
    /\ At(t, "unmanage")
    /\ Goto(t, "leave")
    /\ UNCHANGED <<events, connected, service, manager, room, receiving, send,
                   leaving>>

RemoveFromManager(t) ==
    /\ At(t, "unmanage")
    /\ manager' = manager \ {Top(t).session}
    /\ Goto(t, "leave")
    /\ UNCHANGED <<events, connected, service, room, receiving, send, leaving>>

\* A session whose player is not (yet) in the room has nothing to leave; else
\* the others are told.
LeaveRoom(t) ==
    /\ At(t, "leave")
    /\ room' = room \ {Top(t).session}
    /\ IF Top(t).session \in room
       THEN GotoSending(t, "farewell", room')
       ELSE Goto(t, "unlist")
    /\ UNCHANGED <<events, connected, service, manager, receiving, send, leaving>>

AfterLeave(t) ==
    /\ At(t, "farewell")
    /\ Goto(t, "unlist")
    /\ UNCHANGED <<events, connected, service, manager, room, receiving, send,
                   leaving>>

\* (mutant) The assertion is not compiled in, and the erase in it neither.
ReleaseNothing(t) ==
    /\ At(t, "unlist")
    /\ Goto(t, "hangup")
    /\ UNCHANGED <<events, connected, service, manager, room, receiving, send,
                   leaving>>

ReleaseSession(t) ==
    /\ At(t, "unlist")
    /\ service' = service \ {Top(t).session}
    /\ Goto(t, "hangup")
    /\ UNCHANGED <<events, connected, manager, room, receiving, send, leaving>>

\* DisconnectEx is taken or fails.
RegisterDisconnect(t) ==
    /\ At(t, "hangup")
    /\ leaving' \in {leaving, leaving \cup {Top(t).session}}
    /\ Return(t)
    /\ UNCHANGED <<events, connected, service, manager, room, receiving, send>>

\* (mutant) The event keeps its owner.
ProcessDisconnectKeep(w, s) ==
    /\ ~Busy(w) /\ s \in leaving
    /\ UNCHANGED vars

ProcessDisconnect(w, s) ==
    /\ ~Busy(w) /\ s \in leaving
    /\ leaving' = leaving \ {s}
    /\ UNCHANGED <<events, connected, service, manager, room, receiving, send,
                   stack>>

-----------------------------------------------------------------------------
(* GameRoom::Update broadcasts what has changed. *)

Update ==
    /\ ~Busy(Main)
    /\ stack' = [stack EXCEPT ![Main] = <<Frame("update", NoSession, room)>>]
    /\ UNCHANGED <<events, connected, service, manager, room, receiving, send,
                   leaving>>

Returned(t) ==
    /\ At(t, "return") \/ At(t, "update")
    /\ Return(t)
    /\ UNCHANGED <<events, connected, service, manager, room, receiving, send,
                   leaving>>

-----------------------------------------------------------------------------

Run(t) ==
    \/ AcceptNext(t)
    \/ Connect(t) \/ AddSession(t) \/ AddToManager(t) \/ TellRoom(t)
    \/ BeforeEnter(t) \/ EnterRoom(t) \/ AfterEnter(t)
    \/ Handled(t) \/ RegisterRecv(t) \/ PostRecv(t)
    \/ SendNext(t) \/ Send(t) \/ RegisterSend(t) \/ OwnSend(t) \/ SubmitSend(t)
    \/ Forget(t) \/ Clear(t) \/ UseDestroyed(t)
    \/ Disconnect(t) \/ RemoveFromManager(t) \/ LeaveRoom(t) \/ AfterLeave(t)
    \/ ReleaseSession(t) \/ RegisterDisconnect(t)
    \/ Returned(t)

Next ==
    \/ \E t \in Threads : Run(t)
    \/ \E w \in Workers :
          \/ \E e \in Accepts : ProcessAccept(w, e)
          \/ \E s \in Sessions : \/ ProcessRecv(w, s)
                                 \/ ProcessSend(w, s)
                                 \/ ProcessDisconnect(w, s)
    \/ Update

Spec == Init /\ [][Next]_vars

-----------------------------------------------------------------------------

\* Every variable has its type, and the events agree with the calls: a send
\* that is being given up or renewed is nobody else's, and a receive is only
\* registered when none is under way.
TypeOK ==
    /\ offered \in [Accepts -> Sessions \cup {NoSession}]
    /\ listening \subseteq Accepts
    /\ fresh \subseteq Sessions /\ connected \subseteq Sessions
    /\ service \subseteq Sessions /\ manager \subseteq Sessions
    /\ room \subseteq Sessions /\ receiving \subseteq Sessions
    /\ leaving \subseteq Sessions
    /\ send \in [Sessions -> SendStates]
    /\ stack \in [Threads -> Seq(Frames)]
    /\ \A c \in Calls :
          /\ c.at \in {"submit", "forget"} => send[c.session] = "held"
          /\ c.at \in {"register", "own", "clear"} => send[c.session] = "taken"
          /\ c.at \in {"receive", "again", "post"} => c.session \notin receiving

\* The assertion of Service::ReleaseSession: a session is released once, and
\* never before it has been listed.
ReleaseFindsSession ==
    \A c \in Calls : c.at = "unlist" => c.session \in service

\* Once nobody works on a session any more, the service, the manager and the
\* session itself agree on whether it is connected.
RegistriesAgree ==
    \A s \in Sessions : ~InCall(s) =>
        (s \in connected <=> s \in service) /\ (s \in connected <=> s \in manager)

\* The threads whose outermost call will register the accept event again.
WillAccept(e) ==
    {t \in Threads : /\ Busy(t)
                     /\ stack[t][Len(stack[t])].at \in Connecting
                     /\ stack[t][Len(stack[t])].session = offered[e]}

\* No accept event is lost and none is used twice: while its AcceptEx is under
\* way nobody else is about to register it; when it is not, exactly one thread
\* is, or it rests because the sessions have run out.
AcceptsKept ==
    \A e \in Accepts :
        IF e \in listening
        THEN offered[e] # NoSession /\ WillAccept(e) = {}
        ELSE offered[e] = NoSession \/ \E t \in Threads : WillAccept(e) = {t}

\* The call below was in a broadcast when it called this one.
FromBroadcast(t, i) ==
    i < Len(stack[t]) /\ stack[t][i + 1].at \in Broadcasting

\* No thread is in a call on a session that has been destroyed, in two cases
\* excepted: Broadcast has found the player before another thread made it
\* leave, and has not yet come to where the event takes a reference; or a send
\* has failed and the reference given up then was the last.
KeptAlive ==
    \A t \in Threads : \A i \in DOMAIN stack[t] :
        LET c == stack[t][i]
        IN  c.session # NoSession /\ ~Alive(c.session) =>
                \/ c.at \in {"send", "register", "own"} /\ FromBroadcast(t, i)
                \/ c.at = "clear"

\* The comment at OnDisconnected: the player of a session that has been
\* disconnected leaves the game.
LeavesGame ==
    \A s \in room : s \in connected \/ InCall(s)

\* Its player is in the room and nobody will ever take it out.
Ghost(s) == s \in room \ connected /\ ~InCall(s)

\* What keeps a session that has been disconnected, and on which nobody works
\* any more, is an operation that the system will complete, or its ghost: no
\* registry and no owner of an event is left behind.
NothingLeaks ==
    \A s \in Sessions : Alive(s) /\ ~InCall(s) =>
        \/ s \in connected \/ Ghost(s)
        \/ s \in receiving \cup leaving \/ send[s] = "sending"
        \/ \E e \in listening : offered[e] = s

-----------------------------------------------------------------------------
(* The life of a session as others see it. *)

\* No client has connected, or ProcessConnect has not set the flag yet.
Expected(s) ==
    \/ \E e \in listening : offered[e] = s
    \/ \E c \in Calls : c.session = s /\ c.at = "connect"

Stage(s) ==
    IF s \in fresh THEN "unborn"
    ELSE IF ~Alive(s) THEN "destroyed"
    ELSE IF s \in connected THEN "open"
    ELSE IF Expected(s) THEN "expected" ELSE "closing"

Life == INSTANCE SessionLife WITH stage <- [s \in Sessions |-> Stage(s)]

\* Sessions live as SessionLife promises: once, without a way back, and none is
\* destroyed while it is connected.
ImplementsLife == Life!Spec
=============================================================================
