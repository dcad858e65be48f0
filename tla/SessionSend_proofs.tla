------------------------- MODULE SessionSend_proofs -------------------------
(***************************************************************************)
(* Proofs about the send path, for any number of threads and buffers.      *)
(*                                                                         *)
(* The argument: the flag is a lock in disguise.  Whoever finds it clear   *)
(* owns the event, and hands the ownership over -- to the operation it     *)
(* submits, then to the worker that takes its completion -- until somebody *)
(* clears the flag.  Ownership says what the event holds at each point.    *)
(***************************************************************************)
EXTENDS SessionSend, TLAPS, SequenceTheorems

\* Someone owns the event only while the flag is set; and a set flag nobody
\* stands behind means that the session is no longer connected.
FlagIsOwned ==
    /\ (Holders # {} \/ ops # {}) => sendRegistered
    /\ (sendRegistered /\ connected) => (Holders # {} \/ ops # {})

\* What the event and the queue hold, by where the owner is.
OwnerState ==
    /\ \A t \in Threads :
          /\ pc[t] \in {"register", "drain"} => sendQueue # <<>>
          /\ pc[t] \in {"drain", "submit", "reset", "failed", "release"} => owner
          /\ pc[t] \in {"failed", "release", "unregister"}
                => ~connected \/ lastSubmit = "failed"
    /\ (ops = {} /\ \A t \in Threads :
                       pc[t] \notin {"submit", "reset", "failed", "release"})
          => sendBuffers = <<>>

\* Every accepted buffer is counted at most once.
NothingGained == Len(wire) + Len(Backlog) <= accepted

Ownership ==
    /\ ExclusiveSendEvent
    /\ BuffersHeld
    /\ NoEmptySubmit
    /\ NothingStranded
    /\ FlagIsOwned
    /\ OwnerState

IInv == TypeOK /\ Ownership /\ NothingGained
-----------------------------------------------------------------------------

\* Two sequences of buffers can be joined, and a join is as long as its parts.
LEMMA JoinBuffers ==
    ASSUME NEW s \in Seq(1..MaxSends), NEW r \in Seq(1..MaxSends)
    PROVE  /\ s \o r \in Seq(1..MaxSends)
           /\ Len(s \o r) = Len(s) + Len(r)
           /\ s \o r = <<>> <=> s = <<>> /\ r = <<>>
<1>1. s \o r \in Seq(1..MaxSends) /\ Len(s \o r) = Len(s) + Len(r)
  BY ConcatProperties
<1>2. \A q \in Seq(1..MaxSends) : Len(q) \in Nat /\ (q = <<>> <=> Len(q) = 0)
  BY EmptySeq, LenProperties
<1>3. QED
  BY <1>1, <1>2

\* The initial state satisfies the inductive invariant.
LEMMA InitInv == Init => IInv
<1> SUFFICES ASSUME Init PROVE IInv
  OBVIOUS
<1> <<>> \in Seq(1..MaxSends) /\ Len(<<>>) = 0 /\ <<>> \o <<>> = <<>>
  BY EmptySeq, ConcatEmptySeq
<1>1. TypeOK
  <2>1. pc \in [Threads -> PC]
    BY DEF Init, PC
  <2>2. accepted \in 0..MaxSends /\ Len(wire) <= accepted
    BY MaxSendsAssumption DEF Init
  <2>3. ops \subseteq Op
    BY DEF Init
  <2>4. QED
    BY <2>1, <2>2, <2>3 DEF Init, TypeOK
<1>2. NothingGained
  BY DEF Init, NothingGained, Backlog, Ended
<1>3. QED
  BY <1>1, <1>2 DEF Init, IInv, Ownership, ExclusiveSendEvent, BuffersHeld, NoEmptySubmit,
     NothingStranded, FlagIsOwned, OwnerState, Holders
\* A thread that owns the event is alone with it.
LEMMA OwnerAlone ==
    ASSUME IInv, NEW t \in Threads, pc[t] # "idle"
    PROVE  /\ \A u \in Threads \ {t} : pc[u] = "idle"
           /\ ops = {}
           /\ sendRegistered
BY DEF IInv, Ownership, ExclusiveSendEvent, FlagIsOwned, Holders

-----------------------------------------------------------------------------
(* One lemma per part of the invariant, one step per action.               *)

\* Every step keeps the ownership of the event.
LEMMA StepOwnership ==
    ASSUME IInv, [Next]_vars
    PROVE  Ownership'
<1> USE ThreadsAssumption DEF IInv, TypeOK, PC, Op, Goto, sendVars, Replace
<1>a. sendBuffers \o sendQueue = <<>> => sendQueue = <<>>
  BY JoinBuffers
<1>1. ASSUME NEW t \in Threads, Send(t) PROVE Ownership'
  BY <1>1, AppendProperties DEF Send, Ownership, ExclusiveSendEvent,
       BuffersHeld, NoEmptySubmit, NothingStranded, FlagIsOwned, OwnerState,
       Holders
<1>2. ASSUME NEW t \in Threads, RegisterSendCheck(t) PROVE Ownership'
  BY <1>2 DEF RegisterSendCheck, Ownership, ExclusiveSendEvent,
       BuffersHeld, NoEmptySubmit, NothingStranded, FlagIsOwned, OwnerState,
       Holders
<1>3. ASSUME NEW t \in Threads, RegisterSendDrain(t) PROVE Ownership'
  <2>1. /\ \A u \in Threads \ {t} : pc[u] = "idle"
        /\ ops = {} /\ owner /\ sendRegistered /\ sendQueue # <<>>
    BY <1>3 DEF RegisterSendDrain, Ownership, ExclusiveSendEvent, FlagIsOwned,
       OwnerState, Holders
  <2>2. sendBuffers' # <<>>
    BY <1>3, <1>a, <2>1 DEF RegisterSendDrain
  <2>3. /\ pc' = [pc EXCEPT ![t] = "submit"] /\ ops' = {} /\ owner'
        /\ sendRegistered' /\ t \in Holders'
    BY <1>3, <2>1 DEF RegisterSendDrain, Holders
  <2>4. QED
    BY <2>1, <2>2, <2>3 DEF Ownership, ExclusiveSendEvent, BuffersHeld,
       NoEmptySubmit, NothingStranded, FlagIsOwned, OwnerState, Holders
<1>4. ASSUME NEW t \in Threads, SubmitAccepted(t) PROVE Ownership'
  <2>1. /\ \A u \in Threads : pc'[u] = "idle"
        /\ ops' = {[batch |-> sendBuffers, status |-> "pending"]}
        /\ owner' /\ sendRegistered' /\ sendBuffers' = sendBuffers
        /\ sendBuffers # <<>>
    BY <1>4 DEF SubmitAccepted, Ownership, ExclusiveSendEvent, NoEmptySubmit,
       FlagIsOwned, OwnerState, Holders
  <2>2. Holders' = {} /\ ops' # {}
    BY <2>1 DEF Holders
  <2>3. BuffersHeld' /\ NoEmptySubmit'
    BY <2>1 DEF BuffersHeld, NoEmptySubmit
  <2>4. QED
    BY <2>1, <2>2, <2>3 DEF Ownership, ExclusiveSendEvent, NothingStranded,
       FlagIsOwned, OwnerState
<1>5. ASSUME NEW t \in Threads, SubmitRefused(t) PROVE Ownership'
  BY <1>5 DEF SubmitRefused, Ownership, ExclusiveSendEvent,
       BuffersHeld, NoEmptySubmit, NothingStranded, FlagIsOwned, OwnerState,
       Holders
<1>6. ASSUME NEW t \in Threads, HandleError(t) PROVE Ownership'
  BY <1>6 DEF HandleError, Ownership, ExclusiveSendEvent,
       BuffersHeld, NoEmptySubmit, NothingStranded, FlagIsOwned, OwnerState,
       Holders
<1>7. ASSUME NEW t \in Threads, ReleaseBuffers(t) PROVE Ownership'
  BY <1>7 DEF ReleaseBuffers, Ownership, ExclusiveSendEvent,
       BuffersHeld, NoEmptySubmit, NothingStranded, FlagIsOwned, OwnerState,
       Holders
<1>8. ASSUME NEW t \in Threads, Unregister(t) PROVE Ownership'
  BY <1>8 DEF Unregister, Ownership, ExclusiveSendEvent,
       BuffersHeld, NoEmptySubmit, NothingStranded, FlagIsOwned, OwnerState,
       Holders
<1>9. ASSUME NEW w \in Workers, ProcessSend(w) PROVE Ownership'
  <2> PICK op \in ops : /\ ops' = ops \ {op}
                        /\ Goto(w, "idle", IF op.status = "sent" THEN "next" ELSE "idle")
                        /\ connected' = (connected /\ op.status = "sent")
    BY <1>9 DEF ProcessSend
  <2>1. /\ \A u \in Threads : pc[u] = "idle"
        /\ ops' = {} /\ sendRegistered /\ sendRegistered' /\ sendBuffers' = <<>>
    BY <1>9 DEF ProcessSend, Ownership, ExclusiveSendEvent, FlagIsOwned,
       Holders
  <2>2. CASE op.status = "sent"
    <3>1. pc' = [pc EXCEPT ![w] = "next"] /\ w \in Threads
      BY <2>2
    <3>2. Holders' = {w} /\ \A u \in Threads : pc'[u] \in {"idle", "next"}
      BY <2>1, <3>1 DEF Holders
    <3>3. QED
      BY <2>1, <3>2 DEF Ownership, ExclusiveSendEvent, BuffersHeld,
         NoEmptySubmit, NothingStranded, FlagIsOwned, OwnerState
  <2>3. CASE op.status # "sent"
    <3>1. Holders' = {} /\ ~connected' /\ \A u \in Threads : pc'[u] = "idle"
      BY <2>3, <2>1 DEF Holders
    <3>2. QED
      BY <2>1, <3>1 DEF Ownership, ExclusiveSendEvent, BuffersHeld,
         NoEmptySubmit, NothingStranded, FlagIsOwned, OwnerState
  <2>4. QED
    BY <2>2, <2>3
<1>10. ASSUME NEW w \in Workers, ProcessNext(w) PROVE Ownership'
  <2>1. /\ \A u \in Threads \ {w} : pc[u] = "idle"
        /\ pc[w] = "next" /\ ops = {} /\ ops' = {} /\ sendRegistered
        /\ sendBuffers' = sendBuffers
    BY <1>10, OwnerAlone DEF ProcessNext
  <2>a. sendBuffers = <<>>
    BY <2>1 DEF Ownership, OwnerState
  <2>2. CASE sendQueue = <<>>
    <3>1. /\ pc' = [pc EXCEPT ![w] = "idle"] /\ ~sendRegistered'
          /\ sendQueue' = <<>> /\ Holders' = {}
      BY <1>10, <2>2, <2>1 DEF ProcessNext, Holders
    <3>2. QED
      BY <2>1, <2>a, <3>1 DEF Ownership, ExclusiveSendEvent, BuffersHeld,
         NoEmptySubmit, NothingStranded, FlagIsOwned, OwnerState, Holders
  <2>3. CASE sendQueue # <<>>
    <3>1. /\ pc' = [pc EXCEPT ![w] = "register"] /\ sendRegistered'
          /\ sendQueue' # <<>> /\ w \in Holders'
      BY <1>10, <2>3, <2>1 DEF ProcessNext, Holders
    <3>2. QED
      BY <2>1, <2>a, <3>1 DEF Ownership, ExclusiveSendEvent, BuffersHeld,
         NoEmptySubmit, NothingStranded, FlagIsOwned, OwnerState, Holders
  <2>4. QED
    BY <2>2, <2>3
<1>11. CASE Transmit
  BY <1>11 DEF Transmit, Ownership, ExclusiveSendEvent,
       BuffersHeld, NoEmptySubmit, NothingStranded, FlagIsOwned, OwnerState,
       Holders
<1>12. CASE Abort
  BY <1>12 DEF Abort, Ownership, ExclusiveSendEvent,
       BuffersHeld, NoEmptySubmit, NothingStranded, FlagIsOwned, OwnerState,
       Holders
<1>13. CASE Disconnect
  BY <1>13 DEF Disconnect, Ownership, ExclusiveSendEvent,
       BuffersHeld, NoEmptySubmit, NothingStranded, FlagIsOwned, OwnerState,
       Holders
<1>14. CASE UNCHANGED vars
  BY <1>14 DEF vars, Ownership, ExclusiveSendEvent,
       BuffersHeld, NoEmptySubmit, NothingStranded, FlagIsOwned, OwnerState,
       Holders
<1>15. QED
  BY <1>1, <1>2, <1>3, <1>4, <1>5, <1>6, <1>7, <1>8, <1>9, <1>10, <1>11, <1>12, <1>13, <1>14 DEF Next, RegisterSend

-----------------------------------------------------------------------------
(* The steps as the ordered channel sees them.                             *)

\* The first part of a join, and what is left without it.
LEMMA SplitBuffers ==
    ASSUME NEW s \in Seq(1..MaxSends), NEW r \in Seq(1..MaxSends), s # <<>>
    PROVE  /\ Len(s) \in 1..Len(s \o r)
           /\ SubSeq(s \o r, 1, Len(s)) = s
           /\ SubSeq(s \o r, Len(s) + 1, Len(s \o r)) = r
<1> DEFINE S == 1..MaxSends
           j == s \o r
<1>1. /\ j \in Seq(S) /\ Len(j) = Len(s) + Len(r)
      /\ \A i \in 1..Len(s) + Len(r) : j[i] = IF i <= Len(s) THEN s[i] ELSE r[i - Len(s)]
      /\ Len(s) \in Nat \ {0} /\ Len(r) \in Nat
  BY ConcatProperties, EmptySeq, LenProperties
<1>2. /\ \A i \in 1..Len(s) : j[i] \in S
      /\ \A i \in Len(s) + 1..Len(j) : j[i] \in S
  <2>1. \A i \in 1..Len(j) : j[i] \in S
    BY <1>1, ElementOfSeq
  <2>2. 1..Len(s) \subseteq 1..Len(j) /\ Len(s) + 1..Len(j) \subseteq 1..Len(j)
    BY <1>1
  <2>3. QED
    BY <2>1, <2>2
<1>3. SubSeq(j, 1, Len(s)) = s
  <2>1. /\ SubSeq(j, 1, Len(s)) \in Seq(S) /\ Len(SubSeq(j, 1, Len(s))) = Len(s)
        /\ \A i \in 1..Len(s) : SubSeq(j, 1, Len(s))[i] = j[i]
    BY <1>1, <1>2, SubSeqProperties
  <2>2. \A i \in 1..Len(s) : SubSeq(j, 1, Len(s))[i] = s[i]
    BY <1>1, <2>1
  <2>3. QED
    BY <2>1, <2>2, SeqEqual
<1>4. SubSeq(j, Len(s) + 1, Len(j)) = r
  <2> DEFINE m == Len(s) + 1
             n == Len(j)
             tail == SubSeq(j, m, n)
  <2>1. /\ tail \in Seq(S) /\ Len(tail) = (IF m <= n THEN n - m + 1 ELSE 0)
        /\ \A i \in 1..n - m + 1 : tail[i] = j[m + i - 1]
    BY <1>1, <1>2, SubSeqProperties
  <2>2. Len(tail) = Len(r) /\ \A i \in 1..Len(tail) : tail[i] = r[i]
    BY <1>1, <2>1
  <2>3. QED
    BY <2>1, <2>2, SeqEqual
<1>5. QED
  BY <1>1, <1>3, <1>4

\* The backlog is the event's part followed by the queue, without the first
\* once its operation has ended.
LEMMA BacklogType ==
    ASSUME TypeOK
    PROVE  /\ Backlog \in Seq(1..MaxSends)
           /\ ~Ended => Backlog = sendBuffers \o sendQueue
           /\ Ended => Backlog = sendQueue
<1>1. <<>> \in Seq(1..MaxSends) /\ <<>> \o sendQueue = sendQueue
  BY EmptySeq, ConcatEmptySeq DEF TypeOK
<1>2. QED
  BY <1>1, JoinBuffers DEF TypeOK, Backlog

\* Every step of the send path is a step of the ordered channel or none.
LEMMA StepChannel ==
    ASSUME IInv, [Next]_vars
    PROVE  [Channel!Next]_(Channel!vars)
<1> USE DEF Channel!vars
<1>a. TypeOK
  BY DEF IInv
<1>1. ASSUME NEW t \in Threads, Send(t) PROVE Channel!Accept
  <2>1. Append(sendBuffers \o sendQueue, accepted + 1)
          = sendBuffers \o Append(sendQueue, accepted + 1)
    <3>1. accepted + 1 \in 1..MaxSends
      BY <1>1, <1>a, MaxSendsAssumption DEF Send, TypeOK
    <3>2. sendBuffers \in Seq(1..MaxSends) /\ sendQueue \in Seq(1..MaxSends)
      BY <1>a DEF TypeOK
    <3>3. <<accepted + 1>> \in Seq(1..MaxSends)
      BY <3>1
    <3>4. Append(sendQueue, accepted + 1) = sendQueue \o <<accepted + 1>>
      BY <3>1, <3>2, AppendIsConcat
    <3>5. sendBuffers \o sendQueue \in Seq(1..MaxSends)
      BY <3>2, JoinBuffers
    <3>6. Append(sendBuffers \o sendQueue, accepted + 1)
            = (sendBuffers \o sendQueue) \o <<accepted + 1>>
      BY <3>1, <3>5, AppendIsConcat
    <3>7. (sendBuffers \o sendQueue) \o <<accepted + 1>>
            = sendBuffers \o (sendQueue \o <<accepted + 1>>)
      BY <3>2, <3>3, ConcatAssociative
    <3>8. QED
      BY <3>4, <3>6, <3>7
  <2>2. Append(<<>> \o sendQueue, accepted + 1) = <<>> \o Append(sendQueue, accepted + 1)
    <3>1. accepted + 1 \in 1..MaxSends /\ sendQueue \in Seq(1..MaxSends)
      BY <1>1, <1>a, MaxSendsAssumption DEF Send, TypeOK
    <3>2. QED
      BY <3>1, AppendProperties, ConcatEmptySeq
  <2>3. Backlog' = Append(Backlog, accepted + 1)
    BY <1>1, <2>1, <2>2 DEF Send, Backlog, Ended
  <2>4. QED
    BY <1>1, <2>3 DEF Send, Channel!Accept
<1>2. ASSUME NEW t \in Threads,
             RegisterSendCheck(t) \/ SubmitRefused(t) \/ HandleError(t) \/ Unregister(t)
      PROVE  UNCHANGED Channel!vars
  BY <1>2 DEF RegisterSendCheck, SubmitRefused, HandleError, Unregister, Backlog,
     Ended, sendVars
<1>3. ASSUME NEW t \in Threads, RegisterSendDrain(t) PROVE UNCHANGED Channel!vars
  <2>1. ops = {} /\ ops' = {}
    BY <1>3, OwnerAlone DEF RegisterSendDrain, Goto
  <2>2. (sendBuffers \o sendQueue) \o <<>> = sendBuffers \o sendQueue
    BY <1>a, JoinBuffers, ConcatEmptySeq DEF TypeOK
  <2>3. QED
    BY <1>3, <2>1, <2>2 DEF RegisterSendDrain, Backlog, Ended
<1>4. ASSUME NEW t \in Threads, SubmitAccepted(t) PROVE UNCHANGED Channel!vars
  <2>1. ops = {}
    BY <1>4, OwnerAlone DEF SubmitAccepted, Goto
  <2>2. QED
    BY <1>4, <2>1 DEF SubmitAccepted, Backlog, Ended, sendVars
<1>5. ASSUME NEW t \in Threads, ReleaseBuffers(t)
      PROVE  Channel!Lose \/ UNCHANGED Channel!vars
  <2>1. ops = {} /\ ops' = {}
    BY <1>5, OwnerAlone DEF ReleaseBuffers, Goto
  <2>2. Backlog = sendBuffers \o sendQueue /\ Backlog' = sendQueue
    BY <1>5, <1>a, <2>1, ConcatEmptySeq DEF ReleaseBuffers, Backlog, Ended, TypeOK
  <2>3. CASE sendBuffers = <<>>
    BY <1>5, <1>a, <2>2, <2>3, ConcatEmptySeq DEF ReleaseBuffers, TypeOK
  <2>4. CASE sendBuffers # <<>>
    BY <1>5, <1>a, <2>2, <2>4, SplitBuffers DEF ReleaseBuffers, TypeOK, Channel!Lose
  <2>5. QED
    BY <2>3, <2>4
<1>6. ASSUME NEW w \in Workers, ProcessSend(w) PROVE UNCHANGED Channel!vars
  <2>1. Ended /\ ops' = {}
    BY <1>6 DEF ProcessSend, Ended, IInv, Ownership, ExclusiveSendEvent
  <2>2. QED
    BY <1>6, <2>1 DEF ProcessSend, Backlog, Ended
<1>7. ASSUME NEW w \in Workers, ProcessNext(w) PROVE UNCHANGED Channel!vars
  BY <1>7 DEF ProcessNext, Backlog, Ended
<1>8. ASSUME NEW op \in ops, NEW status \in {"sent", "failed"},
             op.status = "pending", Replace(op, status), UNCHANGED sendVars
      PROVE  /\ Backlog = sendBuffers \o sendQueue
             /\ Backlog' = sendQueue
             /\ sendBuffers # <<>> /\ op.batch = sendBuffers
  <2>1. ops = {op} /\ op.batch = sendBuffers /\ sendBuffers # <<>>
    BY DEF IInv, Ownership, ExclusiveSendEvent, BuffersHeld, NoEmptySubmit
  <2>2. [op EXCEPT !.status = status].status = status
    BY <1>a DEF TypeOK, Op
  <2>3. ~Ended /\ Ended'
    BY <1>8, <2>1, <2>2 DEF Ended, Replace
  <2>4. QED
    BY <1>8, <1>a, <2>1, <2>3, ConcatEmptySeq DEF Backlog, sendVars, TypeOK
<1>9. CASE Transmit
  <2>1. PICK op \in ops : op.status = "pending" /\ Replace(op, "sent") /\ wire' = wire \o op.batch
    BY <1>9 DEF Transmit
  <2>2. /\ Backlog = sendBuffers \o sendQueue /\ Backlog' = sendQueue
        /\ sendBuffers # <<>> /\ op.batch = sendBuffers
    BY <1>8, <1>9, <2>1 DEF Transmit
  <2>3. Channel!Deliver
    BY <1>9, <1>a, <2>1, <2>2, SplitBuffers DEF Transmit, TypeOK, Channel!Deliver
  <2>4. QED
    BY <2>3 DEF Channel!Next
<1>10. CASE Abort
  <2>1. PICK op \in ops : op.status = "pending" /\ Replace(op, "failed")
    BY <1>10 DEF Abort
  <2>2. /\ Backlog = sendBuffers \o sendQueue /\ Backlog' = sendQueue
        /\ sendBuffers # <<>>
    BY <1>8, <1>10, <2>1 DEF Abort
  <2>3. Channel!Lose
    BY <1>10, <1>a, <2>2, SplitBuffers DEF Abort, TypeOK, Channel!Lose
  <2>4. QED
    BY <2>3 DEF Channel!Next
<1>11. CASE Disconnect \/ UNCHANGED vars
  BY <1>11 DEF Disconnect, vars, sendVars, Backlog, Ended
<1>12. QED
  BY <1>1, <1>2, <1>3, <1>4, <1>5, <1>6, <1>7, <1>9, <1>10, <1>11
  DEF Next, RegisterSend, Channel!Next

\* The ordered channel never delivers more than it accepted.
LEMMA StepGained ==
    ASSUME IInv, [Channel!Next]_(Channel!vars), (accepted \in Nat)'
    PROVE  NothingGained'
<1> DEFINE S == 1..MaxSends
<1>1. /\ Backlog \in Seq(S) /\ wire \in Seq(S) /\ accepted \in Nat
      /\ Len(wire) + Len(Backlog) <= accepted
  BY BacklogType DEF IInv, TypeOK, NothingGained
<1>2. CASE Channel!Accept
  <2>1. Len(Append(Backlog, accepted + 1)) = Len(Backlog) + 1
    BY <1>1, LenProperties
  <2>2. QED
    BY <1>1, <1>2, <2>1, LenProperties DEF Channel!Accept, NothingGained
<1>3. ASSUME NEW k \in 1..Len(Backlog)
      PROVE  /\ Len(SubSeq(Backlog, k + 1, Len(Backlog))) = Len(Backlog) - k
             /\ Len(wire \o SubSeq(Backlog, 1, k)) = Len(wire) + k
  <2>1. Len(Backlog) \in Nat /\ \A i \in 1..Len(Backlog) : Backlog[i] \in S
    BY <1>1, ElementOfSeq, LenProperties
  <2>2. Len(SubSeq(Backlog, k + 1, Len(Backlog))) = Len(Backlog) - k
    BY <2>1, SubSeqProperties
  <2>3. SubSeq(Backlog, 1, k) \in Seq(S) /\ Len(SubSeq(Backlog, 1, k)) = k
    BY <2>1, SubSeqProperties
  <2>4. QED
    BY <1>1, <2>2, <2>3, ConcatProperties
<1>4. CASE Channel!Deliver
  <2>1. PICK k \in 1..Len(Backlog) :
            /\ wire' = wire \o SubSeq(Backlog, 1, k)
            /\ Backlog' = SubSeq(Backlog, k + 1, Len(Backlog))
            /\ accepted' = accepted
    BY <1>4 DEF Channel!Deliver
  <2>2. Len(wire)' = Len(wire) + k /\ Len(Backlog)' = Len(Backlog) - k
    BY <1>3, <2>1
  <2>3. QED
    <3>1. Len(wire) \in Nat /\ Len(Backlog) \in Nat /\ k \in Int
      BY <1>1, LenProperties
    <3>2. (Len(wire) + Len(Backlog))' = Len(wire) + Len(Backlog)
      BY <2>2, <3>1
    <3>3. QED
      BY <1>1, <2>1, <3>2 DEF NothingGained
<1>5. CASE Channel!Lose
  BY <1>1, <1>3, <1>5, LenProperties DEF Channel!Lose, NothingGained
<1>6. CASE UNCHANGED Channel!vars
  BY <1>1, <1>6 DEF Channel!vars, NothingGained
<1>7. QED
  BY <1>2, <1>4, <1>5, <1>6 DEF Channel!Next

\* Every step keeps the types; what bounds the wire is the step before.
LEMMA StepType ==
    ASSUME IInv, [Next]_vars
    PROVE  TypeOK' /\ NothingGained'
<1> USE ThreadsAssumption, MaxSendsAssumption DEF TypeOK, PC, Op, Goto, sendVars
<1>a. TypeOK /\ sendBuffers \o sendQueue \in Seq(1..MaxSends) /\ <<>> \in Seq(1..MaxSends)
  BY JoinBuffers, EmptySeq DEF IInv
<1> DEFINE Types ==
      /\ connected \in BOOLEAN /\ sendRegistered \in BOOLEAN /\ owner \in BOOLEAN
      /\ sendQueue \in Seq(1..MaxSends) /\ sendBuffers \in Seq(1..MaxSends)
      /\ ops \subseteq Op /\ pc \in [Threads -> PC] /\ accepted \in 0..MaxSends
      /\ wire \in Seq(1..MaxSends) /\ lastSubmit \in {"none", "ok", "reset", "failed"}
<1>1. ASSUME NEW t \in Threads, Send(t) PROVE Types'
  <2>1. accepted' \in 0..MaxSends /\ accepted + 1 \in 1..MaxSends
    BY <1>1, <1>a DEF Send
  <2>2. sendQueue' \in Seq(1..MaxSends)
    BY <1>1, <1>a, <2>1, AppendProperties DEF Send
  <2>3. QED
    BY <1>1, <1>a, <2>1, <2>2 DEF Send
<1>2. ASSUME NEW t \in Threads, RegisterSend(t) PROVE Types'
  <2>1. CASE RegisterSendCheck(t)
    BY <2>1, <1>a DEF RegisterSendCheck
  <2>2. CASE RegisterSendDrain(t)
    BY <2>2, <1>a DEF RegisterSendDrain
  <2>3. CASE SubmitAccepted(t)
    BY <2>3, <1>a DEF SubmitAccepted
  <2>4. CASE SubmitRefused(t)
    BY <2>4, <1>a DEF SubmitRefused
  <2>5. CASE HandleError(t)
    BY <2>5, <1>a DEF HandleError
  <2>6. CASE ReleaseBuffers(t)
    BY <2>6, <1>a DEF ReleaseBuffers
  <2>7. CASE Unregister(t)
    BY <2>7, <1>a DEF Unregister
  <2>8. QED
    BY <1>2, <2>1, <2>2, <2>3, <2>4, <2>5, <2>6, <2>7 DEF RegisterSend
<1>3. ASSUME NEW w \in Workers, ProcessSend(w) \/ ProcessNext(w) PROVE Types'
  BY <1>3, <1>a DEF ProcessSend, ProcessNext
<1>b. ASSUME NEW op \in ops, NEW status \in {"sent", "failed"}, Replace(op, status)
      PROVE  ops' \subseteq Op
  <2>1. [op EXCEPT !.status = status] \in Op
    BY <1>a
  <2>2. QED
    BY <1>a, <1>b, <2>1 DEF Replace
<1>4. ASSUME Transmit PROVE Types'
  <2>1. PICK op \in ops : Replace(op, "sent") /\ wire' = wire \o op.batch
    BY <1>4 DEF Transmit
  <2>2. wire' \in Seq(1..MaxSends)
    BY <1>a, <2>1, JoinBuffers
  <2>3. ops' \subseteq Op
    BY <1>b, <2>1
  <2>4. QED
    BY <1>4, <1>a, <2>2, <2>3 DEF Transmit
<1>5. ASSUME Abort PROVE Types'
  <2>1. ops' \subseteq Op
    BY <1>b, <1>5 DEF Abort
  <2>2. QED
    BY <1>5, <1>a, <2>1 DEF Abort
<1>6. ASSUME Disconnect \/ UNCHANGED vars PROVE Types'
  <2>1. CASE Disconnect
    BY <2>1, <1>a DEF Disconnect
  <2>2. CASE UNCHANGED vars
    BY <2>2, <1>a DEF vars
  <2>3. QED
    BY <1>6, <2>1, <2>2
<1>7. Types'
  BY <1>1, <1>2, <1>3, <1>4, <1>5, <1>6 DEF Next
<1>8. NothingGained'
  BY <1>7, StepChannel, StepGained
<1>9. Len(wire') <= accepted'
  <2>1. Len(wire)' \in Nat /\ Len(Backlog)' \in Nat
    <3>1. sendBuffers' \o sendQueue' \in Seq(1..MaxSends) /\ <<>> \o sendQueue' \in Seq(1..MaxSends)
      BY <1>7, <1>a, JoinBuffers
    <3>2. QED
      BY <1>7, <3>1, LenProperties DEF Backlog
  <2>2. QED
    BY <1>7, <1>8, <2>1 DEF NothingGained
<1>10. QED
  BY <1>7, <1>8, <1>9

\* The invariant is inductive.
THEOREM InductiveInvariant == Spec => []IInv
<1>1. IInv /\ [Next]_vars => IInv'
  BY StepOwnership, StepType DEF IInv
<1>2. QED
  BY InitInv, <1>1, PTL DEF Spec

\* Type correctness, with the bound on what is transmitted.
THEOREM TypeCorrect == Spec => []TypeOK
BY InductiveInvariant, PTL DEF IInv

\* Session::Send, RegisterSend and ProcessSend never have two threads, or a
\* thread and an operation, at the one send event.
THEOREM SendEventExclusive == Spec => []ExclusiveSendEvent
BY InductiveInvariant, PTL DEF IInv, Ownership

\* What the system reads stays referenced until its completion is processed.
THEOREM BuffersStayHeld == Spec => []BuffersHeld
BY InductiveInvariant, PTL DEF IInv, Ownership

\* WSASend is never given an empty list of buffers.
THEOREM NeverEmptySubmit == Spec => []NoEmptySubmit
BY InductiveInvariant, PTL DEF IInv, Ownership

\* Only a WSASend that failed in the call can leave buffers without a sender.
THEOREM OnlyErrorsStrand == Spec => []NothingStranded
BY InductiveInvariant, PTL DEF IInv, Ownership

\* The send path implements the ordered channel, however many threads send.
THEOREM SendIsOrderedChannel == Spec => ImplementsChannel
<1>1. Init => Channel!Init
  BY EmptySeq, ConcatEmptySeq DEF Init, Channel!Init, Backlog, Ended
<1>2. IInv /\ [Next]_vars => [Channel!Next]_(Channel!vars)
  BY StepChannel
<1>3. QED
  BY <1>1, <1>2, InductiveInvariant, PTL DEF Spec, ImplementsChannel, Channel!Spec

-----------------------------------------------------------------------------
(* The send path comes to rest                                             *)

\* How far the owner of the event is from giving it up, if nobody calls Send.
StepsLeft == [idle |-> 0, drain |-> 1, register |-> 2, next |-> 3, submit |-> 6,
              reset |-> 3, failed |-> 3, release |-> 2, unregister |-> 1]
OpStepsLeft == [failed |-> 1, sent |-> 4, pending |-> 5]

OwnerSteps ==
    IF ops # {} THEN OpStepsLeft[(CHOOSE op \in ops : TRUE).status]
    ELSE IF Holders # {} THEN StepsLeft[pc[CHOOSE t \in Holders : TRUE]]
    ELSE 0

\* A buffer in the queue may cost one more submission; a connection can be
\* lost once.
Work == 6 * Len(sendQueue) + OwnerSteps + (IF connected THEN 1 ELSE 0)

\* Only Send gives the threads and the system more to do.
WorksOff == (\E t \in Threads : Send(t)) \/ Work' < Work

\* OwnerSteps goes by the one owner there is.
GoesByOwner ==
    /\ \A t \in Threads : pc[t] # "idle" => OwnerSteps = StepsLeft[pc[t]]
    /\ \A op \in ops : OwnerSteps = OpStepsLeft[op.status]
    /\ ops = {} /\ (\A t \in Threads : pc[t] = "idle") => OwnerSteps = 0
    /\ Len(sendQueue) \in Nat /\ OwnerSteps \in 0..6

LEMMA OwnerStepsLeft == IInv => GoesByOwner
<1> SUFFICES ASSUME IInv PROVE GoesByOwner
  OBVIOUS
<1>1. ASSUME NEW t \in Threads, pc[t] # "idle"
      PROVE  OwnerSteps = StepsLeft[pc[t]] /\ StepsLeft[pc[t]] \in 0..6
  <2>1. ops = {} /\ t \in Holders /\ \A u \in Holders : u = t
    BY <1>1, OwnerAlone DEF Holders
  <2>2. (CHOOSE u \in Holders : TRUE) = t
    BY <2>1
  <2>3. pc[t] \in PC
    BY DEF IInv, TypeOK
  <2> QED
    BY <2>1, <2>2, <2>3 DEF OwnerSteps, StepsLeft, PC
<1>2. ASSUME NEW op \in ops
      PROVE  OwnerSteps = OpStepsLeft[op.status] /\ OpStepsLeft[op.status] \in 0..6
  <2>1. (CHOOSE o \in ops : TRUE) = op
    BY DEF IInv, Ownership, ExclusiveSendEvent
  <2> PICK status : status = op.status
    OBVIOUS
  <2>2. status \in {"pending", "sent", "failed"}
    BY DEF IInv, TypeOK, Op
  <2>3. OpStepsLeft[status] \in 0..6
    BY <2>2 DEF OpStepsLeft
  <2> QED
    BY <2>1, <2>3 DEF OwnerSteps
<1>3. ops = {} /\ (\A t \in Threads : pc[t] = "idle") => OwnerSteps = 0
  BY DEF OwnerSteps, Holders
<1>4. Len(sendQueue) \in Nat
  BY LenProperties DEF IInv, TypeOK
<1>5. OwnerSteps \in 0..6
  <2>1. CASE ops # {}
    BY <1>2, <2>1
  <2>2. CASE \E t \in Threads : pc[t] # "idle"
    BY <1>1, <2>2
  <2>3. 0 \in 0..6
    OBVIOUS
  <2> QED
    BY <1>3, <2>1, <2>2, <2>3
<1> QED
  BY <1>1, <1>2, <1>3, <1>4, <1>5 DEF GoesByOwner

LEMMA WorkIsNat == IInv => Work \in Nat
BY OwnerStepsLeft DEF Work, GoesByOwner

LEMMA StepWorksOff ==
    ASSUME IInv, IInv', Next
    PROVE  WorksOff
<1> USE ThreadsAssumption DEF Goto
<1>a. GoesByOwner /\ GoesByOwner'
  <2>1. (IInv => GoesByOwner)'
    BY OwnerStepsLeft, PTL
  <2> QED
    BY <2>1, OwnerStepsLeft
<1>b. pc \in [Threads -> PC]
  BY DEF IInv, TypeOK
<1>c. ASSUME Len(sendQueue)' = Len(sendQueue), connected' => connected,
             OwnerSteps' < OwnerSteps
      PROVE  Work' < Work
  BY <1>a, <1>c DEF Work, GoesByOwner
<1>d. ASSUME NEW t \in Threads, pc[t] # "idle"
      PROVE  OwnerSteps = StepsLeft[pc[t]] /\ ops = {} /\ \A u \in Threads \ {t} : pc[u] = "idle"
  BY <1>a, <1>d, OwnerAlone DEF GoesByOwner
\* A step with which its owner passes the event on, or gives it up.
<1>e. ASSUME NEW t \in Threads, pc[t] # "idle", ops' = ops, UNCHANGED sendQueue,
             connected' => connected, NEW to, pc' = [pc EXCEPT ![t] = to],
             StepsLeft[to] < StepsLeft[pc[t]], StepsLeft["idle"] = 0
      PROVE  Work' < Work
  <2>1. OwnerSteps = StepsLeft[pc[t]] /\ ops' = {} /\ pc'[t] = to
    BY <1>b, <1>d, <1>e
  <2>2. CASE to # "idle"
    <3>1. OwnerSteps' = StepsLeft[to]
      BY <1>a, <2>1, <2>2 DEF GoesByOwner
    <3> QED
      BY <1>c, <1>e, <2>1, <3>1
  <2>3. CASE to = "idle"
    <3>1. \A u \in Threads : pc'[u] = "idle"
      BY <1>b, <1>d, <1>e, <2>3
    <3>2. OwnerSteps' = 0
      BY <1>a, <2>1, <3>1 DEF GoesByOwner
    <3> QED
      BY <1>c, <1>e, <2>1, <2>3, <3>2
  <2> QED
    BY <2>2, <2>3
<1>1. ASSUME NEW t \in Threads,
             RegisterSendCheck(t) \/ SubmitRefused(t) \/ HandleError(t)
             \/ ReleaseBuffers(t) \/ Unregister(t)
      PROVE  Work' < Work
  <2>1. PICK from, to : Goto(t, from, to) /\ <<from, to>> \in
            {<<"register", "drain">>, <<"register", "idle">>, <<"submit", "reset">>,
             <<"submit", "failed">>, <<"reset", "release">>, <<"failed", "release">>,
             <<"release", "unregister">>, <<"unregister", "idle">>}
    <3>1. CASE RegisterSendCheck(t)
      BY <3>1 DEF RegisterSendCheck
    <3>2. CASE SubmitRefused(t)
      BY <3>2 DEF SubmitRefused
    <3>3. CASE HandleError(t) \/ ReleaseBuffers(t) \/ Unregister(t)
      BY <3>3 DEF HandleError, ReleaseBuffers, Unregister
    <3> QED
      BY <1>1, <3>1, <3>2, <3>3
  <2>2. /\ pc[t] = from /\ pc[t] # "idle" /\ pc' = [pc EXCEPT ![t] = to]
        /\ StepsLeft[to] < StepsLeft[from] /\ StepsLeft["idle"] = 0
    BY <2>1 DEF StepsLeft
  <2>3. ops' = ops /\ UNCHANGED sendQueue /\ (connected' => connected)
    BY <1>1 DEF RegisterSendCheck, SubmitRefused, HandleError, ReleaseBuffers,
       Unregister, sendVars
  <2> QED
    BY <1>e, <2>2, <2>3
\* The queue pays for the submission.
<1>2. ASSUME NEW t \in Threads, RegisterSendDrain(t) PROVE Work' < Work
  <2>1. pc[t] = "drain" /\ pc'[t] = "submit" /\ sendQueue' = <<>> /\ UNCHANGED connected
    BY <1>2, <1>b DEF RegisterSendDrain
  <2>2. sendQueue # <<>>
    BY <2>1 DEF IInv, Ownership, OwnerState
  <2>3. Len(sendQueue) \in Nat \ {0} /\ Len(sendQueue)' = 0
    BY <2>1, <2>2, EmptySeq, LenProperties DEF IInv, TypeOK
  <2>4. OwnerSteps = 1 /\ OwnerSteps' = 6
    BY <1>a, <2>1 DEF GoesByOwner, StepsLeft
  <2> QED
    BY <2>1, <2>3, <2>4 DEF Work
<1>3. ASSUME NEW t \in Threads, SubmitAccepted(t) PROVE Work' < Work
  <2> PICK op : op = [batch |-> sendBuffers, status |-> "pending"]
    OBVIOUS
  <2>1. OwnerSteps = 6
    BY <1>a, <1>3 DEF SubmitAccepted, GoesByOwner, StepsLeft
  <2>2. op \in ops' /\ op.status = "pending"
    BY <1>3 DEF SubmitAccepted
  <2>3. OwnerSteps' = 5
    BY <1>a, <2>2 DEF GoesByOwner, OpStepsLeft
  <2> QED
    BY <1>3, <1>c, <2>1, <2>3 DEF SubmitAccepted, sendVars
<1>4. ASSUME Transmit \/ Abort PROVE Work' < Work
  <2>1. PICK op \in ops, status \in {"sent", "failed"} :
            op.status = "pending" /\ Replace(op, status)
    BY <1>4 DEF Transmit, Abort
  <2> PICK new : new = [op EXCEPT !.status = status]
    OBVIOUS
  <2>2. new \in ops' /\ new.status = status
    BY <2>1 DEF Replace, IInv, TypeOK, Op
  <2>3. OwnerSteps = OpStepsLeft["pending"] /\ OwnerSteps' = OpStepsLeft[status]
    BY <1>a, <2>1, <2>2 DEF GoesByOwner
  <2>4. OwnerSteps = 5 /\ OwnerSteps' \in {1, 4}
    BY <2>1, <2>3 DEF OpStepsLeft
  <2> QED
    BY <1>4, <1>c, <2>4 DEF Transmit, Abort, sendVars
<1>5. ASSUME NEW w \in Workers, ProcessSend(w) PROVE Work' < Work
  <2>1. PICK op \in ops :
            /\ op.status \in {"sent", "failed"}
            /\ ops' = ops \ {op}
            /\ Goto(w, "idle", IF op.status = "sent" THEN "next" ELSE "idle")
            /\ connected' = (connected /\ op.status = "sent")
    BY <1>5 DEF ProcessSend
  <2>a. UNCHANGED sendQueue /\ (connected' => connected)
    BY <1>5, <2>1 DEF ProcessSend
  <2>2. ops' = {} /\ \A u \in Threads : pc[u] = "idle"
    BY <2>1 DEF IInv, Ownership, ExclusiveSendEvent, Holders
  <2>3. CASE op.status = "sent"
    <3>1. w \in Threads /\ pc'[w] = "next"
      BY <1>b, <2>1, <2>3
    <3>2. OwnerSteps = 4 /\ OwnerSteps' = 3
      BY <1>a, <2>3, <3>1 DEF GoesByOwner, OpStepsLeft, StepsLeft
    <3> QED
      BY <1>5, <1>c, <2>1, <2>a, <3>2 DEF ProcessSend
  <2>4. CASE op.status = "failed"
    <3>1. \A u \in Threads : pc'[u] = "idle"
      BY <1>b, <2>1, <2>2, <2>4
    <3>2. OwnerSteps = 1 /\ OwnerSteps' = 0
      BY <1>a, <2>2, <2>4, <3>1 DEF GoesByOwner, OpStepsLeft
    <3> QED
      BY <1>5, <1>c, <2>1, <2>a, <3>2 DEF ProcessSend
  <2> QED
    BY <2>1, <2>3, <2>4
<1>6. ASSUME NEW w \in Workers, ProcessNext(w) PROVE Work' < Work
  <2>1. PICK to \in {"idle", "register"} : Goto(w, "next", to)
    BY <1>6 DEF ProcessNext
  <2>2. /\ w \in Threads /\ pc[w] # "idle" /\ pc' = [pc EXCEPT ![w] = to]
        /\ StepsLeft[to] < StepsLeft[pc[w]] /\ StepsLeft["idle"] = 0
    BY <2>1 DEF StepsLeft
  <2>3. ops' = ops /\ UNCHANGED <<sendQueue, connected>>
    BY <1>6 DEF ProcessNext
  <2> QED
    BY <1>e, <2>2, <2>3
<1>7. ASSUME Disconnect PROVE Work' < Work
  <2>1. OwnerSteps' = OwnerSteps
    BY <1>7 DEF Disconnect, OwnerSteps, Holders
  <2> QED
    BY <1>7, <1>a, <2>1 DEF Disconnect, Work, GoesByOwner, sendVars
<1> QED
  BY <1>1, <1>2, <1>3, <1>4, <1>5, <1>6, <1>7 DEF Next, RegisterSend, WorksOff

\* Between two calls of Send the path does a bounded number of steps, however
\* submissions and completions alternate with failures: every other step
\* leaves less to do, a natural number.  No chain of completions that register
\* the next send goes on for ever.
THEOREM SendComesToRest == Spec => [](Work \in Nat) /\ [][WorksOff]_vars
<1>1. IInv /\ IInv' /\ [Next]_vars => [WorksOff]_vars
  BY StepWorksOff
<1> QED
  BY <1>1, WorkIsNat, InductiveInvariant, PTL DEF Spec
=============================================================================
