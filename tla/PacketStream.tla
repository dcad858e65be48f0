---------------------------- MODULE PacketStream ----------------------------
(***************************************************************************)
(* What the receive path promises, whatever buffers lie between: the       *)
(* peer's packets are handed over one by one, whole, in order and each     *)
(* once; all that have arrived are handed over before anything more is     *)
(* received; and the stream is given up only in between.                   *)
(***************************************************************************)
EXTENDS Naturals

CONSTANT FrameSizes    \* the sizes a packet may have

VARIABLES
    arrived,    \* the bytes that have arrived so far
    handled,    \* the bytes of the packets that have been handed over
    size,       \* the size of the packet that is next
    open        \* more is going to be received

vars == <<arrived, handled, size, open>>

\* All of the next packet has arrived.
Complete == handled + size <= arrived

Init ==
    /\ arrived = 0 /\ handled = 0
    /\ size \in FrameSizes
    /\ open = TRUE

Arrive ==
    /\ open /\ ~Complete
    /\ arrived' \in Nat /\ arrived' > arrived
    /\ UNCHANGED <<handled, size, open>>

HandOver ==
    /\ open /\ Complete
    /\ handled' = handled + size
    /\ size' \in FrameSizes
    /\ UNCHANGED <<arrived, open>>

Close ==
    /\ open /\ ~Complete
    /\ open' = FALSE
    /\ UNCHANGED <<arrived, handled, size>>

Next == Arrive \/ HandOver \/ Close

Spec == Init /\ [][Next]_vars
=============================================================================
