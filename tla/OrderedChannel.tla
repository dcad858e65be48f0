--------------------------- MODULE OrderedChannel ---------------------------
(***************************************************************************)
(* What a session promises to the code that sends through it: buffers      *)
(* leave in the order in which Send accepted them, none leaves twice, and  *)
(* what a failing connection loses is always the oldest part of the        *)
(* backlog, never something out of its middle.                             *)
(*                                                                         *)
(* A buffer is named by its number in the order of acceptance.             *)
(***************************************************************************)
EXTENDS Naturals, Sequences

VARIABLES
    accepted,    \* how many buffers have been accepted
    backlog,     \* accepted, and neither delivered nor lost yet
    delivered    \* what has reached the wire, oldest first

vars == <<accepted, backlog, delivered>>

Init ==
    /\ accepted = 0
    /\ backlog = <<>>
    /\ delivered = <<>>

\* A caller hands over one more buffer.
Accept ==
    /\ accepted' = accepted + 1
    /\ backlog' = Append(backlog, accepted + 1)
    /\ UNCHANGED delivered

\* A non-empty prefix of the backlog reaches the wire ...
Deliver ==
    \E k \in 1..Len(backlog) :
        /\ delivered' = delivered \o SubSeq(backlog, 1, k)
        /\ backlog' = SubSeq(backlog, k + 1, Len(backlog))
        /\ UNCHANGED accepted

\* ... or is given up, because the operation that carried it failed.
Lose ==
    \E k \in 1..Len(backlog) :
        /\ backlog' = SubSeq(backlog, k + 1, Len(backlog))
        /\ UNCHANGED <<accepted, delivered>>

Next == Accept \/ Deliver \/ Lose

Spec == Init /\ [][Next]_vars
=============================================================================
