------------------------- MODULE MCSessionLifecycle -------------------------
(* One accept event and two sessions, the second offered when the first has *)
(* connected; two workers and the main thread send and receive on both.     *)
EXTENDS SessionLifecycle, TLC

CONSTANTS w1, w2, main, e1, s1, s2, none

MCWorkers == {w1, w2}
MCAccepts == {e1}
MCSessions == {s1, s2}
MCSymmetry == Permutations(MCWorkers) \cup Permutations(MCSessions)

\* Bound: any two threads, or all three while they are in few calls.
MaxCalls == 5
FewCalls ==
    \/ \E t \in Threads : ~Busy(t)
    \/ Len(stack[w1]) + Len(stack[w2]) + Len(stack[main]) <= MaxCalls
=============================================================================
