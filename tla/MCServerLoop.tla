---------------------------- MODULE MCServerLoop ----------------------------
(* One accept event, one session, two workers and the main thread. *)
EXTENDS ServerLoop

CONSTANTS w1, w2, main, e1, s1, none

MCWorkers == {w1, w2}
MCAccepts == {e1}
MCSessions == {s1}
MCEvents == {Event("accept", e1)} \cup {Event(k, s1) : k \in {"recv", "send", "disconnect"}}
=============================================================================
