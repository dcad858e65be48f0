--------------------------- MODULE MCSessionSend ----------------------------
(* Two workers and the main thread, four buffers: one batch in the system, *)
(* one being formed behind it and two more racing with its completion.     *)
EXTENDS SessionSend

CONSTANTS w1, w2, main

MCWorkers == {w1, w2}
MCThreads == {w1, w2, main}
=============================================================================
