----------------------------- MODULE SessionLife -----------------------------
(***************************************************************************)
(* What the life of sessions promises, whatever threads, registries and    *)
(* operations they pass through: a session is created for an accept, is    *)
(* connected at most once and disconnected at most once, is destroyed only *)
(* when it has been disconnected or its accept has failed, and stays       *)
(* destroyed.                                                              *)
(***************************************************************************)
CONSTANT Sessions

VARIABLE stage    \* what has become of each session

\* expected: no client has connected yet; closing: disconnected, or given up
\* before it was connected, and somebody still refers to it.
Stages == {"unborn", "expected", "open", "closing", "destroyed"}

Passages == {<<"unborn", "expected">>, <<"expected", "open">>,
             <<"expected", "closing">>, <<"open", "closing">>,
             <<"closing", "destroyed">>}

Init == stage \in [Sessions -> {"unborn", "expected"}]

\* Several sessions may pass in one step: the next one is created in the step
\* in which the event forgets the one before.
Next ==
    /\ stage' \in [Sessions -> Stages]
    /\ \A s \in Sessions : stage'[s] # stage[s] => <<stage[s], stage'[s]>> \in Passages

Spec == Init /\ [][Next]_stage
=============================================================================
