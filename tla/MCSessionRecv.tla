--------------------------- MODULE MCSessionRecv ----------------------------
(* The constants of the code in proportion: packets up to one buffer, and   *)
(* the smallest capacity the layout allows, so that every receive is near  *)
(* the end of the buffer.                                                   *)
EXTENDS SessionRecv
=============================================================================
