--------------------------- MODULE MCSessionChannel ---------------------------
(* Small instances of SessionChannel. Two connections are enough for an old    *)
(* one and its successor to be served at the same time, and a connection is    *)
(* used again once both of its ends have let go of it.                         *)
EXTENDS SessionChannel

CONSTANTS stop, look
=============================================================================
