----------------------------- MODULE MCConsole -----------------------------
(* Four processors; a buffer that is full after three bytes, so that lines end *)
(* by their newline, by the limit, and by both at once.                       *)
EXTENDS Console

MCMessage == <<"k1", "k2">>
=============================================================================
