------------------------------- MODULE MCEpt -------------------------------
(* Tables of two entries: memory of up to nine pages crosses every level, the *)
(* video page has tables of its own, and the host pages run out at every      *)
(* point of the loop and at the video page, or last to the end.               *)
EXTENDS Ept
=============================================================================
