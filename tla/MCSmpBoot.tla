----------------------------- MODULE MCSmpBoot -----------------------------
(* Four processors with the ids 0 to 3, as the virtual machine of the         *)
(* Makefile has, and room for one more.                                       *)
EXTENDS SmpBoot
=============================================================================
