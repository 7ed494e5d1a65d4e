---------------------------- MODULE MCIoRegistry ----------------------------
(* Six ports of which five fit, registered in any order and again with other  *)
(* callbacks; regions that touch, leave gaps and are one byte long.           *)
EXTENDS IoRegistry

Region(low, high) == [addr_low |-> low, addr_high |-> high]

MCRegions == {Region(1, 3), Region(3, 4), Region(6, 9), Region(10, 11)}
=============================================================================
