----------------------------- MODULE PageLevels -----------------------------
(***************************************************************************)
(* The index macros of memory/include/paging.h, shared by the page tables  *)
(* of the host and the extended page tables of the guest.  Addresses are   *)
(* page numbers, so level 1 has no shift.                                  *)
(***************************************************************************)
EXTENDS Integers

CONSTANT Fan     \* entries of a table, 512 in the code

ASSUME FanAssumption == Fan \in Nat \ {0, 1}

\* The pages an entry covers at each level: the shifts of the macros.
Span(level) ==
  CASE level = 1 -> 1
    [] level = 2 -> Fan
    [] level = 3 -> Fan * Fan
    [] level = 4 -> Fan * Fan * Fan

\* LEVEL_4_INDEX to LEVEL_1_INDEX.
Index(level, page) == (page \div Span(level)) % Fan
=============================================================================
