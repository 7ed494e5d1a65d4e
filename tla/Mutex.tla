------------------------------- MODULE Mutex -------------------------------
(***************************************************************************)
(* What a spinlock promises: at most one processor holds it, and only the  *)
(* holder gives it back.                                                   *)
(***************************************************************************)
CONSTANTS
  CPU,      \* the processors
  NoCPU     \* the holder of a free lock

VARIABLE holder

Init == holder = NoCPU

Take(c) == holder = NoCPU /\ holder' = c

Give(c) == holder = c /\ holder' = NoCPU

Next == \E c \in CPU : Take(c) \/ Give(c)

Spec == Init /\ [][Next]_holder
=============================================================================
