---------------------------- MODULE AddressSpace ----------------------------
(***************************************************************************)
(* What map_address promises: an address space is a partial function from  *)
(* virtual to physical pages; mapping a range either installs all of it or *)
(* changes nothing, and says which.                                        *)
(***************************************************************************)
EXTENDS Integers

CONSTANTS
  VirtualPages,   \* the virtual page numbers
  Requests,       \* the calls: [virt, phys, size], size a number of pages
  Unmapped        \* (uint64_t)-1

VARIABLES
  mapping,        \* the physical page of each virtual page, or Unmapped
  request,        \* the arguments of the last call
  result          \* what the last call returned

\* The pages a request covers: a large page is naturally aligned.
Range(r) ==
  LET first == r.virt - (r.virt % r.size) IN first .. first + r.size - 1

Init ==
  /\ mapping = [v \in VirtualPages |-> Unmapped]
  /\ request = [virt |-> 0, phys |-> 0, size |-> 0]
  /\ result = "ERROR_OK"

Map(r) ==
  IF \E v \in Range(r) : mapping[v] # Unmapped
  THEN result' = "ERROR_DUPLICATION" /\ UNCHANGED mapping
  ELSE \/ /\ result' = "ERROR_OK"
          /\ mapping' = [v \in VirtualPages |->
                           IF v \in Range(r)
                           THEN r.phys + (v % r.size) ELSE mapping[v]]
       \/ result' = "ERROR_OUT_OF_MEMORY" /\ UNCHANGED mapping

Next == \E r \in Requests : Map(r) /\ request' = r

Spec == Init /\ [][Next]_<<mapping, request, result>>
=============================================================================
