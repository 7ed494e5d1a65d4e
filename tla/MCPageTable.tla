---------------------------- MODULE MCPageTable ----------------------------
(* Two entries per table, so a space of sixteen pages with large pages of     *)
(* two: three regions take large pages, two small ones; some requests overlap, *)
(* some leave their alignment to map_address, and the pages run out.          *)
EXTENDS PageTable

Large(virt, phys) == [virt |-> virt, phys |-> phys, size |-> Fan]
Small(virt, phys) == [virt |-> virt, phys |-> phys, size |-> 1]

MCRequests ==
  {Large(0, 0), Large(1, 20), Large(2, 2), Large(4, 20),
   Small(6, 6), Small(7, 31), Small(7, 6), Small(12, 1), Small(14, 14)}
=============================================================================
