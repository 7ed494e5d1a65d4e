----------------------------- MODULE PageTable -----------------------------
(***************************************************************************)
(* The four-level page table of memory/paging.c: map_address installs a    *)
(* mapping of 4K or 2M, allocating the tables on the way, and pa walks     *)
(* them.  Addresses are page numbers; a table has Fan entries and a large  *)
(* page covers Fan small ones (512 in the code).                           *)
(***************************************************************************)
EXTENDS PageLevels

CONSTANTS
  NrPages,    \* bound: the pages get_physical_page has left, numbered from 1
  Requests    \* the calls made: [virt, phys, size] with size 1 or Fan

VirtualPages == 0 .. Fan * Span(4) - 1

Unmapped == -1

RegionOf(v) == v \div Fan

\* The callers keep large and small pages apart: paging_init maps 2M pages
\* below INITIAL_VA_CEILING, the APIC pages lie above it.  A small page inside
\* a large one would be installed in memory taken for a page table.  Physical
\* addresses are aligned as the assertions of map_address demand.
ASSUME RequestsAssumption ==
  /\ NrPages \in Nat \ {0}
  /\ \A r \in Requests :
       /\ r.virt \in VirtualPages /\ r.phys \in Nat /\ r.size \in {1, Fan}
       /\ r.phys % r.size = 0
  /\ \A r, q \in Requests : r.size # q.size => RegionOf(r.virt) # RegionOf(q.virt)

VARIABLES
  table,       \* the memory of the table pages
  next_page,   \* the page get_physical_page hands out next
  request,     \* the arguments of the last map_address
  result       \* what the last map_address returned

vars == <<table, next_page, request, result>>

pml4_base == 1

Entry(address, page_size) ==
  [present |-> TRUE, page_size |-> page_size, address |-> address]

NoEntry == [present |-> FALSE, page_size |-> FALSE, address |-> 0]

EmptyTable == [i \in 0 .. Fan - 1 |-> NoEntry]

\* What a page holds before it is cleared: entries that look present.
Garbage == [i \in 0 .. Fan - 1 |-> Entry(pml4_base, FALSE)]

\* The allocation at the head of paging_init.
Init ==
  /\ table = [p \in 1 .. NrPages |-> IF p = pml4_base THEN EmptyTable ELSE Garbage]
  /\ next_page = pml4_base + 1
  /\ request = [virt |-> 0, phys |-> 0, size |-> 0]
  /\ result = "ERROR_OK"

-----------------------------------------------------------------------------
\* Mutant: the new table is not cleared.
Descend_uncleared(w, level, v) ==
  LET i == Index(level, v) IN
  CASE ~w.ok -> w
    [] w.ok /\ w.table[w.page][i].present ->
         [w EXCEPT !.page = w.table[w.page][i].address]
    [] w.ok /\ ~w.table[w.page][i].present /\ w.next > NrPages ->
         [w EXCEPT !.ok = FALSE]
    [] OTHER ->
         [w EXCEPT !.table = [@ EXCEPT ![w.page][i] = Entry(w.next, FALSE)],
                   !.next = @ + 1, !.page = w.next]

\* One level of map_address: follow the entry of v in the table w.page, after
\* filling it with a new, cleared table if it is not present.  The tables
\* installed before an allocation fails stay.
Descend(w, level, v) ==
  LET i == Index(level, v) IN
  CASE ~w.ok -> w
    [] w.ok /\ w.table[w.page][i].present ->
         [w EXCEPT !.page = w.table[w.page][i].address]
    [] w.ok /\ ~w.table[w.page][i].present /\ w.next > NrPages ->
         [w EXCEPT !.ok = FALSE]
    [] OTHER ->
         [w EXCEPT !.table = [@ EXCEPT ![w.page][i] = Entry(w.next, FALSE),
                                       ![w.next] = EmptyTable],
                   !.next = @ + 1, !.page = w.next]

\* The walk to the table that holds the leaf of a request.
Walk(r) ==
  LET w4 == [table |-> table, next |-> next_page, page |-> pml4_base, ok |-> TRUE]
      w2 == Descend(Descend(w4, 4, r.virt), 3, r.virt)
  IN  IF r.size = Fan THEN w2 ELSE Descend(w2, 2, r.virt)

\* Mutant: an entry that is present is overwritten.
map_address_overwrites(r) ==
  LET w == Walk(r)
      i == Index(IF r.size = Fan THEN 2 ELSE 1, r.virt)
  IN  /\ request' = r
      /\ next_page' = w.next
      /\ IF ~w.ok
         THEN table' = w.table /\ result' = "ERROR_OUT_OF_MEMORY"
         ELSE /\ table' = [w.table EXCEPT ![w.page][i] = Entry(r.phys, r.size = Fan)]
              /\ result' = "ERROR_OK"

map_address(r) ==
  LET w == Walk(r)
      i == Index(IF r.size = Fan THEN 2 ELSE 1, r.virt)
  IN  /\ request' = r
      /\ next_page' = w.next
      /\ CASE ~w.ok ->
                table' = w.table /\ result' = "ERROR_OUT_OF_MEMORY"
           [] w.ok /\ w.table[w.page][i].present ->
                table' = w.table /\ result' = "ERROR_DUPLICATION"
           [] OTHER ->
                /\ table' = [w.table EXCEPT ![w.page][i] = Entry(r.phys, r.size = Fan)]
                /\ result' = "ERROR_OK"

\* pa: the page v is mapped to.  A page number has no bits below PAGE_MASK_4K;
\* below PAGE_MASK_2M it has its remainder by Fan.
pa(v) ==
  LET e4 == table[pml4_base][Index(4, v)]
      e3 == table[e4.address][Index(3, v)]
      e2 == table[e3.address][Index(2, v)]
      e1 == table[e2.address][Index(1, v)]
  IN  CASE ~e4.present -> Unmapped
        [] e4.present /\ ~e3.present -> Unmapped
        [] e4.present /\ e3.present /\ ~e2.present -> Unmapped
        [] e4.present /\ e3.present /\ e2.present /\ e2.page_size ->
             e2.address + (v % Fan)
        [] OTHER -> IF e1.present THEN e1.address ELSE Unmapped

Next == \E r \in Requests : map_address(r)

Spec == Init /\ [][Next]_vars

-----------------------------------------------------------------------------
Space == INSTANCE AddressSpace
           WITH mapping <- [v \in VirtualPages |-> pa(v)]

\* map_address and pa implement the address space: a call installs its whole
\* range or nothing, also when memory runs out half way down the tables, and
\* no other page changes its translation (paging.c 52-187).
AddressSpaceSpec == Space!Spec

\* The entries of the tables S that lead to another table, and where they lead.
Pointers(S) ==
  {x \in S \X (0 .. Fan - 1) : table[x[1]][x[2]].present /\ ~table[x[1]][x[2]].page_size}

Below(S) == {table[x[1]][x[2]].address : x \in Pointers(S)}

\* The tables form a tree: every table page in use is pointed to by exactly
\* one entry, so no store to one table changes another part of the space, and
\* no entry leads to a page that was not allocated for it.
TablesDisjoint ==
  LET pdps  == Below({pml4_base})
      pds   == Below(pdps)
      inner == {pml4_base} \cup pdps \cup pds
  IN  /\ {pml4_base} \cup Below(inner) = 1 .. next_page - 1
      /\ pml4_base \notin Below(inner)
      /\ \A x, y \in Pointers(inner) :
           table[x[1]][x[2]].address = table[y[1]][y[2]].address => x = y
=============================================================================
