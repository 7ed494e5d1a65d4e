---------------------------- MODULE GuestPaging ----------------------------
(***************************************************************************)
(* The page tables the guest builds for itself: construct_early_page_table *)
(* of guest/init32.S and map_page_high of guest/trivial_paging.c.          *)
(*                                                                         *)
(* A page of memory is <<name, number>>, an address the four table indices *)
(* of its page, and a table is given by the entries at Indices, the ones   *)
(* the addresses of this guest reach.                                      *)
(***************************************************************************)
EXTENDS Integers, Sequences

Indices == {0, 1, 4, 184, 511}
NR_BASE_PAGES == 16

PML4 == <<"pml4_base", 0>>
PDPT == <<"pdpt_base", 0>>
PDT == <<"pdt_base", 0>>
BASE == <<"base_pages", 0>>
Nowhere == <<"nowhere", 0>>
LargePage(i) == <<"2M", i>>
VideoFrame == <<"video", 0>>

Code == <<0, 0, 0, 1>>           \* where the image is
LowEnd == <<0, 0, 511, 0>>       \* the last 2 MB below 1 GB
Video == <<0, 4, 0, 184>>        \* 0x1000b8000

NoEntry == [present |-> FALSE, large |-> FALSE, page |-> Nowhere]
TableEntry(page) == [present |-> TRUE, large |-> FALSE, page |-> page]
\* What memset(page, 0x0, n) leaves: the guest's memset copies from the address
\* it is given, so this is its page 0, which the monitor clears and the image
\* leaves alone (GuestSees of Ept).
EmptyTable == [i \in Indices |-> NoEntry]

\* Guest memory is zero before the guest runs.
NoTables == [p \in {PML4, PDPT, PDT, BASE} |-> EmptyTable]

\* One entry at each of the upper levels and 512 pages of 2 MB.
construct_early_page_table ==
  [NoTables EXCEPT
     ![PML4][0] = TableEntry(PDPT),
     ![PDPT][0] = TableEntry(PDT),
     ![PDT] = [i \in Indices |-> [present |-> TRUE, large |-> TRUE,
                                  page |-> LargePage(i)]]]

\* The page is the one at byte, not at page, number nr_used: the entries made
\* from it drop the offset and all name the first page, and clearing it spares
\* the first nr_used bytes: of an entry 0 in use only its flags (a map_page_high
\* takes three pages at most, so nr_used is at most 2 here).
get_base_page(w) ==
  IF w.nr_used >= NR_BASE_PAGES
  THEN [w EXCEPT !.result = -1]
  ELSE [w EXCEPT
          !.nr_used = @ + 1,
          !.mem[BASE] = [i \in Indices |->
                           IF i = 0 /\ w.nr_used > 0
                           THEN [w.mem[BASE][0] EXCEPT !.page = Nowhere]
                           ELSE NoEntry]]

\* Mutant: the level is given a new table although it has one.
Step_afresh(w, i) ==
  LET got == get_base_page(w)
  IN  IF got.result # 0 THEN got
      ELSE [got EXCEPT !.mem[w.page][i] = TableEntry(BASE), !.page = BASE]

\* One upper level of map_page_high: follow the entry, made first if absent.
Step(w, i) ==
  LET got == get_base_page(w)
  IN  IF w.result # 0 THEN w
      ELSE IF w.mem[w.page][i].present THEN [w EXCEPT !.page = w.mem[w.page][i].page]
      ELSE IF got.result # 0 THEN got
      ELSE [got EXCEPT !.mem[w.page][i] = TableEntry(BASE), !.page = BASE]

\* The tables after map_page_high(va, page), whose caller ignores its result;
\* paging_init starts the page counter afresh.
map_page_high(mem, va, page) ==
  LET w3 == Step(Step(Step([mem |-> mem, page |-> PML4, nr_used |-> 0, result |-> 0],
                           va[1]), va[2]), va[3])
      below4G == va[1] = 0 /\ va[2] < 4
  IN  IF below4G THEN mem
      ELSE IF w3.result # 0 \/ w3.mem[w3.page][va[4]].present THEN w3.mem
      ELSE [w3.mem EXCEPT ![w3.page][va[4]] = TableEntry(page)]

\* What the processor makes of a page address.
Translate(mem, va) ==
  LET e4 == mem[PML4][va[1]]
      e3 == mem[e4.page][va[2]]
      e2 == mem[e3.page][va[3]]
      e1 == mem[e2.page][va[4]]
  IN  IF ~e4.present THEN Nowhere
      ELSE IF ~e3.present THEN Nowhere
      ELSE IF ~e2.present THEN Nowhere
      ELSE IF e2.large THEN e2.page
      ELSE IF ~e1.present THEN Nowhere
      ELSE e1.page
=============================================================================
