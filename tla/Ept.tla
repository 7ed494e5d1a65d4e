-------------------------------- MODULE Ept --------------------------------
(***************************************************************************)
(* The guest's physical memory: setup_basic_physical_memory backs it page  *)
(* by page with host pages, initialize_vmcs_guest_image copies the image   *)
(* through the translation, and setup_io_memory leaves one page            *)
(* misconfigured so that every access to it exits (vmx_ept.c, vmx_vmcs.c,  *)
(* device_video.c).  The steps are the turns of the two loops.             *)
(***************************************************************************)
EXTENDS PageLevels

CONSTANTS
  NrPages,      \* bound: the host pages, numbered from 1
  HighPages,    \* the values of addr_high, in pages; 16M in the code
  ImageSizes,   \* the sizes of the guest image, in pages
  IoPage        \* VIDEO_BUFFER_PAGE_FRAME

GuestPages == 0 .. Fan * Span(4) - 1

\* The image fits behind the first page and the video page lies above memory.
ASSUME LayoutAssumption ==
  /\ NrPages \in Nat \ {0}
  /\ HighPages \subseteq Nat /\ ImageSizes \subseteq Nat
  /\ IoPage \in GuestPages /\ \A high \in HighPages : high < IoPage

VARIABLES
  table,       \* the extended page tables, by host page
  content,     \* what a host page holds if it is not a table
  next_page,   \* the page get_physical_page hands out next
  last_page,   \* the last one it has
  addr_high,   \* argument of setup_basic_physical_memory
  image,       \* pages of the guest image
  guest_pa,    \* the loop variable
  pc           \* the routine of initialize_vmcs

vars == <<table, content, next_page, last_page, addr_high, image, guest_pa,
          pc>>

ept_pml4_base == 1
Nowhere == -1

NoEntry == [read |-> FALSE, write |-> FALSE, page |-> 0]
TableEntry(page) == [read |-> TRUE, write |-> TRUE, page |-> page]
EmptyTable == [i \in 0 .. Fan - 1 |-> NoEntry]

\* What a page holds before it is cleared, read as a table and as data.
OldTable == [i \in 0 .. Fan - 1 |-> TableEntry(ept_pml4_base)]
Old == <<"old", 0>>
Zero == <<"zero", 0>>
ImagePage(n) == <<"image", n>>

Init ==
  /\ table = [p \in 1 .. NrPages |-> IF p = ept_pml4_base THEN EmptyTable ELSE OldTable]
  /\ content = [p \in 0 .. NrPages |-> Old]
  /\ next_page = ept_pml4_base + 1
  /\ last_page \in 1 .. NrPages
  /\ addr_high \in HighPages
  /\ image \in {n \in ImageSizes : n <= addr_high}
  /\ guest_pa = 0
  /\ pc = "memory"

-----------------------------------------------------------------------------
Present(entry) == entry.read \/ entry.write

\* Entry i of table p gets the new, cleared table x.
Grown(t, p, i, x) == [t EXCEPT ![p][i] = TableEntry(x), ![x] = EmptyTable]

\* One level of map_ept_page: follow the entry, after giving it a new table if
\* it has none.  A failed allocation fails an assertion.
Descend(w, level, guest) ==
  LET i == Index(level, guest)
      entry == w.table[w.page][i]
  IN  CASE ~w.ok -> w
        [] w.ok /\ Present(entry) -> [w EXCEPT !.page = entry.page]
        [] w.ok /\ ~Present(entry) /\ w.next > last_page -> [w EXCEPT !.ok = FALSE]
        [] OTHER -> [w EXCEPT !.table = Grown(w.table, w.page, i, w.next),
                              !.next = w.next + 1, !.page = w.next]

\* Mutant: the entry of an I/O page can be read.
Leaf_readable(phy_pa, backing) == [read |-> TRUE, write |-> TRUE, page |-> phy_pa]

\* The last entry: memory may be read and written; an I/O page is write-only,
\* which the processor reports as a misconfiguration, and has no page.
Leaf(phy_pa, backing) ==
  IF backing = "PAGE_SYSTEM_MEMORY"
  THEN [read |-> TRUE, write |-> TRUE, page |-> phy_pa]
  ELSE [read |-> FALSE, write |-> TRUE, page |-> 0]

\* The walk on the tables t with the free pages from next on, after each level.
Pdpt(t, next, guest) ==
  Descend([table |-> t, next |-> next, page |-> ept_pml4_base, ok |-> TRUE], 4, guest)
Pd(t, next, guest) == Descend(Pdpt(t, next, guest), 3, guest)
Pt(t, next, guest) == Descend(Pd(t, next, guest), 2, guest)

map_ept_page(t, next, guest, phy_pa, backing) ==
  LET w1 == Pt(t, next, guest)
      i  == Index(1, guest)
  IN  CASE ~w1.ok -> [table |-> w1.table, next |-> w1.next, result |-> "ASSERT"]
        [] w1.ok /\ Present(w1.table[w1.page][i]) ->
             [table |-> w1.table, next |-> w1.next, result |-> "ERROR_DUPLICATION"]
        [] OTHER ->
             [table |-> [w1.table EXCEPT ![w1.page][i] = Leaf(phy_pa, backing)],
              next |-> w1.next, result |-> "ERROR_OK"]

\* The entry of a guest page, NoEntry if a table on the way is missing.
EntryOf(guest) ==
  LET e4 == table[ept_pml4_base][Index(4, guest)]
      e3 == table[e4.page][Index(3, guest)]
      e2 == table[e3.page][Index(2, guest)]
  IN  IF Present(e4) /\ Present(e3) /\ Present(e2)
      THEN table[e2.page][Index(1, guest)] ELSE NoEntry

TablesOf(guest) ==
  LET e4 == table[ept_pml4_base][Index(4, guest)]
      e3 == table[e4.page][Index(3, guest)]
      e2 == table[e3.page][Index(2, guest)]
  IN  {ept_pml4_base}
        \cup (IF Present(e4) THEN {e4.page} ELSE {})
        \cup (IF Present(e4) /\ Present(e3) THEN {e3.page} ELSE {})
        \cup (IF Present(e4) /\ Present(e3) /\ Present(e2) THEN {e2.page} ELSE {})

\* An I/O page has no translation.  The test of the last entry is not the one
\* of the levels above: an entry that was never filled, in a table that is
\* there, translates to host page 0.
guestpa_to_hostpa(guest) ==
  LET e4 == table[ept_pml4_base][Index(4, guest)]
      e3 == table[e4.page][Index(3, guest)]
      e2 == table[e3.page][Index(2, guest)]
      e1 == table[e2.page][Index(1, guest)]
  IN  CASE ~Present(e4) -> Nowhere
        [] Present(e4) /\ ~Present(e3) -> Nowhere
        [] Present(e4) /\ Present(e3) /\ ~Present(e2) -> Nowhere
        [] OTHER -> IF ~e1.read /\ e1.write THEN Nowhere ELSE e1.page

-----------------------------------------------------------------------------
Panic ==
  pc' = "panic" /\ UNCHANGED <<table, content, next_page, last_page, addr_high, image,
                                guest_pa>>

\* Mutant: one page is allocated for all of memory.
AddPage_shared ==
  LET page == IF guest_pa = 0 THEN next_page ELSE ept_pml4_base + 1
      m    == map_ept_page(table, IF guest_pa = 0 THEN next_page + 1 ELSE next_page,
                           guest_pa, page, "PAGE_SYSTEM_MEMORY")
  IN
  /\ pc = "memory"
  /\ IF next_page > last_page \/ m.result = "ASSERT"
     THEN Panic
     ELSE /\ content' = [content EXCEPT ![page] = Zero]
          /\ table' = m.table /\ next_page' = m.next
          /\ IF guest_pa + 1 <= addr_high
             THEN guest_pa' = guest_pa + 1 /\ pc' = pc
             ELSE guest_pa' = 1 /\ pc' = "image"
          /\ UNCHANGED <<last_page, addr_high, image>>

\* A turn of the loop of setup_basic_physical_memory, which runs up to
\* addr_high inclusive.
AddPage ==
  LET m == map_ept_page(table, next_page + 1, guest_pa, next_page,
                        "PAGE_SYSTEM_MEMORY")
  IN
  /\ pc = "memory"
  /\ IF next_page > last_page \/ m.result = "ASSERT"
     THEN Panic
     ELSE /\ content' = [content EXCEPT ![next_page] = Zero]
          /\ table' = m.table /\ next_page' = m.next
          /\ IF guest_pa + 1 <= addr_high
             THEN guest_pa' = guest_pa + 1 /\ pc' = pc
             ELSE guest_pa' = 1 /\ pc' = "image"
          /\ UNCHANGED <<last_page, addr_high, image>>

\* Mutant: one page too many is copied.
CopyImage_one_more ==
  /\ pc = "image"
  /\ guest_pa <= image + 1
  /\ content' = [content EXCEPT ![guestpa_to_hostpa(guest_pa)] = ImagePage(guest_pa - 1)]
  /\ guest_pa' = guest_pa + 1
  /\ UNCHANGED <<table, next_page, last_page, addr_high, image, pc>>

\* Mutant: the guest address stays where it is.
CopyImage_unadvanced ==
  /\ pc = "image"
  /\ guest_pa <= image
  /\ content' = [content EXCEPT ![guestpa_to_hostpa(1)] = ImagePage(guest_pa - 1)]
  /\ guest_pa' = guest_pa + 1
  /\ UNCHANGED <<table, next_page, last_page, addr_high, image, pc>>

\* A turn of the loop of initialize_vmcs_guest_image: page guest_pa of memory
\* gets page guest_pa - 1 of the image.
CopyImage ==
  /\ pc = "image"
  /\ guest_pa <= image
  /\ content' = [content EXCEPT ![guestpa_to_hostpa(guest_pa)] = ImagePage(guest_pa - 1)]
  /\ guest_pa' = guest_pa + 1
  /\ UNCHANGED <<table, next_page, last_page, addr_high, image, pc>>

\* initialize_vmcs_device: device_video_init asks for its I/O page.
AddVideo ==
  LET m == map_ept_page(table, next_page, IoPage, 0, "PAGE_SYSTEM_IOMEMORY") IN
  /\ pc = "image"
  /\ guest_pa > image
  /\ IF m.result # "ERROR_OK"
     THEN Panic
     ELSE /\ table' = m.table /\ next_page' = m.next /\ pc' = "launched"
          /\ UNCHANGED <<content, last_page, addr_high, image, guest_pa>>

Next == AddPage \/ CopyImage \/ AddVideo

Spec == Init /\ [][Next]_vars

-----------------------------------------------------------------------------
Backed == {g \in GuestPages : EntryOf(g).read}

\* No two guest pages share a host page, and none of them is a page the
\* tables are kept in, those on the way to the trapped video page and to pages
\* nobody mapped included: what the guest stores can change neither another of
\* its pages nor any translation (vmx_ept.c 48-143).
FramesPrivate ==
  /\ \A g, h \in Backed : g # h => EntryOf(g).page # EntryOf(h).page
  /\ \A g \in Backed, h \in GuestPages : EntryOf(g).page \notin TablesOf(h) \cup {0}

\* What the guest finds in its memory when it is launched: the image from its
\* second page on and zeroes in every other page up to addr_high, whatever the
\* host pages held before (vmx_ept.c 127-143, vmx_vmcs.c 558-578).
GuestSees ==
  pc = "launched" =>
    \A g \in 0 .. addr_high :
      content[guestpa_to_hostpa(g)] =
        IF g \in 1 .. image THEN ImagePage(g - 1) ELSE Zero

\* Host pages the allocator did not hand out keep what they hold: in
\* particular nothing is copied to host page 0.
HostUntouched ==
  /\ content[0] = Old
  /\ \A p \in next_page .. NrPages : content[p] = Old /\ table[p] = OldTable

\* Once the guest runs, the video page and no other is misconfigured, and the
\* monitor never takes it for memory (vmx_ept.c 116-124 with 35-39).
VideoTrapped ==
  pc = "launched" =>
    /\ {g \in GuestPages : EntryOf(g).write /\ ~EntryOf(g).read} = {IoPage}
    /\ guestpa_to_hostpa(IoPage) = Nowhere
=============================================================================
