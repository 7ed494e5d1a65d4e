--------------------------- MODULE PhysicalMemory ---------------------------
(***************************************************************************)
(* The physical page allocator of memory/physical_memory.c.  It reads the  *)
(* memory list the boot loader left behind, keeps one segment below 4G and *)
(* one above, and hands out pages upwards; nothing is ever given back.     *)
(* Addresses and lengths are counted in pages of 4K.                       *)
(***************************************************************************)
EXTENDS Integers, Sequences

CONSTANTS
  MemoryLists,      \* the lists a boot loader may leave
  LowBase,          \* 0x100000
  FourG,            \* 0x100000000
  BasePagesEnd,     \* the first page after the kernel image and the page bitmap
  MaxRequest        \* the largest nr_pages a caller asks for

TYPE_NORMAL == 1
TYPE_RESERVED == 2

Segment == [address : Nat, length : Nat \ {0}, type : {TYPE_NORMAL, TYPE_RESERVED}]

SegmentEnd(seg) == seg.address + seg.length

\* The hole below 4G is wider than any request.  The callers ask for at most
\* 1024 pages; the hole of a PC has more than 64K.
ASSUME MemoryAssumption ==
  /\ LowBase \in Nat \ {0} /\ FourG \in Nat /\ BasePagesEnd \in Nat
  /\ MaxRequest \in Nat \ {0}
  /\ \A l \in MemoryLists :
       /\ l \in Seq(Segment)
       /\ \A i \in 1 .. Len(l) :
            l[i].address = LowBase => SegmentEnd(l[i]) + MaxRequest <= FourG

VARIABLES
  list,                 \* MEMORY_LIST_LONG_MODE_BASE
  low,                  \* addr_low4G and length_low4G
  high,                 \* addr_high4G and length_high4G
  current_avail_page,
  given                 \* history: the blocks handed out

memory_vars == <<list, low, high, current_avail_page, given>>

NoSegment == [address |-> 0, length |-> 0]

MemoryInit ==
  /\ list \in MemoryLists
  /\ low = NoSegment
  /\ high = NoSegment
  /\ current_avail_page = 0
  /\ given = {}

-----------------------------------------------------------------------------
IsLow(i) == list[i].type = TYPE_NORMAL /\ list[i].address = LowBase

IsHigh(i) ==
  list[i].type = TYPE_NORMAL /\ list[i].address # LowBase /\ list[i].address >= FourG

\* The loop over the list assigns at every matching segment, so the last one
\* is what the variables hold after it.
LastOf(matching) ==
  IF \E i \in matching : \A j \in matching : j <= i
  THEN LET i == CHOOSE i \in matching : \A j \in matching : j <= i
       IN  [address |-> list[i].address, length |-> list[i].length]
  ELSE NoSegment

\* physical_memory_init, ending with physical_page_bitmap_init, which leaves the
\* page after the bitmap unused.
physical_memory_init ==
  /\ current_avail_page = 0
  /\ low' = LastOf({i \in 1 .. Len(list) : IsLow(i)})
  /\ high' = LastOf({i \in 1 .. Len(list) : IsHigh(i)})
  /\ current_avail_page' = BasePagesEnd + 1
  /\ UNCHANGED <<list, given>>

Within(addr, seg) == addr >= seg.address /\ addr < SegmentEnd(seg)

PHYSICAL_PAGE_VALID(addr) == Within(addr, low) \/ Within(addr, high)

\* Mutant: the end of the block is not checked.
Refused_first_only(nr_pages) == ~PHYSICAL_PAGE_VALID(current_avail_page)

\* The request does not fit where the allocator stands.
Refused(nr_pages) ==
  \/ ~PHYSICAL_PAGE_VALID(current_avail_page)
  \/ ~PHYSICAL_PAGE_VALID(current_avail_page + nr_pages - 1)

\* Mutant: the last page of the block is handed out again.
NextPage_overlap(nr_pages) ==
  LET next_page == current_avail_page + nr_pages - 1 IN
  IF ~PHYSICAL_PAGE_VALID(next_page) /\ next_page < high.address
  THEN high.address ELSE next_page

\* Mutant: the allocator stays at the end of the low segment.
NextPage_no_jump(nr_pages) == current_avail_page + nr_pages

\* Where the allocator continues after a block of nr_pages.
NextPage(nr_pages) ==
  LET next_page == current_avail_page + nr_pages IN
  IF ~PHYSICAL_PAGE_VALID(next_page) /\ next_page < high.address
  THEN high.address ELSE next_page

\* get_physical_pages; get_physical_page is the case of one page.
get_physical_pages(nr_pages) ==
  /\ current_avail_page # 0
  /\ IF Refused(nr_pages)
     THEN UNCHANGED memory_vars
     ELSE /\ current_avail_page' = NextPage(nr_pages)
          /\ given' = given \cup {[first |-> current_avail_page, count |-> nr_pages]}
          /\ UNCHANGED <<list, low, high>>

MemoryNext ==
  \/ physical_memory_init
  \/ \E nr_pages \in 1 .. MaxRequest : get_physical_pages(nr_pages)

MemorySpec == MemoryInit /\ [][MemoryNext]_memory_vars

-----------------------------------------------------------------------------
PagesOf(block) == block.first .. block.first + block.count - 1

MemoryTypeOK ==
  /\ list \in MemoryLists
  /\ low \in [address : Nat, length : Nat]
  /\ high \in [address : Nat, length : Nat]
  /\ current_avail_page \in Nat
  /\ given \subseteq [first : Nat, count : 1 .. MaxRequest]

\* No page is handed out twice, across the end of the low segment and the jump
\* to the high one (physical_memory.c 93-105).
BlocksDisjoint ==
  \A a, b \in given : a # b => PagesOf(a) \cap PagesOf(b) = {}

\* Every page handed out is memory: a block does not reach over the end of its
\* segment although only its first and its last page are checked.
BlocksInMemory ==
  \A block \in given : \E i \in 1 .. Len(list) :
    list[i].type = TYPE_NORMAL /\ PagesOf(block) \subseteq
      list[i].address .. SegmentEnd(list[i]) - 1

MemoryPages ==
  (low.address .. SegmentEnd(low) - 1) \cup (high.address .. SegmentEnd(high) - 1)

\* No page is lost: once the first request has been met, every page of the two
\* segments after the image and the bitmap has been handed out or can still be,
\* because the allocator stands on memory below it.  The jump from the low
\* segment to the high one skips nothing, and is not missed (physical_memory.c
\* 100-104).  Without a low segment the first request fails, and all others.
NoPageLost ==
  given # {} => \A page \in MemoryPages : page > BasePagesEnd =>
    \/ \E block \in given : page \in PagesOf(block)
    \/ current_avail_page <= page /\ PHYSICAL_PAGE_VALID(current_avail_page)

\* What makes the above inductive: the two segments are segments of the list,
\* all blocks lie below the page that is handed out next, and the first one
\* begins where physical_memory_init left off.
LowListed ==
  low = NoSegment \/ \E i \in 1 .. Len(list) :
    IsLow(i) /\ low = [address |-> list[i].address, length |-> list[i].length]

HighListed ==
  high = NoSegment \/ \E i \in 1 .. Len(list) :
    IsHigh(i) /\ high = [address |-> list[i].address, length |-> list[i].length]

BlocksBelow ==
  \A block \in given : block.first + block.count <= current_avail_page

FirstBlock == given = {} => current_avail_page \in {0, BasePagesEnd + 1}

MemoryInv ==
  /\ MemoryTypeOK
  /\ LowListed
  /\ HighListed
  /\ BlocksBelow
  /\ FirstBlock
  /\ BlocksDisjoint
  /\ BlocksInMemory

\* The allocator never goes back (nothing is reclaimed).
NeverBack == [][current_avail_page' >= current_avail_page]_memory_vars
=============================================================================
