-------------------------- MODULE MCPhysicalMemory --------------------------
(* A machine of at most twenty pages: the low segment begins at page 1 and   *)
(* ends before the hole, it may be missing or reserved; memory above 4G is   *)
(* absent, one segment, two segments, or followed by a reserved one.         *)
EXTENDS PhysicalMemory

Seg(address, length, type) == [address |-> address, length |-> length, type |-> type]

Lows == {<<>>} \cup {<<Seg(0, 1, TYPE_NORMAL), Seg(LowBase, n, t)>> :
                     n \in 1 .. 7, t \in {TYPE_NORMAL, TYPE_RESERVED}}

Highs == {<<>>, <<Seg(FourG, 4, TYPE_NORMAL)>>,
          <<Seg(FourG, 2, TYPE_NORMAL), Seg(FourG + 3, 5, TYPE_NORMAL)>>,
          <<Seg(FourG, 4, TYPE_NORMAL), Seg(FourG + 4, 2, TYPE_RESERVED)>>}

MCMemoryLists ==
  {l \o <<Seg(9, 1, TYPE_RESERVED)>> \o h : l \in Lows, h \in Highs}
    \cup {h \o l : l \in Lows, h \in Highs}
=============================================================================
