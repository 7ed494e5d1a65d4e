-------------------------- MODULE PageTable_proofs --------------------------
(***************************************************************************)
(* The tables of paging.c form a tree, and walking them implements the     *)
(* address space: for every table size, every number of pages and every    *)
(* set of requests that keeps large and small pages apart.                 *)
(***************************************************************************)
EXTENDS PageTable, TLAPS

-----------------------------------------------------------------------------
(* The index macros: what the indices of a page say of its number.         *)

\* Multiplication is monotonic.
LEMMA Times ==
  ASSUME NEW a \in Nat, NEW b \in Nat, NEW m \in Nat, a <= b
  PROVE  a * m <= b * m
  OBVIOUS

\* Quotient and remainder of a division by the size of a table.
LEMMA Divided ==
  ASSUME NEW x \in Nat
  PROVE  /\ x \div Fan \in Nat /\ x % Fan \in 0 .. Fan - 1
         /\ x = (x \div Fan) * Fan + (x % Fan)
  BY FanAssumption, SMTT(40)

\* They determine the number.
LEMMA SameNumber ==
  ASSUME NEW x \in Nat, NEW y \in Nat, x \div Fan = y \div Fan, x % Fan = y % Fan
  PROVE  x = y
  BY Divided, Zenon

\* A quotient, from what lies between two multiples.
LEMMA Quotient ==
  ASSUME NEW m \in Nat \ {0}, NEW x \in Nat, NEW q \in Nat, NEW r \in Nat,
         r < m, x = q * m + r
  PROVE  x \div m = q
  <1> DEFINE d == x \div m
  <1>1. d \in Nat /\ d * m <= x /\ x < d * m + m
    OBVIOUS
  <1> HIDE DEF d
  <1>2. ~ (d + 1 <= q)
    <2> SUFFICES ASSUME d + 1 <= q PROVE FALSE
      BY Zenon
    <2>1. (d + 1) * m <= q * m
      BY <1>1, Times
    <2>. QED
      BY <1>1, <2>1
  <1>3. ~ (q + 1 <= d)
    <2> SUFFICES ASSUME q + 1 <= d PROVE FALSE
      BY Zenon
    <2>1. (q + 1) * m <= d * m
      BY <1>1, Times
    <2>. QED
      BY <1>1, <2>1
  <1>. QED
    BY <1>1, <1>2, <1>3 DEF d

\* Dividing by the product is dividing twice.
LEMMA Twice ==
  ASSUME NEW x \in Nat, NEW m \in Nat \ {0}
  PROVE  x \div (m * Fan) = (x \div m) \div Fan
  <1> DEFINE a == x \div m
             b == a \div Fan
  <1>1. a \in Nat /\ x % m \in 0 .. m - 1 /\ x = a * m + (x % m)
    OBVIOUS
  <1> HIDE DEF a
  <1>2. b \in Nat /\ a % Fan \in 0 .. Fan - 1 /\ a = b * Fan + (a % Fan)
    BY <1>1, Divided, Zenon
  <1> HIDE DEF b
  <1> DEFINE s == a % Fan
             t == x % m
             r == s * m + t
  <1>3. s \in Nat /\ t \in Nat /\ s + 1 <= Fan /\ t < m /\ Fan \in Nat
    BY <1>1, <1>2, FanAssumption
  <1>4. a = b * Fan + s /\ x = a * m + t
    BY <1>1, <1>2, Zenon
  <1> HIDE DEF s, t
  <1>5. (s + 1) * m <= Fan * m
    BY <1>3, Times
  <1>6. r \in Nat /\ r < Fan * m
    BY <1>3, <1>5
  <1>7. x = b * (m * Fan) + r
    BY <1>2, <1>3, <1>4
  <1>8. m * Fan \in Nat \ {0} /\ m * Fan = Fan * m
    BY FanAssumption
  <1> HIDE DEF r
  <1>. QED
    BY <1>2, <1>6, <1>7, <1>8, Quotient, Zenon DEF a, b

\* A quotient below a bound.
LEMMA QuotientBelow ==
  ASSUME NEW x \in Nat, NEW m \in Nat, x < m * Fan
  PROVE  x \div Fan < m
  <1>1. x \div Fan \in Nat /\ (x \div Fan) * Fan <= x
    BY Divided, FanAssumption
  <1>2. ~ (m <= x \div Fan)
    <2> SUFFICES ASSUME m <= x \div Fan PROVE FALSE
      BY Zenon
    <2>1. m * Fan <= (x \div Fan) * Fan
      BY <1>1, Times, FanAssumption, Zenon
    <2>. QED
      BY <1>1, <2>1, FanAssumption
  <1>. QED
    BY <1>1, <1>2

\* The indices are the digits of the page number.
LEMMA Digits ==
  ASSUME NEW v \in VirtualPages
  PROVE  /\ v \in Nat /\ RegionOf(v) \in Nat
         /\ Index(1, v) = v % Fan
         /\ Index(2, v) = RegionOf(v) % Fan
         /\ Index(3, v) = (RegionOf(v) \div Fan) % Fan
         /\ Index(4, v) = (RegionOf(v) \div Fan) \div Fan
         /\ \A level \in 1 .. 4 : Index(level, v) \in 0 .. Fan - 1
  <1> DEFINE q == v \div Fan
             p == q \div Fan
             o == p \div Fan
  <1>0. Fan \in Nat /\ Fan * Fan \in Nat /\ Fan * Fan * Fan \in Nat
    <2>1. Fan \in Nat /\ Fan * Fan \in Nat
      BY FanAssumption
    <2>. QED
      BY <2>1
  <1>1. /\ Fan \in Nat \ {0} /\ Fan * Fan \in Nat \ {0}
        /\ Fan * (Fan * Fan * Fan) = Fan * Fan * Fan * Fan
    BY FanAssumption
  <1>2. v \in Nat /\ v < Fan * Fan * Fan * Fan
    BY <1>1 DEF VirtualPages, Span
  <1>3. q \in Nat /\ q < Fan * Fan * Fan
    BY <1>0, <1>1, <1>2, Divided, QuotientBelow, Zenon
  <1> HIDE DEF q
  <1>4. p \in Nat /\ p < Fan * Fan
    BY <1>0, <1>1, <1>3, Divided, QuotientBelow, Zenon
  <1> HIDE DEF p
  <1>5. o \in Nat /\ o < Fan
    BY <1>1, <1>4, Divided, QuotientBelow, Zenon
  <1> HIDE DEF o
  <1>6. v \div 1 = v
    BY <1>2
  <1>7. v \div (Fan * Fan) = p
    BY <1>1, <1>2, Twice, Zenon DEF p, q
  <1>8. v \div (Fan * Fan * Fan) = o
    BY <1>1, <1>2, <1>7, Twice, Zenon DEF o
  <1>9. o % Fan = o
    BY <1>1, <1>5
  <1>10. /\ v % Fan \in 0 .. Fan - 1 /\ q % Fan \in 0 .. Fan - 1
         /\ p % Fan \in 0 .. Fan - 1
    BY <1>2, <1>3, <1>4, Divided, Zenon
  <1>11. /\ Index(1, v) = v % Fan /\ Index(2, v) = q % Fan
         /\ Index(3, v) = p % Fan /\ Index(4, v) = o
    BY <1>6, <1>7, <1>8, <1>9 DEF Index, Span, q
  <1>12. \A level \in 1 .. 4 : level = 1 \/ level = 2 \/ level = 3 \/ level = 4
    OBVIOUS
  <1>13. o \in 0 .. Fan - 1
    BY <1>1, <1>5
  <1>14. \A level \in 1 .. 4 : Index(level, v) \in 0 .. Fan - 1
    BY <1>10, <1>11, <1>12, <1>13, Zenon
  <1>. QED
    BY <1>2, <1>3, <1>11, <1>14, Zenon DEF q, p, o, RegionOf

\* The three upper indices determine the region of a large page, and all four
\* determine the page.
LEMMA SamePage ==
  ASSUME NEW u \in VirtualPages, NEW v \in VirtualPages
  PROVE  /\ RegionOf(u) = RegionOf(v) <=>
              \A level \in 2 .. 4 : Index(level, u) = Index(level, v)
         /\ RegionOf(u) = RegionOf(v) /\ Index(1, u) = Index(1, v) => u = v
  <1>1. RegionOf(u) = RegionOf(v) =>
          \A level \in 2 .. 4 : Index(level, u) = Index(level, v)
    <2>1. \A level \in 2 .. 4 : level = 2 \/ level = 3 \/ level = 4
      OBVIOUS
    <2>. QED
      BY <2>1, Digits, Zenon
  <1>2. ASSUME \A level \in 2 .. 4 : Index(level, u) = Index(level, v)
        PROVE  RegionOf(u) = RegionOf(v)
    <2>1. /\ Index(2, u) = Index(2, v) /\ Index(3, u) = Index(3, v)
          /\ Index(4, u) = Index(4, v)
      BY <1>2
    <2>2. RegionOf(u) \div Fan \in Nat /\ RegionOf(v) \div Fan \in Nat
      BY Digits, Divided, Zenon
    <2>3. RegionOf(u) \div Fan = RegionOf(v) \div Fan
      BY <2>1, <2>2, Digits, SameNumber
    <2>. QED
      BY <2>1, <2>3, Digits, SameNumber
  <1>3. RegionOf(u) = RegionOf(v) /\ Index(1, u) = Index(1, v) => u = v
    BY Digits, SameNumber DEF RegionOf
  <1>. QED
    BY <1>1, <1>2, <1>3, Zenon

-----------------------------------------------------------------------------
(* The tree the tables t form when pages 1 to n are in use: each has a      *)
(* level, and each but pml4_base hangs from the entry slot of table par.    *)

Slots == 0 .. Fan - 1

EntryType == [present : BOOLEAN, page_size : BOOLEAN, address : Nat]

Memory == [1 .. NrPages -> [Slots -> EntryType]]

Shape(t, n, level, par, slot) ==
  /\ t \in Memory
  /\ n \in 1 .. NrPages
  /\ level \in [1 .. n -> 1 .. 4]
  /\ par \in [2 .. n -> 1 .. n]
  /\ slot \in [2 .. n -> Slots]
  /\ level[1] = 4

\* The entry a table hangs from leads to it.
Linked(t, n, level, par, slot) ==
  \A p \in 2 .. n :
    /\ level[par[p]] = level[p] + 1
    /\ t[par[p]][slot[p]].present
    /\ ~t[par[p]][slot[p]].page_size
    /\ t[par[p]][slot[p]].address = p

\* An entry that is present leads to the table that hangs from it, unless it
\* is a leaf: a large page, or an entry of the last level.
Leads(t, n, level, par, slot) ==
  \A p \in 1 .. n, i \in Slots :
    t[p][i].present =>
      /\ t[p][i].page_size => level[p] = 2
      /\ level[p] >= 2 /\ ~t[p][i].page_size =>
           /\ t[p][i].address \in 2 .. n
           /\ par[t[p][i].address] = p
           /\ slot[t[p][i].address] = i

\* p is a table on the path of page v.
OnPath(v, p, level, par, slot) ==
  /\ level[p] <= 3 => slot[p] = Index(level[p] + 1, v)
  /\ level[p] <= 2 => slot[par[p]] = Index(level[p] + 2, v)
  /\ level[p] <= 1 => slot[par[par[p]]] = Index(level[p] + 3, v)

\* The request an entry of the second level was filled for.
FilledFor(r, p, i, e, level, par, slot) ==
  /\ OnPath(r.virt, p, level, par, slot)
  /\ Index(2, r.virt) = i
  /\ e.page_size <=> r.size = Fan

Regions(t, n, level, par, slot) ==
  \A p \in 1 .. n, i \in Slots :
    level[p] = 2 /\ t[p][i].present =>
      \E r \in Requests : FilledFor(r, p, i, t[p][i], level, par, slot)

Tree(t, n, level, par, slot) ==
  /\ Shape(t, n, level, par, slot)
  /\ Linked(t, n, level, par, slot)
  /\ Leads(t, n, level, par, slot)
  /\ Regions(t, n, level, par, slot)

IInv ==
  \E n, level, par, slot : next_page = n + 1 /\ Tree(table, n, level, par, slot)

\* Only pml4_base is of level 4.
LEMMA OneRoot ==
  ASSUME NEW t, NEW n, NEW level, NEW par, NEW slot, Tree(t, n, level, par, slot),
         NEW p \in 1 .. n
  PROVE  /\ level[p] \in 1 .. 4
         /\ level[p] = 4 <=> p = 1
         /\ p # 1 => p \in 2 .. n /\ par[p] \in 1 .. n /\ slot[p] \in Slots
  <1>1. n \in Int /\ level[p] \in 1 .. 4
    BY DEF Tree, Shape
  <1>2. p # 1 => p \in 2 .. n
    BY <1>1
  <1>3. p # 1 => par[p] \in 1 .. n /\ slot[p] \in Slots /\ level[par[p]] \in 1 .. 4
    BY <1>2, Zenon DEF Tree, Shape
  <1>4. p # 1 => level[par[p]] = level[p] + 1
    BY <1>2, Zenon DEF Tree, Linked
  <1>. QED
    BY <1>1, <1>2, <1>3, <1>4 DEF Tree, Shape

\* The tables above a table, up to pml4_base.
LEMMA Above ==
  ASSUME NEW t, NEW n, NEW level, NEW par, NEW slot, Tree(t, n, level, par, slot),
         NEW p \in 1 .. n, level[p] <= 3
  PROVE  /\ p \in 2 .. n /\ par[p] \in 1 .. n
         /\ level[par[p]] = level[p] + 1
         /\ t[par[p]][slot[p]].present /\ ~t[par[p]][slot[p]].page_size
         /\ t[par[p]][slot[p]].address = p
  <1>1. p # 1
    BY OneRoot
  <1>2. p \in 2 .. n /\ par[p] \in 1 .. n
    BY <1>1, OneRoot, Zenon
  <1>. QED
    BY <1>2, Zenon DEF Tree, Linked

-----------------------------------------------------------------------------
(* A new table in the tree: page x is hung from entry i of table p.        *)

Grown(t, x, p, i) == [t EXCEPT ![p][i] = Entry(x, FALSE), ![x] = EmptyTable]

\* f with page x added to its domain.
With(f, x, value) == [q \in (DOMAIN f) \cup {x} |-> IF q = x THEN value ELSE f[q]]

\* What the store changes and what not.
Hung(g, t, x, p, i) ==
  /\ g \in Memory
  /\ g[p][i] = Entry(x, FALSE)
  /\ \A j \in Slots : g[x][j] = NoEntry
  /\ \A q \in 1 .. NrPages, j \in Slots :
       q # x /\ (q # p \/ j # i) => g[q][j] = t[q][j]

\* Descend stores so.
LEMMA GrownMemory ==
  ASSUME NEW t \in Memory, NEW x \in 1 .. NrPages, NEW p \in 1 .. NrPages, p # x,
         NEW i \in Slots
  PROVE  Hung(Grown(t, x, p, i), t, x, p, i)
  <1> DEFINE row == [t[p] EXCEPT ![i] = Entry(x, FALSE)]
             g == [t EXCEPT ![p] = row, ![x] = EmptyTable]
  <1>0. NrPages \in Nat
    BY RequestsAssumption, Zenon
  <1>2. t[p] \in [Slots -> EntryType] /\ DOMAIN t = 1 .. NrPages
    BY Zenon DEF Memory
  <1>3. Entry(x, FALSE) \in EntryType /\ NoEntry \in EntryType
    BY <1>0 DEF Entry, NoEntry, EntryType
  <1>4. /\ row \in [Slots -> EntryType] /\ row[i] = Entry(x, FALSE)
        /\ \A j \in Slots : j # i => row[j] = t[p][j]
    BY <1>2, <1>3, ZenonT(40)
  <1>5. EmptyTable \in [Slots -> EntryType] /\ \A j \in Slots : EmptyTable[j] = NoEntry
    BY <1>3, Zenon DEF EmptyTable, Slots
  <1>6. Grown(t, x, p, i) = g
    BY <1>2, Zenon DEF Grown
  <1> HIDE DEF row
  <1>7. g \in Memory /\ g[p] = row /\ g[x] = EmptyTable
    BY <1>4, <1>5, Zenon DEF Memory
  <1>8. \A q \in 1 .. NrPages : q # p /\ q # x => g[q] = t[q]
    BY <1>2, Zenon
  <1> HIDE DEF g
  <1>. QED
    BY <1>4, <1>5, <1>6, <1>7, <1>8, Zenon DEF Hung

\* The tree lev, pa2, slo has the tables of level, par, slot at their places.
Extends(lev, pa2, slo, n, level, par, slot) ==
  /\ \A q \in 1 .. n : lev[q] = level[q]
  /\ \A q \in 2 .. n : pa2[q] = par[q] /\ slo[q] = slot[q]

\* A table stays on the paths it is on when the tree around it grows.
LEMMA SamePath ==
  ASSUME NEW t, NEW n, NEW level, NEW par, NEW slot, Tree(t, n, level, par, slot),
         NEW lev, NEW pa2, NEW slo, Extends(lev, pa2, slo, n, level, par, slot),
         NEW v, NEW p \in 1 .. n
  PROVE  OnPath(v, p, lev, pa2, slo) <=> OnPath(v, p, level, par, slot)
  <1>0. /\ \A q \in 1 .. n : lev[q] = level[q]
        /\ \A q \in 2 .. n : pa2[q] = par[q] /\ slo[q] = slot[q]
    BY Zenon DEF Extends
  <1> DEFINE up == par[p]
             upup == par[up]
  <1>1. level[p] \in 1 .. 4
    BY OneRoot, Zenon
  <1>2. level[p] <= 3 => p \in 2 .. n /\ up \in 1 .. n /\ level[up] = level[p] + 1
    BY Above
  <1> HIDE DEF up
  <1>3. level[p] <= 2 => up \in 2 .. n /\ upup \in 1 .. n /\ level[upup] = level[p] + 2
    <2> SUFFICES ASSUME level[p] <= 2
                 PROVE  up \in 2 .. n /\ upup \in 1 .. n /\ level[upup] = level[p] + 2
      BY Zenon
    <2>1. up \in 1 .. n /\ level[up] <= 3 /\ level[up] = level[p] + 1
      BY <1>1, <1>2
    <2>2. up \in 2 .. n /\ upup \in 1 .. n /\ level[upup] = level[up] + 1
      BY <2>1, Above
    <2>. QED
      BY <1>1, <2>1, <2>2
  <1> HIDE DEF upup
  <1>4. level[p] <= 1 => upup \in 2 .. n
    <2> SUFFICES ASSUME level[p] <= 1 PROVE upup \in 2 .. n
      BY Zenon
    <2>1. upup \in 1 .. n /\ level[upup] <= 3
      BY <1>1, <1>3
    <2>. QED
      BY <2>1, Above, Zenon
  <1>5. lev[p] = level[p]
    BY <1>0, Zenon
  <1>6. level[p] <= 3 => pa2[p] = up /\ slo[p] = slot[p]
    BY <1>0, <1>2, Zenon DEF up
  <1>7. level[p] <= 2 => pa2[pa2[p]] = upup /\ slo[pa2[p]] = slot[par[p]]
    BY <1>0, <1>1, <1>3, <1>6 DEF upup, up
  <1>8. level[p] <= 1 => slo[pa2[pa2[p]]] = slot[par[par[p]]]
    BY <1>0, <1>1, <1>4, <1>7 DEF upup, up
  <1>. QED
    BY <1>1, <1>5, <1>6, <1>7, <1>8, Zenon DEF OnPath

\* The tree with the new table is a tree.
LEMMA GrownTree ==
  ASSUME NEW t, NEW n, NEW level, NEW par, NEW slot, Tree(t, n, level, par, slot),
         NEW x, x = n + 1, x <= NrPages,
         NEW p \in 1 .. n, NEW i \in Slots, level[p] >= 2,
         ~t[p][i].present,
         level[p] = 2 => \E r \in Requests : /\ r.size # Fan /\ Index(2, r.virt) = i
                                             /\ OnPath(r.virt, p, level, par, slot)
  PROVE  Tree(Grown(t, x, p, i), x, With(level, x, level[p] - 1),
              With(par, x, p), With(slot, x, i))
  <1> DEFINE g == Grown(t, x, p, i)
             lev == With(level, x, level[p] - 1)
             pa2 == With(par, x, p)
             slo == With(slot, x, i)
  <1>1. /\ NrPages \in Nat /\ n \in 1 .. NrPages /\ x \in 2 .. NrPages
        /\ t \in Memory /\ level \in [1 .. n -> 1 .. 4]
        /\ par \in [2 .. n -> 1 .. n] /\ slot \in [2 .. n -> Slots]
        /\ level[1] = 4
    BY RequestsAssumption DEF Tree, Shape
  <1>2. /\ g \in Memory /\ g[p][i] = Entry(x, FALSE)
        /\ \A j \in Slots : g[x][j] = NoEntry
        /\ \A q \in 1 .. n, j \in Slots : q # p \/ j # i => g[q][j] = t[q][j]
    <2>1. /\ x \in 1 .. NrPages /\ p \in 1 .. NrPages /\ p # x
          /\ \A q \in 1 .. n : q \in 1 .. NrPages /\ q # x
      BY <1>1
    <2>2. Hung(g, t, x, p, i)
      BY <1>1, <2>1, GrownMemory, Zenon
    <2> HIDE DEF g
    <2>. QED
      BY <2>1, <2>2, Zenon DEF Hung
  <1> HIDE DEF g
  <1>3. level[p] \in 1 .. 4 /\ level[p] - 1 \in 1 .. 3
    BY <1>1
  <1>4. /\ (1 .. n) \cup {x} = 1 .. x /\ (2 .. n) \cup {x} = 2 .. x
        /\ \A q \in 1 .. n : q # x /\ q \in 1 .. x
        /\ \A q \in 2 .. n : q # x /\ q \in 2 .. x
        /\ x \in 1 .. x /\ x \in 2 .. x /\ 1 \in 1 .. n
    BY <1>1
  <1>5. /\ lev \in [1 .. x -> 1 .. 4] /\ lev[x] = level[p] - 1
        /\ \A q \in 1 .. n : lev[q] = level[q]
    BY <1>1, <1>3, <1>4 DEF With
  <1>6. /\ pa2 \in [2 .. x -> 1 .. x] /\ pa2[x] = p
        /\ \A q \in 2 .. n : pa2[q] = par[q]
    BY <1>1, <1>4, Zenon DEF With
  <1>7. /\ slo \in [2 .. x -> Slots] /\ slo[x] = i
        /\ \A q \in 2 .. n : slo[q] = slot[q]
    BY <1>1, <1>4, Zenon DEF With
  <1> HIDE DEF lev, pa2, slo
  <1>9. Shape(g, x, lev, pa2, slo)
    <2>1. lev[1] = 4 /\ x \in 1 .. NrPages
      BY <1>1, <1>4, <1>5
    <2>. QED
      BY <1>2, <1>5, <1>6, <1>7, <2>1, Zenon DEF Shape
  <1>10. Linked(g, x, lev, pa2, slo)
    <2> SUFFICES ASSUME NEW q \in 2 .. x
                 PROVE  /\ lev[pa2[q]] = lev[q] + 1
                        /\ g[pa2[q]][slo[q]].present
                        /\ ~g[pa2[q]][slo[q]].page_size
                        /\ g[pa2[q]][slo[q]].address = q
      BY Zenon DEF Linked
    <2>1. CASE q = x
      BY <2>1, <1>1, <1>2, <1>3, <1>5, <1>6, <1>7 DEF Entry
    <2>2. CASE q \in 2 .. n
      <3>1. /\ par[q] \in 1 .. n /\ slot[q] \in Slots
            /\ pa2[q] = par[q] /\ slo[q] = slot[q] /\ lev[q] = level[q]
            /\ lev[par[q]] = level[par[q]]
        BY <2>2, <1>1, <1>5, <1>6, <1>7
      <3>2. /\ level[par[q]] = level[q] + 1
            /\ t[par[q]][slot[q]].present
            /\ ~t[par[q]][slot[q]].page_size
            /\ t[par[q]][slot[q]].address = q
        BY <2>2, Zenon DEF Tree, Linked
      <3>3. g[par[q]][slot[q]] = t[par[q]][slot[q]]
        BY <1>2, <3>1, <3>2, Zenon
      <3>. QED
        BY <3>1, <3>2, <3>3, Zenon
    <2>. QED
      BY <1>1, <1>4, <2>1, <2>2, Zenon
  <1>11. Leads(g, x, lev, pa2, slo)
    <2> SUFFICES ASSUME NEW q \in 1 .. x, NEW j \in Slots, g[q][j].present
                 PROVE  /\ g[q][j].page_size => lev[q] = 2
                        /\ lev[q] >= 2 /\ ~g[q][j].page_size =>
                             /\ g[q][j].address \in 2 .. x
                             /\ pa2[g[q][j].address] = q
                             /\ slo[g[q][j].address] = j
      BY Zenon DEF Leads
    <2>1. q # x
      BY <1>2 DEF NoEntry
    <2>2. q \in 1 .. n
      BY <1>4, <2>1, Zenon
    <2>3. CASE q = p /\ j = i
      BY <2>3, <1>4, <1>2, <1>6, <1>7 DEF Entry
    <2>4. CASE q # p \/ j # i
      <3>1. g[q][j] = t[q][j] /\ lev[q] = level[q]
        BY <1>2, <1>5, <2>2, <2>4, Zenon
      <3>2. /\ t[q][j].page_size => level[q] = 2
            /\ level[q] >= 2 /\ ~t[q][j].page_size =>
                 /\ t[q][j].address \in 2 .. n
                 /\ par[t[q][j].address] = q
                 /\ slot[t[q][j].address] = j
        BY <2>2, <3>1 DEF Tree, Leads
      <3>3. \A y \in 2 .. n : y \in 2 .. x /\ pa2[y] = par[y] /\ slo[y] = slot[y]
        BY <1>4, <1>6, <1>7, Zenon
      <3>. QED
        BY <3>1, <3>2, <3>3, Zenon
    <2>. QED
      BY <2>3, <2>4, Zenon
  <1>12. Regions(g, x, lev, pa2, slo)
    <2> SUFFICES ASSUME NEW q \in 1 .. x, NEW j \in Slots, lev[q] = 2, g[q][j].present
                 PROVE  \E r \in Requests : FilledFor(r, q, j, g[q][j], lev, pa2, slo)
      BY Zenon DEF Regions
    <2>1. q # x
      BY <1>2 DEF NoEntry
    <2>2. q \in 1 .. n /\ level[q] = 2
      BY <1>4, <1>5, <2>1, Zenon
    <2>3. \A r \in Requests : OnPath(r.virt, q, lev, pa2, slo) <=>
                                OnPath(r.virt, q, level, par, slot)
      <3>1. Extends(lev, pa2, slo, n, level, par, slot)
        BY <1>5, <1>6, <1>7, Zenon DEF Extends
      <3>. QED
        BY <2>2, <3>1, SamePath, Zenon
    <2>4. CASE q = p /\ j = i
      <3>1. PICK r \in Requests : /\ r.size # Fan /\ Index(2, r.virt) = i
                                  /\ OnPath(r.virt, p, level, par, slot)
        BY <2>2, <2>4, Zenon
      <3>2. ~g[q][j].page_size
        BY <1>2, <2>4 DEF Entry
      <3>. QED
        BY <2>3, <2>4, <3>1, <3>2, Zenon DEF FilledFor
    <2>5. CASE q # p \/ j # i
      <3>1. g[q][j] = t[q][j]
        BY <1>2, <2>2, <2>5, Zenon
      <3>2. PICK r \in Requests : FilledFor(r, q, j, t[q][j], level, par, slot)
        BY <2>2, <3>1, Zenon DEF Tree, Regions
      <3>. QED
        BY <2>3, <3>1, <3>2, Zenon DEF FilledFor
    <2>. QED
      BY <2>4, <2>5, Zenon
  <1>. QED
    BY <1>9, <1>10, <1>11, <1>12, Zenon DEF Tree, g, lev, pa2, slo

-----------------------------------------------------------------------------
(* A new leaf: the entry of the last table of a request.                   *)

Filled(f, t, p, i, e) ==
  /\ f \in Memory
  /\ f[p][i] = e
  /\ \A q \in 1 .. NrPages, j \in Slots : q # p \/ j # i => f[q][j] = t[q][j]

\* The store of map_address.
LEMMA FilledMemory ==
  ASSUME NEW t \in Memory, NEW p \in 1 .. NrPages, NEW i \in Slots, NEW e \in EntryType
  PROVE  Filled([t EXCEPT ![p][i] = e], t, p, i, e)
  <1> DEFINE row == [t[p] EXCEPT ![i] = e]
             f == [t EXCEPT ![p] = row]
  <1>1. t[p] \in [Slots -> EntryType] /\ DOMAIN t = 1 .. NrPages
    BY Zenon DEF Memory
  <1>2. /\ row \in [Slots -> EntryType] /\ row[i] = e
        /\ \A j \in Slots : j # i => row[j] = t[p][j]
    BY <1>1, Zenon
  <1>3. [t EXCEPT ![p][i] = e] = f
    BY <1>1, Zenon
  <1> HIDE DEF row
  <1>4. f \in Memory /\ f[p] = row /\ \A q \in 1 .. NrPages : q # p => f[q] = t[q]
    BY <1>1, <1>2, Zenon DEF Memory
  <1> HIDE DEF f
  <1>. QED
    BY <1>2, <1>3, <1>4, ZenonT(40) DEF Filled

\* It leaves a tree.
LEMMA FilledTree ==
  ASSUME NEW t, NEW n, NEW level, NEW par, NEW slot, Tree(t, n, level, par, slot),
         NEW p \in 1 .. n, NEW i \in Slots, ~t[p][i].present,
         NEW r \in Requests, OnPath(r.virt, p, level, par, slot),
         level[p] = (IF r.size = Fan THEN 2 ELSE 1), i = Index(level[p], r.virt),
         NEW f, Filled(f, t, p, i, Entry(r.phys, r.size = Fan))
  PROVE  Tree(f, n, level, par, slot)
  <1> DEFINE large == r.size = Fan
  <1>1. /\ f \in Memory
        /\ f[p][i].present /\ f[p][i].page_size = large
        /\ \A q \in 1 .. n, j \in Slots : q # p \/ j # i => f[q][j] = t[q][j]
    <2>1. \A q \in 1 .. n : q \in 1 .. NrPages
      BY RequestsAssumption DEF Tree, Shape
    <2>2. f[p][i] = Entry(r.phys, large) /\ f \in Memory
      BY Zenon DEF Filled
    <2> HIDE DEF large
    <2>. QED
      BY <2>1, <2>2 DEF Filled, Entry
  <1>2. Shape(f, n, level, par, slot)
    BY <1>1, Zenon DEF Tree, Shape
  <1>3. Linked(f, n, level, par, slot)
    <2> SUFFICES ASSUME NEW q \in 2 .. n
                 PROVE  /\ level[par[q]] = level[q] + 1
                        /\ f[par[q]][slot[q]].present
                        /\ ~f[par[q]][slot[q]].page_size
                        /\ f[par[q]][slot[q]].address = q
      BY Zenon DEF Linked
    <2>1. /\ level[par[q]] = level[q] + 1
          /\ t[par[q]][slot[q]].present
          /\ ~t[par[q]][slot[q]].page_size
          /\ t[par[q]][slot[q]].address = q
          /\ par[q] \in 1 .. n /\ slot[q] \in Slots
      BY Zenon DEF Tree, Linked, Shape
    <2>2. f[par[q]][slot[q]] = t[par[q]][slot[q]]
      BY <1>1, <2>1, SMTT(40)
    <2>. QED
      BY <2>1, <2>2, Zenon
  <1>4. Leads(f, n, level, par, slot)
    <2> SUFFICES ASSUME NEW q \in 1 .. n, NEW j \in Slots, f[q][j].present
                 PROVE  /\ f[q][j].page_size => level[q] = 2
                        /\ level[q] >= 2 /\ ~f[q][j].page_size =>
                             /\ f[q][j].address \in 2 .. n
                             /\ par[f[q][j].address] = q
                             /\ slot[f[q][j].address] = j
      BY Zenon DEF Leads
    <2>1. CASE q = p /\ j = i
      <3>1. CASE large
        BY <1>1, <2>1, <3>1, ZenonT(40)
      <3>2. CASE ~large
        <4>1. level[q] = 1 /\ ~f[q][j].page_size
          BY <1>1, <2>1, <3>2, ZenonT(40)
        <4>. QED
          BY <4>1
      <3>. QED
        BY <3>1, <3>2, Zenon
    <2>2. CASE q # p \/ j # i
      BY <1>1, <2>2 DEF Tree, Leads
    <2>. QED
      BY <2>1, <2>2, Zenon
  <1>5. Regions(f, n, level, par, slot)
    <2> SUFFICES ASSUME NEW q \in 1 .. n, NEW j \in Slots, level[q] = 2, f[q][j].present
                 PROVE  \E s \in Requests : FilledFor(s, q, j, f[q][j], level, par, slot)
      BY Zenon DEF Regions
    <2>1. CASE q = p /\ j = i
      BY <1>1, <2>1, ZenonT(40) DEF FilledFor
    <2>2. CASE q # p \/ j # i
      BY <1>1, <2>2, Zenon DEF Tree, Regions
    <2>. QED
      BY <2>1, <2>2, Zenon
  <1>. QED
    BY <1>2, <1>3, <1>4, <1>5, Zenon DEF Tree

-----------------------------------------------------------------------------
(* Walking the tree.                                                       *)

\* pa, for tables t.
PaOf(t, v) ==
  LET e4 == t[pml4_base][Index(4, v)]
      e3 == t[e4.address][Index(3, v)]
      e2 == t[e3.address][Index(2, v)]
      e1 == t[e2.address][Index(1, v)]
  IN  CASE ~e4.present -> Unmapped
        [] e4.present /\ ~e3.present -> Unmapped
        [] e4.present /\ e3.present /\ ~e2.present -> Unmapped
        [] e4.present /\ e3.present /\ e2.present /\ e2.page_size ->
             e2.address + (v % Fan)
        [] OTHER -> IF e1.present THEN e1.address ELSE Unmapped

LEMMA PaIs == \A v : pa(v) = PaOf(table, v)
  BY Zenon DEF pa, PaOf

\* The entry of page v in table p, where p is on its path.
EntryAt(t, v, p, level) == t[p][Index(level[p], v)]

\* An entry that is no leaf leads to the next table of the path.
LEMMA Follow ==
  ASSUME NEW t, NEW n, NEW level, NEW par, NEW slot, Tree(t, n, level, par, slot),
         NEW v \in VirtualPages, NEW p \in 1 .. n, OnPath(v, p, level, par, slot),
         NEW l \in 2 .. 4, level[p] = l,
         EntryAt(t, v, p, level).present, ~EntryAt(t, v, p, level).page_size
  PROVE  /\ EntryAt(t, v, p, level).address \in 1 .. n
         /\ level[EntryAt(t, v, p, level).address] = l - 1
         /\ OnPath(v, EntryAt(t, v, p, level).address, level, par, slot)
  <1> DEFINE i == Index(l, v)
             q == t[p][i].address
  <1>1. i \in Slots
    BY Digits DEF Slots
  <1>2. EntryAt(t, v, p, level) = t[p][i]
    BY Zenon DEF EntryAt
  <1>3. q \in 2 .. n /\ par[q] = p /\ slot[q] = i
    <2> HIDE DEF i
    <2>1. level[p] >= 2
      OBVIOUS
    <2>. QED
      BY <1>1, <1>2, <2>1 DEF Tree, Leads
  <1>4. level[p] = level[q] + 1 /\ q \in 1 .. n /\ level[q] \in 1 .. 4
    BY <1>3 DEF Tree, Linked, Shape
  <1> HIDE DEF q
  <1>5. level[q] = l - 1
    BY <1>4
  <1>6. OnPath(v, q, level, par, slot)
    <2>1. l = 2 \/ l = 3 \/ l = 4
      OBVIOUS
    <2>2. CASE l = 4
      <3>1. level[q] = 3
        BY <1>5, <2>2
      <3>. QED
        BY <1>3, <2>2, <3>1 DEF OnPath
    <2>3. CASE l = 3
      <3>1. level[q] = 2 /\ slot[p] = Index(4, v)
        BY <1>5, <2>3 DEF OnPath
      <3>. QED
        BY <1>3, <2>3, <3>1 DEF OnPath
    <2>4. CASE l = 2
      <3>1. level[q] = 1 /\ slot[p] = Index(3, v) /\ slot[par[p]] = Index(4, v)
        BY <1>5, <2>4 DEF OnPath
      <3>. QED
        BY <1>3, <2>4, <3>1 DEF OnPath
    <2>. QED
      BY <2>1, <2>2, <2>3, <2>4, Zenon
  <1>. QED
    BY <1>2, <1>4, <1>5, <1>6, Zenon DEF q

\* A table p on the path of v where the walk ends.
Ends(t, v, p, level) ==
  \/ ~EntryAt(t, v, p, level).present
  \/ EntryAt(t, v, p, level).page_size
  \/ level[p] = 1

\* It ends somewhere.
LEMMA WalkEnds ==
  ASSUME NEW t, NEW n, NEW level, NEW par, NEW slot, Tree(t, n, level, par, slot),
         NEW v \in VirtualPages
  PROVE  \E p \in 1 .. n : OnPath(v, p, level, par, slot) /\ Ends(t, v, p, level)
  <1>1. ASSUME NEW p \in 1 .. n, OnPath(v, p, level, par, slot), NEW l \in 2 .. 4,
               level[p] = l, ~Ends(t, v, p, level)
        PROVE  \E q \in 1 .. n : OnPath(v, q, level, par, slot) /\ level[q] = l - 1
    BY <1>1, Follow DEF Ends
  <1>2. 1 \in 1 .. n /\ level[1] = 4 /\ OnPath(v, 1, level, par, slot)
    BY RequestsAssumption DEF Tree, Shape, OnPath
  <1> SUFFICES ASSUME \A p \in 1 .. n : OnPath(v, p, level, par, slot) => ~Ends(t, v, p, level)
               PROVE  FALSE
    BY Zenon
  <1>3. PICK p3 \in 1 .. n : OnPath(v, p3, level, par, slot) /\ level[p3] = 3
    BY <1>1, <1>2
  <1>4. PICK p2 \in 1 .. n : OnPath(v, p2, level, par, slot) /\ level[p2] = 2
    BY <1>1, <1>3
  <1>5. PICK p1 \in 1 .. n : OnPath(v, p1, level, par, slot) /\ level[p1] = 1
    BY <1>1, <1>4
  <1>. QED
    BY <1>5, Zenon DEF Ends

\* What pa returns, from where the walk ends.
LEMMA Translation ==
  ASSUME NEW t, NEW n, NEW level, NEW par, NEW slot, Tree(t, n, level, par, slot),
         NEW v \in VirtualPages, NEW p \in 1 .. n, OnPath(v, p, level, par, slot)
  PROVE  LET e == EntryAt(t, v, p, level) IN
         /\ ~e.present => PaOf(t, v) = Unmapped
         /\ e.present /\ e.page_size => PaOf(t, v) = e.address + (v % Fan)
         /\ e.present /\ level[p] = 1 => PaOf(t, v) = e.address
  <1> DEFINE e4 == t[pml4_base][Index(4, v)]
             e3 == t[e4.address][Index(3, v)]
             e2 == t[e3.address][Index(2, v)]
             e1 == t[e2.address][Index(1, v)]
             e == EntryAt(t, v, p, level)
  <1>1. PaOf(t, v) = CASE ~e4.present -> Unmapped
                       [] e4.present /\ ~e3.present -> Unmapped
                       [] e4.present /\ e3.present /\ ~e2.present -> Unmapped
                       [] e4.present /\ e3.present /\ e2.present /\ e2.page_size ->
                            e2.address + (v % Fan)
                       [] OTHER -> IF e1.present THEN e1.address ELSE Unmapped
    BY Zenon DEF PaOf
  <1>2. \A q \in 1 .. n : level[q] = 4 <=> q = 1
    BY OneRoot
  <1>3. \A q \in 1 .. n : level[q] \in {1, 2, 3} =>
          /\ par[q] \in 1 .. n /\ level[par[q]] = level[q] + 1
          /\ t[par[q]][slot[q]].present /\ ~t[par[q]][slot[q]].page_size
          /\ t[par[q]][slot[q]].address = q
    <2> SUFFICES ASSUME NEW q \in 1 .. n, level[q] \in {1, 2, 3}
                 PROVE  /\ par[q] \in 1 .. n /\ level[par[q]] = level[q] + 1
                        /\ t[par[q]][slot[q]].present /\ ~t[par[q]][slot[q]].page_size
                        /\ t[par[q]][slot[q]].address = q
      BY Zenon
    <2>1. level[q] <= 3
      OBVIOUS
    <2>. QED
      BY <2>1, Above, SMTT(40)
  <1>4. e.present /\ e.page_size => level[p] = 2
    <2>1. \A k \in 1 .. 4 : Index(k, v) \in Slots
      BY Digits, Zenon DEF Slots
    <2>2. level[p] \in 1 .. 4
      BY OneRoot, Zenon
    <2>. QED
      BY <2>1, <2>2, Zenon DEF EntryAt, Tree, Leads
  <1>5. level[p] \in {1, 2, 3, 4}
    BY OneRoot
  <1>6. CASE level[p] = 4
    <2>1. e = e4
      BY <1>2, <1>6, Zenon DEF EntryAt, pml4_base
    <2> HIDE DEF e4, e3, e2, e1, e
    <2>. QED
      BY <1>1, <1>4, <1>6, <2>1 DEF e
  <1>7. CASE level[p] = 3
    <2>1. par[p] = 1 /\ slot[p] = Index(4, v)
      BY <1>2, <1>3, <1>7 DEF OnPath
    <2>2. e4.present /\ e4.address = p /\ e = e3
      BY <1>3, <1>7, <2>1, Zenon DEF EntryAt, pml4_base
    <2> HIDE DEF e4, e3, e2, e1, e
    <2>. QED
      BY <1>1, <1>4, <1>7, <2>2 DEF e
  <1>8. CASE level[p] = 2
    <2>1. /\ par[p] \in 1 .. n /\ level[par[p]] = 3
          /\ slot[p] = Index(3, v) /\ slot[par[p]] = Index(4, v)
      BY <1>3, <1>8 DEF OnPath
    <2>2. par[par[p]] = 1
      BY <1>2, <1>3, <2>1
    <2>3. e4.present /\ e4.address = par[p]
      BY <1>3, <2>1, <2>2, SMTT(40) DEF pml4_base
    <2>4. e3.present /\ e3.address = p /\ e = e2
      BY <1>3, <1>8, <2>1, <2>3 DEF EntryAt
    <2> HIDE DEF e4, e3, e2, e1, e
    <2>. QED
      BY <1>1, <1>8, <2>3, <2>4 DEF e
  <1>9. CASE level[p] = 1
    <2>1. /\ par[p] \in 1 .. n /\ level[par[p]] = 2
          /\ slot[p] = Index(2, v) /\ slot[par[p]] = Index(3, v)
          /\ slot[par[par[p]]] = Index(4, v)
      BY <1>3, <1>9 DEF OnPath
    <2>2. par[par[p]] \in 1 .. n /\ level[par[par[p]]] = 3
      BY <1>3, <2>1
    <2>3. par[par[par[p]]] = 1
      BY <1>2, <1>3, <2>2
    <2>4. e4.present /\ e4.address = par[par[p]]
      BY <1>3, <2>1, <2>2, <2>3, Zenon DEF pml4_base
    <2>5. e3.present /\ e3.address = par[p]
      BY <1>3, <2>1, <2>4, SMTT(40)
    <2>6. e2.present /\ ~e2.page_size /\ e2.address = p
      BY <1>3, <1>9, <2>1, <2>5, SMTT(40)
    <2>7. e = e1
      BY <1>9, <2>6, ZenonT(40) DEF EntryAt
    <2> HIDE DEF e4, e3, e2, e1, e
    <2>. QED
      BY <1>1, <1>4, <1>9, <2>4, <2>5, <2>6, <2>7 DEF e
  <1>. QED
    BY <1>5, <1>6, <1>7, <1>8, <1>9, Zenon

\* The same entry ends the walk of v in two trees: v has the same translation.
LEMMA SameTranslation ==
  ASSUME NEW t, NEW n, NEW level, NEW par, NEW slot, Tree(t, n, level, par, slot),
         NEW g, NEW m, NEW lev, NEW pa2, NEW slo, Tree(g, m, lev, pa2, slo),
         NEW v \in VirtualPages, NEW p \in 1 .. n, p \in 1 .. m,
         OnPath(v, p, level, par, slot), OnPath(v, p, lev, pa2, slo),
         NEW l, level[p] = l, lev[p] = l,
         t[p][Index(l, v)] = g[p][Index(l, v)], Ends(t, v, p, level)
  PROVE  PaOf(g, v) = PaOf(t, v)
  <1> DEFINE e == t[p][Index(l, v)]
  <1>1. EntryAt(t, v, p, level) = e /\ EntryAt(g, v, p, lev) = e
    BY Zenon DEF EntryAt
  <1>2. /\ ~e.present => PaOf(t, v) = Unmapped
        /\ e.present /\ e.page_size => PaOf(t, v) = e.address + (v % Fan)
        /\ e.present /\ l = 1 => PaOf(t, v) = e.address
    BY <1>1, Translation, SMTT(40)
  <1>3. /\ ~e.present => PaOf(g, v) = Unmapped
        /\ e.present /\ e.page_size => PaOf(g, v) = e.address + (v % Fan)
        /\ e.present /\ l = 1 => PaOf(g, v) = e.address
    BY <1>1, Translation
  <1>4. ~e.present \/ e.page_size \/ l = 1
    BY <1>1, Zenon DEF Ends
  <1> HIDE DEF e
  <1>. QED
    BY <1>2, <1>3, <1>4, Zenon

\* The tables above the last are the same for all pages of a region.
LEMMA SameRegion ==
  ASSUME NEW t, NEW n, NEW level, NEW par, NEW slot, Tree(t, n, level, par, slot),
         NEW u \in VirtualPages, NEW v \in VirtualPages, RegionOf(u) = RegionOf(v),
         NEW p \in 1 .. n
  PROVE  /\ OnPath(u, p, level, par, slot) <=> OnPath(v, p, level, par, slot)
         /\ \A l \in 2 .. 4 : Index(l, u) = Index(l, v)
  <1>1. \A l \in 2 .. 4 : Index(l, u) = Index(l, v)
    BY SamePage, Zenon
  <1>2. level[p] \in 1 .. 4
    BY OneRoot, Zenon
  <1>3. /\ level[p] <= 3 => Index(level[p] + 1, u) = Index(level[p] + 1, v)
        /\ level[p] <= 2 => Index(level[p] + 2, u) = Index(level[p] + 2, v)
        /\ level[p] <= 1 => Index(level[p] + 3, u) = Index(level[p] + 3, v)
    BY <1>1, <1>2
  <1>. QED
    BY <1>1, <1>3, Zenon DEF OnPath

\* A table of one of the two last levels is on the paths of one region only.
LEMMA OneRegion ==
  ASSUME NEW t, NEW n, NEW level, NEW par, NEW slot, Tree(t, n, level, par, slot),
         NEW u \in VirtualPages, NEW v \in VirtualPages, NEW p \in 1 .. n,
         OnPath(u, p, level, par, slot), OnPath(v, p, level, par, slot),
         level[p] \in {1, 2}, level[p] = 2 => Index(2, u) = Index(2, v)
  PROVE  RegionOf(u) = RegionOf(v)
  <1>1. Index(2, u) = Index(2, v) /\ Index(3, u) = Index(3, v) /\ Index(4, u) = Index(4, v)
    <2>1. CASE level[p] = 1
      BY <2>1 DEF OnPath
    <2>2. CASE level[p] = 2
      BY <2>2 DEF OnPath
    <2>. QED
      BY <2>1, <2>2, Zenon
  <1>2. \A l \in 2 .. 4 : l = 2 \/ l = 3 \/ l = 4
    OBVIOUS
  <1>. QED
    BY <1>1, <1>2, SamePage

\* The pages a request covers.
LEMMA RangeIs ==
  ASSUME NEW r \in Requests
  PROVE  /\ r.virt \in VirtualPages /\ r.size \in {1, Fan}
         /\ r.virt \in Space!Range(r)
         /\ Space!Range(r) \subseteq VirtualPages
         /\ r.size = Fan => \A v \in VirtualPages :
              v \in Space!Range(r) <=> RegionOf(v) = RegionOf(r.virt)
         /\ r.size # Fan => \A v \in VirtualPages : v \in Space!Range(r) <=> v = r.virt
  <1> DEFINE a == r.virt
             d == a \div Fan
             c == a % Fan
             M == Fan * Fan * Fan
  <1>1. a \in VirtualPages /\ r.size \in {1, Fan} /\ a \in Nat /\ Fan \in Nat \ {0, 1}
    BY RequestsAssumption, FanAssumption DEF VirtualPages
  <1>2. M \in Nat /\ VirtualPages = 0 .. Fan * M - 1
    BY FanAssumption DEF VirtualPages, Span
  <1>3. d \in Nat /\ c \in 0 .. Fan - 1 /\ a = d * Fan + c
    BY <1>1, Divided, ZenonT(40)
  <1>4. d < M
    <2>1. a < M * Fan
      BY <1>1, <1>2
    <2>. QED
      BY <1>1, <1>2, <2>1, QuotientBelow, Zenon
  <1>5. CASE r.size # Fan
    <2>1. r.size = 1 /\ a % 1 = 0
      BY <1>1, <1>5
    <2>2. Space!Range(r) = {a}
      BY <1>1, <2>1 DEF Space!Range
    <2>. QED
      BY <1>1, <1>5, <2>2, Zenon
  <1>6. CASE r.size = Fan
    <2> HIDE DEF d, c
    <2>1. Space!Range(r) = d * Fan .. d * Fan + Fan - 1
      <3>1. Space!Range(r) = (a - c) .. (a - c) + Fan - 1
        BY <1>6, Zenon DEF Space!Range, c
      <3>2. a - c = d * Fan
        BY <1>1, <1>3
      <3>. QED
        BY <3>1, <3>2, Zenon
    <2>2. d * Fan + Fan <= M * Fan
      <3>1. (d + 1) * Fan <= M * Fan
        BY <1>1, <1>2, <1>3, <1>4, Times
      <3>. QED
        BY <1>1, <1>3, <3>1
    <2>3. M * Fan = Fan * M /\ d * Fan \in Nat
      BY <1>1, <1>2, <1>3
    <2>4. Space!Range(r) \subseteq VirtualPages /\ a \in Space!Range(r)
      <3> HIDE DEF M
      <3>. QED
        BY <1>1, <1>2, <1>3, <2>1, <2>2, <2>3
    <2>5. ASSUME NEW v \in VirtualPages
          PROVE  v \in Space!Range(r) <=> RegionOf(v) = d
      <3>1. v \in Nat
        BY Digits, Zenon
      <3>2. RegionOf(v) = d => v \in Space!Range(r)
        <4> SUFFICES ASSUME v \div Fan = d PROVE v \in Space!Range(r)
          BY Zenon DEF RegionOf
        <4>1. v = d * Fan + (v % Fan) /\ v % Fan \in 0 .. Fan - 1
          BY <3>1, Divided, Zenon
        <4> DEFINE x == v % Fan
        <4>2. v = d * Fan + x /\ x \in 0 .. Fan - 1
          BY <4>1, Zenon
        <4> HIDE DEF x
        <4>3. d * Fan <= v /\ v <= d * Fan + Fan - 1
          BY <1>1, <2>3, <4>2
        <4>. QED
          BY <1>1, <2>1, <2>3, <3>1, <4>3
      <3>3. v \in Space!Range(r) => RegionOf(v) = d
        <4> SUFFICES ASSUME v \in Space!Range(r) PROVE v \div Fan = d
          BY Zenon DEF RegionOf
        <4> DEFINE x == v - d * Fan
        <4>1. x \in Nat /\ x < Fan /\ v = d * Fan + x
          BY <1>1, <2>1, <2>3, <3>1
        <4> HIDE DEF x
        <4>. QED
          BY <1>1, <1>3, <3>1, <4>1, Quotient, Zenon
      <3>. QED
        BY <3>2, <3>3, Zenon
    <2>6. RegionOf(a) = d
      BY Zenon DEF RegionOf, d
    <2>. QED
      BY <1>1, <1>6, <2>4, <2>5, <2>6, Zenon
  <1>. QED
    BY <1>5, <1>6, Zenon

-----------------------------------------------------------------------------
(* What the stores do to the translations.                                 *)

\* Page x, the next to be handed out, may be hung from entry i of table p.
Vacant(t, n, x, p, i, level, par, slot) ==
  /\ Tree(t, n, level, par, slot)
  /\ x = n + 1 /\ x <= NrPages
  /\ p \in 1 .. n /\ i \in Slots /\ level[p] >= 2 /\ ~t[p][i].present
  /\ level[p] = 2 => \E r \in Requests : /\ r.size # Fan /\ Index(2, r.virt) = i
                                         /\ OnPath(r.virt, p, level, par, slot)

\* The new tree, and the new table in it.
Hanging(g, n, x, p, i, level, par, slot, lev, pa2, slo) ==
  /\ Tree(g, x, lev, pa2, slo)
  /\ Extends(lev, pa2, slo, n, level, par, slot)
  /\ lev[x] = level[p] - 1 /\ pa2[x] = p /\ slo[x] = i

LEMMA Hangs ==
  ASSUME NEW t, NEW n, NEW x, NEW p, NEW i, NEW level, NEW par, NEW slot,
         Vacant(t, n, x, p, i, level, par, slot)
  PROVE  Hanging(Grown(t, x, p, i), n, x, p, i, level, par, slot,
                 With(level, x, level[p] - 1), With(par, x, p), With(slot, x, i))
  <1>1. Tree(Grown(t, x, p, i), x, With(level, x, level[p] - 1),
             With(par, x, p), With(slot, x, i))
    BY GrownTree, Zenon DEF Vacant
  <1>2. /\ n \in Nat /\ x = n + 1 /\ DOMAIN level = 1 .. n
        /\ DOMAIN par = 2 .. n /\ DOMAIN slot = 2 .. n
    BY RequestsAssumption DEF Vacant, Tree, Shape
  <1>3. (\A q \in 1 .. n : q # x) /\ (\A q \in 2 .. n : q # x)
    BY <1>2
  <1>4. Extends(With(level, x, level[p] - 1), With(par, x, p), With(slot, x, i),
                n, level, par, slot)
    BY <1>2, <1>3, Zenon DEF Extends, With
  <1>5. /\ With(level, x, level[p] - 1)[x] = level[p] - 1
        /\ With(par, x, p)[x] = p /\ With(slot, x, i)[x] = i
    BY Zenon DEF With
  <1>. QED
    BY <1>1, <1>4, <1>5, Zenon DEF Hanging

\* A new table changes no translation.
LEMMA GrownPa ==
  ASSUME NEW t, NEW n, NEW x, NEW p, NEW i, NEW level, NEW par, NEW slot,
         Vacant(t, n, x, p, i, level, par, slot),
         NEW g, Hung(g, t, x, p, i), NEW lev, NEW pa2, NEW slo,
         Hanging(g, n, x, p, i, level, par, slot, lev, pa2, slo),
         NEW v \in VirtualPages
  PROVE  PaOf(g, v) = PaOf(t, v)
  <1>1. /\ Tree(t, n, level, par, slot) /\ Tree(g, x, lev, pa2, slo)
        /\ Extends(lev, pa2, slo, n, level, par, slot)
        /\ p \in 1 .. n /\ i \in Slots /\ ~t[p][i].present
    BY Zenon DEF Vacant, Hanging
  <1>2. /\ n \in Nat /\ NrPages \in Nat /\ x = n + 1 /\ x <= NrPages /\ level[p] \in 2 .. 4
    BY <1>1, RequestsAssumption, OneRoot DEF Vacant, Tree, Shape
  <1>3. \A q \in 1 .. n : q \in 1 .. x /\ q # x /\ q \in 1 .. NrPages
    BY <1>2
  <1>4. x \in 1 .. x
    BY <1>2
  <1>5. PICK q \in 1 .. n : OnPath(v, q, level, par, slot) /\ Ends(t, v, q, level)
    BY <1>1, WalkEnds, Zenon
  <1>6. OnPath(v, q, lev, pa2, slo)
    BY <1>1, <1>5, SamePath
  <1> DEFINE l == level[q]
             j == Index(l, v)
  <1>7. level[q] = l /\ lev[q] = l /\ l \in 1 .. 4
    BY <1>1, OneRoot, Zenon DEF Extends
  <1>8. j \in Slots
    BY <1>7, Digits, SMTT(40) DEF Slots
  <1>9. CASE q # p \/ j # i
    <2>1. g[q][j] = t[q][j]
      BY <1>3, <1>8, <1>9, Zenon DEF Hung
    <2> HIDE DEF l
    <2>2. t[q][Index(l, v)] = g[q][Index(l, v)] /\ q \in 1 .. x
      BY <1>3, <2>1, Zenon
    <2>. QED
      BY <1>1, <1>5, <1>6, <1>7, <2>2, SameTranslation, SMTT(40)
  <1>10. CASE q = p /\ j = i
    <2>1. EntryAt(t, v, p, level) = t[p][i]
      BY <1>10, SMTT(40) DEF EntryAt
    <2>2. PaOf(t, v) = Unmapped
      BY <1>1, <1>5, <1>10, <2>1, Translation, Zenon
    <2>3. EntryAt(g, v, p, lev) = Entry(x, FALSE)
      BY <1>7, <1>10, ZenonT(40) DEF EntryAt, Hung
    <2>4. p \in 1 .. x /\ lev[p] = l /\ l \in 2 .. 4
      BY <1>1, <1>2, <1>3, <1>7, <1>10, Zenon
    <2> HIDE DEF l, j
    <2>5. EntryAt(g, v, p, lev).present /\ ~EntryAt(g, v, p, lev).page_size
          /\ EntryAt(g, v, p, lev).address = x
      BY <2>3 DEF Entry
    <2>6. OnPath(v, x, lev, pa2, slo) /\ lev[x] = l - 1
      BY <1>1, <1>6, <1>10, <2>4, <2>5, Follow
    <2>7. Index(l - 1, v) \in Slots
      BY <2>4, Digits, SMTT(40) DEF Slots
    <2>8. EntryAt(g, v, x, lev) = NoEntry
      BY <2>6, <2>7, SMTT(40) DEF EntryAt, Hung
    <2>9. ~EntryAt(g, v, x, lev).present
      BY <2>8 DEF NoEntry
    <2>10. PaOf(g, v) = Unmapped
      BY <1>1, <1>4, <2>6, <2>9, Translation, Zenon
    <2>. QED
      BY <2>2, <2>10, Zenon
  <1>. QED
    BY <1>9, <1>10, Zenon

LeafLevel(r) == IF r.size = Fan THEN 2 ELSE 1

\* The pages whose walk meets the entry of a request's leaf.
LEMMA Covered ==
  ASSUME NEW t, NEW n, NEW level, NEW par, NEW slot, Tree(t, n, level, par, slot),
         NEW r \in Requests, NEW p \in 1 .. n, OnPath(r.virt, p, level, par, slot),
         NEW l, l = LeafLevel(r), level[p] = l, NEW v \in VirtualPages
  PROVE  v \in Space!Range(r) <=>
           OnPath(v, p, level, par, slot) /\ Index(l, v) = Index(l, r.virt)
  <1>1. r.virt \in VirtualPages
    BY RangeIs, Zenon
  <1>2. CASE r.size = Fan
    <2>1. l = 2 /\ (v \in Space!Range(r) <=> RegionOf(v) = RegionOf(r.virt))
      BY <1>2, RangeIs, Zenon DEF LeafLevel
    <2>2. RegionOf(v) = RegionOf(r.virt) =>
            OnPath(v, p, level, par, slot) /\ Index(2, v) = Index(2, r.virt)
      <3> SUFFICES ASSUME RegionOf(v) = RegionOf(r.virt)
                   PROVE  OnPath(v, p, level, par, slot) /\ Index(2, v) = Index(2, r.virt)
        BY Zenon
      <3>1. 2 \in 2 .. 4
        OBVIOUS
      <3>. QED
        BY <1>1, <3>1, SameRegion
    <2>3. OnPath(v, p, level, par, slot) /\ Index(2, v) = Index(2, r.virt) =>
            RegionOf(v) = RegionOf(r.virt)
      BY <1>1, <2>1, OneRegion
    <2>. QED
      BY <2>1, <2>2, <2>3, Zenon
  <1>3. CASE r.size # Fan
    <2>1. l = 1 /\ (v \in Space!Range(r) <=> v = r.virt)
      BY <1>3, RangeIs, Zenon DEF LeafLevel
    <2>2. OnPath(v, p, level, par, slot) => RegionOf(v) = RegionOf(r.virt)
      BY <1>1, <2>1, OneRegion
    <2>. QED
      BY <1>1, <2>1, <2>2, SamePage
  <1>. QED
    BY <1>2, <1>3, Zenon

\* What a leaf for the request r does to the translation of v.
LeafSeen(f, t, r, v) ==
  /\ v \in Space!Range(r) => PaOf(t, v) = Unmapped
                            /\ PaOf(f, v) = r.phys + (v % r.size)
  /\ v \notin Space!Range(r) => PaOf(f, v) = PaOf(t, v)

\* A new leaf gives the pages of the request their translation, and leaves
\* the others theirs.
LEMMA FilledPa ==
  ASSUME NEW t, NEW n, NEW level, NEW par, NEW slot, Tree(t, n, level, par, slot),
         NEW r \in Requests, NEW p \in 1 .. n, OnPath(r.virt, p, level, par, slot),
         NEW l, l = LeafLevel(r), level[p] = l,
         ~t[p][Index(l, r.virt)].present,
         NEW f, Tree(f, n, level, par, slot),
         Filled(f, t, p, Index(l, r.virt), Entry(r.phys, r.size = Fan)),
         NEW v \in VirtualPages
  PROVE  LeafSeen(f, t, r, v)
  <1> DEFINE i == Index(l, r.virt)
             large == r.size = Fan
  <1>1. v \in Space!Range(r) <=> OnPath(v, p, level, par, slot) /\ Index(l, v) = i
    BY Covered
  <1>2. f[p][i] = Entry(r.phys, large)
    BY Zenon DEF Filled
  <1>3. r.size \in {1, Fan} /\ r.phys \in Nat /\ v \in Nat /\ l \in 1 .. 4
    BY RequestsAssumption, Digits DEF LeafLevel
  <1>4. ASSUME v \in Space!Range(r)
        PROVE  PaOf(t, v) = Unmapped /\ PaOf(f, v) = r.phys + (v % r.size)
    <2>1. OnPath(v, p, level, par, slot)
      BY <1>1, <1>4, Zenon
    <2>2. EntryAt(t, v, p, level) = t[p][i] /\ EntryAt(f, v, p, level) = f[p][i]
      BY <1>1, <1>4, SMTT(40) DEF EntryAt
    <2>3. PaOf(t, v) = Unmapped
      BY <2>1, <2>2, Translation, SMTT(40)
    <2> HIDE DEF large, i
    <2>4. /\ EntryAt(f, v, p, level).present
          /\ EntryAt(f, v, p, level).page_size = large
          /\ EntryAt(f, v, p, level).address = r.phys
      BY <1>2, <2>2 DEF Entry
    <2>5. CASE r.size = Fan
      <3>1. EntryAt(f, v, p, level).page_size
        BY <2>4, <2>5, ZenonT(40) DEF large
      <3>2. PaOf(f, v) = r.phys + (v % Fan)
        BY <2>1, <2>4, <3>1, Translation
      <3>. QED
        BY <2>3, <2>5, <3>2, SMTT(40)
    <2>6. CASE r.size # Fan
      <3>1. r.size = 1 /\ level[p] = 1
        BY <1>3, <2>6, Zenon DEF LeafLevel
      <3>2. PaOf(f, v) = r.phys
        BY <2>1, <2>4, <3>1, Translation
      <3>3. v % 1 = 0
        BY <1>3, SMTT(40)
      <3>. QED
        BY <1>3, <2>3, <3>1, <3>2, <3>3
    <2>. QED
      BY <2>5, <2>6, Zenon
  <1>5. ASSUME v \notin Space!Range(r)
        PROVE  PaOf(f, v) = PaOf(t, v)
    <2>1. PICK q \in 1 .. n : OnPath(v, q, level, par, slot) /\ Ends(t, v, q, level)
      BY WalkEnds, Zenon
    <2> DEFINE k == level[q]
               j == Index(k, v)
    <2>2. level[q] = k /\ k \in 1 .. 4
      BY OneRoot, SMTT(40)
    <2>3. j \in Slots
      BY <2>2, Digits, Zenon DEF Slots
    <2>4. q # p \/ j # i
      BY <1>1, <1>5, <2>1, Zenon
    <2>5. q \in 1 .. NrPages
      BY RequestsAssumption DEF Tree, Shape
    <2>6. t[q][j] = f[q][j]
      BY <2>3, <2>4, <2>5, Zenon DEF Filled
    <2> HIDE DEF k, i
    <2>7. t[q][Index(k, v)] = f[q][Index(k, v)]
      BY <2>6, Zenon
    <2>. QED
      BY <2>1, <2>2, <2>7, SameTranslation
  <1>. QED
    BY <1>4, <1>5, Zenon DEF LeafSeen

\* The leaf entry of request r is written into table page p.
LeafSet(f, t, n, level, par, slot, p, r) ==
  /\ Tree(t, n, level, par, slot) /\ Tree(f, n, level, par, slot)
  /\ p \in 1 .. n /\ OnPath(r.virt, p, level, par, slot)
  /\ level[p] = LeafLevel(r)
  /\ ~t[p][Index(LeafLevel(r), r.virt)].present
  /\ Filled(f, t, p, Index(LeafLevel(r), r.virt), Entry(r.phys, r.size = Fan))

\* Such a leaf gives the request its translation.
LEMMA LeafTranslation ==
  ASSUME NEW f, NEW t, NEW n, NEW level, NEW par, NEW slot, NEW p, NEW r \in Requests,
         LeafSet(f, t, n, level, par, slot, p, r), NEW v \in VirtualPages
  PROVE  LeafSeen(f, t, r, v)
  <1> DEFINE l == LeafLevel(r)
  <1>1. /\ Tree(t, n, level, par, slot) /\ Tree(f, n, level, par, slot)
        /\ p \in 1 .. n /\ OnPath(r.virt, p, level, par, slot)
        /\ level[p] = l /\ ~t[p][Index(l, r.virt)].present
        /\ Filled(f, t, p, Index(l, r.virt), Entry(r.phys, r.size = Fan))
        /\ l = LeafLevel(r)
    BY ZenonT(40) DEF LeafSet
  <1> HIDE DEF l
  <1>. QED
    BY <1>1, FilledPa, ZenonT(40)

-----------------------------------------------------------------------------
(* The walk of map_address.                                                *)

WalkType == [table : Memory, next : Nat, page : Nat, ok : BOOLEAN]

\* The walk stands at a table of level l on the path of the request.
Standing(w, l, r, n, level, par, slot) ==
  /\ w.next = n + 1
  /\ Tree(w.table, n, level, par, slot)
  /\ w.ok => /\ w.page \in 1 .. n
             /\ level[w.page] = l
             /\ OnPath(r.virt, w.page, level, par, slot)

\* It has changed no translation, and fails only where nothing is mapped.
Harmless(w, r) ==
  /\ \A v \in VirtualPages : PaOf(w.table, v) = PaOf(table, v)
  /\ ~w.ok => \A v \in Space!Range(r) : PaOf(table, v) = Unmapped

Walking(w, l, r) ==
  /\ w \in WalkType
  /\ \E n, level, par, slot : Standing(w, l, r, n, level, par, slot)
  /\ Harmless(w, r)

\* A table of the second level on the path of a request holds no leaf of
\* another size for its region.
LEMMA OneSize ==
  ASSUME NEW t, NEW n, NEW level, NEW par, NEW slot, Tree(t, n, level, par, slot),
         NEW r \in Requests, NEW p \in 1 .. n, OnPath(r.virt, p, level, par, slot),
         level[p] = 2, t[p][Index(2, r.virt)].present
  PROVE  t[p][Index(2, r.virt)].page_size <=> r.size = Fan
  <1>1. r.virt \in VirtualPages /\ Index(2, r.virt) \in Slots
    BY RangeIs, Digits DEF Slots
  <1>2. PICK q \in Requests :
          FilledFor(q, p, Index(2, r.virt), t[p][Index(2, r.virt)], level, par, slot)
    BY <1>1, Zenon DEF Tree, Regions
  <1>3. /\ OnPath(q.virt, p, level, par, slot) /\ Index(2, q.virt) = Index(2, r.virt)
        /\ t[p][Index(2, r.virt)].page_size <=> q.size = Fan
    BY <1>2, Zenon DEF FilledFor
  <1>4. q.virt \in VirtualPages
    BY RangeIs, Zenon
  <1>5. RegionOf(q.virt) = RegionOf(r.virt)
    BY <1>1, <1>3, <1>4, OneRegion
  <1>6. q.size = r.size
    BY <1>5, RequestsAssumption, Zenon
  <1>. QED
    BY <1>3, <1>6, SMTT(40)

\* One level down.
LEMMA Descends ==
  ASSUME NEW r \in Requests, NEW l \in 2 .. 4, l = 2 => r.size # Fan,
         NEW w, Walking(w, l, r)
  PROVE  Walking(Descend(w, l, r.virt), l - 1, r)
  <1> DEFINE i == Index(l, r.virt)
             p == w.page
             e == w.table[p][i]
             d == Descend(w, l, r.virt)
  <1>1. PICK n, level, par, slot : Standing(w, l, r, n, level, par, slot)
    BY Zenon DEF Walking
  <1>2. w \in WalkType /\ Harmless(w, r)
    BY Zenon DEF Walking
  <1>3. /\ Tree(w.table, n, level, par, slot) /\ w.next = n + 1
        /\ NrPages \in Nat /\ n \in Nat /\ n <= NrPages
    BY <1>1, RequestsAssumption DEF Standing, Tree, Shape
  <1>4. r.virt \in VirtualPages /\ i \in Slots
    BY RangeIs, Digits DEF Slots
  <1>5. CASE ~w.ok
    <2>1. d = w
      BY <1>5, Zenon DEF Descend
    <2>2. Standing(w, l - 1, r, n, level, par, slot)
      BY <1>1, <1>5, Zenon DEF Standing
    <2>. QED
      BY <1>2, <2>1, <2>2, Zenon DEF Walking
  <1>6. ASSUME w.ok
        PROVE  /\ p \in 1 .. n /\ level[p] = l /\ OnPath(r.virt, p, level, par, slot)
               /\ EntryAt(w.table, r.virt, p, level) = e
    BY <1>1, <1>6, SMTT(40) DEF Standing, EntryAt
  <1>7. CASE w.ok /\ e.present
    <2>1. d = [w EXCEPT !.page = e.address]
      BY <1>7, Zenon DEF Descend
    <2>2. ~e.page_size
      <3>1. CASE l = 2
        BY <1>3, <1>6, <1>7, <3>1, OneSize, SMTT(40)
      <3>2. CASE l # 2
        BY <1>3, <1>4, <1>6, <1>7, <3>2, SMTT(40) DEF Tree, Leads
      <3>. QED
        BY <3>1, <3>2, SMTT(40)
    <2>3. /\ EntryAt(w.table, r.virt, p, level).present
          /\ ~EntryAt(w.table, r.virt, p, level).page_size
      BY <1>6, <1>7, <2>2, Zenon
    <2>4. /\ e.address \in 1 .. n /\ level[e.address] = l - 1
          /\ OnPath(r.virt, e.address, level, par, slot)
      <3> HIDE DEF e
      <3>1. EntryAt(w.table, r.virt, p, level) = e
        BY <1>6, <1>7, Zenon
      <3>. QED
        BY <1>3, <1>4, <1>6, <1>7, <2>3, <3>1, Follow
    <2> HIDE DEF e
    <2>5. /\ d.table = w.table /\ d.next = w.next /\ d.page = e.address /\ d.ok
          /\ d \in WalkType
      BY <1>2, <1>3, <1>7, <2>1, <2>4, SMTT(40) DEF WalkType
    <2> HIDE DEF d
    <2>6. Standing(d, l - 1, r, n, level, par, slot)
      BY <1>1, <2>4, <2>5, Zenon DEF Standing
    <2>7. Harmless(d, r)
      BY <1>2, <2>5, Zenon DEF Harmless
    <2>. QED
      BY <2>5, <2>6, <2>7, Zenon DEF Walking, d
  <1>8. CASE w.ok /\ ~e.present /\ w.next > NrPages
    <2>1. d = [w EXCEPT !.ok = FALSE]
      BY <1>8, Zenon DEF Descend
    <2>2. /\ d.table = w.table /\ d.next = w.next /\ d.page = w.page /\ ~d.ok
          /\ d \in WalkType
      BY <1>2, <2>1, ZenonT(40) DEF WalkType
    <2> HIDE DEF d
    <2>3. Standing(d, l - 1, r, n, level, par, slot)
      BY <1>1, <2>2, Zenon DEF Standing
    <2>4. ASSUME NEW v \in Space!Range(r)
          PROVE  PaOf(table, v) = Unmapped
      <3>1. v \in VirtualPages /\ RegionOf(v) = RegionOf(r.virt)
        BY RangeIs, SMTT(40)
      <3>2. OnPath(v, p, level, par, slot) /\ Index(l, v) = i
        BY <1>3, <1>4, <1>6, <1>8, <3>1, SameRegion, SMTT(40)
      <3>3. EntryAt(w.table, v, p, level) = e
        BY <1>6, <1>8, <3>2, SMTT(40) DEF EntryAt
      <3>4. /\ Tree(w.table, n, level, par, slot) /\ p \in 1 .. n
            /\ ~EntryAt(w.table, v, p, level).present
        BY <1>3, <1>6, <1>8, <3>3, Zenon
      <3>5. PaOf(w.table, v) = Unmapped
        BY <3>1, <3>2, <3>4, Translation, Zenon
      <3>. QED
        BY <1>2, <3>1, <3>5, Zenon DEF Harmless
    <2>5. Harmless(d, r)
      BY <1>2, <2>2, <2>4, Zenon DEF Harmless
    <2>. QED
      BY <2>2, <2>3, <2>5, Zenon DEF Walking, d
  <1>9. CASE w.ok /\ ~e.present /\ ~(w.next > NrPages)
    <2> DEFINE x == w.next
               g == Grown(w.table, x, p, i)
               lev == With(level, x, level[p] - 1)
               pa2 == With(par, x, p)
               slo == With(slot, x, i)
    <2>1. d = [w EXCEPT !.table = g, !.next = x + 1, !.page = x]
      BY <1>2, <1>9, SMTT(40) DEF Descend, Grown, WalkType
    <2>2. x = n + 1 /\ x <= NrPages /\ x \in 1 .. NrPages /\ p \in 1 .. NrPages /\ p # x
      BY <1>3, <1>6, <1>9, SMTT(40)
    <2>3. Vacant(w.table, n, x, p, i, level, par, slot)
      <3>1. level[p] = 2 => \E s \in Requests : /\ s.size # Fan /\ Index(2, s.virt) = i
                                                /\ OnPath(s.virt, p, level, par, slot)
        BY <1>6, <1>9, Zenon
      <3>2. level[p] >= 2
        BY <1>6, <1>9
      <3>. QED
        BY <1>3, <1>4, <1>6, <1>9, <2>2, <3>1, <3>2, SMTT(40) DEF Vacant
    <2>4. Hung(g, w.table, x, p, i)
      BY <1>2, <1>4, <2>2, GrownMemory, Zenon DEF WalkType
    <2>5. Hanging(g, n, x, p, i, level, par, slot, lev, pa2, slo)
      BY <2>3, Hangs, Zenon
    <2> HIDE DEF g, lev, pa2, slo, e, i
    <2>6. \A v \in VirtualPages : PaOf(g, v) = PaOf(w.table, v)
      BY <2>3, <2>4, <2>5, GrownPa
    <2>7. /\ d.table = g /\ d.next = x + 1 /\ d.page = x /\ d.ok
          /\ d \in WalkType
      <3>1. g \in Memory
        BY <2>4, Zenon DEF Hung
      <3>2. x \in Nat /\ x + 1 \in Nat
        BY <1>2 DEF WalkType
      <3> HIDE DEF x, d
      <3>3. /\ d.table = g /\ d.next = x + 1 /\ d.page = x /\ d.ok = w.ok
            /\ d \in WalkType
        BY <1>2, <2>1, <3>1, <3>2, ZenonT(40) DEF WalkType
      <3>. QED
        BY <1>9, <3>3, Zenon
    <2> HIDE DEF d
    <2>8. /\ Tree(g, x, lev, pa2, slo)
          /\ Extends(lev, pa2, slo, n, level, par, slot)
          /\ lev[x] = level[p] - 1
      BY <2>5, Zenon DEF Hanging
    <2>9. OnPath(r.virt, p, lev, pa2, slo) /\ lev[p] = l
      <3>1. OnPath(r.virt, p, lev, pa2, slo)
        BY <1>3, <1>6, <1>9, <2>8, SamePath, SMTT(40)
      <3>2. lev[p] = l
        BY <1>6, <1>9, <2>8, SMTT(40) DEF Extends
      <3>. QED
        BY <3>1, <3>2, Zenon
    <2>10. EntryAt(g, r.virt, p, lev) = Entry(x, FALSE)
      BY <2>4, <2>9, ZenonT(40) DEF EntryAt, Hung, i
    <2>11. /\ EntryAt(g, r.virt, p, lev).present
           /\ ~EntryAt(g, r.virt, p, lev).page_size
           /\ EntryAt(g, r.virt, p, lev).address = x
      BY <2>10 DEF Entry
    <2>12. p \in 1 .. x /\ x \in 1 .. x
      BY <1>3, <1>6, <1>9, <2>2
    <2>13. OnPath(r.virt, x, lev, pa2, slo) /\ lev[x] = l - 1
      BY <1>4, <2>8, <2>9, <2>11, <2>12, Follow
    <2>14. Standing(d, l - 1, r, x, lev, pa2, slo)
      BY <2>7, <2>8, <2>12, <2>13, Zenon DEF Standing
    <2>15. Harmless(d, r)
      BY <1>2, <2>6, <2>7, Zenon DEF Harmless
    <2>. QED
      BY <2>7, <2>14, <2>15, Zenon DEF Walking, d
  <1>. QED
    BY <1>5, <1>7, <1>8, <1>9, Zenon

\* All the way to the table of the leaf.
LEMMA Walks ==
  ASSUME NEW r \in Requests, IInv
  PROVE  Walking(Walk(r), LeafLevel(r), r)
  <1> DEFINE w4 == [table |-> table, next |-> next_page, page |-> pml4_base, ok |-> TRUE]
             w3 == Descend(w4, 4, r.virt)
             w2 == Descend(w3, 3, r.virt)
             w1 == Descend(w2, 2, r.virt)
  <1>1. PICK n, level, par, slot : next_page = n + 1 /\ Tree(table, n, level, par, slot)
    BY Zenon DEF IInv
  <1>2. table \in Memory /\ n \in 1 .. NrPages /\ n \in Nat /\ 1 \in 1 .. n /\ level[1] = 4
    BY <1>1, RequestsAssumption DEF Tree, Shape
  <1>3. w4 \in WalkType
    BY <1>1, <1>2 DEF WalkType, pml4_base
  <1>4. Standing(w4, 4, r, n, level, par, slot)
    BY <1>1, <1>2 DEF Standing, OnPath, pml4_base
  <1>5. Walking(w4, 4, r)
    BY <1>3, <1>4, ZenonT(40) DEF Walking, Harmless
  <1>6. Walk(r) = IF r.size = Fan THEN w2 ELSE w1
    BY Zenon DEF Walk
  <1> HIDE DEF w4
  <1>7. Walking(w3, 3, r)
    <2>1. Walking(w3, 4 - 1, r)
      BY <1>5, Descends
    <2>. QED
      BY <2>1
  <1> HIDE DEF w3
  <1>8. Walking(w2, 2, r)
    <2>1. Walking(w2, 3 - 1, r)
      BY <1>7, Descends
    <2>. QED
      BY <2>1
  <1> HIDE DEF w2
  <1>9. r.size # Fan => Walking(w1, 1, r)
    <2> SUFFICES ASSUME r.size # Fan PROVE Walking(w1, 1, r)
      BY Zenon
    <2>1. Walking(w1, 2 - 1, r)
      BY <1>8, Descends, SMTT(40)
    <2>. QED
      BY <2>1
  <1> HIDE DEF w1
  <1>. QED
    BY <1>6, <1>8, <1>9, Zenon DEF LeafLevel

-----------------------------------------------------------------------------
(* The inductive invariant.                                                *)

\* The calls map what they say.
Mapped(r) ==
  \/ /\ \E v \in Space!Range(r) : PaOf(table, v) # Unmapped
     /\ result' = "ERROR_DUPLICATION"
     /\ \A v \in VirtualPages : PaOf(table', v) = PaOf(table, v)
  \/ /\ \A v \in Space!Range(r) : PaOf(table, v) = Unmapped
     /\ result' = "ERROR_OUT_OF_MEMORY"
     /\ \A v \in VirtualPages : PaOf(table', v) = PaOf(table, v)
  \/ /\ \A v \in Space!Range(r) : PaOf(table, v) = Unmapped
     /\ result' = "ERROR_OK"
     /\ \A v \in VirtualPages : PaOf(table', v) = IF v \in Space!Range(r)
                                                  THEN r.phys + (v % r.size)
                                                  ELSE PaOf(table, v)

\* map_address keeps the tree, and maps the whole range or nothing.
LEMMA Maps ==
  ASSUME IInv, NEW r \in Requests, map_address(r)
  PROVE  IInv' /\ Mapped(r)
  <1> DEFINE w == Walk(r)
             l == LeafLevel(r)
             i == Index(l, r.virt)
             p == w.page
             e == w.table[p][i]
  <1>1. Walking(w, l, r)
    BY Walks, Zenon
  <1>2. PICK n, level, par, slot : Standing(w, l, r, n, level, par, slot)
    BY <1>1, Zenon DEF Walking
  <1>3. w \in WalkType /\ Harmless(w, r)
    BY <1>1, Zenon DEF Walking
  <1>4. next_page' = w.next
    BY Zenon DEF map_address
  <1>5. CASE ~w.ok
    <2>1. table' = w.table /\ result' = "ERROR_OUT_OF_MEMORY"
      BY <1>5, Zenon DEF map_address
    <2> HIDE DEF w
    <2>2. IInv'
      BY <1>2, <1>4, <2>1, SMTT(40) DEF IInv, Standing
    <2>. QED
      BY <1>3, <1>5, <2>1, <2>2, Zenon DEF Harmless, Mapped
  <1>6. l \in 1 .. 2 /\ r.virt \in VirtualPages /\ i \in Slots /\ r.phys \in Nat
    BY RangeIs, Digits, RequestsAssumption, SMTT(40) DEF Slots, LeafLevel
  <1>7. ASSUME w.ok
        PROVE  /\ Tree(w.table, n, level, par, slot) /\ w.next = n + 1
               /\ p \in 1 .. n /\ level[p] = l /\ OnPath(r.virt, p, level, par, slot)
               /\ EntryAt(w.table, r.virt, p, level) = e
    BY <1>2, <1>7, Zenon DEF Standing, EntryAt
  <1>8. CASE w.ok /\ e.present
    <2>1. table' = w.table /\ result' = "ERROR_DUPLICATION"
      BY <1>8, Zenon DEF map_address, LeafLevel
    <2>2. e \in EntryType
      <3>1. w.table \in Memory /\ p \in 1 .. NrPages
        BY <1>3, <1>7, <1>8, RequestsAssumption DEF WalkType, Tree, Shape
      <3>. QED
        BY <1>6, <3>1, ZenonT(40) DEF Memory
    <2> HIDE DEF w
    <2>3. IInv'
      BY <1>2, <1>4, <2>1, Zenon DEF IInv, Standing
    <2>4. PaOf(w.table, r.virt) # Unmapped
      <3> HIDE DEF e
      <3>1. e.address \in Nat
        BY <2>2, Zenon DEF EntryType
      <3>2. CASE r.size = Fan
        <4>1. e.page_size
          <5>1. /\ Tree(w.table, n, level, par, slot) /\ p \in 1 .. n /\ level[p] = 2
                /\ OnPath(r.virt, p, level, par, slot)
                /\ e = w.table[p][Index(2, r.virt)] /\ e.present
            BY <1>7, <1>8, <3>2, Zenon DEF e, LeafLevel
          <5> HIDE DEF p
          <5>2. e.page_size <=> r.size = Fan
            BY <5>1, OneSize, Zenon
          <5>. QED
            BY <3>2, <5>2, Zenon
        <4>2. PaOf(w.table, r.virt) = e.address + (r.virt % Fan)
          BY <1>6, <1>7, <1>8, <4>1, Translation
        <4>3. r.virt % Fan \in Nat
          BY <1>6, Digits, Divided
        <4>. QED
          BY <3>1, <4>2, <4>3, SMTT(40) DEF Unmapped
      <3>3. CASE r.size # Fan
        <4>1. level[p] = 1
          BY <1>7, <1>8, <3>3, Zenon DEF LeafLevel
        <4>2. PaOf(w.table, r.virt) = e.address
          BY <1>6, <1>7, <1>8, <4>1, Translation
        <4>. QED
          BY <3>1, <4>2 DEF Unmapped
      <3>. QED
        BY <3>2, <3>3, Zenon
    <2>5. \E v \in Space!Range(r) : PaOf(table, v) # Unmapped
      BY <1>3, <1>6, <2>4, RangeIs, SMTT(40) DEF Harmless
    <2>. QED
      BY <1>3, <2>1, <2>3, <2>5, Zenon DEF Harmless, Mapped
  <1>9. CASE w.ok /\ ~e.present
    <2>1. table' = [w.table EXCEPT ![p][i] = Entry(r.phys, r.size = Fan)]
          /\ result' = "ERROR_OK"
      BY <1>9, Zenon DEF map_address, LeafLevel
    <2>10. /\ Tree(w.table, n, level, par, slot) /\ w.next = n + 1
           /\ p \in 1 .. n /\ level[p] = l /\ OnPath(r.virt, p, level, par, slot)
           /\ ~w.table[p][i].present
      BY <1>7, <1>9, Zenon
    <2>11. w.table \in Memory /\ n \in 1 .. NrPages
      BY <2>10, Zenon DEF Tree, Shape
    <2> HIDE DEF w, e, p
    <2>2. Entry(r.phys, r.size = Fan) \in EntryType
      <3> DEFINE large == r.size = Fan
      <3>1. large \in BOOLEAN
        BY Zenon
      <3> HIDE DEF large
      <3>2. Entry(r.phys, large) \in EntryType
        BY <1>6, <3>1, Zenon DEF Entry, EntryType
      <3>. QED
        BY <3>2, Zenon DEF large
    <2>3. Filled(table', w.table, p, i, Entry(r.phys, r.size = Fan))
      <3>1. p \in 1 .. NrPages
        BY <2>10, <2>11, RequestsAssumption, SMTT(40)
      <3>. QED
        BY <1>6, <2>1, <2>2, <2>11, <3>1, FilledMemory, Zenon
    <2>4. Tree(table', n, level, par, slot)
      <3>1. level[p] = IF r.size = Fan THEN 2 ELSE 1
        BY <2>10, Zenon DEF LeafLevel
      <3>2. i = Index(level[p], r.virt)
        BY <2>10, Zenon
      <3> HIDE DEF i, l
      <3>. QED
        BY <1>6, <2>3, <2>10, <3>1, <3>2, FilledTree, SMTT(40)
    <2>5. IInv'
      BY <1>4, <2>4, <2>10, Zenon DEF IInv
    <2>6. ASSUME NEW v \in VirtualPages
          PROVE  /\ v \in Space!Range(r) => PaOf(w.table, v) = Unmapped
                                            /\ PaOf(table', v) = r.phys + (v % r.size)
                 /\ v \notin Space!Range(r) => PaOf(table', v) = PaOf(w.table, v)
      <3>1. LeafSet(table', w.table, n, level, par, slot, p, r)
        BY <2>3, <2>4, <2>10, Zenon DEF LeafSet
      <3>2. LeafSeen(table', w.table, r, v)
        BY <3>1, LeafTranslation, Zenon
      <3>. QED
        BY <3>2, Zenon DEF LeafSeen
    <2>7. Space!Range(r) \subseteq VirtualPages
      BY RangeIs, Zenon
    <2>8. \A v \in VirtualPages : PaOf(w.table, v) = PaOf(table, v)
      BY <1>3, Zenon DEF Harmless
    <2>9. \A v \in Space!Range(r) : PaOf(table, v) = Unmapped
      BY <2>6, <2>7, <2>8, Zenon
    <2>. QED
      BY <2>1, <2>5, <2>6, <2>8, <2>9, Zenon DEF Mapped
  <1>. QED
    BY <1>5, <1>8, <1>9, Zenon

\* The empty tables of paging_init.
LEMMA Starts ==
  ASSUME Init
  PROVE  IInv /\ \A v \in VirtualPages : PaOf(table, v) = Unmapped
  <1> DEFINE level == [q \in 1 .. 1 |-> 4]
             none == [q \in 2 .. 1 |-> 1]
  <1>1. NrPages \in Nat \ {0} /\ Fan \in Nat \ {0, 1}
    BY RequestsAssumption, FanAssumption, Zenon
  <1>2. /\ table = [q \in 1 .. NrPages |-> IF q = 1 THEN EmptyTable ELSE Garbage]
        /\ next_page = 1 + 1
    BY Zenon DEF Init, pml4_base
  <1>3. EmptyTable \in [Slots -> EntryType] /\ Garbage \in [Slots -> EntryType]
    BY Zenon DEF EmptyTable, Garbage, Slots, EntryType, Entry, NoEntry, pml4_base
  <1>4. table \in Memory
    BY <1>2, <1>3, Zenon DEF Memory
  <1>5. 1 \in 1 .. NrPages /\ \A j \in Slots : ~table[1][j].present
    <2>1. 1 \in 1 .. NrPages
      BY <1>1
    <2>2. table[1] = EmptyTable
      BY <1>2, <2>1, Zenon
    <2>. QED
      BY <2>1, <2>2 DEF EmptyTable, NoEntry, Slots
  <1>6. /\ level \in [1 .. 1 -> 1 .. 4] /\ level[1] = 4
        /\ none \in [2 .. 1 -> 1 .. 1] /\ none \in [2 .. 1 -> Slots]
        /\ \A q \in 2 .. 1 : FALSE
        /\ \A q \in 1 .. 1 : q = 1
    OBVIOUS
  <1> HIDE DEF level, none
  <1>7. Tree(table, 1, level, none, none)
    BY <1>4, <1>5, <1>6, Zenon DEF Tree, Shape, Linked, Leads, Regions
  <1>8. ASSUME NEW v \in VirtualPages PROVE PaOf(table, v) = Unmapped
    <2>1. OnPath(v, 1, level, none, none) /\ 1 \in 1 .. 1
      BY <1>6 DEF OnPath
    <2>2. Index(level[1], v) \in Slots
      BY <1>6, Digits DEF Slots
    <2>3. ~EntryAt(table, v, 1, level).present
      BY <1>5, <2>2, Zenon DEF EntryAt
    <2>. QED
      BY <1>7, <2>1, <2>3, Translation, Zenon
  <1>. QED
    BY <1>2, <1>7, <1>8, ZenonT(40) DEF IInv

\* The tables form a tree after any calls of map_address: each page in use is
\* a table of one level, hanging from one entry of a table one level up; the
\* entries lead to no other page, and the second level holds leaves of the
\* size of the request they were filled for (paging.c 52-187).
THEOREM Invariance == Spec => []IInv
  <1>1. Init => IInv
    BY Starts, Zenon
  <1>2. IInv /\ [Next]_vars => IInv'
    <2> SUFFICES ASSUME IInv, [Next]_vars PROVE IInv'
      BY Zenon
    <2>1. CASE Next
      BY <2>1, Maps, Zenon DEF Next
    <2>2. CASE UNCHANGED vars
      BY <2>2, SMTT(40) DEF vars, IInv
    <2>. QED
      BY <2>1, <2>2, Zenon
  <1>. QED
    BY <1>1, <1>2, PTL DEF Spec

-----------------------------------------------------------------------------
(* What follows from the tree.                                             *)

\* The tables of a level.
OfLevel(n, level, l) == {q \in 1 .. n : level[q] = l}

\* The entries of the tables of one level lead to the tables of the next.
LEMMA NextLevel ==
  ASSUME NEW n, NEW level, NEW par, NEW slot, Tree(table, n, level, par, slot),
         NEW l \in 2 .. 4
  PROVE  /\ Below(OfLevel(n, level, l)) = OfLevel(n, level, l - 1)
         /\ \A x \in Pointers(OfLevel(n, level, l)) :
              LET q == table[x[1]][x[2]].address IN
              x = <<par[q], slot[q]>> /\ q \in 2 .. n
  <1> DEFINE S == OfLevel(n, level, l)
             T == OfLevel(n, level, l - 1)
  <1>1. ASSUME NEW x \in Pointers(S)
        PROVE  LET q == table[x[1]][x[2]].address IN
               x = <<par[q], slot[q]>> /\ q \in 2 .. n /\ q \in T
    <2> DEFINE a == x[1]
               i == x[2]
               q == table[a][i].address
    <2>1. /\ x \in S \X Slots /\ table[a][i].present /\ ~table[a][i].page_size
      BY <1>1, Zenon DEF Pointers, Slots
    <2>2. x = <<a, i>> /\ a \in S /\ i \in Slots
      BY <2>1
    <2>3. a \in 1 .. n /\ level[a] = l /\ level[a] >= 2
      BY <2>2, SMTT(40) DEF OfLevel
    <2> HIDE DEF a, i
    <2>4. q \in 2 .. n /\ par[q] = a /\ slot[q] = i
      BY <2>1, <2>2, <2>3, SMTT(40) DEF Tree, Leads
    <2>5. level[a] = level[q] + 1 /\ q \in 1 .. n /\ level[q] \in 1 .. 4
      BY <2>4 DEF Tree, Linked, Shape
    <2>6. q \in T
      BY <2>3, <2>5 DEF OfLevel
    <2>. QED
      BY <2>2, <2>4, <2>6, SMTT(40) DEF a, i
  <1>2. ASSUME NEW q \in T PROVE q \in Below(S)
    <2>1. q \in 1 .. n /\ level[q] = l - 1 /\ level[q] <= 3
      BY <1>2, SMTT(40) DEF OfLevel
    <2>2. /\ q \in 2 .. n /\ par[q] \in 1 .. n /\ level[par[q]] = level[q] + 1
          /\ table[par[q]][slot[q]].present /\ ~table[par[q]][slot[q]].page_size
          /\ table[par[q]][slot[q]].address = q
      BY <2>1, Above, SMTT(40)
    <2>3. slot[q] \in Slots
      BY <2>2, SMTT(40) DEF Tree, Shape
    <2>4. level[par[q]] = l
      BY <2>1, <2>2, SMTT(40)
    <2>5. par[q] \in S
      BY <2>2, <2>4, SMTT(40) DEF OfLevel
    <2> DEFINE x == <<par[q], slot[q]>>
    <2>6. x \in Pointers(S) /\ table[x[1]][x[2]].address = q
      BY <2>2, <2>3, <2>5, SMTT(40) DEF Pointers, Slots
    <2>. QED
      BY <2>6, Zenon DEF Below
  <1>3. \A q \in Below(S) : q \in T
    BY <1>1, SMTT(40) DEF Below
  <1>. QED
    BY <1>1, <1>2, <1>3, ZenonT(40)

\* The tree says that the tables are disjoint.
LEMMA TreeIsDisjoint ==
  ASSUME NEW n, NEW level, NEW par, NEW slot, Tree(table, n, level, par, slot),
         next_page = n + 1
  PROVE  TablesDisjoint
  <1> DEFINE L(l) == OfLevel(n, level, l)
             inner == {pml4_base} \cup L(3) \cup L(2)
  <1>0. ASSUME NEW l \in 2 .. 4
        PROVE  /\ Below(L(l)) = L(l - 1)
               /\ \A x \in Pointers(L(l)) :
                    x = <<par[table[x[1]][x[2]].address], slot[table[x[1]][x[2]].address]>>
    <2>1. \A x \in Pointers(L(l)) :
            LET q == table[x[1]][x[2]].address IN x = <<par[q], slot[q]>> /\ q \in 2 .. n
      BY NextLevel, ZenonT(40)
    <2>2. Below(L(l)) = L(l - 1)
      BY NextLevel, ZenonT(40)
    <2>. QED
      BY <2>1, <2>2, Zenon
  <1>1. n \in Nat /\ n >= 1
    BY RequestsAssumption DEF Tree, Shape
  <1>2. {pml4_base} = L(4)
    <2>1. 1 \in 1 .. n
      BY <1>1
    <2>. QED
      BY <2>1, OneRoot DEF OfLevel, pml4_base
  <1>3. Below(L(4)) = L(3) /\ Below(L(3)) = L(2) /\ Below(L(2)) = L(1)
    <2> HIDE DEF L
    <2>1. Below(L(4)) = L(4 - 1) /\ Below(L(3)) = L(3 - 1) /\ Below(L(2)) = L(2 - 1)
      BY <1>0
    <2>. QED
      BY <2>1, SMTT(40)
  <1>4. \A x : x \in Pointers(inner) <=>
                 \/ x \in Pointers(L(4)) \/ x \in Pointers(L(3)) \/ x \in Pointers(L(2))
    BY <1>2, Zenon DEF Pointers
  <1>5. \A q : q \in Below(inner) <=> q \in L(3) \/ q \in L(2) \/ q \in L(1)
    BY <1>3, <1>4, Zenon DEF Below
  <1>6. \A q \in 1 .. n : /\ q # 1 => level[q] = 1 \/ level[q] = 2 \/ level[q] = 3
                          /\ q = 1 => level[q] = 4
    BY OneRoot
  <1>7. Below(inner) = 2 .. n
    <2>1. \A q : q \in Below(inner) <=> q \in 1 .. n /\ q # 1
      BY <1>5, <1>6 DEF OfLevel
    <2>2. \A q : q \in 2 .. n <=> q \in 1 .. n /\ q # 1
      BY <1>1
    <2> HIDE DEF inner
    <2>3. \A q : q \in Below(inner) <=> q \in 2 .. n
      BY <2>1, <2>2, Zenon
    <2>. QED
      BY <2>3, Zenon
  <1>8. \A x \in Pointers(inner) :
          x = <<par[table[x[1]][x[2]].address], slot[table[x[1]][x[2]].address]>>
    <2>1. \A l \in 2 .. 4 : \A x \in Pointers(L(l)) :
            x = <<par[table[x[1]][x[2]].address], slot[table[x[1]][x[2]].address]>>
      BY <1>0, SMTT(40)
    <2>2. 2 \in 2 .. 4 /\ 3 \in 2 .. 4 /\ 4 \in 2 .. 4
      OBVIOUS
    <2>. QED
      BY <1>4, <2>1, <2>2, ZenonT(40)
  <1>9. \A x, y \in Pointers(inner) :
          table[x[1]][x[2]].address = table[y[1]][y[2]].address => x = y
    BY <1>8, Zenon
  <1>10. Below({pml4_base}) = L(3) /\ Below(Below({pml4_base})) = L(2)
    BY <1>2, <1>3, Zenon
  <1>11. {pml4_base} \cup Below(inner) = 1 .. next_page - 1 /\ pml4_base \notin Below(inner)
    <2> HIDE DEF inner
    <2>. QED
      BY <1>1, <1>7 DEF pml4_base
  <1>. QED
    BY <1>9, <1>10, <1>11, ZenonT(40) DEF TablesDisjoint

\* Every table page in use is pointed to by exactly one entry, and pml4_base
\* by none: a store of map_address to one table changes no other part of the
\* address space (paging.c 52-145).
THEOREM OneTree == Spec => []TablesDisjoint
  <1>1. IInv => TablesDisjoint
    BY TreeIsDisjoint, Zenon DEF IInv
  <1>. QED
    BY <1>1, Invariance, PTL

\* map_address and pa implement the address space: a call gives its whole
\* range its translation or changes nothing, for each of the three results,
\* and no other page changes its translation (paging.c 52-187).
THEOREM Refinement == Spec => AddressSpaceSpec
  <1> DEFINE mapping == [v \in VirtualPages |-> pa(v)]
  <1>1. Init => Space!Init
    <2> SUFFICES ASSUME Init PROVE Space!Init
      BY Zenon
    <2>1. \A v \in VirtualPages : pa(v) = Unmapped
      BY Starts, PaIs, Zenon
    <2>. QED
      BY <2>1, Zenon DEF Space!Init, Init
  <1>2. IInv /\ [Next]_vars => [Space!Next]_<<mapping, request, result>>
    <2> SUFFICES ASSUME IInv, [Next]_vars
                 PROVE  [Space!Next]_<<mapping, request, result>>
      BY Zenon
    <2>1. CASE UNCHANGED vars
      BY <2>1, SMTT(40) DEF vars, pa
    <2>2. ASSUME NEW r \in Requests, map_address(r)
          PROVE  Space!Map(r) /\ request' = r
      <3>1. Mapped(r) /\ request' = r
        BY <2>2, Maps, Zenon DEF map_address
      <3>2. /\ \A v \in VirtualPages : pa(v) = PaOf(table, v)
            /\ \A v \in VirtualPages : pa(v)' = PaOf(table', v)
        BY Zenon DEF pa, PaOf
      <3>3. Space!Range(r) \subseteq VirtualPages
        BY RangeIs, Zenon
      <3>4. \A v \in Space!Range(r) : mapping[v] = PaOf(table, v)
        BY <3>2, <3>3, Zenon
      <3>5. CASE /\ \E v \in Space!Range(r) : PaOf(table, v) # Unmapped
                 /\ result' = "ERROR_DUPLICATION"
                 /\ \A v \in VirtualPages : PaOf(table', v) = PaOf(table, v)
        <4>1. mapping' = mapping
          BY <3>2, <3>5, Zenon
        <4>2. \E v \in Space!Range(r) : mapping[v] # Unmapped
          BY <3>4, <3>5, Zenon
        <4>. QED
          BY <3>1, <3>5, <4>1, <4>2, Zenon DEF Space!Map
      <3>6. CASE /\ \A v \in Space!Range(r) : PaOf(table, v) = Unmapped
                 /\ result' = "ERROR_OUT_OF_MEMORY"
                 /\ \A v \in VirtualPages : PaOf(table', v) = PaOf(table, v)
        <4>1. mapping' = mapping
          BY <3>2, <3>6, Zenon
        <4>2. ~ \E v \in Space!Range(r) : mapping[v] # Unmapped
          BY <3>4, <3>6, ZenonT(40)
        <4>. QED
          BY <3>1, <3>6, <4>1, <4>2, Zenon DEF Space!Map
      <3>7. CASE /\ \A v \in Space!Range(r) : PaOf(table, v) = Unmapped
                 /\ result' = "ERROR_OK"
                 /\ \A v \in VirtualPages :
                      PaOf(table', v) = IF v \in Space!Range(r)
                                        THEN r.phys + (v % r.size)
                                        ELSE PaOf(table, v)
        <4>1. mapping' = [v \in VirtualPages |-> IF v \in Space!Range(r)
                                                 THEN r.phys + (v % r.size)
                                                 ELSE mapping[v]]
          BY <3>2, <3>7, Zenon
        <4>2. ~ \E v \in Space!Range(r) : mapping[v] # Unmapped
          BY <3>4, <3>7, ZenonT(40)
        <4>. QED
          BY <3>1, <3>7, <4>1, <4>2, Zenon DEF Space!Map
      <3>. QED
        BY <3>1, <3>5, <3>6, <3>7, SMTT(40) DEF Mapped
    <2>. QED
      BY <2>1, <2>2, Zenon DEF Next, Space!Next
  <1>. QED
    BY <1>1, <1>2, Invariance, PTL DEF Spec, AddressSpaceSpec, Space!Spec
=============================================================================
