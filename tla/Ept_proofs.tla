----------------------------- MODULE Ept_proofs -----------------------------
(***************************************************************************)
(* The guest's memory is its own: the extended page tables form a tree     *)
(* whose leaves are the guest's frames, for every table size, every amount *)
(* of guest memory and of host pages, and every image that fits.           *)
(***************************************************************************)
EXTENDS Ept, TLAPS

Filled(t, p, i, e) == [t EXCEPT ![p][i] = e]

\* The four cases of a level of the walk.
LEMMA DescendFails ==
  ASSUME NEW w, NEW l, NEW v, ~w.ok
  PROVE  Descend(w, l, v) = w
  BY Zenon DEF Descend

LEMMA DescendFollows ==
  ASSUME NEW w, NEW l, NEW v, w.ok, Present(w.table[w.page][Index(l, v)])
  PROVE  Descend(w, l, v) = [w EXCEPT !.page = w.table[w.page][Index(l, v)].page]
  BY Zenon DEF Descend

LEMMA DescendStops ==
  ASSUME NEW w, NEW l, NEW v, w.ok, ~Present(w.table[w.page][Index(l, v)]),
         w.next > last_page
  PROVE  Descend(w, l, v) = [w EXCEPT !.ok = FALSE]
  BY Zenon DEF Descend

LEMMA DescendGrows ==
  ASSUME NEW w, NEW l, NEW v, w.ok, ~Present(w.table[w.page][Index(l, v)]),
         ~(w.next > last_page)
  PROVE  Descend(w, l, v) = [w EXCEPT !.table = Grown(w.table, w.page, Index(l, v), w.next),
                                      !.next = w.next + 1, !.page = w.next]
  BY Zenon DEF Descend


-----------------------------------------------------------------------------
(* The index macros: what the indices of a page say of its number.         *)

\* Multiplication is monotonic.
LEMMA Times ==
  ASSUME NEW a \in Nat, NEW b \in Nat, NEW m \in Nat, a <= b
  PROVE  a * m <= b * m
  OBVIOUS

\* Quotient and remainder of a division by the size of a table.
LEMMA Divided ==
  ASSUME NEW x \in Nat
  PROVE  /\ x \div Fan \in Nat /\ x % Fan \in 0 .. Fan - 1
         /\ x = (x \div Fan) * Fan + (x % Fan)
  BY FanAssumption, SMTT(40)

\* They determine the number.
LEMMA SameNumber ==
  ASSUME NEW x \in Nat, NEW y \in Nat, x \div Fan = y \div Fan, x % Fan = y % Fan
  PROVE  x = y
  BY Divided, Zenon

\* A quotient, from what lies between two multiples.
LEMMA Quotient ==
  ASSUME NEW m \in Nat \ {0}, NEW x \in Nat, NEW q \in Nat, NEW r \in Nat,
         r < m, x = q * m + r
  PROVE  x \div m = q
  <1> DEFINE d == x \div m
  <1>1. d \in Nat /\ d * m <= x /\ x < d * m + m
    OBVIOUS
  <1> HIDE DEF d
  <1>2. ~ (d + 1 <= q)
    <2> SUFFICES ASSUME d + 1 <= q PROVE FALSE
      BY Zenon
    <2>1. (d + 1) * m <= q * m
      BY <1>1, Times
    <2>. QED
      BY <1>1, <2>1
  <1>3. ~ (q + 1 <= d)
    <2> SUFFICES ASSUME q + 1 <= d PROVE FALSE
      BY Zenon
    <2>1. (q + 1) * m <= d * m
      BY <1>1, Times
    <2>. QED
      BY <1>1, <2>1
  <1>. QED
    BY <1>1, <1>2, <1>3 DEF d

\* Dividing by the product is dividing twice.
LEMMA Twice ==
  ASSUME NEW x \in Nat, NEW m \in Nat \ {0}
  PROVE  x \div (m * Fan) = (x \div m) \div Fan
  <1> DEFINE a == x \div m
             b == a \div Fan
  <1>1. a \in Nat /\ x % m \in 0 .. m - 1 /\ x = a * m + (x % m)
    OBVIOUS
  <1> HIDE DEF a
  <1>2. b \in Nat /\ a % Fan \in 0 .. Fan - 1 /\ a = b * Fan + (a % Fan)
    BY <1>1, Divided, Zenon
  <1> HIDE DEF b
  <1> DEFINE s == a % Fan
             t == x % m
             r == s * m + t
  <1>3. s \in Nat /\ t \in Nat /\ s + 1 <= Fan /\ t < m /\ Fan \in Nat
    BY <1>1, <1>2, FanAssumption
  <1>4. a = b * Fan + s /\ x = a * m + t
    BY <1>1, <1>2, Zenon
  <1> HIDE DEF s, t
  <1>5. (s + 1) * m <= Fan * m
    BY <1>3, Times
  <1>6. r \in Nat /\ r < Fan * m
    BY <1>3, <1>5
  <1>7. x = b * (m * Fan) + r
    BY <1>2, <1>3, <1>4
  <1>8. m * Fan \in Nat \ {0} /\ m * Fan = Fan * m
    BY FanAssumption
  <1> HIDE DEF r
  <1>. QED
    BY <1>2, <1>6, <1>7, <1>8, Quotient, Zenon DEF a, b

\* A quotient below a bound.
LEMMA QuotientBelow ==
  ASSUME NEW x \in Nat, NEW m \in Nat, x < m * Fan
  PROVE  x \div Fan < m
  <1>1. x \div Fan \in Nat /\ (x \div Fan) * Fan <= x
    BY Divided, FanAssumption
  <1>2. ~ (m <= x \div Fan)
    <2> SUFFICES ASSUME m <= x \div Fan PROVE FALSE
      BY Zenon
    <2>1. m * Fan <= (x \div Fan) * Fan
      BY <1>1, Times, FanAssumption, Zenon
    <2>. QED
      BY <1>1, <2>1, FanAssumption
  <1>. QED
    BY <1>1, <1>2

\* The indices of a table.
Slots == 0 .. Fan - 1

\* The indices are the digits of the page number.
LEMMA Digits ==
  ASSUME NEW v \in GuestPages
  PROVE  /\ v \in Nat /\ v \div Fan \in Nat /\ (v \div Fan) \div Fan \in Nat
         /\ Index(1, v) = v % Fan
         /\ Index(2, v) = (v \div Fan) % Fan
         /\ Index(3, v) = ((v \div Fan) \div Fan) % Fan
         /\ Index(4, v) = ((v \div Fan) \div Fan) \div Fan
         /\ \A level \in 1 .. 4 : Index(level, v) \in Slots
  <1> DEFINE q == v \div Fan
             p == q \div Fan
             o == p \div Fan
  <1>0. Fan \in Nat /\ Fan * Fan \in Nat /\ Fan * Fan * Fan \in Nat
    <2>1. Fan \in Nat /\ Fan * Fan \in Nat
      BY FanAssumption
    <2>. QED
      BY <2>1
  <1>1. /\ Fan \in Nat \ {0} /\ Fan * Fan \in Nat \ {0}
        /\ Fan * (Fan * Fan * Fan) = Fan * Fan * Fan * Fan
    BY FanAssumption
  <1>2. v \in Nat /\ v < Fan * Fan * Fan * Fan
    BY <1>1 DEF GuestPages, Span
  <1>3. q \in Nat /\ q < Fan * Fan * Fan
    BY <1>0, <1>1, <1>2, Divided, QuotientBelow, Zenon
  <1> HIDE DEF q
  <1>4. p \in Nat /\ p < Fan * Fan
    BY <1>0, <1>1, <1>3, Divided, QuotientBelow, Zenon
  <1> HIDE DEF p
  <1>5. o \in Nat /\ o < Fan
    BY <1>1, <1>4, Divided, QuotientBelow, Zenon
  <1>6. v \div 1 = v
    BY <1>2
  <1>7. v \div (Fan * Fan) = p
    BY <1>1, <1>2, Twice, Zenon DEF p, q
  <1>8. v \div (Fan * Fan * Fan) = o
    BY <1>1, <1>2, <1>7, Twice, Zenon DEF o
  <1>9. o % Fan = o
    BY <1>1, <1>5
  <1>10. /\ v % Fan \in 0 .. Fan - 1 /\ q % Fan \in 0 .. Fan - 1
         /\ p % Fan \in 0 .. Fan - 1
    BY <1>2, <1>3, <1>4, Divided, Zenon
  <1>11. /\ Index(1, v) = v % Fan /\ Index(2, v) = q % Fan
         /\ Index(3, v) = p % Fan /\ Index(4, v) = o
    BY <1>6, <1>7, <1>8, <1>9 DEF Index, Span, q
  <1>12. \A level \in 1 .. 4 : level = 1 \/ level = 2 \/ level = 3 \/ level = 4
    OBVIOUS
  <1>13. o \in 0 .. Fan - 1
    BY <1>1, <1>5
  <1>14. \A level \in 1 .. 4 : Index(level, v) \in Slots
    BY <1>10, <1>11, <1>12, <1>13, Zenon DEF Slots
  <1>. QED
    BY <1>2, <1>3, <1>4, <1>11, <1>14, Zenon DEF q, p, o

\* They determine the page.
LEMMA SamePage ==
  ASSUME NEW u \in GuestPages, NEW v \in GuestPages,
         Index(1, u) = Index(1, v), Index(2, u) = Index(2, v),
         Index(3, u) = Index(3, v), Index(4, u) = Index(4, v)
  PROVE  u = v
  <1>1. (u \div Fan) \div Fan = (v \div Fan) \div Fan
    BY Digits, SameNumber
  <1>2. u \div Fan = v \div Fan
    BY <1>1, Digits, SameNumber
  <1>. QED
    BY <1>2, Digits, SameNumber

-----------------------------------------------------------------------------
(* The tree of the host pages D that the tables t use: each has a level,   *)
(* and each but ept_pml4_base hangs from the entry slot of table par.  The *)
(* frames of the guest are the pages of level 0.                           *)

IoEntry == [read |-> FALSE, write |-> TRUE, page |-> 0]

EntryType == [read : BOOLEAN, write : BOOLEAN, page : Nat]

Memory == [1 .. NrPages -> [Slots -> EntryType]]

Hangers(D) == D \ {ept_pml4_base}

Shape(t, D, level, par, slot) ==
  /\ t \in Memory
  /\ D \in SUBSET (1 .. NrPages) /\ ept_pml4_base \in D
  /\ level \in [D -> 0 .. 4]
  /\ par \in [Hangers(D) -> D]
  /\ slot \in [Hangers(D) -> Slots]
  /\ level[ept_pml4_base] = 4

\* The entry a page hangs from leads to it.
Linked(t, D, level, par, slot) ==
  \A x \in Hangers(D) :
    level[par[x]] = level[x] + 1 /\ t[par[x]][slot[x]] = TableEntry(x)

\* An entry of a table is empty, or leads to the page that hangs from it, or
\* belongs to an I/O page.
Leads(t, D, level, par, slot) ==
  \A p \in D, i \in Slots :
    level[p] >= 1 =>
      \/ t[p][i] = NoEntry
      \/ \E x \in Hangers(D) : par[x] = p /\ slot[x] = i /\ t[p][i] = TableEntry(x)
      \/ t[p][i] = IoEntry /\ level[p] = 1

Tree(t, D, level, par, slot) ==
  /\ Shape(t, D, level, par, slot)
  /\ Linked(t, D, level, par, slot)
  /\ Leads(t, D, level, par, slot)

\* p is a page on the path of guest page v.
OnPath(v, p, level, par, slot) ==
  /\ level[p] <= 3 => slot[p] = Index(level[p] + 1, v)
  /\ level[p] <= 2 => slot[par[p]] = Index(level[p] + 2, v)
  /\ level[p] <= 1 => slot[par[par[p]]] = Index(level[p] + 3, v)
  /\ level[p] <= 0 => slot[par[par[par[p]]]] = Index(level[p] + 4, v)

\* The tests of map_ept_page tell the entries apart.
LEMMA Entries ==
  /\ ~Present(NoEntry) /\ ~NoEntry.read
  /\ Present(IoEntry) /\ ~IoEntry.read /\ IoEntry.write
  /\ \A x : Present(TableEntry(x)) /\ TableEntry(x).read /\ TableEntry(x).page = x
  /\ NoEntry \in EntryType /\ IoEntry \in EntryType
  /\ \A x \in Nat : TableEntry(x) \in EntryType
  BY Zenon DEF Present, NoEntry, IoEntry, TableEntry, EntryType

\* The page a page hangs from.
LEMMA Above ==
  ASSUME NEW t, NEW D, NEW level, NEW par, NEW slot, Tree(t, D, level, par, slot),
         NEW p \in D
  PROVE  /\ level[p] \in 0 .. 4
         /\ level[p] = 4 <=> p = ept_pml4_base
         /\ level[p] <= 3 => /\ p \in Hangers(D) /\ par[p] \in D /\ slot[p] \in Slots
                             /\ level[par[p]] = level[p] + 1
                             /\ t[par[p]][slot[p]] = TableEntry(p)
  <1>1. level[p] \in 0 .. 4
    BY Zenon DEF Tree, Shape
  <1>2. p # ept_pml4_base =>
          /\ p \in Hangers(D) /\ par[p] \in D /\ slot[p] \in Slots
          /\ level[par[p]] \in 0 .. 4
    BY Zenon DEF Tree, Shape, Hangers
  <1>3. p # ept_pml4_base =>
          /\ level[par[p]] = level[p] + 1
          /\ t[par[p]][slot[p]] = TableEntry(p)
    BY <1>2, Zenon DEF Tree, Linked
  <1>4. p = ept_pml4_base => level[p] = 4
    BY Zenon DEF Tree, Shape
  <1>. QED
    BY <1>1, <1>2, <1>3, <1>4

\* The tables above page p, as far as there are.
LEMMA AboveAll ==
  ASSUME NEW t, NEW D, NEW level, NEW par, NEW slot, Tree(t, D, level, par, slot),
         NEW p \in D
  PROVE  /\ level[p] <= 3 => p \in Hangers(D) /\ par[p] \in D
                             /\ level[par[p]] = level[p] + 1
         /\ level[p] <= 2 => par[p] \in Hangers(D) /\ par[par[p]] \in D
                             /\ level[par[par[p]]] = level[p] + 2
         /\ level[p] <= 1 => par[par[p]] \in Hangers(D) /\ par[par[par[p]]] \in D
                             /\ level[par[par[par[p]]]] = level[p] + 3
         /\ level[p] <= 0 => par[par[par[p]]] \in Hangers(D)
  <1> DEFINE a == par[p]
             b == par[a]
             c == par[b]
  <1>0. level[p] \in 0 .. 4
    BY Above, Zenon
  <1>1. level[p] <= 3 => p \in Hangers(D) /\ a \in D /\ level[a] = level[p] + 1
    BY Above
  <1> HIDE DEF a
  <1>2. level[p] <= 2 => a \in Hangers(D) /\ b \in D /\ level[b] = level[p] + 2
    <2> SUFFICES ASSUME level[p] <= 2
                 PROVE  a \in Hangers(D) /\ b \in D /\ level[b] = level[p] + 2
      BY Zenon
    <2>1. a \in D /\ level[a] = level[p] + 1 /\ level[a] <= 3
      BY <1>0, <1>1
    <2>2. a \in Hangers(D) /\ b \in D /\ level[b] = level[a] + 1
      BY <2>1, Above
    <2>. QED
      BY <1>0, <2>1, <2>2
  <1> HIDE DEF b
  <1>3. level[p] <= 1 => b \in Hangers(D) /\ c \in D /\ level[c] = level[p] + 3
    <2> SUFFICES ASSUME level[p] <= 1
                 PROVE  b \in Hangers(D) /\ c \in D /\ level[c] = level[p] + 3
      BY Zenon
    <2>1. b \in D /\ level[b] = level[p] + 2 /\ level[b] <= 3
      BY <1>0, <1>2
    <2>2. b \in Hangers(D) /\ c \in D /\ level[c] = level[b] + 1
      BY <2>1, Above
    <2>. QED
      BY <1>0, <2>1, <2>2
  <1> HIDE DEF c
  <1>4. level[p] <= 0 => c \in Hangers(D)
    <2> SUFFICES ASSUME level[p] <= 0 PROVE c \in Hangers(D)
      BY Zenon
    <2>1. c \in D /\ level[c] <= 3
      BY <1>0, <1>3
    <2>. QED
      BY <2>1, Above, Zenon
  <1>. QED
    BY <1>1, <1>2, <1>3, <1>4, Zenon DEF a, b, c

\* The tree lev, pa2, slo has the pages of level, par, slot at their places.
Extends(lev, pa2, slo, D, level, par, slot) ==
  /\ \A q \in D : lev[q] = level[q]
  /\ \A q \in Hangers(D) : pa2[q] = par[q] /\ slo[q] = slot[q]

\* A page stays on its paths when the tree around it grows.
LEMMA SamePath ==
  ASSUME NEW t, NEW D, NEW level, NEW par, NEW slot, Tree(t, D, level, par, slot),
         NEW lev, NEW pa2, NEW slo, Extends(lev, pa2, slo, D, level, par, slot),
         NEW v, NEW p \in D
  PROVE  OnPath(v, p, lev, pa2, slo) <=> OnPath(v, p, level, par, slot)
  <1>1. /\ \A q \in D : lev[q] = level[q]
        /\ \A q \in Hangers(D) : pa2[q] = par[q] /\ slo[q] = slot[q]
    BY Zenon DEF Extends
  <1>2. lev[p] = level[p] /\ level[p] \in 0 .. 4
    BY <1>1, Above, Zenon
  <1>3. level[p] <= 3 => pa2[p] = par[p] /\ slo[p] = slot[p]
    BY <1>1, AboveAll, Zenon
  <1>4. level[p] <= 2 => pa2[pa2[p]] = par[par[p]] /\ slo[pa2[p]] = slot[par[p]]
    <2> SUFFICES ASSUME level[p] <= 2
                 PROVE  pa2[pa2[p]] = par[par[p]] /\ slo[pa2[p]] = slot[par[p]]
      BY Zenon
    <2>1. level[p] <= 3 /\ par[p] \in Hangers(D)
      BY <1>2, AboveAll
    <2>. QED
      BY <1>1, <1>3, <2>1
  <1>5. level[p] <= 1 => /\ pa2[pa2[pa2[p]]] = par[par[par[p]]]
                         /\ slo[pa2[pa2[p]]] = slot[par[par[p]]]
    <2> SUFFICES ASSUME level[p] <= 1
                 PROVE  /\ pa2[pa2[pa2[p]]] = par[par[par[p]]]
                        /\ slo[pa2[pa2[p]]] = slot[par[par[p]]]
      BY Zenon
    <2>1. level[p] <= 2 /\ par[par[p]] \in Hangers(D)
      BY <1>2, AboveAll
    <2>. QED
      BY <1>1, <1>4, <2>1
  <1>6. level[p] <= 0 => slo[pa2[pa2[pa2[p]]]] = slot[par[par[par[p]]]]
    <2> SUFFICES ASSUME level[p] <= 0
                 PROVE  slo[pa2[pa2[pa2[p]]]] = slot[par[par[par[p]]]]
      BY Zenon
    <2>1. level[p] <= 1 /\ par[par[par[p]]] \in Hangers(D)
      BY <1>2, AboveAll
    <2>. QED
      BY <1>1, <1>5, <2>1
  <1>. QED
    BY <1>2, <1>3, <1>4, <1>5, <1>6, Zenon DEF OnPath

\* A page that hangs from a table on the path of v, at the index of v, is on
\* the path of v.
LEMMA Below ==
  ASSUME NEW t, NEW D, NEW level, NEW par, NEW slot, Tree(t, D, level, par, slot),
         NEW v, NEW p \in D, OnPath(v, p, level, par, slot),
         NEW l \in 1 .. 4, level[p] = l,
         NEW x \in Hangers(D), par[x] = p, slot[x] = Index(l, v)
  PROVE  x \in D /\ level[x] = l - 1 /\ OnPath(v, x, level, par, slot)
  <1>1. x \in D /\ level[p] = level[x] + 1 /\ level[x] \in 0 .. 4
    BY Zenon DEF Tree, Shape, Linked, Hangers
  <1>2. level[x] = l - 1
    BY <1>1
  <1>3. l = 1 \/ l = 2 \/ l = 3 \/ l = 4
    OBVIOUS
  <1>4. CASE l = 4
    <2>1. level[x] = 3
      BY <1>2, <1>4
    <2>. QED
      BY <1>1, <1>2, <1>4, <2>1 DEF OnPath
  <1>5. CASE l = 3
    <2>1. level[x] = 2 /\ slot[p] = Index(4, v)
      BY <1>2, <1>5 DEF OnPath
    <2>. QED
      BY <1>1, <1>2, <1>5, <2>1 DEF OnPath
  <1>6. CASE l = 2
    <2>1. level[x] = 1 /\ slot[p] = Index(3, v) /\ slot[par[p]] = Index(4, v)
      BY <1>2, <1>6 DEF OnPath
    <2>. QED
      BY <1>1, <1>2, <1>6, <2>1 DEF OnPath
  <1>7. CASE l = 1
    <2>1. /\ level[x] = 0 /\ slot[p] = Index(2, v) /\ slot[par[p]] = Index(3, v)
          /\ slot[par[par[p]]] = Index(4, v)
      BY <1>2, <1>7 DEF OnPath
    <2>. QED
      BY <1>1, <1>2, <1>7, <2>1 DEF OnPath
  <1>. QED
    BY <1>3, <1>4, <1>5, <1>6, <1>7, Zenon

\* A frame is on the path of one guest page only, and so is an entry of the
\* last level.
LEMMA OnePage ==
  ASSUME NEW level, NEW par, NEW slot, NEW u \in GuestPages, NEW v \in GuestPages, NEW p,
         OnPath(u, p, level, par, slot), OnPath(v, p, level, par, slot),
         level[p] \in {0, 1}, level[p] = 1 => Index(1, u) = Index(1, v)
  PROVE  u = v
  <1>1. CASE level[p] = 0
    BY <1>1, SamePage DEF OnPath
  <1>2. CASE level[p] = 1
    BY <1>2, SamePage DEF OnPath
  <1>. QED
    BY <1>1, <1>2, Zenon

-----------------------------------------------------------------------------
(* Walking the tree.                                                       *)

\* EntryOf, for tables t.
EntryIn(t, v) ==
  LET e4 == t[ept_pml4_base][Index(4, v)]
      e3 == t[e4.page][Index(3, v)]
      e2 == t[e3.page][Index(2, v)]
  IN  IF Present(e4) /\ Present(e3) /\ Present(e2)
      THEN t[e2.page][Index(1, v)] ELSE NoEntry

LEMMA EntryIs == \A v : EntryOf(v) = EntryIn(table, v)
  BY Zenon DEF EntryOf, EntryIn

\* The walk of v ends at entry e of table p.
Ends(t, v, p, e, level) ==
  /\ level[p] \in 1 .. 4
  /\ e = t[p][Index(level[p], v)]
  /\ level[p] = 1 \/ e = NoEntry

\* What the walk finds, from where it ends.
LEMMA Reached ==
  ASSUME NEW t, NEW D, NEW level, NEW par, NEW slot, Tree(t, D, level, par, slot),
         NEW v \in GuestPages, NEW p \in D, OnPath(v, p, level, par, slot),
         NEW e, Ends(t, v, p, e, level)
  PROVE  EntryIn(t, v) = e
  <1> DEFINE e4 == t[ept_pml4_base][Index(4, v)]
             e3 == t[e4.page][Index(3, v)]
             e2 == t[e3.page][Index(2, v)]
             e1 == t[e2.page][Index(1, v)]
  <1>1. EntryIn(t, v) = IF Present(e4) /\ Present(e3) /\ Present(e2) THEN e1 ELSE NoEntry
    BY Zenon DEF EntryIn
  <1>2. \A q \in D : level[q] \in {1, 2, 3} =>
          /\ par[q] \in D /\ level[par[q]] = level[q] + 1
          /\ t[par[q]][slot[q]] = TableEntry(q)
    BY Above
  <1>3. \A q \in D : level[q] = 4 <=> q = ept_pml4_base
    BY Above
  <1>4. level[p] \in {1, 2, 3, 4}
    BY DEF Ends
  <1>5. CASE level[p] = 4
    <2>1. p = ept_pml4_base /\ e = NoEntry /\ e = t[p][Index(4, v)]
      BY <1>3, <1>5 DEF Ends
    <2>2. e4 = NoEntry
      BY <2>1, Zenon
    <2>. QED
      BY <1>1, <2>1, <2>2, Entries, Zenon
  <1>6. CASE level[p] = 3
    <2>1. par[p] = ept_pml4_base /\ slot[p] = Index(4, v)
      BY <1>2, <1>3, <1>6 DEF OnPath
    <2>2. e4 = TableEntry(p)
      BY <1>2, <1>6, <2>1, Zenon
    <2>3. e = NoEntry /\ e = t[p][Index(3, v)] /\ e4.page = p
      BY <1>6, <2>2, Entries DEF Ends
    <2>4. e3 = NoEntry
      BY <2>3, Zenon
    <2>. QED
      BY <1>1, <2>3, <2>4, Entries, Zenon
  <1>7. CASE level[p] = 2
    <2>1. /\ par[p] \in D /\ level[par[p]] = 3
          /\ slot[p] = Index(3, v) /\ slot[par[p]] = Index(4, v)
      BY <1>2, <1>7 DEF OnPath
    <2>2. par[par[p]] = ept_pml4_base
      BY <1>2, <1>3, <2>1
    <2>3. e4 = TableEntry(par[p]) /\ e4.page = par[p]
      BY <1>2, <2>1, <2>2, Entries
    <2>4. e3 = TableEntry(p) /\ e3.page = p
      BY <1>2, <1>7, <2>1, <2>3, Entries
    <2>5. e = NoEntry /\ e = t[p][Index(2, v)]
      BY <1>7 DEF Ends
    <2>6. e2 = NoEntry
      BY <2>4, <2>5, Zenon
    <2>. QED
      BY <1>1, <2>5, <2>6, Entries, Zenon
  <1>8. CASE level[p] = 1
    <2>1. /\ par[p] \in D /\ level[par[p]] = 2
          /\ slot[p] = Index(2, v) /\ slot[par[p]] = Index(3, v)
          /\ slot[par[par[p]]] = Index(4, v)
      BY <1>2, <1>8 DEF OnPath
    <2>2. par[par[p]] \in D /\ level[par[par[p]]] = 3
      BY <1>2, <2>1
    <2>3. par[par[par[p]]] = ept_pml4_base
      BY <1>2, <1>3, <2>2
    <2>4. e4 = TableEntry(par[par[p]]) /\ e4.page = par[par[p]]
      BY <1>2, <2>1, <2>2, <2>3, Entries
    <2>5. e3 = TableEntry(par[p]) /\ e3.page = par[p]
      BY <1>2, <2>1, <2>4, Entries
    <2>6. e2 = TableEntry(p) /\ e2.page = p
      BY <1>2, <1>8, <2>1, <2>5, Entries
    <2>7. e = t[p][Index(1, v)]
      BY <1>8, Zenon DEF Ends
    <2>8. e1 = e
      BY <2>6, <2>7, Zenon
    <2>. QED
      BY <1>1, <2>4, <2>5, <2>6, <2>8, Entries, Zenon
  <1>. QED
    BY <1>4, <1>5, <1>6, <1>7, <1>8, Zenon

\* It ends somewhere.
LEMMA WalkEnds ==
  ASSUME NEW t, NEW D, NEW level, NEW par, NEW slot, Tree(t, D, level, par, slot),
         NEW v \in GuestPages
  PROVE  \E p, e : p \in D /\ OnPath(v, p, level, par, slot) /\ Ends(t, v, p, e, level)
  <1> DEFINE Stop(p) == \E e : Ends(t, v, p, e, level)
  <1>1. ASSUME NEW p \in D, OnPath(v, p, level, par, slot), NEW l \in 2 .. 4,
               level[p] = l, ~Stop(p)
        PROVE  \E q \in D : OnPath(v, q, level, par, slot) /\ level[q] = l - 1
    <2> DEFINE i == Index(l, v)
    <2>1. i \in Slots
      BY Digits
    <2>2. t[p][i] # NoEntry
      BY <1>1 DEF Ends
    <2>3. level[p] >= 1 /\ level[p] # 1
      BY <1>1
    <2>4. PICK x \in Hangers(D) : par[x] = p /\ slot[x] = i
      BY <2>1, <2>2, <2>3, Zenon DEF Tree, Leads
    <2>5. l \in 1 .. 4
      OBVIOUS
    <2>. QED
      BY <1>1, <2>4, <2>5, Below
  <1>2. /\ ept_pml4_base \in D /\ level[ept_pml4_base] = 4
        /\ OnPath(v, ept_pml4_base, level, par, slot)
    BY DEF Tree, Shape, OnPath
  <1> SUFFICES ASSUME \A p \in D : OnPath(v, p, level, par, slot) => ~Stop(p)
               PROVE  FALSE
    BY Zenon
  <1> HIDE DEF Stop
  <1>3. PICK p3 \in D : OnPath(v, p3, level, par, slot) /\ level[p3] = 3
    BY <1>1, <1>2
  <1>4. PICK p2 \in D : OnPath(v, p2, level, par, slot) /\ level[p2] = 2
    BY <1>1, <1>3
  <1>5. PICK p1 \in D : OnPath(v, p1, level, par, slot) /\ level[p1] = 1
    BY <1>1, <1>4
  <1>6. Stop(p1)
    BY <1>5 DEF Stop, Ends
  <1>. QED
    BY <1>5, <1>6, Zenon

-----------------------------------------------------------------------------
(* A new page in the tree: x is hung from entry i of table p, as a cleared *)
(* table or, at the last level, as a frame.                                *)

\* f with page x added to its domain.
With(f, x, value) == [q \in (DOMAIN f) \cup {x} |-> IF q = x THEN value ELSE f[q]]

\* The tables D keep their entries, but for entry i of table p.
Stored(g, t, D, p, i, e) ==
  /\ g \in Memory
  /\ g[p][i] = e
  /\ \A q \in D, j \in Slots : q # p \/ j # i => g[q][j] = t[q][j]

\* The tree with x in it.
Hanging(g, D, x, p, i, l, level, par, slot, lev, pa2, slo) ==
  /\ Tree(g, D \cup {x}, lev, pa2, slo)
  /\ Extends(lev, pa2, slo, D, level, par, slot)
  /\ lev[x] = l - 1 /\ pa2[x] = p /\ slo[x] = i

LEMMA Hangs ==
  ASSUME NEW t, NEW D, NEW level, NEW par, NEW slot, Tree(t, D, level, par, slot),
         NEW x \in 1 .. NrPages, x \notin D, NEW p \in D, NEW i \in Slots,
         NEW l \in 1 .. 4, level[p] = l, t[p][i] = NoEntry,
         NEW g, Stored(g, t, D, p, i, TableEntry(x)),
         l # 1 => \A j \in Slots : g[x][j] = NoEntry
  PROVE  Hanging(g, D, x, p, i, l, level, par, slot,
                 With(level, x, l - 1), With(par, x, p), With(slot, x, i))
  <1> DEFINE E == D \cup {x}
             lev == With(level, x, l - 1)
             pa2 == With(par, x, p)
             slo == With(slot, x, i)
  <1>1. /\ t \in Memory /\ D \in SUBSET (1 .. NrPages) /\ ept_pml4_base \in D
        /\ level \in [D -> 0 .. 4] /\ par \in [Hangers(D) -> D]
        /\ slot \in [Hangers(D) -> Slots] /\ level[ept_pml4_base] = 4
    BY Zenon DEF Tree, Shape
  <1>2. /\ g \in Memory /\ g[p][i] = TableEntry(x)
        /\ \A q \in D, j \in Slots : q # p \/ j # i => g[q][j] = t[q][j]
    BY Zenon DEF Stored
  <1>3. /\ Hangers(E) = Hangers(D) \cup {x} /\ x \notin Hangers(D)
        /\ ept_pml4_base \in E /\ E \in SUBSET (1 .. NrPages)
        /\ \A q \in D : q # x /\ q \in E
        /\ \A q \in Hangers(D) : q # x /\ q \in D /\ q \in Hangers(E)
        /\ x \in Hangers(E)
    BY <1>1, Zenon DEF Hangers
  <1>4. l - 1 \in 0 .. 3
    OBVIOUS
  <1>5. /\ lev \in [E -> 0 .. 4] /\ lev[x] = l - 1
        /\ \A q \in D : lev[q] = level[q]
    BY <1>1, <1>3, <1>4 DEF With
  <1>6. /\ pa2 \in [Hangers(E) -> E] /\ pa2[x] = p
        /\ \A q \in Hangers(D) : pa2[q] = par[q]
    BY <1>1, <1>3, Zenon DEF With
  <1>7. /\ slo \in [Hangers(E) -> Slots] /\ slo[x] = i
        /\ \A q \in Hangers(D) : slo[q] = slot[q]
    BY <1>1, <1>3, Zenon DEF With
  <1> HIDE DEF E, lev, pa2, slo
  <1>8. Shape(g, E, lev, pa2, slo)
    BY <1>1, <1>2, <1>3, <1>5, <1>6, <1>7, Zenon DEF Shape
  <1>9. Linked(g, E, lev, pa2, slo)
    <2> SUFFICES ASSUME NEW q \in Hangers(E)
                 PROVE  lev[pa2[q]] = lev[q] + 1 /\ g[pa2[q]][slo[q]] = TableEntry(q)
      BY Zenon DEF Linked
    <2>1. CASE q = x
      BY <1>2, <1>3, <1>5, <1>6, <1>7, <2>1
    <2>2. CASE q \in Hangers(D)
      <3>1. level[par[q]] = level[q] + 1 /\ t[par[q]][slot[q]] = TableEntry(q)
        BY <2>2, Zenon DEF Tree, Linked
      <3>2. /\ par[q] \in D /\ slot[q] \in Slots /\ q \in D
            /\ pa2[q] = par[q] /\ slo[q] = slot[q]
        BY <1>1, <1>3, <1>6, <1>7, <2>2, Zenon
      <3>3. TableEntry(q) # NoEntry
        BY Entries, Zenon
      <3>4. g[par[q]][slot[q]] = t[par[q]][slot[q]]
        BY <1>2, <3>1, <3>2, <3>3, Zenon
      <3>5. lev[q] = level[q] /\ lev[par[q]] = level[par[q]]
        BY <1>5, <3>2, Zenon
      <3>. QED
        BY <3>1, <3>2, <3>4, <3>5, Zenon
    <2>. QED
      BY <1>3, <2>1, <2>2, Zenon
  <1>10. Leads(g, E, lev, pa2, slo)
    <2> SUFFICES ASSUME NEW q \in E, NEW j \in Slots, lev[q] >= 1
                 PROVE  \/ g[q][j] = NoEntry
                        \/ \E y \in Hangers(E) : /\ pa2[y] = q /\ slo[y] = j
                                                 /\ g[q][j] = TableEntry(y)
                        \/ g[q][j] = IoEntry /\ lev[q] = 1
      BY Zenon DEF Leads
    <2>1. CASE q = x
      <3>1. l # 1
        BY <1>5, <2>1
      <3>. QED
        BY <2>1, <3>1, Zenon
    <2>2. CASE q \in D /\ (q # p \/ j # i)
      <3>1. g[q][j] = t[q][j] /\ lev[q] = level[q]
        BY <1>2, <1>5, <2>2, Zenon
      <3>2. \/ t[q][j] = NoEntry
            \/ \E y \in Hangers(D) : par[y] = q /\ slot[y] = j /\ t[q][j] = TableEntry(y)
            \/ t[q][j] = IoEntry /\ level[q] = 1
        BY <2>2, <3>1, Zenon DEF Tree, Leads
      <3>. QED
        BY <1>3, <1>6, <1>7, <3>1, <3>2, Zenon
    <2>3. CASE q = p /\ j = i
      BY <1>2, <1>3, <1>6, <1>7, <2>3, Zenon
    <2>. QED
      BY <2>1, <2>2, <2>3, Zenon DEF E
  <1>11. Extends(lev, pa2, slo, D, level, par, slot)
    BY <1>5, <1>6, <1>7, Zenon DEF Extends
  <1>. QED
    BY <1>5, <1>6, <1>7, <1>8, <1>9, <1>10, <1>11, Zenon
    DEF Hanging, Tree, E, lev, pa2, slo

\* The entry of an I/O page leaves the tree as it is.
LEMMA IoTree ==
  ASSUME NEW t, NEW D, NEW level, NEW par, NEW slot, Tree(t, D, level, par, slot),
         NEW p \in D, NEW i \in Slots, level[p] = 1, t[p][i] = NoEntry,
         NEW g, Stored(g, t, D, p, i, IoEntry)
  PROVE  Tree(g, D, level, par, slot)
  <1>1. /\ g \in Memory /\ g[p][i] = IoEntry
        /\ \A q \in D, j \in Slots : q # p \/ j # i => g[q][j] = t[q][j]
    BY Zenon DEF Stored
  <1>2. Shape(g, D, level, par, slot)
    BY <1>1, Zenon DEF Tree, Shape
  <1>3. Linked(g, D, level, par, slot)
    <2> SUFFICES ASSUME NEW q \in Hangers(D)
                 PROVE  level[par[q]] = level[q] + 1 /\ g[par[q]][slot[q]] = TableEntry(q)
      BY Zenon DEF Linked
    <2>1. level[par[q]] = level[q] + 1 /\ t[par[q]][slot[q]] = TableEntry(q)
      BY Zenon DEF Tree, Linked
    <2>2. par[q] \in D /\ slot[q] \in Slots
      BY Zenon DEF Tree, Shape
    <2>3. TableEntry(q) # NoEntry
      BY Entries, Zenon
    <2>. QED
      BY <1>1, <2>1, <2>2, <2>3, Zenon
  <1>4. Leads(g, D, level, par, slot)
    <2> SUFFICES ASSUME NEW q \in D, NEW j \in Slots, level[q] >= 1
                 PROVE  \/ g[q][j] = NoEntry
                        \/ \E y \in Hangers(D) : /\ par[y] = q /\ slot[y] = j
                                                 /\ g[q][j] = TableEntry(y)
                        \/ g[q][j] = IoEntry /\ level[q] = 1
      BY Zenon DEF Leads
    <2>1. CASE q # p \/ j # i
      <3>1. g[q][j] = t[q][j]
        BY <1>1, <2>1, Zenon
      <3>2. \/ t[q][j] = NoEntry
            \/ \E y \in Hangers(D) : par[y] = q /\ slot[y] = j /\ t[q][j] = TableEntry(y)
            \/ t[q][j] = IoEntry /\ level[q] = 1
        BY Zenon DEF Tree, Leads
      <3>. QED
        BY <3>1, <3>2, Zenon
    <2>2. CASE q = p /\ j = i
      BY <1>1, <2>2, Zenon
    <2>. QED
      BY <2>1, <2>2, Zenon
  <1>. QED
    BY <1>2, <1>3, <1>4, Zenon DEF Tree

-----------------------------------------------------------------------------
(* What the stores do to the entries the walks find.                       *)

GrownWell(g, t, D, p, i, x) ==
  /\ Stored(g, t, D, p, i, TableEntry(x))
  /\ \A j \in Slots : g[x][j] = NoEntry
  /\ \A q \in 1 .. NrPages : q # p /\ q # x => g[q] = t[q]

FilledWell(g, t, D, p, i, e) ==
  /\ Stored(g, t, D, p, i, e)
  /\ \A q \in 1 .. NrPages : q # p => g[q] = t[q]

\* A new table changes none.
LEMMA TableKeeps ==
  ASSUME NEW t, NEW D, NEW level, NEW par, NEW slot, Tree(t, D, level, par, slot),
         NEW x, NEW p \in D, NEW i \in Slots,
         NEW l \in 2 .. 4, level[p] = l, t[p][i] = NoEntry,
         NEW g, GrownWell(g, t, D, p, i, x),
         NEW lev, NEW pa2, NEW slo,
         Hanging(g, D, x, p, i, l, level, par, slot, lev, pa2, slo),
         NEW v \in GuestPages
  PROVE  EntryIn(g, v) = EntryIn(t, v)
  <1>0. /\ Stored(g, t, D, p, i, TableEntry(x))
        /\ \A j \in Slots : g[x][j] = NoEntry
    BY Zenon DEF GrownWell
  <1>1. /\ Tree(g, D \cup {x}, lev, pa2, slo)
        /\ Extends(lev, pa2, slo, D, level, par, slot)
        /\ lev[x] = l - 1 /\ pa2[x] = p /\ slo[x] = i
    BY Zenon DEF Hanging
  <1>2. PICK q, e : q \in D /\ OnPath(v, q, level, par, slot) /\ Ends(t, v, q, e, level)
    BY WalkEnds, Zenon
  <1>3. OnPath(v, q, lev, pa2, slo) /\ q \in D \cup {x} /\ lev[q] = level[q]
    <2>1. OnPath(v, q, lev, pa2, slo)
      BY <1>1, <1>2, SamePath
    <2>. QED
      BY <1>1, <1>2, <2>1, Zenon DEF Extends
  <1>4. EntryIn(t, v) = e
    BY <1>2, Reached, Zenon
  <1> DEFINE k == level[q]
             j == Index(k, v)
  <1>5. /\ k \in 1 .. 4 /\ e = t[q][j] /\ lev[q] = k
        /\ k = 1 \/ e = NoEntry
    BY <1>2, <1>3, Zenon DEF Ends
  <1>6. j \in Slots
    BY <1>5, Digits, Zenon
  <1>7. CASE q # p \/ j # i
    <2>1. g[q][j] = e
      BY <1>0, <1>2, <1>5, <1>6, <1>7, Zenon DEF Stored
    <2>2. Ends(g, v, q, e, lev)
      BY <1>5, <2>1, Zenon DEF Ends
    <2>. QED
      BY <1>1, <1>3, <1>4, <2>2, Reached
  <1>8. CASE q = p /\ j = i
    <2>1. e = NoEntry
      BY <1>5, <1>8, Zenon
    <2>2. x \in Hangers(D \cup {x}) /\ p \in D \cup {x} /\ l \in 1 .. 4
          /\ lev[p] = l /\ slo[x] = Index(l, v)
      <3>1. lev[x] # 4
        BY <1>1
      <3>2. x # ept_pml4_base
        BY <1>1, <3>1, Zenon DEF Tree, Shape
      <3>. QED
        BY <1>1, <1>5, <1>8, <3>2, Zenon DEF Hangers
    <2>3. OnPath(v, x, lev, pa2, slo)
      BY <1>1, <1>3, <1>8, <2>2, Below
    <2>4. l - 1 \in 1 .. 4
      OBVIOUS
    <2>5. Index(l - 1, v) \in Slots
      BY <2>4, Digits, Zenon
    <2>6. Ends(g, v, x, NoEntry, lev)
      BY <1>0, <1>1, <2>4, <2>5, Zenon DEF Ends
    <2>7. EntryIn(g, v) = NoEntry
      BY <1>1, <2>3, <2>6, Reached
    <2>. QED
      BY <1>4, <2>1, <2>7, Zenon
  <1>. QED
    BY <1>7, <1>8, Zenon

\* A new leaf gives one guest page its entry, and leaves the others theirs.
LEMMA LeafEntry ==
  ASSUME NEW t, NEW D, NEW level, NEW par, NEW slot, Tree(t, D, level, par, slot),
         NEW g, NEW E, NEW lev, NEW pa2, NEW slo, Tree(g, E, lev, pa2, slo),
         D \subseteq E, Extends(lev, pa2, slo, D, level, par, slot),
         NEW guest \in GuestPages, NEW p \in D, OnPath(guest, p, level, par, slot),
         level[p] = 1, NEW e, Stored(g, t, D, p, Index(1, guest), e),
         NEW v \in GuestPages
  PROVE  EntryIn(g, v) = IF v = guest THEN e ELSE EntryIn(t, v)
  <1>1. CASE v = guest
    <2>1. OnPath(guest, p, lev, pa2, slo)
      BY SamePath
    <2>2. lev[p] = 1 /\ p \in E
      BY Zenon DEF Extends
    <2>3. g[p][Index(1, guest)] = e
      BY Zenon DEF Stored
    <2>4. Ends(g, guest, p, e, lev)
      <3>1. 1 \in 1 .. 4
        OBVIOUS
      <3>. QED
        BY <2>2, <2>3, <3>1, Zenon DEF Ends
    <2>. QED
      BY <1>1, <2>1, <2>2, <2>4, Reached, Zenon
  <1>2. CASE v # guest
    <2>1. PICK q, c : q \in D /\ OnPath(v, q, level, par, slot) /\ Ends(t, v, q, c, level)
      BY WalkEnds, Zenon
    <2>2. OnPath(v, q, lev, pa2, slo)
      BY <2>1, SamePath
    <2>3. EntryIn(t, v) = c
      BY <2>1, Reached, Zenon
    <2> DEFINE k == level[q]
               j == Index(k, v)
    <2>4. /\ k \in 1 .. 4 /\ c = t[q][j] /\ lev[q] = k /\ q \in E
          /\ k = 1 \/ c = NoEntry
      BY <2>1, Zenon DEF Ends, Extends
    <2>5. j \in Slots
      BY <2>4, Digits, Zenon
    <2>6. q # p \/ j # Index(1, guest)
      <3> SUFFICES ASSUME q = p, j = Index(1, guest) PROVE FALSE
        BY Zenon
      <3>1. level[p] \in {0, 1} /\ Index(1, v) = Index(1, guest)
        BY Zenon
      <3>. QED
        BY <1>2, <2>1, <3>1, OnePage, Zenon
    <2>7. g[q][j] = c
      BY <2>1, <2>4, <2>5, <2>6, Zenon DEF Stored
    <2>8. Ends(g, v, q, c, lev)
      BY <2>4, <2>7, Zenon DEF Ends
    <2>. QED
      BY <1>2, <2>2, <2>3, <2>4, <2>8, Reached
  <1>. QED
    BY <1>1, <1>2, Zenon

SetsEntry(g, t, v, e) ==
  \A u \in GuestPages : EntryIn(g, u) = IF u = v THEN e ELSE EntryIn(t, u)

LEMMA LeafEntries ==
  ASSUME NEW t, NEW D, NEW level, NEW par, NEW slot, Tree(t, D, level, par, slot),
         NEW g, NEW E, NEW lev, NEW pa2, NEW slo, Tree(g, E, lev, pa2, slo),
         D \subseteq E, Extends(lev, pa2, slo, D, level, par, slot),
         NEW guest \in GuestPages, NEW p \in D, OnPath(guest, p, level, par, slot),
         level[p] = 1, NEW e, Stored(g, t, D, p, Index(1, guest), e)
  PROVE  SetsEntry(g, t, guest, e)
  BY LeafEntry DEF SetsEntry

\* The frames a tree gives the guest: pages of level 0, each on the path of
\* the guest page that has it.
LEMMA FrameOf ==
  ASSUME NEW t, NEW D, NEW level, NEW par, NEW slot, Tree(t, D, level, par, slot),
         NEW v \in GuestPages, EntryIn(t, v) # NoEntry, EntryIn(t, v) # IoEntry
  PROVE  /\ EntryIn(t, v).page \in D
         /\ EntryIn(t, v) = TableEntry(EntryIn(t, v).page)
         /\ level[EntryIn(t, v).page] = 0
         /\ OnPath(v, EntryIn(t, v).page, level, par, slot)
  <1>1. PICK p, e : p \in D /\ OnPath(v, p, level, par, slot) /\ Ends(t, v, p, e, level)
    BY WalkEnds, Zenon
  <1>2. EntryIn(t, v) = e
    BY <1>1, Reached, Zenon
  <1>3. level[p] = 1 /\ e = t[p][Index(1, v)]
    BY <1>1, <1>2, Zenon DEF Ends
  <1>4. Index(1, v) \in Slots /\ level[p] >= 1
    BY <1>3, Digits
  <1>5. PICK x \in Hangers(D) : par[x] = p /\ slot[x] = Index(1, v) /\ e = TableEntry(x)
    BY <1>1, <1>2, <1>3, <1>4, Zenon DEF Tree, Leads
  <1>6. 1 \in 1 .. 4 /\ 1 - 1 = 0
    OBVIOUS
  <1>7. x \in D /\ level[x] = 0 /\ OnPath(v, x, level, par, slot)
    BY <1>1, <1>3, <1>5, <1>6, Below
  <1>8. e.page = x
    BY <1>5, Entries, Zenon
  <1>. QED
    BY <1>2, <1>5, <1>7, <1>8, Zenon

-----------------------------------------------------------------------------
(* The walk of map_ept_page.                                               *)

\* The pages get_physical_page has handed out when the next one is n.
Used(n) == {q \in 1 .. NrPages : q < n}

\* The store of a new, cleared table.
LEMMA TableStored ==
  ASSUME NEW t \in Memory, NEW D \in SUBSET (1 .. NrPages), NEW p \in D, NEW i \in Slots,
         NEW x \in 1 .. NrPages, x \notin D
  PROVE  GrownWell(Grown(t, p, i, x), t, D, p, i, x)
  <1> DEFINE row == [t[p] EXCEPT ![i] = TableEntry(x)]
             h == [t EXCEPT ![p] = row, ![x] = EmptyTable]
  <1>1. /\ t[p] \in [Slots -> EntryType] /\ DOMAIN t = 1 .. NrPages
        /\ p \in 1 .. NrPages /\ p # x
    BY Zenon DEF Memory
  <1>2. TableEntry(x) \in EntryType /\ NoEntry \in EntryType
    BY Entries, LayoutAssumption
  <1>3. /\ row \in [Slots -> EntryType] /\ row[i] = TableEntry(x)
        /\ \A j \in Slots : j # i => row[j] = t[p][j]
    BY <1>1, <1>2, Zenon
  <1>4. EmptyTable \in [Slots -> EntryType] /\ \A j \in Slots : EmptyTable[j] = NoEntry
    BY <1>2, Zenon DEF EmptyTable, Slots
  <1>5. Grown(t, p, i, x) = h
    BY <1>1, Zenon DEF Grown
  <1> HIDE DEF row
  <1>6. h \in Memory /\ h[p] = row /\ h[x] = EmptyTable
    BY <1>1, <1>3, <1>4, Zenon DEF Memory
  <1>7. \A q \in 1 .. NrPages : q # p /\ q # x => h[q] = t[q]
    BY <1>1, Zenon
  <1> HIDE DEF h
  <1>8. \A q \in D : q \in 1 .. NrPages /\ q # x
    BY Zenon
  <1>. QED
    BY <1>3, <1>4, <1>5, <1>6, <1>7, <1>8, Zenon DEF Stored, GrownWell

\* The store of a leaf.
LEMMA LeafStored ==
  ASSUME NEW t \in Memory, NEW D \in SUBSET (1 .. NrPages), NEW p \in D, NEW i \in Slots,
         NEW e \in EntryType
  PROVE  FilledWell(Filled(t, p, i, e), t, D, p, i, e)
  <1> DEFINE row == [t[p] EXCEPT ![i] = e]
             h == [t EXCEPT ![p] = row]
  <1>1. /\ t[p] \in [Slots -> EntryType] /\ DOMAIN t = 1 .. NrPages
        /\ p \in 1 .. NrPages
    BY Zenon DEF Memory
  <1>2. /\ row \in [Slots -> EntryType] /\ row[i] = e
        /\ \A j \in Slots : j # i => row[j] = t[p][j]
    BY <1>1, Zenon
  <1>3. Filled(t, p, i, e) = h
    BY <1>1, Zenon DEF Filled
  <1> HIDE DEF row
  <1>4. h \in Memory /\ h[p] = row /\ \A q \in 1 .. NrPages : q # p => h[q] = t[q]
    BY <1>1, <1>2, Zenon DEF Memory
  <1> HIDE DEF h
  <1>5. \A q \in D : q \in 1 .. NrPages
    BY Zenon
  <1>. QED
    BY <1>2, <1>3, <1>4, <1>5, Zenon DEF Stored, FilledWell

WalkType == [table : Memory, next : Nat, page : Nat, ok : BOOLEAN]

\* The walk stands at a table of level l on the path of guest page v.  The
\* pages X are handed out but not in the tree.
Standing(w, l, v, X, D, level, par, slot) ==
  /\ Tree(w.table, D, level, par, slot)
  /\ D \cup X = Used(w.next) /\ D \cap X = {}
  /\ w.ok => /\ w.page \in D /\ level[w.page] = l
             /\ OnPath(v, w.page, level, par, slot)

\* It has changed the entry of no guest page, and no page that is not handed out.
Harmless(w, t, n) ==
  /\ \A v \in GuestPages : EntryIn(w.table, v) = EntryIn(t, v)
  /\ \A q \in 1 .. NrPages : q >= w.next => w.table[q] = OldTable
  /\ w.next >= n

Walking(w, l, v, X, t, n) ==
  /\ w \in WalkType
  /\ \E D, level, par, slot : Standing(w, l, v, X, D, level, par, slot)
  /\ Harmless(w, t, n)

\* One level down.
LEMMA Descends ==
  ASSUME NEW v \in GuestPages, NEW l \in 2 .. 4, last_page \in 1 .. NrPages,
         NEW X, NEW t, NEW n \in Nat, NEW w, Walking(w, l, v, X, t, n)
  PROVE  Walking(Descend(w, l, v), l - 1, v, X, t, n)
  <1> DEFINE i == Index(l, v)
             p == w.page
             e == w.table[p][i]
             d == Descend(w, l, v)
  <1>1. PICK D, level, par, slot : Standing(w, l, v, X, D, level, par, slot)
    BY Zenon DEF Walking
  <1>2. w \in WalkType /\ Harmless(w, t, n)
    BY Zenon DEF Walking
  <1>3. Tree(w.table, D, level, par, slot) /\ D \cup X = Used(w.next) /\ D \cap X = {}
    BY <1>1, Zenon DEF Standing
  <1>4. i \in Slots /\ NrPages \in Nat
    BY Digits, LayoutAssumption
  <1>5. CASE ~w.ok
    <2>1. d = w
      BY <1>5, DescendFails, Zenon
    <2>2. Standing(w, l - 1, v, X, D, level, par, slot)
      BY <1>1, <1>5, Zenon DEF Standing
    <2>. QED
      BY <1>2, <2>1, <2>2, Zenon DEF Walking
  <1>6. w.ok => p \in D /\ level[p] = l /\ OnPath(v, p, level, par, slot)
    BY <1>1, Zenon DEF Standing
  <1>7. CASE w.ok /\ Present(e)
    <2>1. d = [w EXCEPT !.page = e.page]
      BY <1>7, DescendFollows
    <2>2. level[p] >= 1 /\ level[p] # 1 /\ l \in 1 .. 4
      BY <1>6, <1>7
    <2>3. e # NoEntry
      BY <1>7, Entries, Zenon
    <2>4. PICK x \in Hangers(D) : par[x] = p /\ slot[x] = i /\ e = TableEntry(x)
      BY <1>3, <1>4, <1>6, <1>7, <2>2, <2>3, Zenon DEF Tree, Leads
    <2>5. x \in D /\ level[x] = l - 1 /\ OnPath(v, x, level, par, slot)
      BY <1>3, <1>6, <1>7, <2>2, <2>4, Below
    <2>6. e.page = x
      BY <2>4, Entries, Zenon
    <2>7. x \in Nat
      BY <1>3, <1>4, <2>5 DEF Tree, Shape
    <2> HIDE DEF e
    <2>8. /\ d.table = w.table /\ d.next = w.next /\ d.page = x /\ d.ok = w.ok
          /\ d \in WalkType
      BY <1>2, <2>1, <2>6, <2>7, Zenon DEF WalkType
    <2> HIDE DEF d
    <2>9. Standing(d, l - 1, v, X, D, level, par, slot)
      BY <1>3, <2>5, <2>8, Zenon DEF Standing
    <2>10. Harmless(d, t, n)
      BY <1>2, <2>8, Zenon DEF Harmless
    <2>. QED
      BY <2>8, <2>9, <2>10, Zenon DEF Walking, d
  <1>8. CASE w.ok /\ ~Present(e) /\ w.next > last_page
    <2>1. d = [w EXCEPT !.ok = FALSE]
      BY <1>8, DescendStops, Zenon
    <2>2. /\ d.table = w.table /\ d.next = w.next /\ d.page = w.page /\ ~d.ok
          /\ d \in WalkType
      BY <1>2, <2>1, Zenon DEF WalkType
    <2> HIDE DEF d
    <2>3. Standing(d, l - 1, v, X, D, level, par, slot)
      BY <1>3, <2>2, Zenon DEF Standing
    <2>4. Harmless(d, t, n)
      BY <1>2, <2>2, Zenon DEF Harmless
    <2>. QED
      BY <2>2, <2>3, <2>4, Zenon DEF Walking, d
  <1>9. CASE w.ok /\ ~Present(e) /\ ~(w.next > last_page)
    <2> DEFINE x == w.next
               g == Grown(w.table, p, i, x)
               lev == With(level, x, l - 1)
               pa2 == With(par, x, p)
               slo == With(slot, x, i)
               E == D \cup {x}
    <2>1. d = [w EXCEPT !.table = g, !.next = x + 1, !.page = x]
      BY <1>9, DescendGrows, Zenon
    <2>2. w.table \in Memory /\ D \in SUBSET (1 .. NrPages) /\ p \in D /\ ept_pml4_base \in D
      BY <1>3, <1>6, <1>9, Zenon DEF Tree, Shape
    <2>3. x \in Nat /\ x \in 1 .. NrPages
      <3>1. x \in Nat /\ x <= last_page
        BY <1>2, <1>9 DEF WalkType
      <3>2. ept_pml4_base < x
        BY <1>3, <2>2, Zenon DEF Used
      <3>. QED
        BY <1>4, <3>1, <3>2 DEF ept_pml4_base
    <2>4. x \notin D /\ x \notin X
      BY <1>3, <2>3 DEF Used
    <2>5. level[p] = l /\ l \in 1 .. 4 /\ l # 1 /\ l - 1 \in 1 .. 3
      BY <1>6, <1>9
    <2>6. e = NoEntry
      <3>1. level[p] >= 1 /\ level[p] # 1
        BY <2>5
      <3>2. \/ e = NoEntry
            \/ \E y \in Hangers(D) : par[y] = p /\ slot[y] = i /\ e = TableEntry(y)
            \/ e = IoEntry /\ level[p] = 1
        BY <1>3, <1>4, <2>2, <3>1, Zenon DEF Tree, Leads
      <3> HIDE DEF e
      <3>. QED
        BY <1>9, <3>1, <3>2, Entries, Zenon
    <2>0. GrownWell(g, w.table, D, p, i, x)
      BY <1>4, <2>2, <2>3, <2>4, TableStored, Zenon
    <2>7. /\ Stored(g, w.table, D, p, i, TableEntry(x))
          /\ \A j \in Slots : g[x][j] = NoEntry
          /\ \A q \in 1 .. NrPages : q # p /\ q # x => g[q] = w.table[q]
      BY <2>0, Zenon DEF GrownWell
    <2> HIDE DEF g
    <2>8. Hanging(g, D, x, p, i, l, level, par, slot, lev, pa2, slo)
      BY <1>3, <1>4, <2>2, <2>3, <2>4, <2>5, <2>6, <2>7, Hangs, Zenon
    <2> HIDE DEF lev, pa2, slo
    <2>9. \A u \in GuestPages : EntryIn(g, u) = EntryIn(w.table, u)
      <3> SUFFICES ASSUME NEW u \in GuestPages PROVE EntryIn(g, u) = EntryIn(w.table, u)
        OBVIOUS
      <3>1. w.table[p][i] = NoEntry
        BY <2>6, Zenon
      <3> HIDE DEF e, i, p, x
      <3>. QED
        BY <1>3, <1>4, <2>0, <2>2, <2>5, <2>8, <3>1, TableKeeps
    <2> HIDE DEF e, i, d, x
    <2>10. /\ d.table = g /\ d.next = x + 1 /\ d.page = x /\ d.ok = w.ok
           /\ d \in WalkType
      <3>1. g \in Memory /\ x + 1 \in Nat
        BY <2>3, <2>7 DEF Stored
      <3>. QED
        BY <1>2, <2>1, <2>3, <3>1, Zenon DEF WalkType
    <2>11. /\ Tree(g, E, lev, pa2, slo)
           /\ Extends(lev, pa2, slo, D, level, par, slot)
           /\ lev[x] = l - 1 /\ pa2[x] = p /\ slo[x] = i
      BY <2>8, Zenon DEF Hanging
    <2>12. OnPath(v, p, lev, pa2, slo) /\ lev[p] = l
      <3>1. OnPath(v, p, lev, pa2, slo)
        BY <1>3, <1>6, <1>9, <2>11, SamePath
      <3>. QED
        BY <2>2, <2>5, <2>11, <3>1, Zenon DEF Extends
    <2>13. x \in Hangers(E) /\ p \in E /\ x \in E
      BY <2>2, <2>4, Zenon DEF Hangers
    <2>14. OnPath(v, x, lev, pa2, slo)
      BY <2>5, <2>11, <2>12, <2>13, Below DEF i
    <2>15. E \cup X = Used(x + 1) /\ E \cap X = {}
      <3>1. Used(x + 1) = Used(x) \cup {x}
        BY <1>4, <2>3 DEF Used
      <3>2. D \cup X = Used(x) /\ D \cap X = {}
        BY <1>3, Zenon DEF x
      <3>. QED
        BY <2>4, <3>1, <3>2, Zenon
    <2>16. Standing(d, l - 1, v, X, E, lev, pa2, slo)
      BY <2>10, <2>11, <2>13, <2>14, <2>15, Zenon DEF Standing
    <2>17. Harmless(d, t, n)
      <3>1. \A q \in 1 .. NrPages : q >= x + 1 => w.table[q] = OldTable /\ q # x /\ q # p
        <4>1. p < x
          BY <1>3, <2>2, Zenon DEF Used, x
        <4>2. \A q \in 1 .. NrPages : q >= x => w.table[q] = OldTable
          BY <1>2, Zenon DEF Harmless, x
        <4>3. p \in 1 .. NrPages
          BY <2>2, Zenon
        <4>. QED
          BY <2>3, <4>1, <4>2, <4>3
      <3>2. \A q \in 1 .. NrPages : q >= d.next => d.table[q] = OldTable
        BY <2>7, <2>10, <3>1, Zenon
      <3>3. \A u \in GuestPages : EntryIn(d.table, u) = EntryIn(t, u)
        BY <1>2, <2>9, <2>10, Zenon DEF Harmless
      <3>4. d.next >= n
        <4>1. x >= n
          BY <1>2, Zenon DEF Harmless, x
        <4>. QED
          BY <2>3, <2>10, <4>1
      <3>. QED
        BY <3>2, <3>3, <3>4, Zenon DEF Harmless
    <2>. QED
      BY <2>10, <2>16, <2>17, Zenon DEF Walking, d
  <1>. QED
    BY <1>5, <1>7, <1>8, <1>9, Zenon

\* The whole walk, from the tables t with the free pages from n on.
LEMMA Walks ==
  ASSUME NEW v \in GuestPages, last_page \in 1 .. NrPages, NEW n \in Nat, NEW X,
         NEW t, NEW D, NEW level, NEW par, NEW slot, Tree(t, D, level, par, slot),
         D \cup X = Used(n), D \cap X = {},
         \A q \in 1 .. NrPages : q >= n => t[q] = OldTable
  PROVE  Walking(Pt(t, n, v), 1, v, X, t, n)
  <1> DEFINE w == [table |-> t, next |-> n, page |-> ept_pml4_base, ok |-> TRUE]
  <1>1. /\ w.table = t /\ w.next = n /\ w.page = ept_pml4_base /\ w.ok
        /\ n >= n
    OBVIOUS
  <1>2. w \in WalkType
    <2>1. t \in Memory
      BY Zenon DEF Tree, Shape
    <2>. QED
      BY <2>1, Zenon DEF WalkType, ept_pml4_base
  <1>3. Pdpt(t, n, v) = Descend(w, 4, v)
    BY Zenon DEF Pdpt
  <1> HIDE DEF w
  <1>4. ept_pml4_base \in D /\ level[ept_pml4_base] = 4
    BY Zenon DEF Tree, Shape
  <1>5. OnPath(v, ept_pml4_base, level, par, slot)
    BY <1>4 DEF OnPath
  <1>6. Standing(w, 4, v, X, D, level, par, slot)
    BY <1>1, <1>4, <1>5, Zenon DEF Standing
  <1>7. Walking(w, 4, v, X, t, n)
    BY <1>1, <1>2, <1>6, Zenon DEF Walking, Harmless
  <1>8. 4 \in 2 .. 4 /\ 3 \in 2 .. 4 /\ 2 \in 2 .. 4 /\ 4 - 1 = 3 /\ 3 - 1 = 2 /\ 2 - 1 = 1
    OBVIOUS
  <1>9. Walking(Pdpt(t, n, v), 3, v, X, t, n)
    <2>1. Walking(Descend(w, 4, v), 4 - 1, v, X, t, n)
      BY <1>7, <1>8, Descends, Zenon
    <2>. QED
      BY <1>3, <1>8, <2>1, Zenon
  <1>10. Walking(Pd(t, n, v), 2, v, X, t, n)
    <2>1. Walking(Descend(Pdpt(t, n, v), 3, v), 3 - 1, v, X, t, n)
      BY <1>8, <1>9, Descends, Zenon
    <2>. QED
      BY <1>8, <2>1, Zenon DEF Pd
  <1>. QED
    <2>1. Walking(Descend(Pd(t, n, v), 2, v), 2 - 1, v, X, t, n)
      BY <1>8, <1>10, Descends, Zenon
    <2>. QED
      BY <1>8, <2>1, Zenon DEF Pt

\* The table the leaf goes to, and what map_ept_page leaves.
Reaches(w, v, X, t, n, D, level, par, slot) ==
  /\ w \in WalkType
  /\ Standing(w, 1, v, X, D, level, par, slot)
  /\ Harmless(w, t, n)
  /\ w.page \in D /\ level[w.page] = 1 /\ OnPath(v, w.page, level, par, slot)
  /\ w.table[w.page][Index(1, v)] = NoEntry

Placing(m, w, v, X, t, n, e) ==
  /\ m.result = "ERROR_OK"
  /\ m.next = w.next
  /\ m.table = Filled(w.table, w.page, Index(1, v), e)
  /\ \E D, level, par, slot : Reaches(w, v, X, t, n, D, level, par, slot)

\* A guest page without an entry gets one, unless a page is missing.
LEMMA Placed ==
  ASSUME NEW v \in GuestPages, NEW n \in Nat, NEW X, NEW t, NEW phy, NEW backing,
         EntryIn(t, v) = NoEntry, Walking(Pt(t, n, v), 1, v, X, t, n),
         NEW m, m = map_ept_page(t, n, v, phy, backing), m.result # "ASSERT"
  PROVE  Placing(m, Pt(t, n, v), v, X, t, n, Leaf(phy, backing))
  <1> DEFINE w == Pt(t, n, v)
             i == Index(1, v)
  <1> HIDE DEF w
  <1>1. m = CASE ~w.ok -> [table |-> w.table, next |-> w.next, result |-> "ASSERT"]
              [] w.ok /\ Present(w.table[w.page][i]) ->
                   [table |-> w.table, next |-> w.next, result |-> "ERROR_DUPLICATION"]
              [] OTHER ->
                   [table |-> [w.table EXCEPT ![w.page][i] = Leaf(phy, backing)],
                    next |-> w.next, result |-> "ERROR_OK"]
    BY Zenon DEF map_ept_page, w
  <1>2. w.ok
    BY <1>1
  <1>3. PICK D, level, par, slot : Standing(w, 1, v, X, D, level, par, slot)
    BY Zenon DEF Walking, w
  <1>4. w \in WalkType /\ Harmless(w, t, n)
    BY Zenon DEF Walking, w
  <1>5. /\ w.page \in D /\ level[w.page] = 1 /\ OnPath(v, w.page, level, par, slot)
        /\ Tree(w.table, D, level, par, slot)
    BY <1>2, <1>3, Zenon DEF Standing
  <1>6. w.table[w.page][i] = NoEntry
    <2>1. EntryIn(w.table, v) = NoEntry
      BY <1>4, Zenon DEF Harmless
    <2>2. Ends(w.table, v, w.page, w.table[w.page][i], level)
      <3>1. 1 \in 1 .. 4
        OBVIOUS
      <3>. QED
        BY <1>5, <3>1, Zenon DEF Ends
    <2>3. EntryIn(w.table, v) = w.table[w.page][i]
      BY <1>5, <2>2, Reached, Zenon
    <2>. QED
      BY <2>1, <2>3, Zenon
  <1>7. ~Present(w.table[w.page][i])
    BY <1>6, Entries, Zenon
  <1>8. m = [table |-> Filled(w.table, w.page, i, Leaf(phy, backing)),
             next |-> w.next, result |-> "ERROR_OK"]
    BY <1>1, <1>2, <1>7, Zenon DEF Filled
  <1>9. Reaches(w, v, X, t, n, D, level, par, slot)
    BY <1>3, <1>4, <1>5, <1>6, Zenon DEF Reaches
  <1>10. /\ m.result = "ERROR_OK" /\ m.next = w.next
         /\ m.table = Filled(w.table, w.page, i, Leaf(phy, backing))
    BY <1>8
  <1>11. Placing(m, w, v, X, t, n, Leaf(phy, backing))
    BY <1>9, <1>10, Zenon DEF Placing
  <1>. QED
    BY <1>11, Zenon DEF w

\* The pages handed out are the tree.
Grows(t, n) == \E level, par, slot : Tree(t, Used(n), level, par, slot)

\* Guest page v has got the entry e, and nothing else has changed.
Added(m, t, n, v, e) ==
  /\ m.result = "ERROR_OK"
  /\ m.next \in Nat /\ m.next >= n
  /\ Grows(m.table, m.next)
  /\ \A u \in GuestPages : EntryIn(m.table, u) = IF u = v THEN e ELSE EntryIn(t, u)
  /\ \A q \in 1 .. NrPages : q >= m.next => m.table[q] = OldTable

\* A turn of the loop of setup_basic_physical_memory: x is the page that backs
\* guest page v.
LEMMA AddsMemory ==
  ASSUME NEW v \in GuestPages, last_page \in 1 .. NrPages, NEW x \in 1 .. NrPages,
         NEW t, Grows(t, x), EntryIn(t, v) = NoEntry,
         \A q \in 1 .. NrPages : q >= x => t[q] = OldTable,
         NEW m, m = map_ept_page(t, x + 1, v, x, "PAGE_SYSTEM_MEMORY"),
         m.result # "ASSERT"
  PROVE  Added(m, t, x + 1, v, TableEntry(x))
  <1> DEFINE w == Pt(t, x + 1, v)
             i == Index(1, v)
             p == w.page
             g == Filled(w.table, p, i, TableEntry(x))
  <1>1. x + 1 \in Nat /\ x \in Nat /\ NrPages \in Nat
    BY LayoutAssumption
  <1>2. PICK level0, par0, slot0 : Tree(t, Used(x), level0, par0, slot0)
    BY Zenon DEF Grows
  <1>3. Used(x) \cup {x} = Used(x + 1) /\ Used(x) \cap {x} = {}
    BY <1>1 DEF Used
  <1>4. \A q \in 1 .. NrPages : q >= x + 1 => t[q] = OldTable
    BY <1>1
  <1>5. Walking(w, 1, v, {x}, t, x + 1)
    BY <1>1, <1>2, <1>3, <1>4, Walks, Zenon
  <1>6. Leaf(x, "PAGE_SYSTEM_MEMORY") = TableEntry(x)
    BY Zenon DEF Leaf, TableEntry
  <1>7. Placing(m, w, v, {x}, t, x + 1, TableEntry(x))
    BY <1>1, <1>5, <1>6, Placed, Zenon
  <1>8. PICK D, level, par, slot : Reaches(w, v, {x}, t, x + 1, D, level, par, slot)
    BY <1>7, Zenon DEF Placing
  <1> HIDE DEF w
  <1>9. /\ w \in WalkType /\ Harmless(w, t, x + 1)
        /\ Tree(w.table, D, level, par, slot)
        /\ D \cup {x} = Used(w.next) /\ D \cap {x} = {}
        /\ p \in D /\ level[p] = 1 /\ OnPath(v, p, level, par, slot)
        /\ w.table[p][i] = NoEntry
    BY <1>8, Zenon DEF Reaches, Standing
  <1>10. i \in Slots /\ TableEntry(x) \in EntryType
    <2>1. 1 \in 1 .. 4
      OBVIOUS
    <2>. QED
      BY <1>1, <2>1, Digits, Entries, Zenon
  <1>11. w.table \in Memory /\ D \in SUBSET (1 .. NrPages)
    BY <1>9, Zenon DEF Tree, Shape
  <1>12. x \notin D
    BY <1>9, Zenon
  <1>13. FilledWell(g, w.table, D, p, i, TableEntry(x))
    BY <1>9, <1>10, <1>11, LeafStored, Zenon
  <1>14. Stored(g, w.table, D, p, i, TableEntry(x))
    BY <1>13, Zenon DEF FilledWell
  <1> HIDE DEF g, p
  <1> DEFINE lev == With(level, x, 0)
             pa2 == With(par, x, p)
             slo == With(slot, x, i)
             E == D \cup {x}
  <1>15. Hanging(g, D, x, p, i, 1, level, par, slot, lev, pa2, slo)
    <2>1. 1 \in 1 .. 4 /\ 1 - 1 = 0
      OBVIOUS
    <2>2. Hanging(g, D, x, p, i, 1, level, par, slot,
                  With(level, x, 1 - 1), With(par, x, p), With(slot, x, i))
      BY <1>9, <1>10, <1>12, <1>14, <2>1, Hangs, Zenon
    <2>. QED
      BY <2>1, <2>2, Zenon
  <1> HIDE DEF lev, pa2, slo, i
  <1>16. Tree(g, E, lev, pa2, slo) /\ Extends(lev, pa2, slo, D, level, par, slot)
    BY <1>15, Zenon DEF Hanging
  <1>17. ASSUME NEW u \in GuestPages
         PROVE  EntryIn(g, u) = IF u = v THEN TableEntry(x) ELSE EntryIn(t, u)
    <2>1. D \subseteq E
      BY Zenon
    <2>2. SetsEntry(g, w.table, v, TableEntry(x))
      BY <1>9, <1>14, <1>16, <2>1, LeafEntries, Zenon DEF i
    <2>3. EntryIn(w.table, u) = EntryIn(t, u)
      BY <1>9, Zenon DEF Harmless
    <2>. QED
      BY <2>2, <2>3, Zenon DEF SetsEntry
  <1>18. m.table = g /\ m.next = w.next /\ m.result = "ERROR_OK"
    BY <1>7, Zenon DEF Placing, g, p, i
  <1>19. Grows(m.table, m.next)
    BY <1>9, <1>16, <1>18, Zenon DEF Grows
  <1>20. w.next \in Nat /\ w.next >= x + 1
    BY <1>9, Zenon DEF WalkType, Harmless
  <1>21. ASSUME NEW q \in 1 .. NrPages, q >= w.next
         PROVE  g[q] = OldTable
    <2>1. p \in Used(w.next)
      BY <1>9, Zenon
    <2>2. q # p
      BY <1>20, <1>21, <2>1 DEF Used
    <2>3. w.table[q] = OldTable
      BY <1>9, <1>21, Zenon DEF Harmless
    <2>. QED
      BY <1>13, <2>2, <2>3, Zenon DEF FilledWell
  <1>. QED
    BY <1>17, <1>18, <1>19, <1>20, <1>21, Zenon DEF Added

\* setup_io_memory: the entry of an I/O page leads nowhere.
LEMMA AddsVideo ==
  ASSUME NEW v \in GuestPages, last_page \in 1 .. NrPages, NEW n \in Nat,
         NEW t, Grows(t, n), EntryIn(t, v) = NoEntry,
         \A q \in 1 .. NrPages : q >= n => t[q] = OldTable,
         NEW m, m = map_ept_page(t, n, v, 0, "PAGE_SYSTEM_IOMEMORY"),
         m.result # "ASSERT"
  PROVE  Added(m, t, n, v, IoEntry)
  <1> DEFINE w == Pt(t, n, v)
             i == Index(1, v)
             p == w.page
             g == Filled(w.table, p, i, IoEntry)
  <1>1. PICK level0, par0, slot0 : Tree(t, Used(n), level0, par0, slot0)
    BY Zenon DEF Grows
  <1>2. Used(n) \cup {} = Used(n) /\ Used(n) \cap {} = {}
    BY Zenon
  <1>3. Walking(w, 1, v, {}, t, n)
    BY <1>1, <1>2, Walks, Zenon
  <1>4. Leaf(0, "PAGE_SYSTEM_IOMEMORY") = IoEntry
    BY Zenon DEF Leaf, IoEntry
  <1>5. Placing(m, w, v, {}, t, n, IoEntry)
    BY <1>3, <1>4, Placed, Zenon
  <1>6. PICK D, level, par, slot : Reaches(w, v, {}, t, n, D, level, par, slot)
    BY <1>5, Zenon DEF Placing
  <1> HIDE DEF w
  <1>7. /\ w \in WalkType /\ Harmless(w, t, n)
        /\ Tree(w.table, D, level, par, slot)
        /\ D \cup {} = Used(w.next)
        /\ p \in D /\ level[p] = 1 /\ OnPath(v, p, level, par, slot)
        /\ w.table[p][i] = NoEntry
    BY <1>6, Zenon DEF Reaches, Standing
  <1>8. D = Used(w.next)
    BY <1>7, Zenon
  <1>9. i \in Slots /\ IoEntry \in EntryType
    <2>1. 1 \in 1 .. 4
      OBVIOUS
    <2>. QED
      BY <2>1, Digits, Entries, Zenon
  <1>10. w.table \in Memory /\ D \in SUBSET (1 .. NrPages)
    BY <1>7, Zenon DEF Tree, Shape
  <1>11. FilledWell(g, w.table, D, p, i, IoEntry)
    BY <1>7, <1>9, <1>10, LeafStored, Zenon
  <1>12. Stored(g, w.table, D, p, i, IoEntry)
    BY <1>11, Zenon DEF FilledWell
  <1> HIDE DEF g, p, i
  <1>13. Tree(g, D, level, par, slot)
    BY <1>7, <1>9, <1>12, IoTree, Zenon
  <1>14. ASSUME NEW u \in GuestPages
         PROVE  EntryIn(g, u) = IF u = v THEN IoEntry ELSE EntryIn(t, u)
    <2>1. D \subseteq D /\ Extends(level, par, slot, D, level, par, slot)
      BY Zenon DEF Extends
    <2>2. SetsEntry(g, w.table, v, IoEntry)
      BY <1>7, <1>12, <1>13, <2>1, LeafEntries, Zenon DEF i
    <2>3. EntryIn(w.table, u) = EntryIn(t, u)
      BY <1>7, Zenon DEF Harmless
    <2>. QED
      BY <2>2, <2>3, Zenon DEF SetsEntry
  <1>15. m.table = g /\ m.next = w.next /\ m.result = "ERROR_OK"
    BY <1>5, Zenon DEF Placing, g, p, i
  <1>16. Grows(m.table, m.next)
    BY <1>8, <1>13, <1>15, Zenon DEF Grows
  <1>17. w.next \in Nat /\ w.next >= n
    BY <1>7, Zenon DEF WalkType, Harmless
  <1>18. ASSUME NEW q \in 1 .. NrPages, q >= w.next
         PROVE  g[q] = OldTable
    <2>1. p \in Used(w.next)
      BY <1>7, <1>8, Zenon
    <2>2. q # p
      BY <1>17, <1>18, <2>1 DEF Used
    <2>3. w.table[q] = OldTable
      BY <1>7, <1>18, Zenon DEF Harmless
    <2>. QED
      BY <1>11, <2>2, <2>3, Zenon DEF FilledWell
  <1>. QED
    BY <1>14, <1>15, <1>16, <1>17, <1>18, Zenon DEF Added

-----------------------------------------------------------------------------
(* The guest's frames.                                                     *)

Frame(t, v) == EntryIn(t, v).page

\* A frame backs one guest page and is a page that has been handed out.
LEMMA FramesApart ==
  ASSUME NEW t, NEW n, Grows(t, n), NEW u \in GuestPages, EntryIn(t, u).read
  PROVE  /\ Frame(t, u) \in Used(n)
         /\ EntryIn(t, u) = TableEntry(Frame(t, u))
         /\ \A v \in GuestPages :
              EntryIn(t, v).read /\ Frame(t, v) = Frame(t, u) => v = u
  <1>1. PICK level, par, slot : Tree(t, Used(n), level, par, slot)
    BY Zenon DEF Grows
  <1>2. ASSUME NEW v \in GuestPages, EntryIn(t, v).read
        PROVE  /\ Frame(t, v) \in Used(n)
               /\ EntryIn(t, v) = TableEntry(Frame(t, v))
               /\ level[Frame(t, v)] = 0
               /\ OnPath(v, Frame(t, v), level, par, slot)
    <2>1. EntryIn(t, v) # NoEntry /\ EntryIn(t, v) # IoEntry
      BY <1>2, Entries, Zenon
    <2>. QED
      BY <1>1, <2>1, FrameOf, Zenon DEF Frame
  <1>3. ASSUME NEW v \in GuestPages, EntryIn(t, v).read, Frame(t, v) = Frame(t, u)
        PROVE  v = u
    <2>1. /\ OnPath(v, Frame(t, u), level, par, slot)
          /\ OnPath(u, Frame(t, u), level, par, slot)
          /\ level[Frame(t, u)] = 0
      BY <1>2, <1>3, Zenon
    <2>2. level[Frame(t, u)] \in {0, 1} /\ level[Frame(t, u)] # 1
      BY <2>1
    <2>. QED
      BY <2>1, <2>2, OnePage, Zenon
  <1>. QED
    BY <1>2, <1>3, Zenon

\* A table above the last level leads to a table one level down.
LEMMA Child ==
  ASSUME NEW t, NEW D, NEW level, NEW par, NEW slot, Tree(t, D, level, par, slot),
         NEW l \in 2 .. 4, NEW p \in D, level[p] = l, NEW i \in Slots, Present(t[p][i])
  PROVE  t[p][i].page \in D /\ level[t[p][i].page] = l - 1
  <1> DEFINE e == t[p][i]
  <1>1. level[p] >= 1 /\ level[p] # 1
    OBVIOUS
  <1>2. e # NoEntry
    BY Entries, Zenon
  <1>3. PICK x \in Hangers(D) : par[x] = p /\ e = TableEntry(x)
    BY <1>1, <1>2, Zenon DEF Tree, Leads
  <1>4. e.page = x
    BY <1>3, Entries, Zenon
  <1>5. x \in D /\ level[p] = level[x] + 1
    BY <1>3, Zenon DEF Tree, Linked, Hangers
  <1>6. level[x] \in 0 .. 4
    BY <1>5, Zenon DEF Tree, Shape
  <1>7. level[x] = l - 1
    BY <1>5, <1>6
  <1>. QED
    BY <1>4, <1>5, <1>7, Zenon

\* The tables of a guest page are tables of the tree.
LEMMA TablesAbove ==
  ASSUME NEW D, NEW level, NEW par, NEW slot, Tree(table, D, level, par, slot),
         NEW v \in GuestPages
  PROVE  \A p \in TablesOf(v) : p \in D /\ level[p] # 0
  <1> DEFINE e4 == table[ept_pml4_base][Index(4, v)]
             e3 == table[e4.page][Index(3, v)]
             e2 == table[e3.page][Index(2, v)]
  <1>1. TablesOf(v) = {ept_pml4_base}
                        \cup (IF Present(e4) THEN {e4.page} ELSE {})
                        \cup (IF Present(e4) /\ Present(e3) THEN {e3.page} ELSE {})
                        \cup (IF Present(e4) /\ Present(e3) /\ Present(e2) THEN {e2.page} ELSE {})
    BY Zenon DEF TablesOf
  <1>2. ept_pml4_base \in D /\ level[ept_pml4_base] = 4
    BY Zenon DEF Tree, Shape
  <1>3. /\ 4 \in 2 .. 4 /\ 3 \in 2 .. 4 /\ 2 \in 2 .. 4
        /\ 4 \in 1 .. 4 /\ 3 \in 1 .. 4 /\ 2 \in 1 .. 4
        /\ 4 - 1 = 3 /\ 3 - 1 = 2 /\ 2 - 1 = 1 /\ 4 # 0 /\ 3 # 0 /\ 2 # 0 /\ 1 # 0
    OBVIOUS
  <1>4. Index(4, v) \in Slots /\ Index(3, v) \in Slots /\ Index(2, v) \in Slots
    BY <1>3, Digits, Zenon
  <1>5. Present(e4) => e4.page \in D /\ level[e4.page] = 3
    BY <1>2, <1>3, <1>4, Child
  <1>6. Present(e4) /\ Present(e3) => e3.page \in D /\ level[e3.page] = 2
    <2> HIDE DEF e4
    <2>. QED
      BY <1>3, <1>4, <1>5, Child
  <1>7. Present(e4) /\ Present(e3) /\ Present(e2) => e2.page \in D /\ level[e2.page] = 1
    <2> HIDE DEF e3, e4
    <2>. QED
      BY <1>3, <1>4, <1>6, Child
  <1> HIDE DEF e4, e3, e2
  <1>8. \A p \in TablesOf(v) :
          \/ p = ept_pml4_base
          \/ Present(e4) /\ p = e4.page
          \/ Present(e4) /\ Present(e3) /\ p = e3.page
          \/ Present(e4) /\ Present(e3) /\ Present(e2) /\ p = e2.page
    BY <1>1, Zenon
  <1>. QED
    BY <1>2, <1>3, <1>5, <1>6, <1>7, <1>8, Zenon

\* No frame is a table.
LEMMA FramesAreNoTables ==
  ASSUME NEW n, Grows(table, n), NEW u \in GuestPages, EntryIn(table, u).read,
         NEW v \in GuestPages
  PROVE  Frame(table, u) \notin TablesOf(v)
  <1>1. PICK level, par, slot : Tree(table, Used(n), level, par, slot)
    BY Zenon DEF Grows
  <1>2. EntryIn(table, u) # NoEntry /\ EntryIn(table, u) # IoEntry
    BY Entries, Zenon
  <1>3. level[Frame(table, u)] = 0
    BY <1>1, <1>2, FrameOf, Zenon DEF Frame
  <1>. QED
    BY <1>1, <1>3, TablesAbove, Zenon

\* Memory lies below the video page.
LEMMA BelowVideo ==
  ASSUME NEW g \in Nat, g <= IoPage
  PROVE  g \in GuestPages
  <1> DEFINE top == Fan * Span(4) - 1
  <1>1. Fan \in Nat /\ Fan * Fan \in Nat
    BY FanAssumption
  <1>2. Fan * Fan * Fan \in Nat
    BY <1>1
  <1>3. Span(4) = Fan * Fan * Fan
    BY DEF Span
  <1>4. top \in Int
    BY <1>1, <1>2, <1>3
  <1>5. IoPage \in 0 .. top
    BY LayoutAssumption, Zenon DEF GuestPages
  <1> HIDE DEF top
  <1>6. g \in 0 .. top
    BY <1>4, <1>5
  <1>. QED
    BY <1>6, Zenon DEF GuestPages, top

\* What guestpa_to_hostpa returns.
LEMMA HostPage ==
  ASSUME NEW v
  PROVE  /\ EntryIn(table, v).read => guestpa_to_hostpa(v) = Frame(table, v)
         /\ EntryIn(table, v) = IoEntry => guestpa_to_hostpa(v) = Nowhere
  <1> DEFINE e4 == table[ept_pml4_base][Index(4, v)]
             e3 == table[e4.page][Index(3, v)]
             e2 == table[e3.page][Index(2, v)]
             e1 == table[e2.page][Index(1, v)]
  <1>1. guestpa_to_hostpa(v) =
          CASE ~Present(e4) -> Nowhere
            [] Present(e4) /\ ~Present(e3) -> Nowhere
            [] Present(e4) /\ Present(e3) /\ ~Present(e2) -> Nowhere
            [] OTHER -> IF ~e1.read /\ e1.write THEN Nowhere ELSE e1.page
    BY Zenon DEF guestpa_to_hostpa
  <1>2. EntryIn(table, v) = IF Present(e4) /\ Present(e3) /\ Present(e2) THEN e1 ELSE NoEntry
    BY Zenon DEF EntryIn
  <1> HIDE DEF e4, e3, e2, e1
  <1>3. NoEntry # IoEntry
    BY Entries, Zenon
  <1>4. ASSUME Present(e4) /\ Present(e3) /\ Present(e2)
        PROVE  /\ guestpa_to_hostpa(v) = IF ~e1.read /\ e1.write THEN Nowhere ELSE e1.page
               /\ EntryIn(table, v) = e1
    BY <1>1, <1>2, <1>4, Zenon
  <1>5. ASSUME ~(Present(e4) /\ Present(e3) /\ Present(e2))
        PROVE  EntryIn(table, v) = NoEntry
    BY <1>2, <1>5, Zenon
  <1>. QED
    BY <1>3, <1>4, <1>5, Entries, Zenon DEF Frame

-----------------------------------------------------------------------------
(* The guest's memory while it is set up.                                  *)

Cell == {Old, Zero} \cup {ImagePage(k) : k \in Int}

\* Guest page g is backed by a page that holds x.
Holds(t, c, g, x) == EntryIn(t, g).read /\ c[Frame(t, g)] = x

\* The pages from n on are not handed out.
Tables(t, n) ==
  /\ Grows(t, n)
  /\ \A q \in 1 .. NrPages : q >= n => t[q] = OldTable

Contents(c, n) ==
  /\ c \in [0 .. NrPages -> Cell]
  /\ c[0] = Old
  /\ \A q \in 1 .. NrPages : q >= n => c[q] = Old

\* The guest pages below k are there, and cleared.
Filling(t, c, k) ==
  \A g \in GuestPages :
    /\ g < k => Holds(t, c, g, Zero)
    /\ g >= k => EntryIn(t, g) = NoEntry

\* Those up to high are there, and those before k hold the image.
Loaded(t, c, k, high) ==
  \A g \in GuestPages :
    g <= high => Holds(t, c, g, IF 1 <= g /\ g < k THEN ImagePage(g - 1) ELSE Zero)

Bare(t, high) == \A g \in GuestPages : g > high => EntryIn(t, g) = NoEntry

Trapped(t, high) ==
  /\ EntryIn(t, IoPage) = IoEntry
  /\ \A g \in GuestPages : g > high /\ g # IoPage => EntryIn(t, g) = NoEntry

\* A turn of the first loop.
LEMMA PageAdded ==
  ASSUME NEW t, NEW c, NEW x \in 1 .. NrPages, Tables(t, x), Contents(c, x),
         NEW k \in GuestPages, Filling(t, c, k), last_page \in 1 .. NrPages,
         NEW m, m = map_ept_page(t, x + 1, k, x, "PAGE_SYSTEM_MEMORY"),
         m.result # "ASSERT",
         NEW d, d = [c EXCEPT ![x] = Zero]
  PROVE  /\ m.next \in Nat \ {0} /\ Tables(m.table, m.next) /\ Contents(d, m.next)
         /\ Filling(m.table, d, k + 1)
  <1>1. /\ NrPages \in Nat /\ x \in Nat /\ x # 0 /\ x \in 0 .. NrPages /\ 0 \in 0 .. NrPages
        /\ k \in Nat
    BY LayoutAssumption DEF GuestPages
  <1>2. EntryIn(t, k) = NoEntry
    BY <1>1 DEF Filling
  <1>3. Added(m, t, x + 1, k, TableEntry(x))
    BY <1>2, AddsMemory, Zenon DEF Tables
  <1>4. m.next \in Nat /\ m.next >= x + 1
    BY <1>3, Zenon DEF Added
  <1>5. Tables(m.table, m.next)
    BY <1>3, Zenon DEF Added, Tables
  <1>6. /\ c \in [0 .. NrPages -> Cell] /\ Zero \in Cell
        /\ \A q \in 1 .. NrPages : q >= x => c[q] = Old
        /\ c[0] = Old
    BY Zenon DEF Contents, Cell
  <1>7. /\ d \in [0 .. NrPages -> Cell] /\ d[x] = Zero
        /\ \A q \in 0 .. NrPages : q # x => d[q] = c[q]
    BY <1>1, <1>6, Zenon
  <1>8. Contents(d, m.next)
    <2>1. d[0] = Old
      BY <1>1, <1>6, <1>7, Zenon
    <2>2. ASSUME NEW q \in 1 .. NrPages, q >= m.next
          PROVE  d[q] = Old
      <3>1. q >= x /\ q # x /\ q \in 0 .. NrPages
        BY <1>1, <1>4, <2>2
      <3>. QED
        BY <1>6, <1>7, <3>1, Zenon
    <2>. QED
      BY <1>7, <2>1, <2>2, Zenon DEF Contents
  <1>9. ASSUME NEW g \in GuestPages, g < k + 1
        PROVE  Holds(m.table, d, g, Zero)
    <2>1. CASE g = k
      <3>1. EntryIn(m.table, g) = TableEntry(x)
        BY <1>3, <2>1, Zenon DEF Added
      <3>2. EntryIn(m.table, g).read /\ Frame(m.table, g) = x
        BY <3>1, Entries, Zenon DEF Frame
      <3>. QED
        BY <1>7, <3>2, Zenon DEF Holds
    <2>2. CASE g # k
      <3>1. g < k
        BY <1>1, <1>9, <2>2 DEF GuestPages
      <3>2. Holds(t, c, g, Zero)
        BY <3>1, Zenon DEF Filling
      <3>3. EntryIn(m.table, g) = EntryIn(t, g)
        BY <1>3, <2>2, Zenon DEF Added
      <3>4. Frame(t, g) \in Used(x)
        BY <3>2, FramesApart, Zenon DEF Tables, Holds
      <3>5. Frame(t, g) # x /\ Frame(t, g) \in 0 .. NrPages
        BY <1>1, <3>4 DEF Used
      <3>. QED
        BY <1>7, <3>2, <3>3, <3>5, Zenon DEF Holds, Frame
    <2>. QED
      BY <2>1, <2>2, Zenon
  <1>10. ASSUME NEW g \in GuestPages, g >= k + 1
         PROVE  EntryIn(m.table, g) = NoEntry
    <2>1. g # k /\ g >= k
      BY <1>1, <1>10 DEF GuestPages
    <2>. QED
      BY <1>3, <2>1, Zenon DEF Added, Filling
  <1>11. m.next \in Nat \ {0}
    BY <1>1, <1>4
  <1>. QED
    BY <1>5, <1>8, <1>9, <1>10, <1>11, Zenon DEF Filling

\* A turn of the second loop.
LEMMA PageCopied ==
  ASSUME NEW t, NEW c, NEW n \in Nat, Tables(t, n), Contents(c, n),
         NEW k \in Nat, k >= 1, NEW high \in Nat, k <= high, k \in GuestPages,
         Loaded(t, c, k, high),
         NEW d, d = [c EXCEPT ![Frame(t, k)] = ImagePage(k - 1)]
  PROVE  Contents(d, n) /\ Loaded(t, d, k + 1, high)
  <1> DEFINE f == Frame(t, k)
             x(g, j) == IF 1 <= g /\ g < j THEN ImagePage(g - 1) ELSE Zero
  <1>1. EntryIn(t, k).read
    BY Zenon DEF Loaded, Holds
  <1>2. /\ f \in Used(n)
        /\ \A g \in GuestPages : EntryIn(t, g).read /\ Frame(t, g) = f => g = k
    BY <1>1, FramesApart, Zenon DEF Tables
  <1>3. /\ NrPages \in Nat /\ 0 \in 0 .. NrPages
        /\ f \in 1 .. NrPages /\ f \in 0 .. NrPages /\ f < n /\ f # 0
    BY <1>2, LayoutAssumption DEF Used
  <1>4. k - 1 \in Int
    OBVIOUS
  <1>5. /\ c \in [0 .. NrPages -> Cell] /\ ImagePage(k - 1) \in Cell
        /\ \A q \in 1 .. NrPages : q >= n => c[q] = Old
        /\ c[0] = Old
    BY <1>4, Zenon DEF Contents, Cell
  <1> HIDE DEF f
  <1>6. /\ d \in [0 .. NrPages -> Cell] /\ d[f] = ImagePage(k - 1)
        /\ \A q \in 0 .. NrPages : q # f => d[q] = c[q]
    <2>1. d = [c EXCEPT ![f] = ImagePage(k - 1)]
      BY Zenon DEF f
    <2> DEFINE y == ImagePage(k - 1)
    <2> HIDE DEF y
    <2>. QED
      BY <1>3, <1>5, <2>1, Zenon DEF y
  <1>7. Contents(d, n)
    <2>1. d[0] = Old
      BY <1>3, <1>5, <1>6, Zenon
    <2>2. ASSUME NEW q \in 1 .. NrPages, q >= n
          PROVE  d[q] = Old
      <3>1. q # f /\ q \in 0 .. NrPages
        BY <1>3, <2>2
      <3>. QED
        BY <1>5, <1>6, <2>2, <3>1, Zenon
    <2>. QED
      BY <1>6, <2>1, <2>2, Zenon DEF Contents
  <1>8. ASSUME NEW g \in GuestPages, g <= high
        PROVE  Holds(t, d, g, x(g, k + 1))
    <2>1. Holds(t, c, g, x(g, k)) /\ g \in Nat
      BY <1>8, Digits, Zenon DEF Loaded
    <2>2. CASE g = k
      <3>1. 1 <= g /\ g < k + 1
        BY <2>2
      <3>2. x(g, k + 1) = ImagePage(k - 1)
        BY <2>2, <3>1, Zenon
      <3>. QED
        BY <1>1, <1>6, <2>2, <3>2, Zenon DEF Holds, f
    <2>3. CASE g # k
      <3>1. g < k <=> g < k + 1
        BY <2>1, <2>3
      <3>2. x(g, k) = x(g, k + 1)
        BY <3>1, Zenon
      <3>3. Frame(t, g) # f
        BY <1>2, <2>1, <2>3, Zenon DEF Holds
      <3>4. Frame(t, g) \in Used(n)
        BY <2>1, FramesApart, Zenon DEF Tables, Holds
      <3>5. Frame(t, g) \in 0 .. NrPages
        BY <1>3, <3>4 DEF Used
      <3> HIDE DEF x
      <3>. QED
        BY <1>6, <2>1, <3>2, <3>3, <3>5, Zenon DEF Holds
    <2>. QED
      BY <2>2, <2>3, Zenon
  <1>. QED
    BY <1>7, <1>8, Zenon DEF Loaded

\* The video page.
LEMMA VideoAdded ==
  ASSUME NEW t, NEW c, NEW n \in Nat, n # 0, Tables(t, n), Contents(c, n),
         NEW k, NEW high \in Nat, high < IoPage, Loaded(t, c, k, high), Bare(t, high),
         last_page \in 1 .. NrPages,
         NEW m, m = map_ept_page(t, n, IoPage, 0, "PAGE_SYSTEM_IOMEMORY"),
         m.result # "ASSERT"
  PROVE  /\ m.next \in Nat \ {0} /\ Tables(m.table, m.next) /\ Contents(c, m.next)
         /\ Loaded(m.table, c, k, high) /\ Trapped(m.table, high)
  <1>1. IoPage \in GuestPages /\ IoPage \in Nat /\ NrPages \in Nat
    BY LayoutAssumption, Digits, Zenon
  <1>2. EntryIn(t, IoPage) = NoEntry
    BY <1>1, Zenon DEF Bare
  <1>3. Added(m, t, n, IoPage, IoEntry)
    BY <1>1, <1>2, AddsVideo, Zenon DEF Tables
  <1>4. m.next \in Nat /\ m.next >= n
    BY <1>3, Zenon DEF Added
  <1>5. Tables(m.table, m.next)
    BY <1>3, Zenon DEF Added, Tables
  <1>6. m.next \in Nat \ {0}
    BY <1>4
  <1>7. Contents(c, m.next)
    <2>1. ASSUME NEW q \in 1 .. NrPages, q >= m.next
          PROVE  c[q] = Old
      <3>1. q >= n
        BY <1>1, <1>4, <2>1
      <3>. QED
        BY <3>1, Zenon DEF Contents
    <2>. QED
      BY <2>1, Zenon DEF Contents
  <1>8. ASSUME NEW g \in GuestPages, g <= high
        PROVE  EntryIn(m.table, g) = EntryIn(t, g)
    <2>1. g # IoPage
      BY <1>1, <1>8, Digits
    <2>. QED
      BY <1>3, <2>1, Zenon DEF Added
  <1>9. Loaded(m.table, c, k, high)
    BY <1>8, Zenon DEF Loaded, Holds, Frame
  <1>10. Trapped(m.table, high)
    BY <1>1, <1>3, Zenon DEF Trapped, Added, Bare
  <1>. QED
    BY <1>5, <1>6, <1>7, <1>9, <1>10, Zenon

-----------------------------------------------------------------------------
(* The invariant.                                                          *)

Numbers ==
  /\ next_page \in Nat \ {0} /\ last_page \in 1 .. NrPages
  /\ addr_high \in HighPages /\ image \in Nat /\ image <= addr_high /\ guest_pa \in Nat

\* The pages handed out form a tree whose leaves are the frames of the guest,
\* and every guest page has its entry and its content in due time.
IInv ==
  /\ Numbers
  /\ Tables(table, next_page) /\ Contents(content, next_page)
  /\ pc \in {"memory", "image", "launched", "panic"}
  /\ pc = "memory" => guest_pa <= addr_high /\ Filling(table, content, guest_pa)
  /\ pc \in {"image", "launched"} =>
       1 <= guest_pa /\ guest_pa <= image + 1 /\ Loaded(table, content, guest_pa, addr_high)
  /\ pc = "image" => Bare(table, addr_high)
  /\ pc = "launched" => guest_pa = image + 1 /\ Trapped(table, addr_high)

\* At first the tree is its root.
LEMMA RootTree ==
  ASSUME NEW t, t = [p \in 1 .. NrPages |-> IF p = ept_pml4_base THEN EmptyTable ELSE OldTable]
  PROVE  /\ Tables(t, ept_pml4_base + 1)
         /\ \A v \in GuestPages : EntryIn(t, v) = NoEntry
  <1> DEFINE level == [p \in {ept_pml4_base} |-> 4]
             par == [p \in {} |-> ept_pml4_base]
             slot == [p \in {} |-> 0]
             D == {ept_pml4_base}
  <1>1. ept_pml4_base = 1 /\ NrPages \in Nat \ {0} /\ 1 \in 1 .. NrPages
    BY LayoutAssumption DEF ept_pml4_base
  <1>2. Used(ept_pml4_base + 1) = D
    BY <1>1 DEF Used
  <1>3. EmptyTable \in [Slots -> EntryType] /\ OldTable \in [Slots -> EntryType]
    <2>1. NoEntry \in EntryType /\ TableEntry(ept_pml4_base) \in EntryType
      BY <1>1, Entries, Zenon
    <2>. QED
      BY <2>1, Zenon DEF EmptyTable, OldTable, Slots
  <1>4. /\ t \in Memory /\ t[ept_pml4_base] = EmptyTable
        /\ \A q \in 1 .. NrPages : q # ept_pml4_base => t[q] = OldTable
    BY <1>1, <1>3, Zenon DEF Memory
  <1>5. \A i \in Slots : t[ept_pml4_base][i] = NoEntry
    BY <1>4, Zenon DEF EmptyTable, Slots
  <1>6. Hangers(D) = {}
    BY Zenon DEF Hangers
  <1>7. /\ level \in [D -> 0 .. 4] /\ par \in [{} -> D] /\ slot \in [{} -> Slots]
        /\ level[ept_pml4_base] = 4
    OBVIOUS
  <1> HIDE DEF level, par, slot
  <1>8. D \in SUBSET (1 .. NrPages) /\ ept_pml4_base \in D
    BY <1>1, Zenon
  <1>9. Tree(t, D, level, par, slot)
    <2>1. Shape(t, D, level, par, slot)
      BY <1>4, <1>6, <1>7, <1>8, Zenon DEF Shape
    <2>2. Linked(t, D, level, par, slot)
      BY <1>6, Zenon DEF Linked
    <2>3. Leads(t, D, level, par, slot)
      BY <1>5, Zenon DEF Leads
    <2>. QED
      BY <2>1, <2>2, <2>3, Zenon DEF Tree
  <1>10. \A q \in 1 .. NrPages : q >= ept_pml4_base + 1 => t[q] = OldTable
    <2>1. \A q \in 1 .. NrPages : q >= ept_pml4_base + 1 => q # ept_pml4_base
      BY <1>1
    <2>. QED
      BY <1>4, <2>1, Zenon
  <1>11. ASSUME NEW v \in GuestPages
         PROVE  EntryIn(t, v) = NoEntry
    <2>1. 4 \in 1 .. 4
      OBVIOUS
    <2>2. t[ept_pml4_base][Index(4, v)] = NoEntry
      BY <1>5, <2>1, Digits, Zenon
    <2>3. ~Present(t[ept_pml4_base][Index(4, v)])
      BY <2>2, Entries, Zenon
    <2>. QED
      BY <2>3, Zenon DEF EntryIn
  <1>. QED
    BY <1>2, <1>9, <1>10, <1>11, Zenon DEF Tables, Grows

LEMMA InitIInv ==
  ASSUME Init
  PROVE  IInv
  <1>1. Tables(table, next_page) /\ \A v \in GuestPages : EntryIn(table, v) = NoEntry
    BY RootTree, Zenon DEF Init
  <1>2. Numbers /\ guest_pa = 0 /\ pc = "memory" /\ addr_high \in Nat
    BY LayoutAssumption DEF Init, Numbers, ept_pml4_base
  <1>3. Contents(content, next_page)
    <2>1. Old \in Cell /\ content = [p \in 0 .. NrPages |-> Old]
      BY Zenon DEF Cell, Init
    <2>2. 0 \in 0 .. NrPages /\ \A q \in 1 .. NrPages : q \in 0 .. NrPages
      BY LayoutAssumption
    <2> HIDE DEF Old
    <2>. QED
      BY <2>1, <2>2, Zenon DEF Contents
  <1>4. Filling(table, content, guest_pa)
    <2>1. \A g \in GuestPages : ~(g < 0)
      BY Digits
    <2>. QED
      BY <1>1, <1>2, <2>1, Zenon DEF Filling
  <1>5. guest_pa <= addr_high
    BY <1>2
  <1>6. "memory" # "image" /\ "memory" # "launched"
    BY Zenon
  <1>. QED
    BY <1>1, <1>2, <1>3, <1>4, <1>5, <1>6, Zenon DEF IInv

LEMMA NumbersAre ==
  ASSUME Numbers
  PROVE  /\ next_page \in Nat /\ next_page # 0 /\ last_page \in 1 .. NrPages
         /\ addr_high \in Nat /\ addr_high < IoPage /\ IoPage \in Nat /\ IoPage \in GuestPages
         /\ image \in Nat /\ image <= addr_high /\ guest_pa \in Nat /\ NrPages \in Nat
         /\ \A g \in Nat : g <= addr_high => g \in GuestPages
  <1>1. /\ next_page \in Nat /\ next_page # 0 /\ last_page \in 1 .. NrPages
        /\ addr_high \in Nat /\ addr_high < IoPage /\ IoPage \in GuestPages
        /\ image \in Nat /\ image <= addr_high /\ guest_pa \in Nat /\ NrPages \in Nat
    BY LayoutAssumption, Zenon DEF Numbers
  <1>2. IoPage \in Nat
    BY <1>1, Digits, Zenon
  <1>3. \A g \in Nat : g <= addr_high => g <= IoPage
    BY <1>1, <1>2
  <1>. QED
    BY <1>1, <1>2, <1>3, BelowVideo, Zenon

\* A failed assertion changes nothing but the control.
LEMMA PanicStep ==
  ASSUME IInv, Panic
  PROVE  IInv'
  <1>1. /\ pc' = "panic" /\ table' = table /\ content' = content /\ next_page' = next_page
        /\ last_page' = last_page /\ addr_high' = addr_high /\ image' = image
        /\ guest_pa' = guest_pa
    BY Zenon DEF Panic
  <1>2. "panic" # "memory" /\ "panic" # "image" /\ "panic" # "launched"
    BY Zenon
  <1>. QED
    BY <1>1, <1>2, Zenon DEF IInv, Numbers, Tables, Contents, Grows, Used

\* The loop of setup_basic_physical_memory.
LEMMA AddPageStep ==
  ASSUME IInv, AddPage
  PROVE  IInv'
  <1> DEFINE m == map_ept_page(table, next_page + 1, guest_pa, next_page,
                               "PAGE_SYSTEM_MEMORY")
             d == [content EXCEPT ![next_page] = Zero]
             k == guest_pa
  <1> HIDE DEF m
  <1>1. /\ pc = "memory" /\ Numbers /\ Tables(table, next_page) /\ Contents(content, next_page)
        /\ k <= addr_high /\ Filling(table, content, k)
    BY Zenon DEF IInv, AddPage
  <1>2. CASE Panic
    BY <1>2, PanicStep, Zenon
  <1>3. CASE ~Panic
    <2>1. /\ ~(next_page > last_page) /\ m.result # "ASSERT"
          /\ content' = d /\ table' = m.table /\ next_page' = m.next
          /\ \/ k + 1 <= addr_high /\ guest_pa' = k + 1 /\ pc' = pc
             \/ ~(k + 1 <= addr_high) /\ guest_pa' = 1 /\ pc' = "image"
          /\ last_page' = last_page /\ addr_high' = addr_high /\ image' = image
      BY <1>3, Zenon DEF AddPage, m
    <2> HIDE DEF d
    <2>2. next_page \in 1 .. NrPages /\ k \in GuestPages
      BY <1>1, <2>1, NumbersAre
    <2>3. /\ m.next \in Nat \ {0} /\ Tables(m.table, m.next) /\ Contents(d, m.next)
          /\ Filling(m.table, d, k + 1)
      BY <1>1, <2>1, <2>2, NumbersAre, PageAdded, Zenon DEF m, d
    <2>4. Tables(table, next_page)' /\ Contents(content, next_page)'
      BY <2>1, <2>3, Zenon
    <2>5. Numbers'
      BY <1>1, <2>1, <2>3 DEF Numbers
    <2>6. CASE k + 1 <= addr_high /\ guest_pa' = k + 1 /\ pc' = pc
      <3>1. Filling(table, content, guest_pa)'
        BY <2>1, <2>3, <2>6, Zenon
      <3>2. guest_pa' <= addr_high' /\ pc' = "memory"
        BY <1>1, <2>1, <2>6, Zenon
      <3>3. pc' # "image" /\ pc' # "launched"
        BY <3>2, Zenon
      <3>. QED
        BY <2>4, <2>5, <3>1, <3>2, <3>3, Zenon DEF IInv
    <2>7. CASE ~(k + 1 <= addr_high) /\ guest_pa' = 1 /\ pc' = "image"
      <3>1. k = addr_high /\ 1 <= image + 1 /\ addr_high \in Nat
        BY <1>1, <2>7, NumbersAre
      <3>2. \A g \in GuestPages : /\ g <= addr_high => g < k + 1
                                  /\ g > addr_high => g >= k + 1
                                  /\ ~(1 <= g /\ g < 1)
        BY <3>1, Digits
      <3>3. Loaded(m.table, d, 1, addr_high)
        BY <2>3, <3>2, Zenon DEF Filling, Loaded
      <3>4. Bare(m.table, addr_high)
        BY <2>3, <3>2, Zenon DEF Filling, Bare
      <3>5. Loaded(table, content, guest_pa, addr_high)' /\ Bare(table, addr_high)'
        BY <2>1, <2>7, <3>3, <3>4, Zenon
      <3>6. pc' = "image" /\ pc' # "memory" /\ pc' # "launched"
        BY <2>7, Zenon
      <3>7. 1 <= guest_pa' /\ guest_pa' <= image' + 1
        BY <2>1, <2>7, <3>1
      <3>. QED
        BY <2>4, <2>5, <3>5, <3>6, <3>7, Zenon DEF IInv
    <2>. QED
      BY <2>1, <2>6, <2>7, Zenon
  <1>. QED
    BY <1>2, <1>3, Zenon

\* The loop of initialize_vmcs_guest_image.
LEMMA CopyImageStep ==
  ASSUME IInv, CopyImage
  PROVE  IInv'
  <1> DEFINE k == guest_pa
             d == [content EXCEPT ![Frame(table, k)] = ImagePage(k - 1)]
  <1>1. /\ pc = "image" /\ Numbers /\ Tables(table, next_page) /\ Contents(content, next_page)
        /\ 1 <= k /\ Loaded(table, content, k, addr_high) /\ Bare(table, addr_high)
    BY Zenon DEF IInv, CopyImage
  <1>2. /\ k <= image
        /\ content' = [content EXCEPT ![guestpa_to_hostpa(k)] = ImagePage(k - 1)]
        /\ guest_pa' = k + 1
        /\ table' = table /\ next_page' = next_page /\ last_page' = last_page
        /\ addr_high' = addr_high /\ image' = image /\ pc' = pc
    BY Zenon DEF CopyImage
  <1>3. /\ k \in Nat /\ image \in Nat /\ addr_high \in Nat /\ image <= addr_high
        /\ next_page \in Nat /\ \A g \in Nat : g <= addr_high => g \in GuestPages
    BY <1>1, NumbersAre, Zenon
  <1>4. k <= addr_high /\ k \in GuestPages /\ k >= 1
    BY <1>1, <1>2, <1>3
  <1>5. EntryIn(table, k).read
    BY <1>1, <1>4, Zenon DEF Loaded, Holds
  <1>6. content' = d
    BY <1>2, <1>5, HostPage, Zenon
  <1> HIDE DEF d
  <1>7. Contents(d, next_page) /\ Loaded(table, d, k + 1, addr_high)
    BY <1>1, <1>3, <1>4, PageCopied, Zenon DEF d
  <1>8. Tables(table, next_page)' /\ Contents(content, next_page)'
    BY <1>1, <1>2, <1>6, <1>7, Zenon
  <1>9. Loaded(table, content, guest_pa, addr_high)' /\ Bare(table, addr_high)'
    BY <1>1, <1>2, <1>6, <1>7, Zenon
  <1>10. Numbers'
    BY <1>1, <1>2 DEF Numbers
  <1>11. pc' = "image" /\ pc' # "memory" /\ pc' # "launched"
    BY <1>1, <1>2, Zenon
  <1>12. 1 <= guest_pa' /\ guest_pa' <= image' + 1
    BY <1>2, <1>3
  <1>. QED
    BY <1>8, <1>9, <1>10, <1>11, <1>12, Zenon DEF IInv

\* initialize_vmcs_device.
LEMMA AddVideoStep ==
  ASSUME IInv, AddVideo
  PROVE  IInv'
  <1> DEFINE m == map_ept_page(table, next_page, IoPage, 0, "PAGE_SYSTEM_IOMEMORY")
             k == guest_pa
  <1> HIDE DEF m
  <1>1. /\ pc = "image" /\ Numbers /\ Tables(table, next_page) /\ Contents(content, next_page)
        /\ 1 <= k /\ k <= image + 1 /\ Loaded(table, content, k, addr_high)
        /\ Bare(table, addr_high) /\ k > image
    BY Zenon DEF IInv, AddVideo
  <1>2. CASE Panic
    BY <1>2, PanicStep, Zenon
  <1>3. CASE ~Panic
    <2>1. /\ m.result = "ERROR_OK"
          /\ table' = m.table /\ next_page' = m.next /\ pc' = "launched"
          /\ content' = content /\ last_page' = last_page /\ addr_high' = addr_high
          /\ image' = image /\ guest_pa' = guest_pa
      BY <1>3, Zenon DEF AddVideo, m
    <2>2. m.result # "ASSERT"
      BY <2>1, Zenon
    <2>3. /\ next_page \in Nat /\ next_page # 0 /\ addr_high \in Nat /\ addr_high < IoPage
          /\ last_page \in 1 .. NrPages /\ k \in Nat /\ image \in Nat
      BY <1>1, NumbersAre, Zenon
    <2>4. /\ m.next \in Nat \ {0} /\ Tables(m.table, m.next) /\ Contents(content, m.next)
          /\ Loaded(m.table, content, k, addr_high) /\ Trapped(m.table, addr_high)
      BY <1>1, <2>2, <2>3, VideoAdded, Zenon DEF m
    <2>5. Tables(table, next_page)' /\ Contents(content, next_page)'
      BY <2>1, <2>4, Zenon
    <2>6. Loaded(table, content, guest_pa, addr_high)' /\ Trapped(table, addr_high)'
      BY <2>1, <2>4, Zenon
    <2>7. Numbers'
      BY <1>1, <2>1, <2>4, Zenon DEF Numbers
    <2>8. pc' = "launched" /\ pc' # "memory" /\ pc' # "image"
      BY <2>1, Zenon
    <2>9. 1 <= guest_pa' /\ guest_pa' = image' + 1 /\ guest_pa' <= image' + 1
      BY <1>1, <2>1, <2>3
    <2>. QED
      BY <2>5, <2>6, <2>7, <2>8, <2>9, Zenon DEF IInv
  <1>. QED
    BY <1>2, <1>3, Zenon

LEMMA StepIInv ==
  ASSUME IInv, [Next]_vars
  PROVE  IInv'
  <1>1. CASE AddPage
    BY <1>1, AddPageStep, Zenon
  <1>2. CASE CopyImage
    BY <1>2, CopyImageStep, Zenon
  <1>3. CASE AddVideo
    BY <1>3, AddVideoStep, Zenon
  <1>4. CASE UNCHANGED vars
    <2>1. /\ pc' = pc /\ table' = table /\ content' = content /\ next_page' = next_page
          /\ last_page' = last_page /\ addr_high' = addr_high /\ image' = image
          /\ guest_pa' = guest_pa
      BY <1>4, Zenon DEF vars
    <2>. QED
      BY <2>1, Zenon DEF IInv, Numbers
  <1>. QED
    BY <1>1, <1>2, <1>3, <1>4, Zenon DEF Next

\* The loops of setup_basic_physical_memory and initialize_vmcs_guest_image and
\* the video page keep the tables a tree whose leaves are the guest's frames.
THEOREM Invariance == Spec => []IInv
  <1>1. Init => IInv
    BY InitIInv, Zenon
  <1>2. IInv /\ [Next]_vars => IInv'
    BY StepIInv, Zenon
  <1>. QED
    BY <1>1, <1>2, PTL DEF Spec

\* However much memory the guest gets and however the host pages run out: no
\* two guest pages share a frame, and no frame is a table (vmx_ept.c 48-143).
THEOREM Private == Spec => []FramesPrivate
  <1>1. ASSUME IInv
        PROVE  FramesPrivate
    <2>1. \A g \in Backed : /\ g \in GuestPages /\ EntryIn(table, g).read
                            /\ EntryOf(g).page = Frame(table, g)
      BY EntryIs, Zenon DEF Backed, Frame
    <2>2. Grows(table, next_page)
      BY <1>1, Zenon DEF IInv, Tables
    <2>3. ASSUME NEW g \in Backed, NEW h \in Backed, g # h
          PROVE  EntryOf(g).page # EntryOf(h).page
      <3>1. /\ g \in GuestPages /\ EntryIn(table, g).read
            /\ h \in GuestPages /\ EntryIn(table, h).read
            /\ EntryOf(g).page = Frame(table, g) /\ EntryOf(h).page = Frame(table, h)
        BY <2>1, <2>3, Zenon
      <3>2. Frame(table, g) # Frame(table, h)
        BY <2>2, <2>3, <3>1, FramesApart, Zenon
      <3>. QED
        BY <3>1, <3>2, Zenon
    <2>4. ASSUME NEW g \in Backed, NEW h \in GuestPages
          PROVE  EntryOf(g).page \notin TablesOf(h) \cup {0}
      <3>1. Frame(table, g) \in Used(next_page)
        BY <2>1, <2>2, <2>4, FramesApart, Zenon
      <3>2. Frame(table, g) # 0
        BY <3>1 DEF Used
      <3>3. Frame(table, g) \notin TablesOf(h)
        BY <2>1, <2>2, <2>4, FramesAreNoTables, Zenon
      <3>. QED
        BY <2>1, <2>4, <3>2, <3>3, Zenon
    <2>. QED
      BY <2>3, <2>4, Zenon DEF FramesPrivate
  <1>. QED
    BY <1>1, Invariance, PTL

\* The guest finds its image and zeroes (vmx_ept.c 127-143, vmx_vmcs.c 558-578).
THEOREM ImageInPlace == Spec => []GuestSees
  <1>1. ASSUME IInv
        PROVE  GuestSees
    <2> SUFFICES ASSUME pc = "launched", NEW g \in 0 .. addr_high
                 PROVE  content[guestpa_to_hostpa(g)] =
                          IF g \in 1 .. image THEN ImagePage(g - 1) ELSE Zero
      BY Zenon DEF GuestSees
    <2> DEFINE x == IF 1 <= g /\ g < guest_pa THEN ImagePage(g - 1) ELSE Zero
    <2>1. Numbers /\ Loaded(table, content, guest_pa, addr_high) /\ guest_pa = image + 1
      BY <1>1, Zenon DEF IInv
    <2>2. /\ addr_high \in Nat /\ image \in Nat
          /\ \A h \in Nat : h <= addr_high => h \in GuestPages
      BY <2>1, NumbersAre, Zenon
    <2>3. g \in Nat /\ g <= addr_high
      BY <2>2
    <2>4. Holds(table, content, g, x)
      BY <2>1, <2>2, <2>3, Zenon DEF Loaded
    <2>5. (1 <= g /\ g < guest_pa) <=> g \in 1 .. image
      BY <2>1, <2>2, <2>3
    <2>6. x = IF g \in 1 .. image THEN ImagePage(g - 1) ELSE Zero
      BY <2>5, Zenon
    <2> HIDE DEF x
    <2>. QED
      BY <2>4, <2>6, HostPage, Zenon DEF Holds
  <1>. QED
    BY <1>1, Invariance, PTL

\* Pages the allocator did not hand out keep what they hold, and so does host
\* page 0, to which an address without a frame would translate.
THEOREM RestUntouched == Spec => []HostUntouched
  <1>1. ASSUME IInv
        PROVE  HostUntouched
    <2>1. Numbers /\ Tables(table, next_page) /\ Contents(content, next_page)
      BY <1>1, Zenon DEF IInv
    <2>2. \A p \in next_page .. NrPages : p \in 1 .. NrPages /\ p >= next_page
      BY <2>1, NumbersAre
    <2>. QED
      BY <2>1, <2>2, Zenon DEF HostUntouched, Tables, Contents
  <1>. QED
    BY <1>1, Invariance, PTL

\* The guest's accesses to the video page trap, and no others do (vmx_ept.c
\* 116-124 with 35-39).
THEOREM OnlyVideoTraps == Spec => []VideoTrapped
  <1>1. ASSUME IInv
        PROVE  VideoTrapped
    <2> SUFFICES ASSUME pc = "launched"
                 PROVE  /\ {g \in GuestPages : EntryOf(g).write /\ ~EntryOf(g).read} = {IoPage}
                        /\ guestpa_to_hostpa(IoPage) = Nowhere
      BY Zenon DEF VideoTrapped
    <2>1. /\ Numbers /\ Loaded(table, content, guest_pa, addr_high)
          /\ Trapped(table, addr_high)
      BY <1>1, Zenon DEF IInv
    <2>2. addr_high \in Nat /\ IoPage \in GuestPages
      BY <2>1, NumbersAre, Zenon
    <2>3. EntryIn(table, IoPage) = IoEntry
      BY <2>1, Zenon DEF Trapped
    <2>4. ASSUME NEW g \in GuestPages, g # IoPage
          PROVE  EntryIn(table, g).read \/ EntryIn(table, g) = NoEntry
      <3>1. g <= addr_high \/ g > addr_high
        BY <2>2, Digits
      <3>. QED
        BY <2>1, <2>4, <3>1, Zenon DEF Loaded, Holds, Trapped
    <2>5. ~NoEntry.write
      BY Zenon DEF NoEntry
    <2>6. \A g \in GuestPages : (EntryOf(g).write /\ ~EntryOf(g).read) <=> g = IoPage
      BY <2>3, <2>4, <2>5, EntryIs, Entries, Zenon
    <2>7. guestpa_to_hostpa(IoPage) = Nowhere
      BY <2>3, HostPage, Zenon
    <2>. QED
      BY <2>2, <2>6, <2>7, Zenon
  <1>. QED
    BY <1>1, Invariance, PTL
=============================================================================
