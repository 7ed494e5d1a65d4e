---------------------------- MODULE VmExit_proofs ----------------------------
(***************************************************************************)
(* The decoder reads every move an assembler writes for the video page; no *)
(* exit of the guest panics the monitor and no entry is refused; every     *)
(* emulated instruction has its own effect; and the guest's tables map     *)
(* what it uses.  For all registers, immediates and sizes of the page.     *)
(***************************************************************************)
EXTENDS VmExit, TLAPS

\* A concatenation, position by position.
LEMMA Joined ==
  ASSUME NEW s \in Seq(Int), NEW t \in Seq(Int)
  PROVE  /\ s \o t \in Seq(Int)
         /\ Len(s \o t) = Len(s) + Len(t)
         /\ \A i \in 1 .. Len(s) : (s \o t)[i] = s[i]
         /\ \A i \in 1 .. Len(t) : (s \o t)[Len(s) + i] = t[i]
  <1>1. s \o t \in Seq(Int) /\ Len(s \o t) = Len(s) + Len(t)
    OBVIOUS
  <1>2. \A i \in 1 .. Len(s) : (s \o t)[i] = s[i]
    OBVIOUS
  <1>3. ASSUME NEW i \in 1 .. Len(t) PROVE (s \o t)[Len(s) + i] = t[i]
    <2>1. /\ Len(s) + i \in 1 .. Len(s) + Len(t) /\ ~(Len(s) + i <= Len(s))
          /\ (Len(s) + i) - Len(s) = i
      OBVIOUS
    <2>2. \A j \in 1 .. Len(s) + Len(t) :
            (s \o t)[j] = IF j <= Len(s) THEN s[j] ELSE t[j - Len(s)]
      OBVIOUS
    <2>. QED
      BY <2>1, <2>2, Zenon
  <1>. QED
    BY <1>1, <1>2, <1>3, Zenon

\* Two sequences with the same elements are the same.
LEMMA SameSequence ==
  ASSUME NEW s \in Seq(Int), NEW t \in Seq(Int), Len(s) = Len(t),
         \A i \in 1 .. Len(s) : s[i] = t[i]
  PROVE  s = t
  OBVIOUS

\* What follows the first n elements, up to the end, of a concatenation.
LEMMA Rest ==
  ASSUME NEW s \in Seq(Int), NEW t \in Seq(Int)
  PROVE  SubSeq(s \o t, Len(s) + 1, Len(s) + Len(t)) = t
  <1> DEFINE u == s \o t
             v == SubSeq(u, Len(s) + 1, Len(s) + Len(t))
  <1>1. /\ u \in Seq(Int) /\ Len(u) = Len(s) + Len(t)
        /\ \A i \in 1 .. Len(t) : u[Len(s) + i] = t[i]
    BY Joined, Zenon
  <1> HIDE DEF u
  <1>2. /\ v \in Seq(Int) /\ Len(v) = Len(t)
        /\ \A i \in 1 .. Len(t) : v[i] = u[Len(s) + i]
    BY <1>1
  <1> HIDE DEF v
  <1>3. \A i \in 1 .. Len(t) : v[i] = t[i]
    BY <1>1, <1>2, Zenon
  <1>4. v = t
    BY <1>2, <1>3, SameSequence, Zenon
  <1>. QED
    BY <1>4, Zenon DEF u, v

\* An encoded instruction, and where its pieces are when the first is a, the
\* first two b and the first three c long.
Assembled(s, p, q, o, m, d) == s = p \o q \o o \o <<m>> \o d
Lengths(p, q, o, a, b, c) == a = Len(p) /\ b = Len(p) + Len(q) /\ c = Len(p) + Len(q) + Len(o)
Placed(s, p, q, o, m, d, a, b, c) ==
  /\ s \in Seq(Int) /\ a \in Nat /\ b \in Nat /\ c \in Nat
  /\ Len(s) = c + 1 + Len(d)
  /\ \A i \in 1 .. a : s[i] = p[i]
  /\ \A i \in 1 .. Len(q) : s[a + i] = q[i]
  /\ \A i \in 1 .. Len(o) : s[b + i] = o[i]
  /\ s[c + 1] = m
  /\ SubSeq(s, c + 2, c + 1 + Len(d)) = d

\* The five parts of an encoding, each at its place in the whole.
LEMMA Pieces ==
  ASSUME NEW p \in Seq(Int), NEW q \in Seq(Int), NEW o \in Seq(Int), NEW m \in Int,
         NEW d \in Seq(Int), NEW s, Assembled(s, p, q, o, m, d),
         NEW a, NEW b, NEW c, Lengths(p, q, o, a, b, c)
  PROVE  Placed(s, p, q, o, m, d, a, b, c)
  <1> DEFINE x == p \o q
             y == x \o o
             e == <<m>>
             z == y \o e
  <1>0. e \in Seq(Int) /\ Len(e) = 1 /\ e[1] = m
    OBVIOUS
  <1>1. /\ x \in Seq(Int) /\ Len(x) = Len(p) + Len(q)
        /\ \A i \in 1 .. Len(p) : x[i] = p[i]
        /\ \A i \in 1 .. Len(q) : x[Len(p) + i] = q[i]
    BY Joined, Zenon
  <1>2. /\ y \in Seq(Int) /\ Len(y) = Len(x) + Len(o)
        /\ \A i \in 1 .. Len(x) : y[i] = x[i]
        /\ \A i \in 1 .. Len(o) : y[Len(x) + i] = o[i]
    <2> HIDE DEF x
    <2>. QED
      BY <1>1, Joined, Zenon
  <1>3. /\ z \in Seq(Int) /\ Len(z) = Len(y) + Len(e)
        /\ \A i \in 1 .. Len(y) : z[i] = y[i]
        /\ \A i \in 1 .. Len(e) : z[Len(y) + i] = e[i]
    <2> HIDE DEF y, e
    <2>. QED
      BY <1>0, <1>2, Joined, Zenon
  <1>4. s = z \o d
    BY Zenon DEF Assembled
  <1> HIDE DEF x, y, z, e
  <1>5. /\ s \in Seq(Int) /\ Len(s) = Len(z) + Len(d)
        /\ \A i \in 1 .. Len(z) : s[i] = z[i]
    <2> DEFINE w == z \o d
    <2>1. /\ w \in Seq(Int) /\ Len(w) = Len(z) + Len(d)
          /\ \A i \in 1 .. Len(z) : w[i] = z[i]
      BY <1>3, Joined, Zenon
    <2>2. s = w
      BY <1>4
    <2> HIDE DEF w
    <2>. QED
      BY <2>1, <2>2, Zenon
  <1>6. SubSeq(s, Len(z) + 1, Len(z) + Len(d)) = d
    BY <1>3, <1>4, Rest, Zenon
  <1>7. /\ Len(p) \in Nat /\ Len(q) \in Nat /\ Len(o) \in Nat
        /\ a \in Nat /\ b \in Nat /\ c \in Nat
        /\ Len(x) = b /\ Len(y) = c /\ Len(z) = c + 1 /\ Len(p) = a
        /\ b = a + Len(q) /\ c = b + Len(o)
    <2>1. Len(p) \in Nat /\ Len(q) \in Nat /\ Len(o) \in Nat
      OBVIOUS
    <2>2. a \in Nat /\ b \in Nat /\ c \in Nat
      BY <2>1 DEF Lengths
    <2>3. Len(x) = Len(p) + Len(q) /\ Len(y) = Len(x) + Len(o) /\ Len(z) = Len(y) + 1
      BY <1>0, <1>1, <1>2, <1>3, Zenon
    <2>. QED
      BY <2>1, <2>2, <2>3, Zenon DEF Lengths
  <1>8. c + 1 + 1 = c + 2
    BY <1>7
  <1>9. ASSUME NEW i \in 1 .. a PROVE s[i] = p[i]
    <2>1. i \in 1 .. Len(p) /\ i \in 1 .. Len(x) /\ i \in 1 .. Len(y) /\ i \in 1 .. Len(z)
      BY <1>7
    <2>. QED
      BY <1>1, <1>2, <1>3, <1>5, <2>1, Zenon
  <1>10. ASSUME NEW i \in 1 .. Len(q) PROVE s[a + i] = q[i]
    <2>1. a + i \in 1 .. Len(x) /\ a + i \in 1 .. Len(y) /\ a + i \in 1 .. Len(z)
      BY <1>7
    <2>. QED
      <3>1. x[a + i] = q[i]
        BY <1>1, <1>7, Zenon
      <3>. QED
        BY <1>2, <1>3, <1>5, <2>1, <3>1, Zenon
  <1>11. ASSUME NEW i \in 1 .. Len(o) PROVE s[b + i] = o[i]
    <2>1. b + i \in 1 .. Len(y) /\ b + i \in 1 .. Len(z)
      BY <1>7
    <2>2. y[b + i] = o[i]
      BY <1>2, <1>7, Zenon
    <2>. QED
      BY <1>3, <1>5, <2>1, <2>2, Zenon
  <1>12. s[c + 1] = m
    <2>1. c + 1 \in 1 .. Len(z) /\ 1 \in 1 .. Len(e)
      BY <1>0, <1>7
    <2>2. s[c + 1] = z[c + 1]
      BY <1>5, <2>1, Zenon
    <2>3. z[c + 1] = e[1]
      BY <1>3, <1>7, <2>1, Zenon
    <2>. QED
      BY <1>0, <2>2, <2>3, Zenon
  <1>. QED
    BY <1>5, <1>6, <1>7, <1>8, <1>9, <1>10, <1>11, <1>12, Zenon DEF Placed

\* The position of the opcode: the first byte that is neither a prefix nor REX.
LEMMA Skips ==
  ASSUME NEW s \in Seq(Int), NEW n \in Nat, n < Len(s), s[n + 1] \notin Prefixes,
         \A i \in 1 .. n : s[i] \in Prefixes
  PROVE  SkipPrefixes(s) = n
  <1> DEFINE k == SkipPrefixes(s)
             P(j) == s[j + 1] \notin Prefixes /\ \A i \in 1 .. j : s[i] \in Prefixes
  <1>1. n \in 0 .. Len(s) - 1 /\ P(n)
    OBVIOUS
  <1>2. k \in 0 .. Len(s) - 1 /\ P(k)
    BY <1>1, Zenon DEF SkipPrefixes
  <1> HIDE DEF k
  <1>3. ~(k < n)
    <2>1. k < n => k + 1 \in 1 .. n
      BY <1>2
    <2>. QED
      BY <1>1, <1>2, <2>1, Zenon
  <1>4. ~(n < k)
    <2>1. n < k => n + 1 \in 1 .. k
      BY <1>2
    <2>. QED
      BY <1>1, <1>2, <2>1, Zenon
  <1>. QED
    BY <1>2, <1>3, <1>4 DEF k

\* The ModRM and the REX byte of two registers, and what the decoder reads off them.
ModRm(m, reg, base) == m = 8 * (reg % 8) + (base % 8)
RexByte(rex, w, reg, base) ==
  rex = 64 + w + (IF reg >= 8 THEN 4 ELSE 0) + (IF base >= 8 THEN 1 ELSE 0)
ReadOff(m, rex, reg, base, w) ==
  /\ m \in Int
  /\ ((m \div 8) % 8) + 8 * RexBit(rex, 4) = reg
  /\ (m % 8) + 8 * RexBit(rex, 1) = base
  /\ RexBit(rex, 8) = IF w = 8 THEN 1 ELSE 0

RegisterBytes(m, rex, reg, base, w) ==
  /\ reg \in 0 .. 15 /\ base \in 0 .. 15 /\ w \in {0, 8}
  /\ ModRm(m, reg, base) /\ RexByte(rex, w, reg, base)
RegistersRead(m, rex, reg, base, w) == rex \in 64 .. 79 /\ ReadOff(m, rex, reg, base, w)

\* ModRM and REX give back the registers and the W bit they were made of.
LEMMA RegisterBits ==
  ASSUME NEW m, NEW rex, NEW reg, NEW base, NEW w, RegisterBytes(m, rex, reg, base, w)
  PROVE  RegistersRead(m, rex, reg, base, w)
  <1>0. /\ reg \in 0 .. 15 /\ base \in 0 .. 15 /\ w \in {0, 8}
        /\ ModRm(m, reg, base) /\ RexByte(rex, w, reg, base)
    BY Zenon DEF RegisterBytes
  <1> DEFINE h == reg % 8
             l == base % 8
             r == IF reg >= 8 THEN 4 ELSE 0
             b == IF base >= 8 THEN 1 ELSE 0
  <1>1. h \in 0 .. 7 /\ reg = h + 2 * r /\ l \in 0 .. 7 /\ base = l + 8 * b
    BY <1>0
  <1>2. r \in {0, 4} /\ b \in {0, 1}
    OBVIOUS
  <1>3. m = 8 * h + l /\ rex = 64 + w + r + b
    BY <1>0, Zenon DEF ModRm, RexByte
  <1> HIDE DEF h, l, r, b
  <1>4. (m \div 8) % 8 = h /\ m % 8 = l /\ m \in Int
    <2>1. m \in Int /\ m \div 8 = h /\ m % 8 = l /\ h % 8 = h
      BY <1>1, <1>3
    <2>. QED
      BY <2>1, Zenon
  <1>5. rex \in 64 .. 79
    BY <1>0, <1>2, <1>3
  <1>6. RexBit(rex, 4) = r \div 4 /\ RexBit(rex, 1) = b /\ RexBit(rex, 8) = w \div 8
    BY <1>0, <1>2, <1>3 DEF RexBit
  <1>7. h + 8 * (r \div 4) = reg /\ l + 8 * b = base
    BY <1>1, <1>2
  <1>8. w \div 8 = IF w = 8 THEN 1 ELSE 0
    BY <1>0
  <1>. QED
    BY <1>4, <1>5, <1>6, <1>7, <1>8, Zenon DEF ReadOff, RegistersRead

\* Without REX.
LEMMA RegisterBitsLow ==
  ASSUME NEW reg \in 0 .. 7, NEW base \in 0 .. 7, NEW m, ModRm(m, reg, base)
  PROVE  ReadOff(m, 0, reg, base, 0)
  <1>1. reg % 8 = reg /\ base % 8 = base
    OBVIOUS
  <1>2. m = 8 * reg + base
    BY <1>1, Zenon DEF ModRm
  <1>3. (m \div 8) % 8 = reg /\ m % 8 = base /\ m \in Int
    BY <1>2
  <1>4. RexBit(0, 4) = 0 /\ RexBit(0, 1) = 0 /\ RexBit(0, 8) = 0
    BY DEF RexBit
  <1>. QED
    BY <1>3, <1>4 DEF ReadOff

\* The context the decoder returns for an opcode of the table.
Context(o, length, reg, base, size, value) ==
  [operand_hint |-> Hint(o), instruction_length |-> length, reg_index |-> reg,
   rm_index |-> base, access_size |-> size, immediate |-> value]

\* The values the decoder reads behind n prefixes, by name.
Overrided(s, n) == \E i \in 1 .. n : s[i] = OPERAND_SIZE
RexRead(s, n, rex, at) ==
  \/ s[n + 1] \in 64 .. 79 /\ rex = s[n + 1] /\ at = n + 2
  \/ s[n + 1] \notin 64 .. 79 /\ rex = 0 /\ at = n + 1
FieldsRead(s, n, rex, at, o, m, size, imm, reg, base, value) ==
  /\ RexRead(s, n, rex, at)
  /\ o = s[at] /\ m = s[at + 1] /\ Hint(o) # "none"
  /\ size = AccessSize(o, Overrided(s, n), rex)
  /\ imm = ImmediateSize(o, size)
  /\ reg = ((m \div 8) % 8) + 8 * RexBit(rex, 4)
  /\ base = (m % 8) + 8 * RexBit(rex, 1)
  /\ value = Value(SubSeq(s, at + 2, at + 1 + imm))

FieldsGiven(s, n, at, o, size, imm, reg, base, value) ==
  DecodeOpcode(s, n) = Context(o, at + 1 + imm, reg, base, size, value)

\* The second half of the decoder, once the prefixes are skipped.
LEMMA Opcode ==
  ASSUME NEW s, NEW n, NEW rex, NEW at, NEW o, NEW m, NEW size, NEW imm,
         NEW reg, NEW base, NEW value,
         FieldsRead(s, n, rex, at, o, m, size, imm, reg, base, value)
  PROVE  FieldsGiven(s, n, at, o, size, imm, reg, base, value)
  <1>0. /\ o = s[at] /\ m = s[at + 1] /\ Hint(o) # "none"
        /\ size = AccessSize(o, \E i \in 1 .. n : s[i] = OPERAND_SIZE, rex)
        /\ imm = ImmediateSize(o, size)
        /\ reg = ((m \div 8) % 8) + 8 * RexBit(rex, 4)
        /\ base = (m % 8) + 8 * RexBit(rex, 1)
        /\ value = Value(SubSeq(s, at + 2, at + 1 + imm))
    BY Zenon DEF FieldsRead, Overrided
  <1>1. CASE s[n + 1] \in 64 .. 79 /\ rex = s[n + 1] /\ at = n + 2
    BY <1>0, <1>1, ZenonT(30) DEF DecodeOpcode, Context, FieldsGiven
  <1>2. CASE s[n + 1] \notin 64 .. 79 /\ rex = 0 /\ at = n + 1
    BY <1>0, <1>2, Zenon DEF DecodeOpcode, Context, FieldsGiven
  <1>. QED
    BY <1>1, <1>2, Zenon DEF FieldsRead, RexRead

\* The moves that take no escape byte, and those that do.
Plain(move) ==
  /\ move.op \in {"load", "store", "immediate"} /\ move.size \in {1, 2, 4, 8}
  /\ move.reg \in 0 .. 15 /\ move.base \in 0 .. 15 /\ move.imm \in Seq(Int)
  /\ move.op = "load" => move.size \in {4, 8}
  /\ move.op = "immediate" =>
       move.reg = 0 /\ Len(move.imm) = IF move.size = 8 THEN 4 ELSE move.size
  /\ move.op # "immediate" => move.imm = <<>>
Escaped(move) ==
  /\ move.op = "movzx" /\ move.size \in {1, 2}
  /\ move.reg \in 0 .. 7 /\ move.base \in 0 .. 7 /\ move.imm = <<>>

\* What the decoder should find.
HintOf(op) ==
  CASE op \in {"movzx", "load"} -> "MR"
    [] op = "store" -> "RM"
    [] op = "immediate" -> "IM"
Meaning(move) ==
  [operand_hint |-> HintOf(move.op), instruction_length |-> Len(Encode(move)),
   reg_index |-> move.reg, rm_index |-> move.base, access_size |-> move.size,
   immediate |-> Value(move.imm)]

\* The opcodes of the plain moves.
OpcodeOf(move) ==
  IF move.op = "load" THEN 139
  ELSE IF move.op = "store" THEN IF move.size = 1 THEN 136 ELSE 137
  ELSE IF move.size = 1 THEN 198 ELSE 199

OpcodeFits(move, o) ==
  /\ o \in Int /\ o \notin Prefixes /\ o \notin 64 .. 79
  /\ Hint(o) = HintOf(move.op) /\ Hint(o) # "none"
  /\ o \in {182, 198, 138, 136} <=> move.size = 1
  /\ o # 183

\* The opcodes of the plain moves are in the decoder's table, with their hints.
LEMMA OpcodeFacts ==
  ASSUME NEW move, Plain(move), NEW o, o = OpcodeOf(move)
  PROVE  OpcodeFits(move, o)
  <1>1. CASE move.op = "load"
    <2>1. o = 139 /\ move.size # 1
      BY <1>1 DEF OpcodeOf, Plain
    <2>. QED
      BY <1>1, <2>1 DEF OpcodeFits, Hint, HintOf, Prefixes
  <1>2. CASE move.op = "store" /\ move.size = 1
    <2>1. o = 136
      BY <1>2 DEF OpcodeOf, Plain
    <2>. QED
      BY <1>2, <2>1 DEF OpcodeFits, Hint, HintOf, Prefixes
  <1>3. CASE move.op = "store" /\ move.size # 1
    <2>1. o = 137
      BY <1>3 DEF OpcodeOf, Plain
    <2>. QED
      BY <1>3, <2>1 DEF OpcodeFits, Hint, HintOf, Prefixes
  <1>4. CASE move.op = "immediate" /\ move.size = 1
    <2>1. o = 198
      BY <1>4 DEF OpcodeOf, Plain
    <2>. QED
      BY <1>4, <2>1 DEF OpcodeFits, Hint, HintOf, Prefixes
  <1>5. CASE move.op = "immediate" /\ move.size # 1
    <2>1. o = 199
      BY <1>5 DEF OpcodeOf, Plain
    <2>. QED
      BY <1>5, <2>1 DEF OpcodeFits, Hint, HintOf, Prefixes
  <1>6. move.op = "load" \/ move.op = "store" \/ move.op = "immediate"
    BY Zenon DEF Plain
  <1>. QED
    BY <1>1, <1>2, <1>3, <1>4, <1>5, <1>6, Zenon

\* The bytes that give a size, and the size the decoder arrives at.
SizeBytes(move, s, n, rex) ==
  /\ Overrided(s, n) <=> move.size = 2
  /\ RexBit(rex, 8) = IF move.size = 8 THEN 1 ELSE 0
SizeRead(move, o, s, n, rex) ==
  /\ AccessSize(o, Overrided(s, n), rex) = move.size
  /\ ImmediateSize(o, move.size) = Len(move.imm)

\* The access size of a plain move, from the prefix, REX.W and the opcode.
LEMMA SizeFacts ==
  ASSUME NEW move, Plain(move), NEW s, NEW n, NEW rex, SizeBytes(move, s, n, rex)
  PROVE  SizeRead(move, OpcodeOf(move), s, n, rex)
  <1> DEFINE o == OpcodeOf(move)
             over == Overrided(s, n)
  <1>0. over <=> move.size = 2
    BY Zenon DEF SizeBytes
  <1>9. RexBit(rex, 8) = IF move.size = 8 THEN 1 ELSE 0
    BY Zenon DEF SizeBytes
  <1> HIDE DEF over
  <1>1. /\ o \in {182, 198, 138, 136} <=> move.size = 1
        /\ o # 183 /\ Hint(o) = HintOf(move.op)
    <2>1. OpcodeFits(move, o)
      BY OpcodeFacts, Zenon
    <2> HIDE DEF o
    <2>. QED
      BY <2>1, Zenon DEF OpcodeFits
  <1> HIDE DEF o
  <1>2. move.size \in {1, 2, 4, 8}
    BY Zenon DEF Plain
  <1>3. AccessSize(o, over, rex) = move.size
    <2>1. CASE move.size = 1
      BY <1>1, <2>1, Zenon DEF AccessSize
    <2>2. CASE move.size # 1
      <3>1. AccessSize(o, over, rex) = IF over THEN 2 ELSE IF RexBit(rex, 8) = 1 THEN 8 ELSE 4
        BY <1>1, <2>2, Zenon DEF AccessSize
      <3>2. CASE move.size = 2
        BY <1>0, <3>1, <3>2, Zenon
      <3>3. CASE move.size = 8
        <4>1. RexBit(rex, 8) = 1 /\ ~over
          BY <1>0, <1>9, <3>3
        <4>. QED
          BY <3>1, <3>3, <4>1, Zenon
      <3>4. CASE move.size = 4
        <4>1. RexBit(rex, 8) # 1 /\ ~over
          BY <1>0, <1>9, <3>4
        <4>. QED
          BY <3>1, <3>4, <4>1, Zenon
      <3>. QED
        BY <1>2, <2>2, <3>2, <3>3, <3>4, Zenon
    <2>. QED
      BY <2>1, <2>2, Zenon
  <1>4. ImmediateSize(o, move.size) = Len(move.imm)
    <2>1. CASE move.op = "immediate"
      <3>1. Hint(o) = "IM"
        BY <1>1, <2>1 DEF HintOf
      <3>. QED
        BY <2>1, <3>1, Zenon DEF ImmediateSize, Plain
    <2>2. CASE move.op # "immediate"
      <3>1. Hint(o) # "IM" /\ move.imm = <<>>
        BY <1>1, <2>2 DEF HintOf, Plain
      <3>2. Len(<<>>) = 0
        OBVIOUS
      <3>. QED
        BY <3>1, <3>2, Zenon DEF ImmediateSize
    <2>. QED
      BY <2>1, <2>2, Zenon
  <1>. QED
    BY <1>3, <1>4, Zenon DEF SizeRead, o, over

\* The decoder finds what the assembler wrote: moves without an escape byte.
LEMMA DecodesPlain ==
  ASSUME NEW move, Plain(move)
  PROVE  decode_x86_64_instruction(Encode(move)) = Meaning(move)
  <1> DEFINE s == Encode(move)
             reg == move.reg
             base == move.base
             w == IF move.size = 8 THEN 8 ELSE 0
             Rex == 64 + w + (IF reg >= 8 THEN 4 ELSE 0) + (IF base >= 8 THEN 1 ELSE 0)
             needs == Rex # 64 \/ (move.op = "store" /\ move.size = 1 /\ reg \in 4 .. 7)
             p == IF move.size = 2 /\ move.op # "movzx" THEN <<OPERAND_SIZE>> ELSE <<>>
             q == IF needs THEN <<Rex>> ELSE <<>>
             o == OpcodeOf(move)
             e == CASE move.op = "movzx" -> IF move.size = 1 THEN <<15, 182>> ELSE <<15, 183>>
                    [] move.op = "load" -> <<139>>
                    [] move.op = "store" -> IF move.size = 1 THEN <<136>> ELSE <<137>>
                    [] move.op = "immediate" -> IF move.size = 1 THEN <<198>> ELSE <<199>>
             m == 8 * (reg % 8) + (base % 8)
             d == move.imm
             a == Len(p)
             b == Len(p) + Len(q)
             c == Len(p) + Len(q) + Len(e)
             rex == IF needs THEN Rex ELSE 0
             imm == Len(d)
  <1>0. /\ move.op \in {"load", "store", "immediate"} /\ move.size \in {1, 2, 4, 8}
        /\ reg \in 0 .. 15 /\ base \in 0 .. 15 /\ d \in Seq(Int)
    BY Zenon DEF Plain
  <1>1. Assembled(s, p, q, e, m, d)
    BY ZenonT(30) DEF Encode, Assembled
  <1>a. e = <<o>>
    BY <1>0, Zenon DEF OpcodeOf
  <1>2. OpcodeFits(move, o)
    BY OpcodeFacts, Zenon
  <1>3. o \in Int /\ o \notin Prefixes /\ o \notin 64 .. 79 /\ Hint(o) = HintOf(move.op) /\ Hint(o) # "none"
    BY <1>2, Zenon DEF OpcodeFits
  <1>4. w \in {0, 8} /\ (w = 8 <=> move.size = 8)
    OBVIOUS
  <1> HIDE DEF s, w, o, reg, base
  <1>5. ModRm(m, reg, base) /\ RexByte(Rex, w, reg, base) /\ (~needs => Rex = 64)
    BY Zenon DEF ModRm, RexByte
  <1> HIDE DEF m, Rex, needs
  <1>6. Rex \in 64 .. 79 /\ ReadOff(m, Rex, reg, base, w)
    <2>1. RegisterBytes(m, Rex, reg, base, w)
      BY <1>0, <1>4, <1>5, Zenon DEF RegisterBytes
    <2>2. RegistersRead(m, Rex, reg, base, w)
      BY <2>1, RegisterBits, Zenon
    <2>. QED
      BY <2>2, Zenon DEF RegistersRead
  <1>7. ReadOff(m, rex, reg, base, w)
    <2>1. CASE needs
      BY <1>6, <2>1, Zenon
    <2>2. CASE ~needs
      <3>1. reg \in 0 .. 7 /\ base \in 0 .. 7 /\ w = 0
        BY <1>0, <1>4, <1>5, <2>2 DEF RexByte
      <3>2. ReadOff(m, 0, reg, base, 0)
        BY <1>5, <3>1, RegisterBitsLow, Zenon
      <3>. QED
        BY <2>2, <3>1, <3>2, Zenon
    <2>. QED
      BY <2>1, <2>2, Zenon
  <1>8. /\ m \in Int
        /\ ((m \div 8) % 8) + 8 * RexBit(rex, 4) = reg
        /\ (m % 8) + 8 * RexBit(rex, 1) = base
        /\ RexBit(rex, 8) = IF move.size = 8 THEN 1 ELSE 0
    BY <1>4, <1>7, Zenon DEF ReadOff
  <1>9. /\ p \in Seq(Int) /\ Len(p) = (IF move.size = 2 THEN 1 ELSE 0)
        /\ \A i \in 1 .. Len(p) : p[i] = OPERAND_SIZE
    <2>1. p = IF move.size = 2 THEN <<OPERAND_SIZE>> ELSE <<>>
      BY <1>0, Zenon
    <2> HIDE DEF p
    <2>. QED
      BY <2>1 DEF OPERAND_SIZE
  <1>10. /\ q \in Seq(Int) /\ Len(q) = (IF needs THEN 1 ELSE 0) /\ (needs => q[1] = Rex)
    BY <1>6
  <1>11. e \in Seq(Int) /\ Len(e) = 1 /\ e[1] = o
    <2> HIDE DEF e
    <2>. QED
      BY <1>3, <1>a
  <1> HIDE DEF p, q, d, e
  <1>12. Placed(s, p, q, e, m, d, a, b, c)
    <2>1. m \in Int /\ d \in Seq(Int)
      BY <1>0, <1>8, Zenon DEF d
    <2>2. Lengths(p, q, e, a, b, c)
      BY Zenon DEF Lengths
    <2> HIDE DEF a, b, c
    <2>. QED
      BY <1>1, <1>9, <1>10, <1>11, <2>1, <2>2, Pieces, Zenon
  <1>13. /\ a = (IF move.size = 2 THEN 1 ELSE 0) /\ b = a + (IF needs THEN 1 ELSE 0)
         /\ c = b + 1 /\ imm \in Nat
    <2>1. imm \in Nat
      BY <1>0 DEF d
    <2>. QED
      BY <1>9, <1>10, <1>11, <2>1, Zenon
  <1> HIDE DEF a, b, c, rex, imm
  <1>14. /\ s \in Seq(Int) /\ a \in Nat /\ b \in Nat /\ c \in Nat
         /\ Len(s) = c + 1 + imm
         /\ \A i \in 1 .. a : s[i] = OPERAND_SIZE
         /\ needs => s[a + 1] = Rex
         /\ s[b + 1] = o
         /\ s[c + 1] = m
         /\ SubSeq(s, c + 2, c + 1 + imm) = d
    <2>1. /\ s \in Seq(Int) /\ a \in Nat /\ b \in Nat /\ c \in Nat
          /\ Len(s) = c + 1 + imm
          /\ \A i \in 1 .. a : s[i] = p[i]
          /\ \A i \in 1 .. Len(q) : s[a + i] = q[i]
          /\ \A i \in 1 .. Len(e) : s[b + i] = e[i]
          /\ s[c + 1] = m
          /\ SubSeq(s, c + 2, c + 1 + imm) = d
      BY <1>12, Zenon DEF Placed, imm
    <2>2. \A i \in 1 .. a : s[i] = OPERAND_SIZE
      BY <1>9, <2>1, Zenon DEF a
    <2>3. needs => s[a + 1] = Rex
      <3>1. needs => 1 \in 1 .. Len(q)
        BY <1>10
      <3>. QED
        BY <1>10, <2>1, <3>1, Zenon
    <2>4. s[b + 1] = o
      <3>1. 1 \in 1 .. Len(e)
        BY <1>11
      <3>. QED
        BY <1>11, <2>1, <3>1, Zenon
    <2>. QED
      BY <2>1, <2>2, <2>3, <2>4, Zenon
  <1>15. OPERAND_SIZE \in Prefixes /\ \A i \in 64 .. 79 : i \notin Prefixes
    BY DEF OPERAND_SIZE, Prefixes
  <1>16. RexRead(s, a, rex, c)
    <2>1. CASE needs
      <3>1. c = a + 2
        BY <1>13, <1>14, <2>1
      <3>. QED
        BY <1>6, <1>14, <2>1, <3>1, Zenon DEF rex, RexRead
    <2>2. CASE ~needs
      <3>1. c = a + 1 /\ b = a
        BY <1>13, <1>14, <2>2
      <3>. QED
        BY <1>3, <1>14, <2>2, <3>1, Zenon DEF rex, RexRead
    <2>. QED
      BY <2>1, <2>2, Zenon
  <1>17. SkipPrefixes(s) = a
    <2>1. s[a + 1] \notin Prefixes
      <3>1. CASE needs
        BY <1>6, <1>14, <1>15, <3>1, Zenon
      <3>2. CASE ~needs
        <4>1. b = a
          BY <1>13, <1>14, <3>2
        <4>. QED
          BY <1>3, <1>14, <4>1, Zenon
      <3>. QED
        BY <3>1, <3>2, Zenon
    <2>2. a < Len(s)
      BY <1>13, <1>14
    <2>3. \A i \in 1 .. a : s[i] \in Prefixes
      BY <1>14, <1>15, Zenon
    <2>. QED
      BY <1>14, <2>1, <2>2, <2>3, Skips, Zenon
  <1>18. SizeBytes(move, s, a, rex)
    <2>1. move.size = 2 => 1 \in 1 .. a
      BY <1>13
    <2>2. move.size # 2 => \A i \in 1 .. a : FALSE
      BY <1>13
    <2>3. Overrided(s, a) <=> move.size = 2
      BY <1>14, <2>1, <2>2, Zenon DEF Overrided
    <2>. QED
      BY <1>8, <2>3, Zenon DEF SizeBytes
  <1>19. SizeRead(move, o, s, a, rex)
    BY <1>18, SizeFacts, Zenon DEF o
  <1>20. DecodeOpcode(s, a) = Context(o, c + 1 + imm, reg, base, move.size, Value(d))
    <2>1. s[c] = o
      BY <1>13, <1>14, Zenon
    <2>2. /\ AccessSize(o, Overrided(s, a), rex) = move.size
          /\ ImmediateSize(o, move.size) = imm
      BY <1>19, Zenon DEF SizeRead, imm, d
    <2>3. FieldsRead(s, a, rex, c, o, m, move.size, imm, reg, base, Value(d))
      BY <1>3, <1>8, <1>14, <1>16, <2>1, <2>2, Zenon DEF FieldsRead
    <2>4. FieldsGiven(s, a, c, o, move.size, imm, reg, base, Value(d))
      BY <2>3, Opcode, Zenon
    <2>. QED
      BY <2>4, Zenon DEF FieldsGiven
  <1>21. decode_x86_64_instruction(s) = Context(o, Len(s), reg, base, move.size, Value(d))
    BY <1>14, <1>17, <1>20, Zenon DEF decode_x86_64_instruction
  <1>. QED
    BY <1>3, <1>21, Zenon DEF Context, Meaning, s, reg, base, d

\* The opcodes behind the escape byte.
EscapedFits(move, o) ==
  /\ o \in Int /\ o \notin Prefixes /\ o \notin 64 .. 79
  /\ Hint(o) = HintOf(move.op) /\ Hint(o) # "none"
  /\ \A over, rex : AccessSize(o, over, rex) = move.size
  /\ ImmediateSize(o, move.size) = 0

\* The two opcodes of movzx.
LEMMA EscapedFacts ==
  ASSUME NEW move, Escaped(move)
  PROVE  EscapedFits(move, IF move.size = 1 THEN 182 ELSE 183)
  <1> DEFINE o == IF move.size = 1 THEN 182 ELSE 183
  <1>1. move.op = "movzx" /\ move.size \in {1, 2}
    BY Zenon DEF Escaped
  <1>2. o \in {182, 183} /\ (move.size = 1 => o = 182) /\ (move.size = 2 => o = 183)
    BY <1>1
  <1> HIDE DEF o
  <1>3. /\ o \in Int /\ o \notin Prefixes /\ o \notin 64 .. 79
    BY <1>2 DEF Prefixes
  <1>4. Hint(o) = "MR"
    BY <1>2 DEF Hint
  <1>5. HintOf(move.op) = "MR"
    BY <1>1, Zenon DEF HintOf
  <1>6. ASSUME NEW over, NEW rex PROVE AccessSize(o, over, rex) = move.size
    <2>1. CASE move.size = 1
      <3>1. o \in {182, 198, 138, 136}
        BY <1>2, <2>1
      <3>2. o # 183
        BY <1>2, <2>1
      <3>. QED
        BY <2>1, <3>1, <3>2, Zenon DEF AccessSize
    <2>2. CASE move.size = 2
      <3>1. o = 183 /\ o \notin {182, 198, 138, 136}
        BY <1>2, <2>2
      <3>. QED
        BY <2>2, <3>1 DEF AccessSize
    <2>. QED
      BY <1>1, <2>1, <2>2, Zenon
  <1>7. ImmediateSize(o, move.size) = 0
    BY <1>4 DEF ImmediateSize
  <1>8. EscapedFits(move, o)
    BY <1>3, <1>4, <1>5, <1>6, <1>7, Zenon DEF EscapedFits
  <1>. QED
    BY <1>8, Zenon DEF o

\* The decoder finds what the assembler wrote: moves behind an escape byte.
LEMMA DecodesEscaped ==
  ASSUME NEW move, Escaped(move)
  PROVE  decode_x86_64_instruction(Encode(move)) = Meaning(move)
  <1> DEFINE s == Encode(move)
             reg == move.reg
             base == move.base
             Rex == 64 + (IF move.size = 8 THEN 8 ELSE 0) + (IF reg >= 8 THEN 4 ELSE 0)
                       + (IF base >= 8 THEN 1 ELSE 0)
             needs == Rex # 64 \/ (move.op = "store" /\ move.size = 1 /\ reg \in 4 .. 7)
             none == <<>>
             o == IF move.size = 1 THEN 182 ELSE 183
             e == <<15, o>>
             m == 8 * (reg % 8) + (base % 8)
  <1>0. /\ move.op = "movzx" /\ move.size \in {1, 2}
        /\ reg \in 0 .. 7 /\ base \in 0 .. 7 /\ move.imm = none
    BY Zenon DEF Escaped
  <1>1. Rex = 64 /\ ~needs
    <2>1. Rex = 64
      BY <1>0
    <2>. QED
      BY <1>0, <2>1
  <1>2. Assembled(s, none, none, e, m, none)
    <2>1. e = CASE move.op = "movzx" -> IF move.size = 1 THEN <<15, 182>> ELSE <<15, 183>>
                    [] move.op = "load" -> <<139>>
                    [] move.op = "store" -> IF move.size = 1 THEN <<136>> ELSE <<137>>
                    [] move.op = "immediate" -> IF move.size = 1 THEN <<198>> ELSE <<199>>
      BY <1>0, Zenon
    <2>2. none = IF move.size = 2 /\ move.op # "movzx" THEN <<OPERAND_SIZE>> ELSE <<>>
      BY <1>0, Zenon
    <2>3. none = IF needs THEN <<Rex>> ELSE <<>>
      BY <1>1, Zenon
    <2> HIDE DEF none, o, e
    <2>. QED
      BY <1>0, <2>1, <2>2, <2>3, ZenonT(30) DEF Encode, Assembled
  <1>3. EscapedFits(move, o)
    BY EscapedFacts, Zenon
  <1> HIDE DEF s, o, reg, base
  <1>4. /\ o \in Int /\ o \notin Prefixes /\ o \notin 64 .. 79
        /\ Hint(o) = HintOf(move.op) /\ Hint(o) # "none"
        /\ \A over, rex : AccessSize(o, over, rex) = move.size
        /\ ImmediateSize(o, move.size) = 0
    BY <1>3, Zenon DEF EscapedFits
  <1>5. ModRm(m, reg, base)
    BY Zenon DEF ModRm
  <1> HIDE DEF m, Rex, needs
  <1>6. ReadOff(m, 0, reg, base, 0)
    BY <1>0, <1>5, RegisterBitsLow, Zenon
  <1>7. e \in Seq(Int) /\ Len(e) = 2 /\ e[1] = 15 /\ e[2] = o
    BY <1>4
  <1>8. none \in Seq(Int) /\ Len(none) = 0
    OBVIOUS
  <1> HIDE DEF e, none
  <1>9. Placed(s, none, none, e, m, none, 0, 0, 2)
    <2>1. Lengths(none, none, e, 0, 0, 2)
      BY <1>7, <1>8 DEF Lengths
    <2>2. m \in Int
      BY <1>6, Zenon DEF ReadOff
    <2>. QED
      BY <1>2, <1>7, <1>8, <2>1, <2>2, Pieces, Zenon
  <1>10. s \in Seq(Int) /\ Len(s) = 3 /\ s[1] = 15 /\ s[2] = o /\ s[3] = m /\ SubSeq(s, 4, 3) = none
    <2>1. /\ s \in Seq(Int) /\ Len(s) = 2 + 1 + Len(none)
          /\ \A i \in 1 .. Len(e) : s[0 + i] = e[i]
          /\ s[2 + 1] = m /\ SubSeq(s, 2 + 2, 2 + 1 + Len(none)) = none
      BY <1>9, Zenon DEF Placed
    <2>2. s[0 + 1] = 15 /\ s[0 + 2] = o
      <3>1. 1 \in 1 .. Len(e) /\ 2 \in 1 .. Len(e)
        BY <1>7
      <3>. QED
        BY <1>7, <2>1, <3>1, Zenon
    <2>3. 2 + 1 + Len(none) = 3 /\ 2 + 1 = 3 /\ 2 + 2 = 4 /\ 0 + 1 = 1 /\ 0 + 2 = 2
      BY <1>8
    <2>. QED
      BY <2>1, <2>2, <2>3, Zenon
  <1>11. SkipPrefixes(s) = 1
    <2>1. 15 \in Prefixes /\ \A i \in 1 .. 1 : i = 1
      BY DEF Prefixes
    <2>2. 1 \in Nat /\ 1 < Len(s) /\ 1 + 1 = 2
      BY <1>10
    <2>3. /\ s[1 + 1] \notin Prefixes
          /\ \A i \in 1 .. 1 : s[i] \in Prefixes
      BY <1>4, <1>10, <2>1, <2>2, Zenon
    <2>. QED
      BY <1>10, <2>2, <2>3, Skips, Zenon
  <1>12. DecodeOpcode(s, 1) = Context(o, 2 + 1 + 0, reg, base, move.size, Value(none))
    <2>1. RexRead(s, 1, 0, 2)
      <3>1. 1 + 1 = 2
        OBVIOUS
      <3>. QED
        BY <1>4, <1>10, <3>1, Zenon DEF RexRead
    <2>2. 2 + 1 = 3 /\ 2 + 2 = 4 /\ 2 + 1 + 0 = 3
      OBVIOUS
    <2>3. FieldsRead(s, 1, 0, 2, o, m, move.size, 0, reg, base, Value(none))
      BY <1>4, <1>6, <1>10, <2>1, <2>2, Zenon DEF FieldsRead, ReadOff
    <2>4. FieldsGiven(s, 1, 2, o, move.size, 0, reg, base, Value(none))
      BY <2>3, Opcode, Zenon
    <2>. QED
      BY <2>4, Zenon DEF FieldsGiven
  <1>13. decode_x86_64_instruction(s) = Context(o, Len(s), reg, base, move.size, Value(none))
    <2>1. 2 + 1 + 0 = Len(s)
      BY <1>10
    <2>. QED
      BY <1>11, <1>12, <2>1, Zenon DEF decode_x86_64_instruction
  <1>. QED
    BY <1>0, <1>4, <1>13, Zenon DEF Context, Meaning, s, reg, base, none

\* The moves of the reference, and what they have in common.

\* The leading bytes of an immediate.
LEMMA FirstBytes ==
  ASSUME NEW i \in Seq(Int), NEW k \in 1 .. Len(i)
  PROVE  SubSeq(i, 1, k) \in Seq(Int) /\ Len(SubSeq(i, 1, k)) = k
  OBVIOUS

\* Every move is plain or escaped, and names registers of the guest.
LEMMA MovesShape ==
  ASSUME NEW R, R \subseteq 0 .. 15, NEW I, \A i \in I : i \in Seq(Int) /\ Len(i) = 4,
         NEW move \in Moves(R, I)
  PROVE  /\ Plain(move) \/ Escaped(move)
         /\ move.base \in R /\ (move.op # "immediate" => move.reg \in R)
  <1> DEFINE B == {r \in R : r % 8 \notin {4, 5}}
             L(S) == {r \in S : r < 8}
             Im(s) == {SubSeq(i, 1, IF s = 8 THEN 4 ELSE s) : i \in {j \in I : s = 8 => j[4] < 128}}
             M1 == [op : {"movzx"}, size : {1, 2}, reg : L(R), base : L(B), imm : {<<>>}]
             M2 == [op : {"load"}, size : {4, 8}, reg : R, base : B, imm : {<<>>}]
             M3 == [op : {"store"}, size : {1, 2, 4, 8}, reg : R, base : B, imm : {<<>>}]
             M4(s) == [op : {"immediate"}, size : {s}, reg : {0}, base : B, imm : Im(s)]
  <1>1. move \in M1 \cup M2 \cup M3 \cup UNION {M4(s) : s \in {1, 2, 4, 8}}
    BY Zenon DEF Moves
  <1>2. move \in M1 \/ move \in M2 \/ move \in M3 \/ \E s \in {1, 2, 4, 8} : move \in M4(s)
    <2> HIDE DEF M1, M2, M3, M4
    <2>. QED
      BY <1>1, Zenon
  <1>3. <<>> \in Seq(Int)
    OBVIOUS
  <1>4. CASE move \in M1
    <2>1. /\ move.op = "movzx" /\ move.size \in {1, 2} /\ move.reg \in L(R) /\ move.base \in L(B)
          /\ move.imm = <<>>
      <3> HIDE DEF B, L
      <3>. QED
        BY <1>4
    <2>2. move.reg \in R /\ move.base \in R /\ move.reg < 8 /\ move.base < 8
      BY <2>1, Zenon
    <2>3. \A r \in 0 .. 15 : r < 8 => r \in 0 .. 7
      OBVIOUS
    <2>4. move.reg \in 0 .. 7 /\ move.base \in 0 .. 7
      BY <2>2, <2>3, Zenon
    <2>. QED
      BY <2>1, <2>2, <2>4, Zenon DEF Escaped
  <1>5. CASE move \in M2
    <2>1. /\ move.op = "load" /\ move.size \in {4, 8} /\ move.reg \in R /\ move.base \in B
          /\ move.imm = <<>>
      <3> HIDE DEF B
      <3>. QED
        BY <1>5
    <2>2. move.size \in {1, 2, 4, 8}
      BY <2>1
    <2>. QED
      BY <1>3, <2>1, <2>2, Zenon DEF Plain
  <1>6. CASE move \in M3
    <2>1. /\ move.op = "store" /\ move.size \in {1, 2, 4, 8} /\ move.reg \in R /\ move.base \in B
          /\ move.imm = <<>>
      <3> HIDE DEF B
      <3>. QED
        BY <1>6
    <2>2. move.size \in {1, 2, 4, 8}
      BY <2>1
    <2>. QED
      BY <1>3, <2>1, <2>2, Zenon DEF Plain
  <1>7. ASSUME NEW s \in {1, 2, 4, 8}, move \in M4(s)
        PROVE  Plain(move) /\ move.base \in R /\ move.op = "immediate"
    <2>0. /\ move.op = "immediate" /\ move.size = s /\ move.reg = 0
          /\ move.base \in B /\ move.imm \in Im(s)
      <3> HIDE DEF B, Im
      <3>. QED
        BY <1>7
    <2>1. PICK i \in I : move.imm = SubSeq(i, 1, IF s = 8 THEN 4 ELSE s)
      BY <2>0, Zenon
    <2> DEFINE n == IF s = 8 THEN 4 ELSE s
    <2>2. i \in Seq(Int) /\ Len(i) = 4 /\ n \in 1 .. 4
      <3>1. n \in 1 .. 4
        OBVIOUS
      <3> HIDE DEF n
      <3>. QED
        BY <3>1, Zenon
    <2>3. move.imm \in Seq(Int) /\ Len(move.imm) = n
      <3> HIDE DEF n
      <3>1. \A k \in 1 .. 4 : SubSeq(i, 1, k) \in Seq(Int) /\ Len(SubSeq(i, 1, k)) = k
        BY <2>2, FirstBytes, Zenon
      <3>. QED
        BY <2>1, <2>2, <3>1, Zenon DEF n
    <2>4. move.base \in 0 .. 15 /\ move.base \in R /\ 0 \in 0 .. 15
      <3>1. 0 \in 0 .. 15
        OBVIOUS
      <3>. QED
        BY <2>0, <3>1, Zenon
    <2>. QED
      BY <2>0, <2>3, <2>4, Zenon DEF Plain
  <1>. QED
    BY <1>2, <1>4, <1>5, <1>6, <1>7, Zenon

\* decode_x86_64_instruction reads every move an assembler writes for an access
\* to an emulated page as that move: its length, both registers, the size of
\* the access and the immediate.
THEOREM DecoderReadsMoves ==
  ASSUME NEW R, R \subseteq 0 .. 15, NEW I, \A i \in I : i \in Seq(Int) /\ Len(i) = 4,
         NEW move \in Moves(R, I)
  PROVE  decode_x86_64_instruction(Encode(move)) = Meaning(move)
  <1>1. Plain(move) \/ Escaped(move)
    BY MovesShape, Zenon
  <1>. QED
    BY <1>1, DecodesPlain, DecodesEscaped, Zenon

(* The invariant. *)

E0 == Efer(FALSE, FALSE)
E1 == Efer(TRUE, FALSE)
E5 == Efer(TRUE, TRUE)
high_page_table == map_page_high(construct_early_page_table, Video, VideoFrame)

\* Where the guest can be, and what it has done by then: its EFER, its tables.
Places == {0, 1, 2, 3, 6, 8, 10, 11, 12, 13, 16, 18}
EferAt(n) == IF n < 10 THEN E0 ELSE IF n = 10 THEN E1 ELSE E5
TablesAt(n) == IF n < 3 THEN NoTables
               ELSE IF n < 13 THEN construct_early_page_table ELSE high_page_table
Boot ==
  /\ mode \in {"guest", "host"}
  /\ rip \in Int /\ (rip \in Places \/ rip > 18)
  /\ efer = EferAt(rip)
  /\ pg <=> rip > 10
  /\ mem = TablesAt(rip)

\* The fields of the VMCS: EFER as the last entry left it, or, when paging
\* has come on since, without LMA; and the control every exit records it in.
VmcsFields == {"efer", "pin", "pri", "sec", "vm_exit", "vm_entry"}
Vmcs ==
  /\ vmcs = [f \in VmcsFields |-> vmcs[f]]
  /\ vmcs.efer = efer \/ (vmcs.efer = E1 /\ rip > 10)
  /\ 20 \notin vmcs.vm_exit
  /\ mode = "host" => (IA32E_GUEST \in vmcs.vm_entry <=> rip > 10)

\* The registers between rdmsr and wrmsr.
EferRead == /\ regs[RCX] = IA32_EFER /\ regs[RDX] = Zero
            /\ regs[RAX] = IF mode = "host" /\ exit.reason = "wrmsr" THEN E1 ELSE E0

Typed ==
  /\ regs = [r \in Registers |-> regs[r]]
  /\ video_buffer = [o \in 0 .. PageSize - 1 |-> video_buffer[o]]
  /\ screen = [o \in 0 .. PageSize - 1 |-> screen[o]]

\* The exits, each with the place of its instruction.
Drew ==
  /\ rip = 18
  /\ exit.instruction \in Moves(Registers, Immediates)
  /\ exit.bytes = Encode(exit.instruction)
  /\ \E offset \in {0, PageSize - exit.instruction.size} :
       regs[exit.instruction.base] = VideoAddress(offset)
Ports ==
  /\ rip = 18
  /\ \E direction \in {"in", "out"}, byte \in PortBytes :
       exit.instruction = PortByte(direction, byte)
Exited ==
  \/ exit.reason \in {"external_interrupt", "interrupt_window"} /\ exit.length = 0
  \/ /\ exit.reason = "mov_cr3" /\ rip \in {3, 13} /\ exit.length = 3
     /\ exit.instruction = MovRaxToCr3
  \/ /\ exit.reason = "rdmsr" /\ rip = 6 /\ exit.length = 2
     /\ regs[RCX] = IA32_EFER
  \/ exit.reason = "wrmsr" /\ rip = 8 /\ exit.length = 2
  \/ exit.reason = "rdtsc" /\ rip = 16 /\ exit.length = 2
  \/ exit.reason = "hlt" /\ rip = 18 /\ exit.length = 1
  \/ exit.reason = "ept_misconfig" /\ exit.length = 0 /\ Drew
  \/ exit.reason = "io" /\ exit.length = 1 /\ Ports

IInv ==
  /\ Boot /\ Vmcs /\ Typed
  /\ rip = 8 => EferRead
  /\ mode = "host" => Exited

(* Register values. *)

Second(a) == [i \in 1 .. 8 |-> IF i = 2 THEN a ELSE 0]

\* The values EFER takes, by their second byte.
LEMMA EferValues ==
  E0 = Second(0) /\ E1 = Second(1) /\ E5 = Second(5) /\ Zero = Second(0)
  <1>1. \A a \in Int : Value(<<0, a>>) = Second(a)
    BY DEF Value, Second
  <1>2. E0 = Value(<<0, 0 + 0>>) /\ E1 = Value(<<0, 1 + 0>>) /\ E5 = Value(<<0, 1 + 4>>)
    BY Zenon DEF E0, E1, E5, Efer
  <1>3. 0 + 0 = 0 /\ 1 + 0 = 1 /\ 1 + 4 = 5 /\ 0 \in Int /\ 1 \in Int /\ 5 \in Int
    OBVIOUS
  <1>4. Zero = Second(0)
    BY DEF Zero, Value, Second
  <1>. QED
    BY <1>1, <1>2, <1>3, <1>4, Zenon

\* The second byte of such a value.
LEMMA SecondByte == ASSUME NEW a PROVE Second(a)[2] = a
  BY DEF Second

\* LME and LMA of the values EFER takes.
LEMMA EferBits ==
  /\ ~Lma(E0) /\ ~Lma(E1) /\ Lma(E5)
  /\ ~Lme(E0) /\ Lme(E1) /\ Lme(E5)
  <1>1. E0[2] = 0 /\ E1[2] = 1 /\ E5[2] = 5
    BY EferValues, SecondByte, Zenon
  <1>. QED
    BY <1>1 DEF Lma, Lme

\* The lower half of a register, and EFER put together again from two halves.
LEMMA LowIs ==
  ASSUME NEW v
  PROVE  Low(v) = [i \in 1 .. 8 |-> IF i <= 4 THEN v[i] ELSE 0]
  <1> DEFINE s == SubSeq(v, 1, 4)
  <1>1. s = [i \in 1 .. 4 |-> v[i]]
    OBVIOUS
  <1>2. Len(s) = 4 /\ \A i \in 1 .. 4 : s[i] = v[i]
    BY <1>1
  <1> HIDE DEF s
  <1>3. Value(s) = [i \in 1 .. 8 |-> IF i <= 4 THEN v[i] ELSE 0]
    BY <1>2 DEF Value
  <1>. QED
    BY <1>3, Zenon DEF Low, s

\* EFER with LME is all in the lower half.
LEMMA LowEfer == Low(E1) = E1
  <1>1. Low(Second(1)) = Second(1)
    <2>1. Low(Second(1)) = [i \in 1 .. 8 |-> IF i <= 4 THEN Second(1)[i] ELSE 0]
      BY LowIs, Zenon
    <2>. QED
      BY <2>1 DEF Second
  <1>. QED
    BY <1>1, EferValues, Zenon

\* EFER with LME, put together from EAX and EDX.
LEMMA WholeEfer == Value(SubSeq(E1, 1, 4) \o SubSeq(Zero, 1, 4)) = E1
  <1> DEFINE s == SubSeq(E1, 1, 4)
             t == SubSeq(Zero, 1, 4)
             u == s \o t
  <1>1. /\ s \in Seq(Int) /\ Len(s) = 4 /\ \A i \in 1 .. 4 : s[i] = IF i = 2 THEN 1 ELSE 0
    <2>1. s = [i \in 1 .. 4 |-> IF i = 2 THEN 1 ELSE 0]
      BY EferValues DEF Second
    <2>. QED
      BY <2>1
  <1>2. /\ t \in Seq(Int) /\ Len(t) = 4 /\ \A i \in 1 .. 4 : t[i] = 0
    <2>1. t = [i \in 1 .. 4 |-> 0]
      BY EferValues DEF Second
    <2>. QED
      BY <2>1
  <1> HIDE DEF s, t
  <1>3. /\ Len(u) = Len(s) + Len(t)
        /\ \A i \in 1 .. Len(s) : u[i] = s[i]
        /\ \A i \in 1 .. Len(t) : u[Len(s) + i] = t[i]
    BY <1>1, <1>2, Joined, Zenon
  <1> HIDE DEF u
  <1>4. Len(u) = 8 /\ \A i \in 1 .. 8 : u[i] = IF i = 2 THEN 1 ELSE 0
    BY <1>1, <1>2, <1>3
  <1>5. Value(u) = Second(1)
    BY <1>4 DEF Value, Second
  <1>. QED
    BY <1>5, EferValues, Zenon DEF s, t, u

\* Setting LME.
LEMMA SetLme == [E0 EXCEPT ![2] = 1 + 2 * (E0[2] \div 2)] = E1
  <1>1. [Second(0) EXCEPT ![2] = 1 + 2 * (0 \div 2)] = Second(1)
    BY DEF Second
  <1>. QED
    BY <1>1, EferValues, SecondByte, Zenon

\* The address of a video byte.
LEMMA VideoBytes == ASSUME NEW offset PROVE VideoAddress(offset)[1] = offset
  BY DEF VideoAddress, Value

(* The guest's page tables. *)

Pages == {PML4, PDPT, PDT, BASE}
Tables(t) == t = [p \in Pages |-> [i \in Indices |-> t[p][i]]]
Put(t, p, i, e) == [t EXCEPT ![p] = [t[p] EXCEPT ![i] = e]]

Entered(t, u, p, i, e) ==
  /\ Tables(u)
  /\ \A q \in Pages, j \in Indices : u[q][j] = IF q = p /\ j = i THEN e ELSE t[q][j]
Replaced(t, u, p, g) ==
  /\ Tables(u)
  /\ \A q \in Pages, j \in Indices : u[q][j] = IF q = p THEN g[j] ELSE t[q][j]

\* What a table holds after an entry of it, or all of it, is replaced.
LEMMA PutEntry ==
  ASSUME NEW t, Tables(t), NEW p \in Pages, NEW i \in Indices, NEW e
  PROVE  Entered(t, Put(t, p, i, e), p, i, e)
  <1> DEFINE u == Put(t, p, i, e)
  <1>1. t = [q \in Pages |-> [j \in Indices |-> t[q][j]]]
    BY Zenon DEF Tables
  <1>2. u = [q \in Pages |-> [j \in Indices |-> IF q = p /\ j = i THEN e ELSE t[q][j]]]
    BY <1>1, Zenon DEF Put
  <1> HIDE DEF u
  <1>3. \A q \in Pages, j \in Indices : u[q][j] = IF q = p /\ j = i THEN e ELSE t[q][j]
    BY <1>2, Zenon
  <1>4. Tables(u)
    BY <1>2, <1>3 DEF Tables
  <1>. QED
    BY <1>3, <1>4, Zenon DEF u, Entered

Set(t, p, g) == [t EXCEPT ![p] = g]

\* What the tables hold after one of them is replaced.
LEMMA PutTable ==
  ASSUME NEW t, Tables(t), NEW p \in Pages, NEW g, g = [i \in Indices |-> g[i]]
  PROVE  Replaced(t, Set(t, p, g), p, g)
  <1> DEFINE u == Set(t, p, g)
  <1>1. t = [q \in Pages |-> [j \in Indices |-> t[q][j]]]
    BY Zenon DEF Tables
  <1>2. u = [q \in Pages |-> [j \in Indices |-> IF q = p THEN g[j] ELSE t[q][j]]]
    BY <1>1 DEF Set
  <1> HIDE DEF u
  <1>3. \A q \in Pages, j \in Indices : u[q][j] = IF q = p THEN g[j] ELSE t[q][j]
    BY <1>2, Zenon
  <1>4. Tables(u)
    BY <1>2, <1>3 DEF Tables
  <1>. QED
    BY <1>3, <1>4, Zenon DEF u, Replaced

\* The pages of the tables are different.
LEMMA DifferentPages ==
  /\ PML4 # PDPT /\ PML4 # PDT /\ PML4 # BASE /\ PDPT # PDT /\ PDPT # BASE /\ PDT # BASE
  BY DEF PML4, PDPT, PDT, BASE
\* The pages, and the indices, the code uses.
LEMMA SomePages ==
  /\ PML4 \in Pages /\ PDPT \in Pages /\ PDT \in Pages /\ BASE \in Pages
  BY Zenon DEF Pages
\* The indices of the low gigabyte and of the video page.
LEMMA SomeIndices == 0 \in Indices /\ 4 \in Indices /\ 4 # 0
  BY DEF Indices

\* The tables of init32.S: what the walks below meet in them.
Large(i) == [present |-> TRUE, large |-> TRUE, page |-> LargePage(i)]
Early(t) ==
  /\ Tables(t)
  /\ t[PML4][0] = TableEntry(PDPT) /\ t[PDPT][0] = TableEntry(PDT) /\ t[PDPT][4] = NoEntry
  /\ \A i \in Indices : t[PDT][i] = Large(i)

\* The tables construct_early_page_table leaves.
LEMMA EarlyTables == Early(construct_early_page_table)
  <1> DEFINE g == [i \in Indices |-> Large(i)]
             t1 == Put(NoTables, PML4, 0, TableEntry(PDPT))
             t2 == Put(t1, PDPT, 0, TableEntry(PDT))
             t3 == Set(t2, PDT, g)
  <1>1. Tables(NoTables) /\ NoTables[PDPT][4] = NoEntry
    <2>1. \A p \in Pages, i \in Indices : NoTables[p][i] = NoEntry
      BY Zenon DEF NoTables, EmptyTable, Pages
    <2>2. NoTables = [p \in Pages |-> [i \in Indices |-> NoEntry]]
      BY Zenon DEF NoTables, EmptyTable, Pages
    <2>3. Tables(NoTables)
      BY <2>1, <2>2 DEF Tables
    <2>. QED
      BY <2>1, <2>3, SomePages, SomeIndices, Zenon
  <1>2. Entered(NoTables, t1, PML4, 0, TableEntry(PDPT))
    BY <1>1, PutEntry, SomePages, SomeIndices, Zenon
  <1> HIDE DEF t1
  <1>3. Entered(t1, t2, PDPT, 0, TableEntry(PDT))
    <2>1. Tables(t1)
      BY <1>2, Zenon DEF Entered
    <2>. QED
      BY <2>1, PutEntry, SomePages, SomeIndices, Zenon
  <1> HIDE DEF t2
  <1>4. g = [i \in Indices |-> g[i]]
    BY Zenon
  <1>5. \A i \in Indices : g[i] = Large(i)
    BY Zenon
  <1> HIDE DEF g
  <1>6. Replaced(t2, t3, PDT, g)
    <2>1. Tables(t2)
      BY <1>3, Zenon DEF Entered
    <2>. QED
      BY <1>4, <2>1, PutTable, SomePages, Zenon
  <1> HIDE DEF t3
  <1>7. construct_early_page_table = t3
    BY Zenon DEF construct_early_page_table, t1, t2, t3, g, Put, Set, Large
  <1>8. \A i \in Indices : t3[PML4][i] = t2[PML4][i] /\ t3[PDPT][i] = t2[PDPT][i] /\ t3[PDT][i] = Large(i)
    BY <1>5, <1>6, DifferentPages, SomePages, Zenon DEF Replaced
  <1>9. /\ t2[PML4][0] = t1[PML4][0] /\ t2[PDPT][0] = TableEntry(PDT)
        /\ t2[PDPT][4] = t1[PDPT][4]
    BY <1>3, DifferentPages, SomePages, SomeIndices, Zenon DEF Entered
  <1>10. t1[PML4][0] = TableEntry(PDPT) /\ t1[PDPT][4] = NoTables[PDPT][4]
    BY <1>2, DifferentPages, SomePages, SomeIndices, Zenon DEF Entered
  <1>11. Tables(t3)
    BY <1>6, Zenon DEF Replaced
  <1>. QED
    BY <1>1, <1>7, <1>8, <1>9, <1>10, <1>11, SomeIndices, Zenon DEF Early

\* One level of map_page_high, when the entry is there and when it is not.
Walk(t, page, n) == [mem |-> t, page |-> page, nr_used |-> n, result |-> 0]
Cleared(t, n) ==
  Set(t, BASE, [i \in Indices |-> IF i = 0 /\ n > 0 THEN [t[BASE][0] EXCEPT !.page = Nowhere]
                                  ELSE NoEntry])

WalkedOn(t, page, n, x, y) ==
  /\ [Walk(t, page, n) EXCEPT !.nr_used = x, !.mem = y] = Walk(y, page, x)
  /\ [Walk(t, page, n) EXCEPT !.mem = y, !.page = x] = Walk(y, x, n)

\* The steps of a walk, on the record map_page_high keeps.
LEMMA Walked ==
  ASSUME NEW t, NEW page, NEW n, NEW x, NEW y
  PROVE  WalkedOn(t, page, n, x, y)
  <1>1. /\ [Walk(t, page, n) EXCEPT !.nr_used = x] = Walk(t, page, x)
        /\ [Walk(t, page, n) EXCEPT !.mem = y] = Walk(y, page, n)
        /\ [Walk(t, page, x) EXCEPT !.mem = y] = Walk(y, page, x)
        /\ [Walk(y, page, n) EXCEPT !.page = x] = Walk(y, x, n)
    BY DEF Walk
  <1>2. \A w : /\ [w EXCEPT !.nr_used = x, !.mem = y] = [[w EXCEPT !.nr_used = x] EXCEPT !.mem = y]
              /\ [w EXCEPT !.mem = y, !.page = x] = [[w EXCEPT !.mem = y] EXCEPT !.page = x]
    BY Zenon
  <1>. QED
    BY <1>1, <1>2, Zenon DEF WalkedOn

Followed(t, page, n, i) == Step(Walk(t, page, n), i) = Walk(t, t[page][i].page, n)

\* A level that is present is followed.
LEMMA Follow ==
  ASSUME NEW t, NEW page, NEW n, NEW i, t[page][i].present
  PROVE  Followed(t, page, n, i)
  <1> DEFINE w == Walk(t, page, n)
  <1>1. w.result = 0 /\ w.mem = t /\ w.page = page
    BY DEF Walk
  <1>2. [w EXCEPT !.page = t[page][i].page] = Walk(t, t[page][i].page, n)
    BY DEF Walk
  <1> HIDE DEF w
  <1>3. Step(w, i) = [w EXCEPT !.page = t[page][i].page]
    BY <1>1, Zenon DEF Step
  <1>. QED
    BY <1>2, <1>3, Zenon DEF w, Followed

\* A level that is missing is made, in the page get_base_page clears.
LEMMA Make ==
  ASSUME NEW t, NEW page, NEW n \in 0 .. 1, NEW i, ~t[page][i].present
  PROVE  Step(Walk(t, page, n), i) = Walk(Put(Cleared(t, n), page, i, TableEntry(BASE)), BASE, n + 1)
  <1> DEFINE w == Walk(t, page, n)
             c == Cleared(t, n)
             got == Walk(c, page, n + 1)
  <1>1. w.result = 0 /\ w.mem = t /\ w.page = page /\ w.nr_used = n
    BY DEF Walk
  <1>2. got.result = 0 /\ got.mem = c /\ got.page = page /\ got.nr_used = n + 1
    BY DEF Walk
  <1>3. get_base_page(w) = got
    <2>1. ~(n >= NR_BASE_PAGES)
      BY DEF NR_BASE_PAGES
    <2>2. [w EXCEPT !.nr_used = n + 1, !.mem = c] = got
      <3>1. WalkedOn(t, page, n, n + 1, c)
        BY Walked, Zenon
      <3>. QED
        BY <3>1, Zenon DEF WalkedOn
    <2> HIDE DEF w, got
    <2>3. get_base_page(w) = [w EXCEPT !.nr_used = n + 1, !.mem = c]
      BY <1>1, <2>1, Zenon DEF get_base_page, Cleared, Set
    <2>. QED
      BY <2>2, <2>3, Zenon
  <1>4. [got EXCEPT !.mem = Put(c, page, i, TableEntry(BASE)), !.page = BASE]
          = Walk(Put(c, page, i, TableEntry(BASE)), BASE, n + 1)
    <2>1. WalkedOn(c, page, n + 1, BASE, Put(c, page, i, TableEntry(BASE)))
      BY Walked, Zenon
    <2>. QED
      BY <2>1, Zenon DEF WalkedOn
  <1> HIDE DEF w, got, c
  <1>5. Step(w, i) = [got EXCEPT !.mem = Put(c, page, i, TableEntry(BASE)), !.page = BASE]
    BY <1>1, <1>2, <1>3, Zenon DEF Step, Put
  <1>. QED
    BY <1>4, <1>5, Zenon DEF w, c

\* The tables after paging_init: the third level and the last share one page.
Mapped(t, k) ==
  /\ t[PML4][0] = TableEntry(PDPT) /\ t[PDPT][0] = TableEntry(PDT)
  /\ t[PDPT][4] = TableEntry(BASE) /\ t[BASE][0] = TableEntry(BASE)
  /\ t[BASE][k] = TableEntry(VideoFrame)
  /\ \A i \in Indices : t[PDT][i] = Large(i)

\* The fields of a table entry.
LEMMA Entries ==
  ASSUME NEW page
  PROVE  /\ ~NoEntry.present /\ TableEntry(page).present /\ ~TableEntry(page).large
         /\ TableEntry(page).page = page
  BY DEF NoEntry, TableEntry

\* map_page_high after the three upper levels.
LEMMA LastEntry ==
  ASSUME NEW t, NEW va, NEW frame, NEW u, NEW page, va[1] = 0, ~(va[2] < 4),
         Step(Step(Step(Walk(t, PML4, 0), va[1]), va[2]), va[3]) = Walk(u, page, 2),
         ~u[page][va[4]].present
  PROVE  map_page_high(t, va, frame) = Put(u, page, va[4], TableEntry(frame))
  <1> DEFINE w == Walk(u, page, 2)
  <1>1. w.result = 0 /\ w.mem = u /\ w.page = page
    BY DEF Walk
  <1> HIDE DEF w
  <1>2. Step(Step(Step([mem |-> t, page |-> PML4, nr_used |-> 0, result |-> 0], va[1]), va[2]), va[3]) = w
    BY Zenon DEF Walk, w
  <1>. QED
    BY <1>1, <1>2, Zenon DEF map_page_high, Put

IsCleared(t, c, n) ==
  /\ Tables(c)
  /\ \A q \in Pages, j \in Indices : q # BASE => c[q][j] = t[q][j]
  /\ \A j \in Indices : j # 0 \/ n = 0 => c[BASE][j] = NoEntry

\* get_base_page clears one page and leaves the others.
LEMMA ClearedTable ==
  ASSUME NEW t, Tables(t), NEW n \in {0, 1}
  PROVE  IsCleared(t, Cleared(t, n), n)
  <1> DEFINE g == [i \in Indices |-> IF i = 0 /\ n > 0 THEN [t[BASE][0] EXCEPT !.page = Nowhere]
                                     ELSE NoEntry]
  <1>1. g = [i \in Indices |-> g[i]]
    BY Zenon
  <1>2. n = 0 => ~(n > 0)
    OBVIOUS
  <1>3. \A j \in Indices : j # 0 \/ n = 0 => g[j] = NoEntry
    BY <1>2, Zenon
  <1> HIDE DEF g
  <1>4. Replaced(t, Set(t, BASE, g), BASE, g)
    BY <1>1, PutTable, SomePages, Zenon
  <1>5. Cleared(t, n) = Set(t, BASE, g)
    BY Zenon DEF Cleared, g
  <1>. QED
    BY <1>3, <1>4, <1>5, SomePages, ZenonT(30) DEF Replaced, IsCleared

\* The tables map_page_high leaves: one page serves the two lower levels.
LEMMA HighTables ==
  ASSUME NEW k, Video[4] = k, k \in Indices, k # 0
  PROVE  Mapped(high_page_table, k)
  <1> DEFINE e == construct_early_page_table
             c0 == Cleared(e, 0)
             t1 == Put(c0, PDPT, 4, TableEntry(BASE))
             c1 == Cleared(t1, 1)
             t2 == Put(c1, BASE, 0, TableEntry(BASE))
             t3 == Put(t2, BASE, k, TableEntry(VideoFrame))
  <1>0. /\ Tables(e) /\ e[PML4][0] = TableEntry(PDPT) /\ e[PDPT][0] = TableEntry(PDT)
        /\ e[PDPT][4] = NoEntry /\ \A i \in Indices : e[PDT][i] = Large(i)
    BY EarlyTables, Zenon DEF Early
  <1> HIDE DEF e
  <1>1. /\ Tables(c0) /\ \A q \in Pages, j \in Indices : q # BASE => c0[q][j] = e[q][j]
        /\ \A j \in Indices : c0[BASE][j] = NoEntry
    <2>1. IsCleared(e, c0, 0)
      BY <1>0, ClearedTable, Zenon
    <2>. QED
      BY <2>1, Zenon DEF IsCleared
  <1> HIDE DEF c0
  <1>2. Entered(c0, t1, PDPT, 4, TableEntry(BASE))
    BY <1>1, PutEntry, SomePages, SomeIndices, Zenon
  <1> HIDE DEF t1
  <1>3. /\ Tables(t1) /\ t1[PML4][0] = TableEntry(PDPT) /\ t1[PDPT][0] = TableEntry(PDT)
        /\ t1[PDPT][4] = TableEntry(BASE) /\ t1[BASE][0] = NoEntry
        /\ \A i \in Indices : t1[PDT][i] = Large(i)
    <2>1. /\ t1[PML4][0] = c0[PML4][0] /\ t1[PDPT][0] = c0[PDPT][0]
          /\ t1[PDPT][4] = TableEntry(BASE) /\ t1[BASE][0] = c0[BASE][0]
          /\ \A i \in Indices : t1[PDT][i] = c0[PDT][i]
      BY <1>2, DifferentPages, SomePages, SomeIndices, Zenon DEF Entered
    <2>2. /\ c0[PML4][0] = e[PML4][0] /\ c0[PDPT][0] = e[PDPT][0] /\ c0[BASE][0] = NoEntry
          /\ \A i \in Indices : c0[PDT][i] = e[PDT][i]
      BY <1>1, DifferentPages, SomePages, SomeIndices, Zenon
    <2>3. Tables(t1)
      BY <1>2, Zenon DEF Entered
    <2>. QED
      BY <1>0, <2>1, <2>2, <2>3, Zenon
  <1>4. /\ Tables(c1) /\ \A q \in Pages, j \in Indices : q # BASE => c1[q][j] = t1[q][j]
        /\ \A j \in Indices : j # 0 => c1[BASE][j] = NoEntry
    <2>1. IsCleared(t1, c1, 1)
      BY <1>3, ClearedTable, Zenon
    <2>. QED
      BY <2>1, Zenon DEF IsCleared
  <1> HIDE DEF c1
  <1>5. Entered(c1, t2, BASE, 0, TableEntry(BASE))
    BY <1>4, PutEntry, SomePages, SomeIndices, Zenon
  <1> HIDE DEF t2
  <1>6. /\ Tables(t2) /\ t2[PML4][0] = TableEntry(PDPT) /\ t2[PDPT][0] = TableEntry(PDT)
        /\ t2[PDPT][4] = TableEntry(BASE) /\ t2[BASE][0] = TableEntry(BASE)
        /\ t2[BASE][k] = NoEntry
        /\ \A i \in Indices : t2[PDT][i] = Large(i)
    <2>1. /\ t2[PML4][0] = c1[PML4][0] /\ t2[PDPT][0] = c1[PDPT][0]
          /\ t2[PDPT][4] = c1[PDPT][4] /\ t2[BASE][0] = TableEntry(BASE)
          /\ t2[BASE][k] = c1[BASE][k]
          /\ \A i \in Indices : t2[PDT][i] = c1[PDT][i]
      BY <1>5, DifferentPages, SomePages, SomeIndices, Zenon DEF Entered
    <2>2. /\ c1[PML4][0] = t1[PML4][0] /\ c1[PDPT][0] = t1[PDPT][0]
          /\ c1[PDPT][4] = t1[PDPT][4] /\ c1[BASE][k] = NoEntry
          /\ \A i \in Indices : c1[PDT][i] = t1[PDT][i]
      BY <1>4, DifferentPages, SomePages, SomeIndices, Zenon
    <2>3. Tables(t2)
      BY <1>5, Zenon DEF Entered
    <2>. QED
      BY <1>3, <2>1, <2>2, <2>3, Zenon
  <1>7. Entered(t2, t3, BASE, k, TableEntry(VideoFrame))
    BY <1>6, PutEntry, SomePages, SomeIndices, Zenon
  <1> HIDE DEF t3
  <1>8. Mapped(t3, k)
    <2>1. /\ t3[PML4][0] = t2[PML4][0] /\ t3[PDPT][0] = t2[PDPT][0]
          /\ t3[PDPT][4] = t2[PDPT][4] /\ t3[BASE][0] = t2[BASE][0]
          /\ t3[BASE][k] = TableEntry(VideoFrame)
          /\ \A i \in Indices : t3[PDT][i] = t2[PDT][i]
      BY <1>7, DifferentPages, SomePages, SomeIndices, Zenon DEF Entered
    <2>. QED
      BY <1>6, <2>1, Zenon DEF Mapped
  <1>9. high_page_table = t3
    <2>1. Video[1] = 0 /\ Video[2] = 4 /\ Video[3] = 0 /\ ~(4 < 4) /\ 0 + 1 = 1 /\ 1 + 1 = 2
          /\ 0 \in 0 .. 1 /\ 1 \in 0 .. 1
      BY DEF Video
    <2>2. Step(Walk(e, PML4, 0), 0) = Walk(e, PDPT, 0)
      <3>1. e[PML4][0].present /\ e[PML4][0].page = PDPT
        BY <1>0, Entries, Zenon
      <3>2. Followed(e, PML4, 0, 0)
        BY <3>1, Follow, Zenon
      <3>. QED
        BY <3>1, <3>2, Zenon DEF Followed
    <2>3. Step(Walk(e, PDPT, 0), 4) = Walk(t1, BASE, 1)
      <3>1. ~e[PDPT][4].present
        BY <1>0, Entries, Zenon
      <3>2. Step(Walk(e, PDPT, 0), 4)
              = Walk(Put(Cleared(e, 0), PDPT, 4, TableEntry(BASE)), BASE, 0 + 1)
        BY <2>1, <3>1, Make, Zenon
      <3>. QED
        BY <2>1, <3>2, Zenon DEF t1, c0
    <2>4. Step(Walk(t1, BASE, 1), 0) = Walk(t2, BASE, 2)
      <3>1. ~t1[BASE][0].present
        BY <1>3, Entries, Zenon
      <3>2. Step(Walk(t1, BASE, 1), 0)
              = Walk(Put(Cleared(t1, 1), BASE, 0, TableEntry(BASE)), BASE, 1 + 1)
        BY <2>1, <3>1, Make, Zenon
      <3>. QED
        BY <2>1, <3>2, Zenon DEF t2, c1
    <2>5. Step(Step(Step(Walk(e, PML4, 0), Video[1]), Video[2]), Video[3]) = Walk(t2, BASE, 2)
      BY <2>1, <2>2, <2>3, <2>4, Zenon
    <2>6. ~t2[BASE][Video[4]].present
      BY <1>6, Entries, Zenon
    <2>7. ~(Video[2] < 4)
      BY <2>1, Zenon
    <2>8. map_page_high(e, Video, VideoFrame) = Put(t2, BASE, Video[4], TableEntry(VideoFrame))
      BY <2>1, <2>5, <2>6, <2>7, LastEntry, Zenon
    <2>. QED
      BY <2>8, Zenon DEF high_page_table, t3, e
  <1>. QED
    BY <1>8, <1>9, Zenon

\* Walks through 2 MB pages, and to the video page.
LargeAt(t, va, i) ==
  /\ t[PML4][0] = TableEntry(PDPT) /\ t[PDPT][0] = TableEntry(PDT) /\ t[PDT][i] = Large(i)
  /\ va[1] = 0 /\ va[2] = 0 /\ va[3] = i

\* A walk that ends in a large page.
LEMMA LargeWalk ==
  ASSUME NEW t, NEW va, NEW i, LargeAt(t, va, i)
  PROVE  Translate(t, va) = LargePage(i)
  <1> DEFINE e4 == t[PML4][va[1]]
             e3 == t[e4.page][va[2]]
             e2 == t[e3.page][va[3]]
             e1 == t[e2.page][va[4]]
  <1>0. Translate(t, va) = IF ~e4.present THEN Nowhere
                           ELSE IF ~e3.present THEN Nowhere
                           ELSE IF ~e2.present THEN Nowhere
                           ELSE IF e2.large THEN e2.page
                           ELSE IF ~e1.present THEN Nowhere ELSE e1.page
    BY Zenon DEF Translate
  <1>1. Large(i).present /\ Large(i).large /\ Large(i).page = LargePage(i)
    BY DEF Large
  <1>2. e4 = TableEntry(PDPT)
    BY Zenon DEF LargeAt
  <1> HIDE DEF e4
  <1>3. e4.present /\ e4.page = PDPT
    BY <1>2, Entries, Zenon
  <1>4. e3 = TableEntry(PDT)
    BY <1>3, Zenon DEF LargeAt
  <1> HIDE DEF e3
  <1>5. e3.present /\ e3.page = PDT
    BY <1>4, Entries, Zenon
  <1>6. e2 = Large(i)
    BY <1>5, Zenon DEF LargeAt
  <1> HIDE DEF e2, e1
  <1>. QED
    BY <1>0, <1>1, <1>3, <1>5, <1>6, Zenon

\* The walk to the video page, through the page that serves two levels.
LEMMA VideoWalk ==
  ASSUME NEW t, NEW va, NEW k, Mapped(t, k), va[1] = 0, va[2] = 4, va[3] = 0, va[4] = k
  PROVE  Translate(t, va) = VideoFrame
  <1> DEFINE e4 == t[PML4][va[1]]
             e3 == t[e4.page][va[2]]
             e2 == t[e3.page][va[3]]
             e1 == t[e2.page][va[4]]
  <1>0. Translate(t, va) = IF ~e4.present THEN Nowhere
                           ELSE IF ~e3.present THEN Nowhere
                           ELSE IF ~e2.present THEN Nowhere
                           ELSE IF e2.large THEN e2.page
                           ELSE IF ~e1.present THEN Nowhere ELSE e1.page
    BY Zenon DEF Translate
  <1>1. /\ t[PML4][0] = TableEntry(PDPT) /\ t[PDPT][4] = TableEntry(BASE)
        /\ t[BASE][0] = TableEntry(BASE) /\ t[BASE][k] = TableEntry(VideoFrame)
    BY Zenon DEF Mapped
  <1>2. e4 = TableEntry(PDPT)
    BY <1>1, Zenon
  <1> HIDE DEF e4
  <1>3. e4.present /\ e4.page = PDPT
    BY <1>2, Entries, Zenon
  <1>4. e3 = TableEntry(BASE)
    BY <1>1, <1>3, Zenon
  <1> HIDE DEF e3
  <1>5. e3.present /\ e3.page = BASE
    BY <1>4, Entries, Zenon
  <1>6. e2 = TableEntry(BASE)
    BY <1>1, <1>5, Zenon
  <1> HIDE DEF e2
  <1>7. e2.present /\ ~e2.large /\ e2.page = BASE
    BY <1>6, Entries, Zenon
  <1>8. e1 = TableEntry(VideoFrame)
    BY <1>1, <1>7, Zenon
  <1> HIDE DEF e1
  <1>9. e1.present /\ e1.page = VideoFrame
    BY <1>8, Entries, Zenon
  <1>. QED
    BY <1>0, <1>3, <1>5, <1>7, <1>9, Zenon

LowMapped(t) == Translate(t, Code) = LargePage(0) /\ Translate(t, LowEnd) = LargePage(511)

\* The low gigabyte under tables whose lower entries are the early ones.
LEMMA LowWalks ==
  ASSUME NEW t, t[PML4][0] = TableEntry(PDPT), t[PDPT][0] = TableEntry(PDT),
         \A i \in Indices : t[PDT][i] = Large(i)
  PROVE  LowMapped(t)
  <1>1. Code[1] = 0 /\ Code[2] = 0 /\ Code[3] = 0 /\ 0 \in Indices
    BY DEF Code, Indices
  <1>2. Translate(t, Code) = LargePage(0)
    <2>1. LargeAt(t, Code, 0)
      BY <1>1, Zenon DEF LargeAt
    <2>. QED
      BY <2>1, LargeWalk, Zenon
  <1> DEFINE k == LowEnd[3]
  <1>3. LowEnd[1] = 0 /\ LowEnd[2] = 0 /\ k = 511 /\ k \in Indices
    BY DEF LowEnd, Indices
  <1>4. LowEnd[3] = k
    BY Zenon
  <1> HIDE DEF k
  <1>5. Translate(t, LowEnd) = LargePage(k)
    <2>0. LowEnd[1] = 0 /\ LowEnd[2] = 0 /\ k \in Indices
      BY <1>3, Zenon
    <2>1. LargeAt(t, LowEnd, k)
      BY <1>4, <2>0, Zenon DEF LargeAt
    <2>. QED
      BY <2>1, LargeWalk, Zenon
  <1>. QED
    BY <1>2, <1>3, <1>5, Zenon DEF LowMapped

\* What the early tables map.
LEMMA EarlyWalks == LowMapped(construct_early_page_table)
  BY EarlyTables, LowWalks, Zenon DEF Early

\* What the tables map after map_page_high.
LEMMA HighWalks == LowMapped(high_page_table) /\ Translate(high_page_table, Video) = VideoFrame
  <1> DEFINE k == Video[4]
             t == high_page_table
  <1>1. Video[1] = 0 /\ Video[2] = 4 /\ Video[3] = 0 /\ k \in Indices /\ k # 0
    BY DEF Video, Indices
  <1> HIDE DEF k, t
  <1>2. Mapped(t, k)
    BY <1>1, HighTables, Zenon DEF k, t
  <1>3. Translate(t, Video) = VideoFrame
    BY <1>1, <1>2, VideoWalk, Zenon DEF k
  <1>4. /\ t[PML4][0] = TableEntry(PDPT) /\ t[PDPT][0] = TableEntry(PDT)
        /\ \A i \in Indices : t[PDT][i] = Large(i)
    BY <1>2, Zenon DEF Mapped
  <1>5. LowMapped(t)
    BY <1>4, LowWalks, Zenon
  <1>. QED
    BY <1>3, <1>5, Zenon DEF t

(* The guest's steps. *)

Line(i, at, op, length) == Program[i].at = at /\ Program[i].op = op /\ Program[i].length = length

\* The guest's code, line by line.
LEMMA Lines ==
  /\ DOMAIN Program = 1 .. 12 /\ LoopStart = 18
  /\ Line(1, 0, "protected_mode", 1) /\ Line(2, 1, "pae", 1) /\ Line(3, 2, "early_tables", 1)
  /\ Line(4, 3, "mov_cr3", 3) /\ Line(5, 6, "rdmsr", 2) /\ Line(6, 8, "wrmsr", 2)
  /\ Line(7, 10, "cr0_pg", 1) /\ Line(8, 11, "ljmp64", 1) /\ Line(9, 12, "map_page_high", 1)
  /\ Line(10, 13, "mov_cr3", 3) /\ Line(11, 16, "rdtsc", 2) /\ Line(12, 18, "hlt", 1)
  <1>1. DOMAIN Program = 1 .. 12 /\ Len(Program) = 12
    BY DEF Program
  <1>2. /\ Line(1, 0, "protected_mode", 1) /\ Line(2, 1, "pae", 1)
        /\ Line(3, 2, "early_tables", 1) /\ Line(4, 3, "mov_cr3", 3)
    BY DEF Program, Line
  <1>3. /\ Line(5, 6, "rdmsr", 2) /\ Line(6, 8, "wrmsr", 2)
        /\ Line(7, 10, "cr0_pg", 1) /\ Line(8, 11, "ljmp64", 1)
    BY DEF Program, Line
  <1>4. /\ Line(9, 12, "map_page_high", 1) /\ Line(10, 13, "mov_cr3", 3)
        /\ Line(11, 16, "rdtsc", 2) /\ Line(12, 18, "hlt", 1)
    BY DEF Program, Line
  <1>5. LoopStart = 18
    BY <1>1, <1>4 DEF Line, LoopStart
  <1>. QED
    BY <1>1, <1>2, <1>3, <1>4, <1>5, Zenon

\* What a step between exits does: the guest gets from a to b.
Moved(a, b) ==
  /\ mode = "guest" /\ rip = a /\ rip' = b
  /\ efer' = EferAt(b) /\ (pg' <=> b > 10) /\ mem' = TablesAt(b)
  /\ UNCHANGED <<mode, regs, vmcs, exit, video>>

\* A step between exits that gets EFER and the tables right keeps the invariant.
LEMMA MovedKeeps ==
  ASSUME IInv, NEW a \in Int, NEW b \in Int, Moved(a, b), b # 8,
         b \in Places \/ b > 18, (a < 10 /\ b < 10) \/ (a = 10 /\ b = 11) \/ (a > 10 /\ b > 10)
  PROVE  IInv'
  <1>1. Boot'
    BY Zenon DEF Boot, Moved, IInv
  <1>2. Typed'
    BY Zenon DEF Typed, Moved, IInv, video
  <1>3. Vmcs'
    <2>1. vmcs.efer = efer' \/ (vmcs.efer = E1 /\ b > 10)
      <3>0. efer' = EferAt(b) /\ efer = EferAt(a) /\ (vmcs.efer = efer \/ (vmcs.efer = E1 /\ a > 10))
        BY Zenon DEF IInv, Boot, Vmcs, Moved
      <3>1. CASE a < 10 /\ b < 10
        <4>1. ~(a > 10)
          BY <3>1
        <4>. QED
          BY <3>0, <3>1, <4>1, Zenon DEF EferAt
      <3>2. CASE a = 10 /\ b = 11
        <4>1. ~(a < 10) /\ ~(a > 10) /\ b > 10
          BY <3>2
        <4>. QED
          BY <3>0, <3>2, <4>1, Zenon DEF EferAt
      <3>3. CASE a > 10 /\ b > 10
        <4>1. ~(a < 10) /\ a # 10 /\ ~(b < 10) /\ b # 10
          BY <3>3
        <4>. QED
          BY <3>0, <3>3, <4>1, Zenon DEF EferAt
      <3>. QED
        BY <3>1, <3>2, <3>3, Zenon
    <2>. QED
      BY <2>1, Zenon DEF Vmcs, Moved, IInv
  <1>. QED
    BY <1>1, <1>2, <1>3, Zenon DEF IInv, Moved

Quiet(i, op) == Program[i].op = op /\ op \notin Exiting

\* An instruction that does not exit.
LEMMA QuietStep ==
  ASSUME IInv, NEW i, NEW op, GuestInstruction(i), Quiet(i, op)
  PROVE  /\ mode = "guest" /\ rip = Program[i].at /\ rip' = rip + Program[i].length
         /\ pg' = (pg \/ op = "cr0_pg")
         /\ efer' = IF op = "cr0_pg" /\ Lme(efer) THEN Efer(TRUE, TRUE) ELSE efer
         /\ mem' = CASE op = "early_tables" -> construct_early_page_table
                     [] op = "map_page_high" -> map_page_high(mem, Video, VideoFrame)
                     [] OTHER -> mem
         /\ UNCHANGED <<mode, regs, vmcs, exit, video>>
  BY Zenon DEF GuestInstruction, Quiet, At, video

\* The six stretches of code between exits.
LEMMA QuietKeeps ==
  ASSUME IInv, NEW i \in {1, 2, 3, 7, 8, 9}, GuestInstruction(i)
  PROVE  IInv'
  <1>1. /\ efer = EferAt(rip) /\ (pg <=> rip > 10) /\ mem = TablesAt(rip)
    BY Zenon DEF IInv, Boot
  <1>2. CASE i \in {1, 2, 8}
    <2> DEFINE a == Program[i].at
               b == a + 1
    <2>1. /\ Program[i].length = 1 /\ a \in {0, 1, 11}
          /\ Program[i].op \in {"protected_mode", "pae", "ljmp64"}
      <3>1. Line(1, 0, "protected_mode", 1) /\ Line(2, 1, "pae", 1) /\ Line(8, 11, "ljmp64", 1)
        BY Lines, Zenon
      <3>. QED
        BY <1>2, <3>1, Zenon DEF Line
    <2>2. \E op \in {"protected_mode", "pae", "ljmp64"} : Quiet(i, op)
      BY <2>1 DEF Quiet, Exiting
    <2>3. /\ mode = "guest" /\ rip = a /\ rip' = rip + 1 /\ (pg' <=> pg)
          /\ efer' = efer /\ mem' = mem /\ UNCHANGED <<mode, regs, vmcs, exit, video>>
      <3>1. PICK op \in {"protected_mode", "pae", "ljmp64"} : Quiet(i, op)
        BY <2>2, Zenon
      <3>2. op # "cr0_pg" /\ op # "early_tables" /\ op # "map_page_high"
        BY <3>1
      <3>3. /\ mode = "guest" /\ rip = Program[i].at /\ rip' = rip + Program[i].length
            /\ pg' = (pg \/ op = "cr0_pg")
            /\ efer' = IF op = "cr0_pg" /\ Lme(efer) THEN Efer(TRUE, TRUE) ELSE efer
            /\ mem' = CASE op = "early_tables" -> construct_early_page_table
                        [] op = "map_page_high" -> map_page_high(mem, Video, VideoFrame)
                        [] OTHER -> mem
            /\ UNCHANGED <<mode, regs, vmcs, exit, video>>
        BY <3>1, QuietStep, Zenon
      <3>. QED
        BY <2>1, <3>2, <3>3, Zenon
    <2> HIDE DEF a
    <2>4. /\ a \in Int /\ b \in Int /\ b # 8 /\ b \in Places
          /\ ((a < 10 /\ b < 10) \/ (a > 10 /\ b > 10))
          /\ (a < 10 <=> b < 10) /\ (a > 10 <=> b > 10) /\ (a < 3 <=> b < 3) /\ (a < 13 <=> b < 13)
          /\ a # 10 /\ b # 10
      BY <2>1 DEF Places
    <2>5. Moved(a, b)
      BY <1>1, <2>3, <2>4, Zenon DEF Moved, EferAt, TablesAt
    <2> HIDE DEF b
    <2>. QED
      BY <2>4, <2>5, MovedKeeps, Zenon
  <1>3. CASE i = 3
    <2>1. Program[i].at = 2 /\ Program[i].length = 1 /\ Program[i].op = "early_tables"
      BY <1>3, Lines, Zenon DEF Line
    <2>2. Quiet(i, "early_tables")
      BY <2>1 DEF Quiet, Exiting
    <2>3. /\ mode = "guest" /\ rip = 2 /\ rip' = rip + 1 /\ pg' = (pg \/ FALSE)
          /\ efer' = efer /\ mem' = construct_early_page_table
          /\ UNCHANGED <<mode, regs, vmcs, exit, video>>
      BY <2>1, <2>2, QuietStep, Zenon
    <2>4. /\ 2 < 10 /\ 3 < 10 /\ ~(2 > 10) /\ ~(3 > 10) /\ ~(3 < 3) /\ 3 < 13 /\ 2 + 1 = 3
          /\ 2 \in Int /\ 3 \in Int /\ 3 # 8 /\ 3 \in Places
      BY DEF Places
    <2>5. Moved(2, 3)
      BY <1>1, <2>3, <2>4, Zenon DEF Moved, EferAt, TablesAt
    <2>. QED
      BY <2>4, <2>5, MovedKeeps, Zenon
  <1>4. CASE i = 7
    <2>1. Program[i].at = 10 /\ Program[i].length = 1 /\ Program[i].op = "cr0_pg"
      BY <1>4, Lines, Zenon DEF Line
    <2>2. Quiet(i, "cr0_pg")
      BY <2>1 DEF Quiet, Exiting
    <2>3. /\ mode = "guest" /\ rip = 10 /\ rip' = rip + 1 /\ pg'
          /\ efer' = (IF Lme(efer) THEN E5 ELSE efer) /\ mem' = mem
          /\ UNCHANGED <<mode, regs, vmcs, exit, video>>
      BY <2>1, <2>2, QuietStep, Zenon DEF E5
    <2>4. /\ ~(10 < 10) /\ ~(11 < 10) /\ 11 # 10 /\ 11 > 10 /\ 10 < 13 /\ 11 < 13
          /\ ~(10 < 3) /\ ~(11 < 3)
          /\ 10 \in Int /\ 11 \in Int /\ 11 # 8 /\ 11 \in Places /\ 10 + 1 = 11
      BY DEF Places
    <2>5. efer' = E5
      BY <1>1, <2>3, <2>4, EferBits, Zenon DEF EferAt
    <2>6. Moved(10, 11)
      BY <1>1, <2>3, <2>4, <2>5, Zenon DEF Moved, EferAt, TablesAt
    <2>. QED
      BY <2>4, <2>6, MovedKeeps, Zenon
  <1>5. CASE i = 9
    <2>1. Program[i].at = 12 /\ Program[i].length = 1 /\ Program[i].op = "map_page_high"
      BY <1>5, Lines, Zenon DEF Line
    <2>2. Quiet(i, "map_page_high")
      BY <2>1 DEF Quiet, Exiting
    <2>3. /\ mode = "guest" /\ rip = 12 /\ rip' = rip + 1 /\ pg' = (pg \/ FALSE)
          /\ efer' = efer /\ mem' = map_page_high(mem, Video, VideoFrame)
          /\ UNCHANGED <<mode, regs, vmcs, exit, video>>
      BY <2>1, <2>2, QuietStep, Zenon
    <2>4. /\ ~(12 < 10) /\ ~(13 < 10) /\ 12 > 10 /\ 13 > 10 /\ 12 # 10 /\ 13 # 10
          /\ ~(12 < 3) /\ 12 < 13 /\ ~(13 < 3) /\ ~(13 < 13) /\ 12 + 1 = 13
          /\ 12 \in Int /\ 13 \in Int /\ 13 # 8 /\ 13 \in Places
      BY DEF Places
    <2>5. mem = construct_early_page_table
      BY <1>1, <2>3, <2>4, Zenon DEF TablesAt
    <2>6. Moved(12, 13)
      BY <1>1, <2>3, <2>4, <2>5, Zenon DEF Moved, EferAt, TablesAt, high_page_table
    <2>. QED
      BY <2>4, <2>6, MovedKeeps, Zenon
  <1>. QED
    BY <1>2, <1>3, <1>4, <1>5, Zenon

\* Every exit: the VMCS, and what is left to show of the instruction.
LEMMA ExitVmcs ==
  ASSUME IInv, mode = "guest", NEW reason, NEW length, NEW instruction, NEW bytes,
         Exit(reason, length, instruction, bytes), UNCHANGED <<rip, efer>>
  PROVE  Vmcs'
  <1> DEFINE entry == IF Lma(efer) THEN vmcs.vm_entry \cup {IA32E_GUEST}
                      ELSE vmcs.vm_entry \ {IA32E_GUEST}
             v == [vmcs EXCEPT !.vm_entry = entry, !.efer = vmcs.efer]
  <1>0. /\ vmcs = [f \in VmcsFields |-> vmcs[f]]
        /\ vmcs.efer = efer \/ (vmcs.efer = E1 /\ rip > 10)
        /\ 20 \notin vmcs.vm_exit
        /\ rip \in Int /\ efer = EferAt(rip)
    BY Zenon DEF IInv, Vmcs, Boot
  <1>1. vmcs' = v
    BY <1>0, Zenon DEF Exit
  <1>2. IA32E_GUEST \in entry <=> rip > 10
    <2>1. Lma(efer) <=> rip > 10
      <3>1. rip < 10 => ~(rip > 10)
        BY <1>0
      <3>2. rip = 10 => ~(rip > 10)
        BY <1>0
      <3>3. ~(rip < 10) /\ rip # 10 => rip > 10
        BY <1>0
      <3>. QED
        BY <1>0, <3>1, <3>2, <3>3, EferBits, Zenon DEF EferAt
    <2>. QED
      BY <2>1, Zenon
  <1> HIDE DEF entry
  <1>3. /\ v = [f \in VmcsFields |-> v[f]]
        /\ v.efer = vmcs.efer /\ v.vm_exit = vmcs.vm_exit /\ v.vm_entry = entry
    BY <1>0, Zenon DEF VmcsFields
  <1> HIDE DEF v
  <1>. QED
    BY <1>0, <1>1, <1>2, <1>3, Zenon DEF Vmcs

\* An exit with a known instruction keeps the invariant.
LEMMA ExitKeeps ==
  ASSUME IInv, mode = "guest", NEW reason, NEW length, NEW instruction, NEW bytes,
         Exit(reason, length, instruction, bytes), UNCHANGED <<rip, carried, efer, mem, video>>,
         regs' = [r \in Registers |-> regs'[r]], rip = 8 => EferRead', Exited'
  PROVE  IInv'
  <1>1. UNCHANGED <<rip, efer, mem, pg, video_buffer, screen>>
    BY Zenon DEF carried, video
  <1>2. Vmcs'
    BY <1>1, ExitVmcs, Zenon
  <1>3. mode' = "host"
    BY Zenon DEF Exit
  <1>4. Boot'
    BY <1>1, <1>3, Zenon DEF IInv, Boot
  <1>5. Typed'
    BY <1>1, Zenon DEF IInv, Typed
  <1>. QED
    BY <1>1, <1>2, <1>4, <1>5, Zenon DEF IInv

\* The fields of the exit.
FieldsAre(e, reason, length, instruction, bytes) ==
  e.reason = reason /\ e.length = length /\ e.instruction = instruction /\ e.bytes = bytes

\* What an exit records.
LEMMA ExitFields ==
  ASSUME NEW reason, NEW length, NEW instruction, NEW bytes,
         Exit(reason, length, instruction, bytes)
  PROVE  FieldsAre(exit', reason, length, instruction, bytes)
  BY Zenon DEF Exit, FieldsAre

\* A device interrupts, or the window opens.
LEMMA InterruptKeeps ==
  ASSUME IInv, Interrupt
  PROVE  IInv'
  <1> DEFINE Reasons == {"external_interrupt", "interrupt_window"}
  <1>1. PICK reason \in Reasons :
          /\ mode = "guest" /\ Exit(reason, 0, <<>>, <<>>)
          /\ UNCHANGED <<regs, rip, carried, efer, mem, video>>
    BY Zenon DEF Interrupt
  <1>2. exit'.reason = reason /\ exit'.length = 0
    <2>1. FieldsAre(exit', reason, 0, <<>>, <<>>)
      BY <1>1, ExitFields, Zenon
    <2>. QED
      BY <2>1, Zenon DEF FieldsAre
  <1>3. Exited'
    BY <1>2, Zenon DEF Exited
  <1>4. regs' = [r \in Registers |-> regs'[r]]
    BY <1>1, Zenon DEF IInv, Typed
  <1>5. rip = 8 => EferRead'
    <2>1. "guest" # "host" /\ reason # "wrmsr"
      OBVIOUS
    <2>. QED
      BY <1>1, <1>2, <2>1, Zenon DEF IInv, EferRead
  <1>. QED
    BY <1>1, <1>3, <1>4, <1>5, ExitKeeps, Zenon

\* The instructions that exit.
LEMMA LoudStep ==
  ASSUME NEW i, NEW op, GuestInstruction(i), Program[i].op = op, op \in Exiting
  PROVE  /\ mode = "guest" /\ rip = Program[i].at
         /\ regs' = CASE op = "mov_cr3" -> [regs EXCEPT ![RAX] = pml4_base]
                      [] op = "rdmsr" -> [regs EXCEPT ![RAX] = Zero, ![RDX] = Zero,
                                                      ![RCX] = IA32_EFER]
                      [] op = "wrmsr" -> [regs EXCEPT ![RAX][2] = 1 + 2 * (@ \div 2)]
                      [] OTHER -> regs
         /\ Exit(op, Program[i].length, IF op = "mov_cr3" THEN MovRaxToCr3 ELSE <<>>, <<>>)
         /\ UNCHANGED <<rip, carried, efer, mem, video>>
  BY Zenon DEF GuestInstruction, At, video

\* The registers of the MSR accesses and of rdtsc are different ones.
LEMMA ThreeRegisters ==
  /\ RAX \in Registers /\ RCX \in Registers /\ RDX \in Registers
  /\ RAX # RCX /\ RAX # RDX /\ RCX # RDX
  <1>1. 0 \in Registers /\ 1 \in Registers /\ 2 \in Registers
    BY RegistersAssumption, Zenon
  <1>2. 0 # 1 /\ 0 # 2 /\ 1 # 2
    OBVIOUS
  <1>. QED
    BY <1>1, <1>2, Zenon DEF RAX, RCX, RDX

\* The six instructions of the boot that exit.
LEMMA LoudKeeps ==
  ASSUME IInv, NEW i \in {4, 5, 6, 10, 11, 12}, GuestInstruction(i)
  PROVE  IInv'
  <1>0. regs = [r \in Registers |-> regs[r]] /\ (rip = 8 => EferRead)
    BY Zenon DEF IInv, Typed
  <1>1. CASE i = 4 \/ i = 10
    <2>1. Program[i].at \in {3, 13} /\ Program[i].length = 3 /\ Program[i].op = "mov_cr3"
      <3>1. Line(4, 3, "mov_cr3", 3) /\ Line(10, 13, "mov_cr3", 3)
        BY Lines, Zenon
      <3>. QED
        BY <1>1, <3>1, Zenon DEF Line
    <2>2. "mov_cr3" \in Exiting
      BY Zenon DEF Exiting
    <2>3. /\ mode = "guest" /\ rip \in {3, 13} /\ regs' = [regs EXCEPT ![RAX] = pml4_base]
          /\ Exit("mov_cr3", 3, MovRaxToCr3, <<>>)
          /\ UNCHANGED <<rip, carried, efer, mem, video>>
      BY <2>1, <2>2, LoudStep, Zenon
    <2>4. regs' = [r \in Registers |-> regs'[r]]
      BY <1>0, <2>3
    <2>5. exit'.reason = "mov_cr3" /\ exit'.length = 3 /\ exit'.instruction = MovRaxToCr3
      <3>1. FieldsAre(exit', "mov_cr3", 3, MovRaxToCr3, <<>>)
        BY <2>3, ExitFields, Zenon
      <3>. QED
        BY <3>1, Zenon DEF FieldsAre
    <2>6. Exited'
      BY <2>3, <2>5, Zenon DEF Exited
    <2>7. rip # 8
      BY <2>3
    <2>. QED
      BY <2>3, <2>4, <2>6, <2>7, ExitKeeps, Zenon
  <1>2. CASE i = 5
    <2>1. Program[i].at = 6 /\ Program[i].length = 2 /\ Program[i].op = "rdmsr"
      BY <1>2, Lines, Zenon DEF Line
    <2>2. "rdmsr" \in Exiting /\ "rdmsr" # "mov_cr3"
      BY Zenon DEF Exiting
    <2>3. /\ mode = "guest" /\ rip = 6
          /\ regs' = [regs EXCEPT ![RAX] = Zero, ![RDX] = Zero, ![RCX] = IA32_EFER]
          /\ Exit("rdmsr", 2, <<>>, <<>>)
          /\ UNCHANGED <<rip, carried, efer, mem, video>>
      BY <2>1, <2>2, LoudStep, Zenon
    <2>4. regs' = [r \in Registers |-> regs'[r]] /\ regs'[RCX] = IA32_EFER
      BY <1>0, <2>3, ThreeRegisters, Zenon
    <2>5. exit'.reason = "rdmsr" /\ exit'.length = 2
      <3>1. FieldsAre(exit', "rdmsr", 2, <<>>, <<>>)
        BY <2>3, ExitFields, Zenon
      <3>. QED
        BY <3>1, Zenon DEF FieldsAre
    <2>6. Exited'
      BY <2>3, <2>4, <2>5, Zenon DEF Exited
    <2>7. rip # 8
      BY <2>3
    <2>. QED
      BY <2>3, <2>4, <2>6, <2>7, ExitKeeps, Zenon
  <1>3. CASE i = 6
    <2>1. Program[i].at = 8 /\ Program[i].length = 2 /\ Program[i].op = "wrmsr"
      BY <1>3, Lines, Zenon DEF Line
    <2>2. "wrmsr" \in Exiting /\ "wrmsr" # "mov_cr3" /\ "wrmsr" # "rdmsr"
      BY Zenon DEF Exiting
    <2>3. /\ mode = "guest" /\ rip = 8
          /\ regs' = [regs EXCEPT ![RAX][2] = 1 + 2 * (@ \div 2)]
          /\ Exit("wrmsr", 2, <<>>, <<>>)
          /\ UNCHANGED <<rip, carried, efer, mem, video>>
      BY <2>1, <2>2, LoudStep, ZenonT(30)
    <2>4. /\ regs[RCX] = IA32_EFER /\ regs[RDX] = Zero /\ regs[RAX] = E0
      <3>1. "guest" # "host"
        OBVIOUS
      <3>. QED
        BY <1>0, <2>3, <3>1, Zenon DEF EferRead
    <2>5. regs' = [regs EXCEPT ![RAX] = E1]
      <3>1. regs' = [regs EXCEPT ![RAX] = [regs[RAX] EXCEPT ![2] = 1 + 2 * (regs[RAX][2] \div 2)]]
        BY <2>3, Zenon
      <3>. QED
        BY <2>4, <3>1, SetLme, Zenon
    <2>6. /\ regs' = [r \in Registers |-> regs'[r]]
          /\ regs'[RAX] = E1 /\ regs'[RCX] = IA32_EFER /\ regs'[RDX] = Zero
      <3>1. regs' = [r \in Registers |-> regs'[r]]
        BY <1>0, <2>5
      <3>2. regs'[RAX] = E1 /\ regs'[RCX] = regs[RCX] /\ regs'[RDX] = regs[RDX]
        BY <1>0, <2>5, ThreeRegisters
      <3>. QED
        BY <2>4, <3>1, <3>2, Zenon
    <2>7. exit'.reason = "wrmsr" /\ exit'.length = 2 /\ mode' = "host"
      <3>1. exit'.reason = "wrmsr" /\ exit'.length = 2
        <4>1. FieldsAre(exit', "wrmsr", 2, <<>>, <<>>)
          BY <2>3, ExitFields, Zenon
        <4>. QED
          BY <4>1, Zenon DEF FieldsAre
      <3>. QED
        BY <2>3, <3>1, Zenon DEF Exit
    <2>8. Exited'
      BY <2>3, <2>7, Zenon DEF Exited
    <2>9. EferRead'
      BY <2>6, <2>7, Zenon DEF EferRead
    <2>. QED
      BY <2>3, <2>6, <2>8, <2>9, ExitKeeps, Zenon
  <1>4. CASE i = 11 \/ i = 12
    <2>1. \/ Program[i].at = 16 /\ Program[i].length = 2 /\ Program[i].op = "rdtsc"
          \/ Program[i].at = 18 /\ Program[i].length = 1 /\ Program[i].op = "hlt"
      <3>1. Line(11, 16, "rdtsc", 2) /\ Line(12, 18, "hlt", 1)
        BY Lines, Zenon
      <3>. QED
        BY <1>4, <3>1, Zenon DEF Line
    <2> DEFINE op == Program[i].op
    <2>2. op \in Exiting /\ op # "mov_cr3" /\ op # "rdmsr" /\ op # "wrmsr"
      BY <2>1, Zenon DEF Exiting
    <2> HIDE DEF op
    <2>3. /\ mode = "guest" /\ rip = Program[i].at
          /\ regs' = regs
          /\ Exit(op, Program[i].length, <<>>, <<>>)
          /\ UNCHANGED <<rip, carried, efer, mem, video>>
      BY <2>2, LoudStep, Zenon DEF op
    <2>4. regs' = [r \in Registers |-> regs'[r]]
      BY <1>0, <2>3, Zenon
    <2>5. exit'.reason = op /\ exit'.length = Program[i].length
      <3>1. FieldsAre(exit', op, Program[i].length, <<>>, <<>>)
        BY <2>3, ExitFields, Zenon
      <3>. QED
        BY <3>1, Zenon DEF FieldsAre
    <2>6. Exited'
      BY <2>1, <2>3, <2>5, Zenon DEF Exited, op
    <2>7. rip # 8
      <3>1. 16 # 8 /\ 18 # 8
        OBVIOUS
      <3>. QED
        BY <2>1, <2>3, <3>1, Zenon
    <2>. QED
      BY <2>3, <2>4, <2>6, <2>7, ExitKeeps, Zenon
  <1>. QED
    BY <1>1, <1>2, <1>3, <1>4, Zenon

\* An access to the video page.
LEMMA DrawKeeps ==
  ASSUME IInv, GuestDraws
  PROVE  IInv'
  <1>1. PICK move \in Moves(Registers, Immediates) :
          \E offset \in {0, PageSize - move.size} :
            /\ mode = "guest" /\ rip = LoopStart
            /\ regs' = [r \in Registers |->
                          IF r = move.base THEN VideoAddress(offset)
                          ELSE IF r = move.reg /\ move.op = "store" THEN Pattern
                          ELSE regs[r]]
            /\ Exit("ept_misconfig", 0, move, Encode(move))
            /\ UNCHANGED <<rip, carried, efer, mem, video>>
    BY Zenon DEF GuestDraws
  <1>2. PICK offset \in {0, PageSize - move.size} :
          /\ mode = "guest" /\ rip = LoopStart
          /\ regs' = [r \in Registers |->
                        IF r = move.base THEN VideoAddress(offset)
                        ELSE IF r = move.reg /\ move.op = "store" THEN Pattern
                        ELSE regs[r]]
          /\ Exit("ept_misconfig", 0, move, Encode(move))
          /\ UNCHANGED <<rip, carried, efer, mem, video>>
    BY <1>1, Zenon
  <1>3. rip = 18 /\ rip' = rip
    BY <1>2, Lines, Zenon
  <1>4. move.base \in Registers
    BY MovesShape, RegistersAssumption, ImmediatesAssumption, Zenon
  <1>5. regs' = [r \in Registers |-> regs'[r]] /\ regs'[move.base] = VideoAddress(offset)
    BY <1>2, <1>4, Zenon
  <1>6. /\ exit'.reason = "ept_misconfig" /\ exit'.length = 0
        /\ exit'.instruction = move /\ exit'.bytes = Encode(move)
    <2>1. FieldsAre(exit', "ept_misconfig", 0, move, Encode(move))
      BY <1>2, ExitFields, Zenon
    <2>. QED
      BY <2>1, Zenon DEF FieldsAre
  <1>7. Exited'
    BY <1>2, <1>3, <1>5, <1>6, Zenon DEF Exited, Drew
  <1>8. rip # 8
    BY <1>3
  <1>. QED
    BY <1>2, <1>5, <1>7, <1>8, ExitKeeps, Zenon

\* An access to a port.
LEMMA PortsKeeps ==
  ASSUME IInv, GuestPorts
  PROVE  IInv'
  <1>1. PICK direction \in {"in", "out"}, byte \in PortBytes :
          /\ mode = "guest" /\ rip = LoopStart
          /\ regs' = [regs EXCEPT ![RAX] = Pattern]
          /\ Exit("io", 1, PortByte(direction, byte), <<>>)
          /\ UNCHANGED <<rip, carried, efer, mem, video>>
    BY Zenon DEF GuestPorts
  <1>2. rip = 18 /\ rip' = rip
    BY <1>1, Lines, Zenon
  <1>3. regs = [r \in Registers |-> regs[r]]
    BY Zenon DEF IInv, Typed
  <1>4. regs' = [r \in Registers |-> regs'[r]]
    BY <1>1, <1>3, Zenon
  <1>5. /\ exit'.reason = "io" /\ exit'.length = 1
        /\ exit'.instruction = PortByte(direction, byte)
    <2>1. FieldsAre(exit', "io", 1, PortByte(direction, byte), <<>>)
      BY <1>1, ExitFields, Zenon
    <2>. QED
      BY <2>1, Zenon DEF FieldsAre
  <1>6. Exited'
    BY <1>2, <1>5, Zenon DEF Exited, Ports
  <1>7. rip # 8
    BY <1>2
  <1>. QED
    BY <1>1, <1>4, <1>6, <1>7, ExitKeeps, Zenon

\* The idle loop.
LEMMA LoopsKeeps ==
  ASSUME IInv, GuestLoops
  PROVE  IInv'
  <1>1. /\ mode = "guest" /\ rip > 18 /\ rip' = 18
        /\ UNCHANGED <<mode, regs, carried, efer, vmcs, exit, mem, video>>
    BY Lines, Zenon DEF GuestLoops
  <1>2. rip \in Int /\ efer = EferAt(rip) /\ (pg <=> rip > 10) /\ mem = TablesAt(rip)
    BY Zenon DEF IInv, Boot
  <1>3. /\ rip > 10 /\ ~(rip < 10) /\ rip # 10 /\ ~(rip < 3) /\ ~(rip < 13)
        /\ 18 > 10 /\ ~(18 < 10) /\ 18 # 10 /\ ~(18 < 3) /\ ~(18 < 13)
        /\ 18 \in Int /\ 18 # 8 /\ 18 \in Places
    BY <1>1, <1>2 DEF Places
  <1>4. Moved(rip, 18)
    BY <1>1, <1>2, <1>3, Zenon DEF Moved, EferAt, TablesAt, carried
  <1>. QED
    BY <1>2, <1>3, <1>4, MovedKeeps, Zenon

\* initialize_vmcs establishes the invariant.
LEMMA StartsRight == Init => IInv
  <1> SUFFICES ASSUME Init PROVE IInv
    OBVIOUS
  <1>1. mode = "guest" /\ rip = 0 /\ ~pg /\ efer = E0 /\ mem = NoTables
    BY Zenon DEF Init, E0
  <1>2. rip \in Int /\ rip \in Places /\ ~(rip > 10) /\ rip < 10 /\ rip < 3 /\ rip # 8
    BY <1>1 DEF Places
  <1>3. Boot
    BY <1>1, <1>2, Zenon DEF Boot, EferAt, TablesAt
  <1>4. Vmcs
    <2> DEFINE pin == Control(PIN_WANTED, Full)
               pri == Control(PRI_WANTED, Primary)
               sec == Control(SEC_WANTED, Full)
               out == Control(EXIT_WANTED, Full)
               in == Control(ENTRY_WANTED, Full)
    <2>1. vmcs = [efer |-> E0, pin |-> pin, pri |-> pri, sec |-> sec, vm_exit |-> out,
                  vm_entry |-> in]
      BY Zenon DEF Init, E0
    <2>2. 20 \notin out
      BY DEF Control, fix_reserved_0_bits, fix_reserved_1_bits, EXIT_WANTED, Full
    <2> HIDE DEF pin, pri, sec, out, in
    <2>3. vmcs = [f \in VmcsFields |-> vmcs[f]] /\ vmcs.efer = E0 /\ vmcs.vm_exit = out
      BY <2>1 DEF VmcsFields
    <2>. QED
      BY <1>1, <2>2, <2>3, Zenon DEF Vmcs
  <1>5. Typed
    BY Zenon DEF Init, Typed
  <1>. QED
    BY <1>1, <1>2, <1>3, <1>4, <1>5, Zenon DEF IInv

(* The monitor. *)

\* The machine the handlers work on.
Machine(r, n, c, e, b, s) ==
  [regs |-> r, rip |-> n, cr3 |-> c, efer |-> e, buffer |-> b, screen |-> s, ok |-> TRUE]

\* vm_exit_handler_entry restores LMA before any handler looks at EFER.
LEMMA LmaAdjusted ==
  ASSUME IInv, mode = "host"
  PROVE  AdjustLma(vmcs).efer = efer
  <1>0. /\ vmcs = [f \in VmcsFields |-> vmcs[f]]
        /\ vmcs.efer = efer \/ (vmcs.efer = E1 /\ rip > 10)
        /\ IA32E_GUEST \in vmcs.vm_entry <=> rip > 10
        /\ rip \in Int /\ efer = EferAt(rip)
    BY Zenon DEF IInv, Vmcs, Boot
  <1> DEFINE drop == IF Lma(vmcs.efer) THEN 4 ELSE 0
             add == IF IA32E_GUEST \in vmcs.vm_entry THEN 4 ELSE 0
             old == vmcs.efer
  <1>1. AdjustLma(vmcs).efer = [old EXCEPT ![2] = (old[2] - drop) + add]
    <2> DEFINE new == [old EXCEPT ![2] = (old[2] - drop) + add]
    <2>1. AdjustLma(vmcs) = [vmcs EXCEPT !.efer = new]
      BY Zenon DEF AdjustLma
    <2> HIDE DEF new
    <2>2. [vmcs EXCEPT !.efer = new].efer = new
      BY <1>0 DEF VmcsFields
    <2>. QED
      BY <2>1, <2>2, Zenon DEF new
  <1>2. \A a, x \in Int : [Second(a) EXCEPT ![2] = x] = Second(x)
    BY Zenon DEF Second
  <1>3. E0[2] = 0 /\ E1[2] = 1 /\ E5[2] = 5
    BY EferValues, SecondByte, Zenon
  <1>4. CASE rip > 10
    <2>1. efer = E5 /\ add = 4
      <3>1. ~(rip < 10) /\ rip # 10
        BY <1>0, <1>4
      <3>. QED
        BY <1>0, <1>4, <3>1, Zenon DEF EferAt
    <2>2. old = E5 \/ old = E1
      BY <1>0, <2>1, Zenon
    <2>3. CASE old = E5
      <3>1. drop = 4 /\ old[2] = 5
        BY <1>3, <2>3, EferBits, Zenon
      <3>2. (old[2] - drop) + add = 5
        BY <2>1, <3>1
      <3>3. [E5 EXCEPT ![2] = 5] = E5
        <4>1. [Second(5) EXCEPT ![2] = 5] = Second(5)
          BY <1>2
        <4>. QED
          BY <4>1, EferValues, Zenon
      <3>. QED
        BY <1>1, <2>1, <2>3, <3>2, <3>3, Zenon
    <2>4. CASE old = E1
      <3>1. drop = 0 /\ old[2] = 1
        BY <1>3, <2>4, EferBits, Zenon
      <3>2. (old[2] - drop) + add = 5
        BY <2>1, <3>1
      <3>3. [E1 EXCEPT ![2] = 5] = E5
        <4>1. [Second(1) EXCEPT ![2] = 5] = Second(5)
          BY <1>2
        <4>. QED
          BY <4>1, EferValues, Zenon
      <3>. QED
        BY <1>1, <2>1, <2>4, <3>2, <3>3, Zenon
    <2>. QED
      BY <2>2, <2>3, <2>4, Zenon
  <1>5. CASE ~(rip > 10)
    <2>1. old = efer /\ add = 0 /\ (efer = E0 \/ efer = E1)
      <3>1. rip < 10 \/ rip = 10
        BY <1>0, <1>5
      <3>. QED
        BY <1>0, <1>5, <3>1, Zenon DEF EferAt
    <2>2. drop = 0
      BY <2>1, EferBits, Zenon
    <2>3. old[2] \in Int /\ (old[2] - drop) + add = old[2]
      <3>1. old[2] \in {0, 1}
        BY <1>3, <2>1, Zenon
      <3>. QED
        BY <2>1, <2>2, <3>1
    <2>4. [old EXCEPT ![2] = old[2]] = old
      <3>1. /\ [Second(0) EXCEPT ![2] = Second(0)[2]] = Second(0)
            /\ [Second(1) EXCEPT ![2] = Second(1)[2]] = Second(1)
        BY Zenon DEF Second
      <3>. QED
        BY <2>1, <3>1, EferValues, Zenon
    <2>. QED
      BY <1>1, <2>1, <2>3, <2>4, Zenon
  <1>. QED
    BY <1>4, <1>5, Zenon

Is(m, r, n, c, e, b, s) == m = Machine(r, n, c, e, b, s)
FieldsOf(m, r, n, c, e, b, s) ==
  /\ m.regs = r /\ m.rip = n /\ m.cr3 = c /\ m.efer = e /\ m.buffer = b /\ m.screen = s /\ m.ok
Changes(m, r, n, c, e, b, s, x) ==
  /\ Is([m EXCEPT !.regs = x], x, n, c, e, b, s) /\ Is([m EXCEPT !.rip = x], r, x, c, e, b, s)
  /\ Is([m EXCEPT !.cr3 = x], r, n, x, e, b, s) /\ Is([m EXCEPT !.efer = x], r, n, c, x, b, s)
  /\ Is([m EXCEPT !.buffer = x], r, n, c, e, x, s)
  /\ Is([m EXCEPT !.screen = x], r, n, c, e, b, x)

\* The fields of a machine.
LEMMA MachineFields ==
  ASSUME NEW m, NEW r, NEW n, NEW c, NEW e, NEW b, NEW s, Is(m, r, n, c, e, b, s)
  PROVE  FieldsOf(m, r, n, c, e, b, s)
  BY DEF Is, Machine, FieldsOf

Record(r, n, c, e, b, s, k) ==
  [regs |-> r, rip |-> n, cr3 |-> c, efer |-> e, buffer |-> b, screen |-> s, ok |-> k]
RecordChanges(r, n, c, e, b, s, k, x) ==
  /\ [Record(r, n, c, e, b, s, k) EXCEPT !.regs = x] = Record(x, n, c, e, b, s, k)
  /\ [Record(r, n, c, e, b, s, k) EXCEPT !.rip = x] = Record(r, x, c, e, b, s, k)
  /\ [Record(r, n, c, e, b, s, k) EXCEPT !.cr3 = x] = Record(r, n, x, e, b, s, k)
  /\ [Record(r, n, c, e, b, s, k) EXCEPT !.efer = x] = Record(r, n, c, x, b, s, k)
  /\ [Record(r, n, c, e, b, s, k) EXCEPT !.buffer = x] = Record(r, n, c, e, x, s, k)
  /\ [Record(r, n, c, e, b, s, k) EXCEPT !.screen = x] = Record(r, n, c, e, b, x, k)

\* A record with one field replaced.
LEMMA Rebuilt ==
  ASSUME NEW r, NEW n, NEW c, NEW e, NEW b, NEW s, NEW k, NEW x
  PROVE  RecordChanges(r, n, c, e, b, s, k, x)
  BY DEF Record, RecordChanges

\* A machine with one field replaced.
LEMMA MachineChanges ==
  ASSUME NEW m, NEW r, NEW n, NEW c, NEW e, NEW b, NEW s, Is(m, r, n, c, e, b, s), NEW x
  PROVE  Changes(m, r, n, c, e, b, s, x)
  <1>1. RecordChanges(r, n, c, e, b, s, TRUE, x)
    BY Rebuilt, Zenon
  <1>2. m = Machine(r, n, c, e, b, s)
    BY Zenon DEF Is
  <1>3. /\ Machine(r, n, c, e, b, s) = Record(r, n, c, e, b, s, TRUE)
        /\ Machine(x, n, c, e, b, s) = Record(x, n, c, e, b, s, TRUE)
        /\ Machine(r, x, c, e, b, s) = Record(r, x, c, e, b, s, TRUE)
        /\ Machine(r, n, x, e, b, s) = Record(r, n, x, e, b, s, TRUE)
        /\ Machine(r, n, c, x, b, s) = Record(r, n, c, x, b, s, TRUE)
        /\ Machine(r, n, c, e, x, s) = Record(r, n, c, e, x, s, TRUE)
        /\ Machine(r, n, c, e, b, x) = Record(r, n, c, e, b, x, TRUE)
    BY Zenon DEF Machine, Record
  <1>4. /\ [m EXCEPT !.regs = x] = Machine(x, n, c, e, b, s)
        /\ [m EXCEPT !.rip = x] = Machine(r, x, c, e, b, s)
        /\ [m EXCEPT !.cr3 = x] = Machine(r, n, x, e, b, s)
        /\ [m EXCEPT !.efer = x] = Machine(r, n, c, x, b, s)
        /\ [m EXCEPT !.buffer = x] = Machine(r, n, c, e, x, s)
        /\ [m EXCEPT !.screen = x] = Machine(r, n, c, e, b, x)
    BY <1>1, <1>2, <1>3, Zenon DEF RecordChanges
  <1>. QED
    BY <1>4, Zenon DEF Changes, Is

\* GOTO_NEXT_INSTRUCTION moves rip.
LEMMA Goto ==
  ASSUME NEW m, NEW r, NEW n, NEW c, NEW e, NEW b, NEW s, Is(m, r, n, c, e, b, s), NEW l
  PROVE  Is(GOTO_NEXT_INSTRUCTION(m, l), r, n + l, c, e, b, s)
  <1>1. m.rip = n
    BY MachineFields, Zenon DEF FieldsOf
  <1>2. GOTO_NEXT_INSTRUCTION(m, l) = [m EXCEPT !.rip = n + l]
    BY <1>1, Zenon DEF GOTO_NEXT_INSTRUCTION
  <1>3. Changes(m, r, n, c, e, b, s, n + l)
    BY MachineChanges, Zenon
  <1>. QED
    BY <1>2, <1>3, Zenon DEF Changes

\* mov to CR3.
LEMMA CrHandler ==
  ASSUME NEW m, NEW r, NEW n, NEW c, NEW e, NEW b, NEW s, Is(m, r, n, c, e, b, s),
         exit.instruction = MovRaxToCr3
  PROVE  Is(controll_register_access_exit_sub_handler(m), r, n + exit.length, r[RAX], e, b, s)
  <1>1. m.regs = r
    BY MachineFields, Zenon DEF FieldsOf
  <1> DEFINE m2 == [m EXCEPT !.cr3 = r[RAX]]
  <1>2. Changes(m, r, n, c, e, b, s, r[RAX])
    BY MachineChanges, Zenon
  <1>3. Is(m2, r, n, r[RAX], e, b, s)
    BY <1>2, Zenon DEF Changes
  <1>4. MovRaxToCr3.cr = 3 /\ MovRaxToCr3.access = "mov_to_cr" /\ MovRaxToCr3.gp_reg = RAX
    BY DEF MovRaxToCr3
  <1>5. controll_register_access_exit_sub_handler(m) = GOTO_NEXT_INSTRUCTION(m2, exit.length)
    BY <1>1, <1>4, Zenon DEF controll_register_access_exit_sub_handler
  <1> HIDE DEF m2
  <1>6. Is(GOTO_NEXT_INSTRUCTION(m2, exit.length), r, n + exit.length, r[RAX], e, b, s)
    BY <1>3, Goto, Zenon
  <1>. QED
    BY <1>5, <1>6, Zenon

EferInRegisters(r, e) == [r EXCEPT ![RAX] = Low(e), ![RDX] = High(e)]
TscInRegisters(r) == [r EXCEPT ![RDX] = High(Tsc), ![RAX] = Low(Tsc), ![RCX] = CPU_FREQUENCY]

\* rdmsr of EFER.
LEMMA RdmsrHandler ==
  ASSUME NEW m, NEW r, NEW n, NEW c, NEW e, NEW b, NEW s, Is(m, r, n, c, e, b, s),
         r[RCX] = IA32_EFER
  PROVE  Is(rdmsr_exit_sub_handler(m), EferInRegisters(r, e), n + exit.length, c, e, b, s)
  <1>1. m.regs = r /\ m.efer = e
    BY MachineFields, Zenon DEF FieldsOf
  <1> DEFINE x == EferInRegisters(r, e)
             m2 == [m EXCEPT !.regs = x]
  <1>2. Changes(m, r, n, c, e, b, s, x)
    BY MachineChanges, Zenon
  <1>3. Is(m2, x, n, c, e, b, s)
    BY <1>2, Zenon DEF Changes
  <1>4. rdmsr_exit_sub_handler(m) = GOTO_NEXT_INSTRUCTION(m2, exit.length)
    BY <1>1, Zenon DEF rdmsr_exit_sub_handler, EferInRegisters
  <1> HIDE DEF m2, x
  <1>5. Is(GOTO_NEXT_INSTRUCTION(m2, exit.length), x, n + exit.length, c, e, b, s)
    BY <1>3, Goto, Zenon
  <1>. QED
    BY <1>4, <1>5, Zenon DEF x

\* wrmsr of EFER.
LEMMA WrmsrHandler ==
  ASSUME NEW m, NEW r, NEW n, NEW c, NEW e, NEW b, NEW s, Is(m, r, n, c, e, b, s),
         r[RCX] = IA32_EFER
  PROVE  Is(wrmsr_exit_sub_handler(m), r, n + exit.length, c, Low(r[RAX]), b, s)
  <1>1. m.regs = r
    BY MachineFields, Zenon DEF FieldsOf
  <1> DEFINE x == Low(r[RAX])
             m2 == [m EXCEPT !.efer = x]
  <1>2. Changes(m, r, n, c, e, b, s, x)
    BY MachineChanges, Zenon
  <1>3. Is(m2, r, n, c, x, b, s)
    BY <1>2, Zenon DEF Changes
  <1>4. wrmsr_exit_sub_handler(m) = GOTO_NEXT_INSTRUCTION(m2, exit.length)
    BY <1>1, Zenon DEF wrmsr_exit_sub_handler
  <1> HIDE DEF m2, x
  <1>5. Is(GOTO_NEXT_INSTRUCTION(m2, exit.length), r, n + exit.length, c, x, b, s)
    BY <1>3, Goto, Zenon
  <1>. QED
    BY <1>4, <1>5, Zenon DEF x

\* rdtsc.
LEMMA RdtscHandler ==
  ASSUME NEW m, NEW r, NEW n, NEW c, NEW e, NEW b, NEW s, Is(m, r, n, c, e, b, s)
  PROVE  Is(rdtsc_exit_sub_handler(m), TscInRegisters(r), n + exit.length, c, e, b, s)
  <1>1. m.regs = r
    BY MachineFields, Zenon DEF FieldsOf
  <1> DEFINE x == TscInRegisters(r)
             m2 == [m EXCEPT !.regs = x]
  <1>2. Changes(m, r, n, c, e, b, s, x)
    BY MachineChanges, Zenon
  <1>3. Is(m2, x, n, c, e, b, s)
    BY <1>2, Zenon DEF Changes
  <1>4. rdtsc_exit_sub_handler(m) = GOTO_NEXT_INSTRUCTION(m2, exit.length)
    BY <1>1, Zenon DEF rdtsc_exit_sub_handler, TscInRegisters
  <1> HIDE DEF m2, x
  <1>5. Is(GOTO_NEXT_INSTRUCTION(m2, exit.length), x, n + exit.length, c, e, b, s)
    BY <1>3, Goto, Zenon
  <1>. QED
    BY <1>4, <1>5, Zenon DEF x

\* The registers after a port access.
PortInRegisters(r, direction, byte) ==
  IF direction = "in" THEN [r EXCEPT ![RAX] = Value(<<byte>>)] ELSE r

\* A byte from or to a port.
LEMMA IoHandler ==
  ASSUME NEW m, NEW r, NEW n, NEW c, NEW e, NEW b, NEW s, Is(m, r, n, c, e, b, s),
         NEW direction, NEW byte, exit.instruction = PortByte(direction, byte)
  PROVE  Is(io_instruction_exit_sub_handler(m), PortInRegisters(r, direction, byte),
            n + exit.length, c, e, b, s)
  <1>1. m.regs = r
    BY MachineFields, Zenon DEF FieldsOf
  <1>2. LET q == PortByte(direction, byte)
        IN  /\ q.operand = "dx" /\ q.access_size = 0
            /\ q.direction = direction /\ q.byte = byte
    BY DEF PortByte
  <1> DEFINE x == [r EXCEPT ![RAX] = Value(<<byte>>)]
             m2 == [m EXCEPT !.regs = x]
  <1>3. Changes(m, r, n, c, e, b, s, x)
    BY MachineChanges, Zenon
  <1>4. Is(m2, x, n, c, e, b, s)
    BY <1>3, Zenon DEF Changes
  <1>5. CASE direction = "in"
    <2>1. io_instruction_exit_sub_handler(m) = GOTO_NEXT_INSTRUCTION(m2, exit.length)
      BY <1>1, <1>2, <1>5, Zenon DEF io_instruction_exit_sub_handler
    <2>2. PortInRegisters(r, direction, byte) = x
      BY <1>5, Zenon DEF PortInRegisters
    <2> HIDE DEF m2, x
    <2>3. Is(GOTO_NEXT_INSTRUCTION(m2, exit.length), x, n + exit.length, c, e, b, s)
      BY <1>4, Goto, Zenon
    <2>. QED
      BY <2>1, <2>2, <2>3, Zenon
  <1>6. CASE direction # "in"
    <2>1. io_instruction_exit_sub_handler(m) = GOTO_NEXT_INSTRUCTION(m, exit.length)
      BY <1>2, <1>6, Zenon DEF io_instruction_exit_sub_handler
    <2>2. PortInRegisters(r, direction, byte) = r
      BY <1>6, Zenon DEF PortInRegisters
    <2>3. Is(GOTO_NEXT_INSTRUCTION(m, exit.length), r, n + exit.length, c, e, b, s)
      BY Goto, Zenon
    <2>. QED
      BY <2>1, <2>2, <2>3, Zenon
  <1>. QED
    BY <1>5, <1>6, Zenon

\* The accesses to the video page.
Loaded(b, offset, size) == Value([i \in 1 .. size |-> b[offset + i - 1]])
Written(b, value, offset, size) ==
  [o \in DOMAIN b |-> IF o \in offset .. offset + size - 1 THEN value[o - offset + 1] ELSE b[o]]
Aimed(r, move, offset) ==
  /\ r[move.base] = VideoAddress(offset)
  /\ offset \in 0 .. PageSize - 1 /\ ~(offset + move.size > PageSize)

\* The fields of a decoded move.
LEMMA MeaningFields ==
  ASSUME NEW move
  PROVE  /\ Meaning(move).operand_hint = HintOf(move.op)
         /\ Meaning(move).instruction_length = Len(Encode(move))
         /\ Meaning(move).reg_index = move.reg /\ Meaning(move).rm_index = move.base
         /\ Meaning(move).access_size = move.size /\ Meaning(move).immediate = Value(move.imm)
  BY Zenon DEF Meaning

\* The direction of each kind of move.
LEMMA Hints ==
  /\ HintOf("movzx") = "MR" /\ HintOf("load") = "MR" /\ HintOf("store") = "RM"
  /\ HintOf("immediate") = "IM"
  BY DEF HintOf

Loads(move) == move.op \in {"movzx", "load"}

\* The handler once the access is found and fits.
LEMMA EptAccess ==
  ASSUME NEW m, NEW r, NEW n, NEW c, NEW e, NEW b, NEW s, Is(m, r, n, c, e, b, s),
         NEW move, NEW offset, Aimed(r, move, offset), HintOf(move.op) # "none"
  PROVE  ept_misconfig_exit_sub_handler(m, Meaning(move)) =
           GOTO_NEXT_INSTRUCTION(
             IF HintOf(move.op) = "MR"
             THEN vcpu_set_gp_regiter(m, move.reg, video_buffer_mmio_read(m, offset, move.size))
             ELSE video_buffer_mmio_write(m, offset, move.size,
                    IF HintOf(move.op) = "RM" THEN vcpu_get_gp_regiter(m, move.reg)
                    ELSE Value(move.imm)),
             Len(Encode(move)))
  <1> DEFINE ctx == Meaning(move)
  <1>1. /\ ctx.operand_hint = HintOf(move.op) /\ ctx.instruction_length = Len(Encode(move))
        /\ ctx.reg_index = move.reg /\ ctx.rm_index = move.base
        /\ ctx.access_size = move.size /\ ctx.immediate = Value(move.imm)
    BY MeaningFields, Zenon
  <1>2. vcpu_get_gp_regiter(m, move.base) = VideoAddress(offset)
    <2>1. m.regs = r
      BY MachineFields, Zenon DEF FieldsOf
    <2>. QED
      BY <2>1, Zenon DEF vcpu_get_gp_regiter, Aimed
  <1>3. VideoAddress(offset)[1] = offset
    BY VideoBytes, Zenon
  <1>4. search_mmio_callback(VideoAddress(offset))
    BY Zenon DEF search_mmio_callback, IsVideo, Aimed
  <1>5. ~(offset + move.size > PageSize)
    BY Zenon DEF Aimed
  <1> HIDE DEF ctx
  <1>6. ept_misconfig_exit_sub_handler(m, ctx) =
          GOTO_NEXT_INSTRUCTION(
             IF HintOf(move.op) = "MR"
             THEN vcpu_set_gp_regiter(m, move.reg, video_buffer_mmio_read(m, offset, move.size))
             ELSE video_buffer_mmio_write(m, offset, move.size,
                    IF HintOf(move.op) = "RM" THEN vcpu_get_gp_regiter(m, move.reg)
                    ELSE Value(move.imm)),
             Len(Encode(move)))
    BY <1>1, <1>2, <1>3, <1>4, <1>5, Zenon DEF ept_misconfig_exit_sub_handler
  <1>. QED
    BY <1>6, Zenon DEF ctx

\* A load puts the bytes of the video page in the register.
LEMMA EptLoad ==
  ASSUME NEW m, NEW r, NEW n, NEW c, NEW e, NEW b, NEW s, Is(m, r, n, c, e, b, s),
         NEW move, NEW offset, Aimed(r, move, offset), Loads(move)
  PROVE  Is(ept_misconfig_exit_sub_handler(m, Meaning(move)),
            [r EXCEPT ![move.reg] = Loaded(b, offset, move.size)],
            n + Len(Encode(move)), c, e, b, s)
  <1>1. HintOf(move.op) = "MR"
    BY Hints, Zenon DEF Loads
  <1>2. m.regs = r /\ m.buffer = b
    BY MachineFields, Zenon DEF FieldsOf
  <1> DEFINE x == [r EXCEPT ![move.reg] = Loaded(b, offset, move.size)]
             m2 == [m EXCEPT !.regs = x]
             l == Len(Encode(move))
  <1>3. vcpu_set_gp_regiter(m, move.reg, video_buffer_mmio_read(m, offset, move.size)) = m2
    BY <1>2, Zenon DEF vcpu_set_gp_regiter, video_buffer_mmio_read, Loaded
  <1>4. Changes(m, r, n, c, e, b, s, x)
    BY MachineChanges, Zenon
  <1>5. Is(m2, x, n, c, e, b, s)
    BY <1>4, Zenon DEF Changes
  <1> HIDE DEF m2, x, l
  <1>6. Is(GOTO_NEXT_INSTRUCTION(m2, l), x, n + l, c, e, b, s)
    BY <1>5, Goto, Zenon
  <1>7. ept_misconfig_exit_sub_handler(m, Meaning(move)) = GOTO_NEXT_INSTRUCTION(m2, l)
    <2>1. HintOf(move.op) # "none"
      BY <1>1
    <2>2. ept_misconfig_exit_sub_handler(m, Meaning(move)) =
           GOTO_NEXT_INSTRUCTION(
             IF HintOf(move.op) = "MR"
             THEN vcpu_set_gp_regiter(m, move.reg, video_buffer_mmio_read(m, offset, move.size))
             ELSE video_buffer_mmio_write(m, offset, move.size,
                    IF HintOf(move.op) = "RM" THEN vcpu_get_gp_regiter(m, move.reg)
                    ELSE Value(move.imm)),
             Len(Encode(move)))
      BY <2>1, EptAccess, Zenon
    <2>. QED
      BY <1>1, <1>3, <2>2, Zenon DEF l
  <1>. QED
    BY <1>6, <1>7, Zenon DEF x, l

\* memcpy from the bytes of a value.
LEMMA Copied ==
  ASSUME NEW b, NEW value, NEW offset, NEW size
  PROVE  memcpy(b, [o \in offset .. offset + size - 1 |-> value[o - offset + 1]], offset, size)
           = Written(b, value, offset, size)
  <1> DEFINE range == offset .. offset + size - 1
             bytes == [o \in range |-> value[o - offset + 1]]
  <1>1. \A o \in range : bytes[o] = value[o - offset + 1]
    BY Zenon
  <1> HIDE DEF bytes
  <1>2. memcpy(b, bytes, offset, size) = [o \in DOMAIN b |-> IF o \in range THEN bytes[o] ELSE b[o]]
    BY Zenon DEF memcpy
  <1>3. Written(b, value, offset, size)
          = [o \in DOMAIN b |-> IF o \in range THEN value[o - offset + 1] ELSE b[o]]
    BY Zenon DEF Written
  <1> HIDE DEF range
  <1>4. \A o \in DOMAIN b : (IF o \in range THEN bytes[o] ELSE b[o])
                              = (IF o \in range THEN value[o - offset + 1] ELSE b[o])
    BY <1>1, Zenon
  <1>5. memcpy(b, bytes, offset, size) = Written(b, value, offset, size)
    BY <1>2, <1>3, <1>4, Zenon
  <1>. QED
    BY <1>5, Zenon DEF bytes, range

\* What a store writes.
StoredValue(r, move) == IF move.op = "store" THEN r[move.reg] ELSE Value(move.imm)

\* A store changes the video page, and shows the change on the screen.
LEMMA EptStore ==
  ASSUME NEW m, NEW r, NEW n, NEW c, NEW e, NEW b, NEW s, Is(m, r, n, c, e, b, s),
         NEW move, NEW offset, Aimed(r, move, offset), move.op \in {"store", "immediate"}
  PROVE  Is(ept_misconfig_exit_sub_handler(m, Meaning(move)), r, n + Len(Encode(move)), c, e,
            Written(b, StoredValue(r, move), offset, move.size),
            memcpy(s, Written(b, StoredValue(r, move), offset, move.size), offset, move.size))
  <1>1. /\ HintOf(move.op) # "MR" /\ HintOf(move.op) # "none"
        /\ HintOf(move.op) = "RM" <=> move.op = "store"
    <2>1. "RM" # "MR" /\ "IM" # "MR" /\ "RM" # "none" /\ "IM" # "none" /\ "IM" # "RM"
          /\ "store" # "immediate"
      OBVIOUS
    <2>. QED
      BY <2>1, Hints, Zenon
  <1>2. m.regs = r /\ m.buffer = b /\ m.screen = s
    BY MachineFields, Zenon DEF FieldsOf
  <1> DEFINE v == StoredValue(r, move)
             x == Written(b, v, offset, move.size)
             y == memcpy(s, x, offset, move.size)
             m1 == [m EXCEPT !.buffer = x]
             m2 == [m1 EXCEPT !.screen = y]
             l == Len(Encode(move))
  <1>3. (IF HintOf(move.op) = "RM" THEN vcpu_get_gp_regiter(m, move.reg) ELSE Value(move.imm)) = v
    BY <1>1, <1>2, Zenon DEF StoredValue, vcpu_get_gp_regiter
  <1> HIDE DEF v
  <1>4. video_buffer_mmio_write(m, offset, move.size, v) = m2
    <2>1. memcpy(b, [o \in offset .. offset + move.size - 1 |-> v[o - offset + 1]], offset, move.size) = x
      BY Copied, Zenon
    <2> HIDE DEF x
    <2>2. video_buffer_mmio_write(m, offset, move.size, v) = [m EXCEPT !.buffer = x, !.screen = y]
      BY <1>2, <2>1, Zenon DEF video_buffer_mmio_write, incremental_refresh_video
    <2> HIDE DEF y
    <2>3. [m EXCEPT !.buffer = x, !.screen = y] = [[m EXCEPT !.buffer = x] EXCEPT !.screen = y]
      BY Zenon
    <2>. QED
      BY <2>2, <2>3, Zenon
  <1> HIDE DEF x, y
  <1>5. Changes(m, r, n, c, e, b, s, x)
    BY MachineChanges, Zenon
  <1>6. Is(m1, r, n, c, e, x, s)
    BY <1>5, Zenon DEF Changes
  <1> HIDE DEF m1
  <1>7. Changes(m1, r, n, c, e, x, s, y)
    BY <1>6, MachineChanges, Zenon
  <1>8. Is(m2, r, n, c, e, x, y)
    BY <1>7, Zenon DEF Changes
  <1> HIDE DEF m2, l
  <1>9. Is(GOTO_NEXT_INSTRUCTION(m2, l), r, n + l, c, e, x, y)
    BY <1>8, Goto, Zenon
  <1>10. ept_misconfig_exit_sub_handler(m, Meaning(move)) = GOTO_NEXT_INSTRUCTION(m2, l)
    <2>1. ept_misconfig_exit_sub_handler(m, Meaning(move)) =
           GOTO_NEXT_INSTRUCTION(
             IF HintOf(move.op) = "MR"
             THEN vcpu_set_gp_regiter(m, move.reg, video_buffer_mmio_read(m, offset, move.size))
             ELSE video_buffer_mmio_write(m, offset, move.size,
                    IF HintOf(move.op) = "RM" THEN vcpu_get_gp_regiter(m, move.reg)
                    ELSE Value(move.imm)),
             Len(Encode(move)))
      BY <1>1, EptAccess, Zenon
    <2>. QED
      BY <1>1, <1>3, <1>4, <2>1, Zenon DEF l
  <1>. QED
    BY <1>9, <1>10, Zenon DEF x, y, v, l

\* What the instruction does, and the machine the handlers give.
Effect(r, c, e, b, l) == [regs |-> r, cr3 |-> c, efer |-> e, buffer |-> b, length |-> l]
Shown(b) == [o \in DOMAIN screen |-> IF o \in StoredBytes THEN b[o] ELSE screen[o]]
Entering == Machine(regs, rip, cr3, efer, video_buffer, screen)
Handled == sub_handlers(exit.reason, Entering, Decoded)
Handles(r, l, c, e, b, s) ==
  /\ Is(Handled, r, rip + l, c, e, b, s)
  /\ Executed = Effect(r, c, e, b, l)
  /\ s = Shown(b)

Same == Effect(regs, cr3, efer, video_buffer, exit.length)

EffectChanges(r, c, e, b, l, x) ==
  /\ [Effect(r, c, e, b, l) EXCEPT !.regs = x] = Effect(x, c, e, b, l)
  /\ [Effect(r, c, e, b, l) EXCEPT !.cr3 = x] = Effect(r, x, e, b, l)
  /\ [Effect(r, c, e, b, l) EXCEPT !.efer = x] = Effect(r, c, x, b, l)
  /\ [Effect(r, c, e, b, l) EXCEPT !.buffer = x] = Effect(r, c, e, x, l)
  /\ [Effect(r, c, e, b, l) EXCEPT !.length = x] = Effect(r, c, e, b, x)

\* An effect with one field replaced.
LEMMA EffectRebuilt ==
  ASSUME NEW r, NEW c, NEW e, NEW b, NEW l, NEW x
  PROVE  EffectChanges(r, c, e, b, l, x)
  BY DEF Effect, EffectChanges

\* The effects Executed starts from and replaces fields of.
LEMMA SameChanges ==
  ASSUME NEW x, NEW l
  PROVE  /\ [Same EXCEPT !.regs = x] = Effect(x, cr3, efer, video_buffer, exit.length)
         /\ [Same EXCEPT !.cr3 = x] = Effect(regs, x, efer, video_buffer, exit.length)
         /\ [Same EXCEPT !.efer = x] = Effect(regs, cr3, x, video_buffer, exit.length)
         /\ Same.regs = regs
         /\ [[Same EXCEPT !.regs = x] EXCEPT !.length = l] = Effect(x, cr3, efer, video_buffer, l)
         /\ [[Same EXCEPT !.length = l] EXCEPT !.buffer = x] = Effect(regs, cr3, efer, x, l)
  <1>1. /\ EffectChanges(regs, cr3, efer, video_buffer, exit.length, x)
        /\ EffectChanges(regs, cr3, efer, video_buffer, exit.length, l)
        /\ EffectChanges(x, cr3, efer, video_buffer, exit.length, l)
        /\ EffectChanges(regs, cr3, efer, video_buffer, l, x)
    BY EffectRebuilt, Zenon
  <1>2. Same = Effect(regs, cr3, efer, video_buffer, exit.length)
    BY Zenon DEF Same
  <1>3. Effect(regs, cr3, efer, video_buffer, exit.length).regs = regs
    BY Zenon DEF Effect
  <1>. QED
    BY <1>1, <1>2, <1>3, Zenon DEF EffectChanges

\* The machine the handlers are given.
LEMMA EnteringIs == Is(Entering, regs, rip, cr3, efer, video_buffer, screen)
  BY Zenon DEF Is, Entering

\* Where nothing is stored the screen stays.
LEMMA NothingShown ==
  ASSUME Typed, NEW b, StoredBytes = {}
  PROVE  Shown(b) = screen
  <1>1. screen = [o \in 0 .. PageSize - 1 |-> screen[o]]
    BY Zenon DEF Typed
  <1>2. \A o : (IF o \in StoredBytes THEN b[o] ELSE screen[o]) = screen[o]
    BY Zenon
  <1>3. Shown(b) = [o \in DOMAIN screen |-> screen[o]]
    BY <1>2, Zenon DEF Shown
  <1>. QED
    BY <1>1, <1>3

\* An interrupt or an open window changes nothing the guest sees.
LEMMA InterruptHandled ==
  ASSUME Typed, exit.reason \in {"external_interrupt", "interrupt_window"}, exit.length = 0,
         rip \in Int
  PROVE  Handles(regs, 0, cr3, efer, video_buffer, screen)
  <1>0. /\ exit.reason # "mov_cr3" /\ exit.reason # "rdmsr" /\ exit.reason # "wrmsr"
        /\ exit.reason # "rdtsc" /\ exit.reason # "ept_misconfig" /\ exit.reason # "io"
    OBVIOUS
  <1>1. Handled = Entering
    BY Zenon DEF Handled, sub_handlers
  <1>2. rip + 0 = rip
    OBVIOUS
  <1>3. Is(Handled, regs, rip + 0, cr3, efer, video_buffer, screen)
    BY <1>1, <1>2, EnteringIs, Zenon
  <1>4. Executed = Same
    BY <1>0, Zenon DEF Executed, Same, Effect
  <1>5. Executed = Effect(regs, cr3, efer, video_buffer, 0)
    BY <1>4, Zenon DEF Same
  <1>6. StoredBytes = {}
    BY <1>0, Zenon DEF StoredBytes
  <1>. QED
    BY <1>3, <1>5, <1>6, NothingShown, Zenon DEF Handles

\* hlt is skipped.
LEMMA HltHandled ==
  ASSUME Typed, exit.reason = "hlt"
  PROVE  Handles(regs, exit.length, cr3, efer, video_buffer, screen)
  <1>0. /\ "hlt" # "mov_cr3" /\ "hlt" # "rdmsr" /\ "hlt" # "wrmsr" /\ "hlt" # "rdtsc"
        /\ "hlt" # "ept_misconfig" /\ "hlt" # "io"
        /\ "hlt" # "external_interrupt" /\ "hlt" # "interrupt_window"
    OBVIOUS
  <1>1. Handled = GOTO_NEXT_INSTRUCTION(Entering, exit.length)
    BY <1>0, Zenon DEF Handled, sub_handlers, halt_exit_sub_handler
  <1>3. Is(Handled, regs, rip + exit.length, cr3, efer, video_buffer, screen)
    BY <1>1, Goto, EnteringIs, Zenon
  <1>4. Executed = Same
    BY <1>0, Zenon DEF Executed, Same, Effect
  <1>5. Executed = Effect(regs, cr3, efer, video_buffer, exit.length)
    BY <1>4, Zenon DEF Same
  <1>6. StoredBytes = {}
    BY <1>0, Zenon DEF StoredBytes
  <1>. QED
    BY <1>3, <1>5, <1>6, NothingShown, Zenon DEF Handles

\* mov to CR3 is emulated.
LEMMA CrHandled ==
  ASSUME Typed, exit.reason = "mov_cr3", exit.instruction = MovRaxToCr3
  PROVE  Handles(regs, exit.length, regs[RAX], efer, video_buffer, screen)
  <1>0. /\ "mov_cr3" # "ept_misconfig"
        /\ "mov_cr3" # "external_interrupt" /\ "mov_cr3" # "interrupt_window"
    OBVIOUS
  <1>1. Handled = controll_register_access_exit_sub_handler(Entering)
    BY <1>0, Zenon DEF Handled, sub_handlers
  <1>3. Is(Handled, regs, rip + exit.length, regs[RAX], efer, video_buffer, screen)
    BY <1>1, CrHandler, EnteringIs, Zenon
  <1>4. Executed = [Same EXCEPT !.cr3 = regs[RAX]]
    BY <1>0, Zenon DEF Executed, Same, Effect
  <1>5. Executed = Effect(regs, regs[RAX], efer, video_buffer, exit.length)
    BY <1>4, SameChanges, Zenon
  <1>6. StoredBytes = {}
    BY <1>0, Zenon DEF StoredBytes
  <1>. QED
    BY <1>3, <1>5, <1>6, NothingShown, Zenon DEF Handles

\* rdmsr of EFER is emulated.
LEMMA RdmsrHandled ==
  ASSUME Typed, exit.reason = "rdmsr", regs[RCX] = IA32_EFER
  PROVE  Handles(EferInRegisters(regs, efer), exit.length, cr3, efer, video_buffer, screen)
  <1>0. /\ "rdmsr" # "external_interrupt" /\ "rdmsr" # "interrupt_window"
        /\ "rdmsr" # "ept_misconfig" /\ "rdmsr" # "mov_cr3"
        /\ "rdmsr" # "hlt"
    OBVIOUS
  <1> DEFINE x == EferInRegisters(regs, efer)
  <1>1. Handled = rdmsr_exit_sub_handler(Entering)
    BY <1>0, Zenon DEF Handled, sub_handlers
  <1>3. Is(Handled, x, rip + exit.length, cr3, efer, video_buffer, screen)
    BY <1>1, RdmsrHandler, EnteringIs, Zenon
  <1>4. Executed = [Same EXCEPT !.regs = x]
    <2>1. Executed = [Same EXCEPT !.regs[RAX] = Low(efer), !.regs[RDX] = High(efer)]
      BY <1>0, Zenon DEF Executed, Same, Effect
    <2>2. Same.regs = regs
      BY SameChanges, Zenon
    <2>. QED
      BY <2>1, <2>2, Zenon DEF EferInRegisters
  <1>5. Executed = Effect(x, cr3, efer, video_buffer, exit.length)
    BY <1>4, SameChanges, Zenon
  <1>6. StoredBytes = {}
    BY <1>0, Zenon DEF StoredBytes
  <1>. QED
    BY <1>3, <1>5, <1>6, NothingShown, Zenon DEF Handles

\* wrmsr of EFER is emulated: the upper half it drops is zero.
LEMMA WrmsrHandled ==
  ASSUME Typed, exit.reason = "wrmsr", regs[RCX] = IA32_EFER, regs[RAX] = E1, regs[RDX] = Zero
  PROVE  Handles(regs, exit.length, cr3, E1, video_buffer, screen)
  <1>0. /\ "wrmsr" # "external_interrupt" /\ "wrmsr" # "interrupt_window"
        /\ "wrmsr" # "ept_misconfig" /\ "wrmsr" # "mov_cr3"
        /\ "wrmsr" # "hlt" /\ "wrmsr" # "rdmsr"
    OBVIOUS
  <1>1. Handled = wrmsr_exit_sub_handler(Entering)
    BY <1>0, Zenon DEF Handled, sub_handlers
  <1>2. Low(regs[RAX]) = E1
    BY LowEfer, Zenon
  <1>3. Is(Handled, regs, rip + exit.length, cr3, E1, video_buffer, screen)
    BY <1>1, <1>2, WrmsrHandler, EnteringIs, Zenon
  <1>4. Executed = [Same EXCEPT !.efer = E1]
    <2>1. Executed = [Same EXCEPT !.efer = Value(SubSeq(regs[RAX], 1, 4) \o SubSeq(regs[RDX], 1, 4))]
      BY <1>0, Zenon DEF Executed, Same, Effect
    <2>. QED
      BY <2>1, WholeEfer, Zenon
  <1>5. Executed = Effect(regs, cr3, E1, video_buffer, exit.length)
    BY <1>4, SameChanges, Zenon
  <1>6. StoredBytes = {}
    BY <1>0, Zenon DEF StoredBytes
  <1>. QED
    BY <1>3, <1>5, <1>6, NothingShown, Zenon DEF Handles

\* rdtsc's three registers can be written in any order.
LEMMA Reordered ==
  ASSUME NEW S, NEW f, f = [k \in S |-> f[k]], NEW i, NEW j, i # j, NEW k, NEW x, NEW y, NEW z
  PROVE  [f EXCEPT ![j] = y, ![i] = x, ![k] = z] = [f EXCEPT ![i] = x, ![j] = y, ![k] = z]
  <1> DEFINE g == [[f EXCEPT ![j] = y] EXCEPT ![i] = x]
             h == [[f EXCEPT ![i] = x] EXCEPT ![j] = y]
  <1>1. g = h
    <2>1. g = [t \in S |-> g[t]] /\ h = [t \in S |-> h[t]]
      BY Zenon
    <2>2. ASSUME NEW t \in S PROVE g[t] = h[t]
      <3>1. g[t] = (IF t = i THEN x ELSE IF t = j THEN y ELSE f[t])
        OBVIOUS
      <3>2. h[t] = (IF t = j THEN y ELSE IF t = i THEN x ELSE f[t])
        OBVIOUS
      <3>. QED
        BY <3>1, <3>2, Zenon
    <2> HIDE DEF g, h
    <2>. QED
      BY <2>1, <2>2, Zenon
  <1>2. [f EXCEPT ![j] = y, ![i] = x, ![k] = z] = [g EXCEPT ![k] = z]
    BY Zenon
  <1>3. [f EXCEPT ![i] = x, ![j] = y, ![k] = z] = [h EXCEPT ![k] = z]
    BY Zenon
  <1>. QED
    BY <1>1, <1>2, <1>3, Zenon

\* rdtsc is emulated.
LEMMA RdtscHandled ==
  ASSUME Typed, exit.reason = "rdtsc"
  PROVE  Handles(TscInRegisters(regs), exit.length, cr3, efer, video_buffer, screen)
  <1>0. /\ "rdtsc" # "external_interrupt" /\ "rdtsc" # "interrupt_window"
        /\ "rdtsc" # "ept_misconfig" /\ "rdtsc" # "mov_cr3"
        /\ "rdtsc" # "hlt" /\ "rdtsc" # "rdmsr" /\ "rdtsc" # "wrmsr"
    OBVIOUS
  <1> DEFINE x == TscInRegisters(regs)
             y == [regs EXCEPT ![RAX] = Low(Tsc), ![RDX] = High(Tsc), ![RCX] = CPU_FREQUENCY]
  <1>1. Handled = rdtsc_exit_sub_handler(Entering)
    BY <1>0, Zenon DEF Handled, sub_handlers
  <1>2. x = y
    <2>1. regs = [r \in Registers |-> regs[r]]
      BY Zenon DEF Typed
    <2>. QED
      BY <2>1, Reordered, ThreeRegisters, Zenon DEF TscInRegisters
  <1>3. Is(Handled, x, rip + exit.length, cr3, efer, video_buffer, screen)
    BY <1>1, RdtscHandler, EnteringIs, Zenon
  <1>4. Executed = [Same EXCEPT !.regs = y]
    <2>1. Executed = [Same EXCEPT !.regs[RAX] = Low(Tsc), !.regs[RDX] = High(Tsc),
                                  !.regs[RCX] = CPU_FREQUENCY]
      BY <1>0, Zenon DEF Executed, Same, Effect
    <2>2. Same.regs = regs
      BY SameChanges, Zenon
    <2>. QED
      BY <2>1, <2>2, Zenon
  <1>5. Executed = Effect(x, cr3, efer, video_buffer, exit.length)
    BY <1>2, <1>4, SameChanges, Zenon
  <1>6. StoredBytes = {}
    BY <1>0, Zenon DEF StoredBytes
  <1>. QED
    BY <1>3, <1>5, <1>6, NothingShown, Zenon DEF Handles

\* A port access is emulated.
LEMMA IoHandled ==
  ASSUME Typed, exit.reason = "io", NEW direction, NEW byte,
         exit.instruction = PortByte(direction, byte)
  PROVE  Handles(PortInRegisters(regs, direction, byte), exit.length, cr3, efer,
                 video_buffer, screen)
  <1>0. /\ "io" # "external_interrupt" /\ "io" # "interrupt_window" /\ "io" # "mov_cr3"
        /\ "io" # "hlt" /\ "io" # "rdmsr" /\ "io" # "wrmsr" /\ "io" # "ept_misconfig"
        /\ "io" # "rdtsc"
    OBVIOUS
  <1> DEFINE x == PortInRegisters(regs, direction, byte)
  <1>1. Handled = io_instruction_exit_sub_handler(Entering)
    BY <1>0, Zenon DEF Handled, sub_handlers
  <1>2. Is(Handled, x, rip + exit.length, cr3, efer, video_buffer, screen)
    BY <1>1, IoHandler, EnteringIs, Zenon
  <1>3. exit.instruction.direction = direction /\ exit.instruction.byte = byte
    BY DEF PortByte
  <1>4. Executed = Effect(x, cr3, efer, video_buffer, exit.length)
    <2>1. CASE direction = "in"
      <3> DEFINE y == [regs EXCEPT ![RAX] = Value(<<byte>>)]
      <3>1. Executed = [Same EXCEPT !.regs[RAX] = Value(<<byte>>)]
        BY <1>0, <1>3, <2>1, Zenon DEF Executed, Same, Effect
      <3>2. Same.regs = regs
        BY SameChanges, Zenon
      <3>3. Executed = [Same EXCEPT !.regs = y]
        BY <3>1, <3>2, Zenon
      <3>4. x = y
        BY <2>1, Zenon DEF PortInRegisters
      <3> HIDE DEF x, y
      <3>. QED
        BY <3>3, <3>4, SameChanges, Zenon
    <2>2. CASE direction # "in"
      <3>1. Executed = Same
        BY <1>0, <1>3, <2>2, Zenon DEF Executed, Same, Effect
      <3>2. x = regs
        BY <2>2, Zenon DEF PortInRegisters
      <3> HIDE DEF x
      <3>. QED
        BY <3>1, <3>2, Zenon DEF Same
    <2>. QED
      BY <2>1, <2>2, Zenon
  <1>5. StoredBytes = {}
    BY <1>0, Zenon DEF StoredBytes
  <1>. QED
    BY <1>2, <1>4, <1>5, NothingShown, Zenon DEF Handles

\* The accesses.
LEMMA Aim ==
  ASSUME Drew
  PROVE  \E offset : Aimed(regs, exit.instruction, offset)
  <1> DEFINE move == exit.instruction
  <1>1. move \in Moves(Registers, Immediates)
    BY Zenon DEF Drew
  <1>2. Plain(move) \/ Escaped(move)
    BY <1>1, MovesShape, RegistersAssumption, ImmediatesAssumption, Zenon
  <1>3. move.size \in {1, 2, 4, 8}
    BY <1>2, Zenon DEF Plain, Escaped
  <1>4. PICK offset \in {0, PageSize - move.size} : regs[move.base] = VideoAddress(offset)
    BY Zenon DEF Drew
  <1> DEFINE z == move.size
  <1> HIDE DEF z
  <1>5. z \in {1, 2, 4, 8} /\ offset \in {0, PageSize - z}
    BY <1>3, <1>4, Zenon DEF z
  <1>6. offset \in 0 .. PageSize - 1 /\ ~(offset + z > PageSize)
    BY <1>5, PageSizeAssumption
  <1>. QED
    BY <1>4, <1>6, Zenon DEF Aimed, z

Operations == {"movzx", "load", "store", "immediate"}

\* A move is of one of four kinds, and has a length.
LEMMA MovesFacts ==
  ASSUME NEW move \in Moves(Registers, Immediates)
  PROVE  move.op \in Operations /\ Len(Encode(move)) \in Nat
  <1>1. Plain(move) \/ Escaped(move)
    BY MovesShape, RegistersAssumption, ImmediatesAssumption, Zenon
  <1>2. /\ move.op \in Operations /\ move.reg \in Int /\ move.base \in Int /\ move.imm \in Seq(Int)
    <2>1. \A r : r \in 0 .. 15 \/ r \in 0 .. 7 => r \in Int
      OBVIOUS
    <2>2. <<>> \in Seq(Int)
      OBVIOUS
    <2>. QED
      BY <1>1, <2>1, <2>2, Zenon DEF Plain, Escaped, Operations
  <1> DEFINE R == 64 + (IF move.size = 8 THEN 8 ELSE 0) + (IF move.reg >= 8 THEN 4 ELSE 0)
                + (IF move.base >= 8 THEN 1 ELSE 0)
             a == IF move.size = 2 /\ move.op # "movzx" THEN <<OPERAND_SIZE>> ELSE <<>>
             b == IF R # 64 \/ (move.op = "store" /\ move.size = 1 /\ move.reg \in 4 .. 7)
                  THEN <<R>> ELSE <<>>
             o == CASE move.op = "movzx" -> IF move.size = 1 THEN <<15, 182>> ELSE <<15, 183>>
                    [] move.op = "load" -> <<139>>
                    [] move.op = "store" -> IF move.size = 1 THEN <<136>> ELSE <<137>>
                    [] move.op = "immediate" -> IF move.size = 1 THEN <<198>> ELSE <<199>>
             m == <<8 * (move.reg % 8) + (move.base % 8)>>
  <1>3. Encode(move) = a \o b \o o \o m \o move.imm
    BY Zenon DEF Encode
  <1>4. a \in Seq(Int) /\ m \in Seq(Int)
    BY <1>2 DEF OPERAND_SIZE
  <1>5. b \in Seq(Int)
    <2>1. R \in Int
      BY <1>2
    <2> HIDE DEF R
    <2>. QED
      BY <2>1
  <1>6. o \in Seq(Int)
    <2>1. /\ <<15, 182>> \in Seq(Int) /\ <<15, 183>> \in Seq(Int) /\ <<139>> \in Seq(Int)
          /\ <<136>> \in Seq(Int) /\ <<137>> \in Seq(Int)
          /\ <<198>> \in Seq(Int) /\ <<199>> \in Seq(Int)
      OBVIOUS
    <2>. QED
      BY <1>2, <2>1, Zenon DEF Operations
  <1> HIDE DEF a, b, o, m
  <1>7. a \o b \o o \o m \o move.imm \in Seq(Int)
    BY <1>2, <1>4, <1>5, <1>6
  <1>8. \A s \in Seq(Int) : Len(s) \in Nat
    OBVIOUS
  <1>. QED
    BY <1>2, <1>3, <1>7, <1>8, Zenon

\* The handler of an access is given what the guest executed.
LEMMA MoveDecoded ==
  ASSUME Drew, exit.reason = "ept_misconfig"
  PROVE  Handled = ept_misconfig_exit_sub_handler(Entering, Meaning(exit.instruction))
  <1>1. exit.instruction \in Moves(Registers, Immediates) /\ exit.bytes = Encode(exit.instruction)
    BY Zenon DEF Drew
  <1>2. decode_x86_64_instruction(Encode(exit.instruction)) = Meaning(exit.instruction)
    BY <1>1, DecoderReadsMoves, RegistersAssumption, ImmediatesAssumption, Zenon
  <1>3. Decoded = Meaning(exit.instruction)
    BY <1>1, <1>2, Zenon DEF Decoded
  <1>4. /\ "ept_misconfig" # "external_interrupt" /\ "ept_misconfig" # "interrupt_window"
        /\ "ept_misconfig" # "mov_cr3"
        /\ "ept_misconfig" # "hlt" /\ "ept_misconfig" # "rdmsr" /\ "ept_misconfig" # "wrmsr"
    OBVIOUS
  <1>. QED
    BY <1>3, <1>4, Zenon DEF Handled, sub_handlers

\* A load from the video page is emulated.
LEMMA LoadHandled ==
  ASSUME Typed, exit.reason = "ept_misconfig", Drew, Loads(exit.instruction),
         NEW offset, Aimed(regs, exit.instruction, offset)
  PROVE  Handles([regs EXCEPT ![exit.instruction.reg] =
                                Loaded(video_buffer, offset, exit.instruction.size)],
                 Len(Encode(exit.instruction)), cr3, efer, video_buffer, screen)
  <1> DEFINE i == exit.instruction
             x == [regs EXCEPT ![i.reg] = Loaded(video_buffer, offset, i.size)]
             l == Len(Encode(i))
  <1>0. /\ "ept_misconfig" # "mov_cr3" /\ "ept_misconfig" # "rdmsr" /\ "ept_misconfig" # "wrmsr"
        /\ "ept_misconfig" # "rdtsc"
    OBVIOUS
  <1>1. Is(Handled, x, rip + l, cr3, efer, video_buffer, screen)
    <2>1. Is(ept_misconfig_exit_sub_handler(Entering, Meaning(i)), x, rip + l, cr3, efer,
             video_buffer, screen)
      BY EptLoad, EnteringIs, Zenon
    <2>. QED
      BY <2>1, MoveDecoded, Zenon
  <1>2. regs[i.base][1] = offset
    <2>1. regs[i.base] = VideoAddress(offset)
      BY Zenon DEF Aimed
    <2>. QED
      BY <2>1, VideoBytes, Zenon
  <1>3. Len(exit.bytes) = l
    BY Zenon DEF Drew
  <1>4. i.op \in {"movzx", "load"}
    BY Zenon DEF Loads
  <1>5. Executed = [[Same EXCEPT !.regs = x] EXCEPT !.length = l]
    <2> DEFINE first == regs[i.base][1]
               loaded == Value([k \in 1 .. i.size |-> video_buffer[first + k - 1]])
    <2>1. Executed = [Same EXCEPT !.regs[i.reg] = loaded, !.length = Len(exit.bytes)]
      BY <1>0, <1>4, Zenon DEF Executed, Same, Effect
    <2>2. loaded = Loaded(video_buffer, offset, i.size)
      BY <1>2, Zenon DEF Loaded
    <2>3. Same.regs = regs
      BY SameChanges, Zenon
    <2> HIDE DEF loaded, i, l
    <2>4. [Same EXCEPT !.regs[i.reg] = loaded, !.length = l]
            = [[Same EXCEPT !.regs = [Same.regs EXCEPT ![i.reg] = loaded]] EXCEPT !.length = l]
      BY Zenon
    <2>. QED
      BY <1>3, <2>1, <2>2, <2>3, <2>4, Zenon
  <1>6. Executed = Effect(x, cr3, efer, video_buffer, l)
    <2> HIDE DEF x, l
    <2>. QED
      BY <1>5, SameChanges, Zenon
  <1>7. StoredBytes = {}
    BY <1>4, Zenon DEF StoredBytes
  <1>8. Shown(video_buffer) = screen
    BY <1>7, NothingShown, Zenon
  <1> HIDE DEF x, l
  <1>9. Handles(x, l, cr3, efer, video_buffer, screen)
    BY <1>1, <1>6, <1>8, Zenon DEF Handles
  <1>. QED
    BY <1>9, Zenon DEF x, l

\* A store to the video page is emulated.
LEMMA StoreHandled ==
  ASSUME exit.reason = "ept_misconfig", Drew, exit.instruction.op \in {"store", "immediate"},
         NEW offset, Aimed(regs, exit.instruction, offset), NEW b,
         b = Written(video_buffer, StoredValue(regs, exit.instruction), offset,
                     exit.instruction.size)
  PROVE  Handles(regs, Len(Encode(exit.instruction)), cr3, efer, b,
                 memcpy(screen, b, offset, exit.instruction.size))
  <1> DEFINE i == exit.instruction
             l == Len(Encode(i))
             y == memcpy(screen, b, offset, i.size)
             v == StoredValue(regs, i)
  <1>0. /\ "ept_misconfig" # "mov_cr3" /\ "ept_misconfig" # "rdmsr" /\ "ept_misconfig" # "wrmsr"
        /\ "ept_misconfig" # "rdtsc"
    OBVIOUS
  <1>1. Is(Handled, regs, rip + l, cr3, efer, b, y)
    <2>1. Is(ept_misconfig_exit_sub_handler(Entering, Meaning(i)), regs, rip + l, cr3, efer,
             Written(video_buffer, v, offset, i.size),
             memcpy(screen, Written(video_buffer, v, offset, i.size), offset, i.size))
      BY EptStore, EnteringIs, Zenon
    <2>. QED
      BY <2>1, MoveDecoded, Zenon
  <1>2. regs[i.base][1] = offset
    <2>1. regs[i.base] = VideoAddress(offset)
      BY Zenon DEF Aimed
    <2>. QED
      BY <2>1, VideoBytes, Zenon
  <1>3. Len(exit.bytes) = l
    BY Zenon DEF Drew
  <1>4. i.op \notin {"movzx", "load"}
    <2>1. "store" # "movzx" /\ "store" # "load" /\ "immediate" # "movzx" /\ "immediate" # "load"
      OBVIOUS
    <2>. QED
      BY <2>1, Zenon
  <1>5. Executed = [[Same EXCEPT !.length = l] EXCEPT !.buffer = b]
    <2> DEFINE first == regs[i.base][1]
               stored == IF i.op = "store" THEN regs[i.reg] ELSE Value(i.imm)
               w == [o \in DOMAIN video_buffer |->
                              IF o \in first .. first + i.size - 1
                              THEN stored[o - first + 1] ELSE video_buffer[o]]
    <2>1. Executed = [Same EXCEPT !.length = Len(exit.bytes), !.buffer = w]
      BY <1>0, <1>4, Zenon DEF Executed, Same, Effect
    <2>2. w = b
      <3>1. stored = v
        BY Zenon DEF StoredValue
      <3> HIDE DEF stored, v
      <3>. QED
        BY <1>2, <3>1, Zenon DEF Written, v
    <2> HIDE DEF w, l
    <2>3. [Same EXCEPT !.length = l, !.buffer = b] = [[Same EXCEPT !.length = l] EXCEPT !.buffer = b]
      BY Zenon
    <2>. QED
      BY <1>3, <2>1, <2>2, <2>3, Zenon
  <1>6. Executed = Effect(regs, cr3, efer, b, l)
    BY <1>5, SameChanges, Zenon
  <1>7. StoredBytes = offset .. offset + i.size - 1
    BY <1>2, <1>4, Zenon DEF StoredBytes
  <1>8. Shown(b) = y
    BY <1>7, Zenon DEF Shown, memcpy
  <1> HIDE DEF y, l
  <1>9. Handles(regs, l, cr3, efer, b, y)
    BY <1>1, <1>6, <1>8, Zenon DEF Handles
  <1>. QED
    BY <1>9, Zenon DEF y, l

\* The upper half of a register.
LEMMA HighIs ==
  ASSUME NEW v
  PROVE  High(v) = [i \in 1 .. 8 |-> IF i <= 4 THEN v[i + 4] ELSE 0]
  <1> DEFINE s == SubSeq(v, 5, 8)
  <1>1. s = [i \in 1 .. 4 |-> v[i + 4]]
    OBVIOUS
  <1>2. Len(s) = 4 /\ \A i \in 1 .. 4 : s[i] = v[i + 4]
    BY <1>1
  <1> HIDE DEF s
  <1>3. \A i \in 1 .. 8 : (IF i <= Len(s) THEN s[i] ELSE 0) = (IF i <= 4 THEN v[i + 4] ELSE 0)
    BY <1>2
  <1>4. Value(s) = [i \in 1 .. 8 |-> IF i <= 4 THEN v[i + 4] ELSE 0]
    BY <1>3, Zenon DEF Value
  <1>. QED
    BY <1>4, Zenon DEF High, s

\* The halves rdmsr reads of the first EFER.
LEMMA ZeroHalves == Low(E0) = E0 /\ High(E0) = Zero
  <1>1. Low(Second(0)) = Second(0)
    <2>1. Low(Second(0)) = [i \in 1 .. 8 |-> IF i <= 4 THEN Second(0)[i] ELSE 0]
      BY LowIs, Zenon
    <2>. QED
      BY <2>1 DEF Second
  <1>2. High(Second(0)) = Second(0)
    <2>1. High(Second(0)) = [i \in 1 .. 8 |-> IF i <= 4 THEN Second(0)[i + 4] ELSE 0]
      BY HighIs, Zenon
    <2>. QED
      BY <2>1 DEF Second
  <1>. QED
    BY <1>1, <1>2, EferValues, Zenon

\* Where an emulated instruction leaves the guest.
Continues(r, n, e, b, s) ==
  /\ n \in Int /\ (n \in Places \/ n > 18) /\ e = EferAt(n)
  /\ (n > 10 <=> rip > 10) /\ TablesAt(n) = TablesAt(rip)
  /\ r = [k \in Registers |-> r[k]]
  /\ b = [o \in 0 .. PageSize - 1 |-> b[o]] /\ s = [o \in 0 .. PageSize - 1 |-> s[o]]
  /\ n = 8 => r[RCX] = IA32_EFER /\ r[RDX] = Zero /\ r[RAX] = E0

\* EFER at every place fits the control that records LMA, and the paging bit.
LEMMA EferFits ==
  ASSUME NEW n \in Int
  PROVE  (Lma(EferAt(n)) <=> n > 10) /\ (n > 10 => Lme(EferAt(n)))
  <1>1. n < 10 => ~(n > 10)
    OBVIOUS
  <1>2. n = 10 => ~(n > 10)
    OBVIOUS
  <1>3. ~(n < 10) /\ n # 10 => n > 10
    OBVIOUS
  <1>. QED
    BY <1>1, <1>2, <1>3, EferBits, Zenon DEF EferAt

Reentered(r, n, c, e, b, s) ==
  /\ mode' = "guest" /\ regs' = r /\ rip' = n /\ cr3' = c /\ efer' = e
  /\ vmcs' = [vmcs EXCEPT !.efer = e] /\ video_buffer' = b /\ screen' = s
  /\ UNCHANGED <<pg, mem>>

\* vm_exit_handler_entry, for an exit that is emulated: the entry is accepted.
LEMMA HandlerStep ==
  ASSUME IInv, vm_exit_handler_entry,
         NEW r, NEW l, NEW c, NEW e, NEW b, NEW s, Handles(r, l, c, e, b, s),
         Continues(r, rip + l, e, b, s)
  PROVE  Reentered(r, rip + l, c, e, b, s)
  <1>1. mode = "host"
    BY Zenon DEF vm_exit_handler_entry
  <1> DEFINE m == sub_handlers(exit.reason,
                 [regs |-> regs, rip |-> rip, cr3 |-> cr3, efer |-> AdjustLma(vmcs).efer,
                  buffer |-> video_buffer, screen |-> screen, ok |-> TRUE], Decoded)
             v(x) == [vmcs EXCEPT !.efer = x]
  <1>2. /\ vmcs' = v(m.efer)
        /\ mode' = IF ~m.ok THEN "panic"
                   ELSE IF EntryAccepted(v(m.efer)) THEN "guest" ELSE "entry_failed"
        /\ efer' = m.efer /\ regs' = m.regs /\ rip' = m.rip /\ cr3' = m.cr3
        /\ video_buffer' = m.buffer /\ screen' = m.screen
        /\ UNCHANGED <<pg, mem>>
    BY Zenon DEF vm_exit_handler_entry
  <1>3. m = Handled
    <2>1. AdjustLma(vmcs).efer = efer
      BY <1>1, LmaAdjusted, Zenon
    <2>. QED
      BY <2>1, Zenon DEF Handled, Entering, Machine
  <1> HIDE DEF m
  <1>4. FieldsOf(m, r, rip + l, c, e, b, s)
    <2>1. Is(m, r, rip + l, c, e, b, s)
      BY <1>3, Zenon DEF Handles
    <2>. QED
      BY <2>1, MachineFields, Zenon
  <1>5. EntryAccepted(v(e))
    <2>0. /\ vmcs = [f \in VmcsFields |-> vmcs[f]]
          /\ IA32E_GUEST \in vmcs.vm_entry <=> rip > 10
          /\ pg <=> rip > 10
      BY <1>1, Zenon DEF IInv, Vmcs, Boot
    <2>1. (Lma(e) <=> rip > 10) /\ (rip > 10 => Lme(e))
      <3> DEFINE n == rip + l
      <3>1. n \in Int /\ e = EferAt(n) /\ (n > 10 <=> rip > 10)
        BY Zenon DEF Continues
      <3> HIDE DEF n
      <3>. QED
        BY <3>1, EferFits, Zenon
    <2>2. v(e).efer = e /\ v(e).vm_entry = vmcs.vm_entry
      BY <2>0 DEF VmcsFields
    <2> HIDE DEF v
    <2>. QED
      BY <2>0, <2>1, <2>2, Zenon DEF EntryAccepted
  <1>. QED
    BY <1>2, <1>4, <1>5, Zenon DEF FieldsOf, Reentered

\* The entry after it keeps the invariant.
LEMMA EntryKeeps ==
  ASSUME IInv, NEW r, NEW n, NEW c, NEW e, NEW b, NEW s, Reentered(r, n, c, e, b, s),
         Continues(r, n, e, b, s)
  PROVE  IInv'
  <1>1. "guest" # "host"
    OBVIOUS
  <1>2. /\ mode' = "guest" /\ regs' = r /\ rip' = n /\ efer' = e
        /\ vmcs' = [vmcs EXCEPT !.efer = e] /\ video_buffer' = b /\ screen' = s
        /\ pg' = pg /\ mem' = mem
    BY Zenon DEF Reentered
  <1>3. Boot'
    BY <1>2, Zenon DEF IInv, Boot, Continues
  <1>4. Typed'
    BY <1>2, Zenon DEF Typed, Continues
  <1>5. Vmcs'
    <2>0. vmcs = [f \in VmcsFields |-> vmcs[f]] /\ 20 \notin vmcs.vm_exit
      BY Zenon DEF IInv, Vmcs
    <2> DEFINE w == [vmcs EXCEPT !.efer = e]
    <2>1. w = [f \in VmcsFields |-> w[f]] /\ w.efer = e /\ w.vm_exit = vmcs.vm_exit
      BY <2>0 DEF VmcsFields
    <2> HIDE DEF w
    <2>2. vmcs' = w
      BY <1>2, Zenon DEF w
    <2>. QED
      BY <1>1, <1>2, <2>0, <2>1, <2>2, Zenon DEF Vmcs
  <1>6. rip' = 8 => EferRead'
    BY <1>1, <1>2, Zenon DEF EferRead, Continues
  <1>. QED
    BY <1>1, <1>2, <1>3, <1>4, <1>5, <1>6, Zenon DEF IInv

\* Two places the guest's tables and EFER do not tell apart.
Alike(a, n) ==
  /\ n \in Int /\ (n \in Places \/ n > 18)
  /\ (n < 10 <=> a < 10) /\ (n = 10 <=> a = 10) /\ (n > 10 <=> a > 10)
  /\ (n < 3 <=> a < 3) /\ (n < 13 <=> a < 13)

\* Between such places the guest goes on as it was.
LEMMA AlikeContinues ==
  ASSUME IInv, NEW n, Alike(rip, n), NEW r, r = [k \in Registers |-> r[k]],
         NEW b, b = [o \in 0 .. PageSize - 1 |-> b[o]],
         NEW s, s = [o \in 0 .. PageSize - 1 |-> s[o]],
         n = 8 => r[RCX] = IA32_EFER /\ r[RDX] = Zero /\ r[RAX] = E0
  PROVE  Continues(r, n, efer, b, s)
  <1>1. efer = EferAt(rip)
    BY Zenon DEF IInv, Boot
  <1>2. EferAt(n) = EferAt(rip) /\ TablesAt(n) = TablesAt(rip)
    BY Zenon DEF EferAt, TablesAt, Alike
  <1>. QED
    BY <1>1, <1>2, Zenon DEF Continues, Alike

Goes == \E r, l, c, e, b, s : Handles(r, l, c, e, b, s) /\ Continues(r, rip + l, e, b, s)

\* Every exit is emulated, and leaves the guest where it can go on.
LEMMA EveryExit ==
  ASSUME IInv, mode = "host"
  PROVE  Goes
  <1>0. /\ Exited /\ Typed /\ rip \in Int /\ (rip \in Places \/ rip > 18)
        /\ efer = EferAt(rip) /\ (rip = 8 => EferRead)
        /\ regs = [k \in Registers |-> regs[k]]
        /\ video_buffer = [o \in 0 .. PageSize - 1 |-> video_buffer[o]]
        /\ screen = [o \in 0 .. PageSize - 1 |-> screen[o]]
    BY Zenon DEF IInv, Boot, Typed
  <1>1. CASE exit.reason \in {"external_interrupt", "interrupt_window"} /\ exit.length = 0
    <2>1. Handles(regs, 0, cr3, efer, video_buffer, screen)
      BY <1>0, <1>1, InterruptHandled, Zenon
    <2>2. rip + 0 = rip
      BY <1>0
    <2>3. Alike(rip, rip)
      BY <1>0, Zenon DEF Alike
    <2>4. rip = 8 => regs[RCX] = IA32_EFER /\ regs[RDX] = Zero /\ regs[RAX] = E0
      <3>1. exit.reason # "wrmsr"
        BY <1>1
      <3>. QED
        BY <1>0, <1>1, <3>1, Zenon DEF EferRead
    <2>5. Continues(regs, rip, efer, video_buffer, screen)
      BY <1>0, <2>3, <2>4, AlikeContinues, Zenon
    <2>. QED
      BY <2>1, <2>2, <2>5, Zenon DEF Goes
  <1>2. CASE exit.reason = "mov_cr3" /\ rip \in {3, 13} /\ exit.length = 3
             /\ exit.instruction = MovRaxToCr3
    <2>1. Handles(regs, 3, regs[RAX], efer, video_buffer, screen)
      BY <1>0, <1>2, CrHandled, Zenon
    <2> DEFINE n == rip + 3
    <2>2. Alike(rip, n) /\ n # 8
      BY <1>2 DEF Alike, Places
    <2> HIDE DEF n
    <2>3. Continues(regs, n, efer, video_buffer, screen)
      BY <1>0, <2>2, AlikeContinues, Zenon
    <2>. QED
      BY <2>1, <2>3, Zenon DEF Goes, n
  <1>3. CASE exit.reason = "rdmsr" /\ rip = 6 /\ exit.length = 2 /\ regs[RCX] = IA32_EFER
    <2> DEFINE x == EferInRegisters(regs, efer)
               n == rip + 2
    <2>1. Handles(x, 2, cr3, efer, video_buffer, screen)
      BY <1>0, <1>3, RdmsrHandled, Zenon
    <2>2. Alike(rip, n)
      BY <1>3 DEF Alike, Places
    <2> HIDE DEF n
    <2>3. efer = E0
      <3>1. rip < 10
        BY <1>3
      <3>. QED
        BY <1>0, <3>1, Zenon DEF EferAt
    <2>4. x = [k \in Registers |-> x[k]]
          /\ x[RCX] = regs[RCX] /\ x[RDX] = High(efer) /\ x[RAX] = Low(efer)
      <3> DEFINE lo == Low(efer)
                 hi == High(efer)
                 y == [[regs EXCEPT ![RAX] = lo] EXCEPT ![RDX] = hi]
      <3>1. x = y
        BY Zenon DEF EferInRegisters
      <3> HIDE DEF lo, hi, x
      <3>2. y = [k \in Registers |-> y[k]] /\ y[RCX] = regs[RCX] /\ y[RDX] = hi /\ y[RAX] = lo
        BY <1>0, ThreeRegisters, Zenon
      <3> HIDE DEF y
      <3>. QED
        BY <3>1, <3>2, Zenon DEF lo, hi
    <2> HIDE DEF x
    <2>5. x[RCX] = IA32_EFER /\ x[RDX] = Zero /\ x[RAX] = E0
      BY <1>3, <2>3, <2>4, ZeroHalves, Zenon
    <2>6. Continues(x, n, efer, video_buffer, screen)
      BY <1>0, <2>2, <2>4, <2>5, AlikeContinues, Zenon
    <2>. QED
      BY <2>1, <2>6, Zenon DEF Goes, n
  <1>4. CASE exit.reason = "wrmsr" /\ rip = 8 /\ exit.length = 2
    <2>1. regs[RCX] = IA32_EFER /\ regs[RAX] = E1 /\ regs[RDX] = Zero
      BY <1>0, <1>4, Zenon DEF EferRead
    <2>2. Handles(regs, 2, cr3, E1, video_buffer, screen)
      BY <1>0, <1>4, <2>1, WrmsrHandled, Zenon
    <2> DEFINE n == rip + 2
    <2>3. /\ n = 10 /\ n \in Int /\ n \in Places /\ ~(n > 10) /\ ~(rip > 10) /\ ~(n < 10) /\ n # 8
          /\ ~(n < 3) /\ ~(rip < 3) /\ n < 13 /\ rip < 13
      BY <1>4 DEF Places
    <2> HIDE DEF n
    <2>4. E1 = EferAt(n) /\ TablesAt(n) = TablesAt(rip)
      BY <2>3, Zenon DEF EferAt, TablesAt
    <2>5. Continues(regs, n, E1, video_buffer, screen)
      BY <1>0, <2>3, <2>4, Zenon DEF Continues
    <2>. QED
      BY <2>2, <2>5, Zenon DEF Goes, n
  <1>5. CASE exit.reason = "rdtsc" /\ rip = 16 /\ exit.length = 2
    <2> DEFINE x == TscInRegisters(regs)
               n == rip + 2
    <2>1. Handles(x, 2, cr3, efer, video_buffer, screen)
      BY <1>0, <1>5, RdtscHandled, Zenon
    <2>2. Alike(rip, n) /\ n # 8
      BY <1>5 DEF Alike, Places
    <2> HIDE DEF n
    <2>3. x = [k \in Registers |-> x[k]]
      BY <1>0, Zenon DEF TscInRegisters
    <2> HIDE DEF x
    <2>4. Continues(x, n, efer, video_buffer, screen)
      BY <1>0, <2>2, <2>3, AlikeContinues, Zenon
    <2>. QED
      BY <2>1, <2>4, Zenon DEF Goes, n
  <1>6. CASE exit.reason = "hlt" /\ rip = 18 /\ exit.length = 1
    <2>1. Handles(regs, 1, cr3, efer, video_buffer, screen)
      BY <1>0, <1>6, HltHandled, Zenon
    <2> DEFINE n == rip + 1
    <2>2. Alike(rip, n) /\ n # 8
      BY <1>6 DEF Alike, Places
    <2> HIDE DEF n
    <2>3. Continues(regs, n, efer, video_buffer, screen)
      BY <1>0, <2>2, AlikeContinues, Zenon
    <2>. QED
      BY <2>1, <2>3, Zenon DEF Goes, n
  <1>7. CASE exit.reason = "ept_misconfig" /\ Drew
    <2> DEFINE i == exit.instruction
               l == Len(Encode(i))
               n == rip + l
    <2>1. rip = 18 /\ i \in Moves(Registers, Immediates)
      BY <1>7, Zenon DEF Drew
    <2>2. i.op \in Operations /\ l \in Nat
      BY <2>1, MovesFacts, Zenon
    <2>3. PICK offset : Aimed(regs, i, offset)
      BY <1>7, Aim, Zenon
    <2>4. Alike(rip, n) /\ n # 8
      <3> HIDE DEF l
      <3>. QED
        BY <2>1, <2>2 DEF Alike, Places
    <2>5. CASE Loads(i)
      <3> DEFINE x == [regs EXCEPT ![i.reg] = Loaded(video_buffer, offset, i.size)]
      <3>1. Handles(x, l, cr3, efer, video_buffer, screen)
        BY <1>0, <1>7, <2>3, <2>5, LoadHandled, Zenon
      <3>2. x = [k \in Registers |-> x[k]]
        <4> DEFINE y == Loaded(video_buffer, offset, i.size)
                   j == i.reg
        <4> HIDE DEF y, j
        <4>1. [regs EXCEPT ![j] = y] = [k \in Registers |-> [regs EXCEPT ![j] = y][k]]
          BY <1>0
        <4>. QED
          BY <4>1, Zenon DEF y, j
      <3> HIDE DEF x, n
      <3>3. Continues(x, n, efer, video_buffer, screen)
        BY <1>0, <2>4, <3>2, AlikeContinues, Zenon
      <3>. QED
        BY <3>1, <3>3, Zenon DEF Goes, n
    <2>6. CASE i.op \in {"store", "immediate"}
      <3> DEFINE b == Written(video_buffer, StoredValue(regs, i), offset, i.size)
                 y == memcpy(screen, b, offset, i.size)
      <3>1. Handles(regs, l, cr3, efer, b, y)
        BY <1>7, <2>3, <2>6, StoreHandled, Zenon
      <3>2. DOMAIN video_buffer = 0 .. PageSize - 1 /\ DOMAIN screen = 0 .. PageSize - 1
        BY <1>0, Zenon
      <3>3. b = [o \in 0 .. PageSize - 1 |-> b[o]]
        BY <3>2, Zenon DEF Written
      <3>4. y = [o \in 0 .. PageSize - 1 |-> y[o]]
        BY <3>2, Zenon DEF memcpy
      <3> HIDE DEF b, y, n
      <3>5. Continues(regs, n, efer, b, y)
        BY <1>0, <2>4, <3>3, <3>4, AlikeContinues, Zenon
      <3>. QED
        BY <3>1, <3>5, Zenon DEF Goes, n
    <2>. QED
      BY <2>2, <2>5, <2>6, Zenon DEF Operations, Loads
  <1>8. CASE exit.reason = "io" /\ exit.length = 1 /\ Ports
    <2>1. PICK direction, byte : rip = 18 /\ exit.instruction = PortByte(direction, byte)
      BY <1>8, Zenon DEF Ports
    <2> DEFINE x == PortInRegisters(regs, direction, byte)
               n == rip + 1
    <2>2. Handles(x, 1, cr3, efer, video_buffer, screen)
      BY <1>0, <1>8, <2>1, IoHandled, Zenon
    <2>3. Alike(rip, n) /\ n # 8
      BY <2>1 DEF Alike, Places
    <2>4. x = [k \in Registers |-> x[k]]
      BY <1>0, Zenon DEF PortInRegisters
    <2> HIDE DEF x, n
    <2>5. Continues(x, n, efer, video_buffer, screen)
      BY <1>0, <2>3, <2>4, AlikeContinues, Zenon
    <2>. QED
      BY <2>2, <2>5, Zenon DEF Goes, n
  <1>. QED
    BY <1>0, <1>1, <1>2, <1>3, <1>4, <1>5, <1>6, <1>7, <1>8, Zenon DEF Exited

\* vm_exit_handler_entry keeps the invariant.
LEMMA HandlerKeeps ==
  ASSUME IInv, vm_exit_handler_entry
  PROVE  IInv'
  <1>1. mode = "host"
    BY Zenon DEF vm_exit_handler_entry
  <1>2. PICK r, l, c, e, b, s : Handles(r, l, c, e, b, s) /\ Continues(r, rip + l, e, b, s)
    BY <1>1, EveryExit, Zenon DEF Goes
  <1>3. Reentered(r, rip + l, c, e, b, s)
    BY <1>2, HandlerStep, Zenon
  <1>. QED
    BY <1>2, <1>3, EntryKeeps, Zenon

\* Every step keeps the invariant.
LEMMA StepKeeps == IInv /\ [Next]_vars => IInv'
  <1> SUFFICES ASSUME IInv, [Next]_vars PROVE IInv'
    OBVIOUS
  <1>1. ASSUME NEW i \in DOMAIN Program, GuestInstruction(i) PROVE IInv'
    <2>1. i \in {1, 2, 3, 7, 8, 9} \/ i \in {4, 5, 6, 10, 11, 12}
      BY <1>1, Lines
    <2>. QED
      BY <1>1, <2>1, QuietKeeps, LoudKeeps, Zenon
  <1>2. CASE UNCHANGED vars
    BY <1>2, ZenonT(30) DEF vars, carried, video, IInv, Boot, Vmcs, Typed, EferRead, Exited, Drew,
                            Ports
  <1>. QED
    BY <1>1, <1>2, LoopsKeeps, DrawKeeps, PortsKeeps, InterruptKeeps, HandlerKeeps, Zenon
       DEF Next, GuestStep

\* The invariant holds of every behaviour: at every place of its boot the guest
\* has the EFER and the tables it should have, the VMCS agrees up to the LMA
\* that paging turned on without an exit, and every exit is one of its place.
THEOREM Invariance == Spec => []IInv
  BY StartsRight, StepKeeps, PTL DEF Spec

\* MonitorRuns holds: no exit of the guest ends in a failed assertion or in
\* PANIC_EXIT, and no vmresume of vm_exit_handler is refused.
THEOREM MonitorAlwaysRuns == Spec => []MonitorRuns
  <1>1. IInv => MonitorRuns
    BY Zenon DEF IInv, Boot, MonitorRuns
  <1>. QED
    BY <1>1, Invariance, PTL

\* What ExitsFaithful says of a step.
Faithful ==
  (mode = "host" /\ mode' = "guest") =>
       /\ rip' = rip + Executed.length
       /\ [regs |-> regs', cr3 |-> cr3', efer |-> efer', buffer |-> video_buffer',
           length |-> Executed.length] = Executed
       /\ screen' = [o \in DOMAIN screen |-> IF o \in StoredBytes THEN video_buffer'[o]
                                             ELSE screen[o]]

\* Only vm_exit_handler_entry re-enters the guest, and it is faithful.
LEMMA StepFaithful == IInv /\ [Next]_vars => [Faithful]_vars
  <1> SUFFICES ASSUME IInv, Next, mode = "host"
               PROVE  Faithful
    BY Zenon DEF Faithful
  <1>1. vm_exit_handler_entry
    <2>1. "guest" # "host"
      OBVIOUS
    <2>. QED
      BY <2>1, Zenon DEF Next, GuestStep, GuestLoops, GuestInstruction, At, GuestDraws,
                          GuestPorts, Interrupt
  <1>2. PICK r, l, c, e, b, s : Handles(r, l, c, e, b, s) /\ Continues(r, rip + l, e, b, s)
    BY EveryExit, Zenon DEF Goes
  <1>3. Reentered(r, rip + l, c, e, b, s)
    BY <1>1, <1>2, HandlerStep, Zenon
  <1>4. /\ regs' = r /\ rip' = rip + l /\ cr3' = c /\ efer' = e
        /\ video_buffer' = b /\ screen' = s
    BY <1>3, Zenon DEF Reentered
  <1>5. Executed = Effect(r, c, e, b, l) /\ s = Shown(b)
    BY <1>2, Zenon DEF Handles
  <1>6. Executed.length = l
    BY <1>5, Zenon DEF Effect
  <1>7. rip' = rip + Executed.length
    BY <1>4, <1>6, Zenon
  <1>8. [regs |-> regs', cr3 |-> cr3', efer |-> efer', buffer |-> video_buffer',
         length |-> Executed.length] = Executed
    BY <1>4, <1>5, <1>6, Zenon DEF Effect
  <1>9. screen' = [o \in DOMAIN screen |-> IF o \in StoredBytes THEN video_buffer'[o]
                                           ELSE screen[o]]
    BY <1>4, <1>5, Zenon DEF Shown
  <1>. QED
    BY <1>7, <1>8, <1>9, Zenon DEF Faithful

\* ExitsFaithful holds: every emulated instruction has the effect Executed gives
\* it and no other, whatever registers, sizes, immediates and ends of the video
\* page the accesses use and whatever byte a port answers.
THEOREM EveryExitFaithful == Spec => ExitsFaithful
  BY Invariance, StepFaithful, PTL DEF Spec, ExitsFaithful, Faithful

\* The invariant gives PagesMapped.
LEMMA MapsPages == IInv => PagesMapped
  <1> SUFFICES ASSUME IInv, pg
               PROVE  /\ Translate(mem, Code) = LargePage(0)
                      /\ Translate(mem, LowEnd) = LargePage(511)
                      /\ rip >= Program[10].at => Translate(mem, Video) = VideoFrame
    BY Zenon DEF PagesMapped
  <1>1. rip \in Int /\ rip > 10 /\ mem = TablesAt(rip)
    BY Zenon DEF IInv, Boot
  <1>2. ~(rip < 3)
    BY <1>1
  <1>3. Program[10].at = 13
    BY Lines, Zenon DEF Line
  <1>4. rip >= 13 => ~(rip < 13)
    BY <1>1
  <1>5. CASE rip < 13
    BY <1>1, <1>2, <1>3, <1>4, <1>5, EarlyWalks, Zenon DEF TablesAt, LowMapped
  <1>6. CASE ~(rip < 13)
    BY <1>1, <1>2, <1>3, <1>6, HighWalks, Zenon DEF TablesAt, LowMapped
  <1>. QED
    BY <1>5, <1>6, Zenon

\* PagesMapped holds: although get_base_page gives map_page_high one page for
\* two levels, the image, the low gigabyte and the video page stay mapped.
THEOREM PagesAlwaysMapped == Spec => []PagesMapped
  BY MapsPages, Invariance, PTL
==============================================================================
