------------------------ MODULE InstructionDecoding ------------------------
(***************************************************************************)
(* vmx_instruction_decoding.c: the monitor decodes the guest instruction   *)
(* that touched an emulated page.  A byte stream is a sequence of bytes; a *)
(* value is its eight bytes, least significant first.                      *)
(*                                                                         *)
(* Encode is the reference: how an assembler writes the moves a compiler   *)
(* uses for such accesses, with a plain base register.                     *)
(***************************************************************************)
EXTENDS Integers, Sequences

Value(bytes) == [i \in 1 .. 8 |-> IF i <= Len(bytes) THEN bytes[i] ELSE 0]

\* The bytes the first loop consumes: escapes, lock and repeat prefixes,
\* segment overrides, operand and address size.
Prefixes == {15, 56, 58, 240, 242, 243, 46, 54, 62, 38, 100, 101, 102, 103}
OPERAND_SIZE == 102

\* predefined_opcodes, with the sizes their resolvers set: movzx of a byte
\* and of a word, mov of an immediate, loads and stores.
Hint(opcode) ==
  CASE opcode \in {182, 183, 138, 139} -> "MR"
    [] opcode \in {198, 199} -> "IM"
    [] opcode \in {136, 137} -> "RM"
    [] OTHER -> "none"

\* REX_W_BIT, REX_R_BIT and REX_B_BIT.
RexBit(rex, mask) == (rex \div mask) % 2

\* Mutant: the operand-size prefix is overlooked.
AccessSize_no_prefix(opcode, overrided, rex) ==
  CASE opcode \in {182, 198, 138, 136} -> 1
    [] opcode = 183 -> 2
    [] OTHER -> IF RexBit(rex, 8) = 1 THEN 8 ELSE 4

AccessSize(opcode, overrided, rex) ==
  CASE opcode \in {182, 198, 138, 136} -> 1
    [] opcode = 183 -> 2
    [] OTHER -> IF overrided THEN 2 ELSE IF RexBit(rex, 8) = 1 THEN 8 ELSE 4

\* The immediate of c6 and c7 is at most a double word, and not sign-extended.
ImmediateSize(opcode, size) ==
  IF Hint(opcode) # "IM" THEN 0 ELSE IF size = 8 THEN 4 ELSE size

Undecoded == [operand_hint |-> "none", instruction_length |-> 0, reg_index |-> 0,
              rm_index |-> 0, access_size |-> 0, immediate |-> Value(<<>>)]

\* The first loop consumes the bytes up to the first that is no prefix.
SkipPrefixes(stream) ==
  CHOOSE n \in 0 .. Len(stream) - 1 :
    /\ stream[n + 1] \notin Prefixes
    /\ \A i \in 1 .. n : stream[i] \in Prefixes

\* At most one REX byte, then an opcode of the table and its ModRM byte, whose
\* mode is ignored.  ASSERT(context->opcode) fails for any other opcode, movzx
\* with a REX prefix included: the escape byte follows the REX byte, and is
\* then not consumed.
DecodeOpcode(stream, skipped) ==
  LET overrided == \E i \in 1 .. skipped : stream[i] = OPERAND_SIZE
      has_rex == stream[skipped + 1] \in 64 .. 79
      rex     == IF has_rex THEN stream[skipped + 1] ELSE 0
      at      == skipped + (IF has_rex THEN 2 ELSE 1)
      opcode  == stream[at]
      moderm  == stream[at + 1]
      size    == AccessSize(opcode, overrided, rex)
      imm     == ImmediateSize(opcode, size)
  IN  IF Hint(opcode) = "none"
      THEN Undecoded
      ELSE [operand_hint |-> Hint(opcode),
            instruction_length |-> at + 1 + imm,
            reg_index |-> ((moderm \div 8) % 8) + 8 * RexBit(rex, 4),
            rm_index |-> (moderm % 8) + 8 * RexBit(rex, 1),
            access_size |-> size,
            immediate |-> Value(SubSeq(stream, at + 2, at + 1 + imm))]

decode_x86_64_instruction(stream) == DecodeOpcode(stream, SkipPrefixes(stream))

-----------------------------------------------------------------------------
(* The reference. *)

\* A move between a register and memory at a base register.  Not among them:
\* loads that keep the upper part of the register (mov to an 8 or 16 bit
\* register, which the monitor would clear), movzx that needs REX, bases whose
\* encoding needs another byte (RSP, RBP, R12, R13), and negative immediates of
\* a quad word, which a processor sign-extends and the monitor does not.
Moves(Registers, Immediates) ==
  LET Bases == {r \in Registers : r % 8 \notin {4, 5}}
      Low(S) == {r \in S : r < 8}
      Make(op, sizes, regs, bases, imms) ==
        [op : {op}, size : sizes, reg : regs, base : bases, imm : imms]
  IN  Make("movzx", {1, 2}, Low(Registers), Low(Bases), {<<>>})
        \cup Make("load", {4, 8}, Registers, Bases, {<<>>})
        \cup Make("store", {1, 2, 4, 8}, Registers, Bases, {<<>>})
        \cup UNION {Make("immediate", {s}, {0}, Bases,
                         {SubSeq(i, 1, IF s = 8 THEN 4 ELSE s) :
                            i \in {j \in Immediates : s = 8 => j[4] < 128}}) :
                    s \in {1, 2, 4, 8}}

Encode(move) ==
  LET Rex == 64 + (IF move.size = 8 THEN 8 ELSE 0) + (IF move.reg >= 8 THEN 4 ELSE 0)
                + (IF move.base >= 8 THEN 1 ELSE 0)
      \* SPL, BPL, SIL and DIL are only reached with a REX prefix.
      needs_rex == Rex # 64 \/ (move.op = "store" /\ move.size = 1 /\ move.reg \in 4 .. 7)
      opcode == CASE move.op = "movzx" -> IF move.size = 1 THEN <<15, 182>> ELSE <<15, 183>>
                  [] move.op = "load" -> <<139>>
                  [] move.op = "store" -> IF move.size = 1 THEN <<136>> ELSE <<137>>
                  [] move.op = "immediate" -> IF move.size = 1 THEN <<198>> ELSE <<199>>
  IN  (IF move.size = 2 /\ move.op # "movzx" THEN <<OPERAND_SIZE>> ELSE <<>>)
        \o (IF needs_rex THEN <<Rex>> ELSE <<>>)
        \o opcode
        \o <<8 * (move.reg % 8) + (move.base % 8)>>
        \o move.imm
=============================================================================
