------------------------------ MODULE MCVmExit ------------------------------
(* RAX, RCX, RDX, RSP (kept in the VMCS) and R9 (which needs a REX prefix). *)
EXTENDS VmExit

MCRegisters == {0, 1, 2, 4, 9}
MCImmediates == {<<7, 200, 3, 9>>}
MCTsc == <<1, 2, 3, 4, 5, 6, 7, 8>>
MCpml4_base == Value(<<0, 96>>)
=============================================================================
