CONSTANTS
  Registers <- MCRegisters
  Immediates <- MCImmediates
  PageSize = 9
  pml4_base <- MCpml4_base
  Tsc <- MCTsc
  PortBytes = {0, 225}
  MaxAccesses = 2
SPECIFICATION Spec
INVARIANTS
  MonitorRuns
  PagesMapped
PROPERTIES
  ExitsFaithful
  GuestUp
