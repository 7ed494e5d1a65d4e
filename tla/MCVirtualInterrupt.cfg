SPECIFICATION Spec
CONSTANTS
  Byte = {0, 28}
  RingSize = 3
  GuestWrites <- MCGuestWrites
  TickPeriod = {9, 10}
  MaxKeys = 3
INVARIANTS
  IInv
  WindowArmed
  KeysInOrder
PROPERTY NoPreemption
CHECK_DEADLOCK FALSE
