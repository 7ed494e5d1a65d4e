SPECIFICATION ConsoleSpec
CONSTANTS
  CPU = {c0, c1, c2, c3}
  NoCPU = NoCPU
  VM = c0
  LineSize = 4
  Piece = {"k1", "k2"}
  Message <- MCMessage
INVARIANTS
  IInv
  GuestLineShown
PROPERTIES
  MutexSpec
  MessagesWhole
  SomebodyEnters
