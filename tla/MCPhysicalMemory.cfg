SPECIFICATION MemorySpec
CONSTANTS
  MemoryLists <- MCMemoryLists
  LowBase = 1
  FourG = 12
  BasePagesEnd = 2
  MaxRequest = 3
INVARIANTS
  MemoryInv
  BlocksDisjoint
  NoPageLost
