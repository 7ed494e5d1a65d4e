SPECIFICATION FairSpec
CONSTANTS
  MAX_NR_CPUS = 5
  CPU = {0, 1, 2, 3}
  BSP = 0
INVARIANTS
  TablesReady
  AreaOwned
  HostReady
  AssertionsHold
PROPERTY EveryCpuUp
CHECK_DEADLOCK FALSE
