SPECIFICATION Spec
CONSTANTS
  Ports = {32, 33, 64, 96, 160, 1016}
  Callbacks = {a, b}
  None = None
  MAX_PORTS_SUPPORTED = 5
  Regions <- MCRegions
  MAX_NR_MMIO_REGIONS = 3
  Addresses = {0, 1, 2, 3, 4, 5, 6, 7, 8, 9, 10, 11, 12}
INVARIANTS
  PortsDispatched
  RegionsDispatched
CHECK_DEADLOCK FALSE
