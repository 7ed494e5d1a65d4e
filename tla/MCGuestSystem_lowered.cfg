SPECIFICATION SysSpec
CONSTANTS
  Byte = {0, 28}
  RingSize = 3
  GuestWrites = {}
  TickPeriod = {10, 11}
  MaxKeys = 3
PROPERTY OnlyDeliveredLowered
