SPECIFICATION StreamSpec
CONSTANTS
  Byte = {0, 1}
  RingSize = 4
  MaxChunk = 4
PROPERTY FifoSpec
