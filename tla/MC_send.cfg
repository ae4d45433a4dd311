CONSTANTS
  Buffers <- MCBuffers
  SizeMod = 16
  MaxStream = 8
SPECIFICATION Spec
INVARIANT SentOnce
CHECK_DEADLOCK FALSE
