\* Three readers, buffers of 0 to 2 bytes, a receive buffer of 2.
SPECIFICATION Spec
CONSTANTS
  None = None
  Readers = {r1, r2, r3}
  Lengths = {0, 1, 2}
  FifoSize = 2
INVARIANTS
  NoLostWakeup
  ReadsDoNotInterleave
PROPERTIES
  FirstComeFirstServed
  ReadCompletes
