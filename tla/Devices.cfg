\* Drive: two processes read two sectors, in turn or at the same time; polls may
\* time out, answers may be late, and signals may wake a reader early.
\* Keys: an event ring of three bytes; A and, with a prefix, ArrowLeft (75 is one
\* with a prefix only, 56 without one only); up to three key actions before a
\* byte is dropped, read one byte or four at a time.
\* File: two cylinders of two heads and three sectors of two bytes; the buffer
\* holds two sectors.
SPECIFICATION DevicesSpec
CONSTANTS
  Readers = {p1, p2}
  Sectors = {s1, s2}
  Retries = 2
  Strays = {p1, p2}
  None = None
  RingSize = 3
  PlainCodes = {30, 75}
  ExtCodes = {56, 75}
  MaxTyped = 3
  Handles = {1}
  ReadLengths = {1, 4}
  MaxQueued = 6
  SECTOR_SIZE = 2
  SECTORS_PER_TRACK = 3
  DMA_SIZE = 4
  CountLimit = 16
  Cylinders = 2
  ByteLimit = 4
  WordLimit = 64
  Lengths = {0, 1, 3, 4}
  Positions = {3, 11, 14, 50}
  Offsets = {59}
INVARIANTS
  SupportedReadsExact
  
PROPERTIES
  AnswersMatchReads
  ReadEnds
  PollsEnd
  KeysHandled
