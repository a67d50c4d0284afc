\* A ring of two bytes, counters that wrap at four, chunks of up to three;
\* frames of two bytes, 13 to 18 of them, the kernel in the sixth and seventh;
\* a heap of five pages of 16 bytes that may grow to ten; every day from 1980
\* to June 2002, with a boot at the end of an hour of the night, the morning, noon
\* or the day.
\* A failed allocation stops the kernel.
SPECIFICATION StructuresSpec
CONSTANTS
  Bytes = {0, 1}
  Size = 2
  WordSize = 4
  MaxChunk = 3
  FrameBytes = 2
  KernelFrames = {5, 6}
  Counts = {0, 1, 2, 3}
  HeapStart = 64
  PageBytes = 16
  INITIAL_HEAP_SIZE = 5
  MaxSize = 160
  Hours = {0, 9, 11, 23}
  MaxDay = 8200
  MaxTicks = 1
CHECK_DEADLOCK FALSE
INVARIANTS
  CellsApart
  FramesAccounted
  HeapWellFormed
  DatesExact
  KnownTimeBut
PROPERTIES
  
  KeepsSpace
