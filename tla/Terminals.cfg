\* A screen of two rows of three cells, and one byte of every kind.
\* Console: an event ring of two bytes; Num0, Num1 and Alt, or Num1, Shift and
\* ArrowLeft; terminal rings of two bytes taken two at a time; nothing is typed
\* or written once so many bytes are drawn on a terminal.
SPECIFICATION TTYSpec
CONSTANTS
  Cols = 3
  Rows = 2
  Bytes = {0, 10, 27, 59, 65, 66, 67, 68, 72, 74, 75, 91}
  RingSize = 2
  SwitchCodes = {2, 11, 56}
  ShiftCodes = {2, 42}
  ExtCodes = {75}
  ReadLengths = {2}
  BufferSize = 2
  Chunk = 2
  MaxWritten = 2
  MaxKeys = 1
  MaxShifted = 3
INVARIANTS
  WritesInBounds
  NoGhostCursor
  
  ScreenIntact
  OutputInOrder
