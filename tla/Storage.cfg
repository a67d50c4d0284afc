\* Handles: two processes, one device opened twice at most, one pipe of two bytes.
\* Image: archives of one or two files, opened twice at most, with a header of two
\* bytes; 30 is the relative seek by -2.
\* Files: sectors of eight bytes, that is five and a third FAT entries and four directory
\* entries; clusters in each of the four sectors of the FAT, one cut by its end, and
\* one past it.
SPECIFICATION StorageSpec
CONSTANTS
  Procs = {p1, p2}
  First = p1
  Devices <- DevicesDef
  Paths <- PathsDef
  MAX_OPEN_FILES = 2
  Handles = {0, 2}
  Chunks <- ChunksDef
  BUFFER_SIZE = 2
  MaxOpens = 2
  MaxPipes = 1
  None = None
  Any = Any
  HeaderSize = 2
  Words = 32
  Names = {"a", "bc"}
  Counts = {1, 3}
  Places = {1, 4}
  Moves = {30}
  MaxOpen = 2
  MaxCursor = 4
  bytes_per_sector = 8
  reserved_sectors = 1
  fat_count = 2
  sectors_per_fat = 4
  DIRECTORY_ENTRY_SIZE = 2
  Searches = {"a", "any"}
  AnyName = "any"
  Values = {5, 10, 11, 12, 4088}
  Clusters = {0, 5, 19, 21, 23, 24}
  Indices = {0, 1, 2}
  MaxHandles = 1
INVARIANTS
  ImageReadsExact
  ChainFollowed
  LookupsExact
PROPERTIES
  
  CallEnds
CHECK_DEADLOCK FALSE
