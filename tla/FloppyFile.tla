----------------------------- MODULE FloppyFile -----------------------------
(***************************************************************************)
(* The byte stream that drivers/floppy exposes, over whole sectors: the    *)
(* cursor of an open handle, the arithmetic from bytes to sectors to       *)
(* cylinder, head and sector, the DMA count, and the copy out of the DMA   *)
(* buffer.  A byte of the disk is its own position, so a buffer cell holds *)
(* the position of the byte last transferred to it, or -1.                 *)
(*                                                                         *)
(* A read is one step here; how it waits for the controller is in Floppy.  *)
(***************************************************************************)
EXTENDS Integers

CONSTANTS
  SECTOR_SIZE, SECTORS_PER_TRACK,
  DMA_SIZE,      \* bytes of the DMA buffer
  CountLimit,    \* values of the DMA count register: 2^16
  Cylinders,     \* cylinders of the disk
  ByteLimit,     \* values of a u8, in which a cylinder is sent
  WordLimit,     \* values of a usize: 2^32
  Lengths,       \* lengths of the reads
  Positions,     \* arguments of absolute seeks
  Offsets        \* arguments of relative seeks, as words

VARIABLES
  opened,   \* the handle is in open_files
  cursor,   \* its cursor
  buf,      \* what the DMA buffer, and the memory that follows it, holds
  moved,    \* bytes the latest read transferred
  last      \* start and bytes of the latest read, since the latest other call

vars == <<opened, cursor, buf, moved, last>>

TrackBytes == SECTORS_PER_TRACK * SECTOR_SIZE
Cells == 0 .. TrackBytes - 1

(* The geometry and the registers: the disk is smaller than a machine word *)
(* can address, a cylinder fits in its byte and a track in the DMA count,  *)
(* and the DMA buffer is made of whole sectors.                            *)
Fits ==
  /\ SECTOR_SIZE \in Nat \ {0} /\ SECTORS_PER_TRACK \in Nat \ {0}
  /\ DMA_SIZE \in Nat \ {0} /\ Cylinders \in Nat \ {0}
  /\ CountLimit \in Nat \ {0} /\ ByteLimit \in Nat \ {0} /\ WordLimit \in Nat \ {0}
  /\ DMA_SIZE % SECTOR_SIZE = 0
  /\ TrackBytes <= CountLimit /\ Cylinders <= ByteLimit
  /\ (2 * Cylinders) * TrackBytes < WordLimit
  /\ Lengths \cup Positions \cup Offsets \subseteq Nat

NoRead == [start |-> 0, length |-> 0, data |-> <<>>]

Init ==
  /\ opened = FALSE /\ cursor = 0
  /\ buf = [i \in Cells |-> -1]
  /\ moved = 0
  /\ last = NoRead

----------------------------------------------------------------------------
(* Mutant: sectors count from 0.                                           *)
MutToChs(lba) ==
  [c |-> lba \div (2 * SECTORS_PER_TRACK),
   h |-> (lba % (2 * SECTORS_PER_TRACK)) \div SECTORS_PER_TRACK,
   s |-> (lba % (2 * SECTORS_PER_TRACK)) % SECTORS_PER_TRACK]

to_chs(lba) ==
  [c |-> lba \div (2 * SECTORS_PER_TRACK),
   h |-> (lba % (2 * SECTORS_PER_TRACK)) \div SECTORS_PER_TRACK,
   s |-> ((lba % (2 * SECTORS_PER_TRACK)) % SECTORS_PER_TRACK) + 1]

for_byte_range(start, length) ==
  LET range_end == (start + length) % WordLimit
      sector_start == start - (start % SECTOR_SIZE)
  IN  [first |-> sector_start \div SECTOR_SIZE,
       count |-> ((range_end - sector_start) % WordLimit) \div SECTOR_SIZE
                   + (IF range_end % SECTOR_SIZE # 0 THEN 1 ELSE 0)]

byte_length(sectors) == (sectors.count * SECTOR_SIZE) % WordLimit

get_local_offset(sectors, absolute) ==
  LET start == sectors.first * SECTOR_SIZE
  IN  IF absolute < start THEN 0 ELSE absolute - start

(* The DMA count register after set_count(byte_length - 1).                *)
set_count(sectors) == (byte_length(sectors) - 1) % CountLimit

(* The controller reads from the given place until the count is reached or *)
(* the track ends: the command has no multi-track bit.  A cylinder that    *)
(* the disk does not have is an error, and nothing is transferred.         *)
Transferred(chs, count) ==
  LET rest == (SECTORS_PER_TRACK - chs.s + 1) * SECTOR_SIZE
  IN  IF chs.c >= Cylinders THEN 0 ELSE IF count + 1 < rest THEN count + 1 ELSE rest

(* The position on the disk at which the sector so addressed starts.       *)
PositionOf(chs) ==
  ((chs.c * 2 + chs.h) * SECTORS_PER_TRACK + chs.s - 1) * SECTOR_SIZE

(* dma: the place as it is sent to the controller, the cylinder in a u8.   *)
dma(chs) == [chs EXCEPT !.c = @ % ByteLimit]

(* FloppyDevice::read, with load_sectors_to_cache.  A cell past the ones   *)
(* the model keeps holds no byte of the disk.                              *)
Read(n) ==
  LET sectors == for_byte_range(cursor, n)
      place == dma(to_chs(sectors.first))
      size == Transferred(place, set_count(sectors))
      offset == get_local_offset(sectors, cursor)
      filled == [i \in Cells |-> IF i < size THEN PositionOf(place) + i ELSE buf[i]]
  IN  /\ opened
      /\ moved' = size
      /\ buf' = filled
      /\ last' = [start |-> cursor, length |-> n,
                  data |-> [i \in 1 .. n |-> IF offset + i - 1 \in Cells
                                               THEN filled[offset + i - 1] ELSE -1]]
      /\ cursor' = (cursor + n) % WordLimit
      /\ UNCHANGED opened

open ==
  /\ ~opened /\ opened' = TRUE /\ cursor' = 0
  /\ moved' = 0 /\ last' = NoRead
  /\ UNCHANGED buf

close ==
  /\ opened /\ opened' = FALSE
  /\ moved' = 0 /\ last' = NoRead
  /\ UNCHANGED <<cursor, buf>>

Signed(word) == IF word < WordLimit \div 2 THEN word ELSE word - WordLimit

(* SeekMethod::Relative: a saturating addition of signed words.            *)
Relative(off) ==
  LET sum == Signed(cursor) + Signed(off)
      high == WordLimit \div 2 - 1
  IN  (IF sum > high THEN high ELSE IF sum < -high - 1 THEN -high - 1 ELSE sum) % WordLimit

seek ==
  /\ opened
  /\ cursor' \in Positions \cup {Relative(off) : off \in Offsets}
  /\ moved' = 0 /\ last' = NoRead
  /\ UNCHANGED <<opened, buf>>

Next == open \/ close \/ seek \/ \E n \in Lengths : Read(n)

Spec == Init /\ [][Next]_vars

----------------------------------------------------------------------------
(* A read the driver can serve: it is not empty, lies on one track of the  *)
(* disk, and its sectors fit in the DMA buffer.                            *)
Supported(start, length) ==
  LET track == start \div TrackBytes
      first == start - (start % SECTOR_SIZE)
  IN  /\ length > 0 /\ start + length <= (track + 1) * TrackBytes
      /\ track < 2 * Cylinders
      /\ start + length <= first + DMA_SIZE

(* A read on one track that fits in the buffer returns the bytes of the    *)
(* disk from the cursor on, whatever was read before, and its transfer     *)
(* keeps within the buffer (for_byte_range, to_chs, get_local_offset and   *)
(* the count fit together).                                                *)
SupportedReadsExact ==
  Supported(last.start, last.length) =>
    /\ \A i \in 1 .. last.length : last.data[i] = last.start + i - 1
    /\ moved <= DMA_SIZE
=============================================================================
