------------------------------- MODULE Frames -------------------------------
(***************************************************************************)
(* The bitmap of physical frames (memory/physical): how boot fills it from *)
(* the memory map of the BIOS, reserves the kernel's frames and its own,   *)
(* and how frames are handed out.  Nothing returns frames at run time.     *)
(*                                                                         *)
(* The bitmap is the set of its bits that are on; bit f stands for frame   *)
(* f, and eight bits make a byte.  Memory lies below 4 GiB.                *)
(***************************************************************************)
EXTENDS Integers, Sequences, FiniteSets, SequencesExt

CONSTANTS
  FrameBytes,    \* bytes of a frame: 4096 in the code
  KernelFrames,  \* the frames of the kernel image; the bitmap follows them
  Maps,          \* memory maps the BIOS may report
  Counts         \* how many frames are asked for at once

VARIABLES
  memory,       \* the memory map of this machine
  stage,        \* how far boot has got: "start", "bitmap", "directory",
                \* "running", or "panic"
  frame_count,
  used,         \* FrameBitmap::map
  held,         \* history: the frames handed out
  handedOut     \* history: how many were handed out

vars == <<memory, stage, frame_count, used, held, handedOut>>

Init ==
  /\ memory \in Maps
  /\ stage = "start"
  /\ frame_count = 0 /\ used = {}
  /\ held = {} /\ handedOut = 0

-----------------------------------------------------------------------------
(* FrameRange: the frames of length bytes from start on.                   *)
Span(start, length) == start \div FrameBytes .. (start + length - 1) \div FrameBytes

contains_range(count, frames) == \A f \in frames : f < count

Greatest(S) == CHOOSE n \in S : \A m \in S : m <= n

Bits(count) == 0 .. 8 * ((count + 7) \div 8) - 1

(* The limit of init_allocator: the frames below the highest end.          *)
Limit(entries) ==
  Greatest({entries[i].base + entries[i].length : i \in 1 .. Len(entries)}) \div FrameBytes

FreeEntries(entries) == {i \in 1 .. Len(entries) : entries[i].free}

SpanOf(entry) == Span(entry.base, entry.length)

(* initialize_from_memory_map: all bits on, then the free ranges off.      *)
initialize_from_memory_map(entries, count) ==
  Bits(count) \ UNION {SpanOf(entries[i]) : i \in FreeEntries(entries)}

(* size_in_frames: the bytes of the bitmap are rounded down before the     *)
(* frames are rounded up.                                                  *)
size_in_frames(count) ==
  LET byte_size == count \div 8
  IN  byte_size \div FrameBytes + (IF byte_size % FrameBytes = 0 THEN 0 ELSE 1)

Location == Greatest(KernelFrames) + 1

own_range(count) == Location .. Location + size_in_frames(count) - 1

(* The loop of find_free_range: the first frame of the range it returns,   *)
(* or -1.  It is -1 for no frames: their number is decremented first.      *)
find_free_range(n) ==
  FoldLeft(LAMBDA search, frame :
             IF search.found >= 0 THEN search
             ELSE IF frame \in used THEN [search EXCEPT !.remaining = n, !.start = frame + 1]
             ELSE [search EXCEPT !.remaining = @ - 1,
                                 !.found = IF search.remaining = 1 THEN search.start ELSE -1],
           [remaining |-> n, start |-> 0, found |-> -1],
           [i \in 1 .. frame_count |-> i - 1]).found

(* get_free_frame_count: bytes that are all on are skipped bit by bit, in  *)
(* others all eight bits are looked at.                                    *)
get_free_frame_count ==
  LET Byte(frame) == 8 * (frame \div 8) .. 8 * (frame \div 8) + 7
      count[frame \in 0 .. frame_count + 7] ==
        IF frame >= frame_count THEN 0
        ELSE IF Byte(frame) \subseteq used THEN count[frame + 1]
        ELSE Cardinality(Byte(frame) \ used) + count[frame + 8]
  IN  count[0]

-----------------------------------------------------------------------------
Panic == stage' = "panic" /\ UNCHANGED <<memory, frame_count, used, held, handedOut>>

(* init_allocator: a free range that does not end with a frame, at the top *)
(* of memory, is out of bounds.                                            *)
init_allocator ==
  LET count == Limit(memory)
      ranges == {SpanOf(memory[i]) : i \in FreeEntries(memory)} \cup {own_range(count)}
  IN  /\ stage = "start"
      /\ IF \A r \in ranges : contains_range(count, r)
           THEN /\ stage' = "bitmap"
                /\ frame_count' = count
                /\ used' = initialize_from_memory_map(memory, count) \cup own_range(count)
                /\ UNCHANGED <<memory, held, handedOut>>
           ELSE Panic

(* Mutant: the last frame of a range is left free.                         *)
MutTakeFrames(n) ==
  LET range == find_free_range(n) .. find_free_range(n) + n - 1
  IN  /\ used' = used \cup (range \ {find_free_range(n) + n - 1})
      /\ held' = held \cup range
      /\ handedOut' = handedOut + n

(* FrameBitmap::allocate_frames for n frames that are found.               *)
TakeFrames(n) ==
  LET range == find_free_range(n) .. find_free_range(n) + n - 1
  IN  /\ used' = used \cup range
      /\ held' = held \cup range
      /\ handedOut' = handedOut + n

(* create_initial_pagedir takes two frames before the kernel's frames are  *)
(* marked; each is the lowest free one.                                    *)
create_initial_pagedir ==
  LET lowest == {f \in 0 .. frame_count - 1 :
                   f \notin used /\ Cardinality(0 .. f - 1 \ used) < 2}
  IN  /\ stage = "bitmap"
      /\ IF Cardinality(lowest) = 2
           THEN /\ stage' = "directory"
                /\ used' = used \cup lowest /\ held' = lowest /\ handedOut' = 2
                /\ UNCHANGED <<memory, frame_count>>
           ELSE Panic

map_kernel ==
  /\ stage = "directory"
  /\ IF contains_range(frame_count, KernelFrames)
       THEN /\ stage' = "running"
            /\ used' = used \cup KernelFrames
            /\ UNCHANGED <<memory, frame_count, held, handedOut>>
       ELSE Panic

(* Every caller unwraps the result, or stops on an error.                  *)
allocate_frames(n) ==
  /\ stage = "running"
  /\ IF find_free_range(n) >= 0
       THEN TakeFrames(n) /\ UNCHANGED <<memory, stage, frame_count>>
       ELSE Panic

Next ==
  \/ init_allocator
  \/ create_initial_pagedir
  \/ map_kernel
  \/ \E n \in Counts : allocate_frames(n)

Spec == Init /\ [][Next]_vars

-----------------------------------------------------------------------------
(* The frames of the bitmap itself, and those of free memory.              *)
BitmapFrames ==
  Span(Location * FrameBytes, (frame_count + 7) \div 8)

Offered == UNION {SpanOf(memory[i]) : i \in FreeEntries(memory)}

(* No frame is handed out twice, and none of the kernel's, of the bitmap's *)
(* or of reserved memory, but for two slips of the code: a frame that is   *)
(* partly free counts as free (initialize_from_memory_map), and the last   *)
(* byte of the bitmap can lie in a frame that is not marked                *)
(* (size_in_frames).                                                       *)
HandedOutOnce ==
  /\ Cardinality(held) = handedOut
  /\ held \cap (KernelFrames \cup own_range(frame_count)) = {}
  /\ held \subseteq Offered
  /\ held \cap BitmapFrames # {} =>
       frame_count % 8 # 0 /\ (frame_count \div 8) % FrameBytes = 0

(* The bitmap shows every frame that is still free, and the count shown at *)
(* boot is theirs.                                                         *)
FreeExact ==
  LET free == Offered \ (held \cup KernelFrames \cup own_range(frame_count))
  IN  /\ 0 .. frame_count - 1 \ used = free
      /\ get_free_frame_count = Cardinality(free)

(* The search finds the lowest free range of a length if there is one.     *)
SearchExact ==
  \A n \in Counts \ {0} :
    LET starts == {s \in 0 .. frame_count - n : s .. s + n - 1 \cap used = {}}
    IN  IF starts = {} THEN find_free_range(n) = -1
        ELSE find_free_range(n) \in starts /\ \A s \in starts : find_free_range(n) <= s

(* Physical memory is accounted for from the end of boot on, for every     *)
(* memory map: what is handed out, what is free and what is found agree    *)
(* (init_allocator, allocate_frames).                                      *)
FramesAccounted == stage = "running" => HandedOutOnce /\ FreeExact /\ SearchExact
=============================================================================
