-------------------------------- MODULE Fat12 --------------------------------
(***************************************************************************)
(* The FAT12 file system (filesystems/fat12): looking a name up in the     *)
(* root directory, following a cluster chain through the packed 12-bit     *)
(* entries of the FAT, and listing the directory.                          *)
(*                                                                         *)
(* Every sector goes through one io_buffer, whose lock is held while the   *)
(* drive is read, and reading the drive yields.  So a call is cut at its   *)
(* reads, and a second caller that comes in during one spins for good.     *)
(*                                                                         *)
(* The buffer holds the disk from byte position buffer on.  What the FAT   *)
(* says is chosen when a call first looks at it; bytes are followed down   *)
(* to the nibble, so that an entry put together from the wrong nibbles is  *)
(* told from the right one.                                                *)
(***************************************************************************)
EXTENDS Integers, Sequences

CONSTANTS
  bytes_per_sector, reserved_sectors, fat_count, sectors_per_fat,
  DIRECTORY_ENTRY_SIZE,
  Searches, Any,           \* names looked for, and a pattern that matches all
  Directories,             \* what the root directory may hold
  Values,                  \* values of FAT entries
  Clusters,                \* first clusters of files
  Indices,                 \* indices passed to read_dir
  MaxHandles               \* bound on the open handles

VARIABLES
  dir,        \* the root directory of the disk, as a sequence of names
  fat,        \* the entries of the FAT looked at by the latest call
  buffer,     \* position on the disk of what io_buffer holds
  openFiles,  \* the types of the open files, by handle
  call,       \* the call in progress
  last,       \* the call that ended last
  halted      \* "no", or how the kernel stopped

vars == <<dir, fat, buffer, openFiles, call, last, halted>>

Empty == "empty"
Idle == [pc |-> "idle", op |-> "none", arg |-> 0, found |-> 0, want |-> 0,
         clusters |-> <<>>, sector |-> 65535, offset |-> 0, first |-> 0,
         part |-> <<>>, lap |-> 0, failed |-> FALSE, ok |-> FALSE]

(* DiskConfig: the layout of the disk, in sectors.                         *)
get_fat_sectors == reserved_sectors
get_root_directory_sectors == reserved_sectors + fat_count * sectors_per_fat
get_directory_index_location(index) ==
  LET entries_per_sector == bytes_per_sector \div DIRECTORY_ENTRY_SIZE
  IN  [sector |-> index \div entries_per_sector, local |-> index % entries_per_sector]

(* Entries 0 and 1 hold the media descriptor and the end-of-chain mark.    *)
Formatted == [c \in {0, 1} |-> IF c = 0 THEN 4080 ELSE 4095]

Init ==
  /\ dir \in Directories
  /\ fat = Formatted
  /\ buffer = -1
  /\ openFiles = <<>>
  /\ call = Idle /\ last = Idle
  /\ halted = "no"

(* The call waits for the drive to read at a position.                     *)
WaitFor(c, pc, position) == call' = [c EXCEPT !.pc = pc, !.want = position]

Finish(c, ok) == call' = Idle /\ last' = [c EXCEPT !.pc = "idle", !.ok = ok]

(* What the drive has at position pos of the root directory.               *)
EntryAt(pos) ==
  LET i == (pos - get_root_directory_sectors * bytes_per_sector) \div DIRECTORY_ENTRY_SIZE
  IN  IF i < Len(dir) THEN dir[i + 1] ELSE Empty

-----------------------------------------------------------------------------
(* ChainSectorIterator::next for the root directory: its sector_index does *)
(* not move, so every step gives the first sector.                         *)
RootSector(step) == get_root_directory_sectors

name_matches_search(name, search) == search \in {name, Any}

(* Mutant: free entries do not end the iteration.                          *)
MutListed(pos) == 0 .. bytes_per_sector \div DIRECTORY_ENTRY_SIZE - 1

(* The part of a sector DirectoryEntryIterator passes over: up to the      *)
(* first free entry.                                                       *)
Listed(pos) ==
  LET entries_per_sector == bytes_per_sector \div DIRECTORY_ENTRY_SIZE
      name(i) == EntryAt(pos + i * DIRECTORY_ENTRY_SIZE)
  IN  {i \in 0 .. entries_per_sector - 1 : \A j \in 0 .. i : name(j) # Empty}

(* Mutant: the search takes the last match.                                *)
MutMatches(pos, search) ==
  {i \in Listed(pos) :
     /\ name_matches_search(EntryAt(pos + i * DIRECTORY_ENTRY_SIZE), search)
     /\ \A j \in Listed(pos) :
          name_matches_search(EntryAt(pos + j * DIRECTORY_ENTRY_SIZE), search) => j <= i}

(* The entry the search takes: the first that matches, if there is one.    *)
Matches(pos, search) ==
  {i \in Listed(pos) :
     /\ name_matches_search(EntryAt(pos + i * DIRECTORY_ENTRY_SIZE), search)
     /\ \A j \in 0 .. i - 1 :
          ~ name_matches_search(EntryAt(pos + j * DIRECTORY_ENTRY_SIZE), search)}

(* open, up to the first read of find_entry_in_directory.  A path leads to *)
(* the root directory whatever directories it names.                       *)
Open(search) ==
  /\ call.pc = "idle" /\ halted = "no" /\ Len(openFiles) < MaxHandles
  /\ WaitFor([Idle EXCEPT !.op = "open", !.arg = search], "dir",
             RootSector(0) * bytes_per_sector)
  /\ fat' = Formatted /\ last' = Idle
  /\ UNCHANGED <<dir, buffer, openFiles, halted>>

(* find_entry_in_directory after a read.  A sector without a match ends    *)
(* the search if it has a free entry; otherwise the next one is read       *)
(* (lap is the parity of the sectors read).                                *)
Searched(ok) ==
  /\ call.pc = "dir" /\ halted = "no"
  /\ buffer' = IF ok THEN call.want ELSE buffer
  /\ \/ ~ok /\ Finish([call EXCEPT !.failed = TRUE], FALSE)
     \/ /\ ok
        /\ \E i \in Matches(call.want, call.arg), c \in Clusters :
             call' = [call EXCEPT !.pc = "chain", !.found = i, !.want = c]
        /\ UNCHANGED last
     \/ /\ ok /\ Matches(call.want, call.arg) = {}
        /\ IF Listed(call.want) # 0 .. bytes_per_sector \div DIRECTORY_ENTRY_SIZE - 1
             THEN Finish(call, FALSE)
             ELSE /\ WaitFor([call EXCEPT !.lap = 1 - @], "dir", RootSector(1) * bytes_per_sector)
                  /\ UNCHANGED last
  /\ UNCHANGED <<dir, fat, openFiles, halted>>

-----------------------------------------------------------------------------
clusters_per_sector == (bytes_per_sector * 2) \div 3 + 1

get_fat_sector_for_cluster(c) == c \div clusters_per_sector

FatPosition(sector) == (get_fat_sectors + sector) * bytes_per_sector

(* load_sector_of_fat_table, then on to pc.  get_cluster_chain ignores its *)
(* result: the buffer keeps what it has when the table has no such sector. *)
LoadFat(c, sector, pc, then) ==
  IF sector >= sectors_per_fat \/ fat_count = 0
    THEN call' = [c EXCEPT !.pc = then, !.failed = TRUE]
    ELSE WaitFor(c, pc, FatPosition(sector))

(* Where the first whole entry of a sector of the FAT is taken to start.   *)
ByteOffset(sector) ==
  IF sector > 0 THEN 3 - ((sector * bytes_per_sector) % 3) ELSE 0

(* A chain with a cycle is followed for good; the model stops at the first *)
(* cluster that comes again.                                               *)
Cyclic(clusters) == \E i \in 1 .. Len(clusters) - 1 : clusters[i] = clusters[Len(clusters)]

(* get_cluster_chain, the head of its loop: the next cluster joins the     *)
(* chain, and the sector of its entry is read unless it is there already.  *)
Visit ==
  LET c == call.want
      sector == get_fat_sector_for_cluster(c)
      joined == [call EXCEPT !.clusters = Append(@, c)]
  IN  /\ call.pc = "chain" /\ halted = "no" /\ ~Cyclic(call.clusters)
      /\ IF sector = call.sector
           THEN call' = [joined EXCEPT !.pc = "decode"]
           ELSE LoadFat([joined EXCEPT !.sector = sector, !.offset = ByteOffset(sector),
                                       !.first = clusters_per_sector * sector],
                        sector, "fat", "decode")
      /\ UNCHANGED <<dir, fat, buffer, openFiles, last, halted>>

(* FatSection::get_value, with the nibbles it reads, least significant     *)
(* first; "bounds" is an index past the end of the section.                *)
get_value(offset, first, c) ==
  LET distance == c - first
      triad_start == (distance \div 2) * 3 + offset
      triad_offset == distance % 2
      byte_addr == triad_start + triad_offset
      nibble == 2 * (buffer + byte_addr) + triad_offset
  IN  IF distance < 0 \/ triad_start >= bytes_per_sector
        THEN [tag |-> "OutOfBounds", nibbles |-> <<>>]
      ELSE IF byte_addr = bytes_per_sector
        THEN [tag |-> "bounds", nibbles |-> <<>>]
      ELSE IF bytes_per_sector - byte_addr < 2
        THEN [tag |-> "Partial", nibbles |-> [i \in 1 .. 2 - triad_offset |-> nibble + i - 1]]
      ELSE [tag |-> "Success", nibbles |-> [i \in 1 .. 3 |-> nibble + i - 1]]

(* FatEntry::from_value: does the chain go on?                             *)
has_next(value) == value \notin {0, 1} /\ value < 4080

(* The entry of the FAT that nibbles make up, or -1.                       *)
EntryOf(nibbles) ==
  LET start == nibbles[1] - 2 * FatPosition(0)
  IN  IF /\ start >= 0 /\ start % 3 = 0
         /\ start + 2 < 2 * bytes_per_sector * sectors_per_fat
         /\ nibbles = [i \in 1 .. 3 |-> nibbles[1] + i - 1]
        THEN start \div 3 ELSE -1

(* The loop goes on with the value the nibbles make up.  At its end the    *)
(* file gets a handle.                                                     *)
TakeValue(c, nibbles) ==
  LET entry == EntryOf(nibbles)
  IN  \E v \in IF entry \in DOMAIN fat THEN {fat[entry]} ELSE Values :
        /\ fat' = IF entry = -1 \/ entry \in DOMAIN fat THEN fat
                  ELSE [e \in DOMAIN fat \cup {entry} |-> IF e = entry THEN v ELSE fat[e]]
        /\ IF has_next(v)
             THEN call' = [c EXCEPT !.pc = "chain", !.want = v] /\ UNCHANGED <<openFiles, last>>
             ELSE Finish(c, TRUE) /\ openFiles' = Append(openFiles, "File")

(* Mutant: the two kinds of cut entries are mixed up.                      *)
MutSkipped(part) == 3 - Len(part)

(* The bytes of the next sector that belong to a cut entry: one when four  *)
(* of its bits were left, and, counting the next entry's half, two when    *)
(* eight were.                                                             *)
Skipped(part) == Len(part)

(* get_cluster_chain with the sector in the buffer.  A value that is out   *)
(* of bounds leaves the loop at the same cluster for good.                 *)
Decode ==
  LET c == call.clusters[Len(call.clusters)]
      value == get_value(call.offset, call.first, c)
      moved == [call EXCEPT !.sector = @ + 1, !.first = @ + clusters_per_sector,
                            !.offset = Skipped(value.nibbles), !.part = value.nibbles]
  IN  /\ call.pc = "decode" /\ halted = "no"
      /\ \/ /\ value.tag = "OutOfBounds" /\ halted' = "loop"
            /\ UNCHANGED <<fat, openFiles, call, last>>
         \/ /\ value.tag = "bounds" /\ halted' = "panic"
            /\ UNCHANGED <<fat, openFiles, call, last>>
         \/ /\ value.tag = "Partial"
            /\ LoadFat(moved, get_fat_sector_for_cluster(c) + 1, "part", "complete")
            /\ UNCHANGED <<fat, openFiles, last, halted>>
         \/ /\ value.tag = "Success" /\ TakeValue(call, value.nibbles)
            /\ UNCHANGED halted
      /\ UNCHANGED <<dir, buffer>>

(* A read of the FAT returns; a failed one leaves the buffer as it was.    *)
FatRead(ok) ==
  /\ call.pc \in {"fat", "part"} /\ halted = "no"
  /\ buffer' = IF ok THEN call.want ELSE buffer
  /\ call' = [call EXCEPT !.pc = IF call.pc = "fat" THEN "decode" ELSE "complete",
                          !.failed = @ \/ ~ok]
  /\ UNCHANGED <<dir, fat, openFiles, last, halted>>

(* The rest of a cut entry: one or two nibbles from the first byte.        *)
Complete ==
  /\ call.pc = "complete" /\ halted = "no"
  /\ TakeValue([call EXCEPT !.part = <<>>],
               call.part \o [i \in 1 .. 3 - Len(call.part) |-> 2 * buffer + i - 1])
  /\ UNCHANGED <<dir, buffer, halted>>

-----------------------------------------------------------------------------
(* open_dir: any path gives the root directory.                            *)
OpenDir ==
  /\ call.pc = "idle" /\ halted = "no" /\ Len(openFiles) < MaxHandles
  /\ openFiles' = Append(openFiles, "Directory")
  /\ last' = [Idle EXCEPT !.op = "open_dir", !.ok = TRUE]
  /\ UNCHANGED <<dir, fat, buffer, call, halted>>

(* read_dir, up to its read, on the handle of an open directory.           *)
ReadDir(index) ==
  LET place == get_directory_index_location(index)
  IN  /\ call.pc = "idle" /\ halted = "no"
      /\ \E h \in 1 .. Len(openFiles) : openFiles[h] = "Directory"
      /\ WaitFor([Idle EXCEPT !.op = "read_dir", !.arg = index], "entry",
                 RootSector(place.sector) * bytes_per_sector
                   + place.local * DIRECTORY_ENTRY_SIZE)
      /\ fat' = Formatted /\ last' = Idle
      /\ UNCHANGED <<dir, buffer, openFiles, halted>>

(* read_dir after its read: the entry is handed out, or a free one.        *)
EntryRead(ok) ==
  /\ call.pc = "entry" /\ halted = "no"
  /\ buffer' = IF ok THEN call.want ELSE buffer
  /\ Finish([call EXCEPT !.found = EntryAt(call.want), !.failed = ~ok], ok)
  /\ UNCHANGED <<dir, fat, openFiles, halted>>

(* A call during another call's read asks for the lock of io_buffer, with  *)
(* interrupts off, and the holder never runs again.                        *)
Spin ==
  /\ call.pc \in {"dir", "fat", "part", "entry"} /\ halted = "no"
  /\ halted' = "spin"
  /\ UNCHANGED <<dir, fat, buffer, openFiles, call, last>>

DriveReturns == \E ok \in BOOLEAN : Searched(ok) \/ FatRead(ok) \/ EntryRead(ok)
Follow == Visit \/ Decode \/ Complete

Next ==
  \/ \E search \in Searches : Open(search)
  \/ OpenDir
  \/ \E index \in Indices : ReadDir(index)
  \/ Spin
  \/ DriveReturns
  \/ Follow

(* Reads of the drive return (Floppy!ReadEnds), and kernel code runs on.   *)
Spec == Init /\ [][Next]_vars /\ WF_vars(DriveReturns) /\ WF_vars(Follow)

-----------------------------------------------------------------------------
(* The clusters whose entries the arithmetic finds.  With sectors of 512   *)
(* bytes they are those below 683, 684 to 1023 and 1026 to 1365: a sector  *)
(* holds a third of an entry less than clusters_per_sector, and the        *)
(* difference adds up.                                                     *)
Readable(c) ==
  LET sector == get_fat_sector_for_cluster(c)
      k == c % clusters_per_sector
  IN  \/ sector = 0
      \/ sector = 1 /\ k < clusters_per_sector - 1
      \/ sector \in {2, 3} /\ k < clusters_per_sector - 2

Sound(c) == \A i \in 1 .. Len(c.clusters) : Readable(c.clusters[i])

Followed(c) ==
  (~c.failed /\ Sound(c)) =>
    /\ \A i \in 1 .. Len(c.clusters) - 1 :
         c.clusters[i] \in DOMAIN fat /\ fat[c.clusters[i]] = c.clusters[i + 1]
    /\ c.ok /\ c.op = "open" =>
         \E e \in DOMAIN fat : e = c.clusters[Len(c.clusters)] /\ ~has_next(fat[e])

(* A chain is the one on the disk: each cluster is followed by the one its *)
(* entry names and the last one by none, over any jumps back and forth     *)
(* between sectors and entries cut by their ends, as long as no read fails *)
(* and the clusters are Readable (get_cluster_chain, get_value).           *)
ChainFollowed == Followed(call) /\ Followed(last)

(* What read_dir lists and what open finds is one directory: unless a read *)
(* fails or the first sector is full, a search succeeds exactly when some  *)
(* entry matches, with the first such entry, and an index of the first     *)
(* sector is answered with its entry.                                      *)
LookupsExact ==
  LET entries_per_sector == bytes_per_sector \div DIRECTORY_ENTRY_SIZE
      matching == {i \in 1 .. Len(dir) : name_matches_search(dir[i], last.arg)}
  IN  /\ (last.op = "open" /\ ~last.failed /\ Len(dir) < entries_per_sector) =>
           /\ last.ok <=> matching # {}
           /\ last.ok => /\ last.found + 1 \in matching
                         /\ \A i \in matching : last.found + 1 <= i
      /\ (last.op = "read_dir" /\ last.ok /\ last.arg < entries_per_sector) =>
           last.found = IF last.arg < Len(dir) THEN dir[last.arg + 1] ELSE Empty

(* Where the code may never come to an end: a first sector of the root     *)
(* directory that is full and has no match, a chain with a cycle, and a    *)
(* chain that leaves the clusters it can follow.                           *)
Endless(c) ==
  \/ c.pc = "dir" /\ Len(dir) >= bytes_per_sector \div DIRECTORY_ENTRY_SIZE
  \/ Cyclic(c.clusters)
  \/ ~Sound(c)

(* Every call ends, but for those cases and for a second caller.           *)
CallEnds == call.pc # "idle" ~> (call.pc = "idle" \/ halted = "spin" \/ Endless(call))
=============================================================================
