------------------------------ MODULE InitFiles ------------------------------
(***************************************************************************)
(* The INIT file system (filesystems/init/mod.rs): the files of an archive *)
(* that the boot loader has put in memory, found by a walk over its        *)
(* headers and read in place.  Processes reach it through local handles,   *)
(* which they share; no call yields, so each is one action.                *)
(***************************************************************************)
EXTENDS Integers, Sequences

CONSTANTS
  Images,       \* archives: sequences of entries with name, name_size, file_size
  HeaderSize,   \* bytes of a header: 26 in the code
  Words,        \* number of values of a machine word
  Names,        \* names that are opened
  Counts,       \* lengths of reads
  Positions,    \* arguments of absolute seeks
  Offsets,      \* arguments of relative seeks, as words
  MaxOpen,      \* bound on the openings of a behaviour
  MaxCursor     \* bound on the place of a read

VARIABLES
  image,        \* the archive
  open_files,   \* InitFileSystem::open_files, whose handles count from 1
  wanted,       \* the name by which each was opened
  last          \* the latest call, if it was a read: what was asked and got

vars == <<image, open_files, wanted, last>>

NoRead == [handle |-> 0, at |-> 0, count |-> 0, bytes |-> <<>>]

Init ==
  /\ image \in Images
  /\ open_files = <<>> /\ wanted = <<>> /\ last = NoRead

----------------------------------------------------------------------------
(* The archive in memory.                                                  *)

Even(n) == n + (n % 2)

(* Where the tool that made the archive has put the i-th header, and after *)
(* the last one the trailer: each part starts at an even place.            *)
Placed(archive) ==
  LET at[i \in 1 .. Len(archive) + 1] ==
        IF i = 1 THEN 0
        ELSE at[i - 1] + HeaderSize + Even(archive[i - 1].name_size) + Even(archive[i - 1].file_size)
  IN  at

Content(i) == Placed(image)[i] + HeaderSize + Even(image[i].name_size)

(* The byte of memory at an offset from the start of the archive.          *)
ByteAt(a) ==
  LET holds == {i \in DOMAIN image : a \in Content(i) .. Content(i) + image[i].file_size - 1}
  IN  IF holds = {} THEN <<0, 0>>
      ELSE LET i == CHOOSE i \in holds : TRUE IN <<i, a - Content(i)>>

----------------------------------------------------------------------------
(* The file system.                                                        *)

(* CpioHeader::length: from one header to the next.                        *)
length(entry) == HeaderSize + Even(entry.name_size) + Even(entry.file_size)

(* Mutant: a file starts right after its name.                            *)
MutContentPtr(a, entry) == a + HeaderSize + entry.name_size

(* CpioHeader::get_content_ptr of the header at an offset.                 *)
get_content_ptr(a, entry) == a + Even(HeaderSize + entry.name_size)

(* CpioIterator: the offsets it visits, up to the trailer.  Off the places *)
(* of the headers it reads other bytes as one, and finds no name there.    *)
Visited ==
  LET at == Placed(image)
      step[k \in 1 .. Len(image) + 1] ==
        IF k = 1 THEN 0
        ELSE LET here == {i \in DOMAIN image : at[i] = step[k - 1]}
             IN  IF here = {} THEN step[k - 1]
                 ELSE step[k - 1] + length(image[CHOOSE i \in here : TRUE])
  IN  step

(* The entries that the iterator yields, by their numbers.                 *)
Yielded == {i \in DOMAIN image : \E k \in DOMAIN image : Visited[k] = Placed(image)[i]}

(* InitFileSystem::open; a name that is not found is an error.             *)
open(name) ==
  LET found == {i \in Yielded : image[i].name = name}
  IN  /\ Len(open_files) < MaxOpen
      /\ found # {}
      /\ LET i == CHOOSE i \in found : \A j \in found : i <= j
         IN  open_files' = Append(open_files,
               [start |-> get_content_ptr(Placed(image)[i], image[i]),
                length |-> image[i].file_size, cursor |-> 0])
      /\ wanted' = Append(wanted, name)
      /\ last' = NoRead
      /\ UNCHANGED image

(* The bytes a read takes: what is left is an unsigned difference.         *)
to_read(file, count) ==
  LET bytes_left_in_file == (file.length - file.cursor) % Words
  IN  IF bytes_left_in_file < count THEN bytes_left_in_file ELSE count

(* InitFileSystem::read.                                                   *)
read(h, count) ==
  LET file == open_files[h]
      n == to_read(file, count)
  IN  /\ file.cursor <= MaxCursor
      /\ open_files' = [open_files EXCEPT ![h].cursor = (@ + n) % Words]
      /\ last' = [handle |-> h, at |-> file.cursor, count |-> count,
                  bytes |-> [k \in 1 .. n |-> ByteAt((file.start + file.cursor + k - 1) % Words)]]
      /\ UNCHANGED <<image, wanted>>

Signed(word) == IF word < Words \div 2 THEN word ELSE word - Words

(* SeekMethod::Relative: a saturating addition of signed words.            *)
from_current_position(cursor, off) ==
  LET sum == Signed(cursor) + Signed(off)
      high == Words \div 2 - 1
  IN  (IF sum > high THEN high ELSE IF sum < -high - 1 THEN -high - 1 ELSE sum) % Words

(* InitFileSystem::seek: no place is refused.                              *)
seek(h) ==
  /\ \E to \in Positions \cup {from_current_position(open_files[h].cursor, off) : off \in Offsets} :
       open_files' = [open_files EXCEPT ![h].cursor = to]
  /\ last' = NoRead
  /\ UNCHANGED <<image, wanted>>

Next ==
  \/ \E name \in Names : open(name)
  \/ \E h \in DOMAIN open_files : seek(h) \/ \E count \in Counts : read(h, count)

Spec == Init /\ [][Next]_vars

----------------------------------------------------------------------------
(* The bytes of the first file of a name, from a place on.                 *)
Bytes(name, at, count) ==
  LET i == CHOOSE i \in DOMAIN image :
             image[i].name = name /\ \A j \in 1 .. i - 1 : image[j].name # name
      n == IF count < image[i].file_size - at THEN count ELSE image[i].file_size - at
  IN  [k \in 1 .. n |-> <<i, at + k - 1>>]

(* A read returns the bytes of the file of the name that was opened, from  *)
(* its own cursor on and no more than the file has, whatever the sizes of  *)
(* the names and files before it and whatever the other handles do, as     *)
(* long as no seek has gone past the end of the file; every name of the    *)
(* archive can be opened (length, get_content_ptr and read fit together).  *)
ImageReadsExact ==
  /\ last.handle # 0 =>
       LET file == open_files[last.handle]
       IN  last.at <= file.length => last.bytes = Bytes(wanted[last.handle], last.at, last.count)
  /\ \A name \in Names : Len(open_files) < MaxOpen /\ (\E i \in DOMAIN image : image[i].name = name) =>
       ENABLED open(name)
=============================================================================
