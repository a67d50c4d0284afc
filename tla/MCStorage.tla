------------------------------ MODULE MCStorage ------------------------------
(***************************************************************************)
(* Files for model checking: processes use handles of devices and pipes    *)
(* (Files), the files of the boot image (InitFiles), or the file system on *)
(* the drive (Fat12).  A behaviour has one part, chosen at the start; the  *)
(* other parts' variables stay as they are.                                *)
(***************************************************************************)
EXTENDS Files, Integers

CONSTANTS
  HeaderSize, Words, Names, Counts, Places, Moves, MaxOpen, MaxCursor,  \* of InitFiles
  bytes_per_sector, reserved_sectors, fat_count, sectors_per_fat,       \* of Fat12
  DIRECTORY_ENTRY_SIZE, Searches, AnyName, Values, Clusters, Indices, MaxHandles

ASSUME ImageAssumption ==
  /\ {HeaderSize, Words} \subseteq Nat \ {0} /\ HeaderSize % 2 = 0 /\ Words % 2 = 0
  /\ Places \cup Moves \subseteq 0 .. Words - 1
VARIABLES
  part,
  image, open_files, wanted, lastImage,
  dir, fat, buffer, openFiles, call, lastCall, fsHalted

(* The device registry has the one that is opened behind another; a name   *)
(* that is no device, and one on the drive of pipes, cannot be opened.     *)
DevicesDef == <<"NULL", "ZERO">>
PathsDef == {<<"DEV", "ZERO">>, <<"DEV", "NONE">>, <<"PIPE", "ZERO">>}

(* What processes write to a pipe.                                         *)
ChunksDef == {<<"a", "b">>}

(* Archives of one or two files; names and files have odd and even sizes.  *)
Entries ==
  {[name |-> "a", name_size |-> 2, file_size |-> n] : n \in 0 .. 2}
    \cup {[name |-> "bc", name_size |-> 3, file_size |-> n] : n \in 1 .. 2}
Images == UNION {[1 .. k -> Entries] : k \in 1 .. 2}

(* Directories that are empty, partly filled, and longer than a sector.    *)
Directories == {<<>>, <<"b", "a">>, <<"c", "b", "c", "c", "a">>}

Boot == INSTANCE InitFiles WITH last <- lastImage, Positions <- Places, Offsets <- Moves
FS == INSTANCE Fat12 WITH last <- lastCall, halted <- fsHalted, Any <- AnyName

imageVars == <<image, open_files, wanted, lastImage>>
fsVars == <<dir, fat, buffer, openFiles, call, lastCall, fsHalted>>
storageVars == <<part, vars, imageVars, fsVars>>

(* Each part starts in any of its initial states, the others in one.       *)
StorageInit ==
  /\ part \in {"handles", "image", "files"}
  /\ Init /\ Boot!Init /\ FS!Init
  /\ part # "image" => image = CHOOSE a \in Images : TRUE
  /\ part # "files" => dir = <<>>

(* A step of the files on the disk, the only ones that have to happen.     *)
OnDisk(A) == part = "files" /\ A /\ UNCHANGED <<part, vars, imageVars>>

StorageNext ==
  \/ part = "handles" /\ Next /\ UNCHANGED <<part, imageVars, fsVars>>
  \/ part = "image" /\ Boot!Next /\ UNCHANGED <<part, vars, fsVars>>
  \/ OnDisk(FS!Next)

StorageSpec ==
  /\ StorageInit /\ [][StorageNext]_storageVars
  /\ WF_storageVars(OnDisk(FS!DriveReturns)) /\ WF_storageVars(OnDisk(FS!Follow))

(* The properties of the parts, under the names they give them.            *)
ImageReadsExact == Boot!ImageReadsExact
ChainFollowed == FS!ChainFollowed
LookupsExact == FS!LookupsExact
CallEnds == FS!CallEnds
=============================================================================
