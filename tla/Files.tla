------------------------------- MODULE Files -------------------------------
(***************************************************************************)
(* The file system calls of processes on devices and pipes                 *)
(* (syscalls/file.rs): the handle map of each process (FileHandleMap), the *)
(* drives, the DEV file system's table from local handles to devices, and  *)
(* the pipe collection.  No call in this module yields, so each is one     *)
(* action.                                                                 *)
(*                                                                         *)
(* A Vec<Option<T>> is a sequence over T and None, whose index is that of  *)
(* the vector plus one.  A name is a value, and a path a drive and a name. *)
(***************************************************************************)
EXTENDS Integers, Sequences

CONSTANTS
  Procs,            \* processes
  First,            \* the one that exists at the start
  Devices,          \* names of the registered devices, in order
  Paths,            \* paths that processes open
  MAX_OPEN_FILES,   \* capacity of a handle map for opening
  Handles,          \* handle numbers processes pass
  Chunks,           \* byte sequences they write
  BUFFER_SIZE,      \* capacity of a pipe
  MaxOpens,         \* bound on the device openings of a behaviour
  MaxPipes,         \* bound on its pipes
  None,             \* the absent value
  Any               \* the argument 0xffffffff of dup

ASSUME SizesAssumption ==
  /\ {MAX_OPEN_FILES, BUFFER_SIZE, MaxOpens, MaxPipes} \subseteq Nat
  /\ Handles \subseteq Nat
ASSUME ValuesAssumption ==
  /\ First \in Procs
  /\ Chunks \subseteq Seq(STRING) /\ Devices \in Seq(STRING)
  /\ Paths \subseteq STRING \X STRING
VARIABLES
  alive,            \* processes created so far
  files,            \* open_files of each process
  next_id,          \* DevFileSystem::handle_allocator
  handle_to_device, \* DevFileSystem::handle_to_device
  handles,          \* PipeCollection::handles
  pipes,            \* PipeCollection::pipes: the bytes in each pipe
  got,              \* what the latest call has read
  halted            \* "panic", "spin" (the kernel runs on the spot), or "no"

vars == <<alive, files, next_id, handle_to_device, handles, pipes, got, halted>>

Init ==
  /\ alive = {First}
  /\ files = [p \in Procs |-> <<>>]
  /\ next_id = 1
  /\ handle_to_device = <<>>
  /\ handles = <<>> /\ pipes = <<>>
  /\ got = <<>> /\ halted = "no"

----------------------------------------------------------------------------
(* Vectors with free slots.                                                *)

(* The sequence with enough free slots at its end to have length n.        *)
Grown(slots, n) ==
  [i \in 1 .. (IF n > Len(slots) THEN n ELSE Len(slots)) |->
     IF i <= Len(slots) THEN slots[i] ELSE None]

(* Mutant: the slot after the first free one.                              *)
MutFirstFree(slots) ==
  LET free == {i \in 1 .. Len(slots) : slots[i] = None}
  IN  IF free = {} THEN Len(slots) + 1 ELSE CHOOSE i \in free : \A j \in free : i >= j

(* The first free slot, or the one past the end.                           *)
FirstFree(slots) ==
  LET free == {i \in 1 .. Len(slots) : slots[i] = None}
  IN  IF free = {} THEN Len(slots) + 1 ELSE CHOOSE i \in free : \A j \in free : i <= j

(* SlotList::insert, with the slot it takes.                               *)
insert(slots, item) == [Grown(slots, FirstFree(slots)) EXCEPT ![FirstFree(slots)] = item]

(* get_next_available_handle finds one.                                    *)
HasFree(map) == FirstFree(map) <= Len(map) \/ Len(map) < MAX_OPEN_FILES

set_handle_directly(map, h, pair) == [Grown(map, h + 1) EXCEPT ![h + 1] = pair]

get_drive_and_handle(map, h) == IF h + 1 <= Len(map) THEN map[h + 1] ELSE None

(* ProcessState::open_file on a map with room.                             *)
open_handle(map, pair) == set_handle_directly(map, FirstFree(map) - 1, pair)

----------------------------------------------------------------------------
(* System calls.                                                           *)

(* p runs and the kernel has not stopped; no call but read reads.          *)
Running(p) == p \in alive /\ halted = "no"
Calls(p) == Running(p) /\ got' = <<>>

(* The drives, as boot registers them: drive 0 is the first.               *)
VFS == <<"DEV", "PIPE", "INIT">>

(* The position of the first such name in a list, or 0.                    *)
NumberOf(list, name) ==
  LET at == {i \in DOMAIN list : list[i] = name}
  IN  IF at = {} THEN 0 ELSE CHOOSE i \in at : \A j \in at : i <= j

get_fs_number(name) == NumberOf(VFS, name)
DEV_FS == get_fs_number("DEV")
PIPE_FS == get_fs_number("PIPE")

(* The device registry; device numbers count from 1.                       *)
get_device_number_by_name(name) == NumberOf(Devices, name)
get_device(number) == Devices[number]

(* ProcessState::open_file of a local handle: a full map is a panic.       *)
open_file(p, pair) ==
  IF HasFree(files[p])
    THEN files' = [files EXCEPT ![p] = open_handle(@, pair)] /\ UNCHANGED halted
    ELSE halted' = "panic" /\ UNCHANGED files

(* DevFileSystem::open of a registered device.                             *)
OpenDevice(p, name) ==
  LET number == get_device_number_by_name(name)
  IN  /\ number # 0 /\ next_id <= MaxOpens
      /\ next_id' = next_id + 1
      /\ handle_to_device' = Append(Grown(handle_to_device, next_id), number)
      /\ open_file(p, <<DEV_FS, next_id>>)

(* open_path on the DEV drive; an unknown name, and any path of the PIPE   *)
(* drive, is an error.                                                     *)
open_path(p, path) ==
  /\ Calls(p)
  /\ get_fs_number(path[1]) = DEV_FS /\ OpenDevice(p, path[2])
  /\ UNCHANGED <<alive, handles, pipes>>

close_handle(map, h) == IF h + 1 <= Len(map) THEN [map EXCEPT ![h + 1] = None] ELSE map

(* close.  What it returns is left out; the close operation of every file  *)
(* system fails without doing anything.                                    *)
close(p, h) ==
  /\ Calls(p)
  /\ files' = [files EXCEPT ![p] = close_handle(@, h)]
  /\ UNCHANGED <<alive, next_id, handle_to_device, handles, pipes, halted>>

(* dup; of a closed handle, or with no handle free, it is an error.  The   *)
(* map is locked for writing when references_drive_and_handle locks it for *)
(* reading, so replacing an open handle never ends.                        *)
dup(p, h, t) ==
  LET pair == get_drive_and_handle(files[p], h)
      target == IF t = Any THEN FirstFree(files[p]) - 1 ELSE t
  IN  /\ Calls(p)
      /\ pair # None /\ (t = Any => HasFree(files[p]))
      /\ files' = [files EXCEPT ![p] = set_handle_directly(@, target, pair)]
      /\ halted' = IF get_drive_and_handle(files[p], target) # None THEN "spin" ELSE "no"
      /\ UNCHANGED <<alive, next_id, handle_to_device, handles, pipes>>

(* Pipe::new: the queue of a new pipe.                                     *)
NewPipe == <<>>

(* PipeCollection::create: the handles with those of a new pipe's ends.    *)
create ==
  LET i == FirstFree(pipes)
      with_read == insert(handles, <<"read", i>>)
  IN  [read |-> FirstFree(handles), write |-> FirstFree(with_read),
       handles |-> insert(with_read, <<"write", i>>)]

(* pipe: a new pipe, and a handle of the process for either end.           *)
pipe(p) ==
  LET map == open_handle(files[p], <<PIPE_FS, create.read>>)
  IN  /\ Calls(p) /\ Len(pipes) < MaxPipes
      /\ pipes' = insert(pipes, NewPipe)
      /\ handles' = create.handles
      /\ IF ~HasFree(files[p]) THEN halted' = "panic" /\ UNCHANGED files
         ELSE IF ~HasFree(map)
           THEN halted' = "panic" /\ files' = [files EXCEPT ![p] = map]
         ELSE /\ files' = [files EXCEPT ![p] = open_handle(map, <<PIPE_FS, create.write>>)]
              /\ UNCHANGED halted
      /\ UNCHANGED <<alive, next_id, handle_to_device>>

(* What a handle is, through the tables of its file system: a device by    *)
(* the driver at its number, or a pipe's end.                              *)
Resolve(pair) ==
  IF pair = None THEN <<"none">>
  ELSE IF pair[1] = DEV_FS THEN <<"device", get_device(handle_to_device[pair[2] + 1]), pair[2]>>
  ELSE handles[pair[2]]

Object(p, h) == Resolve(get_drive_and_handle(files[p], h))

(* The bytes in a pipe after a chunk is written, as far as it fits.        *)
Added(bytes, chunk) ==
  LET room == BUFFER_SIZE - Len(bytes)
  IN  bytes \o SubSeq(chunk, 1, IF Len(chunk) < room THEN Len(chunk) ELSE room)

(* The bytes left in a pipe when n have been read.                         *)
Taken(bytes, n) == SubSeq(bytes, n + 1, Len(bytes))

(* write to a pipe.  ZERO and NULL take a write without effect; with a     *)
(* wrong or closed handle it is an error.                                  *)
write(p, h, chunk) ==
  LET object == Object(p, h)
  IN  /\ Calls(p)
      /\ object[1] = "write"
      /\ pipes' = [pipes EXCEPT ![object[2]] = Added(@, chunk)]
      /\ UNCHANGED <<alive, files, next_id, handle_to_device, handles, halted>>

(* read of up to n bytes from a pipe.                                      *)
ReadPipe(i, n) ==
  LET count == IF n < Len(pipes[i]) THEN n ELSE Len(pipes[i])
  IN  /\ got' = SubSeq(pipes[i], 1, count)
      /\ pipes' = [pipes EXCEPT ![i] = Taken(@, count)]

(* The read operations of the ZERO and NULL devices.                       *)
ReadDevice(name, n) ==
  /\ got' = IF name = "ZERO" THEN [k \in 1 .. n |-> "0"] ELSE <<>>
  /\ UNCHANGED pipes

(* read.                                                                   *)
read(p, h, n) ==
  LET object == Object(p, h)
  IN  /\ Running(p)
      /\ \/ object[1] = "read" /\ ReadPipe(object[2], n)
         \/ object[1] = "device" /\ ReadDevice(object[2], n)
      /\ UNCHANGED <<alive, files, next_id, handle_to_device, handles, halted>>

(* The answer n of an ioctl, counted in zeros.                             *)
Answer(n) == [k \in 1 .. n |-> "0"]

(* ioctl: FIONREAD of the read end of a pipe asks for the bytes in it, and *)
(* command 0 of an open device for its number.                             *)
ioctl(p, h) ==
  LET object == Object(p, h)
  IN  /\ Running(p)
      /\ \/ object[1] = "read" /\ got' = Answer(Len(pipes[object[2]]))
         \/ object[1] = "device" /\ got' = Answer(get_device_number_by_name(object[2]))
      /\ UNCHANGED <<alive, files, next_id, handle_to_device, handles, pipes, halted>>

(* fork: the open handles of the parent at their numbers, and nothing past *)
(* the last one.                                                           *)
fork_file_map(map) ==
  LET open == {i \in 1 .. Len(map) : map[i] # None}
  IN  SubSeq(map, 1, IF open = {} THEN 0 ELSE CHOOSE i \in open : \A j \in open : i >= j)

fork(p, q) ==
  /\ Calls(p) /\ q \notin alive
  /\ alive' = alive \cup {q}
  /\ files' = [files EXCEPT ![q] = fork_file_map(files[p])]
  /\ UNCHANGED <<next_id, handle_to_device, handles, pipes, halted>>

Next ==
  \E p \in Procs :
    \/ \E path \in Paths : open_path(p, path)
    \/ pipe(p)
    \/ \E q \in Procs : fork(p, q)
    \/ \E h \in Handles :
         \/ close(p, h) \/ ioctl(p, h)
         \/ \E t \in Handles \cup {Any} : dup(p, h, t)
         \/ \E chunk \in Chunks : write(p, h, chunk)
         \/ \E n \in 1 .. BUFFER_SIZE : read(p, h, n)

Spec == Init /\ [][Next]_vars

----------------------------------------------------------------------------
(* What the handles promise, as Descriptors states it.                     *)
AllHandles == (0 .. MAX_OPEN_FILES - 1) \cup Handles

ViewOf(p) == [h \in AllHandles |-> Object(p, h)]

Made ==
  {<<"device", get_device(handle_to_device[n + 1]), n>> : n \in 1 .. next_id - 1}
    \cup {handles[i] : i \in DOMAIN handles}

Promise == INSTANCE Descriptors WITH
  Handles <- AllHandles, Serials <- 1 .. MaxOpens, PipeSize <- BUFFER_SIZE,
  Registry <- Devices, Nothing <- <<"none">>,
  view <- [p \in Procs |-> ViewOf(p)], made <- Made, content <- pipes

(* Handles behave as a map from numbers to shared objects, and what is     *)
(* read through them is what the object holds: every call is a step of     *)
(* Descriptors or changes nothing that a process can see.  The kernel      *)
(* stops only when a process with hardly a free handle opens something, or *)
(* one with an open handle duplicates it (open_file, dup).                 *)
KeepsPromise ==
  [][\/ Promise!Next
     \/ halted' = "panic" /\ \E p \in Procs : Promise!NearlyFull(p, MAX_OPEN_FILES)
     \/ halted' = "spin" /\ \E p \in Procs : Promise!HasOpen(p)]_(Promise!vars)
=============================================================================
