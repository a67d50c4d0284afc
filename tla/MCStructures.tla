---------------------------- MODULE MCStructures ----------------------------
(***************************************************************************)
(* The sequential parts that the rest of the kernel is built on, for model *)
(* checking: the ring buffer, physical frames, the kernel heap and the     *)
(* clock.  A behaviour is one of a single part, chosen at the start; the   *)
(* variables of the others stay as they are.                               *)
(***************************************************************************)
EXTENDS RingBuffer

CONSTANTS
  FrameBytes, KernelFrames, Counts,                   \* of Frames
  HeapStart, PageBytes, INITIAL_HEAP_SIZE, MaxSize,   \* of ListAllocator
  Hours, MaxDay, MaxTicks                             \* of Clock

VARIABLES
  part,
  memory, stage, frame_count, used, held, handedOut,
  size, free, live, failed,
  day, date, booted, known, ticks

Entry(first, end, isFree) == [base |-> first, length |-> end - first, free |-> isFree]

(* Low memory, a hole, and high memory that holds the kernel, in any two   *)
(* orders; the parts may or may not end with a frame.                      *)
Maps ==
  UNION {{<<Entry(0, a, TRUE), Entry(a, b, FALSE), Entry(b, c, TRUE)>>,
          <<Entry(b, c, TRUE), Entry(0, a, TRUE), Entry(a, b, FALSE)>>} :
         a \in {4, 5, 6}, b \in {8, 9, 10}, c \in 26 .. 36}

(* A byte, a block with a large alignment, and one that needs most of the  *)
(* initial heap.                                                           *)
Layouts == {[size |-> 1, align |-> 1], [size |-> 20, align |-> 16], [size |-> 70, align |-> 4]}

Physical == INSTANCE Frames
Heap == INSTANCE ListAllocator
Time == INSTANCE Clock

ringVars == vars
frameVars == <<memory, stage, frame_count, used, held, handedOut>>
heapVars == <<size, free, live, failed>>
timeVars == <<day, date, booted, known, ticks>>
allVars == <<part, ringVars, frameVars, heapVars, timeVars>>

(* Each part starts in any of its initial states, the others in one.       *)
StructuresInit ==
  /\ part \in {"ring", "frames", "heap", "time"}
  /\ Init /\ Physical!Init /\ Heap!Init /\ Time!Init
  /\ part # "frames" => memory = CHOOSE m \in Maps : TRUE

StructuresNext ==
  \/ part = "ring" /\ Next /\ UNCHANGED <<part, frameVars, heapVars, timeVars>>
  \/ part = "frames" /\ Physical!Next /\ UNCHANGED <<part, ringVars, heapVars, timeVars>>
  \/ part = "heap" /\ Heap!Next /\ UNCHANGED <<part, ringVars, frameVars, timeVars>>
  \/ part = "time" /\ Time!Next /\ UNCHANGED <<part, ringVars, frameVars, heapVars>>

StructuresSpec == StructuresInit /\ [][StructuresNext]_allVars

(* The properties of the other parts, under their own names.               *)
FramesAccounted == Physical!FramesAccounted
HeapWellFormed == Heap!HeapWellFormed
KeepsSpace == Heap!KeepsSpace
DatesExact == Time!DatesExact
KnownTimeBut == Time!KnownTimeBut
=============================================================================
