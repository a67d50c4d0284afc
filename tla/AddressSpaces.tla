--------------------------- MODULE AddressSpaces ----------------------------
(***************************************************************************)
(* The address spaces of the processes: page tables and memory regions     *)
(* under fork, exec, brk and page faults, the kernel heap and the DMA      *)
(* region of the kernel, and the frames all of them take.                  *)
(*                                                                         *)
(* The layout is that of the kernel, scaled down.  From low to high: the   *)
(* window, in which the boot process sees the first frames of memory, with *)
(* the kernel in them; room for the heap of the process; its stack; the    *)
(* same first frames again for the kernel; the kernel heap; the kernel     *)
(* stack.  One page stands for each stack.                                 *)
(*                                                                         *)
(* Frames are taken one by one and never returned, so only their number    *)
(* counts: a frame is named after the page it was first mapped to.         *)
(***************************************************************************)
EXTENDS Integers, FiniteSets

CONSTANTS
  FrameCount,   \* frames free once the kernel heap has its first page
  MaxProcs,     \* bound on the number of processes
  BootProcs,    \* processes that exist when the first one enters user mode
  PageBytes,    \* bytes of a page
  TablePages,   \* pages that one page table maps
  WindowPages,  \* pages of the window, and of the kernel's copy of it
  StackPage,    \* the user stack
  KernelPage,   \* the first page of the kernel, at 0xc0000000
  HeapPage,     \* the first page of the kernel heap
  KernelStack,  \* the kernel stack
  Breaks,       \* addresses passed to brk, below the stack
  Deltas,       \* distances passed to sbrk, in either direction
  RefLimit,     \* reference counts wrap here
  None

ASSUME FrameCountAssumption == FrameCount \in Nat
ASSUME ProcsAssumption == MaxProcs \in Nat \ {0}
ASSUME LayoutAssumption ==
  /\ {PageBytes, TablePages, WindowPages} \subseteq Nat \ {0}
  /\ {StackPage, KernelPage, HeapPage, KernelStack} \subseteq Nat
  /\ WindowPages < StackPage /\ StackPage < KernelPage
  /\ KernelPage + WindowPages <= HeapPage /\ HeapPage < KernelStack
ASSUME BreaksAssumption == Breaks \subseteq 0 .. StackPage * PageBytes - 1
ASSUME DeltasAssumption == Deltas \subseteq Nat
ASSUME RefLimitAssumption == RefLimit \in Nat \ {0}

Procs == 0 .. MaxProcs - 1
Pages == 0 .. KernelStack
Window == 0 .. WindowPages - 1
KernelExec == KernelPage .. KernelPage + WindowPages - 1
Index(g) == g \div TablePages         \* get_page_directory_index

VARIABLES
  procs,      \* the processes that exist
  free,       \* how many frames the bitmap has free
  refs,       \* FrameRefcount: references of the frames of the window
  map,        \* per process and page, the page table entry or None
  tables,     \* per process, the entries of its directory that are present
  program,    \* per process, its execution regions: "window", "bin", "com"
  heapStart,  \* per process, first page of its heap region
  heapPages,  \* per process, size of its heap region in pages
  brk,        \* heap_break
  kheap,      \* size of the kernel heap in pages
  dma,        \* kernel_mmap_dma has been called
  halted      \* "no", or why the kernel does not go on

vars == <<procs, free, refs, map, tables, program, heapStart, heapPages,
          brk, kheap, dma, halted>>
userVars == <<program, heapStart, heapPages, brk>>

(* The pages of the kernel heap region, which grows at its end.            *)
KernelHeap == HeapPage .. HeapPage + kheap - 1

(* An entry of a page table: the frame, whether it is writable, and where  *)
(* the contents came from.                                                 *)
Entry(f, w, s) == [frame |-> f, write |-> w, src |-> s]
Entries ==
  [frame : Procs \X Pages, write : BOOLEAN,
   src : {"boot", "heap", "anon", "file", "kernel", "none"}]

ASSUME NoneAssumption == None \notin Entries

Present(p) == {g \in Pages : map[p][g] # None}

(* The frame that page g of process p was given.  When exec unmaps the     *)
(* page its frame is lost, and the next one takes the name.                *)
FrameOf(p, g) == <<p, g>>

(* The first frame of the window holds the kernel and the stack of the     *)
(* boot process.                                                           *)
KernelFrame == FrameOf(0, 0)

(* The state that the boot code leaves: a directory, the top table, one    *)
(* table for the window and the kernel's view of it, and the first page of *)
(* the kernel heap with its table.                                         *)
Init ==
  /\ procs = {0}
  /\ free = FrameCount
  /\ refs = [g \in Window |-> 0]
  /\ map = [p \in Procs |-> [g \in Pages |->
       IF p # 0 THEN None
       ELSE IF g \in Window THEN Entry(FrameOf(0, g), FALSE, "boot")
       ELSE IF g \in KernelExec THEN Entry(FrameOf(0, g - KernelPage), FALSE, "boot")
       ELSE IF g = HeapPage THEN Entry(FrameOf(0, g), FALSE, "heap")
       ELSE IF g = KernelStack THEN Entry(KernelFrame, FALSE, "boot")
       ELSE None]]
  /\ tables = [p \in Procs |->
       IF p # 0 THEN {} ELSE {Index(g) : g \in {0, KernelPage, HeapPage, KernelStack}}]
  /\ program = [p \in Procs |-> "window"]
  /\ heapStart = [p \in Procs |-> 0]
  /\ heapPages = [p \in Procs |-> 0]
  /\ brk = [p \in Procs |-> 0]
  /\ kheap = 1
  /\ dma = FALSE
  /\ halted = "no"

Booted == Cardinality(procs) >= BootProcs

(* The processes that run: the boot process until it enters user mode,     *)
(* then the others.                                                        *)
Runs(p) == halted = "no" /\ p \in procs /\ (p = 0 <=> ~Booted)

Halt(why) ==
  /\ halted' = why
  /\ UNCHANGED <<procs, free, refs, map, tables, userVars, kheap, dma>>

(* contains_address of the heap region.                                    *)
InHeap(p, g) == g \in heapStart[p] .. heapStart[p] + heapPages[p] - 1

(* The execution regions: the window, or the program that exec mapped.     *)
ExecRegion(p, g) ==
  \/ program[p] = "window" /\ g \in Window
  \/ program[p] = "bin" /\ g = 0
  \/ program[p] = "com" /\ g \in {0, 1}

(* The page is in a region that mmap backs with the file of the program.   *)
FromFile(p, g) ==
  <<program[p], g>> \in {<<"bin", 0>>, <<"com", 1>>}

(* get_range_containing_address: where the contents of a page come from on *)
(* a fault, the regions being searched in this order.                      *)
Source(p, g) ==
  IF g \in KernelHeap THEN "heap"
  ELSE IF InHeap(p, g) \/ g = StackPage THEN "anon"
  ELSE IF FromFile(p, g) THEN "file"
  ELSE IF ExecRegion(p, g) THEN "anon"
  ELSE "none"

(* Frames that CurrentPageDirectory::map takes for a page table.           *)
TableFrames(p, g) == IF Index(g) \in tables[p] THEN 0 ELSE 1

(* page_fault for a page that is not present and lies in a region: a new   *)
(* frame is mapped, writable for user pages.  A page of a copy-on-write    *)
(* region is always present.                                               *)
MapFault(p, g) ==
  IF free < 1 + TableFrames(p, g)
    THEN Halt("panic")
    ELSE /\ free' = free - 1 - TableFrames(p, g)
         /\ map' = [map EXCEPT ![p][g] =
              Entry(FrameOf(p, g), g < KernelPage, Source(p, g))]
         /\ tables' = [tables EXCEPT ![p] = @ \cup {Index(g)}]
         /\ UNCHANGED <<procs, refs, userVars, kheap, dma, halted>>

(* The user program of p touches a page that is not present.  Outside      *)
(* every region the handler prints a message and loops.                    *)
UserFault(p, g) ==
  /\ Runs(p) /\ p # 0
  /\ g < KernelPage /\ map[p][g] = None
  /\ IF Source(p, g) = "none" THEN Halt("loop") ELSE MapFault(p, g)

(* The user program of p writes to a page that is not writable, or touches *)
(* a page of the kernel.  "Copy on Write not implemented yet": the handler *)
(* loops.                                                                  *)
BadAccess(p) ==
  /\ Runs(p) /\ p # 0
  /\ Halt("loop")

(* Kernel code running for p touches a page of the kernel heap that p has  *)
(* not mapped.  The idle process does so too.                              *)
KernelFault(p, g) ==
  /\ halted = "no" /\ p \in procs
  /\ g >= KernelPage /\ map[p][g] = None /\ Source(p, g) # "none"
  /\ MapFault(p, g)

(* expand_kernel_heap.                                                     *)
expand_kernel_heap ==
  /\ halted = "no"
  /\ kheap' \in kheap + 1 .. KernelStack - HeapPage
  /\ UNCHANGED <<procs, free, refs, map, tables, userVars, dma, halted>>

(* kernel_mmap_dma, called once, by the floppy driver, for one frame.  A   *)
(* fault on the region maps that frame in every process and takes none.    *)
kernel_mmap_dma ==
  /\ halted = "no" /\ ~dma /\ Booted
  /\ IF free = 0
       THEN Halt("panic")
       ELSE /\ dma' = TRUE
            /\ free' = free - 1
            /\ UNCHANGED <<procs, refs, map, tables, userVars, kheap, halted>>

(* Mutant: the child gets the stack frames of its parent.                  *)
MutCopied(g, entry, new) == Entry(entry.frame, TRUE, entry.src)

(* copy_frames: the contents move to a new frame, which is writable.       *)
Copied(g, entry, new) ==
  Entry(new, TRUE, IF g = StackPage THEN "anon" ELSE "kernel")

(* Mutant: the frames shared copy-on-write become writable.                *)
MutShared(entry) == Entry(entry.frame, TRUE, entry.src)

(* map_with_copy_on_write: the entry loses its write access.               *)
Shared(entry) == Entry(entry.frame, FALSE, entry.src)

(* The pages of the copy-on-write regions of MemoryRegions::initial.       *)
CowPages == Window \cup KernelExec

(* The pages of the regions that are copied: those of the two stacks.      *)
Copies(p) == Present(p) \cap {KernelStack, StackPage}

(* Mutant: the kernel heap is left to be faulted in by the child.          *)
MutInherited(p) == {g \in Present(p) : g \in CowPages \cup Copies(p) \/ InHeap(p, g)}

(* Pages of p that fork maps in the child: the kernel heap, both stacks,   *)
(* the kernel, the heap of the process, and the window.                    *)
Inherited(p) ==
  {g \in Present(p) : g \in KernelHeap \cup CowPages \cup Copies(p) \/ InHeap(p, g)}

(* reference_frame_at_address for each copy-on-write page.                 *)
Referenced(p) ==
  [f \in Window |->
     (refs[f] + Cardinality({g \in CowPages \cap Present(p) :
                               map[p][g].frame = FrameOf(0, f)})) % RefLimit]

(* MemoryRegions::fork, and the break: the child has those of its parent.  *)
ForkRegions(p, c) ==
  /\ program' = [program EXCEPT ![c] = program[p]]
  /\ heapStart' = [heapStart EXCEPT ![c] = heapStart[p]]
  /\ heapPages' = [heapPages EXCEPT ![c] = heapPages[p]]
  /\ brk' = [brk EXCEPT ![c] = brk[p]]

(* ProcessState::fork with fork_page_directory, which maps the child page  *)
(* by page.  Frames are taken for the directory, the page tables and the   *)
(* copies of the stacks.                                                   *)
ForkMemory(p, c) ==
  LET indices == {Index(g) : g \in Inherited(p)}
      n == 1 + Cardinality(indices) + Cardinality(Copies(p))
  IN  IF program[p] # "window" \/ free < n
        THEN Halt("panic")
        ELSE /\ procs' = procs \cup {c}
             /\ free' = free - n
             /\ refs' = Referenced(p)
             /\ map' = [map EXCEPT
                  ![p] = [g \in Pages |-> IF g \in CowPages \cap Present(p)
                                          THEN Shared(@[g]) ELSE @[g]],
                  ![c] = [g \in Pages |->
                            IF g \notin Inherited(p) THEN None
                            ELSE IF g \in Copies(p) THEN Copied(g, map[p][g], FrameOf(c, g))
                            ELSE IF g \in CowPages THEN Shared(map[p][g])
                            ELSE map[p][g]]]
             /\ tables' = [tables EXCEPT ![c] = indices]
             /\ ForkRegions(p, c)
             /\ UNCHANGED <<kheap, dma, halted>>

(* A kernel path that holds a lock page_fault takes may touch a page of    *)
(* the kernel heap that its process has not mapped, and then spins.        *)
HeapIncomplete(p) == \E g \in KernelHeap : map[p][g] = None

(* fork_current, under the write lock of the process table.                *)
Fork(p) ==
  /\ Runs(p)
  /\ \/ Cardinality(procs) \in Procs /\ ForkMemory(p, Cardinality(procs))
     \/ HeapIncomplete(p) /\ Halt("spin")

(* Mutant: the pages of the old regions stay mapped.                       *)
MutUnmapped(p) == map

(* unmap_all: the pages of the execution regions are no longer present.    *)
Unmapped(p) ==
  [map EXCEPT ![p] = [g \in Pages |-> IF ExecRegion(p, g) THEN None ELSE @[g]]]

(* What get_exec_format finds, detecting nothing but flat binaries itself. *)
Formats == {"bin", "com", "elf", "dos"}

(* prepare_for_exec: a flat binary is mapped at 0 and the heap starts on   *)
(* the next page; a COM program is mapped at the second page; the other    *)
(* formats panic.  The new regions are pushed under the lock of the        *)
(* regions.                                                                *)
Exec(p, format) ==
  /\ Runs(p) /\ p # 0
  /\ \/ /\ format \in {"bin", "com"}
        /\ map' = Unmapped(p)
        /\ program' = [program EXCEPT ![p] = format]
        /\ heapStart' = IF format = "bin" THEN [heapStart EXCEPT ![p] = 1] ELSE heapStart
        /\ UNCHANGED <<procs, free, refs, tables, heapPages, brk, kheap, dma, halted>>
     \/ format \in {"elf", "dos"} /\ Halt("panic")
     \/ HeapIncomplete(p) /\ Halt("spin")

(* Mutant: a break at the end of a page leaves the next one out.           *)
MutRounded(size) == (size + PageBytes - 1) \div PageBytes

(* The pages of a heap of this size: (new_size + 0x1000) & 0xfffff000.     *)
Rounded(size) == (size + PageBytes) \div PageBytes

(* set_heap_break: the region follows the break when it leaves its page.   *)
(* An address below the start is refused.                                  *)
set_heap_break(p, addr) ==
  LET moves == addr \div PageBytes # brk[p] \div PageBytes \/ brk[p] = 0
      size == addr - heapStart[p] * PageBytes
  IN  /\ Runs(p) /\ p # 0
      /\ addr # brk[p]
      /\ moves => size >= 0
      /\ heapPages' = IF moves THEN [heapPages EXCEPT ![p] = Rounded(size)] ELSE heapPages
      /\ brk' = [brk EXCEPT ![p] = addr]
      /\ UNCHANGED <<procs, free, refs, map, tables, program, heapStart, kheap, dma, halted>>

(* move_heap_break: a break below zero is refused.                         *)
move_heap_break(p, delta) ==
  /\ brk[p] + delta \in Breaks
  /\ set_heap_break(p, brk[p] + delta)

Next ==
  \/ \E p \in Procs :
       \/ Fork(p) \/ BadAccess(p)
       \/ \E g \in Pages : UserFault(p, g) \/ KernelFault(p, g)
       \/ \E format \in Formats : Exec(p, format)
       \/ \E addr \in Breaks : set_heap_break(p, addr)
       \/ \E d \in Deltas : move_heap_break(p, d) \/ move_heap_break(p, -d)
  \/ expand_kernel_heap
  \/ kernel_mmap_dma

Spec == Init /\ [][Next]_vars

(* For TLC: states in which the kernel has halted alike count as one.      *)
View == IF halted = "no" THEN <<vars>> ELSE <<halted, kheap>>

-----------------------------------------------------------------------------
Mappings == {m \in procs \X Pages : map[m[1]][m[2]] # None}

(* The frame the kernel was loaded into is writable through no page table, *)
(* however often the window is copied and the programs replaced.           *)
KernelImageProtected ==
  \A m \in Mappings : map[m[1]][m[2]].frame = KernelFrame => ~map[m[1]][m[2]].write

(* The frame of a stack is the process's own: no other page maps it,       *)
(* except that the window shows the kernel stack of the boot process       *)
(* (fork_page_directory copies both stacks).                               *)
StacksPrivate ==
  \A p \in procs : \A g \in Copies(p) : \A m \in Mappings \ {<<p, g>>} :
    map[m[1]][m[2]].frame = map[p][g].frame => map[m[1]][m[2]].src = "boot"

(* A program that exec has started runs its file: the pages of the file's  *)
(* region hold what was read from it and never what the process had there  *)
(* before.  A COM program needs an empty heap, which starts at page 0.     *)
ProgramFromFile ==
  \A p \in procs, g \in Pages :
    (/\ FromFile(p, g) /\ map[p][g] # None
     /\ program[p] = "com" => heapPages[p] = 0) => map[p][g].src = "file"

(* Every byte below the break, from the start of the heap on, is in the    *)
(* heap region, so that a fault on it is served; through any sequence of   *)
(* brk, sbrk, fork and exec (set_heap_break resizes the region only when   *)
(* the break leaves its page).                                             *)
BreakCovered ==
  \A p \in procs : brk[p] <= (heapStart[p] + heapPages[p]) * PageBytes

(* The first page of the kernel heap is the same frame in every process,   *)
(* and until the heap grows no fork or exec spins on a fault of its own    *)
(* (fork_page_directory maps the kernel heap in the child).                *)
FirstHeapShared ==
  /\ \A p \in procs : /\ map[p][HeapPage] # None
                      /\ map[p][HeapPage].frame = FrameOf(0, HeapPage)
  /\ halted = "spin" => kheap > 1

(* All processes share the mappings of the kernel heap: a page of it that  *)
(* two of them have mapped is the same frame in both.                      *)
KernelHeapShared ==
  \A p, q \in procs, g \in KernelHeap :
    (map[p][g] # None /\ map[q][g] # None) => map[p][g].frame = map[q][g].frame

(* Memory is copied on write: no frame of user memory can be written by    *)
(* two processes.                                                          *)
CopyOnWrite ==
  \A m, n \in {m \in Mappings : m[2] < KernelPage /\ map[m[1]][m[2]].write} :
    map[m[1]][m[2]].frame = map[n[1]][n[2]].frame => m[1] = n[1]

-----------------------------------------------------------------------------
(* The types of the state that the inductive invariant is about.           *)
TypeOK ==
  /\ \E n \in 1 .. MaxProcs : procs = 0 .. n - 1
  /\ map \in [Procs -> [Pages -> Entries \cup {None}]]
  /\ heapStart \in [Procs -> {0, 1}] /\ heapPages \in [Procs -> Nat]
  /\ brk \in [Procs -> Nat] /\ kheap \in Nat \ {0}

(* What entry e of page g of process p may be, with ps the processes: one  *)
(* of the mappings of the boot process, in its place and read-only, or a   *)
(* frame that some process took for this page, which for a stack is p.     *)
Sound(ps, p, g, e) ==
  \/ /\ e.src = "boot" /\ ~e.write /\ e.frame \in {0} \X Window
     /\ g \in CowPages \/ (g = KernelStack /\ p = 0 /\ e.frame = KernelFrame)
  \/ /\ e.src # "boot" /\ e.frame # KernelFrame /\ e.frame \in ps \X {g}
     /\ g \in {StackPage, KernelStack} => e.frame = FrameOf(p, g)

(* The page of the break lies in the heap region.                          *)
BreakInHeap ==
  \A p \in procs : brk[p] = 0 \/ brk[p] \div PageBytes < heapStart[p] + heapPages[p]

(* The inductive invariant.                                                *)
IInv ==
  /\ TypeOK /\ BreakInHeap /\ FirstHeapShared
  /\ \A p \in procs, g \in Pages : map[p][g] # None => Sound(procs, p, g, map[p][g])
=============================================================================
