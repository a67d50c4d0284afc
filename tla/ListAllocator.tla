---------------------------- MODULE ListAllocator ----------------------------
(***************************************************************************)
(* The kernel heap (memory/heap): a list of free nodes in the order of     *)
(* their addresses.  Every node starts with a header of 8 bytes, followed  *)
(* by padding whose last 4 bytes say how long it is, then the data.        *)
(*                                                                         *)
(* The list is linked through the nodes themselves; it is a sequence here, *)
(* first_free being its head.  A node that is neither in the list nor      *)
(* allocated is lost.                                                      *)
(***************************************************************************)
EXTENDS Integers, Sequences, FiniteSets, SequencesExt

CONSTANTS
  HeapStart,           \* where the heap is
  PageBytes,           \* size of a page
  INITIAL_HEAP_SIZE,   \* pages it has at first, and pages it grows by at least
  Layouts,             \* sizes and alignments that are asked for
  MaxSize              \* bound on the size

VARIABLES
  size,    \* ListAllocator::size
  free,    \* the free nodes, from first_free on
  live,    \* the allocated nodes, with their data
  failed   \* an allocation has failed, which stops the kernel

vars == <<size, free, live, failed>>

Init ==
  /\ size = INITIAL_HEAP_SIZE * PageBytes
  /\ free = <<[addr |-> HeapStart, size |-> INITIAL_HEAP_SIZE * PageBytes]>>
  /\ live = {}
  /\ failed = FALSE

End(node) == node.addr + node.size

RoundUp(n, unit) == ((n + unit - 1) \div unit) * unit

(* The data starts after 12 bytes at least: header and padding size.       *)
get_aligned_start(node, align) == RoundUp(node.addr + 12, align)

Fits(node, layout) == End(node) >= get_aligned_start(node, layout.align) + layout.size

(* Mutant: the size of the allocated node is not cut down.                 *)
MutTake(list, i, layout) ==
  LET node == list[i]
      start == get_aligned_start(node, layout.align)
      trailing_start == RoundUp(start + layout.size, 4)
      split == End(node) - (start + layout.size) > 16
      rest == [addr |-> trailing_start, size |-> End(node) - trailing_start]
  IN  [list |-> IF split THEN [list EXCEPT ![i] = rest] ELSE SubSeq(list, i + 1, Len(list)),
       node |-> [addr |-> node.addr, size |-> node.size,
                 ptr |-> start, length |-> layout.size, align |-> layout.align]]

(* Taking an allocation from node i: the list that is left and the node    *)
(* that is allocated.  A node that is not split becomes the one before     *)
(* first_free, wherever in the list it was.                                *)
Take(list, i, layout) ==
  LET node == list[i]
      start == get_aligned_start(node, layout.align)
      trailing_start == RoundUp(start + layout.size, 4)
      split == End(node) - (start + layout.size) > 16
      rest == [addr |-> trailing_start, size |-> End(node) - trailing_start]
  IN  [list |-> IF split THEN [list EXCEPT ![i] = rest] ELSE SubSeq(list, i + 1, Len(list)),
       node |-> [addr |-> node.addr,
                 size |-> IF split THEN trailing_start - node.addr ELSE node.size,
                 ptr |-> start, length |-> layout.size, align |-> layout.align]]

(* The first node of the list that is large enough, if there is one.       *)
FirstFit(list, layout) ==
  {i \in 1 .. Len(list) : /\ Fits(list[i], layout)
                          /\ \A j \in 1 .. i - 1 : ~Fits(list[j], layout)}

(* merge_free_areas: neighbours in the list that touch become one node.    *)
merge_free_areas(list) ==
  FoldLeft(LAMBDA merged, node :
             IF merged # <<>> /\ End(Last(merged)) = node.addr
               THEN [merged EXCEPT ![Len(merged)].size = @ + node.size]
               ELSE Append(merged, node),
           <<>>, list)

(* expand_kernel_heap: the size of the heap after it has grown, by whole   *)
(* pages and not always by as much as is needed.                           *)
expand_kernel_heap(needed) ==
  LET frames_needed == needed \div PageBytes
  IN  size + PageBytes * (IF frames_needed < INITIAL_HEAP_SIZE THEN INITIAL_HEAP_SIZE
                                                              ELSE frames_needed)

(* expand_size: the new space is linked to the last free node.  When there *)
(* is none, the link is written to address 0 and the space is lost.        *)
expand_size(list, old, new) ==
  merge_free_areas(IF list = <<>> THEN list
                   ELSE Append(list, [addr |-> HeapStart + old, size |-> new - old]))

(* GlobalAlloc::alloc: a second try follows when the heap has grown.  If   *)
(* that fails too, the error handler panics.                               *)
alloc(layout) ==
  LET new == expand_kernel_heap(layout.size)
      grown == expand_size(free, size, new)
      Result(list) == \E i \in FirstFit(list, layout) :
                        /\ free' = Take(list, i, layout).list
                        /\ live' = live \cup {Take(list, i, layout).node}
                        /\ UNCHANGED failed
  IN  /\ ~failed
      /\ \/ Result(free) /\ UNCHANGED size
         \/ /\ FirstFit(free, layout) = {} /\ new <= MaxSize
            /\ size' = new
            /\ \/ Result(grown)
               \/ /\ FirstFit(grown, layout) = {}
                  /\ free' = grown /\ failed' = TRUE /\ UNCHANGED live

(* Mutant: the freed node goes to the head of the list.                    *)
MutInsert(list, node) == IF list = <<>> THEN list ELSE <<node>> \o list

(* Where dealloc puts the node back.  It compares with first_free, which   *)
(* is 0 when the list is empty, and then finds no place.                   *)
Insert(list, node) ==
  IF list = <<>> THEN list
  ELSE SelectSeq(list, LAMBDA n : n.addr < node.addr) \o <<node>>
         \o SelectSeq(list, LAMBDA n : n.addr > node.addr)

dealloc(node) ==
  /\ ~failed
  /\ free' = merge_free_areas(Insert(free, [addr |-> node.addr, size |-> node.size]))
  /\ live' = live \ {node}
  /\ UNCHANGED <<size, failed>>

Next ==
  \/ \E layout \in Layouts : alloc(layout)
  \/ \E node \in live : dealloc(node)

Spec == Init /\ [][Next]_vars

-----------------------------------------------------------------------------
(* Blocks never overlap: every allocated or free node lies in the heap,    *)
(* apart from all others; the data of an allocation is aligned and within  *)
(* its node, clear of the header and the padding size; and the free list   *)
(* is in the order of addresses with no two nodes that touch, so that a    *)
(* free area is always found as one (alloc, dealloc, merge_free_areas).    *)
HeapWellFormed ==
  LET nodes == live \cup Range(free)
  IN  /\ \A n \in nodes : n.addr >= HeapStart /\ End(n) <= HeapStart + size
      /\ \A n, m \in nodes : n # m => End(n) <= m.addr \/ End(m) <= n.addr
      /\ \A n \in live : /\ n.ptr % n.align = 0
                         /\ n.addr + 12 <= n.ptr /\ n.ptr + n.length <= End(n)
      /\ \A i \in 1 .. Len(free) - 1 : End(free[i]) < free[i + 1].addr

Space == MapThenSumSet(LAMBDA n : n.size, live \cup Range(free))

(* Space is lost in two ways only: when the list is empty, and when an     *)
(* allocation takes the whole of a node that is not the first of the list  *)
(* (the else branch of alloc makes first_free the node after it).  Every   *)
(* other call keeps all bytes of the heap either free or allocated.        *)
KeepsSpace ==
  [][\/ Space' - Space = size' - size
     \/ free = <<>>
     \/ \E n \in live' \ live : /\ n.addr # free[1].addr
                               /\ \A f \in Range(free') : f.addr # End(n)]_vars
=============================================================================
