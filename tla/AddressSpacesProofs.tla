------------------------ MODULE AddressSpacesProofs ------------------------
(***************************************************************************)
(* Proofs about the address spaces, for any layout of memory, any number   *)
(* of processes and frames, and any breaks.                                *)
(***************************************************************************)
EXTENDS AddressSpaces, FiniteSetTheorems, TLAPS

(* Division by the size of a page, for addresses.                          *)
LEMMA Division ==
  ASSUME NEW a \in Nat, NEW n \in Nat \ {0}
  PROVE  /\ a \div n \in Nat
         /\ n * (a \div n) <= a /\ a < n * (a \div n) + n
  OBVIOUS

(* Rounding the size of a heap that starts at page k up to whole pages     *)
(* (set_heap_break) takes the page of the break in.                        *)
LEMMA RoundedCovers ==
  ASSUME NEW a \in Nat, NEW k \in Nat, NEW n \in Nat \ {0}, a - k * n >= 0
  PROVE  /\ (a - k * n + n) \div n \in Nat
         /\ a \div n < k + (a - k * n + n) \div n
  <1> DEFINE s == a - k * n + n
             d == s \div n
             e == a \div n
  <1>1. s \in Nat /\ k * n \in Nat OBVIOUS
  <1>2. d \in Nat /\ n * d <= s /\ s < n * d + n BY <1>1, Division
  <1>3. e \in Nat /\ n * e <= a /\ a < n * e + n BY Division
  <1> HIDE DEF d, e
  <1>4. a < n * (k + d) BY <1>1, <1>2
  <1>5. n * e < n * (k + d) BY <1>2, <1>3, <1>4
  <1>6. e < k + d BY <1>2, <1>3, <1>5
  <1> QED BY <1>2, <1>6 DEF d, e

(* A break whose page is in the heap region is covered by the region.      *)
LEMMA PageCovers ==
  ASSUME NEW a \in Nat, NEW m \in Nat, NEW n \in Nat \ {0}, a \div n < m
  PROVE  a <= m * n
  <1> DEFINE e == a \div n
  <1>1. e \in Nat /\ a < n * e + n BY Division
  <1> HIDE DEF e
  <1>2. e + 1 <= m BY <1>1 DEF e
  <1>3. n * (e + 1) <= n * m BY <1>1, <1>2
  <1> QED BY <1>1, <1>3

(* The pages of the layout, in the order of their addresses.               *)
LEMMA Layout ==
  /\ {PageBytes, WindowPages} \subseteq Nat \ {0}
  /\ {StackPage, KernelPage, HeapPage, KernelStack} \subseteq Pages
  /\ Window \subseteq Pages /\ CowPages \subseteq Pages /\ 0 \in Window
  /\ StackPage \notin CowPages /\ HeapPage \notin CowPages /\ KernelStack \notin CowPages
  /\ StackPage # KernelStack /\ StackPage # HeapPage /\ HeapPage # KernelStack
  /\ \A g \in KernelPage .. KernelStack : g # 0
  /\ \A g \in Window \cup {0, 1} : g < HeapPage
  /\ \A g \in Pages : g < KernelPage \/ g \in KernelPage .. KernelStack
  /\ 0 \in Procs /\ HeapPage \in KernelPage .. KernelStack
  BY LayoutAssumption, ProcsAssumption
     DEF Pages, CowPages, Window, KernelExec, Procs

(* Fork gives the new process the next number.                             *)
LEMMA NextProc ==
  ASSUME TypeOK, Cardinality(procs) \in Procs
  PROVE  /\ Cardinality(procs) \notin procs /\ Cardinality(procs) # 0
         /\ \E n \in 1 .. MaxProcs :
              procs \cup {Cardinality(procs)} = 0 .. n - 1
  <1>1. PICK n \in 1 .. MaxProcs : procs = 0 .. n - 1 BY DEF TypeOK
  <1>2. n \in Nat /\ n >= 1 BY <1>1, ProcsAssumption
  <1>3. Cardinality(procs) = n
    <2>1. Cardinality(0 .. n - 1) = IF 0 > n - 1 THEN 0 ELSE (n - 1) - 0 + 1
      BY <1>2, FS_Interval
    <2> QED BY <1>1, <1>2, <2>1
  <1>4. n < MaxProcs BY <1>2, <1>3, ProcsAssumption DEF Procs
  <1>5. procs \cup {n} = 0 .. (n + 1) - 1 BY <1>1, <1>2
  <1>6. n + 1 \in 1 .. MaxProcs BY <1>2, <1>4, ProcsAssumption
  <1> QED BY <1>1, <1>2, <1>3, <1>5, <1>6

(* Existing processes have a number and are never empty of process 0.      *)
LEMMA ProcsFacts ==
  ASSUME TypeOK
  PROVE  procs \subseteq Procs /\ 0 \in procs
  BY ProcsAssumption DEF TypeOK, Procs

(* The invariant holds initially.                                          *)
LEMMA InvInit == Init => IInv
  <1> SUFFICES ASSUME Init PROVE IInv
    OBVIOUS
  <1>1. map = [p \in Procs |-> [g \in Pages |->
       IF p # 0 THEN None
       ELSE IF g \in Window THEN Entry(FrameOf(0, g), FALSE, "boot")
       ELSE IF g \in KernelExec THEN Entry(FrameOf(0, g - KernelPage), FALSE, "boot")
       ELSE IF g = HeapPage THEN Entry(FrameOf(0, g), FALSE, "heap")
       ELSE IF g = KernelStack THEN Entry(KernelFrame, FALSE, "boot")
       ELSE None]]
    BY DEF Init
  <1>2. \A g \in Window : Entry(FrameOf(0, g), FALSE, "boot") \in Entries
    BY Layout DEF Entry, Entries, FrameOf
  <1>3. \A g \in KernelExec : /\ g - KernelPage \in Window
                              /\ Entry(FrameOf(0, g - KernelPage), FALSE, "boot") \in Entries
    BY Layout, LayoutAssumption DEF Entry, Entries, FrameOf, KernelExec, Window
  <1>4. Entry(FrameOf(0, HeapPage), FALSE, "heap") \in Entries
    BY Layout DEF Entry, Entries, FrameOf
  <1>5. Entry(KernelFrame, FALSE, "boot") \in Entries
    BY <1>2, Layout DEF KernelFrame
  <1>6. map \in [Procs -> [Pages -> Entries \cup {None}]]
    BY <1>1, <1>2, <1>3, <1>4, <1>5
  <1>7. procs = {0} /\ kheap = 1 /\ halted = "no" BY DEF Init
  <1>8. TypeOK
    <2>1. 1 \in 1 .. MaxProcs /\ procs = 0 .. 1 - 1 BY <1>7, ProcsAssumption
    <2>2. /\ heapStart \in [Procs -> {0, 1}] /\ heapPages \in [Procs -> Nat]
          /\ brk \in [Procs -> Nat] /\ kheap \in Nat \ {0}
      BY DEF Init
    <2> QED BY <1>6, <2>1, <2>2 DEF TypeOK
  <1>9. \A g \in Pages : map[0][g] # None => Sound(procs, 0, g, map[0][g])
    <2> SUFFICES ASSUME NEW g \in Pages, map[0][g] # None PROVE Sound(procs, 0, g, map[0][g])
      OBVIOUS
    <2>1. CASE g \in Window
      <3>1. map[0][g] = Entry(FrameOf(0, g), FALSE, "boot") BY <1>1, <2>1, Layout
      <3> QED BY <2>1, <3>1 DEF Sound, Entry, FrameOf, CowPages
    <2>2. CASE g \notin Window /\ g \in KernelExec
      <3>1. map[0][g] = Entry(FrameOf(0, g - KernelPage), FALSE, "boot")
        BY <1>1, <2>2, Layout
      <3> QED BY <1>3, <2>2, <3>1 DEF Sound, Entry, FrameOf, CowPages
    <2>3. CASE g = HeapPage
      <3>1. map[0][g] = Entry(FrameOf(0, g), FALSE, "heap")
        BY <1>1, <2>3, Layout DEF CowPages
      <3> QED BY <1>7, <2>3, <3>1, Layout DEF Sound, Entry, FrameOf, KernelFrame
    <2>4. CASE g = KernelStack
      <3>1. map[0][g] = Entry(KernelFrame, FALSE, "boot")
        BY <1>1, <2>4, Layout DEF CowPages
      <3> QED BY <2>4, <3>1, Layout DEF Sound, Entry, FrameOf, KernelFrame
    <2> QED BY <1>1, <2>1, <2>2, <2>3, <2>4, Layout
  <1>10. FirstHeapShared
    <2>1. map[0][HeapPage] = Entry(FrameOf(0, HeapPage), FALSE, "heap")
      BY <1>1, Layout DEF CowPages
    <2> QED BY <1>4, <1>7, <2>1, NoneAssumption DEF FirstHeapShared, Entry
  <1>11. BreakInHeap BY <1>7, Layout DEF BreakInHeap, Init
  <1> QED BY <1>7, <1>8, <1>9, <1>10, <1>11 DEF IInv

(* An entry stays sound when processes are added.                          *)
LEMMA SoundGrows ==
  ASSUME NEW ps, NEW qs, ps \subseteq qs, NEW p, NEW g, NEW e, Sound(ps, p, g, e)
  PROVE  Sound(qs, p, g, e)
  BY DEF Sound

(* A halt leaves the address spaces as they are; the kernel spins only     *)
(* when a process lacks a page of the kernel heap.                         *)
LEMMA HaltStep ==
  ASSUME IInv, NEW why, Halt(why),
         why = "spin" => \E p \in procs : HeapIncomplete(p)
  PROVE  IInv'
  <1>1. UNCHANGED <<procs, map, heapStart, heapPages, brk, kheap>> /\ halted' = why
    BY DEF Halt, userVars
  <1>2. TypeOK /\ BreakInHeap /\ FirstHeapShared BY DEF IInv
  <1>3. why = "spin" => kheap > 1
    <2> SUFFICES ASSUME NEW p \in procs, HeapIncomplete(p) PROVE kheap > 1
      OBVIOUS
    <2>1. PICK g \in KernelHeap : map[p][g] = None BY DEF HeapIncomplete
    <2>2. g # HeapPage BY <1>2, <2>1 DEF FirstHeapShared
    <2> QED BY <1>2, <2>1, <2>2, Layout DEF KernelHeap, TypeOK, Pages
  <1>4. TypeOK' BY <1>1, <1>2 DEF TypeOK
  <1>5. FirstHeapShared' BY <1>1, <1>2, <1>3 DEF FirstHeapShared
  <1>6. BreakInHeap' BY <1>1, <1>2 DEF BreakInHeap
  <1> QED BY <1>1, <1>4, <1>5, <1>6 DEF IInv

(* A step that moves breaks or grows the kernel heap.                      *)
LEMMA RegionStep ==
  ASSUME IInv, UNCHANGED <<procs, map, halted>>, TypeOK', BreakInHeap', kheap' >= kheap
  PROVE  IInv'
  <1>1. TypeOK /\ FirstHeapShared BY DEF IInv
  <1>2. FirstHeapShared' BY <1>1 DEF FirstHeapShared, TypeOK
  <1> QED BY <1>2 DEF IInv

(* page_fault on a page that is not present, in a region.                  *)
LEMMA FaultStep ==
  ASSUME IInv, NEW p \in procs, NEW g \in Pages, map[p][g] = None,
         p # 0 \/ g \in KernelPage .. KernelStack, MapFault(p, g)
  PROVE  IInv'
  <1>1. TypeOK /\ BreakInHeap /\ FirstHeapShared BY DEF IInv
  <1>2. CASE Halt("panic")
    BY <1>2, HaltStep
  <1>3. CASE ~Halt("panic")
    <2> DEFINE e == Entry(FrameOf(p, g), g < KernelPage, Source(p, g))
    <2>1. /\ UNCHANGED <<procs, heapStart, heapPages, brk, kheap, halted>>
          /\ map' = [map EXCEPT ![p][g] = e]
      BY <1>3 DEF MapFault, userVars
    <2>2. p \in Procs BY <1>1, ProcsFacts
    <2>3. Source(p, g) \in {"heap", "anon", "file", "none"} BY DEF Source
    <2>4. e \in Entries
      <3>1. (g < KernelPage) \in BOOLEAN OBVIOUS
      <3>2. FrameOf(p, g) \in Procs \X Pages BY <2>2 DEF FrameOf
      <3> QED BY <2>3, <3>1, <3>2 DEF Entry, Entries
    <2>5. Sound(procs, p, g, e)
      <3>1. e.src # "boot" /\ e.frame = <<p, g>> BY <2>3 DEF Entry, FrameOf
      <3>2. <<p, g>> # KernelFrame BY Layout DEF KernelFrame, FrameOf
      <3> HIDE DEF e
      <3> QED BY <3>1, <3>2 DEF Sound, FrameOf
    <2> HIDE DEF e
    <2>6. \A q \in Procs, h \in Pages :
            map'[q][h] = IF q = p /\ h = g THEN e ELSE map[q][h]
      BY <1>1, <2>1, <2>2 DEF TypeOK
    <2>7. map' \in [Procs -> [Pages -> Entries \cup {None}]]
      BY <1>1, <2>1, <2>2, <2>4 DEF TypeOK
    <2>8. TypeOK' BY <1>1, <2>1, <2>7 DEF TypeOK
    <2>9. FirstHeapShared'
      BY <1>1, <2>1, <2>6, Layout, ProcsFacts DEF FirstHeapShared
    <2>10. BreakInHeap' BY <1>1, <2>1 DEF BreakInHeap
    <2>11. \A q \in procs, h \in Pages :
             map'[q][h] # None => Sound(procs, q, h, map'[q][h])
      BY <1>1, <2>5, <2>6, ProcsFacts DEF IInv
    <2> QED BY <2>1, <2>8, <2>9, <2>10, <2>11 DEF IInv
  <1> QED BY <1>2, <1>3

(* exec unmaps the old program.                                            *)
LEMMA ExecStep ==
  ASSUME IInv, NEW p \in Procs, NEW format \in Formats, Exec(p, format)
  PROVE  IInv'
  <1>1. TypeOK /\ BreakInHeap /\ FirstHeapShared BY DEF IInv
  <1>2. p \in procs BY DEF Exec, Runs
  <1>3. CASE Halt("panic") \/ (HeapIncomplete(p) /\ Halt("spin"))
    BY <1>2, <1>3, HaltStep
  <1>4. CASE /\ map' = Unmapped(p)
             /\ heapStart' = IF format = "bin" THEN [heapStart EXCEPT ![p] = 1] ELSE heapStart
             /\ UNCHANGED <<procs, heapPages, brk, kheap, halted>>
    <2>1. \A q \in Procs, g \in Pages :
            map'[q][g] = IF q = p /\ ExecRegion(p, g) THEN None ELSE map[q][g]
      BY <1>1, <1>4 DEF Unmapped, TypeOK
    <2>2. map' \in [Procs -> [Pages -> Entries \cup {None}]]
      <3> DEFINE row == [g \in Pages |-> IF ExecRegion(p, g) THEN None ELSE map[p][g]]
      <3>1. row \in [Pages -> Entries \cup {None}] BY <1>1 DEF TypeOK
      <3>2. map' = [map EXCEPT ![p] = row] BY <1>4 DEF Unmapped
      <3> HIDE DEF row
      <3> QED BY <1>1, <3>1, <3>2 DEF TypeOK
    <2>3. heapStart' \in [Procs -> {0, 1}] /\ \A q \in Procs : heapStart'[q] >= heapStart[q]
      <3>1. heapStart \in [Procs -> {0, 1}] BY <1>1 DEF TypeOK
      <3>2. \A q \in Procs : heapStart[q] = 0 \/ heapStart[q] = 1 BY <3>1
      <3>3. CASE format = "bin"
        <4>1. heapStart' = [heapStart EXCEPT ![p] = 1] BY <1>4, <3>3
        <4>2. \A q \in Procs : heapStart'[q] = IF q = p THEN 1 ELSE heapStart[q]
          BY <3>1, <4>1
        <4> QED BY <3>1, <3>2, <4>1, <4>2
      <3>4. CASE format # "bin"
        BY <1>4, <3>1, <3>2, <3>4
      <3> QED BY <3>3, <3>4
    <2>4. TypeOK' BY <1>1, <1>4, <2>2, <2>3 DEF TypeOK
    <2>5. BreakInHeap'
      <3> SUFFICES ASSUME NEW q \in procs, brk[q] # 0
                   PROVE  brk[q] \div PageBytes < heapStart'[q] + heapPages[q]
        BY <1>4 DEF BreakInHeap
      <3>1. brk[q] \div PageBytes < heapStart[q] + heapPages[q] BY <1>1 DEF BreakInHeap
      <3>0. q \in Procs BY <1>1, ProcsFacts
      <3>2. /\ brk[q] \in Nat /\ heapPages[q] \in Nat
            /\ heapStart[q] \in Nat /\ heapStart'[q] \in Nat
            /\ heapStart'[q] >= heapStart[q]
        BY <1>1, <2>3, <3>0 DEF TypeOK
      <3>3. brk[q] \div PageBytes \in Nat BY <3>2, Layout, Division
      <3> QED BY <3>1, <3>2, <3>3
    <2>6. FirstHeapShared'
      <3>1. ~ExecRegion(p, HeapPage) BY Layout DEF ExecRegion
      <3> QED BY <1>1, <1>4, <2>1, <3>1, Layout, ProcsFacts DEF FirstHeapShared
    <2>7. \A q \in procs, g \in Pages :
            map'[q][g] # None => Sound(procs, q, g, map'[q][g])
      BY <1>1, <2>1, ProcsFacts DEF IInv
    <2> QED BY <1>4, <2>4, <2>5, <2>6, <2>7 DEF IInv
  <1> QED BY <1>3, <1>4 DEF Exec

(* The break moves, and the heap region with it when it leaves its page.   *)
LEMMA BreakStep ==
  ASSUME IInv, NEW p \in Procs, NEW addr \in Breaks, set_heap_break(p, addr)
  PROVE  IInv'
  <1> DEFINE moves == addr \div PageBytes # brk[p] \div PageBytes \/ brk[p] = 0
             size == addr - heapStart[p] * PageBytes
  <1>1. TypeOK /\ BreakInHeap BY DEF IInv
  <1>2. /\ p \in procs /\ (moves => size >= 0)
        /\ heapPages' = IF moves THEN [heapPages EXCEPT ![p] = Rounded(size)] ELSE heapPages
        /\ brk' = [brk EXCEPT ![p] = addr]
        /\ UNCHANGED <<procs, map, heapStart, kheap, halted>>
    BY DEF set_heap_break, Runs
  <1>3. addr \in Nat /\ PageBytes \in Nat \ {0}
    BY BreaksAssumption, LayoutAssumption
  <1>4. heapStart[p] \in Nat /\ heapPages[p] \in Nat /\ brk[p] \in Nat
    BY <1>1 DEF TypeOK
  <1>5. moves => /\ Rounded(size) \in Nat
                 /\ addr \div PageBytes < heapStart[p] + Rounded(size)
    BY <1>2, <1>3, <1>4, RoundedCovers DEF Rounded
  <1> HIDE DEF moves, size
  <1>6. TypeOK' BY <1>1, <1>2, <1>3, <1>5 DEF TypeOK
  <1>7. ~moves => addr \div PageBytes < heapStart[p] + heapPages[p]
    BY <1>1, <1>2 DEF moves, BreakInHeap
  <1>8. BreakInHeap'
    <2> SUFFICES ASSUME NEW q \in procs, brk'[q] # 0
                 PROVE  brk'[q] \div PageBytes < heapStart[q] + heapPages'[q]
      BY <1>2 DEF BreakInHeap
    <2>1. q \in Procs BY <1>1, ProcsFacts
    <2>2. CASE q = p
      BY <1>1, <1>2, <1>5, <1>7, <2>1, <2>2 DEF TypeOK
    <2>3. CASE q # p
      BY <1>1, <1>2, <2>1, <2>3 DEF TypeOK, BreakInHeap
    <2> QED BY <2>2, <2>3
  <1>9. kheap' >= kheap BY <1>1, <1>2 DEF TypeOK
  <1> QED BY <1>2, <1>6, <1>8, <1>9, RegionStep

(* fork_page_directory: the pages of the child, and what becomes of those  *)
(* of its parent.                                                          *)
LEMMA ForkStep ==
  ASSUME IInv, NEW p \in procs, NEW c, c = Cardinality(procs), c \in Procs,
         ForkMemory(p, c)
  PROVE  IInv'
  <1>1. TypeOK /\ BreakInHeap /\ FirstHeapShared BY DEF IInv
  <1>2. CASE Halt("panic")
    BY <1>2, HaltStep
  <1>3. CASE ~Halt("panic")
    <2> DEFINE old == [g \in Pages |-> IF g \in CowPages \cap Present(p)
                                       THEN Shared(map[p][g]) ELSE map[p][g]]
               new == [g \in Pages |->
                         IF g \notin Inherited(p) THEN None
                         ELSE IF g \in Copies(p) THEN Copied(g, map[p][g], FrameOf(c, g))
                         ELSE IF g \in CowPages THEN Shared(map[p][g])
                         ELSE map[p][g]]
    <2>1. /\ procs' = procs \cup {c} /\ map' = [map EXCEPT ![p] = old, ![c] = new]
          /\ ForkRegions(p, c) /\ UNCHANGED <<kheap, halted>>
      BY <1>3 DEF ForkMemory
    <2>2. p \in Procs /\ procs \subseteq Procs BY <1>1, ProcsFacts
    <2>3. c \notin procs /\ c # 0 /\ c # p BY <1>1, NextProc
    <2>4. \A g \in Pages : map[p][g] \in Entries \cup {None} BY <1>1, <2>2 DEF TypeOK
    <2>5. \A g \in Pages : map[p][g] # None => Sound(procs, p, g, map[p][g]) BY DEF IInv
    <2>6. \A q \in Procs : map'[q] = IF q = c THEN new ELSE IF q = p THEN old ELSE map[q]
      BY <1>1, <2>1, <2>2, <2>3 DEF TypeOK
    <2>7. \A e \in Entries : /\ Shared(e) \in Entries /\ ~Shared(e).write
                             /\ Shared(e).frame = e.frame /\ Shared(e).src = e.src
      BY DEF Shared, Entry, Entries
    <2>8. \A g \in Pages : /\ Copied(g, map[p][g], FrameOf(c, g)) \in Entries
                           /\ Copied(g, map[p][g], FrameOf(c, g)).frame = FrameOf(c, g)
                           /\ Copied(g, map[p][g], FrameOf(c, g)).src # "boot"
      BY DEF Copied, Entry, Entries, FrameOf
    <2>9. ASSUME NEW g \in Pages
          PROVE  /\ old[g] \in Entries \cup {None}
                 /\ old[g] # None => Sound(procs', p, g, old[g])
      <3>1. CASE g \in CowPages \cap Present(p)
        <4>1. old[g] = Shared(map[p][g]) /\ map[p][g] # None BY <3>1 DEF Present
        <4>2. map[p][g] \in Entries /\ Sound(procs, p, g, map[p][g])
          BY <2>4, <2>5, <4>1
        <4> HIDE DEF old
        <4> QED BY <2>1, <2>7, <4>1, <4>2 DEF Sound
      <3>2. CASE g \notin CowPages \cap Present(p)
        <4>1. old[g] = map[p][g] BY <3>2
        <4> HIDE DEF old
        <4>2. procs \subseteq procs' BY <2>1
        <4> QED BY <2>4, <2>5, <4>1, <4>2, SoundGrows
      <3> QED BY <3>1, <3>2
    <2>10. ASSUME NEW g \in Pages
           PROVE  /\ new[g] \in Entries \cup {None}
                  /\ new[g] # None => Sound(procs', c, g, new[g])
      <3>1. CASE g \notin Inherited(p)
        BY <3>1
      <3>2. CASE g \in Inherited(p) /\ g \in Copies(p)
        <4>1. new[g] = Copied(g, map[p][g], FrameOf(c, g)) BY <3>2
        <4>2. FrameOf(c, g) # KernelFrame BY <2>3 DEF FrameOf, KernelFrame
        <4>3. FrameOf(c, g) \in procs' \X {g} BY <2>1 DEF FrameOf
        <4> HIDE DEF new
        <4> QED BY <2>8, <4>1, <4>2, <4>3 DEF Sound
      <3>3. CASE g \in Inherited(p) /\ g \notin Copies(p)
        <4>1. map[p][g] # None /\ g \notin {StackPage, KernelStack}
          BY <3>3 DEF Inherited, Copies, Present
        <4>2. map[p][g] \in Entries /\ Sound(procs, p, g, map[p][g])
          BY <2>4, <2>5, <4>1
        <4>3. CASE g \in CowPages
          <5>1. new[g] = Shared(map[p][g]) BY <3>3, <4>3
          <5> HIDE DEF new
          <5> QED BY <2>1, <2>7, <4>1, <4>2, <4>3, <5>1 DEF Sound
        <4>4. CASE g \notin CowPages
          <5>1. new[g] = map[p][g] BY <3>3, <4>4
          <5> HIDE DEF new
          <5> QED BY <2>1, <4>1, <4>2, <4>4, <5>1 DEF Sound
        <4> QED BY <4>3, <4>4
      <3> QED BY <3>1, <3>2, <3>3
    <2>11. new[HeapPage] = map[p][HeapPage] /\ old[HeapPage] = map[p][HeapPage]
      <3>1. HeapPage \in Inherited(p)
        <4>1. HeapPage \in KernelHeap /\ HeapPage \in Present(p)
          BY <1>1, Layout DEF KernelHeap, Present, FirstHeapShared, TypeOK, Pages
        <4> QED BY <4>1 DEF Inherited
      <3>2. HeapPage \notin Copies(p) /\ HeapPage \notin CowPages BY Layout DEF Copies
      <3> QED BY <3>1, <3>2, Layout
    <2>12. old \in [Pages -> Entries \cup {None}] /\ new \in [Pages -> Entries \cup {None}]
      BY <2>9, <2>10
    <2> HIDE DEF old, new
    <2>13. map' \in [Procs -> [Pages -> Entries \cup {None}]]
      BY <1>1, <2>1, <2>2, <2>12 DEF TypeOK
    <2>14. TypeOK'
      <3>1. \E n \in 1 .. MaxProcs : procs' = 0 .. n - 1 BY <1>1, <2>1, NextProc
      <3>2. /\ heapStart' \in [Procs -> {0, 1}] /\ heapPages' \in [Procs -> Nat]
            /\ brk' \in [Procs -> Nat]
        BY <1>1, <2>1, <2>2 DEF TypeOK, ForkRegions
      <3>3. kheap' \in Nat \ {0} BY <1>1, <2>1 DEF TypeOK
      <3> QED BY <2>13, <3>1, <3>2, <3>3 DEF TypeOK
    <2>15. FirstHeapShared'
      <3>1. \A q \in procs : map[q][HeapPage] # None
                            /\ map[q][HeapPage].frame = FrameOf(0, HeapPage)
        BY <1>1 DEF FirstHeapShared
      <3>2. \A q \in procs' : \E r \in procs : map'[q][HeapPage] = map[r][HeapPage]
        <4> TAKE q \in procs'
        <4>1. CASE q = c
          BY <2>6, <2>11, <4>1
        <4>2. CASE q = p
          BY <2>2, <2>3, <2>6, <2>11, <4>2
        <4>3. CASE q # c /\ q # p
          <5>1. q \in procs /\ map'[q] = map[q] BY <2>1, <2>2, <2>6, <4>3
          <5> QED BY <5>1
        <4> QED BY <4>1, <4>2, <4>3
      <3>3. \A q \in procs' : map'[q][HeapPage] # None
                             /\ map'[q][HeapPage].frame = FrameOf(0, HeapPage)
        BY <3>1, <3>2
      <3> QED BY <1>1, <2>1, <3>3 DEF FirstHeapShared, FrameOf
    <2>16. BreakInHeap'
      <3>1. \A q \in procs' : \E r \in procs :
              brk'[q] = brk[r] /\ heapStart'[q] = heapStart[r] /\ heapPages'[q] = heapPages[r]
        BY <1>1, <2>1, <2>2, <2>3 DEF TypeOK, ForkRegions
      <3> QED BY <1>1, <3>1 DEF BreakInHeap
    <2>17. \A q \in procs', g \in Pages :
             map'[q][g] # None => Sound(procs', q, g, map'[q][g])
      <3> SUFFICES ASSUME NEW q \in procs', NEW g \in Pages, map'[q][g] # None
                   PROVE  Sound(procs', q, g, map'[q][g])
        OBVIOUS
      <3>1. CASE q = c
        BY <2>6, <2>10, <3>1
      <3>2. CASE q = p
        BY <2>2, <2>3, <2>6, <2>9, <3>2
      <3>3. CASE q # c /\ q # p
        <4>1. q \in procs /\ map'[q][g] = map[q][g] BY <2>1, <2>2, <2>6, <3>3
        <4>2. Sound(procs, q, g, map[q][g]) BY <4>1 DEF IInv
        <4>3. procs \subseteq procs' BY <2>1
        <4>4. Sound(procs', q, g, map[q][g]) BY <4>2, <4>3, SoundGrows
        <4> QED BY <4>1, <4>4
      <3> QED BY <3>1, <3>2, <3>3
    <2> QED BY <2>14, <2>15, <2>16, <2>17 DEF IInv
  <1> QED BY <1>2, <1>3

(* Every step keeps the invariant.                                         *)
LEMMA InvStep == IInv /\ [Next]_vars => IInv'
  <1> SUFFICES ASSUME IInv, [Next]_vars PROVE IInv'
    OBVIOUS
  <1>1. TypeOK /\ BreakInHeap BY DEF IInv
  <1>2. CASE UNCHANGED vars
    BY <1>2 DEF IInv, TypeOK, BreakInHeap, FirstHeapShared, vars
  <1>3. ASSUME NEW p \in Procs, Fork(p) PROVE IInv'
    <2>1. p \in procs BY <1>3 DEF Fork, Runs
    <2>2. CASE Cardinality(procs) \in Procs /\ ForkMemory(p, Cardinality(procs))
      BY <2>1, <2>2, ForkStep
    <2>3. CASE HeapIncomplete(p) /\ Halt("spin")
      BY <2>1, <2>3, HaltStep
    <2> QED BY <1>3, <2>2, <2>3 DEF Fork
  <1>4. ASSUME NEW p \in Procs, BadAccess(p) PROVE IInv'
    BY <1>4, HaltStep DEF BadAccess
  <1>5. ASSUME NEW p \in Procs, NEW g \in Pages, UserFault(p, g) PROVE IInv'
    <2>1. p \in procs /\ p # 0 /\ map[p][g] = None BY <1>5 DEF UserFault, Runs
    <2>2. CASE Halt("loop")
      BY <2>2, HaltStep
    <2>3. CASE MapFault(p, g)
      BY <2>1, <2>3, FaultStep
    <2> QED BY <1>5, <2>2, <2>3 DEF UserFault
  <1>6. ASSUME NEW p \in Procs, NEW g \in Pages, KernelFault(p, g) PROVE IInv'
    <2>1. /\ p \in procs /\ map[p][g] = None /\ MapFault(p, g)
          /\ g \in KernelPage .. KernelStack
      BY <1>6, LayoutAssumption DEF KernelFault, Pages
    <2> QED BY <2>1, FaultStep
  <1>7. ASSUME NEW p \in Procs, NEW format \in Formats, Exec(p, format) PROVE IInv'
    BY <1>7, ExecStep
  <1>8. ASSUME NEW p \in Procs, NEW addr \in Breaks, set_heap_break(p, addr) PROVE IInv'
    BY <1>8, BreakStep
  <1>9. ASSUME NEW p \in Procs, NEW d, move_heap_break(p, d) PROVE IInv'
    BY <1>9, BreakStep DEF move_heap_break
  <1>10. CASE expand_kernel_heap
    <2>0. kheap \in Nat /\ KernelStack - HeapPage \in Int
      BY <1>1, LayoutAssumption DEF TypeOK
    <2>1. /\ kheap' \in Nat \ {0} /\ kheap' >= kheap
          /\ UNCHANGED <<procs, map, heapStart, heapPages, brk, halted>>
      BY <1>10, <2>0 DEF expand_kernel_heap, userVars
    <2>2. TypeOK' BY <1>1, <2>1 DEF TypeOK
    <2>3. BreakInHeap' BY <1>1, <2>1 DEF BreakInHeap
    <2> QED BY <2>1, <2>2, <2>3, RegionStep
  <1>11. CASE kernel_mmap_dma
    <2>1. CASE Halt("panic")
      BY <2>1, HaltStep
    <2>2. CASE ~Halt("panic")
      <3>1. UNCHANGED <<procs, map, heapStart, heapPages, brk, kheap, halted>>
        BY <1>11, <2>2 DEF kernel_mmap_dma, userVars
      <3>2. TypeOK' /\ kheap' >= kheap BY <1>1, <3>1 DEF TypeOK
      <3>3. BreakInHeap' BY <1>1, <3>1 DEF BreakInHeap
      <3> QED BY <3>1, <3>2, <3>3, RegionStep
    <2> QED BY <2>1, <2>2
  <1> QED
    BY <1>2, <1>3, <1>4, <1>5, <1>6, <1>7, <1>8, <1>9, <1>10, <1>11 DEF Next

(* The inductive invariant of the address spaces.                          *)
THEOREM InductiveInvariant == Spec => []IInv
  BY InvInit, InvStep, PTL DEF Spec

(* In any layout, the frame that holds the kernel is writable through no   *)
(* page table (map_with_copy_on_write, page_fault).                        *)
THEOREM KernelIsReadOnly == Spec => []KernelImageProtected
  <1>1. IInv => KernelImageProtected
    <2> SUFFICES ASSUME IInv, NEW m \in Mappings,
                        map[m[1]][m[2]].frame = KernelFrame
                 PROVE  ~map[m[1]][m[2]].write
      BY DEF KernelImageProtected
    <2>1. m[1] \in procs /\ m[2] \in Pages /\ map[m[1]][m[2]] # None BY DEF Mappings
    <2>2. Sound(procs, m[1], m[2], map[m[1]][m[2]]) BY <2>1 DEF IInv
    <2> QED BY <2>2 DEF Sound
  <1> QED BY <1>1, InductiveInvariant, PTL

(* No two processes share a stack frame, user or kernel (copy_frames).     *)
THEOREM StacksAreOwn == Spec => []StacksPrivate
  <1>1. IInv => StacksPrivate
    <2> SUFFICES ASSUME IInv, NEW p \in procs, NEW g \in Copies(p),
                        NEW m \in Mappings \ {<<p, g>>},
                        map[m[1]][m[2]].frame = map[p][g].frame,
                        map[m[1]][m[2]].src # "boot"
                 PROVE  FALSE
      BY DEF StacksPrivate
    <2>1. /\ m = <<m[1], m[2]>> /\ m[1] \in procs /\ m[2] \in Pages
          /\ map[m[1]][m[2]] # None
      BY DEF Mappings
    <2>2. Sound(procs, m[1], m[2], map[m[1]][m[2]]) BY <2>1 DEF IInv
    <2>3. /\ map[m[1]][m[2]].frame # KernelFrame
          /\ map[m[1]][m[2]].frame \in procs \X {m[2]}
          /\ m[2] \in {StackPage, KernelStack} => map[m[1]][m[2]].frame = <<m[1], m[2]>>
      BY <2>2 DEF Sound, FrameOf
    <2>4. g \in Pages /\ g \in {StackPage, KernelStack} /\ map[p][g] # None
      BY DEF Copies, Present
    <2>5. Sound(procs, p, g, map[p][g]) BY <2>4 DEF IInv
    <2>6. map[p][g].frame = <<p, g>>
      BY <2>3, <2>4, <2>5, Layout DEF Sound, FrameOf
    <2>7. m[2] = g
      <3>1. <<p, g>> \in procs \X {m[2]} BY <2>3, <2>6
      <3> QED BY <3>1
    <2> QED BY <2>1, <2>3, <2>4, <2>6, <2>7
  <1> QED BY <1>1, InductiveInvariant, PTL

(* The heap region of a process reaches up to its break, whatever the page *)
(* size and the breaks asked for (set_heap_break).                         *)
THEOREM HeapCoversBreak == Spec => []BreakCovered
  <1>1. IInv => BreakCovered
    <2> SUFFICES ASSUME IInv, NEW p \in procs
                 PROVE  brk[p] <= (heapStart[p] + heapPages[p]) * PageBytes
      BY DEF BreakCovered
    <2>1. TypeOK /\ BreakInHeap BY DEF IInv
    <2>2. p \in Procs BY <2>1, ProcsFacts
    <2>3. brk[p] \in Nat /\ heapStart[p] + heapPages[p] \in Nat BY <2>1, <2>2 DEF TypeOK
    <2>4. PageBytes \in Nat \ {0} BY LayoutAssumption
    <2>5. CASE brk[p] = 0
      BY <2>3, <2>4, <2>5
    <2>6. CASE brk[p] # 0
      BY <2>1, <2>3, <2>4, <2>6, PageCovers DEF BreakInHeap
    <2> QED BY <2>5, <2>6
  <1> QED BY <1>1, InductiveInvariant, PTL

(* All processes share the first page of the kernel heap, and until the    *)
(* heap grows no fork or exec spins on a page fault of its own.            *)
THEOREM FirstHeapIsShared == Spec => []FirstHeapShared
  <1>1. IInv => FirstHeapShared BY DEF IInv
  <1> QED BY <1>1, InductiveInvariant, PTL
=============================================================================
