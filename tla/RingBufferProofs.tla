-------------------------- MODULE RingBufferProofs --------------------------
(***************************************************************************)
(* Proofs about the ring buffer: for every size of the buffer, every       *)
(* machine word it divides and every interleaving of its two sides, it is  *)
(* the queue ByteQueue describes.                                          *)
(***************************************************************************)
EXTENDS RingBuffer, Division, SequenceTheorems

-----------------------------------------------------------------------------
Words == 0 .. WordSize - 1

(* Sums and differences of words wrap at most once.                        *)
LEMMA WordArithmetic ==
  ASSUME NEW a \in Words, NEW b \in Words
  PROVE  /\ Plus(a, b) = IF a + b < WordSize THEN a + b ELSE a + b - WordSize
         /\ Minus(a, b) = IF b <= a THEN a - b ELSE a + WordSize - b
         /\ Plus(a, b) \in Words /\ Minus(a, b) \in Words
BY WordAssumption DEF Plus, Minus, Words

(* The cell of the byte that is n places after position p.                 *)
Cell(p, n) == Plus(p, n) % Size

(* Cells of a counter moved on, where it wraps too.                        *)
LEMMA CellOfSum ==
  ASSUME NEW p \in Words, NEW n \in Nat
  PROVE  Cell(p, n) = (p + n) % Size /\ Cell(p, n) \in 0 .. Size - 1
<1>1. p + n \in Nat  BY DEF Words
<1>2. Cell(p, n) = (p + n) % Size
  BY <1>1, SizeAssumption, WordAssumption, ModOfMultiple DEF Cell, Plus
<1>3. (p + n) % Size \in 0 .. Size - 1
  BY <1>1, SizeAssumption, DivMod
<1> QED  BY <1>2, <1>3

(* Less than Size bytes apart, two bytes are in different cells.           *)
LEMMA CellsDiffer ==
  ASSUME NEW p \in Words, NEW m \in Nat, NEW n \in Nat, m < n, n < m + Size
  PROVE  Cell(p, m) # Cell(p, n)
<1> DEFINE x == p + m  d == n - m
<1>1. x \in Nat /\ d \in 1 .. Size - 1 /\ x + d = p + n  BY SizeAssumption DEF Words
<1>2. (x + d) % Size # x % Size  BY <1>1, SizeAssumption, NearModDiffers
<1> QED  BY <1>1, <1>2, CellOfSum

(* Counting on from a position that is itself counted from p.              *)
LEMMA CellFrom ==
  ASSUME NEW p \in Words, NEW a \in Words, NEW n \in Nat
  PROVE  Cell(Plus(p, a), n) = Cell(p, a + n)
<1>1. Plus(p, a) \in Words  BY WordArithmetic
<1>2. Cell(Plus(p, a), n) = (Plus(p, a) + n) % Size  BY <1>1, CellOfSum
<1>3. Cell(p, a + n) = (p + (a + n)) % Size  BY CellOfSum DEF Words
<1>4. CASE p + a < WordSize
  BY <1>2, <1>3, <1>4, WordArithmetic DEF Words
<1>5. CASE p + a >= WordSize
  <2> DEFINE x == p + a - WordSize + n
  <2>1. x \in Nat /\ Plus(p, a) + n = x /\ p + (a + n) = x + WordSize
    BY <1>5, WordArithmetic, WordAssumption DEF Words
  <2>2. (x + WordSize) % Size = x % Size  BY <2>1, SizeAssumption, WordAssumption, ModPlusMultiple
  <2> QED  BY <1>2, <1>3, <2>1, <2>2
<1> QED  BY <1>4, <1>5, WordAssumption DEF Words

(* How far the tail is from the head, when one of the two moves.           *)
LEMMA Distance ==
  ASSUME NEW h \in Words, NEW t \in Words
  PROVE  /\ Minus(t, h) \in Words /\ Plus(h, Minus(t, h)) = t /\ Minus(h, h) = 0
         /\ \A n \in Words : Minus(Plus(h, n), h) = n
         /\ \A n \in Words : Minus(t, h) + n < WordSize
                               => Minus(Plus(t, n), h) = Minus(t, h) + n
         /\ \A n \in Words : n <= Minus(t, h) => Minus(t, Plus(h, n)) = Minus(t, h) - n
         /\ Minus(t, h) <= Size => Minus(Plus(h, Size), t) = Size - Minus(t, h)
<1>1. Size \in Words  BY SizeAssumption, WordAssumption DEF Words
<1> DEFINE gap == Minus(t, h)
<1>0. gap \in Words /\ gap = IF h <= t THEN t - h ELSE t + WordSize - h
  BY WordArithmetic
<1> HIDE DEF gap
<1>2. gap \in Words /\ Plus(h, gap) = t /\ Minus(h, h) = 0
  <2>1. Plus(h, gap) = IF h + gap < WordSize THEN h + gap ELSE h + gap - WordSize
    BY <1>0, WordArithmetic
  <2>2. Minus(h, h) = IF h <= h THEN h - h ELSE h + WordSize - h  BY WordArithmetic
  <2> QED  BY <1>0, <2>1, <2>2, WordAssumption DEF Words
<1>3. ASSUME NEW n \in Words  PROVE Minus(Plus(h, n), h) = n
  <2> DEFINE p == Plus(h, n)
  <2>1. p \in Words /\ p = IF h + n < WordSize THEN h + n ELSE h + n - WordSize
    BY WordArithmetic
  <2> HIDE DEF p
  <2>2. Minus(p, h) = IF h <= p THEN p - h ELSE p + WordSize - h  BY <2>1, WordArithmetic
  <2>3. Minus(p, h) = n  BY <2>1, <2>2, WordAssumption DEF Words
  <2> QED  BY <2>3 DEF p
<1>4. ASSUME NEW n \in Words, gap + n < WordSize
      PROVE  Minus(Plus(t, n), h) = gap + n
  <2> DEFINE p == Plus(t, n)
  <2>1. p \in Words /\ p = IF t + n < WordSize THEN t + n ELSE t + n - WordSize
    BY WordArithmetic
  <2> HIDE DEF p
  <2>2. Minus(p, h) = IF h <= p THEN p - h ELSE p + WordSize - h  BY <2>1, WordArithmetic
  <2>3. Minus(p, h) = gap + n  BY <1>0, <1>4, <2>1, <2>2, WordAssumption DEF Words
  <2> QED  BY <2>3 DEF p
<1>5. ASSUME NEW n \in Words, n <= gap
      PROVE  Minus(t, Plus(h, n)) = gap - n
  <2> DEFINE p == Plus(h, n)
  <2>1. p \in Words /\ p = IF h + n < WordSize THEN h + n ELSE h + n - WordSize
    BY WordArithmetic
  <2> HIDE DEF p
  <2>2. Minus(t, p) = IF p <= t THEN t - p ELSE t + WordSize - p  BY <2>1, WordArithmetic
  <2>3. Minus(t, p) = gap - n  BY <1>0, <1>5, <2>1, <2>2, WordAssumption DEF Words
  <2> QED  BY <2>3 DEF p
<1>6. ASSUME gap <= Size  PROVE Minus(Plus(h, Size), t) = Size - gap
  <2> DEFINE p == Plus(h, Size)
  <2>1. p \in Words /\ p = IF h + Size < WordSize THEN h + Size ELSE h + Size - WordSize
    BY <1>1, WordArithmetic
  <2> HIDE DEF p
  <2>2. Minus(p, t) = IF t <= p THEN p - t ELSE p + WordSize - t  BY <2>1, WordArithmetic
  <2>3. Minus(p, t) = Size - gap  BY <1>0, <1>1, <1>6, <2>1, <2>2, WordAssumption DEF Words
  <2> QED  BY <2>3 DEF p
<1> QED  BY <1>2, <1>3, <1>4, <1>5, <1>6 DEF gap

-----------------------------------------------------------------------------
(* The inductive invariant.  What the two sides loaded stays good while    *)
(* the other side works: the room the producer found can only grow, and so *)
(* can the bytes the consumer found.                                       *)
Shape ==
  /\ head \in Words /\ tail \in Words /\ data \in [0 .. Size - 1 -> Bytes]
  /\ available_bytes <= Size
  /\ wpc \in {"idle", "copy"} /\ rpc \in {"idle", "copy", "drain"}

Producing ==
  wpc = "copy" =>
    /\ wtail = tail /\ src \in Seq(Bytes)
    /\ to_write \in 0 .. Len(src) /\ wi \in 0 .. to_write
    /\ available_bytes + to_write <= Size
    /\ \A i \in 0 .. wi - 1 : data[Cell(tail, i)] = src[i + 1]

Consuming ==
  /\ rpc = "copy" =>
       /\ rhead = head /\ to_read \in 0 .. available_bytes /\ ri \in 0 .. to_read
       /\ dest \in Seq(Bytes) /\ Len(dest) = ri
       /\ \A i \in 0 .. ri - 1 : dest[i + 1] = data[Cell(head, i)]
  /\ rpc = "drain" => rhead \in Words /\ Minus(rhead, head) <= available_bytes

IInv == Shape /\ Producing /\ Consuming

(* The tail is as far from the head as there are bytes.                    *)
LEMMA Available ==
  ASSUME Shape
  PROVE  /\ available_bytes \in Words /\ available_bytes \in Nat
         /\ tail = Plus(head, available_bytes) /\ Size \in Words
         /\ \A n \in 0 .. Size : n \in Words
<1>1. available_bytes \in Words /\ tail = Plus(head, available_bytes)
  BY Distance DEF Shape, available_bytes
<1> QED  BY <1>1, SizeAssumption, WordAssumption DEF Words

(* The byte i of the producer goes to the cell this far from the head.     *)
LEMMA ProducerCell ==
  ASSUME Shape, NEW i \in Nat
  PROVE  Cell(tail, i) = Cell(head, available_bytes + i)
<1>1. head \in Words /\ available_bytes \in Words  BY Available DEF Shape
<1>2. Cell(Plus(head, available_bytes), i) = Cell(head, available_bytes + i)
  BY <1>1, CellFrom
<1> QED  BY <1>2, Available

(* The cells of the producer hold no byte for the consumer.                *)
LEMMA ProducerApart ==
  ASSUME Shape, NEW i \in Nat, available_bytes + i < Size,
         NEW j \in Nat, j < available_bytes + i
  PROVE  Cell(tail, i) # Cell(head, j)
<1>1. head \in Words /\ available_bytes \in Nat  BY Available DEF Shape
<1>2. Cell(head, j) # Cell(head, available_bytes + i)
  <2>1. available_bytes + i \in Nat /\ available_bytes + i < j + Size
    BY <1>1, SizeAssumption
  <2> QED  BY <1>1, <2>1, CellsDiffer
<1> QED  BY <1>2, ProducerCell

-----------------------------------------------------------------------------
(* The invariant holds at first.                                           *)
LEMMA InitEstablishes == Init => IInv
<1> SUFFICES ASSUME Init  PROVE IInv  OBVIOUS
<1>1. head \in Words /\ tail \in Words /\ data \in [0 .. Size - 1 -> Bytes]
  BY BytesAssumption, WordAssumption DEF Init, Words
<1>2. available_bytes = 0
  BY <1>1, Distance DEF Init, available_bytes
<1> QED  BY <1>1, <1>2, SizeAssumption DEF Init, IInv, Shape, Producing, Consuming

(* Two sequences, one after the other.                                     *)
LEMMA Concatenation ==
  ASSUME NEW S, NEW s \in Seq(S), NEW t \in Seq(S)
  PROVE  s \o t = [i \in 1 .. Len(s) + Len(t) |->
                      IF i <= Len(s) THEN s[i] ELSE t[i - Len(s)]]
<1> DEFINE u == s \o t  n == Len(s) + Len(t)  e(i) == IF i <= Len(s) THEN s[i] ELSE t[i - Len(s)]
<1>1. u \in Seq(S) /\ Len(u) = n /\ \A i \in 1 .. n : u[i] = e(i)  BY ConcatProperties
<1> HIDE DEF u, n, e
<1>2. u = [i \in 1 .. Len(u) |-> u[i]]  BY <1>1
<1>3. u = [i \in 1 .. n |-> e(i)]  BY <1>1, <1>2
<1> QED  BY <1>3 DEF u, n, e

(* The producer.                                                           *)
LEMMA WriteStartKeeps ==
  ASSUME IInv, NEW s \in Chunks, WriteStart(s)
  PROVE  IInv'
<1>1. s \in Seq(Bytes) /\ Len(s) \in Nat  BY DEF Chunks
<1>2. UNCHANGED <<head, tail, data, rpc, dest, rhead, to_read, ri>>
  BY DEF WriteStart, shared, consumer
<1>3. available_bytes' = available_bytes  BY <1>2 DEF available_bytes
<1>4. Shape'  BY <1>2, <1>3 DEF IInv, Shape, WriteStart
<1>5. Consuming'  BY <1>2, <1>3 DEF IInv, Consuming
<1>6. Minus(Plus(head, Size), tail) = Size - available_bytes
  BY Distance DEF IInv, Shape, available_bytes
<1>7. to_write' \in 0 .. Len(s) /\ available_bytes + to_write' <= Size
  <2>1. available_bytes \in Nat /\ available_bytes <= Size /\ Size \in Nat
    BY Available, SizeAssumption DEF IInv, Shape
  <2>2. to_write' = IF Size - available_bytes < Len(s) THEN Size - available_bytes ELSE Len(s)
    BY <1>6 DEF WriteStart
  <2> QED  BY <1>1, <2>1, <2>2
<1>8. wtail' = tail' /\ src' = s /\ wi' = 0  BY <1>2 DEF WriteStart
<1>9. Producing'  BY <1>1, <1>3, <1>7, <1>8 DEF Producing
<1> QED  BY <1>4, <1>5, <1>9 DEF IInv

(* A byte copied in leaves the bytes for the consumer.                     *)
LEMMA WriteByteKeeps ==
  ASSUME IInv, WriteByte
  PROVE  IInv'
<1>1. UNCHANGED <<head, tail, wpc, src, wtail, to_write, rpc, dest, rhead, to_read, ri>>
  BY DEF WriteByte, consumer
<1>2. available_bytes' = available_bytes  BY <1>1 DEF available_bytes
<1>3. Shape /\ head \in Words /\ tail \in Words /\ available_bytes \in Nat /\ Size \in Nat
  BY Available, SizeAssumption DEF IInv, Shape
<1>4. /\ wtail = tail /\ src \in Seq(Bytes) /\ wi \in Nat /\ wi < to_write
      /\ to_write \in Nat /\ to_write <= Len(src) /\ available_bytes + to_write <= Size
      /\ \A i \in 0 .. wi - 1 : data[Cell(tail, i)] = src[i + 1]
  BY DEF IInv, Producing, WriteByte
<1>5. Cell(tail, wi) \in 0 .. Size - 1  BY <1>3, <1>4, CellOfSum
<1>6. data' = [data EXCEPT ![Cell(tail, wi)] = src[wi + 1]] /\ wi' = wi + 1
  BY <1>4 DEF WriteByte, Cell
<1>7. Shape'
  <2>1. src[wi + 1] \in Bytes  BY <1>4
  <2>2. data' \in [0 .. Size - 1 -> Bytes]  BY <1>5, <1>6, <2>1 DEF IInv, Shape
  <2> QED  BY <1>1, <1>2, <2>2 DEF IInv, Shape
<1>8. Producing'
  <2>1. ASSUME NEW i \in 0 .. wi  PROVE data'[Cell(tail, i)] = src[i + 1]
    <3>1. CASE i = wi  BY <1>3, <1>5, <1>6, <3>1 DEF Shape
    <3>2. CASE i # wi
      <4>1. i \in Nat /\ i < wi /\ wi < i + Size  BY <1>3, <1>4, <3>2
      <4>2. Cell(tail, i) # Cell(tail, wi)  BY <1>3, <1>4, <4>1, CellsDiffer
      <4>3. Cell(tail, i) \in 0 .. Size - 1  BY <1>3, <4>1, CellOfSum
      <4> QED  BY <1>3, <1>4, <1>6, <4>1, <4>2, <4>3 DEF Shape
    <3> QED  BY <3>1, <3>2
  <2>2. wi' - 1 = wi /\ wi' \in 0 .. to_write  BY <1>4, <1>6
  <2>3. \A i \in 0 .. wi' - 1 : data'[Cell(tail', i)] = src'[i + 1]
    BY <1>1, <2>1, <2>2
  <2>4. /\ wtail' = tail' /\ src' \in Seq(Bytes) /\ to_write' \in 0 .. Len(src')
        /\ wi' \in 0 .. to_write' /\ available_bytes' + to_write' <= Size
    BY <1>1, <1>2, <1>4, <2>2
  <2> QED  BY <2>3, <2>4 DEF Producing
<1>9. Consuming'
  <2>1. ASSUME rpc = "copy", NEW i \in 0 .. ri - 1
        PROVE  data'[Cell(head, i)] = data[Cell(head, i)]
    <3>1. i \in Nat /\ i < available_bytes
      BY <1>3, <2>1 DEF IInv, Consuming
    <3>2. Cell(tail, wi) # Cell(head, i)
      BY <1>3, <1>4, <3>1, ProducerApart
    <3>3. Cell(head, i) \in 0 .. Size - 1  BY <1>3, <3>1, CellOfSum
    <3> QED  BY <1>3, <1>6, <3>2, <3>3 DEF Shape
  <2> QED  BY <1>1, <1>2, <2>1 DEF IInv, Consuming
<1> QED  BY <1>7, <1>8, <1>9 DEF IInv

(* A write that ends makes its bytes available.                            *)
LEMMA WriteEndMovesTail ==
  ASSUME IInv, WriteEnd
  PROVE  /\ tail' \in Words /\ available_bytes' = available_bytes + to_write
         /\ to_write \in Nat /\ available_bytes' <= Size
<1>1. /\ head' = head /\ tail' = Plus(tail, to_write) /\ head \in Words /\ tail \in Words
      /\ to_write \in Nat /\ available_bytes + to_write <= Size
  BY DEF WriteEnd, IInv, Shape, Producing
<1>2. /\ to_write \in Words /\ available_bytes + to_write < WordSize
  <2>1. Size \in Nat /\ WordSize \in Nat /\ Size < WordSize /\ available_bytes \in Nat
    BY Available, SizeAssumption, WordAssumption DEF IInv
  <2> QED  BY <1>1, <2>1 DEF Words
<1>3. Plus(tail, to_write) \in Words  BY <1>1, <1>2, WordArithmetic
<1>4. Minus(Plus(tail, to_write), head) = Minus(tail, head) + to_write
  BY <1>1, <1>2, Distance DEF available_bytes
<1> QED  BY <1>1, <1>3, <1>4 DEF available_bytes

(* It keeps the invariant.                                                 *)
LEMMA WriteEndKeeps ==
  ASSUME IInv, WriteEnd
  PROVE  IInv'
<1>1. UNCHANGED <<head, data, rpc, dest, rhead, to_read, ri>> /\ wpc' = "idle"
  BY DEF WriteEnd, consumer
<1>2. Shape'  BY <1>1, WriteEndMovesTail DEF IInv, Shape
<1>3. Producing'  BY <1>1 DEF Producing
<1>4. Consuming'
  <2>1. available_bytes \in Nat /\ available_bytes' \in Nat /\ available_bytes <= available_bytes'
    BY Available, WriteEndMovesTail DEF IInv
  <2>2. rpc = "drain" => Minus(rhead, head) \in Nat
    BY Distance DEF IInv, Shape, Consuming, Words
  <2> QED  BY <1>1, <2>1, <2>2 DEF IInv, Consuming
<1> QED  BY <1>2, <1>3, <1>4 DEF IInv

(* The consumer.                                                           *)
LEMMA ReadStartKeeps ==
  ASSUME IInv, NEW n \in 0 .. MaxChunk, ReadStart(n)
  PROVE  IInv'
<1>1. UNCHANGED <<head, tail, data, wpc, src, wtail, to_write, wi>>
  BY DEF ReadStart, shared, producer
<1>2. available_bytes' = available_bytes /\ available_bytes \in Nat
  BY <1>1, Available DEF available_bytes, IInv
<1>3. Shape'  BY <1>1, <1>2 DEF IInv, Shape, ReadStart
<1>4. Producing'  BY <1>1, <1>2 DEF IInv, Producing
<1>5. /\ rpc' = "copy" /\ rhead' = head' /\ ri' = 0 /\ dest' = <<>>
      /\ to_read' \in 0 .. available_bytes
  BY <1>1, <1>2, ChunkAssumption DEF ReadStart
<1>6. Consuming'  BY <1>2, <1>5 DEF Consuming
<1> QED  BY <1>3, <1>4, <1>6 DEF IInv

(* A byte copied out is the one its place says.                            *)
LEMMA ReadByteKeeps ==
  ASSUME IInv, ReadByte
  PROVE  IInv'
<1>1. UNCHANGED <<head, tail, data, wpc, src, wtail, to_write, wi, rpc, rhead, to_read>>
  BY DEF ReadByte, shared, producer
<1>2. available_bytes' = available_bytes /\ available_bytes \in Nat
  BY <1>1, Available DEF available_bytes, IInv
<1>3. Shape'  BY <1>1, <1>2 DEF IInv, Shape
<1>4. Producing'  BY <1>1, <1>2 DEF IInv, Producing
<1>5. /\ rpc = "copy" /\ rhead = head /\ to_read \in 0 .. available_bytes
      /\ ri \in Nat /\ ri < to_read /\ dest \in Seq(Bytes) /\ Len(dest) = ri
      /\ \A i \in 0 .. ri - 1 : dest[i + 1] = data[Cell(head, i)]
  BY DEF IInv, Consuming, ReadByte
<1>6. data[Cell(head, ri)] \in Bytes
  <2>1. Cell(head, ri) \in 0 .. Size - 1  BY <1>5, CellOfSum DEF IInv, Shape
  <2> QED  BY <2>1 DEF IInv, Shape
<1>7. dest' = Append(dest, data[Cell(head, ri)]) /\ ri' = ri + 1
  BY <1>5 DEF ReadByte, Cell
<1>8. dest' \in Seq(Bytes) /\ Len(dest') = ri'  BY <1>5, <1>6, <1>7
<1>9. ASSUME NEW i \in 0 .. ri' - 1  PROVE dest'[i + 1] = data[Cell(head, i)]
  <2>1. CASE i = ri  BY <1>5, <1>7, <2>1
  <2>2. CASE i # ri
    <3>1. i \in 0 .. ri - 1  BY <1>5, <1>7, <2>2
    <3>2. dest'[i + 1] = dest[i + 1]  BY <1>5, <1>7, <3>1
    <3> QED  BY <1>5, <3>1, <3>2
  <2> QED  BY <2>1, <2>2
<1>10. ri' \in 0 .. to_read  BY <1>5, <1>7
<1>11. Consuming'  BY <1>1, <1>2, <1>5, <1>8, <1>9, <1>10 DEF Consuming
<1> QED  BY <1>3, <1>4, <1>11 DEF IInv

(* read and drain both move the head to a byte that has been written.      *)
LEMMA HeadMoves ==
  ASSUME IInv, NEW n \in 0 .. available_bytes, head' = Plus(head, n), tail' = tail
  PROVE  head' \in Words /\ available_bytes' = available_bytes - n
<1>1. head \in Words /\ tail \in Words  BY DEF IInv, Shape
<1>2. n \in Words /\ n <= Minus(tail, head)
  <2>1. available_bytes \in Words  BY Available DEF IInv
  <2>2. n \in Words /\ n <= available_bytes  BY <2>1, WordAssumption DEF Words
  <2> QED  BY <2>2 DEF available_bytes
<1>3. Plus(head, n) \in Words  BY <1>1, <1>2, WordArithmetic
<1>4. Minus(tail, Plus(head, n)) = Minus(tail, head) - n  BY <1>1, <1>2, Distance
<1> QED  BY <1>3, <1>4 DEF available_bytes

(* Moving the head past bytes that are there keeps the invariant.          *)
LEMMA HeadMoveKeeps ==
  ASSUME IInv, NEW n \in 0 .. available_bytes, head' = Plus(head, n),
         UNCHANGED <<tail, data, wpc, src, wtail, to_write, wi>>, rpc' = "idle"
  PROVE  IInv'
<1>1. /\ head' \in Words /\ available_bytes \in Nat /\ available_bytes' \in Nat
      /\ available_bytes' <= available_bytes /\ Size \in Nat
  BY HeadMoves, Available, SizeAssumption DEF IInv
<1>2. Shape'  BY <1>1 DEF IInv, Shape
<1>3. Producing'
  <2>1. wpc = "copy" => to_write \in Nat  BY DEF IInv, Producing
  <2> QED  BY <1>1, <2>1 DEF IInv, Producing
<1>4. Consuming'  BY DEF Consuming
<1> QED  BY <1>2, <1>3, <1>4 DEF IInv

(* A read that ends moves it so.                                           *)
LEMMA ReadEndKeeps ==
  ASSUME IInv, ReadEnd
  PROVE  IInv' /\ to_read \in 0 .. available_bytes
<1>1. to_read \in 0 .. available_bytes  BY DEF IInv, Consuming, ReadEnd
<1> QED  BY <1>1, HeadMoveKeeps DEF ReadEnd, producer

(* A drain that loads the tail keeps the invariant.                        *)
LEMMA DrainStartKeeps ==
  ASSUME IInv, DrainStart
  PROVE  IInv'
<1>1. UNCHANGED <<head, tail, data, wpc, src, wtail, to_write, wi>>
  BY DEF DrainStart, shared, producer
<1>2. available_bytes' = available_bytes /\ available_bytes \in Nat
  BY <1>1, Available DEF available_bytes, IInv
<1>3. Shape'  BY <1>1, <1>2 DEF IInv, Shape, DrainStart
<1>4. Producing'  BY <1>1, <1>2 DEF IInv, Producing
<1>5. rpc' = "drain" /\ rhead' \in Words /\ Minus(rhead', head') = available_bytes
  BY <1>1 DEF DrainStart, IInv, Shape, available_bytes
<1>6. Consuming'  BY <1>2, <1>5 DEF Consuming
<1> QED  BY <1>3, <1>4, <1>6 DEF IInv

(* A drain that ends moves the head to where the tail was.                 *)
LEMMA DrainEndMovesHead ==
  ASSUME IInv, DrainEnd
  PROVE  /\ Minus(rhead, head) \in 0 .. available_bytes
         /\ head' = Plus(head, Minus(rhead, head))
<1>1. /\ rhead \in Words /\ head \in Words /\ Minus(rhead, head) <= available_bytes
      /\ available_bytes \in Nat /\ head' = rhead
  BY Available DEF IInv, Shape, Consuming, DrainEnd
<1>2. Minus(rhead, head) \in Words /\ Plus(head, Minus(rhead, head)) = rhead
  BY <1>1, Distance
<1> QED  BY <1>1, <1>2 DEF Words

(* It keeps the invariant.                                                 *)
LEMMA DrainEndKeeps ==
  ASSUME IInv, DrainEnd
  PROVE  IInv'
BY DrainEndMovesHead, HeadMoveKeeps DEF DrainEnd, producer

(* Every step keeps the invariant.                                         *)
LEMMA StepKeeps == IInv /\ [Next]_vars => IInv'
<1> SUFFICES ASSUME IInv, [Next]_vars  PROVE IInv'  OBVIOUS
<1>1. CASE UNCHANGED vars
  <2>1. available_bytes' = available_bytes  BY <1>1 DEF vars, available_bytes
  <2> QED  BY <1>1, <2>1 DEF vars, IInv, Shape, Producing, Consuming
<1>2. CASE Next
  BY <1>2, WriteStartKeeps, WriteByteKeeps, WriteEndKeeps, ReadStartKeeps, ReadByteKeeps,
     ReadEndKeeps, DrainStartKeeps, DrainEndKeeps DEF Next
<1> QED  BY <1>1, <1>2

(* For any size of the buffer and of a machine word, and any               *)
(* interleaving: the cells a write fills are not ones a read may still     *)
(* read, also after the counters have wrapped (write, read).               *)
THEOREM SidesApart == Spec => []CellsApart
<1>1. IInv => CellsApart
  <2> SUFFICES ASSUME IInv, wpc = "copy",
                      NEW i \in 0 .. to_write - 1, NEW j \in 0 .. available_bytes - 1
               PROVE  Plus(wtail, i) % Size # Plus(head, j) % Size
    BY DEF CellsApart
  <2>1. /\ Shape /\ wtail = tail /\ to_write \in Nat /\ available_bytes + to_write <= Size
        /\ available_bytes \in Nat /\ Size \in Nat
    BY Available, SizeAssumption DEF IInv, Producing
  <2>2. i \in Nat /\ j \in Nat /\ available_bytes + i < Size /\ j < available_bytes + i
    BY <2>1
  <2>3. Cell(tail, i) # Cell(head, j)  BY <2>1, <2>2, ProducerApart
  <2> QED  BY <2>1, <2>3 DEF Cell
<1> QED  BY <1>1, InitEstablishes, StepKeeps, PTL DEF Spec

-----------------------------------------------------------------------------
(* The refinement.  What the queue holds is what lies between the head and *)
(* the tail.                                                               *)
Contents == [i \in 1 .. available_bytes |-> data[Cell(head, i - 1)]]

(* The contents are a sequence of as many bytes as are available.          *)
LEMMA ContentsAreBytes ==
  ASSUME Shape
  PROVE  Contents \in Seq(Bytes) /\ Len(Contents) = available_bytes
<1>1. available_bytes \in Nat  BY Available
<1>2. ASSUME NEW i \in 1 .. available_bytes  PROVE data[Cell(head, i - 1)] \in Bytes
  <2>1. i - 1 \in Nat  BY <1>1
  <2>2. Cell(head, i - 1) \in 0 .. Size - 1  BY <2>1, CellOfSum DEF Shape
  <2> QED  BY <2>2 DEF Shape
<1>3. Contents \in [1 .. available_bytes -> Bytes]  BY <1>2 DEF Contents
<1> QED  BY <1>1, <1>3 DEF Contents

(* A write takes effect when the tail moves.                               *)
LEMMA WriteEndAppends ==
  ASSUME IInv, WriteEnd
  PROVE  \E n \in 0 .. Size - Len(Contents) :
           \E s \in [1 .. n -> Bytes] : Contents' = Contents \o s
<1> DEFINE s == [i \in 1 .. to_write |-> src[i]]
<1>1. /\ Shape /\ head \in Words /\ available_bytes \in Nat /\ Size \in Nat
      /\ to_write \in Nat /\ to_write <= Len(src) /\ src \in Seq(Bytes)
      /\ available_bytes + to_write <= Size
      /\ \A i \in 0 .. to_write - 1 : data[Cell(tail, i)] = src[i + 1]
  BY Available, SizeAssumption DEF IInv, Shape, Producing, WriteEnd
<1>2. head' = head /\ data' = data  BY DEF WriteEnd
<1>3. available_bytes' = available_bytes + to_write  BY WriteEndMovesTail
<1>4. s \in [1 .. to_write -> Bytes] /\ s \in Seq(Bytes) /\ Len(s) = to_write
  <2>1. \A i \in 1 .. to_write : src[i] \in Bytes  BY <1>1
  <2> QED  BY <1>1, <2>1
<1>5. Contents \in Seq(Bytes) /\ Len(Contents) = available_bytes  BY <1>1, ContentsAreBytes
<1>6. Contents' = [i \in 1 .. available_bytes + to_write |-> data[Cell(head, i - 1)]]
  BY <1>2, <1>3 DEF Contents
<1>7. Contents \o s = [i \in 1 .. available_bytes + to_write |->
                         IF i <= available_bytes THEN Contents[i] ELSE s[i - available_bytes]]
  <2> DEFINE c == Contents  n == available_bytes
  <2>1. c \in Seq(Bytes) /\ s \in Seq(Bytes) /\ Len(c) = n /\ Len(s) = to_write  BY <1>4, <1>5
  <2> HIDE DEF s, c, n
  <2>2. c \o s = [i \in 1 .. Len(c) + Len(s) |-> IF i <= Len(c) THEN c[i] ELSE s[i - Len(c)]]
    BY <2>1, Concatenation, Zenon
  <2>3. c \o s = [i \in 1 .. n + to_write |-> IF i <= n THEN c[i] ELSE s[i - n]]
    BY <2>1, <2>2, Zenon
  <2> QED  BY <2>3 DEF c, n
<1>8. ASSUME NEW i \in 1 .. available_bytes + to_write
      PROVE  data[Cell(head, i - 1)]
               = IF i <= available_bytes THEN Contents[i] ELSE s[i - available_bytes]
  <2>1. CASE i <= available_bytes  BY <1>1, <2>1 DEF Contents
  <2>2. CASE i > available_bytes
    <3> DEFINE j == i - available_bytes - 1
    <3>1. j \in 0 .. to_write - 1 /\ j \in Nat /\ available_bytes + j = i - 1
          /\ j + 1 = i - available_bytes /\ i - available_bytes \in 1 .. to_write
      BY <1>1, <2>2
    <3>2. Cell(tail, j) = Cell(head, i - 1)  BY <1>1, <3>1, ProducerCell
    <3>3. data[Cell(tail, j)] = src[j + 1]  BY <1>1, <3>1
    <3>4. s[i - available_bytes] = src[i - available_bytes]  BY <3>1
    <3> QED  BY <1>1, <2>2, <3>1, <3>2, <3>3, <3>4
  <2> QED  BY <1>1, <2>1, <2>2
<1>9. Contents' = Contents \o s  BY <1>6, <1>7, <1>8
<1>10. to_write \in 0 .. Size - Len(Contents)  BY <1>1, <1>5
<1> HIDE DEF s
<1> QED  BY <1>4, <1>9, <1>10

(* A read or a drain takes effect when the head moves.                     *)
LEMMA HeadMoveDrops ==
  ASSUME IInv, NEW n \in 0 .. available_bytes, head' = Plus(head, n),
         tail' = tail, data' = data
  PROVE  n \in 0 .. Len(Contents) /\ Contents' = SubSeq(Contents, n + 1, Len(Contents))
<1>1. Shape /\ head \in Words /\ available_bytes \in Nat /\ available_bytes \in Words
  BY Available DEF IInv, Shape
<1>2. Contents \in Seq(Bytes) /\ Len(Contents) = available_bytes  BY <1>1, ContentsAreBytes
<1>3. available_bytes' = available_bytes - n  BY HeadMoves
<1>4. Contents' = [i \in 1 .. available_bytes - n |-> data[Cell(Plus(head, n), i - 1)]]
  BY <1>3 DEF Contents
<1>5. n \in Words  BY <1>1, WordAssumption DEF Words
<1>6. SubSeq(Contents, n + 1, Len(Contents))
        = [i \in 1 .. available_bytes - n |-> Contents[i + n]]
  BY <1>1, <1>2
<1>7. ASSUME NEW i \in 1 .. available_bytes - n
      PROVE  data[Cell(Plus(head, n), i - 1)] = Contents[i + n]
  <2>1. i - 1 \in Nat /\ n + (i - 1) = i + n - 1 /\ i + n \in 1 .. available_bytes  BY <1>1
  <2>2. Cell(Plus(head, n), i - 1) = Cell(head, i + n - 1)  BY <1>1, <1>5, <2>1, CellFrom
  <2> QED  BY <2>1, <2>2 DEF Contents
<1> QED  BY <1>2, <1>4, <1>6, <1>7

(* A read returns the bytes that it takes off the contents.                *)
LEMMA ReadEndTakes ==
  ASSUME IInv, ReadEnd
  PROVE  \E n \in 0 .. Len(Contents) :
           got' = SubSeq(Contents, 1, n) /\ Contents' = SubSeq(Contents, n + 1, Len(Contents))
<1>1. /\ Shape /\ available_bytes \in Nat /\ to_read \in 0 .. available_bytes
      /\ dest \in Seq(Bytes) /\ Len(dest) = to_read /\ got' = dest
      /\ \A i \in 0 .. to_read - 1 : dest[i + 1] = data[Cell(head, i)]
  BY Available DEF IInv, Consuming, ReadEnd
<1>2. to_read \in 0 .. Len(Contents) /\ Contents' = SubSeq(Contents, to_read + 1, Len(Contents))
  BY <1>1, HeadMoveDrops DEF ReadEnd
<1>3. Contents \in Seq(Bytes) /\ Len(Contents) = available_bytes  BY <1>1, ContentsAreBytes
<1>4. SubSeq(Contents, 1, to_read) = [i \in 1 .. to_read |-> Contents[i]]
  BY <1>1, <1>3
<1>5. dest = [i \in 1 .. to_read |-> dest[i]]  BY <1>1
<1>6. ASSUME NEW i \in 1 .. to_read  PROVE dest[i] = Contents[i]
  <2>1. i - 1 \in 0 .. to_read - 1 /\ (i - 1) + 1 = i /\ i \in 1 .. available_bytes  BY <1>1
  <2>2. dest[(i - 1) + 1] = data[Cell(head, i - 1)]  BY <1>1, <2>1
  <2> QED  BY <2>1, <2>2 DEF Contents
<1>7. dest = SubSeq(Contents, 1, to_read)  BY <1>4, <1>5, <1>6
<1> QED  BY <1>1, <1>2, <1>7

(* A byte the producer copies is not yet part of the contents.             *)
LEMMA WriteByteHides ==
  ASSUME IInv, WriteByte
  PROVE  Contents' = Contents
<1>1. /\ Shape /\ head \in Words /\ available_bytes \in Nat /\ Size \in Nat /\ wtail = tail
      /\ wi \in Nat /\ to_write \in Nat /\ wi < to_write /\ available_bytes + to_write <= Size
      /\ data \in [0 .. Size - 1 -> Bytes]
  BY Available, SizeAssumption DEF IInv, Shape, Producing, WriteByte
<1>2. data' = [data EXCEPT ![Cell(tail, wi)] = src[wi + 1]] /\ head' = head
  BY <1>1 DEF WriteByte, Cell
<1>3. available_bytes' = available_bytes  BY DEF WriteByte, available_bytes
<1>4. ASSUME NEW i \in 1 .. available_bytes
      PROVE  data'[Cell(head, i - 1)] = data[Cell(head, i - 1)]
  <2>1. i - 1 \in Nat /\ i - 1 < available_bytes + wi /\ available_bytes + wi < Size  BY <1>1
  <2>2. Cell(tail, wi) # Cell(head, i - 1)  BY <1>1, <2>1, ProducerApart
  <2>3. Cell(head, i - 1) \in 0 .. Size - 1  BY <1>1, <2>1, CellOfSum
  <2> QED  BY <1>1, <1>2, <2>2, <2>3
<1> QED  BY <1>2, <1>3, <1>4 DEF Contents

(* For any size of the buffer and of a machine word, any bytes, and any    *)
(* interleaving of one producer and one consumer, the buffer is a bounded  *)
(* first-in first-out queue: nothing is lost, doubled, changed or          *)
(* reordered, and a read never returns a byte that is half written.        *)
THEOREM RefinesQueue == Spec => ImplementsQueue
<1> DEFINE q == [i \in 1 .. available_bytes |-> data[Plus(head, i - 1) % Size]]
<1>1. q = Contents  BY DEF Contents, Cell
<1>2. q' = Contents'  BY DEF Contents, Cell
<1>3. Init => Queue!Init
  <2> SUFFICES ASSUME Init  PROVE Queue!Init  OBVIOUS
  <2>1. Shape  BY InitEstablishes DEF IInv
  <2>2. available_bytes = 0  BY <2>1, Distance DEF Init, Shape, available_bytes
  <2>3. q = <<>>  BY <2>1, <2>2, <1>1, ContentsAreBytes
  <2> QED  BY <2>3 DEF Queue!Init, Init
<1>4. IInv /\ [Next]_vars => [Queue!Write \/ Queue!Read \/ Queue!Drain]_<<q, got>>
  <2> SUFFICES ASSUME IInv, [Next]_vars
               PROVE  \/ Queue!Write \/ Queue!Read \/ Queue!Drain
                      \/ (q' = q /\ got' = got)
    OBVIOUS
  <2>1. CASE WriteEnd
    <3>1. got' = got  BY <2>1 DEF WriteEnd
    <3> QED  BY <1>1, <1>2, <2>1, <3>1, WriteEndAppends DEF Queue!Write
  <2>2. CASE ReadEnd
    BY <1>1, <1>2, <2>2, ReadEndTakes DEF Queue!Read
  <2>3. CASE DrainEnd
    <3>1. got' = got /\ tail' = tail /\ data' = data  BY <2>3 DEF DrainEnd
    <3>2. \E n \in 0 .. Len(Contents) : Contents' = SubSeq(Contents, n + 1, Len(Contents))
      BY <2>3, <3>1, DrainEndMovesHead, HeadMoveDrops
    <3> QED  BY <1>1, <1>2, <3>1, <3>2 DEF Queue!Drain
  <2>4. CASE WriteByte
    <3>1. got' = got  BY <2>4 DEF WriteByte
    <3> QED  BY <1>1, <1>2, <2>4, <3>1, WriteByteHides
  <2>5. CASE UNCHANGED <<head, tail, data, got>>
    BY <2>5 DEF available_bytes
  <2>6. CASE \E s \in Chunks : WriteStart(s)  BY <2>5, <2>6 DEF WriteStart, shared
  <2>7. CASE \E n \in 0 .. MaxChunk : ReadStart(n)  BY <2>5, <2>7 DEF ReadStart, shared
  <2>8. CASE ReadByte \/ DrainStart  BY <2>5, <2>8 DEF ReadByte, DrainStart, shared
  <2>9. CASE UNCHANGED vars  BY <2>5, <2>9 DEF vars
  <2> QED  BY <2>1, <2>2, <2>3, <2>4, <2>6, <2>7, <2>8, <2>9 DEF Next
<1> QED  BY <1>3, <1>4, InitEstablishes, StepKeeps, PTL DEF Spec, ImplementsQueue, Queue!Spec
=============================================================================
