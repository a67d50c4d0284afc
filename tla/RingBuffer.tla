----------------------------- MODULE RingBuffer -----------------------------
(***************************************************************************)
(* The ring buffer behind keyboard events, terminals and pipes             *)
(* (kernel/src/buffers.rs), for one producer and one consumer that may     *)
(* interleave at every access to shared memory.                            *)
(*                                                                         *)
(* head and tail are machine words that are only ever added to and wrap    *)
(* around; the byte at position i is kept in data[i % len].                *)
(***************************************************************************)
EXTENDS Naturals, Sequences

CONSTANTS
  Bytes,     \* the values of a byte
  Size,      \* data.len()
  WordSize,  \* number of values of a machine word, a multiple of Size
  MaxChunk   \* bound on the length of the slices passed to read and write

ASSUME BytesAssumption == 0 \in Bytes
ASSUME SizeAssumption == Size \in Nat \ {0}
ASSUME WordAssumption == WordSize \in Nat \ {0} /\ WordSize % Size = 0 /\ Size < WordSize
ASSUME ChunkAssumption == MaxChunk \in Nat

VARIABLES
  head, tail, data,
  wpc, src, wtail, to_write, wi,   \* the producer inside write
  rpc, dest, rhead, to_read, ri,   \* the consumer inside read or drain
  got                              \* what the latest read returned

shared == <<head, tail, data>>
producer == <<wpc, src, wtail, to_write, wi>>
consumer == <<rpc, dest, rhead, to_read, ri>>
vars == <<head, tail, data, wpc, src, wtail, to_write, wi,
          rpc, dest, rhead, to_read, ri, got>>

(* Machine arithmetic.                                                     *)
Plus(a, b) == (a + b) % WordSize
Minus(a, b) == (a + WordSize - b) % WordSize

Chunks == UNION {[1 .. n -> Bytes] : n \in 0 .. MaxChunk}

available_bytes == Minus(tail, head)

Init ==
  /\ head = 0 /\ tail = 0 /\ data = [i \in 0 .. Size - 1 |-> 0]
  /\ wpc = "idle" /\ src = <<>> /\ wtail = 0 /\ to_write = 0 /\ wi = 0
  /\ rpc = "idle" /\ dest = <<>> /\ rhead = 0 /\ to_read = 0 /\ ri = 0
  /\ got = <<>>

(* Mutant: the room is taken to be what head + len leaves, inclusive.      *)
MutWriteStartOffByOne(s) ==
  /\ wpc = "idle"
  /\ LET room == Minus(Plus(head, Size + 1), tail)
     IN  to_write' = IF room < Len(s) THEN room ELSE Len(s)
  /\ wpc' = "copy" /\ src' = s /\ wtail' = tail /\ wi' = 0
  /\ UNCHANGED <<shared, consumer, got>>

(* write, up to its loads: the room is what it was when head was read.     *)
WriteStart(s) ==
  /\ wpc = "idle"
  /\ LET room == Minus(Plus(head, Size), tail)
     IN  to_write' = IF room < Len(s) THEN room ELSE Len(s)
  /\ wpc' = "copy" /\ src' = s /\ wtail' = tail /\ wi' = 0
  /\ UNCHANGED <<shared, consumer, got>>

WriteByte ==
  /\ wpc = "copy" /\ wi < to_write
  /\ data' = [data EXCEPT ![Plus(wtail, wi) % Size] = src[wi + 1]]
  /\ wi' = wi + 1
  /\ UNCHANGED <<head, tail, wpc, src, wtail, to_write, consumer, got>>

WriteEnd ==
  /\ wpc = "copy" /\ wi = to_write
  /\ tail' = Plus(tail, to_write)
  /\ wpc' = "idle" /\ src' = <<>> /\ wtail' = 0 /\ to_write' = 0 /\ wi' = 0
  /\ UNCHANGED <<head, data, consumer, got>>

(* read, up to its loads.                                                  *)
ReadStart(n) ==
  /\ rpc = "idle"
  /\ to_read' = IF available_bytes < n THEN available_bytes ELSE n
  /\ rpc' = "copy" /\ dest' = <<>> /\ rhead' = head /\ ri' = 0
  /\ UNCHANGED <<shared, producer, got>>

(* Mutant: the copy starts one byte after the head.                        *)
MutReadByte ==
  /\ rpc = "copy" /\ ri < to_read
  /\ dest' = Append(dest, data[Plus(rhead, ri + 1) % Size])
  /\ ri' = ri + 1
  /\ UNCHANGED <<shared, producer, rpc, rhead, to_read, got>>

ReadByte ==
  /\ rpc = "copy" /\ ri < to_read
  /\ dest' = Append(dest, data[Plus(rhead, ri) % Size])
  /\ ri' = ri + 1
  /\ UNCHANGED <<shared, producer, rpc, rhead, to_read, got>>

ReadEnd ==
  /\ rpc = "copy" /\ ri = to_read
  /\ head' = Plus(head, to_read)
  /\ got' = dest
  /\ rpc' = "idle" /\ dest' = <<>> /\ rhead' = 0 /\ to_read' = 0 /\ ri' = 0
  /\ UNCHANGED <<tail, data, producer>>

(* drain is the consumer's too: it loads tail, then stores it in head.     *)
DrainStart ==
  /\ rpc = "idle"
  /\ rpc' = "drain" /\ rhead' = tail
  /\ UNCHANGED <<shared, producer, dest, to_read, ri, got>>

DrainEnd ==
  /\ rpc = "drain"
  /\ head' = rhead
  /\ rpc' = "idle" /\ rhead' = 0
  /\ UNCHANGED <<tail, data, producer, dest, to_read, ri, got>>

Next ==
  \/ \E s \in Chunks : WriteStart(s)
  \/ WriteByte \/ WriteEnd
  \/ \E n \in 0 .. MaxChunk : ReadStart(n)
  \/ ReadByte \/ ReadEnd
  \/ DrainStart \/ DrainEnd

Spec == Init /\ [][Next]_vars

-----------------------------------------------------------------------------
(* The cells the producer fills and the cells the consumer is reading, or  *)
(* may still read, are different ones, also after the counters wrap.       *)
CellsApart ==
  wpc = "copy" =>
    \A i \in 0 .. to_write - 1, j \in 0 .. available_bytes - 1 :
      Plus(wtail, i) % Size # Plus(head, j) % Size

(* The buffer implements the queue its users see: bytes come out once, in  *)
(* the order they were put in and unchanged, whatever the interleaving of  *)
(* the two sides.  A write takes effect when tail moves, a read or drain   *)
(* when head does.                                                         *)
Queue == INSTANCE ByteQueue
           WITH Capacity <- Size,
                q <- [i \in 1 .. available_bytes |-> data[Plus(head, i - 1) % Size]]

ImplementsQueue == Queue!Spec
=============================================================================
