----------------------------- MODULE ByteQueue -----------------------------
(***************************************************************************)
(* What a byte buffer promises its two users: a bounded first-in first-out *)
(* queue.  A write appends a prefix of what it was given, a read returns   *)
(* the oldest bytes, and drain throws the oldest bytes away.               *)
(***************************************************************************)
EXTENDS Naturals, Sequences

CONSTANTS Bytes, Capacity

VARIABLES
  q,      \* the bytes written and not yet read
  got     \* the bytes the latest read returned

Init == q = <<>> /\ got = <<>>

Write ==
  /\ \E n \in 0 .. (Capacity - Len(q)) :
       \E s \in [1 .. n -> Bytes] : q' = q \o s
  /\ UNCHANGED got

Read ==
  \E n \in 0 .. Len(q) :
    /\ got' = SubSeq(q, 1, n)
    /\ q' = SubSeq(q, n + 1, Len(q))

Drain ==
  \E n \in 0 .. Len(q) : q' = SubSeq(q, n + 1, Len(q)) /\ UNCHANGED got

Spec == Init /\ [][Write \/ Read \/ Drain]_<<q, got>>
=============================================================================
