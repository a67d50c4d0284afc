-------------------------- MODULE SerialReadProofs --------------------------
(***************************************************************************)
(* Proofs about blocking reads of a serial port, for any number of         *)
(* readers, any buffer lengths and any size of the receive buffer.         *)
(***************************************************************************)
EXTENDS SerialRead, SequenceTheorems, TLAPS

USE LengthsAssumption, FifoSizeAssumption, NoneAssumption

(* The head of a sequence of readers.                                      *)
LEMMA HeadOf ==
  ASSUME NEW q \in Seq(Readers)
  PROVE  /\ Len(q) \in Nat /\ (q = <<>> <=> Len(q) = 0)
         /\ Len(q) > 0 => q[1] \in Readers /\ Head(q) = q[1]
  <1>1. Len(q) \in Nat BY LenProperties
  <1>2. q = <<>> <=> Len(q) = 0 BY EmptySeq
  <1>3. Len(q) > 0 => q[1] \in Readers BY <1>1, ElementOfSeq
  <1> QED BY <1>1, <1>2, <1>3

(* A reader outside the queue that joins it at the end                     *)
(* (add_process_to_queue) and waits for its turn, or reads at once because *)
(* it is alone.                                                            *)
LEMMA JoinQueue ==
  ASSUME TypeOK, Queued(queue, pc), NEW r \in Readers, pc[r] = "user",
         NEW at \in {"queued", "reading"}, at = "reading" => Len(queue) = 0
  PROVE  Queued(Append(queue, r), [pc EXCEPT ![r] = at])
  <1> DEFINE q == Append(queue, r)
             to == [pc EXCEPT ![r] = at]
  <1>1. /\ Len(queue) \in Nat /\ Len(q) = Len(queue) + 1 /\ q[Len(q)] = r
        /\ \A i \in 1 .. Len(queue) : q[i] = queue[i] /\ queue[i] \in Readers
    BY AppendProperties, ElementOfSeq, LenProperties DEF TypeOK
  <1>2. \A s \in Readers : to[s] = IF s = r THEN at ELSE pc[s]
    BY DEF TypeOK
  <1>3. \A i \in 1 .. Len(queue) : queue[i] # r
    BY DEF Queued
  <1> HIDE DEF q, to
  <1>4. \A i, j \in 1 .. Len(q) : q[i] = q[j] => i = j
    BY <1>1, <1>3 DEF Queued
  <1>5. \A s \in Readers : to[s] # "user" <=> \E i \in 1 .. Len(q) : q[i] = s
    <2> TAKE s \in Readers
    <2>1. CASE s = r
      BY <1>1, <1>2, <2>1
    <2>2. CASE s # r
      <3>1. (\E i \in 1 .. Len(q) : q[i] = s) <=> \E i \in 1 .. Len(queue) : queue[i] = s
        BY <1>1, <2>2
      <3> QED BY <1>2, <2>2, <3>1 DEF Queued
    <2> QED BY <2>1, <2>2
  <1>6. \A s \in Readers : to[s] = "reading" => Len(q) > 0 /\ q[1] = s
    BY <1>1, <1>2 DEF Queued
  <1>7. Queued(q, to) BY <1>4, <1>5, <1>6 DEF Queued
  <1> QED BY <1>7 DEF q, to

(* The head of the queue that leaves it (remove_first_in_queue).           *)
LEMMA LeaveQueue ==
  ASSUME TypeOK, Queued(queue, pc), Len(queue) > 0
  PROVE  /\ Queued(Tail(queue), [pc EXCEPT ![queue[1]] = "user"])
         /\ Tail(queue) \in Seq(Readers) /\ Len(Tail(queue)) = Len(queue) - 1
         /\ \A i \in 1 .. Len(Tail(queue)) : Tail(queue)[i] = queue[i + 1]
  <1> DEFINE q == Tail(queue)
             to == [pc EXCEPT ![queue[1]] = "user"]
  <1>1. /\ Len(queue) \in Nat /\ queue # <<>>
        /\ \A i \in 1 .. Len(queue) : queue[i] \in Readers
    BY ElementOfSeq, LenProperties, EmptySeq DEF TypeOK
  <1>2. /\ q \in Seq(Readers) /\ Len(q) = Len(queue) - 1
        /\ \A i \in 1 .. Len(q) : q[i] = queue[i + 1]
    BY <1>1, HeadTailProperties DEF TypeOK
  <1>3. \A s \in Readers : to[s] = IF s = queue[1] THEN "user" ELSE pc[s]
    BY <1>1 DEF TypeOK
  <1> HIDE DEF q, to
  <1>4. \A i, j \in 1 .. Len(q) : q[i] = q[j] => i = j
    BY <1>1, <1>2 DEF Queued
  <1>5. \A s \in Readers : to[s] # "user" <=> \E i \in 1 .. Len(q) : q[i] = s
    <2> TAKE s \in Readers
    <2>1. CASE s = queue[1]
      <3>1. \A i \in 1 .. Len(q) : q[i] # s
        BY <1>1, <1>2, <2>1 DEF Queued
      <3> QED BY <1>3, <2>1, <3>1
    <2>2. CASE s # queue[1]
      <3>1. ASSUME NEW i \in 1 .. Len(queue), queue[i] = s
            PROVE  i - 1 \in 1 .. Len(q) /\ q[i - 1] = s
        BY <1>1, <1>2, <2>2, <3>1
      <3>2. (\E i \in 1 .. Len(q) : q[i] = s) <=> \E i \in 1 .. Len(queue) : queue[i] = s
        BY <1>1, <1>2, <3>1
      <3> QED BY <1>3, <2>2, <3>2 DEF Queued
    <2> QED BY <2>1, <2>2
  <1>6. \A s \in Readers : to[s] = "reading" => Len(q) > 0 /\ q[1] = s
    BY <1>3 DEF Queued
  <1>7. Queued(q, to) BY <1>4, <1>5, <1>6 DEF Queued
  <1> QED BY <1>2, <1>7 DEF q, to

(* CONTINUE keeps the run states and leaves nobody it is sent to paused.   *)
LEMMA ContinuedType ==
  ASSUME TypeOK, NEW p
  PROVE  /\ Continued(p) \in [Readers -> {"Running", "Paused", "Terminated"}]
         /\ p \in Readers => Continued(p)[p] # "Paused"
         /\ \A r \in Readers : r # p => Continued(p)[r] = state[r]
  BY DEF Continued, TypeOK

(* The head of the queue that starts or goes on with its read.             *)
LEMMA HeadReads ==
  ASSUME TypeOK, Queued(queue, pc), Len(queue) > 0
  PROVE  Queued(queue, [pc EXCEPT ![queue[1]] = "reading"])
  <1>1. queue[1] \in Readers
    BY ElementOfSeq, LenProperties DEF TypeOK
  <1>2. \A s \in Readers : [pc EXCEPT ![queue[1]] = "reading"][s]
                             = IF s = queue[1] THEN "reading" ELSE pc[s]
    BY <1>1 DEF TypeOK
  <1> QED BY <1>1, <1>2, LenProperties DEF Queued, TypeOK

(* The read loop of the head of the queue (ReadLoop, called on the queue   *)
(* as it is) keeps the invariant.                                          *)
LEMMA HeadLoop ==
  ASSUME IInv, NEW r \in Readers, Len(queue) > 0, queue[1] = r,
         ReadLoop(r, queue, wakeRef, left[r]), UNCHANGED <<irq, size>>
  PROVE  IInv'
  <1> DEFINE chunk == read_available_data(left[r])
  <1>1. TypeOK /\ Queued(queue, pc) /\ WakesHead(queue, wakeRef) BY DEF IInv
  <1>0. left[r] \in Nat /\ fifo \in Nat BY <1>1 DEF TypeOK
  <1>2. /\ chunk \in Nat /\ chunk <= fifo /\ chunk <= left[r]
        /\ chunk < left[r] => chunk = fifo
    BY <1>0 DEF read_available_data
  <1> HIDE DEF chunk
  <1>3. fifo' = fifo - chunk /\ left' = [left EXCEPT ![r] = left[r] - chunk]
    BY DEF ReadLoop, chunk
  <1>4. fifo' \in 0 .. FifoSize /\ left' \in [Readers -> Nat]
    <2>1. fifo <= FifoSize /\ left \in [Readers -> Nat] BY <1>1 DEF TypeOK
    <2>2. left[r] - chunk \in Nat BY <1>0, <1>2
    <2> QED BY <1>0, <1>2, <1>3, <2>1, <2>2
  <1>5. CASE left[r] > chunk
    <2>1. /\ state' = [state EXCEPT ![r] = "Paused"]
          /\ pc' = [pc EXCEPT ![r] = "reading"]
          /\ queue' = queue /\ wakeRef' = wakeRef
      BY <1>5 DEF ReadLoop, StopSelf, chunk
    <2>2. TypeOK' BY <1>1, <1>4, <2>1 DEF TypeOK
    <2>3. Queued(queue, pc)' BY <1>1, <2>1, HeadReads
    <2>4. NothingTaken'
      BY <1>1, <1>3, <2>1 DEF IInv, NothingTaken, TypeOK
    <2>5. fifo' = 0 BY <1>0, <1>2, <1>3, <1>5
    <2> QED BY <1>1, <2>1, <2>2, <2>3, <2>4, <2>5 DEF IInv, NoLostWakeup, WakesHead
  <1>6. CASE ~(left[r] > chunk)
    <2>1. remove_first_in_queue(r, queue, fifo - chunk)
      BY <1>6 DEF ReadLoop, chunk
    <2>2. /\ Queued(Tail(queue), [pc EXCEPT ![r] = "user"])
          /\ Tail(queue) \in Seq(Readers) /\ Len(Tail(queue)) = Len(queue) - 1
      BY <1>1, LeaveQueue
    <2>3. queue' = Tail(queue) /\ pc' = [pc EXCEPT ![r] = "user"]
      BY <2>1 DEF remove_first_in_queue
    <2>4. /\ Len(queue') \in Nat /\ (queue' = <<>> <=> Len(queue') = 0)
          /\ (Len(queue') > 0 => queue'[1] \in Readers /\ Head(queue') = queue'[1])
      BY <2>2, <2>3, HeadOf
    <2>5. wakeRef' = IF Len(queue') = 0 THEN None ELSE queue'[1]
      BY <2>1, <2>3, <2>4 DEF remove_first_in_queue
    <2>6. state' = IF Len(queue') > 0 /\ fifo' > 0 THEN Continued(queue'[1]) ELSE state
      BY <1>3, <2>1, <2>3, <2>4 DEF remove_first_in_queue
    <2>7. TypeOK'
      <3>1. state' \in [Readers -> {"Running", "Paused", "Terminated"}]
        BY <1>1, <2>6, ContinuedType DEF TypeOK
      <3>2. pc' \in [Readers -> {"user", "queued", "reading"}]
        BY <1>1, <2>3 DEF TypeOK
      <3>3. wakeRef' \in Readers \cup {None} BY <2>4, <2>5
      <3> QED BY <1>1, <1>4, <2>2, <2>3, <3>1, <3>2, <3>3 DEF TypeOK
    <2>8. NothingTaken' BY <1>1, <1>3, <2>3 DEF IInv, NothingTaken, TypeOK
    <2>9. NoLostWakeup' BY <1>1, <1>4, <2>4, <2>6, ContinuedType DEF NoLostWakeup
    <2> QED BY <2>2, <2>3, <2>5, <2>7, <2>8, <2>9 DEF IInv, WakesHead
  <1> QED BY <1>5, <1>6

(* A step that leaves the queue, the places of the readers and the bytes   *)
(* taken alone, and pauses nobody, keeps the invariant if it announces a   *)
(* byte that finds the buffer empty.                                       *)
LEMMA SignalStep ==
  ASSUME IInv, UNCHANGED <<queue, wakeRef, pc, left, size>>,
         fifo' \in 0 .. FifoSize, irq' \in BOOLEAN,
         state' \in [Readers -> {"Running", "Paused", "Terminated"}],
         \A r \in Readers : state'[r] = "Paused" => state[r] = "Paused",
         irq' \/ (fifo' = fifo /\ irq' = irq) \/ (fifo' = fifo /\ state' = Continued(wakeRef))
  PROVE  IInv'
  <1>1. TypeOK /\ Queued(queue, pc) /\ WakesHead(queue, wakeRef) /\ NothingTaken
        /\ NoLostWakeup
    BY DEF IInv
  <1>2. TypeOK' BY <1>1 DEF TypeOK
  <1>3. Len(queue) \in Nat /\ (queue = <<>> <=> Len(queue) = 0)
        /\ (Len(queue) > 0 => queue[1] \in Readers /\ Head(queue) = queue[1])
    BY <1>1, HeadOf DEF TypeOK
  <1>4. state' = Continued(wakeRef) => NoLostWakeup'
    BY <1>1, <1>3, ContinuedType DEF NoLostWakeup, WakesHead
  <1>5. NoLostWakeup' BY <1>1, <1>3, <1>4 DEF NoLostWakeup
  <1> QED BY <1>1, <1>2, <1>5 DEF IInv, Queued, WakesHead, NothingTaken

(* blocking_read up to its first wait or its end keeps the invariant.      *)
LEMMA ReadStep ==
  ASSUME IInv, NEW r \in Readers, NEW n \in Lengths, Read(r, n)
  PROVE  IInv'
  <1> DEFINE q == Append(queue, r)
             ref == maybe_set_wake_on_data_ready(r, Len(q))
  <1>1. TypeOK /\ Queued(queue, pc) /\ WakesHead(queue, wakeRef) /\ NothingTaken
        /\ NoLostWakeup
    BY DEF IInv
  <1>2. n \in Nat /\ pc[r] = "user" BY DEF Read
  <1>3. Len(queue) \in Nat /\ (queue = <<>> <=> Len(queue) = 0)
        /\ (Len(queue) > 0 => queue[1] \in Readers /\ Head(queue) = queue[1])
    BY <1>1, HeadOf DEF TypeOK
  <1>4. /\ q \in Seq(Readers) /\ Len(q) = Len(queue) + 1 /\ Len(q) # 0
        /\ q[1] = (IF Len(queue) = 0 THEN r ELSE queue[1]) /\ Head(q) = q[1]
    BY <1>1, <1>3, AppendProperties, HeadOf DEF TypeOK
  <1>5. WakesHead(q, ref)
    BY <1>1, <1>3, <1>4 DEF WakesHead, maybe_set_wake_on_data_ready
  <1>6. ref \in Readers \cup {None}
    BY <1>1 DEF maybe_set_wake_on_data_ready, TypeOK
  <1>7. size' = [size EXCEPT ![r] = n] /\ size' \in [Readers -> Nat] /\ irq' = irq
    BY <1>1, <1>2 DEF Read, TypeOK
  <1> HIDE DEF q, ref
  <1>8. CASE Len(q) > 1
    <2>1. /\ state' = [state EXCEPT ![r] = "Paused"]
          /\ pc' = [pc EXCEPT ![r] = "queued"]
          /\ queue' = q /\ wakeRef' = ref /\ fifo' = fifo
          /\ left' = [left EXCEPT ![r] = n]
      BY <1>8 DEF Read, StopSelf, q, ref
    <2>2. TypeOK' BY <1>1, <1>2, <1>4, <1>6, <1>7, <2>1 DEF TypeOK
    <2>3. Queued(queue, pc)' BY <1>1, <1>2, <2>1, JoinQueue DEF q
    <2>4. NothingTaken' BY <1>1, <1>7, <2>1 DEF NothingTaken, TypeOK
    <2>5. queue[1] # r BY <1>1, <1>2, <1>3, <1>4, <1>8 DEF Queued
    <2>6. NoLostWakeup'
      BY <1>1, <1>3, <1>4, <1>7, <1>8, <2>1, <2>5 DEF NoLostWakeup, TypeOK
    <2> QED BY <1>5, <2>1, <2>2, <2>3, <2>4, <2>6 DEF IInv
  <1>9. CASE ~(Len(q) > 1)
    <2> DEFINE chunk == read_available_data(n)
    <2>1. ReadLoop(r, q, ref, n) /\ Len(queue) = 0 /\ Len(q) = 1 /\ q[1] = r
      BY <1>3, <1>4, <1>9 DEF Read, q, ref
    <2>2. /\ fifo \in Nat /\ chunk \in Nat /\ chunk <= fifo /\ chunk <= n
          /\ chunk < n => chunk = fifo
      BY <1>1, <1>2 DEF read_available_data, TypeOK
    <2> HIDE DEF chunk
    <2>3. fifo' = fifo - chunk /\ left' = [left EXCEPT ![r] = n - chunk]
      BY <2>1 DEF ReadLoop, chunk
    <2>4. fifo' \in 0 .. FifoSize /\ left' \in [Readers -> Nat]
      <3>1. fifo <= FifoSize /\ left \in [Readers -> Nat] BY <1>1 DEF TypeOK
      <3>2. n - chunk \in Nat BY <1>2, <2>2
      <3> QED BY <2>2, <2>3, <3>1, <3>2
    <2>5. CASE n > chunk
      <3>1. /\ state' = [state EXCEPT ![r] = "Paused"]
            /\ pc' = [pc EXCEPT ![r] = "reading"]
            /\ queue' = q /\ wakeRef' = ref
        BY <2>1, <2>5 DEF ReadLoop, StopSelf, chunk
      <3>2. TypeOK' BY <1>1, <1>4, <1>6, <1>7, <2>4, <3>1 DEF TypeOK
      <3>3. Queued(queue, pc)' BY <1>1, <1>2, <2>1, <3>1, JoinQueue DEF q
      <3>4. NothingTaken' BY <1>1, <1>7, <2>3, <3>1 DEF NothingTaken, TypeOK
      <3>5. fifo' = 0 BY <1>2, <2>2, <2>3, <2>5
      <3> QED BY <1>5, <3>1, <3>2, <3>3, <3>4, <3>5 DEF IInv, NoLostWakeup
    <2>6. CASE ~(n > chunk)
      <3>1. remove_first_in_queue(r, q, fifo - chunk)
        BY <2>1, <2>6 DEF ReadLoop, chunk
      <3>2. Tail(q) = <<>>
        <4>1. q # <<>> BY <1>4, HeadOf
        <4>2. Tail(q) \in Seq(Readers) /\ Len(Tail(q)) = Len(q) - 1
          BY <1>4, <4>1, HeadTailProperties
        <4>3. Len(Tail(q)) = 0 BY <2>1, <4>2
        <4> QED BY <4>2, <4>3, HeadOf
      <3>3. queue' = queue /\ wakeRef' = wakeRef /\ pc' = pc /\ state' = state
        BY <1>1, <1>2, <1>3, <2>1, <3>1, <3>2
           DEF remove_first_in_queue, WakesHead, TypeOK
      <3>4. TypeOK' BY <1>1, <1>7, <2>4, <3>3 DEF TypeOK
      <3>5. NothingTaken'
        BY <1>1, <1>2, <1>7, <2>3, <3>3 DEF NothingTaken, TypeOK
      <3>6. NoLostWakeup' BY <1>3, <2>1, <3>3 DEF NoLostWakeup
      <3> QED BY <1>1, <3>3, <3>4, <3>5, <3>6 DEF IInv
    <2> QED BY <2>5, <2>6
  <1> QED BY <1>8, <1>9

(* The invariant holds initially.                                          *)
LEMMA InvInit == Init => IInv
  <1> SUFFICES ASSUME Init PROVE IInv
    OBVIOUS
  <1>1. queue \in Seq(Readers) /\ Len(queue) = 0 BY EmptySeq DEF Init
  <1>2. TypeOK
    <2>0. irq \in BOOLEAN BY DEF Init
    <2>1. fifo \in 0 .. FifoSize BY DEF Init
    <2>2. /\ state \in [Readers -> {"Running", "Paused", "Terminated"}]
          /\ pc \in [Readers -> {"user", "queued", "reading"}]
          /\ left \in [Readers -> Nat] /\ size \in [Readers -> Nat]
      BY DEF Init
    <2> QED BY <1>1, <2>0, <2>1, <2>2 DEF Init, TypeOK
  <1>3. Queued(queue, pc) BY <1>1 DEF Init, Queued
  <1> QED BY <1>1, <1>2, <1>3 DEF Init, IInv, WakesHead, NothingTaken, NoLostWakeup

(* Every step keeps the invariant.                                         *)
LEMMA InvStep == IInv /\ [Next]_vars => IInv'
  <1> SUFFICES ASSUME IInv, [Next]_vars PROVE IInv'
    OBVIOUS
  <1>1. TypeOK /\ Queued(queue, pc) /\ WakesHead(queue, wakeRef) /\ NothingTaken
        /\ NoLostWakeup
    BY DEF IInv
  <1>2. Len(queue) \in Nat /\ (queue = <<>> <=> Len(queue) = 0)
        /\ (Len(queue) > 0 => queue[1] \in Readers /\ Head(queue) = queue[1])
    BY <1>1, HeadOf DEF TypeOK
  <1>3. CASE UNCHANGED vars
    BY <1>1, <1>3 DEF IInv, TypeOK, Queued, WakesHead, NothingTaken, NoLostWakeup, vars
  <1>4. CASE Arrive
    <2>1. /\ UNCHANGED <<queue, wakeRef, pc, left, size>> /\ state' = state
          /\ fifo' \in 0 .. FifoSize /\ irq' = (irq \/ fifo = 0)
      BY <1>1, <1>4 DEF Arrive, TypeOK
    <2>2. irq' \in BOOLEAN BY <2>1
    <2>3. TypeOK' BY <1>1, <2>1, <2>2 DEF TypeOK
    <2>4. fifo = 0 \/ fifo > 0 BY <1>1 DEF TypeOK
    <2>5. NoLostWakeup' BY <1>1, <2>1, <2>4 DEF NoLostWakeup
    <2> QED BY <1>1, <2>1, <2>3, <2>5 DEF IInv, Queued, WakesHead, NothingTaken
  <1>5. CASE Interrupt
    BY <1>1, <1>5, SignalStep, ContinuedType DEF Interrupt, TypeOK
  <1>6. ASSUME NEW r \in Readers, NEW n \in Lengths, Read(r, n) PROVE IInv'
    BY <1>6, ReadStep
  <1>7. ASSUME NEW r \in Readers, WokenInQueue(r) PROVE IInv'
    <2>1. pc[r] = "queued" /\ Len(queue) > 0
      BY <1>1, <1>2, <1>7 DEF WokenInQueue, Queued
    <2>2. CASE queue[1] = r
      <3>1. ReadLoop(r, queue, wakeRef, left[r]) /\ UNCHANGED <<irq, size>>
        BY <1>2, <1>7, <2>1, <2>2 DEF WokenInQueue
      <3> QED BY <2>1, <2>2, <3>1, HeadLoop
    <2>3. CASE queue[1] # r
      <3>1. /\ state' = [state EXCEPT ![r] = "Paused"]
            /\ pc' = [pc EXCEPT ![r] = "queued"]
            /\ UNCHANGED <<fifo, queue, wakeRef, left, irq, size>>
        BY <1>2, <1>7, <2>1, <2>3 DEF WokenInQueue, StopSelf
      <3>2. pc' = pc BY <1>1, <2>1, <3>1 DEF TypeOK
      <3>3. TypeOK' BY <1>1, <3>1, <3>2 DEF TypeOK
      <3>4. NoLostWakeup'
        BY <1>1, <1>2, <2>1, <2>3, <3>1 DEF NoLostWakeup, TypeOK
      <3> QED BY <1>1, <3>1, <3>2, <3>3, <3>4
              DEF IInv, Queued, WakesHead, NothingTaken
    <2> QED BY <2>2, <2>3
  <1>8. ASSUME NEW r \in Readers, WokenReading(r) PROVE IInv'
    <2>1. Len(queue) > 0 /\ queue[1] = r BY <1>1, <1>8 DEF WokenReading, Queued
    <2> QED BY <1>8, <2>1, HeadLoop DEF WokenReading
  <1>9. ASSUME NEW r \in Readers, StrayContinue(r) PROVE IInv'
    BY <1>1, <1>9, SignalStep, ContinuedType DEF StrayContinue, TypeOK
  <1>10. ASSUME NEW r \in Readers, Kill(r) PROVE IInv'
    BY <1>1, <1>10, SignalStep DEF Kill, TypeOK
  <1> QED
    BY <1>3, <1>4, <1>5, <1>6, <1>7, <1>8, <1>9, <1>10 DEF Next

(* The queue, the places of the readers and the port's reference agree in  *)
(* every reachable state.                                                  *)
THEOREM InductiveInvariant == Spec => []IInv
  BY InvInit, InvStep, PTL DEF Spec

(* No wake-up of a serial reader is ever lost, whatever the readers, their *)
(* buffers and the size of the receive buffer (blocking_read against       *)
(* handle_interrupt).                                                      *)
THEOREM WakeupNotLost == Spec => []NoLostWakeup
  <1>1. IInv => NoLostWakeup BY DEF IInv
  <1> QED BY <1>1, InductiveInvariant, PTL

(* Two reads never share the stream of bytes (the loop on the head of the  *)
(* queue in blocking_read).                                                *)
THEOREM ReadsAreExclusive == Spec => []ReadsDoNotInterleave
  <1>1. IInv => ReadsDoNotInterleave
    <2> SUFFICES ASSUME IInv, NEW r \in Readers, NEW s \in Readers,
                        pc[r] # "user", left[r] < size[r],
                        pc[s] # "user", left[s] < size[s]
                 PROVE  r = s
      BY DEF ReadsDoNotInterleave
    <2>1. TypeOK /\ Queued(queue, pc) /\ NothingTaken BY DEF IInv
    <2>2. pc[r] = "reading" /\ pc[s] = "reading"
      BY <2>1 DEF NothingTaken, TypeOK
    <2> QED BY <2>1, <2>2 DEF Queued
  <1> QED BY <1>1, InductiveInvariant, PTL

(* The read loop ends the read of nobody but the reader that runs it.      *)
LEMMA LoopEndsOwn ==
  ASSUME NEW r \in Readers, NEW q, NEW ref, NEW n, ReadLoop(r, q, ref, n),
         TypeOK, NEW s \in Readers, s # r
  PROVE  pc'[s] = pc[s]
  BY DEF ReadLoop, StopSelf, remove_first_in_queue, TypeOK

(* Readers return from blocking_read in the order in which they called it. *)
THEOREM ReadersInOrder == Spec => FirstComeFirstServed
  <1>1. IInv /\ [Next]_vars => [NotOvertaken]_vars
    <2> SUFFICES ASSUME IInv, Next, NEW r \in Readers, NEW s \in Readers,
                        NEW i \in 1 .. Len(queue), NEW j \in 1 .. Len(queue),
                        i < j, queue[i] = r, queue[j] = s, pc'[s] = "user"
                 PROVE  FALSE
      BY DEF NotOvertaken
    <2>1. TypeOK /\ Queued(queue, pc) BY DEF IInv
    <2>2. Len(queue) \in Nat /\ (queue = <<>> <=> Len(queue) = 0)
          /\ (Len(queue) > 0 => queue[1] \in Readers /\ Head(queue) = queue[1])
      BY <2>1, HeadOf DEF TypeOK
    <2>3. pc[s] # "user" /\ s # queue[1] BY <2>1, <2>2 DEF Queued
    <2>4. CASE Arrive \/ Interrupt
      BY <2>3, <2>4 DEF Arrive, Interrupt
    <2>5. ASSUME NEW t \in Readers, NEW n \in Lengths, Read(t, n) PROVE FALSE
      <3>1. t # s BY <2>3, <2>5 DEF Read
      <3>2. pc' = [pc EXCEPT ![t] = "queued"] \/ pc'[s] = pc[s]
        BY <2>1, <2>5, <3>1, LoopEndsOwn DEF Read, StopSelf
      <3> QED BY <2>1, <2>3, <3>1, <3>2 DEF TypeOK
    <2>6. ASSUME NEW t \in Readers, WokenInQueue(t) PROVE FALSE
      <3>1. CASE Head(queue) = t
        <4>1. t # s BY <2>2, <2>3, <3>1
        <4> QED BY <2>1, <2>3, <2>6, <3>1, <4>1, LoopEndsOwn DEF WokenInQueue
      <3>2. CASE Head(queue) # t
        BY <2>1, <2>3, <2>6, <3>2 DEF WokenInQueue, StopSelf, TypeOK
      <3> QED BY <3>1, <3>2
    <2>7. ASSUME NEW t \in Readers, WokenReading(t) PROVE FALSE
      <3>1. t # s BY <2>1, <2>3, <2>7 DEF WokenReading, Queued
      <3> QED BY <2>1, <2>3, <2>7, <3>1, LoopEndsOwn DEF WokenReading
    <2>8. ASSUME NEW t \in Readers, StrayContinue(t) \/ Kill(t) PROVE FALSE
      BY <2>3, <2>8 DEF StrayContinue, Kill
    <2> QED BY <2>4, <2>5, <2>6, <2>7, <2>8 DEF Next
  <1> QED BY <1>1, InductiveInvariant, PTL DEF Spec, FirstComeFirstServed
=============================================================================
