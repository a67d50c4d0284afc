----------------------------- MODULE SerialRead -----------------------------
(***************************************************************************)
(* Blocking reads of a serial port: the queue of readers that ReadQueue    *)
(* and ComDevice keep, the process reference that SerialPort wakes from    *)
(* its interrupt, and the port's receive buffer.                           *)
(*                                                                         *)
(* A read is one kernel path cut at its process_wait calls, where the      *)
(* reader stops itself and yields; pc says at which of them it is.  Kernel *)
(* code runs with interrupts off, so an interrupt finds every reader       *)
(* either in user mode or stopped in process_wait.  A reader may be killed *)
(* wherever it is; nothing takes it out of the queue then.                 *)
(***************************************************************************)
EXTENDS Naturals, Sequences

CONSTANTS
  Readers,    \* the processes that read the port
  Lengths,    \* lengths of the buffers they pass
  FifoSize,   \* capacity of the port's receive buffer
  None        \* the absent ProcessID

ASSUME LengthsAssumption == Lengths \subseteq Nat
ASSUME FifoSizeAssumption == FifoSize \in Nat \ {0}
ASSUME NoneAssumption == None \notin Readers

VARIABLES
  fifo,     \* number of bytes in the receive buffer
  irq,      \* the port's interrupt is pending
  queue,    \* ComDevice::queue
  wakeRef,  \* SerialPort::wake_on_data_ready
  state,    \* the run state of a reader: Running, Paused or Terminated
  pc,       \* "user", or the process_wait a reader is in
  left,     \* left_to_read
  size      \* the length of the buffer of the call

vars == <<fifo, irq, queue, wakeRef, state, pc, left, size>>

Init ==
  /\ fifo = 0
  /\ irq = FALSE
  /\ queue = <<>>
  /\ wakeRef = None
  /\ state = [r \in Readers |-> "Running"]
  /\ pc = [r \in Readers |-> "user"]
  /\ left = [r \in Readers |-> 0]
  /\ size = [r \in Readers |-> 0]

(* A byte arrives.  The interrupt line rises when the buffer stops being   *)
(* empty, and the interrupt controller takes the rising edge; a byte that  *)
(* finds the buffer full is lost.                                          *)
Arrive ==
  /\ fifo' = IF fifo < FifoSize THEN fifo + 1 ELSE fifo
  /\ irq' = (irq \/ fifo = 0)
  /\ UNCHANGED <<queue, wakeRef, state, pc, left, size>>

(* Mutant: the interrupt is acknowledged and nobody is continued.          *)
MutInterrupt ==
  /\ irq
  /\ irq' = FALSE
  /\ UNCHANGED <<fifo, queue, wakeRef, state, pc, left, size>>

(* Process p is sent CONTINUE: a paused one runs again, and the signal     *)
(* means nothing to one that runs or is terminated.                        *)
Continued(p) ==
  [r \in Readers |-> IF r = p /\ state[r] = "Paused" THEN "Running" ELSE state[r]]

(* handle_interrupt: continue the process that is to be woken, if any.     *)
Interrupt ==
  /\ irq
  /\ irq' = FALSE
  /\ state' = Continued(wakeRef)
  /\ UNCHANGED <<fifo, queue, wakeRef, pc, left, size>>

(* process_wait: the reader stops itself and yields.                       *)
StopSelf(r, at) ==
  /\ state' = [state EXCEPT ![r] = "Paused"]
  /\ pc' = [pc EXCEPT ![r] = at]

(* Mutant: the next reader is not woken for the data that is left.         *)
MutRemoveNoWake(r, q, rest) ==
  /\ queue' = Tail(q)
  /\ wakeRef' = IF Tail(q) = <<>> THEN None ELSE Head(Tail(q))
  /\ state' = state
  /\ pc' = [pc EXCEPT ![r] = "user"]

(* The end of blocking_read: the reader leaves the queue, the next one     *)
(* becomes the one to wake, and is woken at once if data is left.          *)
remove_first_in_queue(r, q, rest) ==
  /\ queue' = Tail(q)
  /\ wakeRef' = IF Tail(q) = <<>> THEN None ELSE Head(Tail(q))
  /\ state' = IF Tail(q) # <<>> /\ rest > 0 THEN Continued(Head(Tail(q))) ELSE state
  /\ pc' = [pc EXCEPT ![r] = "user"]

(* What a read of n bytes takes from the receive buffer.                   *)
read_available_data(n) == IF fifo < n THEN fifo ELSE n

(* The process to wake once r has joined a queue of this length.           *)
maybe_set_wake_on_data_ready(r, len) ==
  IF len = 1 /\ wakeRef = None THEN r ELSE wakeRef

(* The read loop of the reader at the head of queue q, with ref the        *)
(* process to wake and n bytes still to read: it takes what is there, and  *)
(* waits or finishes.                                                      *)
ReadLoop(r, q, ref, n) ==
  LET chunk == read_available_data(n)
  IN  /\ fifo' = fifo - chunk
      /\ left' = [left EXCEPT ![r] = n - chunk]
      /\ IF n > chunk
           THEN StopSelf(r, "reading") /\ queue' = q /\ wakeRef' = ref
           ELSE remove_first_in_queue(r, q, fifo - chunk)

(* blocking_read up to its first wait or its end.                          *)
Read(r, n) ==
  LET q == Append(queue, r)
      ref == maybe_set_wake_on_data_ready(r, Len(q))
  IN  /\ pc[r] = "user" /\ state[r] = "Running"
      /\ size' = [size EXCEPT ![r] = n]
      /\ IF Len(q) > 1
           THEN /\ StopSelf(r, "queued")
                /\ queue' = q /\ wakeRef' = ref
                /\ left' = [left EXCEPT ![r] = n]
                /\ UNCHANGED fifo
           ELSE ReadLoop(r, q, ref, n)
      /\ UNCHANGED irq

(* Mutant: a reader woken in the queue takes it that it is first.          *)
MutWokenInQueue(r) ==
  /\ pc[r] = "queued" /\ state[r] = "Running"
  /\ ReadLoop(r, queue, wakeRef, left[r])
  /\ UNCHANGED <<irq, size>>

(* A reader woken in the queue goes back to sleep unless it is first.      *)
WokenInQueue(r) ==
  /\ pc[r] = "queued" /\ state[r] = "Running"
  /\ IF Head(queue) # r
       THEN StopSelf(r, "queued") /\ UNCHANGED <<fifo, queue, wakeRef, left>>
       ELSE ReadLoop(r, queue, wakeRef, left[r])
  /\ UNCHANGED <<irq, size>>

(* A reader woken in the middle of its read goes on with it.               *)
WokenReading(r) ==
  /\ pc[r] = "reading" /\ state[r] = "Running"
  /\ ReadLoop(r, queue, wakeRef, left[r])
  /\ UNCHANGED <<irq, size>>

(* Any process may send CONTINUE to a reader at any time.                  *)
StrayContinue(r) ==
  /\ state[r] = "Paused"
  /\ state' = Continued(r)
  /\ UNCHANGED <<fifo, irq, queue, wakeRef, pc, left, size>>

(* A reader is killed by a signal; its place in the queue and the          *)
(* reference that wakes it stay as they are.                               *)
Kill(r) ==
  /\ state[r] # "Terminated"
  /\ state' = [state EXCEPT ![r] = "Terminated"]
  /\ UNCHANGED <<fifo, irq, queue, wakeRef, pc, left, size>>

Next ==
  \/ Arrive
  \/ Interrupt
  \/ \E r \in Readers, n \in Lengths : Read(r, n)
  \/ \E r \in Readers : \/ WokenInQueue(r) \/ WokenReading(r)
                        \/ StrayContinue(r) \/ Kill(r)

(* Bytes keep coming, interrupts are taken whenever user code or the idle  *)
(* loop runs, and the scheduler runs every runnable process.  Nobody has   *)
(* to send stray signals.                                                  *)
Fairness ==
  /\ WF_vars(Arrive) /\ WF_vars(Interrupt)
  /\ \A r \in Readers : WF_vars(WokenInQueue(r) \/ WokenReading(r))

Spec == Init /\ [][Next]_vars /\ Fairness

-----------------------------------------------------------------------------
(* No wake-up is lost: while the reader at the head of the queue is        *)
(* stopped and there is data to read, the interrupt that will continue it  *)
(* is still to be taken (blocking_read checks for data, stops and yields   *)
(* with interrupts off).                                                   *)
NoLostWakeup ==
  (queue # <<>> /\ state[Head(queue)] = "Paused" /\ fifo > 0) => irq

(* Two reads never share the stream: when one read has taken part of its   *)
(* bytes, no other one has (the while loop on the head of the queue).      *)
ReadsDoNotInterleave ==
  \A r, s \in Readers :
    (/\ pc[r] # "user" /\ left[r] < size[r]
     /\ pc[s] # "user" /\ left[s] < size[s]) => r = s

(* Reader r waits behind a reader that was killed, or was killed itself.   *)
Stranded(r) ==
  \E i, j \in 1 .. Len(queue) :
    i <= j /\ queue[j] = r /\ state[queue[i]] = "Terminated"

(* Every read is answered in the end if bytes keep coming, unless the      *)
(* reader or one ahead of it in the queue is killed: a death in the queue  *)
(* holds up only the readers behind it (remove_first_in_queue is the only  *)
(* way out of the queue, and only the head calls it).                      *)
ReadCompletes ==
  \A r \in Readers : pc[r] # "user" ~> (pc[r] = "user" \/ Stranded(r))

(* No reader that queued up behind another returns before it.              *)
NotOvertaken ==
  \A r, s \in Readers :
    (\E i, j \in 1 .. Len(queue) : i < j /\ queue[i] = r /\ queue[j] = s)
    => (pc'[s] = "user" => pc'[r] = "user")

(* Readers are served in the order of their calls: a reader is never       *)
(* overtaken by one that queued up behind it.                              *)
FirstComeFirstServed == [][NotOvertaken]_vars

-----------------------------------------------------------------------------
(* The types of the state.                                                 *)
TypeOK ==
  /\ fifo \in 0 .. FifoSize /\ irq \in BOOLEAN
  /\ queue \in Seq(Readers) /\ wakeRef \in Readers \cup {None}
  /\ state \in [Readers -> {"Running", "Paused", "Terminated"}]
  /\ pc \in [Readers -> {"user", "queued", "reading"}]
  /\ left \in [Readers -> Nat] /\ size \in [Readers -> Nat]

(* A queue q holds the readers that at puts inside a read, each once, and  *)
(* only the first of them has started to take bytes.                       *)
Queued(q, at) ==
  /\ \A i, j \in 1 .. Len(q) : q[i] = q[j] => i = j
  /\ \A r \in Readers : at[r] # "user" <=> \E i \in 1 .. Len(q) : q[i] = r
  /\ \A r \in Readers : at[r] = "reading" => Len(q) > 0 /\ q[1] = r

(* The port wakes the head of queue q.                                     *)
WakesHead(q, ref) == ref = IF Len(q) = 0 THEN None ELSE q[1]

(* A reader that waits for its turn has taken nothing yet.                 *)
NothingTaken == \A r \in Readers : pc[r] = "queued" => left[r] = size[r]

(* The inductive invariant: the queue and the port's reference to the      *)
(* process to wake change hands together.                                  *)
IInv ==
  /\ TypeOK /\ Queued(queue, pc) /\ WakesHead(queue, wakeRef)
  /\ NothingTaken /\ NoLostWakeup
=============================================================================
