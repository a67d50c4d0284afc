---------------------------- MODULE KeyboardInput ----------------------------
(***************************************************************************)
(* From the keyboard interrupt to key actions: the interrupt handler puts  *)
(* scan bytes in the INPUT_EVENTS ring and wakes the input thread, which   *)
(* decodes them and passes them on to the programs that have the keyboard  *)
(* device open (interrupts/pic.rs, input.rs, drivers/keyboard).            *)
(*                                                                         *)
(* The ring is the bounded queue that RingBuffer implements.  The thread   *)
(* gives up the processor only in its yield, and interrupts arrive only    *)
(* outside the kernel: during a pass of its loop nothing else happens.     *)
(***************************************************************************)
EXTENDS Naturals, Sequences, SequencesExt

CONSTANTS
  RingSize,    \* INPUT_EVENTS_DATA.len(): 32 in the code
  PlainCodes,  \* scan codes of keys that send one byte
  ExtCodes,    \* scan codes of keys that send 0xe0 first
  MaxTyped,    \* bound: key actions sent before a byte is dropped
  Handles,     \* handles the DEV file system gives out for KBD
  Lengths,     \* lengths of the buffers read into
  MaxQueued    \* bound: bytes queued for a reader

VARIABLES
  events,     \* INPUT_EVENTS
  announced,  \* INPUT_THREAD_ID has been set to the thread; it is 0 before
  runnable,   \* the run state of the input thread is Running
  to_read,    \* bytes that are left of the thread's pass; 0 outside of it
  extended,   \* Keyboard::receiving_extended_code
  readers,    \* OpenReaders::map: the bytes queued for each open handle
  prefixed,   \* keyboard: 0xe0 has been sent and a code has to follow
  typed,      \* history: the key actions the keyboard sent, till a byte is dropped
  dropped,    \* history: a byte found the ring full
  woken,      \* history: an interrupt came after the thread announced itself
  since,      \* history: how many of typed were handled when a handle was opened
  heard,      \* history: actions a handle was handed, oldest first
  taken,      \* history: how many bytes a handle was handed
  partial     \* history: handles with a read that left bytes behind

thread == <<events, announced, runnable, to_read, extended>>
notes == <<since, heard, taken, partial>>
vars == <<thread, readers, prefixed, typed, dropped, woken, notes>>

Prefix == 224

(* The part of the two tables that the model's codes reach.                *)
get_keycode(code) ==
  IF code = 2 THEN "Num1" ELSE IF code = 11 THEN "Num0"
  ELSE IF code = 28 THEN "Enter" ELSE IF code = 30 THEN "A"
  ELSE IF code = 42 THEN "Shift" ELSE IF code = 56 THEN "Alt" ELSE "None"

get_extended_keycode(code) ==
  IF code = 28 THEN "Enter" ELSE IF code = 75 THEN "ArrowLeft" ELSE "None"

Action(key, pressed) == [kind |-> IF pressed THEN "Press" ELSE "Release", key |-> key]

(* Mutant: the prefix stays set after the code it belongs to.              *)
MutDecodeSticky(kbd, byte) ==
  IF byte = Prefix THEN [kbd EXCEPT !.ext = TRUE]
  ELSE LET key == IF kbd.ext THEN get_extended_keycode(byte % 128)
                             ELSE get_keycode(byte % 128)
       IN  [ext |-> kbd.ext,
            out |-> IF key = "None" THEN kbd.out
                    ELSE Append(kbd.out, Action(key, byte < 128))]

(* generate_action_from_scan_code, with the actions so far in out.         *)
Decode(kbd, byte) ==
  IF byte = Prefix THEN [kbd EXCEPT !.ext = TRUE]
  ELSE LET key == IF kbd.ext THEN get_extended_keycode(byte % 128)
                             ELSE get_keycode(byte % 128)
       IN  [ext |-> FALSE,
            out |-> IF key = "None" THEN kbd.out
                    ELSE Append(kbd.out, Action(key, byte < 128))]

(* handle_data for the first byte of the ring, and for all of them.        *)
Decoded == Decode([ext |-> extended, out |-> <<>>], Head(events))
Pending == FoldLeft(Decode, [ext |-> extended, out |-> <<>>], events).out

(* process_action: two bytes for every open handle, the kind of action (1  *)
(* or 2 in the code) and the key.                                          *)
process_action(map, action) ==
  [h \in DOMAIN map |-> map[h] \o <<action.kind, action.key>>]

(* The actions that a sequence of such pairs of bytes stands for.          *)
Actions(bytes) ==
  [i \in 1 .. Len(bytes) \div 2 |-> [kind |-> bytes[2 * i - 1], key |-> bytes[2 * i]]]

----------------------------------------------------------------------------
Init ==
  /\ events = <<>>
  /\ announced = FALSE
  /\ runnable = TRUE
  /\ to_read = 0
  /\ extended = FALSE
  /\ readers = [h \in {} |-> <<>>]
  /\ prefixed = FALSE
  /\ typed = <<>>
  /\ dropped = FALSE /\ woken = FALSE
  /\ since = [h \in Handles |-> 0]
  /\ heard = [h \in Handles |-> <<>>]
  /\ taken = [h \in Handles |-> 0]
  /\ partial = {}

(* Mutant: the handler leaves the waking to somebody else.                 *)
MutKeyboardInterrupt(byte) ==
  /\ to_read = 0
  /\ events' = IF Len(events) < RingSize THEN Append(events, byte) ELSE events
  /\ dropped' = (dropped \/ Len(events) = RingSize)
  /\ woken' = (woken \/ announced)
  /\ UNCHANGED <<runnable, announced, to_read, extended, readers, notes>>

(* The keyboard interrupt: one byte is written, or dropped when the ring   *)
(* is full, and the process INPUT_THREAD_ID names is continued.  Before    *)
(* the thread announces itself that is process 0, which is not paused.     *)
KeyboardInterrupt(byte) ==
  /\ to_read = 0
  /\ events' = IF Len(events) < RingSize THEN Append(events, byte) ELSE events
  /\ dropped' = (dropped \/ Len(events) = RingSize)
  /\ runnable' = (runnable \/ announced)
  /\ woken' = (woken \/ announced)
  /\ UNCHANGED <<announced, to_read, extended, readers, notes>>

(* The keyboard sends a key action: a byte, or 0xe0 and a byte.            *)
SendPrefix ==
  /\ ~prefixed /\ ExtCodes # {}
  /\ prefixed' = TRUE
  /\ KeyboardInterrupt(Prefix)

SendCode(code, pressed) ==
  /\ code \in IF prefixed THEN ExtCodes ELSE PlainCodes
  /\ prefixed' = FALSE
  /\ KeyboardInterrupt(IF pressed THEN code ELSE code + 128)

KeyOf(code) == IF prefixed THEN get_extended_keycode(code) ELSE get_keycode(code)

(* run_input up to its first yield: the thread stops itself and does not   *)
(* look at the ring.                                                       *)
StartInput ==
  /\ ~announced
  /\ announced' = TRUE
  /\ runnable' = FALSE
  /\ UNCHANGED <<events, to_read, extended, readers, prefixed, dropped, woken, notes>>

(* The thread runs again, looks how much there is in the ring, and stops   *)
(* itself if that is nothing.                                              *)
RunInput ==
  /\ announced /\ runnable /\ to_read = 0
  /\ to_read' = Len(events)
  /\ runnable' = (events # <<>>)
  /\ UNCHANGED <<events, announced, extended, readers, prefixed, dropped, woken, notes>>

(* It takes a byte from the ring and handles it, and stops itself after    *)
(* the last one.                                                           *)
HandleByte ==
  /\ to_read > 0
  /\ to_read' = to_read - 1
  /\ runnable' = (to_read > 1)
  /\ events' = Tail(events)
  /\ extended' = Decoded.ext
  /\ readers' = FoldLeft(process_action, readers, Decoded.out)
  /\ UNCHANGED <<announced, prefixed, dropped, woken, notes>>

(* Any process may send CONTINUE to the thread at any time.                *)
StrayContinue ==
  /\ announced /\ ~runnable
  /\ runnable' = TRUE
  /\ UNCHANGED <<events, announced, to_read, extended, readers, prefixed, dropped, woken, notes>>

----------------------------------------------------------------------------
(* KeyboardDevice::open.  Handles are not used twice, and since the DEV    *)
(* file system closes nothing, a reader stays in the map for ever.         *)
open(h) ==
  /\ to_read = 0 /\ h \notin DOMAIN readers
  /\ readers' = [g \in DOMAIN readers \cup {h} |-> IF g = h THEN <<>> ELSE readers[g]]
  /\ since' = [since EXCEPT ![h] = IF dropped THEN 0 ELSE Len(typed) - Len(Pending)]
  /\ UNCHANGED <<thread, prefixed, typed, dropped, woken, heard, taken, partial>>

(* How many bytes OpenReaders::read takes off a queue.                     *)
read_len(q, n) == IF n < Len(q) THEN n ELSE Len(q)

(* Mutant: the queue is emptied, though the buffer may be smaller.         *)
MutLeft(q, n) == <<>>

(* What it leaves there: it pops from the end.                             *)
Left(q, n) == SubSeq(q, 1, Len(q) - read_len(q, n))

(* What it returns: the newest byte first.                                 *)
Popped(q, n) == Reverse(SubSeq(q, Len(q) - read_len(q, n) + 1, Len(q)))

read(h, n) ==
  /\ to_read = 0 /\ h \in DOMAIN readers
  /\ readers' = [readers EXCEPT ![h] = Left(@, n)]
  /\ partial' = IF n < Len(readers[h]) THEN partial \cup {h} ELSE partial
  /\ heard' = [heard EXCEPT ![h] = IF h \in partial' \/ dropped THEN <<>>
                                   ELSE @ \o Actions(Reverse(Popped(readers[h], n)))]
  /\ taken' = [taken EXCEPT ![h] = IF dropped THEN 0 ELSE @ + read_len(readers[h], n)]
  /\ UNCHANGED <<thread, prefixed, typed, dropped, woken, since>>

(* The bounds on what is typed.                                            *)
RoomToType ==
  /\ Len(typed) < MaxTyped
  /\ \A h \in DOMAIN readers : Len(readers[h]) + 2 * Len(events) < MaxQueued

Next ==
  \/ RoomToType /\ SendPrefix /\ UNCHANGED typed
  \/ \E code \in PlainCodes \cup ExtCodes, pressed \in BOOLEAN :
       /\ RoomToType /\ SendCode(code, pressed)
       /\ typed' = IF dropped' THEN <<>> ELSE IF KeyOf(code) = "None" THEN typed
                   ELSE Append(typed, Action(KeyOf(code), pressed))
  \/ (StartInput \/ RunInput \/ HandleByte \/ StrayContinue) /\ UNCHANGED typed
  \/ \E h \in Handles : open(h) \/ \E n \in Lengths : read(h, n)

----------------------------------------------------------------------------
(* Until the ring drops a byte, every handle of the keyboard device is     *)
(* handed two bytes for every key action since it was opened, wherever a   *)
(* two-byte code was cut by the thread's passes and whatever other handles *)
(* read.  A program whose buffer was always large enough, and that turns   *)
(* each result around (read pops the newest byte first), gets the actions  *)
(* in the order in which they were typed.                                  *)
ReadersHearAll ==
  ~dropped =>
    \A h \in DOMAIN readers :
      LET due == SubSeq(typed, since[h] + 1, Len(typed))
      IN  /\ 2 * Len(due) = taken[h] + Len(readers[h]) + 2 * Len(Pending)
          /\ h \in partial \/ due = heard[h] \o Actions(readers[h]) \o Pending

(* Bytes that arrive once the thread has announced itself are handled: no  *)
(* wake-up is lost between the last look at the ring and the stop.         *)
KeysHandled == (woken /\ events # <<>>) ~> events = <<>>
=============================================================================
