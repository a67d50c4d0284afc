------------------------------ MODULE Terminals ------------------------------
(***************************************************************************)
(* The terminals and their router (tty/router.rs, tty/keyboard.rs,         *)
(* tty/buffers.rs, tty/device.rs, tty/tty.rs): key actions go to the       *)
(* active terminal, which echoes them and offers them to its readers; what *)
(* processes write is drawn by the terminal process; Alt and a digit bring *)
(* another terminal to the front.                                          *)
(*                                                                         *)
(* The contents of a text buffer are the bytes drawn on it so far (module  *)
(* Screen says what they look like).  A byte is tagged with its origin.    *)
(* The router lock is never held across a yield, so try_read and try_write *)
(* succeed and every step is a whole call.  Key actions come from the      *)
(* input thread, in module Console.                                        *)
(***************************************************************************)
EXTENDS Naturals, Sequences

CONSTANTS
  Writes,      \* the byte sequences that processes write
  ReadLengths, \* the lengths of the buffers they read into
  BufferSize,  \* BUFFER_SIZE of the ring buffers: 256 in the code
  Chunk,       \* bytes taken at once by process_buffers: 4 in the code
  MaxWritten   \* bound: a terminal that took as many bytes is not written to

VARIABLES
  router,      \* TTYRouter, its terminals and video memory (see Init)
  input,       \* input_buffer: written by processes, not yet drawn
  accepted     \* history: bytes that write took from processes

vars == <<router, input, accepted>>

TTYs == {0, 1}

FromKey(b) == [by |-> "key", byte |-> b]
FromProcess(b) == [by |-> "process", byte |-> b]

Tagged(Tag(_), bytes) == [i \in 1 .. Len(bytes) |-> Tag(bytes[i])]

(* The bytes of a text buffer that have this origin.                       *)
DrawnBy(origin, drawn) ==
  LET chosen == SelectSeq(drawn, LAMBDA b : b.by = origin)
  IN  [i \in 1 .. Len(chosen) |-> chosen[i].byte]

(* Mutant: of bytes that do not fit, the last ones are kept.               *)
MutFilled(q, bytes) ==
  LET room == BufferSize - Len(q)
  IN  q \o (IF room < Len(bytes) THEN SubSeq(bytes, Len(bytes) - room + 1, Len(bytes)) ELSE bytes)

(* RingBuffer::write: what is in the buffer after it, which may have room  *)
(* for some of the bytes only.                                             *)
Filled(q, bytes) ==
  q \o SubSeq(bytes, 1, IF BufferSize - Len(q) < Len(bytes) THEN BufferSize - Len(q) ELSE Len(bytes))

Init ==
  /\ router = [held |-> {},         \* KeyState: the modifiers that are down
               active_tty |-> 0,
               pointer |-> [t \in TTYs |-> IF t = 0 THEN "vram" ELSE "back"],
               vram |-> <<>>,       \* contents of video memory
               back |-> [t \in TTYs |-> <<>>],    \* and of the back buffers
               output |-> [t \in TTYs |-> <<>>],  \* output_buffer
               sent |-> [t \in TTYs |-> <<>>],    \* history: bytes sent to a terminal
               full |-> {}]         \* history: terminals whose output_buffer overflowed
  /\ input = [t \in TTYs |-> <<>>]
  /\ accepted = [t \in TTYs |-> <<>>]

----------------------------------------------------------------------------
(* send_data for each of these bytes: drawn wherever the text buffer is.   *)
SendData(r, t, bytes) ==
  LET noted == [r EXCEPT !.sent[t] = @ \o bytes]
  IN  IF r.pointer[t] = "vram" THEN [noted EXCEPT !.vram = @ \o bytes]
                               ELSE [noted EXCEPT !.back[t] = @ \o bytes]

(* Mutant: the terminal that goes to the background is not saved.          *)
MutSetActiveUnsaved(r, index) ==
  [r EXCEPT !.vram = r.back[index], !.pointer[r.active_tty] = "back",
            !.pointer[index] = "vram", !.active_tty = index]

(* set_active_tty: swap_out copies the buffer in use to the back buffer of *)
(* the active terminal, and swap_in the other's back buffer to vram.  The  *)
(* two may be the same terminal.                                           *)
set_active_tty(r, index) ==
  LET prev == r.active_tty
      shown == IF r.pointer[prev] = "vram" THEN r.vram ELSE r.back[prev]
      saved == [r.back EXCEPT ![prev] = shown]
  IN  [r EXCEPT !.back = saved, !.vram = saved[index], !.pointer[prev] = "back",
                !.pointer[index] = "vram", !.active_tty = index]

Modifiers == {"Alt", "Control", "Shift"}
SwitchKeys == [Num0 |-> 0, Num1 |-> 1]

(* The rows of US_LAYOUT that the model's keys reach: alone and shifted.   *)
US_LAYOUT == [A |-> <<"a", "A">>, Num0 |-> <<"0", ")">>, Num1 |-> <<"1", "!">>,
              Enter |-> <<"LF", "LF">>]

key_code_to_ascii(held, key) ==
  IF key = "ArrowLeft" THEN <<"ESC", "[", "D">>
  ELSE <<US_LAYOUT[key][IF "Shift" \in held THEN 2 ELSE 1]>>

(* The rest of send_key_action: the echo, and the bytes for the readers.   *)
Typed(r, bytes) ==
  LET t == r.active_tty
      left == Filled(r.output[t], bytes)
  IN  [SendData(r, t, Tagged(FromKey, bytes))
         EXCEPT !.output[t] = left,
                !.full = IF Len(left) < Len(r.output[t]) + Len(bytes) THEN @ \cup {t} ELSE @]

send_key_action(r, action) ==
  IF action.key \in Modifiers
    THEN [r EXCEPT !.held = IF action.kind = "Press" THEN @ \cup {action.key}
                                                     ELSE @ \ {action.key}]
  ELSE IF action.kind = "Release" THEN r
  ELSE IF action.key \in DOMAIN SwitchKeys /\ "Alt" \in r.held
    THEN set_active_tty(r, SwitchKeys[action.key])
  ELSE Typed(r, key_code_to_ascii(r.held, action.key))

(* A process writes to a terminal device (or the kernel to its console).   *)
DeviceWrite(t, bytes) ==
  LET q == Filled(input[t], bytes)
  IN  /\ Len(accepted[t]) < MaxWritten
      /\ input' = [input EXCEPT ![t] = q]
      /\ accepted' = [accepted EXCEPT ![t] = @ \o SubSeq(bytes, 1, Len(q) - Len(input[t]))]
      /\ UNCHANGED router

(* A process reads from one, into a buffer of n bytes.                     *)
DeviceRead(t, n) ==
  /\ router' = [router EXCEPT !.output[t] = SubSeq(@, n + 1, Len(@))]
  /\ UNCHANGED <<input, accepted>>

(* How many of n available bytes the loop of process_buffers takes: full   *)
(* chunks are subtracted from to_read, and a short one ends the loop.      *)
Taken(n) ==
  LET loop[to_read \in 0 .. n] ==
        IF to_read = 0 THEN 0
        ELSE IF to_read < Chunk THEN to_read
        ELSE Chunk + loop[to_read - Chunk]
  IN  loop[n]

(* One pass of ttys_process: the terminals in turn, each drawing what is   *)
(* in its input buffer.                                                    *)
process_buffers ==
  LET drawn == [t \in TTYs |-> Tagged(FromProcess, SubSeq(input[t], 1, Taken(Len(input[t]))))]
  IN  /\ router' = SendData(SendData(router, 0, drawn[0]), 1, drawn[1])
      /\ input' = [t \in TTYs |-> SubSeq(input[t], Taken(Len(input[t])) + 1, Len(input[t]))]
      /\ UNCHANGED accepted

(* What processes do with the terminals.                                   *)
Next ==
  \/ \E t \in TTYs, bytes \in Writes : DeviceWrite(t, bytes)
  \/ \E t \in TTYs, n \in ReadLengths : DeviceRead(t, n)
  \/ process_buffers

----------------------------------------------------------------------------
(* Switching loses nothing: what a terminal shows, on video memory or in   *)
(* its back buffer, is all that was ever sent to it, in order, and nothing *)
(* of the other terminal.                                                  *)
ScreenIntact ==
  \A t \in TTYs : router.sent[t] = IF t = router.active_tty THEN router.vram ELSE router.back[t]

(* The bytes a write accepted from processes are drawn once and in order,  *)
(* also when keys are echoed between them.                                 *)
OutputInOrder ==
  \A t \in TTYs : accepted[t] = DrawnBy("process", router.sent[t]) \o input[t]
=============================================================================
