----------------------------- MODULE MCTerminals -----------------------------
(***************************************************************************)
(* The console for model checking: what one screen looks like (Screen), or *)
(* where keys and output go (Console), once with the keys that switch      *)
(* terminals and once with Shift and the keys that need a prefix.  A       *)
(* behaviour has one part, chosen at the start; the other part's variables *)
(* stay as they are.                                                       *)
(***************************************************************************)
EXTENDS Screen, Sequences

CONSTANTS
  RingSize, SwitchCodes, ShiftCodes, ExtCodes,                    \* of KeyboardInput
  ReadLengths, BufferSize, Chunk, MaxWritten, MaxKeys, MaxShifted \* of Terminals and Console

ASSUME RingAssumption == RingSize \in Nat \ {0}
ASSUME KeysAssumption == SwitchCodes \cup ShiftCodes \cup ExtCodes \subseteq 0 .. 95

VARIABLES
  part,
  events, announced, runnable, to_read, extended, readers, prefixed, typed, dropped, woken,
  since, heard, taken, partial, router, input, accepted, meant

(* Three bytes do not fit in a buffer of two.                              *)
Writes == {<<"a", "b", "c">>}

(* No program has the keyboard open, so its bounds do not matter.          *)
Con == INSTANCE Console WITH PlainCodes <- SwitchCodes, ExtCodes <- {}, ReadLengths <- {},
  MaxWritten <- MaxWritten + 1, MaxTyped <- 0, Handles <- {}, Lengths <- {}, MaxQueued <- 0
Shifted == INSTANCE Console WITH PlainCodes <- ShiftCodes, MaxKeys <- MaxShifted,
  MaxTyped <- 0, Handles <- {}, Lengths <- {}, MaxQueued <- 0

consoleVars == <<events, announced, runnable, to_read, extended, readers, prefixed, typed, dropped,
                 woken, since, heard, taken, partial, router, input, accepted, meant>>
ttyVars == <<part, vars, consoleVars>>

TTYInit == part \in {"screen", "switch", "shift"} /\ Init /\ Con!ConsoleInit

TTYNext ==
  \/ part = "screen" /\ Next /\ UNCHANGED <<part, consoleVars>>
  \/ part = "switch" /\ Con!ConsoleNext /\ UNCHANGED <<part, vars>>
  \/ part = "shift" /\ Shifted!ConsoleNext /\ UNCHANGED <<part, vars>>

TTYSpec == TTYInit /\ [][TTYNext]_ttyVars

(* The properties of the console, under their own names.                   *)
TypedIsShown == Con!TypedIsShown
ScreenIntact == Con!TTY!ScreenIntact
OutputInOrder == Con!TTY!OutputInOrder
=============================================================================
