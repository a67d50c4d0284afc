------------------------------- MODULE Console -------------------------------
(***************************************************************************)
(* The keyboard together with the terminals: what the input thread decodes *)
(* (KeyboardInput) it sends to the router (Terminals) in the same pass,    *)
(* while programs write to the terminals and read from them.               *)
(*                                                                         *)
(* No program has the keyboard device open here; KeyboardInput is about    *)
(* those that do.                                                          *)
(***************************************************************************)
EXTENDS KeyboardInput

CONSTANTS Writes, ReadLengths, BufferSize, Chunk, MaxWritten   \* of Terminals

CONSTANT MaxKeys   \* bound: bytes of the keys typed on a terminal

VARIABLES
  router, input, accepted,   \* of Terminals
  meant                      \* history: what was typed means this

TTY == INSTANCE Terminals

ttyVars == <<router, input, accepted>>
consoleVars == <<vars, ttyVars, meant>>

(* What key actions mean, one after the other: which modifier is down,     *)
(* which terminal is in front, and what each is to show.                   *)
Nothing == [down |-> {}, front |-> 0, keys |-> [t \in TTY!TTYs |-> <<>>]]

Meaning(action) ==
  CASE action.kind = "Release" -> [meant EXCEPT !.down = @ \ {action.key}]
    [] action.key \in TTY!Modifiers -> [meant EXCEPT !.down = @ \cup {action.key}]
    [] action.key = "Num0" /\ "Alt" \in meant.down -> [meant EXCEPT !.front = 0]
    [] action.key = "Num1" /\ "Alt" \in meant.down -> [meant EXCEPT !.front = 1]
    [] OTHER -> [meant EXCEPT !.keys[meant.front] =
                   @ \o (IF action.key = "ArrowLeft" THEN <<"ESC", "[", "D">>
                         ELSE <<TTY!US_LAYOUT[action.key][
                                  IF "Shift" \in meant.down THEN 2 ELSE 1]>>)]

----------------------------------------------------------------------------
ConsoleInit == Init /\ TTY!Init /\ meant = Nothing

(* Keys are typed within a bound.  A full ring is left to KeyboardInput.   *)
Press(code, pressed) ==
  /\ Len(events) < RingSize
  /\ SendCode(code, pressed)
  /\ meant' = IF KeyOf(code) = "None" THEN meant ELSE Meaning(Action(KeyOf(code), pressed))
  /\ \A t \in TTY!TTYs : Len(meant'.keys[t]) <= MaxKeys

PressPrefix ==
  /\ Len(events) < RingSize
  /\ Len(meant.keys[meant.front]) + 3 <= MaxKeys
  /\ SendPrefix
  /\ UNCHANGED meant

(* Keyboard::handle_data passes an action on to the router.                *)
RouteByte ==
  /\ HandleByte
  /\ router' = IF Decoded.out = <<>> THEN router
               ELSE TTY!send_key_action(router, Head(Decoded.out))
  /\ UNCHANGED <<input, accepted, meant>>

ConsoleNext ==
  \/ PressPrefix /\ UNCHANGED <<typed, ttyVars>>
  \/ \E code \in PlainCodes \cup ExtCodes, pressed \in BOOLEAN :
       Press(code, pressed) /\ UNCHANGED <<typed, ttyVars>>
  \/ (StartInput \/ RunInput \/ StrayContinue) /\ UNCHANGED <<typed, ttyVars, meant>>
  \/ RouteByte /\ UNCHANGED typed
  \/ to_read = 0 /\ TTY!Next /\ UNCHANGED <<vars, meant>>

----------------------------------------------------------------------------
(* "Routes all input events" to the active terminal: unless the ring drops *)
(* a byte, once it is empty what was typed is shown, in order and with its *)
(* modifiers, on the terminal that was in front when it was typed, however *)
(* the bytes were cut by the passes of the input thread and whatever       *)
(* programs wrote; and unless that terminal's own ring overflowed, it is   *)
(* what its readers get.                                                   *)
TypedIsShown ==
  (events = <<>> /\ ~prefixed) =>
    /\ meant.front = router.active_tty
    /\ \A t \in TTY!TTYs :
         LET shown == TTY!DrawnBy("key", router.sent[t])
         IN  /\ shown = meant.keys[t]
             /\ t \in router.full \/ IsSuffix(router.output[t], shown)
=============================================================================
