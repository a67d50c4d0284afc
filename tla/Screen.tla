------------------------------- MODULE Screen -------------------------------
(***************************************************************************)
(* One terminal: the parser of escape sequences (tty/tty.rs) and the text  *)
(* screen it draws on (hardware/vga/text_mode.rs).                         *)
(*                                                                         *)
(* A screen is a record of the cursor and of the bytes of the text buffer, *)
(* a character and a colour for every cell.  The parser collects no digits *)
(* of a sequence's arguments, so every argument has its default value.     *)
(***************************************************************************)
EXTENDS Integers

CONSTANTS
  Cols, Rows,  \* size of the screen: 80 and 25 in the code
  Bytes        \* the bytes sent to the terminal

ASSUME SizeAssumption == Cols \in Nat \ {0} /\ Rows \in Nat \ {0}
ASSUME BytesAssumption == Bytes \subseteq 0 .. 255

VARIABLES
  screen,       \* TTY::text_buffer
  parse_state

vars == <<screen, parse_state>>

Cells == Cols * Rows
Offsets == 0 .. 2 * Cells - 1
Space == 32
NewLine == 10
ESC == 27

(* LightGrey on Black, and the same with the two swapped.                  *)
current_color == 7
inverted(color) == (color % 16) * 16 + ((color \div 16) % 16)

(* All that matters of a character is whether it is a blank.               *)
glyph(b) == IF b = Space THEN Space ELSE 1

----------------------------------------------------------------------------
CursorOffset(s) == s.row * Cols * 2 + s.col * 2

(* The offsets from a up to below b, in steps of a cell.                   *)
Stride(a, b) == {o \in a .. b - 1 : (o - a) % 2 = 0}

Blank(s, offsets) ==
  [s EXCEPT !.mem = [o \in Offsets |-> IF o \in offsets THEN Space ELSE s.mem[o]]]

ToScreenEnd(s) == Stride(s.col + s.row * Cols * 2, 2 * Cells)

(* Mutant: the end of the row is taken one cell too far.                   *)
MutToRowEnd(s) == Stride(CursorOffset(s), (s.row + 1) * Cols * 2 + 2)

ToRowEnd(s) == Stride(CursorOffset(s), (s.row + 1) * Cols * 2)

clear_screen_to_end(s) == Blank(s, ToScreenEnd(s))

clear_row_to_end(s) == Blank(s, ToRowEnd(s))

(* Move every row up by one and blank the last one.                        *)
scroll(s) ==
  [s EXCEPT !.mem =
     [o \in Offsets |-> IF o + 2 * Cols \in Offsets THEN s.mem[o + 2 * Cols]
                        ELSE IF o % 2 = 0 THEN Space ELSE current_color]]

newline(s) ==
  IF s.row < Rows - 1 THEN [s EXCEPT !.col = 0, !.row = @ + 1]
                      ELSE scroll([s EXCEPT !.col = 0])

advance_cursor(s) == IF s.col < Cols - 1 THEN [s EXCEPT !.col = @ + 1] ELSE newline(s)

Clamp(x, max) == IF x < 0 THEN 0 ELSE IF x > max THEN max ELSE x

move_cursor_relative(s, dcol, drow) ==
  [s EXCEPT !.col = Clamp(@ + dcol, Cols - 1), !.row = Clamp(@ + drow, Rows - 1)]

invert_cursor(s) == [s EXCEPT !.mem[CursorOffset(s) + 1] = inverted(@)]

(* Mutant: the cursor is left where it was.                                *)
MutDisableCursor(s) == s

disable_cursor(s) == [s EXCEPT !.mem[CursorOffset(s) + 1] = current_color]

write_byte(s, b) ==
  IF b = NewLine THEN newline(disable_cursor(s))
  ELSE IF b \in 32 .. 126
    THEN advance_cursor([s EXCEPT !.mem[CursorOffset(s)] = glyph(b),
                                  !.mem[CursorOffset(s) + 1] = current_color])
  ELSE s

(* The command that ends a sequence: A, B, C and D move the cursor, J and  *)
(* K clear.  E to H are recognised and do nothing.                         *)
Command(s, b) ==
  IF b = 65 THEN move_cursor_relative(s, 0, -1)
  ELSE IF b = 66 THEN move_cursor_relative(s, 0, 1)
  ELSE IF b = 67 THEN move_cursor_relative(s, 1, 0)
  ELSE IF b = 68 THEN move_cursor_relative(s, -1, 0)
  ELSE IF b = 74 THEN clear_screen_to_end(s)
  ELSE IF b = 75 THEN clear_row_to_end(s)
  ELSE s

----------------------------------------------------------------------------
Init ==
  /\ screen = [col |-> 0, row |-> Rows - 1,
               mem |-> [o \in Offsets |-> IF o % 2 = 0 THEN Space ELSE current_color]]
  /\ parse_state = "Ready"

(* send_data for a byte in the Ready state.                                *)
ReadyByte(b) ==
  /\ parse_state = "Ready"
  /\ IF b = ESC
       THEN parse_state' = "EscapeStart" /\ UNCHANGED screen
       ELSE /\ screen' = invert_cursor(write_byte(screen, b))
            /\ UNCHANGED parse_state

EscapeByte(b) ==
  /\ parse_state = "EscapeStart"
  /\ parse_state' = IF b = 91 THEN "CSI" ELSE "Ready"
  /\ UNCHANGED screen

(* 59 separates arguments; every other byte ends the sequence.             *)
CSIByte(b) ==
  /\ parse_state = "CSI"
  /\ screen' = invert_cursor(Command(disable_cursor(screen), b))
  /\ parse_state' = IF b = 59 THEN "CSI" ELSE "Ready"

Next == \E b \in Bytes : ReadyByte(b) \/ EscapeByte(b) \/ CSIByte(b)

Spec == Init /\ [][Next]_vars

----------------------------------------------------------------------------
(* Wherever the cursor can get to, what is drawn or cleared from there is  *)
(* inside the text buffer: video memory, or the heap block behind a        *)
(* terminal in the background.                                             *)
WritesInBounds ==
  {CursorOffset(screen), CursorOffset(screen) + 1} \cup ToScreenEnd(screen)
    \cup ToRowEnd(screen) \subseteq Offsets

(* No ghost cursors: whatever is printed, moved, cleared or scrolled, only *)
(* the cell of the cursor is ever left with swapped colours                *)
(* (disable_cursor, invert_cursor).                                        *)
NoGhostCursor ==
  \A o \in Offsets :
    (o % 2 = 1 /\ screen.mem[o] = inverted(current_color))
    => o = CursorOffset(screen) + 1
=============================================================================
