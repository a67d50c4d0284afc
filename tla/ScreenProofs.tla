---------------------------- MODULE ScreenProofs ----------------------------
(***************************************************************************)
(* Proofs about a terminal's screen, for every size of it and every byte   *)
(* sent: what is drawn stays inside the text buffer, and there is never a  *)
(* second cursor.                                                          *)
(***************************************************************************)
EXTENDS Screen, TLAPS

Screens == [col : 0 .. Cols - 1, row : 0 .. Rows - 1, mem : [Offsets -> Nat]]

(* No cell outside the one of the cursor, or no cell at all, has swapped   *)
(* colours.                                                                *)
Swapped(s, o) == o % 2 = 1 /\ s.mem[o] = inverted(current_color)
Clean(s) == \A o \in Offsets : ~ Swapped(s, o)
CleanElsewhere(s) == \A o \in Offsets : Swapped(s, o) => o = CursorOffset(s) + 1

(* The inductive invariant.                                                *)
IInv == screen \in Screens /\ CleanElsewhere(screen)

-----------------------------------------------------------------------------
(* A product grows with its first factor.                                  *)
LEMMA ProductGrows ==
  ASSUME NEW a \in Nat, NEW b \in Nat, NEW c \in Nat, a <= b
  PROVE  a * c \in Nat /\ b * c \in Nat /\ a * c <= b * c
<1>1. PICK k \in Nat : b = a + k  BY b - a \in Nat, b = a + (b - a)
<1>2. b * c = a * c + k * c  BY <1>1
<1>3. a * c \in Nat /\ k * c \in Nat  OBVIOUS
<1> QED  BY <1>2, <1>3

(* The cell of a cursor on the screen is in the text buffer, and so is the *)
(* rest of its row (write_byte, invert_cursor, clear_row_to_end).          *)
LEMMA CursorInBuffer ==
  ASSUME NEW s \in Screens
  PROVE  /\ CursorOffset(s) \in Nat /\ CursorOffset(s) % 2 = 0
         /\ CursorOffset(s) \in Offsets /\ CursorOffset(s) + 1 \in Offsets
         /\ Cells \in Nat /\ s.col + s.row * Cols * 2 \in Nat
         /\ (s.row + 1) * Cols * 2 <= 2 * Cells
<1> DEFINE r == s.row  c == s.col  rc == r * Cols  total == Cols * Rows
<1>1. r \in Nat /\ c \in Nat /\ r + 1 <= Rows /\ c + 1 <= Cols /\ Cols \in Nat /\ Rows \in Nat
  BY SizeAssumption DEF Screens
<1>2. r * Cols \in Nat /\ (r + 1) * Cols <= Rows * Cols /\ Rows * Cols \in Nat
  <2>1. r + 1 \in Nat  BY <1>1
  <2> QED  BY <1>1, <2>1, ProductGrows
<1>3. (r + 1) * Cols = r * Cols + Cols /\ Rows * Cols = Cols * Rows  BY <1>1
<1>4. rc \in Nat /\ total \in Nat /\ rc + Cols <= total  BY <1>2, <1>3
<1>5. (s.row + 1) * Cols = rc + Cols  BY <1>3
<1>6. CursorOffset(s) = rc * 2 + c * 2 /\ Cells = total /\ s.col + s.row * Cols * 2 = c + rc * 2
  BY DEF CursorOffset, Cells
<1>7. Offsets = 0 .. 2 * total - 1  BY DEF Offsets, Cells
<1> HIDE DEF r, c, rc, total
<1>8. rc * 2 + c * 2 \in Nat /\ (rc * 2 + c * 2) % 2 = 0 /\ rc * 2 + c * 2 + 1 < 2 * total
  BY <1>1, <1>4
<1>9. (s.row + 1) * Cols * 2 <= 2 * total  BY <1>5, <1>4, <1>1
<1> QED  BY <1>1, <1>4, <1>6, <1>7, <1>8, <1>9

(* Everything drawn from a cursor on the screen stays in the buffer.       *)
LEMMA DrawnInBounds ==
  ASSUME NEW s \in Screens
  PROVE  {CursorOffset(s), CursorOffset(s) + 1} \cup ToScreenEnd(s) \cup ToRowEnd(s)
           \subseteq Offsets
<1>1. ToScreenEnd(s) \subseteq Offsets
  BY CursorInBuffer DEF ToScreenEnd, Stride, Offsets
<1>2. ToRowEnd(s) \subseteq Offsets
  <2>1. (s.row + 1) * Cols * 2 \in Nat
    BY SizeAssumption DEF Screens
  <2> QED  BY <2>1, CursorInBuffer DEF ToRowEnd, Stride, Offsets
<1> QED  BY <1>1, <1>2, CursorInBuffer

-----------------------------------------------------------------------------
(* The operations keep the screen a screen, and leave no swapped colours   *)
(* behind.  The two that draw the cursor:                                  *)
LEMMA DisableCleans ==
  ASSUME NEW s \in Screens, CleanElsewhere(s)
  PROVE  disable_cursor(s) \in Screens /\ Clean(disable_cursor(s))
BY CursorInBuffer DEF disable_cursor, Screens, Clean, CleanElsewhere, Swapped,
                      current_color, inverted, CursorOffset

(* Drawing the cursor, or taking it off, touches only its own cell.        *)
LEMMA InvertDraws ==
  ASSUME NEW s \in Screens, CleanElsewhere(s)
  PROVE  invert_cursor(s) \in Screens /\ CleanElsewhere(invert_cursor(s))
<1> DEFINE t == invert_cursor(s)  at == CursorOffset(s) + 1
<1>1. at \in Offsets  BY CursorInBuffer
<1>2. inverted(s.mem[at]) \in Nat
  <2>1. s.mem[at] \in Nat  BY <1>1 DEF Screens
  <2> QED  BY <2>1 DEF inverted
<1>3. /\ t.col = s.col /\ t.row = s.row /\ t.mem \in [Offsets -> Nat]
      /\ \A o \in Offsets : o # at => t.mem[o] = s.mem[o]
  BY <1>1, <1>2 DEF invert_cursor, Screens
<1>4. t \in Screens  BY <1>3 DEF Screens, invert_cursor
<1>5. CursorOffset(t) = CursorOffset(s)  BY <1>3 DEF CursorOffset
<1> QED  BY <1>3, <1>4, <1>5 DEF CleanElsewhere, Swapped

(* A clean screen is clean outside its cursor.                             *)
LEMMA CleanIsEnough ==
  ASSUME NEW s, Clean(s)
  PROVE  CleanElsewhere(s)
BY DEF Clean, CleanElsewhere

(* Scrolling leaves no swapped colours behind.                             *)
LEMMA ScrollKeeps ==
  ASSUME NEW s \in Screens, Clean(s)
  PROVE  scroll(s) \in Screens /\ Clean(scroll(s))
<1> DEFINE t == scroll(s)
<1>1. t.mem = [o \in Offsets |-> IF o + 2 * Cols \in Offsets THEN s.mem[o + 2 * Cols]
                                 ELSE IF o % 2 = 0 THEN Space ELSE current_color]
  BY DEF scroll, Screens
<1>2. t \in Screens  BY <1>1 DEF scroll, Screens, Space, current_color
<1>3. ASSUME NEW o \in Offsets  PROVE ~ Swapped(t, o)
  <2>1. o \in Nat /\ (o + 2 * Cols) % 2 = o % 2
    BY SizeAssumption DEF Offsets
  <2>2. CASE o + 2 * Cols \in Offsets
    <3>1. t.mem[o] = s.mem[o + 2 * Cols]  BY <1>1, <2>2
    <3>2. ~ Swapped(s, o + 2 * Cols)  BY <2>2 DEF Clean
    <3> QED  BY <2>1, <3>1, <3>2 DEF Swapped
  <2>3. CASE o + 2 * Cols \notin Offsets
    <3>1. t.mem[o] = IF o % 2 = 0 THEN Space ELSE current_color  BY <1>1, <2>3
    <3> QED  BY <3>1 DEF Swapped, current_color, inverted
  <2> QED  BY <2>2, <2>3
<1> QED  BY <1>2, <1>3 DEF Clean

(* Wherever on the screen the cursor goes, the cells stay as they are.     *)
LEMMA CursorMoves ==
  ASSUME NEW s \in Screens, Clean(s), NEW c \in 0 .. Cols - 1, NEW r \in 0 .. Rows - 1
  PROVE  /\ [s EXCEPT !.col = c, !.row = r] \in Screens
         /\ Clean([s EXCEPT !.col = c, !.row = r])
<1> DEFINE u == [s EXCEPT !.col = c]
           t == [u EXCEPT !.row = r]
<1>1. u \in Screens /\ u.mem = s.mem  BY DEF Screens
<1>2. t \in Screens /\ t.mem = u.mem  BY <1>1 DEF Screens
<1>3. Clean(t)  BY <1>1, <1>2 DEF Clean, Swapped
<1> QED  BY <1>2, <1>3

(* Nor does a new line, with or without scrolling.                         *)
LEMMA NewlineKeeps ==
  ASSUME NEW s \in Screens, Clean(s)
  PROVE  newline(s) \in Screens /\ Clean(newline(s))
<1>1. CASE s.row < Rows - 1
  <2>1. 0 \in 0 .. Cols - 1 /\ s.row + 1 \in 0 .. Rows - 1
    BY <1>1, SizeAssumption DEF Screens
  <2> QED  BY <1>1, <2>1, CursorMoves DEF newline
<1>2. CASE ~ s.row < Rows - 1
  <2> DEFINE t == [s EXCEPT !.col = 0]
  <2>1. t \in Screens /\ Clean(t)  BY SizeAssumption DEF Screens, Clean, Swapped
  <2>2. newline(s) = scroll(t)  BY <1>2 DEF newline
  <2> QED  BY <2>1, <2>2, ScrollKeeps
<1> QED  BY <1>1, <1>2

(* Nor does moving on by a cell.                                           *)
LEMMA AdvanceKeeps ==
  ASSUME NEW s \in Screens, Clean(s)
  PROVE  advance_cursor(s) \in Screens /\ Clean(advance_cursor(s))
<1>1. CASE s.col < Cols - 1
  <2> DEFINE t == [s EXCEPT !.col = @ + 1]
  <2>1. t \in Screens  BY <1>1, SizeAssumption DEF Screens
  <2>2. Clean(t)  BY DEF Screens, Clean, Swapped
  <2> QED  BY <1>1, <2>1, <2>2 DEF advance_cursor
<1>2. CASE ~ s.col < Cols - 1
  BY <1>2, NewlineKeeps DEF advance_cursor
<1> QED  BY <1>1, <1>2

(* Cells are blanked anywhere: an even offset loses its character, an odd  *)
(* one gets the code of a space as its colour, which is not the cursor's.  *)
LEMMA BlankKeeps ==
  ASSUME NEW s \in Screens, Clean(s), NEW offsets
  PROVE  Blank(s, offsets) \in Screens /\ Clean(Blank(s, offsets))
BY DEF Blank, Screens, Clean, Swapped, Space, inverted, current_color

(* Nor does moving the cursor away.                                        *)
LEMMA MoveKeeps ==
  ASSUME NEW s \in Screens, Clean(s), NEW dcol \in Int, NEW drow \in Int
  PROVE  /\ move_cursor_relative(s, dcol, drow) \in Screens
         /\ Clean(move_cursor_relative(s, dcol, drow))
<1>1. Clamp(s.col + dcol, Cols - 1) \in 0 .. Cols - 1
  BY SizeAssumption DEF Clamp, Screens
<1>2. Clamp(s.row + drow, Rows - 1) \in 0 .. Rows - 1
  BY SizeAssumption DEF Clamp, Screens
<1> QED  BY <1>1, <1>2, CursorMoves DEF move_cursor_relative

(* Nor does any command of an escape sequence.                             *)
LEMMA CommandKeeps ==
  ASSUME NEW s \in Screens, Clean(s), NEW b
  PROVE  Command(s, b) \in Screens /\ Clean(Command(s, b))
<1>1. CASE b \in {65, 66, 67, 68}
  <2>1. 0 \in Int /\ 1 \in Int /\ -1 \in Int  OBVIOUS
  <2> QED  BY <1>1, <2>1, MoveKeeps DEF Command
<1>2. CASE b \in {74, 75}
  BY <1>2, BlankKeeps DEF Command, clear_screen_to_end, clear_row_to_end
<1>3. CASE b \notin {65, 66, 67, 68, 74, 75}
  BY <1>3 DEF Command
<1> QED  BY <1>1, <1>2, <1>3

(* A printable byte overwrites the cell of the cursor, a new line restores *)
(* its colours; any other byte leaves the screen and the cursor alone.     *)
LEMMA WriteByteKeeps ==
  ASSUME NEW s \in Screens, CleanElsewhere(s), NEW b \in Bytes
  PROVE  write_byte(s, b) \in Screens /\ CleanElsewhere(write_byte(s, b))
<1>1. CASE b = NewLine
  <2>1. write_byte(s, b) = newline(disable_cursor(s))  BY <1>1 DEF write_byte
  <2> QED  BY <2>1, DisableCleans, NewlineKeeps, CleanIsEnough
<1>2. CASE b # NewLine /\ b \in 32 .. 126
  <2> DEFINE at == CursorOffset(s)
             t == [s EXCEPT !.mem[at] = glyph(b), !.mem[at + 1] = current_color]
  <2>1. at \in Offsets /\ at + 1 \in Offsets /\ at \in Nat /\ at % 2 = 0  BY CursorInBuffer
  <2>2. glyph(b) \in Nat /\ current_color \in Nat  BY DEF glyph, Space, current_color
  <2>3. /\ t \in Screens
        /\ t.mem[at + 1] = current_color
        /\ \A o \in Offsets : o \notin {at, at + 1} => t.mem[o] = s.mem[o]
    BY <2>1, <2>2 DEF Screens
  <2>4. ASSUME NEW o \in Offsets  PROVE ~ Swapped(t, o)
    <3>1. CASE o = at  BY <3>1, <2>1 DEF Swapped
    <3>2. CASE o = at + 1  BY <3>2, <2>3 DEF Swapped, inverted, current_color
    <3>3. CASE o \notin {at, at + 1}  BY <3>3, <2>3 DEF CleanElsewhere, Swapped
    <3> QED  BY <3>1, <3>2, <3>3
  <2>5. Clean(t)  BY <2>4 DEF Clean
  <2>6. write_byte(s, b) = advance_cursor(t)  BY <1>2 DEF write_byte
  <2> HIDE DEF t
  <2> QED  BY <2>3, <2>5, <2>6, AdvanceKeeps, CleanIsEnough
<1>3. CASE b # NewLine /\ b \notin 32 .. 126
  BY <1>3 DEF write_byte
<1> QED  BY <1>1, <1>2, <1>3

-----------------------------------------------------------------------------
(* The invariant holds at first.                                           *)
LEMMA InitEstablishes == Init => IInv
<1> SUFFICES ASSUME Init  PROVE IInv  OBVIOUS
<1>1. screen \in Screens
  BY SizeAssumption DEF Init, Screens, Space, current_color
<1>2. Clean(screen)
  BY DEF Init, Clean, Swapped, inverted, current_color
<1> QED  BY <1>1, <1>2, CleanIsEnough DEF IInv

(* Every byte keeps the invariant.                                         *)
LEMMA StepKeeps == IInv /\ [Next]_vars => IInv'
<1> SUFFICES ASSUME IInv, [Next]_vars
             PROVE  screen' \in Screens /\ CleanElsewhere(screen')
  BY DEF IInv, CleanElsewhere, Swapped, CursorOffset
<1>0. screen \in Screens /\ CleanElsewhere(screen)  BY DEF IInv
<1>1. CASE screen' = screen  BY <1>0, <1>1
<1>2. ASSUME NEW b \in Bytes, ReadyByte(b), screen' # screen
      PROVE  screen' \in Screens /\ CleanElsewhere(screen')
  <2>1. screen' = invert_cursor(write_byte(screen, b))  BY <1>2 DEF ReadyByte
  <2> QED  BY <1>0, <2>1, WriteByteKeeps, InvertDraws
<1>3. ASSUME NEW b \in Bytes, CSIByte(b)
      PROVE  screen' \in Screens /\ CleanElsewhere(screen')
  <2>1. screen' = invert_cursor(Command(disable_cursor(screen), b))  BY <1>3 DEF CSIByte
  <2> QED  BY <1>0, <2>1, DisableCleans, CommandKeeps, CleanIsEnough, InvertDraws
<1>4. ASSUME NEW b \in Bytes, EscapeByte(b)
      PROVE  screen' = screen
  BY <1>4 DEF EscapeByte
<1> QED  BY <1>1, <1>2, <1>3, <1>4 DEF Next, vars

(* On a screen of any size, whatever bytes a terminal is sent, what it     *)
(* draws and clears lies inside its text buffer (TextMode's writes through *)
(* raw pointers).                                                          *)
THEOREM DrawsInsideBuffer == Spec => []WritesInBounds
<1>1. IInv => WritesInBounds
  BY DrawnInBounds DEF IInv, WritesInBounds
<1> QED  BY <1>1, InitEstablishes, StepKeeps, PTL DEF Spec

(* On a screen of any size, whatever bytes a terminal is sent, no cell but *)
(* the one of the cursor is left with swapped colours (disable_cursor and  *)
(* invert_cursor around every change).                                     *)
THEOREM OneCursor == Spec => []NoGhostCursor
<1>1. IInv => NoGhostCursor
  BY DEF IInv, CleanElsewhere, Swapped, NoGhostCursor
<1> QED  BY <1>1, InitEstablishes, StepKeeps, PTL DEF Spec
=============================================================================
