------------------------------ MODULE Console ------------------------------
(***************************************************************************)
(* The text on the screen, graphics/vga_print.cpp without its sections:    *)
(* what each function makes of a screen.  Module Terminal uses them.       *)
(***************************************************************************)
EXTENDS Integers, Sequences, SequencesExt

CONSTANTS screen_width, font_width, \* in pixels
          screen_row_num

screen_col_num == screen_width \div font_width

Char == STRING
Newline == "\n"
Blank == " "

ASSUME ConsoleAssumption ==
  /\ {screen_width, font_width, screen_row_num} \subseteq Nat \ {0}
  /\ screen_col_num > 1
  /\ {Newline, Blank} \subseteq Char

\* A screen has its cells, the cursor, and how often the text has moved up since
\* the prompt (a history, which counts to screen_row_num).
Cell == (0..(screen_row_num - 1)) \X (0..(screen_col_num - 1))

\* The position of a cell in the order of the text.
Offset(p) == p[1] * screen_col_num + p[2]
Cursor(s) == <<s.row, s.col>>

\* A cell is the set of characters whose pixels it shows: draw_char sets pixels
\* and clears none.
Ink(c) == {c} \ {Blank}
-----------------------------------------------------------------------------
CanGoDown(s) == s.row < screen_row_num - 1

newline(s) ==
  IF CanGoDown(s) THEN [s EXCEPT !.row = @ + 1, !.col = 0]
  ELSE [s EXCEPT !.col = 0, !.up = IF @ = screen_row_num THEN @ ELSE @ + 1,
                 !.cells = [p \in Cell |-> IF p[1] + 1 < screen_row_num
                                           THEN s.cells[<<p[1] + 1, p[2]>>] ELSE {}]]

kputchar(s, c) ==
  LET drawn == [s EXCEPT !.cells = [p \in Cell |-> IF p = Cursor(s) THEN @[p] \cup Ink(c)
                                                   ELSE @[p]],
                         !.col = @ + 1]
  IN IF c = Newline THEN newline(s)
     ELSE IF drawn.col * font_width + font_width >= screen_width THEN newline(drawn)
     ELSE drawn

kputs(s, text) ==
  LET after[n \in 0..Len(text)] == IF n = 0 THEN s ELSE kputchar(after[n - 1], text[n])
  IN after[Len(text)]

\* Mutant: the first row, too, is cleared from its first column.
FromFirstColumn(col, row, len) == {p \in Cell : /\ Offset(<<row, 0>>) <= Offset(p)
                                                /\ Offset(p) < Offset(<<row, col>>) + len}

Region(col, row, len) == {p \in Cell : /\ Offset(<<row, col>>) <= Offset(p)
                                       /\ Offset(p) < Offset(<<row, col>>) + len}

clear_text_region(s, col, row, len) ==
  IF <<row, col>> \notin Cell THEN s
  ELSE [s EXCEPT !.cells = [p \in Cell |-> IF p \in Region(col, row, len) THEN {} ELSE @[p]]]

\* Mutant: the character is cleared where the cursor was.
EraseAtOldCursor(s, t) == clear_text_region(t, s.col, s.row, 1)

Erase(s, t) == clear_text_region(t, t.col, t.row, 1)

backspace(s) ==
  Erase(s, IF s.col = 0 THEN [s EXCEPT !.col = screen_col_num - 1, !.row = @ - 1]
                        ELSE [s EXCEPT !.col = @ - 1])

clear_screen(s) == [s EXCEPT !.cells = [p \in Cell |-> {}], !.col = 0, !.row = 0]

\* With update_pos: the cursor stays behind the text.
insert(s, col, row, text) ==
  IF <<row, col>> \notin Cell THEN s
  ELSE kputs([s EXCEPT !.col = col, !.row = row], text)

BlankScreen == [cells |-> [p \in Cell |-> {}], row |-> 0, col |-> 0, up |-> 0]
=============================================================================
