------------------------------ MODULE Terminal -------------------------------
(***************************************************************************)
(* The terminal of kernel.c: the row and the column of the next character  *)
(* and the cells of video memory, as operators from one state of the       *)
(* terminal to the next.  Each is called with interrupts off, so nothing   *)
(* comes between its steps.  The colour of a character is left out.        *)
(***************************************************************************)
EXTENDS Integers, SequencesExt

CONSTANTS
  Width, Height,   \* VGA_WIDTH and VGA_HEIGHT
  Word,            \* the number of values of terminal_row and terminal_col
  NewLine, Backspace, Blank

ASSUME TerminalAssumption ==
  /\ {Width, Height, Word} \subseteq Nat \ {0}
  /\ Word > Width * Height

Visible == Width * Height

(* The counters are unsigned words. *)
Plus(word, n) == (word + n) % Word

terminal_initialize ==
  [row |-> 0, col |-> 0, video_mem |-> [x \in 0 .. Visible - 1 |-> Blank]]

(* Nothing looks at the row: what is written below the last one goes to    *)
(* memory that is not shown. *)
terminal_putchar(t, c) ==
  LET index == t.row * Width + t.col
  IN  IF index < Visible THEN [t EXCEPT !.video_mem[index] = c] ELSE t

(* Fault: the row is begun one character late. *)
WrapLate(t) ==
  IF t.col > Width THEN [t EXCEPT !.row = Plus(@, 1), !.col = 0] ELSE t

WrapAtEnd(t) ==
  IF t.col >= Width THEN [t EXCEPT !.row = Plus(@, 1), !.col = 0] ELSE t

(* terminal_writechar of a character that is shown. *)
Write(t, c) == WrapAtEnd([terminal_putchar(t, c) EXCEPT !.col = Plus(@, 1)])

(* Fault: the column is not taken back after the space. *)
BackspaceKeepsSpace(t) ==
  IF t.row = 0 /\ t.col = 0 THEN t
  ELSE Write([t EXCEPT !.col = Plus(@, -1)], Blank)

(* At the start of a row the space goes to the last column of the row      *)
(* before; writing it wraps to the start of the next one, and 1 is taken   *)
(* from column 0. *)
terminal_backspace(t) ==
  LET back == IF t.col = 0 THEN [t EXCEPT !.row = Plus(@, -1), !.col = Width] ELSE t
  IN  IF t.row = 0 /\ t.col = 0 THEN t
      ELSE [Write([back EXCEPT !.col = Plus(@, -1)], Blank) EXCEPT !.col = Plus(@, -1)]

terminal_writechar(t, c) ==
  CASE c = NewLine -> [t EXCEPT !.row = Plus(@, 1), !.col = 0]
    [] c = Backspace -> terminal_backspace(t)
    [] OTHER -> Write(t, c)

print(t, str) ==
  LET after[k \in 0 .. Len(str)] ==
        IF k = 0 THEN t ELSE terminal_writechar(after[k - 1], str[k])
  IN  after[Len(str)]
==============================================================================
