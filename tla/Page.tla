-------------------------------- MODULE Page ---------------------------------
(***************************************************************************)
(* What a terminal promises: a sheet with one place after the other, of    *)
(* which the first Visible are shown, and a cursor.  A character is put at *)
(* the cursor, a new line moves it to the next row, a backspace blanks the *)
(* place before it and leaves it there.                                    *)
(***************************************************************************)
EXTENDS Integers, Sequences

CONSTANTS
  Width,       \* places in a row
  Visible,     \* places that are shown
  Places,      \* all places: after the last one comes the first
  Strings,     \* what is printed
  NewLine, Backspace, Blank

VARIABLES sheet, cursor

vars == <<sheet, cursor>>

Init ==
  /\ sheet = [p \in 0 .. Visible - 1 |-> Blank]
  /\ cursor = 0

Put(page, c) ==
  [sheet |-> [p \in 0 .. Visible - 1 |-> IF p = page.cursor THEN c ELSE page.sheet[p]],
   cursor |-> (page.cursor + 1) % Places]

Back(page) ==
  IF page.cursor = 0 THEN page
  ELSE [Put([page EXCEPT !.cursor = @ - 1], Blank) EXCEPT !.cursor = page.cursor - 1]

Char(page, c) ==
  CASE c = NewLine -> [page EXCEPT !.cursor = ((@ \div Width + 1) * Width) % Places]
    [] c = Backspace -> Back(page)
    [] OTHER -> Put(page, c)

Printed(s) ==
  LET after[k \in 0 .. Len(s)] ==
        IF k = 0 THEN [sheet |-> sheet, cursor |-> cursor] ELSE Char(after[k - 1], s[k])
  IN  /\ sheet' = after[Len(s)].sheet
      /\ cursor' = after[Len(s)].cursor

Next == \E s \in Strings : Printed(s)

Spec == Init /\ [][Next]_vars
==============================================================================
