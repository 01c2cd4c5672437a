----------------------------- MODULE TextScreen -----------------------------
(***************************************************************************)
(* What the framebuffer console promises its callers: a screen of Rows     *)
(* lines of Cols characters with a cursor.  text is what has been written, *)
(* shown what the user sees of it since the last flush.                    *)
(***************************************************************************)
EXTENDS Integers

CONSTANTS Cols, Rows, TabStop, Glyphs, Blank

ASSUME SizeAssumption == Cols \in Nat \ {0} /\ Rows \in Nat \ {0}
ASSUME BlankAssumption == Blank \in Glyphs

VARIABLES text, shown, x, y

screen == <<text, shown, x, y>>

Cells == (0 .. Cols - 1) \X (0 .. Rows - 1)
Cleared == [p \in Cells |-> Blank]

\* The cursor goes to the start of the next line, once the text written is t.
\* Below the last line the text moves up, and what is written is shown.
NextLine(t, flush) ==
  /\ x' = 0
  /\ \/ /\ y < Rows - 1 /\ y' = y + 1 /\ text' = t
        /\ shown' = IF flush THEN t ELSE shown
     \/ /\ y = Rows - 1 /\ UNCHANGED y
        /\ text' = [p \in Cells |-> IF p[2] = Rows - 1 THEN Blank
                                    ELSE t[<<p[1], p[2] + 1>>]]
        /\ shown' = text'

Init == text = Cleared /\ shown = Cleared /\ x = 0 /\ y = 0

Newline == NextLine(text, TRUE)

Return == x' = 0 /\ UNCHANGED <<text, shown, y>>

Tab ==
  LET stop == (x \div TabStop + 1) * TabStop
  IN  \/ stop < Cols /\ x' = stop /\ UNCHANGED <<text, shown, y>>
      \/ stop >= Cols /\ NextLine(text, FALSE)

\* The character before the cursor is erased; at the start of a line there is
\* none, and nothing happens.
Backspace ==
  \/ /\ x > 0 /\ x' = x - 1 /\ text' = [text EXCEPT ![<<x - 1, y>>] = Blank]
     /\ UNCHANGED <<shown, y>>
  \/ x = 0 /\ UNCHANGED screen

Write(c) ==
  LET t == [text EXCEPT ![<<x, y>>] = c]
  IN  \/ x < Cols - 1 /\ x' = x + 1 /\ text' = t /\ UNCHANGED <<shown, y>>
      \/ x = Cols - 1 /\ NextLine(t, FALSE)

Flush == shown' = text /\ UNCHANGED <<text, x, y>>

Clear == text' = Cleared /\ shown' = Cleared /\ x' = 0 /\ y' = 0

\* The demo draws over the text and leaves an empty screen and the cursor.
Demo == text' = Cleared /\ shown' = Cleared /\ UNCHANGED <<x, y>>

Next ==
  \/ Newline \/ Return \/ Tab \/ Backspace \/ Flush \/ Clear \/ Demo
  \/ \E c \in Glyphs : Write(c)

ScreenSpec == Init /\ [][Next]_screen

=============================================================================
