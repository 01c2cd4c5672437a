----------------------------- MODULE ShellProof -----------------------------
(***************************************************************************)
(* The line editor stays in bounds, and the screen shows the line that     *)
(* Enter will execute: for every screen, every length of cmd_buffer, every *)
(* prompt and whatever commands print.                                     *)
(***************************************************************************)
EXTENDS Shell, SequenceTheorems, TLAPS

ScreenTyped ==
  /\ text \in [Cells -> Glyphs] /\ shown \in [Cells -> Glyphs]
  /\ x \in 0 .. Cols - 1 /\ y \in 0 .. Rows - 1

LineTyped == cmd \in Seq(Glyphs) /\ Len(cmd) <= MaxLine

LEMMA PromptPrintable == Prompt \in Seq(Printable)
BY PromptAssumption DEF Printable

LEMMA NextLineTyped ==
  ASSUME ScreenTyped, NEW t \in [Cells -> Glyphs], NEW flush \in BOOLEAN,
         NextLine(t, flush)
  PROVE  ScreenTyped'
<1>1. CASE y < Rows - 1 /\ y' = y + 1 /\ text' = t /\ shown' = IF flush THEN t ELSE shown
  BY <1>1, SizeAssumption DEF NextLine, ScreenTyped
<1>2. CASE /\ y = Rows - 1 /\ UNCHANGED y
           /\ text' = [p \in Cells |-> IF p[2] = Rows - 1 THEN Blank
                                       ELSE t[<<p[1], p[2] + 1>>]]
           /\ shown' = text'
  <2>1. \A p \in Cells : p[2] # Rows - 1 => <<p[1], p[2] + 1>> \in Cells
    BY SizeAssumption DEF Cells
  <2>2. text' \in [Cells -> Glyphs]
    BY <1>2, <2>1, BlankAssumption
  <2> QED BY <1>2, <2>2, SizeAssumption DEF NextLine, ScreenTyped
<1> QED BY <1>1, <1>2 DEF NextLine

\* A character at the cursor is a character on the screen.
LEMMA WriteTyped ==
  ASSUME ScreenTyped, NEW c \in Glyphs, Write(c)
  PROVE  ScreenTyped'
<1> DEFINE t == [text EXCEPT ![<<x, y>>] = c]
<1>1. t \in [Cells -> Glyphs]
  BY DEF ScreenTyped
<1>2. CASE x < Cols - 1 /\ x' = x + 1 /\ text' = t /\ UNCHANGED <<shown, y>>
  BY <1>1, <1>2, SizeAssumption DEF ScreenTyped
<1>3. CASE x = Cols - 1 /\ NextLine(t, FALSE)
  BY <1>1, <1>3, NextLineTyped
<1> QED BY <1>2, <1>3 DEF Write

LEMMA NewlineTyped == ScreenTyped /\ Newline => ScreenTyped'
BY NextLineTyped DEF Newline, ScreenTyped

LEMMA BackspaceTyped == ScreenTyped /\ Backspace => ScreenTyped'
BY SizeAssumption, BlankAssumption DEF Backspace, ScreenTyped, screen

LEMMA ClearedTyped == ScreenTyped /\ (Flush \/ Clear \/ Demo) => ScreenTyped'
BY SizeAssumption, BlankAssumption DEF Flush, Clear, Demo, Cleared, ScreenTyped

-----------------------------------------------------------------------------
(* The steps of the shell.                                                 *)

LEMMA TypedParts ==
  ShellTypeOK <=>
    /\ ScreenTyped /\ LineTyped
    /\ pc \in {"print", "read", "echo", "execute"} /\ out \in Seq(Printable)
BY DEF ShellTypeOK, ScreenTyped, LineTyped, Printable

LEMMA PrintTyped == ShellTypeOK /\ PrintChar => ShellTypeOK'
<1> SUFFICES ASSUME ShellTypeOK, PrintChar PROVE ShellTypeOK'
  OBVIOUS
<1>1. CASE out # <<>> /\ Output(Head(out)) /\ out' = Tail(out) /\ UNCHANGED pc
  <2>1. out' \in Seq(Printable) /\ Head(out) \in Printable
    BY <1>1, TypedParts DEF Printable
  <2>2. ScreenTyped'
    BY <1>1, <2>1, TypedParts, NewlineTyped, WriteTyped, ClearedTyped DEF Output
  <2> QED BY <1>1, <2>1, <2>2 DEF PrintChar, ShellTypeOK, ScreenTyped, Printable
<1>2. CASE out = <<>> /\ pc' = "read" /\ Flush /\ UNCHANGED out
  BY <1>2, TypedParts, ClearedTyped DEF PrintChar, ShellTypeOK, ScreenTyped
<1> QED BY <1>1, <1>2 DEF PrintChar

\* A character is taken only while there is room for it.
LEMMA TypeTyped ==
  ASSUME ShellTypeOK, NEW c \in Glyphs, Type(c)
  PROVE  ShellTypeOK'
<1>1. cmd' \in Seq(Glyphs) /\ Len(cmd') = Len(cmd) + 1 /\ Len(cmd) < MaxLine
  BY DEF Type, ShellTypeOK
<1>2. ScreenTyped'
  BY TypedParts, WriteTyped DEF Type
<1> QED BY <1>1, <1>2, LineAssumption DEF Type, ShellTypeOK, ScreenTyped

\* Only what was typed can be erased.
LEMMA EraseTyped == ShellTypeOK /\ Erase => ShellTypeOK'
<1> SUFFICES ASSUME ShellTypeOK, Erase PROVE ShellTypeOK'
  OBVIOUS
<1>1. cmd' \in Seq(Glyphs) /\ Len(cmd') = Len(cmd) - 1
  <2> DEFINE n == Len(cmd)
  <2>1. cmd \in Seq(Glyphs) /\ n \in Nat /\ n > 0 /\ \A i \in 1 .. n : cmd[i] \in Glyphs
    BY DEF Erase, ShellTypeOK
  <2>2. cmd' = SubSeq(cmd, 1, n - 1)
    BY DEF Erase
  <2>3. n - 1 \in Int /\ \A i \in 1 .. n - 1 : cmd[i] \in Glyphs
    BY <2>1
  <2> HIDE DEF n
  <2>4. /\ SubSeq(cmd, 1, n - 1) \in Seq(Glyphs)
        /\ Len(SubSeq(cmd, 1, n - 1)) = IF 1 <= n - 1 THEN (n - 1) - 1 + 1 ELSE 0
    BY <2>3, SubSeqProperties
  <2>5. (IF 1 <= n - 1 THEN (n - 1) - 1 + 1 ELSE 0) = n - 1
    BY <2>1
  <2>6. cmd' \in Seq(Glyphs) /\ Len(cmd') = n - 1
    BY <2>2, <2>4, <2>5, Zenon
  <2> QED BY <2>6 DEF n
<1>2. ScreenTyped'
  BY TypedParts, BackspaceTyped DEF Erase
<1> QED BY <1>1, <1>2, LineAssumption DEF Erase, ShellTypeOK, ScreenTyped

LEMMA ExecuteTyped == ShellTypeOK /\ Execute => ShellTypeOK'
<1> SUFFICES ASSUME ShellTypeOK, Execute PROVE ShellTypeOK'
  OBVIOUS
<1>1. out' \in Seq(Printable)
  <2>1. CASE \E o \in Outputs : out' = o \o Prompt
    BY <2>1, OutputsAssumption, PromptPrintable DEF Printable
  <2>2. CASE out' = Prompt
    BY <2>2, PromptPrintable
  <2> QED BY <2>1, <2>2 DEF Execute
<1>2. ScreenTyped'
  <2>1. CASE UNCHANGED screen
    BY <2>1, TypedParts DEF screen, ScreenTyped
  <2>2. CASE Clear
    BY <2>2, TypedParts, ClearedTyped
  <2> QED BY <2>1, <2>2 DEF Execute
<1>3. LineTyped'
  BY LineAssumption DEF Execute, LineTyped
<1> QED BY <1>1, <1>2, <1>3 DEF Execute, ShellTypeOK, ScreenTyped, LineTyped, Printable

\* cmd_pos never passes the end of cmd_buffer, and the cursor of the echo never
\* leaves the screen, whatever is typed and printed.
THEOREM LineStaysInBuffer == ShellSpec => []ShellTypeOK
<1>1. ShellInit => ShellTypeOK
  BY SizeAssumption, BlankAssumption, LineAssumption, PromptPrintable
     DEF ShellInit, Init, Cleared, ShellTypeOK, Printable
<1>2. ShellTypeOK /\ [ShellNext]_vars => ShellTypeOK'
  <2> SUFFICES ASSUME ShellTypeOK, [ShellNext]_vars PROVE ShellTypeOK'
    OBVIOUS
  <2>1. CASE PrintChar
    BY <2>1, PrintTyped
  <2>2. CASE Erase
    BY <2>2, EraseTyped
  <2>3. CASE Echo
    BY <2>3, TypedParts, ClearedTyped DEF Echo, ShellTypeOK, ScreenTyped
  <2>4. CASE Enter
    BY <2>4, TypedParts, NewlineTyped DEF Enter, ShellTypeOK, ScreenTyped
  <2>5. CASE Execute
    BY <2>5, ExecuteTyped
  <2>6. ASSUME NEW c \in Glyphs, Type(c) PROVE ShellTypeOK'
    BY <2>6, TypeTyped
  <2>7. CASE UNCHANGED vars
    BY <2>7 DEF vars, ShellTypeOK
  <2> QED BY <2>1, <2>2, <2>3, <2>4, <2>5, <2>6, <2>7 DEF ShellNext
<1> QED BY <1>1, <1>2, PTL DEF ShellSpec

-----------------------------------------------------------------------------
(* What is seen is what runs.  Counted backwards from the cursor, row by     *)
(* row, the text is the prompt and the line.  It stays so although printing  *)
(* wraps and scrolls, because both move the cursor and the text together.    *)

LEMMA PlaceIsInt == \A p \in Cells : Place(p) \in Nat /\ Place(p) < Rows * Cols
<1> TAKE p \in Cells
<1>1. /\ p[1] \in Nat /\ p[1] <= Cols - 1 /\ p[2] \in Nat /\ p[2] <= Rows - 1
      /\ Cols \in Nat \ {0} /\ Rows \in Nat \ {0}
  BY SizeAssumption DEF Cells
<1>2. p[2] * Cols <= (Rows - 1) * Cols /\ p[2] * Cols \in Nat
  BY <1>1
<1>3. (Rows - 1) * Cols = Rows * Cols - Cols
  BY <1>1
<1>4. Rows * Cols \in Nat
  BY <1>1
<1> QED BY <1>1, <1>2, <1>3, <1>4 DEF Place

\* No two cells have the same place, and a cell of an earlier line comes first.
LEMMA RowsApart ==
  ASSUME NEW p \in Cells, NEW q \in Cells, p[2] < q[2]
  PROVE  Place(p) < q[2] * Cols /\ Place(p) < Place(q)
<1>1. /\ p[1] \in Nat /\ p[1] <= Cols - 1 /\ p[2] \in Nat /\ q[1] \in Nat /\ q[2] \in Nat
      /\ Cols \in Nat \ {0} /\ p[2] + 1 <= q[2]
  BY SizeAssumption DEF Cells
<1>2. (p[2] + 1) * Cols <= q[2] * Cols
  BY <1>1
<1>3. (p[2] + 1) * Cols = p[2] * Cols + Cols
  BY <1>1
<1>4. p[2] * Cols \in Nat /\ q[2] * Cols \in Nat
  BY <1>1
<1> QED BY <1>1, <1>2, <1>3, <1>4 DEF Place

LEMMA PlacesDiffer ==
  ASSUME NEW p \in Cells, NEW q \in Cells, Place(p) = Place(q)
  PROVE  p = q
<1>1. p[2] = q[2]
  <2>1. p[2] \in Int /\ q[2] \in Int
    BY DEF Cells
  <2>2. Place(p) \in Int /\ Place(q) \in Int
    BY PlaceIsInt
  <2>3. ~ (p[2] < q[2]) /\ ~ (q[2] < p[2])
    BY <2>2, RowsApart
  <2> QED BY <2>1, <2>3
<1>2. p[1] = q[1]
  <2>1. p[1] \in Int /\ q[1] \in Int /\ q[2] * Cols \in Int
    BY SizeAssumption DEF Cells
  <2> QED BY <1>1, <2>1 DEF Place
<1>3. p = <<p[1], p[2]>> /\ q = <<q[1], q[2]>>
  BY DEF Cells
<1> QED BY <1>1, <1>2, <1>3

\* The n characters before the cursor <<a, b>> are l[1], ..., l[n], as far as they
\* are still on the screen.
Behind(t, a, b, l, n) ==
  \A i \in 1 .. n, p \in Cells :
    Place(p) + i = Place(<<a, b>>) => t[p] = l[n + 1 - i]

\* Wherever a character goes, what is before the cursor then is that character
\* and what was before it until now.
LEMMA WriteMovesOn ==
  ASSUME ScreenTyped, NEW c \in Glyphs, Write(c),
         NEW i \in Nat \ {0}, NEW p \in Cells, Place(p) + i = Place(<<x', y'>>)
  PROVE  \E q \in Cells : /\ Place(q) + (i - 1) = Place(<<x, y>>)
                          /\ text'[p] = [text EXCEPT ![<<x, y>>] = c][q]
<1> DEFINE t == [text EXCEPT ![<<x, y>>] = c]
<1>1. /\ x \in 0 .. Cols - 1 /\ y \in 0 .. Rows - 1
      /\ Cols \in Nat \ {0} /\ Rows \in Nat \ {0} /\ Place(p) \in Nat
      /\ p[1] \in 0 .. Cols - 1 /\ p[2] \in 0 .. Rows - 1 /\ p = <<p[1], p[2]>>
  BY SizeAssumption, PlaceIsInt DEF ScreenTyped, Cells
<1>2. CASE x < Cols - 1 /\ x' = x + 1 /\ text' = t /\ UNCHANGED <<shown, y>>
  <2>1. Place(<<x', y'>>) = y * Cols + (x + 1) /\ Place(<<x, y>>) = y * Cols + x
    BY <1>2 DEF Place
  <2>2. y * Cols \in Int
    BY <1>1
  <2>3. Place(p) + (i - 1) = Place(<<x, y>>)
    BY <1>1, <2>1, <2>2
  <2> QED BY <1>2, <2>3
<1>3. CASE x = Cols - 1 /\ y < Rows - 1 /\ x' = 0 /\ y' = y + 1 /\ text' = t
  <2>1. Place(<<x', y'>>) = (y + 1) * Cols + 0 /\ Place(<<x, y>>) = y * Cols + (Cols - 1)
    BY <1>3 DEF Place
  <2>2. y * Cols \in Int /\ (y + 1) * Cols = y * Cols + Cols
    BY <1>1
  <2>3. Place(p) + (i - 1) = Place(<<x, y>>)
    BY <1>1, <2>1, <2>2
  <2> QED BY <1>3, <2>3
<1>4. CASE /\ x = Cols - 1 /\ y = Rows - 1 /\ x' = 0 /\ y' = y
           /\ text' = [q \in Cells |-> IF q[2] = Rows - 1 THEN Blank
                                       ELSE t[<<q[1], q[2] + 1>>]]
  <2> DEFINE q == <<p[1], p[2] + 1>>
  <2>1. Place(<<x', y'>>) = (Rows - 1) * Cols + 0
        /\ Place(<<x, y>>) = (Rows - 1) * Cols + (Cols - 1)
    BY <1>4 DEF Place
  <2>2. p[2] # Rows - 1
    <3>1. p[2] = Rows - 1 => Place(p) = (Rows - 1) * Cols + p[1]
      BY DEF Place
    <3>2. (Rows - 1) * Cols \in Int
      BY <1>1
    <3> QED BY <1>1, <2>1, <3>1, <3>2
  <2>3. q \in Cells
    BY <1>1, <2>2 DEF Cells
  <2>4. Place(q) = (p[2] + 1) * Cols + p[1] /\ Place(p) = p[2] * Cols + p[1]
    BY DEF Place
  <2>5. (p[2] + 1) * Cols = p[2] * Cols + Cols /\ p[2] * Cols \in Int
        /\ (Rows - 1) * Cols \in Int
    BY <1>1
  <2>6. Place(q) + (i - 1) = Place(<<x, y>>)
    BY <1>1, <2>1, <2>4, <2>5
  <2>7. text'[p] = t[q]
    BY <1>4, <2>2
  <2> QED BY <2>3, <2>6, <2>7
<1>5. \/ x < Cols - 1 /\ x' = x + 1 /\ text' = t /\ UNCHANGED <<shown, y>>
      \/ x = Cols - 1 /\ y < Rows - 1 /\ x' = 0 /\ y' = y + 1 /\ text' = t
      \/ /\ x = Cols - 1 /\ y = Rows - 1 /\ x' = 0 /\ y' = y
         /\ text' = [q \in Cells |-> IF q[2] = Rows - 1 THEN Blank
                                     ELSE t[<<q[1], q[2] + 1>>]]
  BY Zenon DEF Write, NextLine
<1> QED BY <1>2, <1>3, <1>4, <1>5

LEMMA WriteExtends ==
  ASSUME ScreenTyped, NEW c \in Glyphs, Write(c),
         NEW l, NEW n \in Nat, Behind(text, x, y, l, n),
         NEW l2, \A k \in 1 .. n : l2[k] = l[k], l2[n + 1] = c
  PROVE  Behind(text', x', y', l2, n + 1)
<1> SUFFICES ASSUME NEW i \in 1 .. n + 1, NEW p \in Cells,
                    Place(p) + i = Place(<<x', y'>>)
             PROVE  text'[p] = l2[(n + 1) + 1 - i]
  BY DEF Behind
<1>1. PICK q \in Cells : /\ Place(q) + (i - 1) = Place(<<x, y>>)
                         /\ text'[p] = [text EXCEPT ![<<x, y>>] = c][q]
  BY WriteMovesOn
<1>2. <<x, y>> \in Cells /\ text \in [Cells -> Glyphs]
  BY DEF ScreenTyped, Cells
<1>3. Place(q) \in Int
  BY PlaceIsInt
<1>4. CASE i = 1
  <2>1. q = <<x, y>>
    BY <1>1, <1>2, <1>3, <1>4, PlacesDiffer
  <2>2. (n + 1) + 1 - i = n + 1
    BY <1>4
  <2> QED BY <1>1, <1>2, <2>1, <2>2
<1>5. CASE i # 1
  <2>1. i - 1 \in 1 .. n /\ (n + 1) + 1 - i = n + 1 - (i - 1) /\ n + 1 - (i - 1) \in 1 .. n
    BY <1>5
  <2>2. q # <<x, y>>
    BY <1>1, <1>3, <2>1
  <2>3. text'[p] = text[q]
    BY <1>1, <1>2, <2>2
  <2>4. text[q] = l[n + 1 - (i - 1)]
    BY <1>1, <2>1 DEF Behind
  <2> QED BY <2>1, <2>3, <2>4
<1> QED BY <1>4, <1>5

\* Erasing within a line of the screen takes back the last character.
LEMMA BackspaceTakesBack ==
  ASSUME ScreenTyped, Backspace, x > 0,
         NEW l, NEW n \in Nat \ {0}, Behind(text, x, y, l, n),
         NEW l2, \A k \in 1 .. n - 1 : l2[k] = l[k]
  PROVE  Behind(text', x', y', l2, n - 1)
<1> SUFFICES ASSUME NEW i \in 1 .. n - 1, NEW p \in Cells,
                    Place(p) + i = Place(<<x', y'>>)
             PROVE  text'[p] = l2[(n - 1) + 1 - i]
  BY DEF Behind
<1>1. /\ x' = x - 1 /\ y' = y /\ text' = [text EXCEPT ![<<x - 1, y>>] = Blank]
      /\ x \in Int /\ y * Cols \in Int /\ Place(p) \in Int
      /\ text \in [Cells -> Glyphs]
  BY SizeAssumption, PlaceIsInt DEF Backspace, ScreenTyped
<1>2. Place(<<x - 1, y>>) = y * Cols + (x - 1) /\ Place(<<x, y>>) = y * Cols + x
  BY DEF Place
<1>3. Place(p) + i = Place(<<x - 1, y>>)
  BY <1>1
<1>4. p # <<x - 1, y>>
  BY <1>1, <1>3
<1>5. text'[p] = text[p]
  BY <1>1, <1>4
<1>6. i + 1 \in 1 .. n /\ Place(p) + (i + 1) = Place(<<x, y>>)
  BY <1>1, <1>2, <1>3
<1>7. text[p] = l[n + 1 - (i + 1)]
  BY <1>6 DEF Behind
<1>8. n + 1 - (i + 1) \in 1 .. n - 1 /\ (n - 1) + 1 - i = n + 1 - (i + 1)
  BY <1>6
<1> QED BY <1>5, <1>7, <1>8

Line == Prompt \o cmd

\* What is still to be printed ends in the prompt, and what has been printed of
\* the prompt is before the cursor.
EndsInPrompt ==
  \A j \in 1 .. Len(out) :
    j <= Len(Prompt) => out[Len(out) + 1 - j] = Prompt[Len(Prompt) + 1 - j]

PromptBehind ==
  Len(out) <= Len(Prompt) => Behind(text, x, y, Prompt, Len(Prompt) - Len(out))

\* The inductive invariant: the screen mirrors the line between any two steps.
EchoInv ==
  /\ ShellTypeOK
  /\ pc = "print" => cmd = <<>> /\ EndsInPrompt /\ PromptBehind
  /\ pc \in {"read", "echo"} => Behind(text, x, y, Line, Len(Line))
  /\ pc = "read" => shown = text

LEMMA LineIsSeq == ShellTypeOK => Line \in Seq(Glyphs) /\ Len(Line) = Len(Prompt) + Len(cmd)
BY PromptAssumption DEF Line, ShellTypeOK

LEMMA PromptLength == Len(Prompt) \in Nat /\ \A k \in 1 .. Len(Prompt) : Prompt[k] \in Glyphs
BY PromptAssumption

LEMMA EchoImplies == EchoInv => EchoMirrorsLine
<1> SUFFICES ASSUME EchoInv, pc = "read", NEW i \in 1 .. Len(Line), NEW p \in Cells,
                    Place(p) + i = Place(<<x, y>>)
             PROVE  text[p] = Line[Len(Line) + 1 - i] /\ shown[p] = text[p]
  BY Zenon DEF EchoMirrorsLine, Line
<1> QED BY DEF EchoInv, Behind

\* One character of the prompt, or of the text before it.
LEMMA PrintKeepsEcho == EchoInv /\ PrintChar /\ ShellTypeOK' => EchoInv'
<1> SUFFICES ASSUME EchoInv, PrintChar, ShellTypeOK' PROVE EchoInv'
  OBVIOUS
<1> DEFINE m == Len(Prompt)
           n == Len(out)
<1>1. /\ pc = "print" /\ cmd = <<>> /\ cmd' = <<>> /\ EndsInPrompt /\ PromptBehind
      /\ ScreenTyped /\ out \in Seq(Printable) /\ m \in Nat /\ n \in Nat
  BY TypedParts, PromptLength DEF PrintChar, EchoInv, Printable
<1>2. CASE out # <<>> /\ Output(Head(out)) /\ out' = Tail(out) /\ UNCHANGED pc
  <2>1. n > 0 /\ Len(out') = n - 1 /\ (\A k \in 1 .. n - 1 : out'[k] = out[k + 1])
        /\ Head(out) = out[1] /\ Head(out) \in Printable
    BY <1>1, <1>2 DEF Printable
  <2>2. EndsInPrompt'
    <3> SUFFICES ASSUME NEW j \in 1 .. Len(out'), j <= m
                 PROVE  out'[Len(out') + 1 - j] = Prompt[m + 1 - j]
      BY DEF EndsInPrompt
    <3>1. (n - 1) + 1 - j \in 1 .. n - 1 /\ j \in 1 .. n /\ (n - 1) + 1 - j + 1 = n + 1 - j
      BY <2>1, <1>1
    <3> QED BY <3>1, <2>1, <1>1 DEF EndsInPrompt
  <2>3. PromptBehind'
    <3> SUFFICES ASSUME n - 1 <= m
                 PROVE  Behind(text', x', y', Prompt, m - (n - 1))
      BY <2>1 DEF PromptBehind
    <3>1. CASE n = m + 1
      BY <3>1, <1>1 DEF Behind
    <3>2. CASE n <= m
      <4>1. Head(out) = Prompt[m + 1 - n] /\ m + 1 - n \in 1 .. m
        BY <3>2, <1>1, <2>1 DEF EndsInPrompt
      <4>2. Head(out) \in Glyphs
        BY <4>1, PromptLength
      <4>3. Write(Head(out))
        BY <1>2, <4>2, GlyphsAssumption DEF Output
      <4>4. Behind(text, x, y, Prompt, m - n) /\ m - n \in Nat /\ Head(out) = Prompt[(m - n) + 1]
        BY <3>2, <1>1, <4>1 DEF PromptBehind
      <4>5. Behind(text', x', y', Prompt, (m - n) + 1)
        BY <1>1, <4>2, <4>3, <4>4, WriteExtends
      <4>6. (m - n) + 1 = m - (n - 1)
        BY <1>1
      <4> QED BY <4>5, <4>6
    <3> QED BY <1>1, <2>1, <3>1, <3>2
  <2> QED BY <1>1, <1>2, <2>2, <2>3 DEF EchoInv
<1>3. CASE out = <<>> /\ pc' = "read" /\ Flush /\ UNCHANGED out
  <2>1. Behind(text, x, y, Prompt, m)
    BY <1>1, <1>3 DEF PromptBehind
  <2>2. Line' = Prompt
    BY <1>1, PromptAssumption DEF Line
  <2>3. Behind(text', x', y', Line', Len(Line'))
    BY <1>3, <2>1, <2>2 DEF Flush
  <2> QED BY <1>3, <2>3 DEF EchoInv, Flush
<1> QED BY <1>2, <1>3 DEF PrintChar

LEMMA TypeKeepsEcho ==
  ASSUME EchoInv, NEW c \in Glyphs, Type(c), ShellTypeOK'
  PROVE  EchoInv'
<1> DEFINE n == Len(Line)
<1>1. /\ Behind(text, x, y, Line, n) /\ ScreenTyped /\ Write(c) /\ pc' = "echo"
      /\ cmd' = Append(cmd, c) /\ Line \in Seq(Glyphs) /\ n \in Nat
  BY LineIsSeq, TypedParts DEF EchoInv, Type
<1>2. Line' = Append(Line, c)
  BY <1>1, PromptAssumption DEF Line, EchoInv, ShellTypeOK
<1>3. Len(Line') = n + 1 /\ Line'[n + 1] = c /\ \A k \in 1 .. n : Line'[k] = Line[k]
  BY <1>1, <1>2
<1> HIDE DEF n
<1>4. Behind(text', x', y', Line', n + 1)
  BY <1>1, <1>3, WriteExtends
<1> QED BY <1>1, <1>3, <1>4 DEF EchoInv

LEMMA EraseKeepsEcho == EchoInv /\ Erase /\ x > 0 /\ ShellTypeOK' => EchoInv'
<1> SUFFICES ASSUME EchoInv, Erase, x > 0, ShellTypeOK' PROVE EchoInv'
  OBVIOUS
<1> DEFINE n == Len(Line)
           k == Len(cmd)
           m == Len(Prompt)
<1>1. /\ Behind(text, x, y, Line, n) /\ ScreenTyped /\ Backspace /\ pc' = "echo"
      /\ cmd' = SubSeq(cmd, 1, k - 1) /\ cmd \in Seq(Glyphs) /\ k \in Nat /\ k > 0
      /\ m \in Nat /\ n = m + k /\ Prompt \in Seq(Glyphs)
  BY LineIsSeq, TypedParts, PromptAssumption DEF EchoInv, Erase, LineTyped
<1>2. cmd' \in Seq(Glyphs) /\ Len(cmd') = k - 1 /\ \A i \in 1 .. k - 1 : cmd'[i] = cmd[i]
  <2>1. \A i \in 1 .. k - 1 : cmd[i] \in Glyphs
    BY <1>1
  <2>2. k \in Nat /\ k > 0
    BY <1>1
  <2> HIDE DEF k
  <2>3. k - 1 \in Int /\ k - 1 = IF 1 <= k - 1 THEN (k - 1) - 1 + 1 ELSE 0
    BY <2>2
  <2>4. /\ SubSeq(cmd, 1, k - 1) \in Seq(Glyphs)
        /\ Len(SubSeq(cmd, 1, k - 1)) = IF 1 <= k - 1 THEN (k - 1) - 1 + 1 ELSE 0
        /\ \A i \in 1 .. (k - 1) - 1 + 1 : SubSeq(cmd, 1, k - 1)[i] = cmd[1 + i - 1]
    BY <2>1, <2>3, SubSeqProperties
  <2>5. \A i \in 1 .. k - 1 : SubSeq(cmd, 1, k - 1)[i] = cmd[i]
    BY <2>3, <2>4
  <2> QED BY <1>1, <2>3, <2>4, <2>5
<1> HIDE DEF n, k, m
<1>3. Len(Line') = n - 1 /\ \A i \in 1 .. n - 1 : Line'[i] = Line[i]
  BY <1>1, <1>2 DEF Line, m, k
<1>4. n \in Nat \ {0}
  BY <1>1
<1>5. Behind(text', x', y', Line', n - 1)
  BY <1>1, <1>3, <1>4, BackspaceTakesBack
<1> QED BY <1>1, <1>3, <1>5 DEF EchoInv

\* The prompt follows whatever a command printed.
LEMMA ExecuteStartsEcho == EchoInv /\ Execute /\ ShellTypeOK' => EchoInv'
<1> SUFFICES ASSUME EchoInv, Execute, ShellTypeOK' PROVE EchoInv'
  OBVIOUS
<1>1. pc' = "print" /\ cmd' = <<>> /\ Len(Prompt) \in Nat
  BY PromptLength DEF Execute
<1>2. ASSUME NEW o \in Outputs, out' = o \o Prompt PROVE EndsInPrompt' /\ PromptBehind'
  <2>1. /\ o \in Seq(Printable) /\ Prompt \in Seq(Printable)
        /\ Len(o) \in Nat
    BY OutputsAssumption, PromptPrintable
  <2>2. Len(out') = Len(o) + Len(Prompt)
        /\ \A i \in Len(o) + 1 .. Len(out') : out'[i] = Prompt[i - Len(o)]
    BY <1>2, <2>1
  <2>3. EndsInPrompt'
    <3> SUFFICES ASSUME NEW j \in 1 .. Len(out'), j <= Len(Prompt)
                 PROVE  out'[Len(out') + 1 - j] = Prompt[Len(Prompt) + 1 - j]
      BY DEF EndsInPrompt
    <3>1. Len(out') + 1 - j \in Len(o) + 1 .. Len(out')
          /\ Len(out') + 1 - j - Len(o) = Len(Prompt) + 1 - j
      BY <1>1, <2>1, <2>2
    <3> QED BY <2>2, <3>1
  <2>4. PromptBehind'
    <3> SUFFICES ASSUME Len(out') <= Len(Prompt)
                 PROVE  Behind(text', x', y', Prompt, Len(Prompt) - Len(out'))
      BY DEF PromptBehind
    <3>1. Len(Prompt) - Len(out') = 0
      BY <1>1, <2>1, <2>2
    <3> QED BY <3>1 DEF Behind
  <2> QED BY <2>3, <2>4
<1>3. CASE out' = Prompt
  <2>1. EndsInPrompt'
    BY <1>3 DEF EndsInPrompt
  <2>2. PromptBehind'
    BY <1>1, <1>3 DEF PromptBehind, Behind
  <2> QED BY <1>1, <2>1, <2>2 DEF EchoInv
<1> QED BY <1>1, <1>2, <1>3 DEF Execute, EchoInv

\* What the user sees is what Enter executes, on every screen and for every
\* prompt: typing, wrapping and scrolling move the text and the cursor together,
\* and erasing takes back one character of both, as long as it stays in its line.
THEOREM SeenIsRun == WithinLineSpec => []EchoMirrorsLine
<1>1. ShellInit => EchoInv
  <2> SUFFICES ASSUME ShellInit PROVE EchoInv
    OBVIOUS
  <2>1. ShellTypeOK
    BY SizeAssumption, BlankAssumption, LineAssumption, PromptPrintable
       DEF ShellInit, Init, Cleared, ShellTypeOK, Printable
  <2>2. EndsInPrompt /\ PromptBehind
    BY PromptLength DEF ShellInit, EndsInPrompt, PromptBehind, Behind
  <2> QED BY <2>1, <2>2 DEF EchoInv, ShellInit
<1>2. EchoInv /\ ShellTypeOK' /\ [ShellNext /\ WithinLine]_vars => EchoInv'
  <2> SUFFICES ASSUME EchoInv, ShellTypeOK', [ShellNext /\ WithinLine]_vars
               PROVE  EchoInv'
    OBVIOUS
  <2>1. CASE PrintChar
    BY <2>1, PrintKeepsEcho
  <2>2. CASE Erase /\ x > 0
    BY <2>2, EraseKeepsEcho
  <2>3. CASE Echo
    BY <2>3 DEF Echo, Flush, EchoInv, Line
  <2>4. CASE Enter
    BY <2>4 DEF Enter, EchoInv
  <2>5. CASE Execute
    BY <2>5, ExecuteStartsEcho
  <2>6. ASSUME NEW c \in Glyphs, Type(c) PROVE EchoInv'
    BY <2>6, TypeKeepsEcho
  <2>7. CASE UNCHANGED vars
    BY <2>7 DEF vars, EchoInv, EndsInPrompt, PromptBehind, Line, Behind, ShellTypeOK
  <2> QED BY <2>1, <2>2, <2>3, <2>4, <2>5, <2>6, <2>7 DEF ShellNext, WithinLine
<1>3. WithinLineSpec => ShellSpec
  <2>1. [ShellNext /\ WithinLine]_vars => [ShellNext]_vars
    OBVIOUS
  <2> QED BY <2>1, PTL DEF WithinLineSpec, ShellSpec
<1> QED BY <1>1, <1>2, <1>3, EchoImplies, LineStaysInBuffer, PTL DEF WithinLineSpec

=============================================================================
