---------------------------- MODULE ConsoleProof ----------------------------
(***************************************************************************)
(* Proofs about the console, for every size of the screen and of a         *)
(* character: the cursor stays on the screen, and what is painted is a     *)
(* screen of text.                                                         *)
(***************************************************************************)
EXTENDS Console, GraphicsProof

LEMMA RowsPositive == Rows \in Nat \ {0} /\ Cols \in Nat \ {0}
BY SizeAssumption, CellAssumption DEF Rows, Cols

\* Going down one line keeps the cursor on the screen, wherever it was in its
\* line: also past the end, where fb_putchar() leaves it for a moment.
LEMMA DownStays ==
  ASSUME NEW g, NEW col, NEW line \in 0 .. Rows - 1
  PROVE  LET t == Down([g |-> g, x |-> col, y |-> line])
         IN  t.x = 0 /\ t.y \in 0 .. Rows - 1
<1> DEFINE s == [g |-> g, x |-> col, y |-> line]
<1>1. CASE line + 1 < Rows
  <2>1. Down(s) = [g |-> g, x |-> 0, y |-> line + 1]
    BY <1>1 DEF Down
  <2> QED BY <1>1, <2>1, RowsPositive
<1>2. CASE ~ (line + 1 < Rows)
  <2>1. Down(s) = [g |-> Scroll(g), x |-> 0, y |-> Rows - 1]
    BY <1>2 DEF Down
  <2> QED BY <2>1, RowsPositive
<1> QED BY <1>1, <1>2

LEMMA NextLineStays ==
  ASSUME CursorOnScreen, NEW g, NEW col,
         Become(Down([g |-> g, x |-> col, y |-> y]))
  PROVE  CursorOnScreen'
BY DownStays, RowsPositive DEF CursorOnScreen, Become

\* The cursor never leaves the screen, so draw_char(), which clips nothing,
\* never stores outside of the double buffer.
THEOREM CursorStaysOnScreen == Spec => []CursorOnScreen
<1>1. Init => CursorOnScreen
  BY RowsPositive DEF Init, CursorOnScreen
<1>2. CursorOnScreen /\ [Next]_vars => CursorOnScreen'
  <2> SUFFICES ASSUME CursorOnScreen, [Next]_vars PROVE CursorOnScreen'
    OBVIOUS
  <2>1. CASE Newline
    BY <2>1, DownStays, RowsPositive DEF Newline, Now, CursorOnScreen
  <2>2. CASE Return
    BY <2>2, RowsPositive DEF Return, CursorOnScreen
  <2>3. CASE Tab
    <3> DEFINE stop == x + TabStop - (x % TabStop)
    <3>1. x % TabStop \in 0 .. TabStop - 1
      BY CellAssumption DEF CursorOnScreen
    <3>2. CASE stop < Cols /\ x' = stop /\ y' = y
      BY <3>1, <3>2, CellAssumption, RowsPositive DEF CursorOnScreen
    <3>3. CASE Become(Down(Now))
      BY <3>3, NextLineStays DEF Now
    <3> QED BY <2>3, <3>2, <3>3 DEF Tab
  <2>4. CASE Backspace
    BY <2>4, RowsPositive DEF Backspace, CursorOnScreen
  <2>5. ASSUME NEW c \in Characters, Write(c) PROVE CursorOnScreen'
    <3> DEFINE t == [g |-> DrawChar(gfx, c, x, y), x |-> x + 1, y |-> y]
    <3>1. CASE x + 1 < Cols /\ Become(t)
      BY <3>1, RowsPositive DEF Become, CursorOnScreen
    <3>2. CASE Become(Down(t))
      BY <3>2, NextLineStays
    <3> QED BY <2>5, <3>1, <3>2 DEF Write
  <2>6. CASE Flush \/ Demo \/ UNCHANGED vars
    BY <2>6 DEF Flush, Demo, vars, cursor, CursorOnScreen
  <2>7. CASE ClearConsole \/ Crash
    BY <2>7, RowsPositive DEF ClearConsole, Crash, ResetCursor, CursorOnScreen
  <2>8. CASE PutText
    BY <2>1, <2>5, <2>6, <2>8 DEF PutText
  <2>9. CASE Halt
    BY <2>6, <2>9 DEF Halt
  <2> QED BY <2>2, <2>3, <2>4, <2>6, <2>7, <2>8, <2>9 DEF Next
<1> QED BY <1>1, <1>2, PTL DEF Spec

-----------------------------------------------------------------------------
(* The text that a picture of pixels shows.                                *)

CharCells == (0 .. Cols - 1) \X (0 .. Rows - 1)

\* Row i of the pixels of a character.
PixelRow(p, i) == <<p[1], p[2] * CharHeight + i>>

IsPainted(pic, blank, p) ==
  /\ \A i \in 0 .. FontRows - 1 : pic[PixelRow(p, i)] = pic[PixelRow(p, 0)]
  /\ \A i \in FontRows .. CharHeight - 1 : pic[PixelRow(p, i)] = blank

TextOf(pic, blank) ==
  [p \in CharCells |-> IF IsPainted(pic, blank, p) THEN pic[PixelRow(p, 0)] ELSE Smear]

LEMMA CellSizes ==
  /\ Width \in Nat \ {0} /\ Height \in Nat \ {0} /\ Rows \in Nat \ {0} /\ Cols = Width
  /\ CharHeight \in Nat /\ FontRows \in Nat /\ 1 <= FontRows /\ FontRows < CharHeight
  /\ Height = Rows * CharHeight
BY SizeAssumption, CellAssumption, RowsPositive DEF Cols

\* A line of text does not reach into the next one.
LEMMA LinesApart ==
  ASSUME NEW j \in Int, NEW k \in Int, j < k
  PROVE  j * CharHeight + CharHeight <= k * CharHeight
<1>1. CharHeight \in Nat /\ k - j - 1 \in Nat
  BY CellSizes
<1>2. (k - j - 1) * CharHeight >= 0
  BY <1>1
<1>3. (k - j - 1) * CharHeight = k * CharHeight - j * CharHeight - CharHeight
  BY <1>1
<1>4. k * CharHeight \in Int /\ j * CharHeight \in Int
  BY <1>1
<1> QED BY <1>1, <1>2, <1>3, <1>4

\* A row of pixels belongs to one line.
LEMMA LineOfRow ==
  ASSUME NEW j \in Int, NEW k \in Int, NEW i \in 0 .. CharHeight - 1
  PROVE  /\ k * CharHeight <= j * CharHeight + i <=> k <= j
         /\ j * CharHeight + i < k * CharHeight <=> j < k
         /\ j * CharHeight \in Int /\ k * CharHeight \in Int
<1>1. CharHeight \in Nat /\ j * CharHeight \in Int /\ k * CharHeight \in Int
  BY CellSizes
<1>2. j < k => j * CharHeight + CharHeight <= k * CharHeight
  BY LinesApart
<1>3. k < j => k * CharHeight + CharHeight <= j * CharHeight
  BY LinesApart
<1>4. k = j => k * CharHeight = j * CharHeight
  OBVIOUS
<1> QED BY <1>1, <1>2, <1>3, <1>4

LEMMA PixelRowOnScreen ==
  ASSUME NEW p \in CharCells, NEW i \in 0 .. CharHeight - 1
  PROVE  /\ PixelRow(p, i) \in Pixels
         /\ PixelRow(p, i)[1] = p[1] /\ PixelRow(p, i)[2] = p[2] * CharHeight + i
<1>1. p[1] \in 0 .. Width - 1 /\ p[2] \in Nat /\ p[2] < Rows
  BY CellSizes DEF CharCells
<1>2. p[2] * CharHeight + i < Rows * CharHeight /\ 0 * CharHeight <= p[2] * CharHeight + i
      /\ p[2] * CharHeight \in Int
  BY <1>1, LineOfRow, CellSizes
<1> QED BY <1>1, <1>2, CellSizes DEF PixelRow, Pixels

LEMMA TextInPicture ==
  ASSUME NEW b, NEW blank, NEW pic, \A q \in Pixels : pic[q] = b[At(q[1], q[2])]
  PROVE  TextIn(b, blank) = TextOf(pic, blank)
<1>1. ASSUME NEW p \in CharCells, NEW i \in 0 .. CharHeight - 1
      PROVE  b[At(p[1], p[2] * CharHeight + i)] = pic[PixelRow(p, i)]
  BY PixelRowOnScreen
<1>2. /\ \A i \in 0 .. FontRows - 1 : i \in 0 .. CharHeight - 1
      /\ \A i \in FontRows .. CharHeight - 1 : i \in 0 .. CharHeight - 1
      /\ 0 \in 0 .. CharHeight - 1
  BY CellSizes
<1> DEFINE Row(p, i) == b[At(p[1], p[2] * CharHeight + i)]
           Painted(p) == /\ \A i \in 0 .. FontRows - 1 : Row(p, i) = Row(p, 0)
                         /\ \A i \in FontRows .. CharHeight - 1 : Row(p, i) = blank
<1>3. \A p \in CharCells : \A i \in 0 .. CharHeight - 1 : Row(p, i) = pic[PixelRow(p, i)]
  BY <1>1
<1>4. TextIn(b, blank) = [p \in CharCells |-> IF Painted(p) THEN Row(p, 0) ELSE Smear]
  BY DEF TextIn, CharCells
<1> HIDE DEF Row
<1>5. ASSUME NEW p \in CharCells
      PROVE  Painted(p) <=> IsPainted(pic, blank, p)
  BY <1>2, <1>3 DEF IsPainted
<1> HIDE DEF Painted
<1>6. \A p \in CharCells : Row(p, 0) = pic[PixelRow(p, 0)]
  BY <1>2, <1>3
<1> QED BY <1>4, <1>5, <1>6 DEF TextOf

-----------------------------------------------------------------------------
(* What the console's drawing does to the text.                            *)

\* The two boxes of a character are the rows of its cell.
LEMMA BoxesOfCell ==
  ASSUME NEW p \in CharCells, NEW i \in 0 .. CharHeight - 1,
         NEW col \in 0 .. Cols - 1, NEW line \in 0 .. Rows - 1
  PROVE  LET top == line * CharHeight
         IN  /\ In(PixelRow(p, i), Box(col, top, 1, FontRows))
                  <=> p = <<col, line>> /\ i < FontRows
             /\ In(PixelRow(p, i), Box(col, top + FontRows, 1, CharHeight - FontRows))
                  <=> p = <<col, line>> /\ i >= FontRows
<1> DEFINE top == line * CharHeight
           row == p[2] * CharHeight + i
<1>1. /\ p[1] \in Int /\ p[2] \in Int /\ p = <<p[1], p[2]>> /\ line \in Int /\ col \in Int
      /\ CharHeight \in Nat /\ FontRows \in Nat /\ FontRows < CharHeight /\ i \in Nat
      /\ i < CharHeight
  BY CellSizes DEF CharCells
<1>2. /\ top <= row <=> line <= p[2]
      /\ row < (line + 1) * CharHeight <=> p[2] < line + 1
      /\ top \in Int /\ p[2] * CharHeight \in Int
  BY <1>1, LineOfRow
<1>3. (line + 1) * CharHeight = top + CharHeight
  BY <1>1
<1>4. p[2] = line => p[2] * CharHeight = top
  OBVIOUS
<1> HIDE DEF top
<1>5. In(PixelRow(p, i), Box(col, top, 1, FontRows))
        <=> p[1] = col /\ top <= row /\ row < top + FontRows
  BY <1>1, <1>2 DEF In, Box, PixelRow
<1>6. In(PixelRow(p, i), Box(col, top + FontRows, 1, CharHeight - FontRows))
        <=> p[1] = col /\ top + FontRows <= row /\ row < top + CharHeight
  BY <1>1, <1>2 DEF In, Box, PixelRow
<1>7. p = <<col, line>> <=> p[1] = col /\ p[2] = line
  BY <1>1
<1>8. top <= row /\ row < top + FontRows <=> p[2] = line /\ i < FontRows
  BY <1>1, <1>2, <1>3, <1>4
<1>9. top + FontRows <= row /\ row < top + CharHeight <=> p[2] = line /\ i >= FontRows
  BY <1>1, <1>2, <1>3, <1>4
<1> QED BY <1>5, <1>6, <1>7, <1>8, <1>9 DEF top

LEMMA SameText ==
  ASSUME NEW p \in CharCells, NEW q \in CharCells, NEW pic, NEW old, NEW blank,
         \A i \in 0 .. CharHeight - 1 : pic[PixelRow(p, i)] = old[PixelRow(q, i)]
  PROVE  TextOf(pic, blank)[p] = TextOf(old, blank)[q]
<1>1. /\ \A i \in 0 .. FontRows - 1 : i \in 0 .. CharHeight - 1
      /\ \A i \in FontRows .. CharHeight - 1 : i \in 0 .. CharHeight - 1
      /\ 0 \in 0 .. CharHeight - 1
  BY CellSizes
<1>2. IsPainted(pic, blank, p) <=> IsPainted(old, blank, q)
  BY <1>1 DEF IsPainted
<1>3. pic[PixelRow(p, 0)] = old[PixelRow(q, 0)]
  BY <1>1
<1> QED BY <1>2, <1>3 DEF TextOf

LEMMA PaintedText ==
  ASSUME NEW p \in CharCells, NEW pic, NEW blank, NEW ink,
         \A i \in 0 .. CharHeight - 1 : pic[PixelRow(p, i)] = IF i < FontRows THEN ink ELSE blank
  PROVE  TextOf(pic, blank)[p] = ink
<1>1. \A i \in 0 .. FontRows - 1 : i \in 0 .. CharHeight - 1 /\ i < FontRows
  BY CellSizes
<1>2. \A i \in FontRows .. CharHeight - 1 : i \in 0 .. CharHeight - 1 /\ ~ (i < FontRows)
  BY CellSizes
<1>3. 0 \in 0 .. FontRows - 1
  BY CellSizes
<1>4. IsPainted(pic, blank, p) /\ pic[PixelRow(p, 0)] = ink
  BY <1>1, <1>2, <1>3 DEF IsPainted
<1> QED BY <1>4 DEF TextOf

LEMMA CharDrawn ==
  ASSUME NEW g, DrawInv(g), NEW c \in Color, paper \in Color,
         NEW col \in 0 .. Cols - 1, NEW line \in 0 .. Rows - 1
  PROVE  /\ DrawInv(DrawChar(g, c, col, line))
         /\ ShownOf(DrawChar(g, c, col, line)) = ShownOf(g)
         /\ TextOf(PictureOf(DrawChar(g, c, col, line)), paper)
              = [TextOf(PictureOf(g), paper) EXCEPT
                   ![<<col, line>>] = IF c = Background THEN paper ELSE c]
<1> DEFINE top == line * CharHeight
           font == Box(col, top, 1, FontRows)
           rest == Box(col, top + FontRows, 1, CharHeight - FontRows)
           ink == IF c = Background THEN paper ELSE c
           b == [a \in Addresses |-> IF Covers(font, a) THEN ink ELSE g.buffer[a]]
           h == [g EXCEPT !.buffer = b]
           old == PictureOf(g)
           pic == PictureOf(Fill(h, rest, paper))
<1>1. DrawChar(g, c, col, line) = Fill(h, rest, paper)
  BY DEF DrawChar
<1>2. ink \in Color
  OBVIOUS
<1>3. /\ font \in Rectangle /\ rest \in Rectangle /\ font.x1 >= 0 /\ font.x2 <= Width - 1
  BY CellSizes, LineOfRow DEF Box, Rectangle
<1> HIDE DEF font, rest, ink
<1>4. b \in Buffers
  BY <1>2 DEF Buffers, DrawInv
<1>5. DrawInv(h) /\ h.buffer = b /\ h.screen = g.screen
  BY <1>4, StoreKeeps
<1>6. \A q \in Pixels : b[At(q[1], q[2])] = IF In(q, font) THEN ink ELSE old[q]
  BY <1>3, CoversIsIn, AddressOfPixel, PictureValues
<1> HIDE DEF b, h
<1>7. PictureOf(h) = [q \in Pixels |-> IF In(q, font) THEN ink ELSE old[q]]
  BY <1>5, <1>6, PictureValues
<1>8. ShownOf(h) = ShownOf(g)
  BY <1>5, ShownValues
<1>9. /\ DrawInv(Fill(h, rest, paper)) /\ ShownOf(Fill(h, rest, paper)) = ShownOf(h)
      /\ pic = [q \in Pixels |-> IF In(q, rest) THEN paper ELSE PictureOf(h)[q]]
  BY <1>3, <1>5, FillDraws
<1>10. ASSUME NEW p \in CharCells, NEW i \in 0 .. CharHeight - 1
       PROVE  pic[PixelRow(p, i)] = IF p # <<col, line>> THEN old[PixelRow(p, i)]
                                    ELSE IF i < FontRows THEN ink ELSE paper
  <2>1. PixelRow(p, i) \in Pixels
    BY PixelRowOnScreen
  <2>2. /\ In(PixelRow(p, i), font) <=> p = <<col, line>> /\ i < FontRows
        /\ In(PixelRow(p, i), rest) <=> p = <<col, line>> /\ i >= FontRows
    BY BoxesOfCell DEF font, rest
  <2>3. i < FontRows <=> ~ (i >= FontRows)
    BY CellSizes
  <2> QED BY <1>7, <1>9, <2>1, <2>2, <2>3
<1> HIDE DEF old, pic
<1>11. ASSUME NEW p \in CharCells
       PROVE  TextOf(pic, paper)[p] = IF p = <<col, line>> THEN ink ELSE TextOf(old, paper)[p]
  <2>1. CASE p = <<col, line>>
    <3>1. \A i \in 0 .. CharHeight - 1 :
            pic[PixelRow(p, i)] = IF i < FontRows THEN ink ELSE paper
      BY <1>10, <2>1
    <3>2. TextOf(pic, paper)[p] = ink
      BY <3>1, PaintedText
    <3> QED BY <2>1, <3>2
  <2>2. CASE p # <<col, line>>
    BY <1>10, <2>2, SameText
  <2> QED BY <2>1, <2>2
<1>12. TextOf(pic, paper) = [TextOf(old, paper) EXCEPT ![<<col, line>>] = ink]
  BY <1>11 DEF TextOf
<1> QED BY <1>1, <1>8, <1>9, <1>12 DEF ink, old, pic

LEMMA Scrolled ==
  ASSUME NEW g, DrawInv(g), paper \in Color
  PROVE  /\ DrawInv(Scroll(g)) /\ ShownOf(Scroll(g)) = PictureOf(Scroll(g))
         /\ TextOf(PictureOf(Scroll(g)), paper)
              = [p \in CharCells |-> IF p[2] = Rows - 1 THEN paper
                                     ELSE TextOf(PictureOf(g), paper)[<<p[1], p[2] + 1>>]]
<1> DEFINE bottom == (Rows - 1) * CharHeight
           below == Box(0, bottom, Width, CharHeight)
           h == Copy(g, 0, CharHeight, 0, 0, Width, Height - CharHeight)
           f == Fill(h, below, paper)
           old == PictureOf(g)
           pic == PictureOf(f)
<1>1. bottom = Height - CharHeight /\ CharHeight \in 1 .. Height /\ bottom \in Nat
  <2>1. (Rows - 1) * CharHeight = Rows * CharHeight - CharHeight
    BY CellSizes
  <2>2. 1 * CharHeight <= Rows * CharHeight
    BY CellSizes
  <2> QED BY <2>1, <2>2, CellSizes
<1>2. Scroll(g) = Swap(f)
  BY <1>1 DEF Scroll
<1>3. below \in Rectangle
  BY <1>1, CellSizes DEF Box, Rectangle
<1> HIDE DEF below
<1>4. /\ DrawInv(h)
      /\ PictureOf(h) = [p \in Pixels |-> IF p[2] + CharHeight < Height
                                            THEN old[<<p[1], p[2] + CharHeight>>]
                                            ELSE old[p]]
  BY <1>1, CopyDraws
<1> HIDE DEF h
<1>5. /\ DrawInv(f)
      /\ pic = [p \in Pixels |-> IF In(p, below) THEN paper ELSE PictureOf(h)[p]]
  BY <1>3, <1>4, FillDraws
<1> HIDE DEF f
<1>6. DrawInv(Swap(f)) /\ ShownOf(Swap(f)) = PictureOf(f) /\ PictureOf(Swap(f)) = PictureOf(f)
  BY <1>5, SwapDraws, PictureValues
<1>7. ASSUME NEW p \in CharCells, NEW i \in 0 .. CharHeight - 1
      PROVE  pic[PixelRow(p, i)] = IF p[2] = Rows - 1 THEN paper
                                   ELSE old[PixelRow(<<p[1], p[2] + 1>>, i)]
  <2> DEFINE row == p[2] * CharHeight + i
  <2>1. /\ PixelRow(p, i) \in Pixels /\ PixelRow(p, i)[1] = p[1] /\ PixelRow(p, i)[2] = row
        /\ PixelRow(p, i) = <<p[1], row>>
    BY PixelRowOnScreen DEF PixelRow
  <2>2. p[2] \in Nat /\ p[2] < Rows /\ p[1] \in 0 .. Width - 1
    BY CellSizes DEF CharCells
  <2>3. /\ bottom <= row <=> Rows - 1 <= p[2]
        /\ row < Height <=> p[2] < Rows
        /\ row \in Int
    BY <2>2, LineOfRow, CellSizes
  <2>4. In(<<p[1], row>>, below) <=> p[2] = Rows - 1
    BY <1>1, <2>2, <2>3, CellSizes DEF In, Box, below
  <2>5. p[2] # Rows - 1 => row + CharHeight < Height
    BY <1>1, <2>2, <2>3, CellSizes
  <2>6. (p[2] + 1) * CharHeight + i = row + CharHeight
    <3>1. (p[2] + 1) * CharHeight = p[2] * CharHeight + CharHeight
      BY <2>2, CellSizes
    <3>2. p[2] * CharHeight \in Int /\ CharHeight \in Int
      BY <2>2, CellSizes
    <3> QED BY <3>1, <3>2
  <2>7. PixelRow(<<p[1], p[2] + 1>>, i) = <<p[1], row + CharHeight>>
    BY <2>6 DEF PixelRow
  <2> QED BY <1>4, <1>5, <2>1, <2>4, <2>5, <2>7
<1> HIDE DEF pic, old
<1>8. ASSUME NEW p \in CharCells
      PROVE  TextOf(pic, paper)[p] = IF p[2] = Rows - 1 THEN paper
                                     ELSE TextOf(old, paper)[<<p[1], p[2] + 1>>]
  <2>1. CASE p[2] = Rows - 1
    <3>1. \A i \in 0 .. CharHeight - 1 :
            pic[PixelRow(p, i)] = IF i < FontRows THEN paper ELSE paper
      BY <1>7, <2>1
    <3>2. TextOf(pic, paper)[p] = paper
      BY <3>1, PaintedText
    <3> QED BY <2>1, <3>2
  <2>2. CASE p[2] # Rows - 1
    <3>1. <<p[1], p[2] + 1>> \in CharCells
      BY <2>2, CellSizes DEF CharCells
    <3> QED BY <1>7, <2>2, <3>1, SameText
  <2> QED BY <2>1, <2>2
<1>9. TextOf(pic, paper) = [p \in CharCells |-> IF p[2] = Rows - 1 THEN paper
                                              ELSE TextOf(old, paper)[<<p[1], p[2] + 1>>]]
  BY <1>8 DEF TextOf
<1> QED BY <1>2, <1>6, <1>9 DEF pic, old

LEMMA ClearedText ==
  ASSUME NEW g, DrawInv(g), NEW c \in Color
  PROVE  /\ DrawInv(Clear(g, c)) /\ ShownOf(Clear(g, c)) = ShownOf(g)
         /\ TextOf(PictureOf(Clear(g, c)), c) = [p \in CharCells |-> c]
<1>1. /\ DrawInv(Clear(g, c)) /\ ShownOf(Clear(g, c)) = ShownOf(g)
      /\ PictureOf(Clear(g, c))
           = [p \in Pixels |-> IF In(p, Screen) THEN c ELSE PictureOf(g)[p]]
  BY ClearDraws
<1> DEFINE pic == PictureOf(Clear(g, c))
<1>2. \A p \in Pixels : In(p, Screen)
  BY SizeAssumption DEF Screen, Box, In, Pixels
<1>3. \A p \in CharCells : \A i \in 0 .. CharHeight - 1 :
        pic[PixelRow(p, i)] = IF i < FontRows THEN c ELSE c
  BY <1>1, <1>2, PixelRowOnScreen
<1> HIDE DEF pic
<1>4. \A p \in CharCells : TextOf(pic, c)[p] = c
  BY <1>3, PaintedText
<1>5. TextOf(pic, c) = [p \in CharCells |-> c]
  BY <1>4 DEF TextOf
<1> QED BY <1>1, <1>5 DEF pic

-----------------------------------------------------------------------------
(* The functions of the console on its text.                               *)

TextOn(g) == TextOf(PictureOf(g), paper)

\* The lines of t moved up by one.
LinesUp(t) ==
  [p \in CharCells |-> IF p[2] = Rows - 1 THEN paper ELSE t[<<p[1], p[2] + 1>>]]

Ready == DrawInv(gfx) /\ CursorOnScreen /\ paper \in Color

LEMMA SwappedShown ==
  ASSUME NEW g, DrawInv(g), NEW h, h = Swap(g) \/ h = SwapFull(g)
  PROVE  DrawInv(h) /\ PictureOf(h) = PictureOf(g) /\ ShownOf(h) = PictureOf(h)
<1>1. /\ DrawInv(h) /\ h.buffer = g.buffer /\ ShownOf(h) = PictureOf(g)
  BY SwapDraws
<1>2. PictureOf(h) = PictureOf(g)
  BY <1>1, PictureValues
<1> QED BY <1>1, <1>2

\* The next line, from a buffer g that holds what has just been drawn.
WentDown(g, h, line) ==
  \/ y < Rows - 1 /\ line = y + 1 /\ h = g
  \/ /\ y = Rows - 1 /\ line = y
     /\ TextOn(h) = LinesUp(TextOn(g)) /\ ShownOf(h) = PictureOf(h)

LEMMA GoesDown ==
  ASSUME Ready, NEW g, DrawInv(g), NEW col
  PROVE  LET t == Down([g |-> g, x |-> col, y |-> y])
         IN  DrawInv(t.g) /\ t.x = 0 /\ WentDown(g, t.g, t.y)
<1> DEFINE s == [g |-> g, x |-> col, y |-> y]
<1>1. y \in 0 .. Rows - 1 /\ paper \in Color
  BY DEF Ready, CursorOnScreen
<1>2. CASE y + 1 < Rows
  <2>1. Down(s) = [g |-> g, x |-> 0, y |-> y + 1]
    BY <1>2 DEF Down
  <2> QED BY <1>1, <1>2, <2>1, CellSizes DEF WentDown
<1>3. CASE ~ (y + 1 < Rows)
  <2>1. Down(s) = [g |-> Scroll(g), x |-> 0, y |-> Rows - 1]
    BY <1>3 DEF Down
  <2>2. /\ DrawInv(Scroll(g)) /\ ShownOf(Scroll(g)) = PictureOf(Scroll(g))
        /\ TextOn(Scroll(g)) = LinesUp(TextOn(g))
    BY <1>1, Scrolled DEF TextOn, LinesUp
  <2>3. y = Rows - 1
    BY <1>1, <1>3, CellSizes
  <2> QED BY <2>1, <2>2, <2>3 DEF WentDown
<1> QED BY <1>2, <1>3

\* What each call does, in terms of the text and of what is shown.
NewlineDone ==
  /\ DrawInv(gfx') /\ x' = 0 /\ ShownOf(gfx') = PictureOf(gfx')
  /\ \/ y < Rows - 1 /\ y' = y + 1 /\ TextOn(gfx') = TextOn(gfx)
     \/ y = Rows - 1 /\ y' = y /\ TextOn(gfx') = LinesUp(TextOn(gfx))

LEMMA NewlineWorks == Ready /\ Newline => NewlineDone
<1> SUFFICES ASSUME Ready, Newline PROVE NewlineDone
  OBVIOUS
<1> DEFINE t == Down(Now)
<1>1. DrawInv(t.g) /\ t.x = 0 /\ WentDown(gfx, t.g, t.y)
  BY GoesDown DEF Now, Ready
<1>2. gfx' = Swap(t.g) /\ x' = t.x /\ y' = t.y
  BY DEF Newline
<1> HIDE DEF t
<1>3. DrawInv(gfx') /\ PictureOf(gfx') = PictureOf(t.g) /\ ShownOf(gfx') = PictureOf(gfx')
  BY <1>1, <1>2, SwappedShown
<1> QED BY <1>1, <1>2, <1>3 DEF WentDown, NewlineDone, TextOn

WriteDone(c) ==
  LET t == [TextOn(gfx) EXCEPT ![<<x, y>>] = IF c = Background THEN paper ELSE c]
  IN  /\ DrawInv(gfx')
      /\ \/ /\ x < Cols - 1 /\ x' = x + 1 /\ y' = y
            /\ TextOn(gfx') = t /\ ShownOf(gfx') = ShownOf(gfx)
         \/ /\ x = Cols - 1 /\ x' = 0 /\ y < Rows - 1 /\ y' = y + 1
            /\ TextOn(gfx') = t /\ ShownOf(gfx') = ShownOf(gfx)
         \/ /\ x = Cols - 1 /\ x' = 0 /\ y = Rows - 1 /\ y' = y
            /\ TextOn(gfx') = LinesUp(t) /\ ShownOf(gfx') = PictureOf(gfx')

LEMMA WriteWorks ==
  ASSUME Ready, NEW c \in Color, Write(c)
  PROVE  WriteDone(c)
<1> DEFINE h == DrawChar(gfx, c, x, y)
           t == [TextOn(gfx) EXCEPT ![<<x, y>>] = IF c = Background THEN paper ELSE c]
           s == [g |-> h, x |-> x + 1, y |-> y]
<1>1. x \in 0 .. Cols - 1 /\ y \in 0 .. Rows - 1 /\ DrawInv(gfx) /\ paper \in Color
  BY DEF Ready, CursorOnScreen
<1>2. DrawInv(h) /\ ShownOf(h) = ShownOf(gfx) /\ TextOn(h) = t
  BY <1>1, CharDrawn DEF TextOn
<1>3. IF x + 1 < Cols THEN Become(s) ELSE Become(Down(s))
  BY DEF Write
<1> HIDE DEF h, t
<1>4. CASE x + 1 < Cols
  <2>1. gfx' = h /\ x' = x + 1 /\ y' = y
    BY <1>3, <1>4 DEF Become
  <2> QED BY <1>1, <1>2, <1>4, <2>1, CellSizes DEF WriteDone, t, TextOn
<1>5. CASE ~ (x + 1 < Cols)
  <2>1. gfx' = Down(s).g /\ x' = Down(s).x /\ y' = Down(s).y
    BY <1>3, <1>5 DEF Become
  <2>2. DrawInv(gfx') /\ x' = 0 /\ WentDown(h, gfx', y')
    BY <1>2, <2>1, GoesDown
  <2>3. x = Cols - 1
    BY <1>1, <1>5, CellSizes
  <2> QED BY <1>2, <2>2, <2>3 DEF WentDown, WriteDone, t, TextOn
<1> QED BY <1>4, <1>5

LEMMA FlushWorks ==
  Ready /\ Flush => /\ DrawInv(gfx') /\ PictureOf(gfx') = PictureOf(gfx)
                    /\ ShownOf(gfx') = PictureOf(gfx) /\ x' = x /\ y' = y
BY SwappedShown DEF Ready, Flush, cursor

LEMMA ClearWorks ==
  ASSUME Ready, NEW g, NEW c \in Color,
         g = Swap(Clear(gfx, c)) \/ g = SwapFull(Clear(gfx, c))
  PROVE  /\ DrawInv(g) /\ ShownOf(g) = PictureOf(g)
         /\ TextOf(PictureOf(g), c) = [p \in CharCells |-> c]
<1>1. /\ DrawInv(Clear(gfx, c))
      /\ TextOf(PictureOf(Clear(gfx, c)), c) = [p \in CharCells |-> c]
  BY ClearedText DEF Ready
<1>2. DrawInv(g) /\ PictureOf(g) = PictureOf(Clear(gfx, c)) /\ ShownOf(g) = PictureOf(g)
  BY <1>1, SwappedShown
<1> QED BY <1>1, <1>2

BackspaceDone ==
  /\ DrawInv(gfx') /\ x > 0 /\ x' = x - 1 /\ y' = y /\ ShownOf(gfx') = ShownOf(gfx)
  /\ TextOn(gfx') = [TextOn(gfx) EXCEPT ![<<x - 1, y>>] = paper]

LEMMA BackspaceWorks == Ready /\ Backspace => BackspaceDone
<1> SUFFICES ASSUME Ready, Backspace PROVE BackspaceDone
  OBVIOUS
<1>1. x - 1 \in 0 .. Cols - 1 /\ y \in 0 .. Rows - 1 /\ DrawInv(gfx) /\ paper \in Color
      /\ x > 0 /\ x' = x - 1 /\ y' = y /\ gfx' = DrawChar(gfx, Background, x - 1, y)
  BY CellSizes DEF Ready, CursorOnScreen, Backspace
<1> QED BY <1>1, ColorAssumption, CharDrawn DEF BackspaceDone, TextOn

\* Rounding up with a remainder or with a quotient is the same.
LEMMA TabStops ==
  ASSUME NEW n \in Nat
  PROVE  n + TabStop - (n % TabStop) = (n \div TabStop + 1) * TabStop
<1>1. TabStop \in Nat \ {0}
  BY CellAssumption
<1>2. n = TabStop * (n \div TabStop) + (n % TabStop)
  BY <1>1
<1>3. n \div TabStop \in Int /\ n % TabStop \in Int
  BY <1>1
<1>4. (n \div TabStop + 1) * TabStop = TabStop * (n \div TabStop) + TabStop
  BY <1>1, <1>3
<1>5. TabStop * (n \div TabStop) \in Int
  BY <1>1, <1>3
<1> QED BY <1>1, <1>2, <1>3, <1>4, <1>5

TabDone ==
  LET stop == (x \div TabStop + 1) * TabStop
  IN  \/ stop < Cols /\ x' = stop /\ UNCHANGED <<gfx, y>>
      \/ stop >= Cols /\ DrawInv(gfx') /\ x' = 0 /\ WentDown(gfx, gfx', y')

LEMMA TabWorks == Ready /\ Tab => TabDone
<1> SUFFICES ASSUME Ready, Tab PROVE TabDone
  OBVIOUS
<1>1. x + TabStop - (x % TabStop) = (x \div TabStop + 1) * TabStop
  BY CellSizes, TabStops DEF Ready, CursorOnScreen
<1>2. DrawInv(Down(Now).g) /\ Down(Now).x = 0 /\ WentDown(gfx, Down(Now).g, Down(Now).y)
  BY GoesDown DEF Now, Ready
<1> QED BY <1>1, <1>2 DEF Tab, TabDone, Become

-----------------------------------------------------------------------------
(* The console implements the screen of text.                              *)

ConsoleInv ==
  /\ DrawInv(gfx) /\ CursorOnScreen /\ mode \in {"runs", "reports", "halted"}
  /\ paper = IF mode = "runs" THEN Background ELSE CrashPaper

LEMMA InvReady ==
  ConsoleInv => /\ Ready
                /\ mode = "runs" => paper = Background
                /\ mode # "runs" => paper = CrashPaper
BY ColorAssumption, PaperAssumption DEF ConsoleInv, Ready

LEMMA TextsShown ==
  ASSUME NEW g, NEW blank
  PROVE  /\ TextIn(g.buffer, blank) = TextOf(PictureOf(g), blank)
         /\ TextIn(g.screen, blank) = TextOf(ShownOf(g), blank)
<1>1. \A q \in Pixels : PictureOf(g)[q] = g.buffer[At(q[1], q[2])]
  BY PictureValues
<1>2. \A q \in Pixels : ShownOf(g)[q] = g.screen[At(q[1], q[2])]
  BY ShownValues
<1> QED BY <1>1, <1>2, TextInPicture

\* The calls keep what the console relies on.
LEMMA CallsKeep ==
  ASSUME Ready, \/ Newline \/ Return \/ Tab \/ Backspace \/ Flush \/ ClearConsole \/ Demo
                \/ \E c \in Characters : Write(c)
  PROVE  DrawInv(gfx')
<1>1. CASE Newline
  BY <1>1, NewlineWorks DEF NewlineDone
<1>2. CASE Return
  BY <1>2 DEF Return, Ready
<1>3. CASE Tab
  BY <1>3, TabWorks DEF TabDone, Ready
<1>4. CASE Backspace
  BY <1>4, BackspaceWorks DEF BackspaceDone
<1>5. CASE Flush
  BY <1>5, FlushWorks
<1>6. CASE ClearConsole
  BY <1>6, ClearWorks DEF ClearConsole, Ready
<1>7. CASE Demo
  BY <1>7, ClearWorks, ColorAssumption DEF Demo
<1>8. CASE \E c \in Characters : Write(c)
  BY <1>8, WriteWorks DEF WriteDone, Characters
<1> QED BY <1>1, <1>2, <1>3, <1>4, <1>5, <1>6, <1>7, <1>8

LEMMA ConsoleStarts == Init => ConsoleInv /\ Text!Init
<1> SUFFICES ASSUME Init PROVE ConsoleInv /\ Text!Init
  OBVIOUS
<1>1. PICK c \in Color :
        gfx = Swap(Clear([buffer |-> [a \in Addresses |-> Background],
                          screen |-> [a \in Addresses |-> c],
                          rect |-> Screen, enabled |-> TRUE], Background))
  BY DEF Init
<1> DEFINE g == [buffer |-> [a \in Addresses |-> Background],
                 screen |-> [a \in Addresses |-> c],
                 rect |-> Screen, enabled |-> TRUE]
           d == Clear(g, Background)
<1>2. DrawInv(g)
  BY ColorAssumption, RectanglesTyped DEF DrawInv, Buffers
<1> HIDE DEF g
<1>3. DrawInv(d) /\ TextOf(PictureOf(d), Background) = [p \in CharCells |-> Background]
  BY <1>2, ColorAssumption, ClearedText
<1> HIDE DEF d
<1>4. gfx = Swap(d)
  BY <1>1 DEF d, g
<1>5. DrawInv(gfx) /\ PictureOf(gfx) = PictureOf(d) /\ ShownOf(gfx) = PictureOf(gfx)
  BY <1>3, <1>4, SwappedShown
<1>6. ConsoleInv
  BY <1>5, CellSizes DEF Init, ConsoleInv, CursorOnScreen
<1>7. /\ TextIn(gfx.buffer, Background) = [p \in CharCells |-> Background]
      /\ TextIn(gfx.screen, Background) = [p \in CharCells |-> Background]
  BY <1>3, <1>5, TextsShown
<1> QED BY <1>6, <1>7 DEF Text!Init, Text!Cleared, Text!Cells, CharCells, Init

LEMMA InvKept == ConsoleInv /\ CursorOnScreen' /\ [Next]_vars => ConsoleInv'
<1> SUFFICES ASSUME ConsoleInv, CursorOnScreen', [Next]_vars PROVE ConsoleInv'
  OBVIOUS
<1>1. CASE PutText
  BY <1>1, InvReady, CallsKeep DEF PutText, ConsoleInv
<1>2. CASE /\ mode = "runs" /\ UNCHANGED <<paper, mode>>
           /\ Return \/ Tab \/ Backspace \/ ClearConsole \/ Demo
  BY <1>2, InvReady, CallsKeep DEF ConsoleInv
<1>3. CASE Crash
  <2>1. DrawInv(Clear(gfx, CrashPaper))
    BY PaperAssumption, ClearDraws DEF ConsoleInv
  <2> QED BY <1>3, <2>1 DEF Crash, SetTextColor, ConsoleInv
<1>4. CASE Halt
  BY <1>4, InvReady, CallsKeep DEF Halt, ConsoleInv
<1>5. CASE UNCHANGED vars
  BY <1>5 DEF vars, ConsoleInv
<1> QED BY <1>1, <1>2, <1>3, <1>4, <1>5 DEF Next

-----------------------------------------------------------------------------
(* Each call is a call of TextScreen.                                      *)

text == TextIn(gfx.buffer, Background)
shown == TextIn(gfx.screen, Background)

LEMMA RunningText ==
  ASSUME ConsoleInv, mode = "runs"
  PROVE  /\ text = TextOn(gfx) /\ text' = TextOn(gfx')
         /\ shown = TextOf(ShownOf(gfx), paper) /\ shown' = TextOf(ShownOf(gfx'), paper)
         /\ x \in 0 .. Cols - 1 /\ y \in 0 .. Rows - 1 /\ Ready /\ paper = Background
<1>1. Ready /\ paper = Background /\ x \in 0 .. Cols - 1 /\ y \in 0 .. Rows - 1
  BY InvReady DEF Ready, CursorOnScreen
<1>2. \A g : /\ TextIn(g.buffer, paper) = TextOf(PictureOf(g), paper)
             /\ TextIn(g.screen, paper) = TextOf(ShownOf(g), paper)
  BY TextsShown
<1> QED BY <1>1, <1>2 DEF text, shown, TextOn

LEMMA NewlineIsText == ConsoleInv /\ mode = "runs" /\ Newline => Text!Newline
<1> SUFFICES ASSUME ConsoleInv, mode = "runs", Newline PROVE Text!Newline
  OBVIOUS
<1>1. NewlineDone
  BY RunningText, NewlineWorks
<1>2. /\ x' = 0 /\ shown' = text'
      /\ \/ y < Rows - 1 /\ y' = y + 1 /\ text' = text
         \/ /\ y = Rows - 1 /\ y' = y
            /\ text' = [p \in CharCells |-> IF p[2] = Rows - 1 THEN Background
                                            ELSE text[<<p[1], p[2] + 1>>]]
  BY <1>1, RunningText DEF NewlineDone, LinesUp, TextOn
<1> QED BY <1>2 DEF Text!Newline, Text!NextLine, Text!Cells, CharCells, text, shown

LEMMA TabIsText == ConsoleInv /\ mode = "runs" /\ Tab => Text!Tab
<1> SUFFICES ASSUME ConsoleInv, mode = "runs", Tab PROVE Text!Tab
  OBVIOUS
<1> DEFINE stop == (x \div TabStop + 1) * TabStop
<1>1. TabDone
  BY RunningText, TabWorks
<1> HIDE DEF stop
<1>2. \/ stop < Cols /\ x' = stop /\ UNCHANGED <<text, shown, y>>
      \/ /\ stop >= Cols /\ x' = 0
         /\ \/ y < Rows - 1 /\ y' = y + 1 /\ text' = text /\ shown' = shown
            \/ /\ y = Rows - 1 /\ y' = y /\ shown' = text'
               /\ text' = [p \in CharCells |-> IF p[2] = Rows - 1 THEN Background
                                               ELSE text[<<p[1], p[2] + 1>>]]
  <2>1. CASE stop < Cols /\ x' = stop /\ UNCHANGED <<gfx, y>>
    BY <2>1 DEF text, shown
  <2>2. CASE stop >= Cols /\ DrawInv(gfx') /\ x' = 0 /\ WentDown(gfx, gfx', y')
    BY <2>2, RunningText DEF WentDown, LinesUp, TextOn
  <2> QED BY <1>1, <2>1, <2>2 DEF TabDone, stop
<1> QED BY <1>2 DEF Text!Tab, Text!NextLine, Text!Cells, CharCells, text, shown, stop

LEMMA BackspaceIsText == ConsoleInv /\ mode = "runs" /\ Backspace => Text!Backspace
<1> SUFFICES ASSUME ConsoleInv, mode = "runs", Backspace PROVE Text!Backspace
  OBVIOUS
<1>1. BackspaceDone
  BY RunningText, BackspaceWorks
<1>2. /\ x > 0 /\ x' = x - 1 /\ y' = y /\ shown' = shown
      /\ text' = [text EXCEPT ![<<x - 1, y>>] = Background]
  BY <1>1, RunningText DEF BackspaceDone
<1> QED BY <1>2 DEF Text!Backspace, text, shown

LEMMA WriteIsText ==
  ASSUME ConsoleInv, mode = "runs", NEW c \in Characters, Write(c)
  PROVE  Text!Write(c)
<1> DEFINE t == [text EXCEPT ![<<x, y>>] = c]
<1>1. WriteDone(c)
  BY RunningText, WriteWorks DEF Characters
<1>2. t = [TextOn(gfx) EXCEPT ![<<x, y>>] = IF c = Background THEN paper ELSE c]
  BY RunningText
<1> HIDE DEF t
<1>3. \/ x < Cols - 1 /\ x' = x + 1 /\ text' = t /\ UNCHANGED <<shown, y>>
      \/ /\ x = Cols - 1 /\ x' = 0
         /\ \/ y < Rows - 1 /\ y' = y + 1 /\ text' = t /\ shown' = shown
            \/ /\ y = Rows - 1 /\ y' = y /\ shown' = text'
               /\ text' = [p \in CharCells |-> IF p[2] = Rows - 1 THEN Background
                                               ELSE t[<<p[1], p[2] + 1>>]]
  BY <1>1, <1>2, RunningText DEF WriteDone, LinesUp, TextOn
<1> QED BY <1>3 DEF Text!Write, Text!NextLine, Text!Cells, CharCells, text, shown, t

LEMMA FlushIsText == ConsoleInv /\ mode = "runs" /\ Flush => Text!Flush
<1> SUFFICES ASSUME ConsoleInv, mode = "runs", Flush PROVE Text!Flush
  OBVIOUS
<1>1. text' = text /\ shown' = text /\ x' = x /\ y' = y
  BY RunningText, FlushWorks DEF TextOn
<1> QED BY <1>1 DEF Text!Flush, text, shown

LEMMA ClearIsText ==
  ConsoleInv /\ mode = "runs" => /\ ClearConsole => Text!Clear
                                 /\ Demo => Text!Demo
<1> SUFFICES ASSUME ConsoleInv, mode = "runs", ClearConsole \/ Demo
             PROVE  /\ ClearConsole => Text!Clear
                    /\ Demo => Text!Demo
  OBVIOUS
<1>1. /\ ShownOf(gfx') = PictureOf(gfx')
      /\ TextOf(PictureOf(gfx'), Background) = [p \in CharCells |-> Background]
  BY RunningText, ClearWorks, ColorAssumption DEF ClearConsole, Demo
<1>2. /\ text' = [p \in CharCells |-> Background]
      /\ shown' = [p \in CharCells |-> Background]
  BY <1>1, RunningText DEF TextOn
<1> QED BY <1>2 DEF ClearConsole, Demo, Text!Clear, Text!Demo, Text!Cleared, Text!Cells,
                    CharCells, text, shown, cursor

LEMMA CallsAreText == ConsoleInv /\ mode = "runs" => AsOnTextScreen
<1> SUFFICES ASSUME ConsoleInv, mode = "runs" PROVE AsOnTextScreen
  OBVIOUS
<1>1. Return => Text!Return
  BY DEF Return, Text!Return
<1> QED BY <1>1, NewlineIsText, TabIsText, BackspaceIsText, WriteIsText, FlushIsText,
           ClearIsText DEF AsOnTextScreen

\* What is on the screen is the text the callers wrote, wrapped and scrolled, for
\* every size of the screen and of a character: all the arithmetic on pixels, the
\* dirty rectangle and the copying of rows together draw what TextScreen says.
THEOREM PixelsAreText == Spec => ImplementsTextScreen
<1>1. ConsoleInv /\ [Next]_vars
        => [mode' = "runs" => [Text!Next]_(Text!screen) /\ AsOnTextScreen]_vars
  <2> SUFFICES ASSUME ConsoleInv, Next, mode' = "runs"
               PROVE  [Text!Next]_(Text!screen) /\ AsOnTextScreen
    OBVIOUS
  <2>1. mode = "runs"
    BY DEF Next, PutText, Crash, Halt
  <2>2. AsOnTextScreen
    BY <2>1, CallsAreText
  <2>3. \/ Newline \/ Return \/ Tab \/ Backspace \/ Flush \/ ClearConsole \/ Demo
        \/ \E c \in Characters : Write(c)
    BY <2>1 DEF Next, PutText, Crash, Halt
  <2>4. Text!Next
    BY <2>2, <2>3 DEF AsOnTextScreen, Text!Next
  <2> QED BY <2>2, <2>4
<1> QED BY <1>1, ConsoleStarts, InvKept, CursorStaysOnScreen, PTL
        DEF Spec, ImplementsTextScreen

-----------------------------------------------------------------------------
(* The report of a crash is a screen of text, too.                         *)

report == TextIn(gfx.buffer, CrashPaper)
seen == TextIn(gfx.screen, CrashPaper)

LEMMA ReportingText ==
  ASSUME ConsoleInv, mode # "runs"
  PROVE  /\ report = TextOn(gfx) /\ report' = TextOn(gfx')
         /\ seen = TextOf(ShownOf(gfx), paper) /\ seen' = TextOf(ShownOf(gfx'), paper)
         /\ x \in 0 .. Cols - 1 /\ y \in 0 .. Rows - 1 /\ Ready /\ paper = CrashPaper
<1>1. Ready /\ paper = CrashPaper /\ x \in 0 .. Cols - 1 /\ y \in 0 .. Rows - 1
  BY InvReady DEF Ready, CursorOnScreen
<1>2. \A g : /\ TextIn(g.buffer, paper) = TextOf(PictureOf(g), paper)
             /\ TextIn(g.screen, paper) = TextOf(ShownOf(g), paper)
  BY TextsShown
<1> QED BY <1>1, <1>2 DEF report, seen, TextOn

LEMMA ReportFlushed == ConsoleInv /\ mode # "runs" /\ Flush => Report!Flush
<1> SUFFICES ASSUME ConsoleInv, mode # "runs", Flush PROVE Report!Flush
  OBVIOUS
<1>1. report' = report /\ seen' = report /\ x' = x /\ y' = y
  BY ReportingText, FlushWorks DEF TextOn
<1> QED BY <1>1 DEF Report!Flush, report, seen

\* The report ends before the last line, so that a new line is only the cursor's.
LEMMA ReportPut ==
  ASSUME ConsoleInv, mode = "reports", PutText
  PROVE  Report!Next
<1>1. y < Rows - 1
  BY DEF PutText
<1>2. CASE Newline
  <2>1. NewlineDone
    BY <1>2, ReportingText, NewlineWorks
  <2>2. x' = 0 /\ y' = y + 1 /\ report' = report /\ seen' = report'
    BY <1>1, <2>1, ReportingText, CellSizes DEF NewlineDone, TextOn
  <2>3. Report!Newline
    BY <1>1, <2>2 DEF Report!Newline, Report!NextLine, report, seen
  <2> QED BY <2>3 DEF Report!Next
<1>3. CASE Flush
  BY <1>3, ReportFlushed DEF Report!Next
<1>4. ASSUME NEW c \in Characters, Write(c) PROVE Report!Next
  <2> DEFINE ink == IF c = Background THEN CrashPaper ELSE c
             t == [report EXCEPT ![<<x, y>>] = ink]
  <2>1. WriteDone(c)
    BY <1>4, ReportingText, WriteWorks DEF Characters
  <2>2. t = [TextOn(gfx) EXCEPT ![<<x, y>>] = IF c = Background THEN paper ELSE c]
    BY ReportingText
  <2>3. ink \in Color \ {Background}
    BY PaperAssumption DEF Characters
  <2> HIDE DEF t, ink
  <2>4. \/ x < Cols - 1 /\ x' = x + 1 /\ report' = t /\ UNCHANGED <<seen, y>>
        \/ /\ x = Cols - 1 /\ x' = 0 /\ y' = y + 1 /\ report' = t /\ seen' = seen
    BY <1>1, <2>1, <2>2, ReportingText DEF WriteDone
  <2>5. Report!Write(ink)
    BY <1>1, <2>4 DEF Report!Write, Report!NextLine, report, seen, t
  <2> QED BY <2>3, <2>5 DEF Report!Next
<1> QED BY <1>2, <1>3, <1>4 DEF PutText

\* An exception may strike wherever the console is: the report starts on an empty
\* screen of its own color, it is the text that isr_handler() prints, and all of
\* it is visible when the machine stops.
THEOREM CrashesAreReported == Spec => ReportIsText
<1>1. ConsoleInv /\ [Next]_vars
        => [mode' # "runs" =>
              /\ mode = "runs" => /\ TextIn(gfx.buffer, CrashPaper)' = Report!Cleared
                                  /\ x' = 0 /\ y' = 0
              /\ mode = "reports" => [Report!Next]_(Report!screen)
              /\ mode' = "halted" => Report!Flush]_vars
  <2> SUFFICES ASSUME ConsoleInv, Next, mode' # "runs"
               PROVE  /\ mode = "runs" => /\ TextIn(gfx.buffer, CrashPaper)' = Report!Cleared
                                          /\ x' = 0 /\ y' = 0
                      /\ mode = "reports" => [Report!Next]_(Report!screen)
                      /\ mode' = "halted" => Report!Flush
    OBVIOUS
  <2>1. CASE PutText
    BY <2>1, ReportPut DEF PutText
  <2>2. CASE Crash
    <3>1. TextOf(PictureOf(gfx'), CrashPaper) = [p \in CharCells |-> CrashPaper]
      BY <2>2, PaperAssumption, ClearedText DEF Crash, ConsoleInv
    <3>2. \A g : TextIn(g.buffer, CrashPaper) = TextOf(PictureOf(g), CrashPaper)
      BY TextsShown
    <3>3. TextIn(gfx'.buffer, CrashPaper) = Report!Cleared
      BY <3>1, <3>2 DEF Report!Cleared, Report!Cells, CharCells
    <3> QED BY <2>2, <3>3 DEF Crash, ResetCursor
  <2>3. CASE Halt
    <3>1. Report!Flush
      BY <2>3, ReportFlushed DEF Halt
    <3> QED BY <2>3, <3>1 DEF Halt, Report!Next
  <2> QED BY <2>1, <2>2, <2>3 DEF Next, PutText
<1> QED BY <1>1, ConsoleStarts, InvKept, CursorStaysOnScreen, PTL DEF Spec, ReportIsText

=============================================================================
