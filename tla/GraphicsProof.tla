--------------------------- MODULE GraphicsProof ---------------------------
(***************************************************************************)
(* Proofs about the graphics driver, for every size of the screen and every*)
(* way a client draws: what is drawn, and what the next swap copies.       *)
(***************************************************************************)
EXTENDS Graphics, Induction

LEMMA RectanglesTyped ==
  /\ Screen \in Rectangle /\ NoRect \in Rectangle
  /\ \A r, s \in Rectangle : Clipped(r) \in Rectangle /\ Enclosing(r, s) \in Rectangle
BY SizeAssumption
   DEF Screen, NoRect, Rectangle, Clipped, Enclosing, Box, Least, Most

LEMMA ClippedOnScreen ==
  ASSUME NEW r \in Rectangle, ~ Empty(Clipped(r))
  PROVE  Enclosing(Screen, Clipped(r)) = Screen
BY SizeAssumption DEF Screen, Rectangle, Clipped, Enclosing, Box, Least, Most, Empty

\* Chunks of four and the rest are all of the elements and no other, so a whole
\* screen is cleared whatever its size.
LEMMA RunIsAll ==
  ASSUME NEW from \in Int, NEW count \in Nat
  PROVE  Run(from, count) = from .. from + count - 1
<1> DEFINE chunks == count \div 4
<1>1. chunks \in Nat /\ 4 * chunks <= count
  OBVIOUS
<1>2. Run(from, count) =
        (from .. from + 4 * chunks - 1) \cup (from + 4 * chunks .. from + count - 1)
  BY DEF Run
<1> HIDE DEF chunks
<1> QED BY <1>1, <1>2

THEOREM ClearPaintsAll ==
  ASSUME NEW g, NEW c,
         g = [buffer |-> g.buffer, screen |-> g.screen, rect |-> g.rect,
              enabled |-> g.enabled]
  PROVE  Clear(g, c).buffer = [a \in Addresses |-> c]
<1>1. Run(0, Width * Height) = Addresses
  <2> DEFINE size == Width * Height
  <2>1. size \in Nat
    BY SizeAssumption
  <2>2. Addresses = 0 .. size - 1
    BY DEF Addresses
  <2> HIDE DEF size
  <2>3. 0 .. 0 + size - 1 = 0 .. size - 1
    BY <2>1
  <2>4. \A from \in Int : Run(from, size) = from .. from + size - 1
    BY <2>1, RunIsAll
  <2>5. Run(0, size) = 0 .. 0 + size - 1
    BY <2>4
  <2> QED BY <2>2, <2>3, <2>5 DEF size
<1> QED BY <1>1 DEF Clear, MarkAll

-----------------------------------------------------------------------------
(* Addresses and the plane.                                                *)

LEMMA AddressOfPixel ==
  ASSUME NEW p \in Pixels
  PROVE  At(p[1], p[2]) \in Addresses /\ p[2] * Width \in Nat
<1>1. /\ p[1] \in 0 .. Width - 1 /\ p[2] \in Nat /\ p[2] <= Height - 1
      /\ Width \in Nat \ {0} /\ Height \in Nat \ {0}
  BY SizeAssumption DEF Pixels
<1>2. p[2] * Width <= (Height - 1) * Width /\ p[2] * Width \in Nat
  BY <1>1
<1>3. (Height - 1) * Width = Width * Height - Width /\ Width * Height \in Nat
  BY <1>1
<1> QED BY <1>1, <1>2, <1>3 DEF At, Addresses

\* A row does not reach into the next one.
LEMMA RowsApart ==
  ASSUME NEW i \in Int, NEW j \in Int, i < j
  PROVE  i * Width + Width <= j * Width
<1>1. Width \in Nat /\ j - i - 1 \in Nat
  BY SizeAssumption
<1>2. (j - i - 1) * Width >= 0
  BY <1>1
<1>3. (j - i - 1) * Width = j * Width - i * Width - Width
  BY <1>1
<1>4. j * Width \in Int /\ i * Width \in Int
  BY <1>1
<1> QED BY <1>1, <1>2, <1>3, <1>4

LEMMA PixelsDiffer ==
  ASSUME NEW p \in Pixels, NEW q \in Pixels, At(p[1], p[2]) = At(q[1], q[2])
  PROVE  p = q
<1>1. /\ p[1] \in 0 .. Width - 1 /\ q[1] \in 0 .. Width - 1
      /\ p[2] \in Int /\ q[2] \in Int /\ Width \in Nat
      /\ p = <<p[1], p[2]>> /\ q = <<q[1], q[2]>>
      /\ p[2] * Width \in Int /\ q[2] * Width \in Int
  BY SizeAssumption DEF Pixels
<1>2. p[2] * Width + p[1] = q[2] * Width + q[1]
  BY DEF At
<1>3. ~ (p[2] < q[2]) /\ ~ (q[2] < p[2])
  BY <1>1, <1>2, RowsApart
<1>4. p[2] = q[2]
  BY <1>1, <1>3
<1>5. p[2] * Width = q[2] * Width
  BY <1>4
<1>6. p[1] = q[1]
  BY <1>1, <1>2, <1>5
<1> QED BY <1>1, <1>4, <1>6

\* The runs of the rows of a rectangle that does not cross the edges are the
\* rectangle on the plane.
LEMMA CoversIsIn ==
  ASSUME NEW v \in Rectangle, v.x1 >= 0, v.x2 <= Width - 1, NEW p \in Pixels
  PROVE  Covers(v, At(p[1], p[2])) <=> In(p, v)
<1>1. /\ p[1] \in 0 .. Width - 1 /\ p[2] \in Int /\ Width \in Nat
      /\ v.x1 \in Int /\ v.x2 \in Int /\ v.y1 \in Int /\ v.y2 \in Int
      /\ p[2] * Width \in Int
  BY SizeAssumption DEF Pixels, Rectangle
<1>2. ASSUME In(p, v) PROVE Covers(v, At(p[1], p[2]))
  <2>1. p[2] * Width + p[1] \in p[2] * Width + v.x1 .. p[2] * Width + v.x2
    BY <1>1, <1>2 DEF In
  <2> QED BY <1>2, <2>1 DEF Covers, At, In
<1>3. ASSUME Covers(v, At(p[1], p[2])) PROVE In(p, v)
  <2>1. PICK j \in v.y1 .. v.y2 :
          p[2] * Width + p[1] \in j * Width + v.x1 .. j * Width + v.x2
    BY <1>3 DEF Covers, At
  <2>2. j \in Int /\ j * Width \in Int
    BY <1>1
  <2>3. ~ (p[2] < j) /\ ~ (j < p[2])
    BY <1>1, <2>1, <2>2, RowsApart
  <2>4. p[2] = j
    BY <1>1, <2>2, <2>3
  <2>5. p[2] * Width = j * Width
    BY <2>4
  <2>6. p[1] \in v.x1 .. v.x2
    BY <1>1, <2>1, <2>2, <2>5
  <2> QED BY <2>4, <2>6 DEF In
<1> QED BY <1>2, <1>3

LEMMA ClippedIsIn ==
  ASSUME NEW r \in Rectangle, NEW p \in Pixels
  PROVE  Covers(Clipped(r), At(p[1], p[2])) <=> In(p, r)
<1>1. Clipped(r) \in Rectangle /\ Clipped(r).x1 >= 0 /\ Clipped(r).x2 <= Width - 1
  BY SizeAssumption DEF Rectangle, Clipped, Most, Least
<1>2. In(p, Clipped(r)) <=> In(p, r)
  BY SizeAssumption DEF In, Clipped, Most, Least, Rectangle, Pixels
<1> QED BY <1>1, <1>2, CoversIsIn

\* Every address is a pixel's.
LEMMA PixelOfAddress ==
  ASSUME NEW a \in Addresses
  PROVE  \E p \in Pixels : At(p[1], p[2]) = a
<1> DEFINE Rowed(j) == \A b \in 0 .. j * Width - 1 :
                         \E q \in (0 .. Width - 1) \X (0 .. j - 1) : q[2] * Width + q[1] = b
           S == {j \in Nat : Rowed(j)}
<1> Width \in Nat /\ Height \in Nat
  BY SizeAssumption
<1>1. 0 \in S
  <2>1. Rowed(0)
    OBVIOUS
  <2> HIDE DEF Rowed
  <2> QED BY <2>1
<1>2. ASSUME NEW j \in Nat, j \in S PROVE j + 1 \in S
  <2>1. ASSUME NEW b \in 0 .. (j + 1) * Width - 1
        PROVE  \E q \in (0 .. Width - 1) \X (0 .. (j + 1) - 1) : q[2] * Width + q[1] = b
    <3>1. (j + 1) * Width = j * Width + Width /\ j * Width \in Nat
      OBVIOUS
    <3>2. CASE b < j * Width
      <4>1. PICK q \in (0 .. Width - 1) \X (0 .. j - 1) : q[2] * Width + q[1] = b
        BY <1>2, <3>1, <3>2
      <4>2. q \in (0 .. Width - 1) \X (0 .. (j + 1) - 1)
        OBVIOUS
      <4> QED BY <4>1, <4>2
    <3>3. CASE ~ (b < j * Width)
      <4> DEFINE q == <<b - j * Width, j>>
      <4>1. q[1] \in 0 .. Width - 1 /\ q[2] = j /\ q[1] = b - j * Width
        BY <3>1, <3>3
      <4>2. q[2] * Width + q[1] = b
        BY <3>1, <4>1
      <4>3. q \in (0 .. Width - 1) \X (0 .. (j + 1) - 1)
        BY <4>1
      <4> QED BY <4>2, <4>3
    <3> QED BY <3>2, <3>3
  <2>2. Rowed(j + 1)
    BY <2>1
  <2> HIDE DEF Rowed
  <2> QED BY <2>2
<1> HIDE DEF S, Rowed
<1>3. Height \in S
  BY <1>1, <1>2, SetInduction
<1>4. Rowed(Height)
  BY <1>3 DEF S
<1>5. Width * Height = Height * Width
  OBVIOUS
<1>6. PICK q \in (0 .. Width - 1) \X (0 .. Height - 1) : q[2] * Width + q[1] = a
  BY <1>4, <1>5 DEF Rowed, Addresses
<1> QED BY <1>6 DEF Pixels, At

-----------------------------------------------------------------------------
(* Copying up the screen, row by row.                                      *)

Buffers == [Addresses -> Color]

\* The buffer b after k rows have moved up by n.
MovedUp(b, n, k) ==
  [a \in Addresses |-> IF a < k * Width THEN b[a + n * Width] ELSE b[a]]

LEMMA RowsFit ==
  ASSUME NEW n \in 1 .. Height, NEW k \in 0 .. Height - n, NEW a \in Addresses, a < k * Width
  PROVE  a + n * Width \in Addresses
<1>1. /\ Width \in Nat /\ Height \in Nat /\ n \in Nat /\ k \in Nat /\ a \in Nat
      /\ n + k <= Height
  BY SizeAssumption DEF Addresses
<1>2. (n + k) * Width <= Height * Width /\ (n + k) * Width = n * Width + k * Width
  BY <1>1
<1>3. Height * Width = Width * Height /\ n * Width \in Nat /\ k * Width \in Nat
      /\ Width * Height \in Nat
  BY <1>1
<1> QED BY <1>1, <1>2, <1>3 DEF Addresses

LEMMA MovedUpTyped ==
  ASSUME NEW b \in Buffers, NEW n \in 1 .. Height, NEW k \in 0 .. Height - n
  PROVE  MovedUp(b, n, k) \in Buffers
BY RowsFit DEF MovedUp, Buffers

\* One row more: it is read where no row has been written yet.
LEMMA OneRowMore ==
  ASSUME NEW b \in Buffers, NEW n \in 1 .. Height, NEW k \in 1 .. Height - n
  PROVE  CopyRow(MovedUp(b, n, k - 1), At(0, n + (k - 1)), At(0, k - 1), Width)
           = MovedUp(b, n, k)
<1> DEFINE from == At(0, n + (k - 1))
           to == At(0, k - 1)
           c == MovedUp(b, n, k - 1)
<1>1. /\ Width \in Nat \ {0} /\ Height \in Nat /\ n \in Nat /\ k \in Nat
      /\ k - 1 \in 0 .. Height - n /\ k \in 0 .. Height - n
      /\ (k - 1) * Width \in Nat /\ n * Width \in Nat /\ k * Width \in Nat
  BY SizeAssumption
<1>2. to = (k - 1) * Width /\ from = n * Width + (k - 1) * Width
      /\ k * Width = (k - 1) * Width + Width /\ to \in Nat /\ from \in Nat
  BY <1>1 DEF At
<1>3. Run(to, Width) = to .. to + Width - 1
  BY <1>1, <1>2, RunIsAll
<1> HIDE DEF from, to
<1>4. ASSUME NEW a \in Addresses
      PROVE  (IF a \in Run(to, Width) THEN c[a - to + from] ELSE c[a]) = MovedUp(b, n, k)[a]
  <2>1. a \in Nat
    BY SizeAssumption DEF Addresses
  <2>2. CASE a \in Run(to, Width)
    <3>1. a >= (k - 1) * Width /\ a < k * Width /\ a - to + from = a + n * Width
      BY <1>1, <1>2, <1>3, <2>1, <2>2
    <3>2. a + n * Width \in Addresses
      BY <1>1, <3>1, RowsFit
    <3>3. ~ (a + n * Width < (k - 1) * Width)
      BY <1>1, <2>1, <3>1
    <3>4. c[a + n * Width] = b[a + n * Width]
      BY <3>2, <3>3 DEF MovedUp
    <3> QED BY <2>2, <3>1, <3>4 DEF MovedUp
  <2>3. CASE a \notin Run(to, Width)
    <3>1. a < (k - 1) * Width <=> a < k * Width
      BY <1>1, <1>2, <1>3, <2>1, <2>3
    <3> QED BY <2>3, <3>1 DEF MovedUp
  <2> QED BY <2>2, <2>3
<1> HIDE DEF c
<1>5. CopyRow(c, from, to, Width)
        = [a \in Addresses |-> IF a \in Run(to, Width) THEN c[a - to + from] ELSE c[a]]
  BY DEF CopyRow
<1>6. MovedUp(b, n, k) = [a \in Addresses |-> MovedUp(b, n, k)[a]]
  BY DEF MovedUp
<1>7. CopyRow(c, from, to, Width) = MovedUp(b, n, k)
  BY <1>4, <1>5, <1>6
<1> QED BY <1>7 DEF c, from, to

\* After the last turn of the loop the whole area has moved.
LEMMA CopyMovesUp ==
  ASSUME NEW g, g.buffer \in Buffers, NEW n \in 1 .. Height
  PROVE  Copy(g, 0, n, 0, 0, Width, Height - n)
           = Mark([g EXCEPT !.buffer = MovedUp(g.buffer, n, Height - n)],
                  Box(0, 0, Width, Height - n))
<1> DEFINE b == g.buffer
           h == Height - n
           row(k) == IF n < 0 THEN h - k ELSE k - 1
           done[k \in 0 .. h] ==
             IF k = 0 THEN b
             ELSE CopyRow(done[k - 1], At(0, n + row(k)), At(0, 0 + row(k)), Width)
           up == [k \in 0 .. h |-> MovedUp(b, n, k)]
<1>1. /\ Width \in Nat \ {0} /\ Height \in Nat \ {0} /\ n \in Nat /\ h \in Nat
      /\ n + h = Height /\ ~ (n < 0)
  BY SizeAssumption
<1>2. MovedUp(b, n, 0) = b
  <2>1. \A a \in Addresses : ~ (a < 0 * Width)
    BY <1>1 DEF Addresses
  <2> QED BY <2>1 DEF MovedUp, Buffers
<1>3. ASSUME NEW k \in 0 .. h, k # 0
      PROVE  CopyRow(up[k - 1], At(0, n + row(k)), At(0, 0 + row(k)), Width) = up[k]
  <2>1. k \in 1 .. h /\ k - 1 \in 0 .. h /\ row(k) = k - 1 /\ 0 + row(k) = k - 1
    BY <1>1, <1>3
  <2>2. up[k - 1] = MovedUp(b, n, k - 1) /\ up[k] = MovedUp(b, n, k)
    BY <2>1
  <2> HIDE DEF up, row
  <2>3. CopyRow(MovedUp(b, n, k - 1), At(0, n + (k - 1)), At(0, k - 1), Width)
          = MovedUp(b, n, k)
    BY <2>1, OneRowMore
  <2> QED BY <2>1, <2>2, <2>3
<1>4. up = [k \in 0 .. h |->
              IF k = 0 THEN b
              ELSE CopyRow(up[k - 1], At(0, n + row(k)), At(0, 0 + row(k)), Width)]
  BY <1>2, <1>3
<1>5. done = [k \in 0 .. h |->
                IF k = 0 THEN b
                ELSE CopyRow(done[k - 1], At(0, n + row(k)), At(0, 0 + row(k)), Width)]
  <2> HIDE DEF up, row
  <2> QED BY <1>4
<1>6. done[h] = MovedUp(b, n, h)
  <2> DEFINE S == {k \in 0 .. h : done[k] = MovedUp(b, n, k)}
  <2> HIDE DEF done, row
  <2>1. 0 \in S
    BY <1>1, <1>2, <1>5
  <2>2. ASSUME NEW k \in 1 .. h, k - 1 \in S PROVE k \in S
    <3>1. k \in 0 .. h /\ k # 0
      OBVIOUS
    <3>2. done[k] = CopyRow(done[k - 1], At(0, n + row(k)), At(0, 0 + row(k)), Width)
      BY <1>5, <3>1
    <3>3. done[k - 1] = up[k - 1]
      BY <2>2
    <3>4. done[k] = up[k]
      BY <1>3, <3>1, <3>2, <3>3
    <3> QED BY <3>1, <3>4
  <2> HIDE DEF S
  <2>3. 0 .. h \subseteq S
    BY <1>1, <2>1, <2>2, TurnInduction
  <2> QED BY <1>1, <2>3 DEF S
<1> HIDE DEF up, done
<1>7. Copy(g, 0, n, 0, 0, Width, h)
        = Mark([g EXCEPT !.buffer = done[h]], Box(0, 0, Width, h))
  BY <1>1 DEF Copy, done
<1> QED BY <1>6, <1>7

-----------------------------------------------------------------------------
(* The driver's state and what each function draws.                        *)

\* Marking is on only after gfx_mark_all_dirty(), drawing on the screen cannot
\* grow the rectangle beyond it, and while marking is off it does not grow at all:
\* the dirty rectangle is the whole screen or the reset one.
DrawInv(g) ==
  /\ g \in [buffer : Buffers, screen : Buffers, rect : Rectangle, enabled : BOOLEAN]
  /\ g.rect = IF g.enabled THEN Screen ELSE NoRect

\* What a state shows to gfx_get_pixel() and to the user.
PictureOf(g) == [p \in Pixels |-> GetPixel(g, p[1], p[2])]
ShownOf(g) == [p \in Pixels |-> GetScreenPixel(g, p[1], p[2])]

LEMMA PictureValues ==
  ASSUME NEW g
  PROVE  PictureOf(g) = [p \in Pixels |-> g.buffer[At(p[1], p[2])]]
<1>1. \A p \in Pixels : p = <<p[1], p[2]>>
  BY DEF Pixels
<1> QED BY <1>1 DEF PictureOf, GetPixel

LEMMA ShownValues ==
  ASSUME NEW g
  PROVE  ShownOf(g) = [p \in Pixels |-> g.screen[At(p[1], p[2])]]
<1>1. \A p \in Pixels : p = <<p[1], p[2]>>
  BY DEF Pixels
<1> QED BY <1>1 DEF ShownOf, GetScreenPixel

LEMMA StoreKeeps ==
  ASSUME NEW g, DrawInv(g), NEW b \in Buffers
  PROVE  /\ DrawInv([g EXCEPT !.buffer = b]) /\ DrawInv([g EXCEPT !.screen = b])
         /\ [g EXCEPT !.buffer = b].buffer = b /\ [g EXCEPT !.buffer = b].screen = g.screen
         /\ [g EXCEPT !.screen = b].buffer = g.buffer /\ [g EXCEPT !.screen = b].screen = b
BY DEF DrawInv

LEMMA MarkKeeps ==
  ASSUME NEW g, DrawInv(g), NEW r \in Rectangle, Enclosing(Screen, r) = Screen
  PROVE  DrawInv(Mark(g, r)) /\ Mark(g, r).buffer = g.buffer /\ Mark(g, r).screen = g.screen
BY RectanglesTyped DEF Mark, DrawInv

LEMMA ResetKeeps ==
  ASSUME NEW g, DrawInv(g)
  PROVE  /\ DrawInv(Reset(g)) /\ Reset(g).buffer = g.buffer /\ Reset(g).screen = g.screen
         /\ DrawInv(MarkAll(g)) /\ MarkAll(g).buffer = g.buffer
BY RectanglesTyped DEF Reset, MarkAll, DrawInv

LEMMA FillDraws ==
  ASSUME NEW g, DrawInv(g), NEW r \in Rectangle, NEW c \in Color
  PROVE  /\ DrawInv(Fill(g, r, c)) /\ ShownOf(Fill(g, r, c)) = ShownOf(g)
         /\ PictureOf(Fill(g, r, c))
              = [p \in Pixels |-> IF In(p, r) THEN c ELSE PictureOf(g)[p]]
<1> DEFINE v == Clipped(r)
           b == [a \in Addresses |-> IF Covers(v, a) THEN c ELSE g.buffer[a]]
           h == [g EXCEPT !.buffer = b]
<1>1. b \in Buffers
  BY DEF Buffers, DrawInv
<1>2. \A p \in Pixels : b[At(p[1], p[2])] = IF In(p, r) THEN c ELSE g.buffer[At(p[1], p[2])]
  BY AddressOfPixel, ClippedIsIn
<1>3. v \in Rectangle
  BY RectanglesTyped
<1>4. [a \in Addresses |-> IF Covers(v, a) THEN c ELSE g.buffer[a]] = b
  OBVIOUS
<1>5. Fill(g, r, c) = IF Empty(v) THEN g ELSE Mark(h, v)
  BY DEF Fill
<1>6. CASE Empty(v)
  <2>1. \A p \in Pixels : ~ In(p, r)
    <3>1. \A p \in Pixels : ~ Covers(v, At(p[1], p[2]))
      <4> SUFFICES ASSUME NEW p \in Pixels, Covers(v, At(p[1], p[2])) PROVE FALSE
        OBVIOUS
      <4>1. In(p, v)
        <5>1. v.x1 >= 0 /\ v.x2 <= Width - 1
          BY SizeAssumption DEF Clipped, Rectangle, Most, Least
        <5> QED BY <1>3, <5>1, CoversIsIn
      <4> QED BY <1>3, <1>6, <4>1 DEF In, Empty, Rectangle
    <3> QED BY <3>1, ClippedIsIn
  <2> QED BY <1>5, <1>6, <2>1, PictureValues, ShownValues
<1>7. CASE ~ Empty(v)
  <2>1. DrawInv(h) /\ h.buffer = b /\ h.screen = g.screen
    BY <1>1, StoreKeeps
  <2>2. Enclosing(Screen, v) = Screen
    BY <1>7, ClippedOnScreen
  <2> HIDE DEF h, b, v
  <2>3. DrawInv(Mark(h, v)) /\ Mark(h, v).buffer = b /\ Mark(h, v).screen = g.screen
    BY <1>3, <2>1, <2>2, MarkKeeps
  <2> QED BY <1>2, <1>5, <1>7, <2>3, PictureValues, ShownValues
<1> QED BY <1>6, <1>7

LEMMA ClearDraws ==
  ASSUME NEW g, DrawInv(g), NEW c \in Color
  PROVE  /\ DrawInv(Clear(g, c)) /\ ShownOf(Clear(g, c)) = ShownOf(g)
         /\ PictureOf(Clear(g, c))
              = [p \in Pixels |-> IF In(p, Screen) THEN c ELSE PictureOf(g)[p]]
<1> DEFINE b == [a \in Addresses |-> c]
<1>1. Clear(g, c).buffer = b
  <2>1. g = [buffer |-> g.buffer, screen |-> g.screen, rect |-> g.rect,
             enabled |-> g.enabled]
    BY DEF DrawInv
  <2> QED BY <2>1, ClearPaintsAll
<1>2. DrawInv(Clear(g, c)) /\ Clear(g, c).screen = g.screen
  <2>1. b \in Buffers
    BY DEF Buffers
  <2>2. Clear(g, c) = [buffer |-> b, screen |-> g.screen, rect |-> Screen, enabled |-> TRUE]
    BY <1>1 DEF Clear, MarkAll, DrawInv
  <2> QED BY <2>1, <2>2, RectanglesTyped DEF DrawInv
<1>3. \A p \in Pixels : In(p, Screen) /\ b[At(p[1], p[2])] = c
  BY SizeAssumption, AddressOfPixel DEF In, Screen, Box, Pixels
<1> QED BY <1>1, <1>2, <1>3, PictureValues, ShownValues

LEMMA ClearDirtyDraws ==
  ASSUME NEW g, DrawInv(g), NEW c \in Color
  PROVE  /\ DrawInv(ClearDirty(g, c))
         /\ PictureOf(ClearDirty(g, c))
              = [p \in Pixels |-> IF In(p, g.rect) THEN c ELSE PictureOf(g)[p]]
<1> DEFINE b == [a \in Addresses |-> IF Covers(g.rect, a) THEN c ELSE g.buffer[a]]
           h == [g EXCEPT !.buffer = b]
<1>1. b \in Buffers
  BY DEF Buffers, DrawInv
<1>2. DrawInv(h) /\ h.buffer = b
  BY <1>1, StoreKeeps
<1>3. ClearDirty(g, c) = Reset(h)
  BY DEF ClearDirty
<1>4. ASSUME NEW p \in Pixels PROVE Covers(g.rect, At(p[1], p[2])) <=> In(p, g.rect)
  <2>1. CASE g.enabled
    <3>1. g.rect = Screen /\ Screen.x1 >= 0 /\ Screen.x2 <= Width - 1
      BY <2>1, SizeAssumption DEF DrawInv, Screen, Box
    <3> QED BY <3>1, CoversIsIn, RectanglesTyped
  <2>2. CASE ~ g.enabled
    BY <2>2, SizeAssumption DEF DrawInv, NoRect, Covers, In
  <2> QED BY <2>1, <2>2
<1>5. \A p \in Pixels :
        b[At(p[1], p[2])] = IF In(p, g.rect) THEN c ELSE g.buffer[At(p[1], p[2])]
  BY <1>4, AddressOfPixel
<1> HIDE DEF h, b
<1>6. DrawInv(Reset(h)) /\ Reset(h).buffer = b
  BY <1>2, ResetKeeps
<1> QED BY <1>3, <1>5, <1>6, PictureValues

LEMMA SwapDraws ==
  ASSUME NEW g, DrawInv(g)
  PROVE  /\ DrawInv(Swap(g)) /\ Swap(g).buffer = g.buffer
         /\ DrawInv(SwapFull(g)) /\ SwapFull(g).buffer = g.buffer
         /\ ShownOf(Swap(g)) = PictureOf(g) /\ ShownOf(SwapFull(g)) = PictureOf(g)
<1> DEFINE s == [a \in Addresses |->
                   IF Covers(g.rect, a) THEN g.buffer[a] ELSE g.screen[a]]
           h == [g EXCEPT !.screen = g.buffer]
           i == [g EXCEPT !.screen = s]
<1>1. s \in Buffers /\ g.buffer \in Buffers
  BY DEF Buffers, DrawInv
<1>2. DrawInv(h) /\ h.buffer = g.buffer /\ h.screen = g.buffer
  BY <1>1, StoreKeeps
<1>3. DrawInv(i) /\ i.buffer = g.buffer /\ i.screen = s
  BY <1>1, StoreKeeps
<1>4. /\ SwapFull(g) = Reset(h)
      /\ Swap(g) = IF ~ g.enabled \/ Empty(g.rect) THEN SwapFull(g) ELSE Reset(i)
  BY DEF SwapFull, Swap
<1>5. g.enabled => \A p \in Pixels : s[At(p[1], p[2])] = g.buffer[At(p[1], p[2])]
  <2>1. Screen.x1 >= 0 /\ Screen.x2 <= Width - 1 /\ \A p \in Pixels : In(p, Screen)
    BY SizeAssumption DEF Screen, Box, In, Pixels
  <2>2. \A p \in Pixels : Covers(Screen, At(p[1], p[2]))
    BY <2>1, RectanglesTyped, CoversIsIn
  <2> QED BY <2>2, AddressOfPixel DEF DrawInv
<1> HIDE DEF h, i, s
<1>6. /\ DrawInv(Reset(h)) /\ Reset(h).buffer = g.buffer /\ Reset(h).screen = g.buffer
      /\ DrawInv(Reset(i)) /\ Reset(i).buffer = g.buffer /\ Reset(i).screen = s
  BY <1>2, <1>3, ResetKeeps
<1> QED BY <1>4, <1>5, <1>6, PictureValues, ShownValues

LEMMA CopyDraws ==
  ASSUME NEW g, DrawInv(g), NEW n \in 1 .. Height
  PROVE  LET h == Copy(g, 0, n, 0, 0, Width, Height - n)
         IN  /\ DrawInv(h) /\ ShownOf(h) = ShownOf(g)
             /\ PictureOf(h) = [p \in Pixels |-> IF p[2] + n < Height
                                                   THEN PictureOf(g)[<<p[1], p[2] + n>>]
                                                   ELSE PictureOf(g)[p]]
<1> DEFINE b == MovedUp(g.buffer, n, Height - n)
           i == [g EXCEPT !.buffer = b]
           r == Box(0, 0, Width, Height - n)
<1>1. g.buffer \in Buffers /\ n \in Nat /\ Height - n \in 0 .. Height - n
  BY SizeAssumption DEF DrawInv
<1>2. b \in Buffers
  BY <1>1, MovedUpTyped
<1>3. DrawInv(i) /\ i.buffer = b /\ i.screen = g.screen
  BY <1>2, StoreKeeps
<1>4. r \in Rectangle /\ Enclosing(Screen, r) = Screen
  BY SizeAssumption DEF Box, Rectangle, Screen, Enclosing, Least, Most
<1>5. Copy(g, 0, n, 0, 0, Width, Height - n) = Mark(i, r)
  BY <1>1, CopyMovesUp
<1>6. ASSUME NEW p \in Pixels
      PROVE  b[At(p[1], p[2])] = IF p[2] + n < Height
                                   THEN g.buffer[At(p[1], p[2] + n)]
                                   ELSE g.buffer[At(p[1], p[2])]
  <2>1. /\ p[1] \in 0 .. Width - 1 /\ p[2] \in Nat /\ Width \in Nat /\ Height \in Nat
        /\ p[2] * Width \in Nat /\ n * Width \in Nat /\ (Height - n) * Width \in Int
    BY SizeAssumption DEF Pixels
  <2>2. p[2] + n < Height => p[2] * Width + Width <= (Height - n) * Width
    BY <1>1, <2>1, RowsApart
  <2>3. (p[2] + n) * Width = p[2] * Width + n * Width
    BY <1>1, <2>1
  <2>4. p[2] = Height - n \/ Height - n < p[2] \/ p[2] + n < Height
    BY <1>1, <2>1
  <2>5. p[2] = Height - n => p[2] * Width = (Height - n) * Width
    OBVIOUS
  <2>6. Height - n < p[2] => (Height - n) * Width + Width <= p[2] * Width
    BY <1>1, <2>1, RowsApart
  <2>7. p[2] * Width + p[1] < (Height - n) * Width <=> p[2] + n < Height
    BY <1>1, <2>1, <2>2, <2>4, <2>5, <2>6
  <2>8. p[2] * Width + p[1] + n * Width = (p[2] + n) * Width + p[1]
    BY <2>1, <2>3
  <2> QED BY <2>7, <2>8, AddressOfPixel DEF MovedUp, At
<1>7. \A p \in Pixels : p[2] + n < Height => <<p[1], p[2] + n>> \in Pixels
  BY <1>1, SizeAssumption DEF Pixels
<1> HIDE DEF b, i
<1>8. DrawInv(Mark(i, r)) /\ Mark(i, r).buffer = b /\ Mark(i, r).screen = g.screen
  BY <1>3, <1>4, MarkKeeps
<1>9. PictureOf(Mark(i, r)) = [p \in Pixels |-> IF p[2] + n < Height
                                                   THEN PictureOf(g)[<<p[1], p[2] + n>>]
                                                   ELSE PictureOf(g)[p]]
  BY <1>6, <1>7, <1>8, PictureValues
<1>10. ShownOf(Mark(i, r)) = ShownOf(g)
  BY <1>8, ShownValues
<1> QED BY <1>5, <1>8, <1>9, <1>10

\* A store through the pointer is one pixel.
LEMMA PokeDraws ==
  ASSUME NEW g, DrawInv(g), NEW a \in Addresses, NEW c \in Color
  PROVE  /\ DrawInv(Poke(g, a, c))
         /\ \E q \in Pixels : PictureOf(Poke(g, a, c)) = [PictureOf(g) EXCEPT ![q] = c]
<1> DEFINE b == [g.buffer EXCEPT ![a] = c]
<1>1. b \in Buffers /\ Poke(g, a, c) = [g EXCEPT !.buffer = b]
  BY DEF Buffers, DrawInv, Poke
<1>2. DrawInv(Poke(g, a, c)) /\ Poke(g, a, c).buffer = b
  <2> HIDE DEF b
  <2>1. DrawInv([g EXCEPT !.buffer = b]) /\ [g EXCEPT !.buffer = b].buffer = b
    BY <1>1, StoreKeeps
  <2> QED BY <1>1, <2>1
<1>3. PICK q \in Pixels : At(q[1], q[2]) = a
  BY PixelOfAddress
<1>4. \A p \in Pixels : b[At(p[1], p[2])] = IF p = q THEN c ELSE g.buffer[At(p[1], p[2])]
  BY <1>3, PixelsDiffer, AddressOfPixel DEF Buffers, DrawInv
<1> HIDE DEF b
<1>5. PictureOf(Poke(g, a, c)) = [PictureOf(g) EXCEPT ![q] = c]
  BY <1>2, <1>4, PictureValues
<1> QED BY <1>2, <1>5

\* What any client does to the picture.
Paints(g, h) ==
  \E r \in Areas \cup {Screen, g.rect}, c \in Color :
    PictureOf(h) = [p \in Pixels |-> IF In(p, r) THEN c ELSE PictureOf(g)[p]]

SetsOne(g, h) ==
  \E q \in Pixels, c \in Color : PictureOf(h) = [PictureOf(g) EXCEPT ![q] = c]

Moves(g, h) ==
  \E n \in 1 .. Height - 1 :
    PictureOf(h) = [p \in Pixels |-> IF p[2] + n < Height
                                      THEN PictureOf(g)[<<p[1], p[2] + n>>]
                                      ELSE PictureOf(g)[p]]

DrawingStep(g, h) ==
  h.buffer = g.buffer \/ Paints(g, h) \/ SetsOne(g, h) \/ Moves(g, h)

LEMMA DrawStarts == DrawInit => DrawInv(gfx)
<1> SUFFICES ASSUME DrawInit PROVE DrawInv(gfx)
  OBVIOUS
<1> DEFINE b == [a \in Addresses |-> Background]
<1>1. PICK s \in [Addresses -> Color] :
        gfx = MarkAll([buffer |-> b, screen |-> s, rect |-> Screen, enabled |-> TRUE])
  BY DEF DrawInit
<1>2. b \in Buffers /\ s \in Buffers
  BY ColorAssumption DEF Buffers
<1> HIDE DEF b
<1> QED BY <1>1, <1>2, RectanglesTyped DEF DrawInv, MarkAll

LEMMA DrawKeeps == DrawInv(gfx) /\ DrawNext => DrawInv(gfx') /\ DrawingStep(gfx, gfx')
<1> SUFFICES ASSUME DrawInv(gfx), DrawNext PROVE DrawInv(gfx') /\ DrawingStep(gfx, gfx')
  OBVIOUS
<1>1. ASSUME NEW c \in Color, gfx' = Clear(gfx, c) \/ gfx' = ClearDirty(gfx, c)
      PROVE  DrawInv(gfx') /\ DrawingStep(gfx, gfx')
  <2>1. DrawInv(Clear(gfx, c)) /\ Paints(gfx, Clear(gfx, c))
    BY ClearDraws DEF Paints
  <2>2. DrawInv(ClearDirty(gfx, c)) /\ Paints(gfx, ClearDirty(gfx, c))
    BY ClearDirtyDraws DEF Paints
  <2> QED BY <1>1, <2>1, <2>2 DEF DrawingStep
<1>2. ASSUME NEW c \in Color, NEW r \in Areas, gfx' = Fill(gfx, r, c)
      PROVE  DrawInv(gfx') /\ DrawingStep(gfx, gfx')
  BY <1>2, AreasAssumption, FillDraws DEF DrawingStep, Paints
<1>3. ASSUME NEW c \in Color, NEW a \in Addresses, gfx' = Poke(gfx, a, c)
      PROVE  DrawInv(gfx') /\ DrawingStep(gfx, gfx')
  BY <1>3, PokeDraws DEF DrawingStep, SetsOne
<1>4. CASE ScrollUp
  <2>1. PICK n \in 1 .. Height - 1 : gfx' = Copy(gfx, 0, n, 0, 0, Width, Height - n)
    BY <1>4 DEF ScrollUp
  <2>2. n \in 1 .. Height
    BY SizeAssumption
  <2>3. Moves(gfx, gfx') /\ DrawInv(gfx')
    BY <2>1, <2>2, CopyDraws DEF Moves
  <2> QED BY <2>3 DEF DrawingStep
<1>5. CASE gfx' = MarkAll(gfx)
  BY <1>5, ResetKeeps DEF DrawingStep
<1>6. CASE gfx' = Swap(gfx) \/ gfx' = SwapFull(gfx)
  BY <1>6, SwapDraws DEF DrawingStep
<1> QED BY <1>1, <1>2, <1>3, <1>4, <1>5, <1>6 DEF DrawNext

\* A swap copies every pixel that was drawn since the last one: what a client
\* stores straight into the double buffer is never left off the screen.
THEOREM NothingEverMissed == DrawSpec => []NothingMissed
<1>1. DrawInv(gfx) /\ [DrawNext]_gfx => DrawInv(gfx)'
  BY DrawKeeps
<1>2. DrawInv(gfx) => NothingMissed
  BY SizeAssumption DEF DrawInv, NothingMissed, Screen, NoRect, Box, In, Pixels
<1> QED BY <1>1, <1>2, DrawStarts, PTL DEF DrawSpec

\* The dirty rectangle is always one gfx_swap_buffers() may copy without clipping,
\* and every store of a loop over the double buffer is inside of it.
THEOREM RectangleStaysOnScreen == DrawSpec => []DrawTypeOK
<1>1. DrawInv(gfx) /\ [DrawNext]_gfx => DrawInv(gfx)'
  BY DrawKeeps
<1>2. DrawInv(gfx) => DrawTypeOK
  BY SizeAssumption DEF DrawInv, DrawTypeOK, Buffers, Screen, NoRect, Box
<1> QED BY <1>1, <1>2, DrawStarts, PTL DEF DrawSpec

\* Loops over the rows of one array draw on the plane what their callers mean, for
\* every size of the screen and every rectangle a client may ask for.
THEOREM RowsArePlane == DrawSpec => DrawsOnThePlane
<1>1. DrawInv(gfx) /\ [DrawNext]_gfx => DrawInv(gfx)'
  BY DrawKeeps
<1>2. DrawInv(gfx) /\ [DrawNext]_gfx
        => [ \/ gfx'.buffer = gfx.buffer
             \/ \E r \in Areas \cup {Screen, gfx.rect}, c \in Color :
                  NewPicture = [p \in Pixels |-> IF In(p, r) THEN c ELSE Picture[p]]
             \/ \E q \in Pixels, c \in Color : NewPicture = [Picture EXCEPT ![q] = c]
             \/ \E n \in 1 .. Height - 1 :
                  NewPicture = [p \in Pixels |-> IF p[2] + n < Height
                                                   THEN Picture[<<p[1], p[2] + n>>]
                                                   ELSE Picture[p]] ]_gfx
  <2>1. NewPicture = PictureOf(gfx') /\ Picture = PictureOf(gfx)
    BY DEF NewPicture, Picture, PictureOf
  <2>2. Paints(gfx, gfx') =>
          \E r \in Areas \cup {Screen, gfx.rect}, c \in Color :
            NewPicture = [p \in Pixels |-> IF In(p, r) THEN c ELSE Picture[p]]
    BY <2>1 DEF Paints
  <2>3. SetsOne(gfx, gfx') =>
          \E q \in Pixels, c \in Color : NewPicture = [Picture EXCEPT ![q] = c]
    BY <2>1 DEF SetsOne
  <2>4. Moves(gfx, gfx') =>
          \E n \in 1 .. Height - 1 :
            NewPicture = [p \in Pixels |-> IF p[2] + n < Height
                                             THEN Picture[<<p[1], p[2] + n>>]
                                             ELSE Picture[p]]
    BY <2>1 DEF Moves
  <2> QED BY <2>2, <2>3, <2>4, DrawKeeps DEF DrawingStep
<1> QED BY <1>1, <1>2, DrawStarts, PTL DEF DrawSpec, DrawsOnThePlane

=============================================================================
