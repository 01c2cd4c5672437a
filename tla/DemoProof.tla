----------------------------- MODULE DemoProof -----------------------------
(***************************************************************************)
(* Proofs about the graphics demo: for every size of the screen and of the *)
(* disc the user never sees anything but one full disc, and for every hue, *)
(* saturation and value the integer color is near the exact one.           *)
(***************************************************************************)
EXTENDS Demo, GraphicsProof

LEMMA SquaresGrow ==
  ASSUME NEW i \in Nat, NEW j \in Nat
  PROVE  /\ i * i \in Nat
         /\ i <= j => i * i <= j * j
         /\ i < j => i * i < j * j
<1>1. i * i \in Nat /\ i * j \in Nat /\ j * j \in Nat
  OBVIOUS
<1>2. i <= j => i * i <= i * j /\ i * j <= j * j
  OBVIOUS
<1>3. i < j => i * i <= i * j /\ i * j < j * j
  <2> SUFFICES ASSUME i < j PROVE i * i <= i * j /\ i * j < j * j
    OBVIOUS
  <2>1. i * i <= i * j
    BY <1>2
  <2>2. j * j = i * j + (j - i) * j
    OBVIOUS
  <2>3. (j - i) * j >= 1
    <3>1. j - i \in Nat \ {0} /\ j \in Nat \ {0}
      OBVIOUS
    <3> QED BY <3>1
  <2> QED BY <1>1, <2>1, <2>2, <2>3
<1> QED BY <1>1, <1>2, <1>3

\* The square of a number is that of its magnitude.
LEMMA Magnitude ==
  ASSUME NEW d \in Int
  PROVE  \E m \in Nat : d * d = m * m /\ \A x \in Nat : d \in -x .. x <=> m <= x
<1>1. CASE d >= 0
  BY <1>1
<1>2. CASE d < 0
  <2>1. -d \in Nat /\ d * d = (-d) * (-d)
    BY <1>2
  <2>2. \A x \in Nat : d \in -x .. x <=> -d <= x
    BY <1>2
  <2> QED BY <2>1, <2>2
<1> QED BY <1>1, <1>2

\* One row of the disc is as wide as the circle is there.
LEMMA RowOfDisc ==
  ASSUME NEW radius \in Nat, NEW y \in -radius .. radius
  PROVE  /\ MaxX(y, radius) \in 0 .. radius
         /\ \A d \in Int :
              d \in -MaxX(y, radius) .. MaxX(y, radius)
                <=> d * d + y * y <= radius * radius
<1> DEFINE rr == radius * radius
           yy == y * y
           Fits(z) == z * z + yy <= rr
           Largest(z) == Fits(z) /\ \A w \in z + 1 .. radius : w * w + yy > rr
           T == {k \in 0 .. radius : Fits(radius - k)}
<1>1. rr \in Nat /\ yy \in Nat /\ yy <= rr
  <2>. y \in Int
    OBVIOUS
  <2>1. PICK m \in Nat : y * y = m * m /\ \A x \in Nat : y \in -x .. x <=> m <= x
    BY Magnitude
  <2>2. m <= radius
    BY <2>1
  <2> QED BY <2>1, <2>2, SquaresGrow
<1>2. PICK z \in 0 .. radius : Largest(z)
  <2>1. radius \in T
    <3>1. radius - radius = 0 /\ 0 * 0 = 0
      OBVIOUS
    <3> HIDE DEF rr, yy
    <3> QED BY <1>1, <3>1
  <2>2. PICK k \in T : \A i \in T : ~ (i < k)
    <3>1. T \subseteq Nat /\ T # {}
      <4> HIDE DEF Fits
      <4> QED BY <2>1
    <3> HIDE DEF T
    <3> QED BY <3>1, LeastNumber
  <2>3. ASSUME NEW w \in radius - k + 1 .. radius PROVE ~ Fits(w)
    <3>1. radius - w \in 0 .. radius /\ radius - w < k /\ radius - (radius - w) = w
      OBVIOUS
    <3> HIDE DEF Fits
    <3> QED BY <2>2, <3>1
  <2>4. \A w \in radius - k + 1 .. radius : w * w + yy > rr
    <3>1. \A w \in radius - k + 1 .. radius : w * w \in Int
      OBVIOUS
    <3> HIDE DEF rr, yy
    <3> QED BY <1>1, <2>3, <3>1
  <2>5. radius - k \in 0 .. radius /\ Fits(radius - k)
    BY <2>2
  <2> HIDE DEF Fits
  <2> QED BY <2>4, <2>5
<1> DEFINE x == MaxX(y, radius)
<1>3. x \in 0 .. radius /\ Largest(x)
  <2>1. x = CHOOSE v \in 0 .. radius : Largest(v)
    BY DEF MaxX
  <2> HIDE DEF x, Largest
  <2> QED BY <1>2, <2>1
<1> HIDE DEF x
<1>4. ASSUME NEW d \in Int PROVE d \in -x .. x <=> d * d + yy <= rr
  <2>1. PICK m \in Nat : d * d = m * m /\ \A v \in Nat : d \in -v .. v <=> m <= v
    BY Magnitude
  <2>2. x \in Nat /\ m * m \in Nat /\ x * x \in Nat
    BY <1>3
  <2>3. CASE m <= x
    <3>1. m * m <= x * x
      BY <2>2, <2>3, SquaresGrow
    <3>2. x * x + yy <= rr
      BY <1>3
    <3> HIDE DEF rr, yy
    <3> QED BY <1>1, <2>1, <2>2, <2>3, <3>1, <3>2
  <2>4. CASE x < m /\ m <= radius
    <3>1. m \in x + 1 .. radius
      BY <2>2, <2>4
    <3>2. m * m + yy > rr
      BY <1>3, <3>1
    <3> HIDE DEF rr, yy
    <3> QED BY <1>1, <2>1, <2>2, <2>4, <3>2
  <2>5. CASE radius < m
    <3>1. rr < m * m
      BY <2>5, SquaresGrow
    <3>2. ~ (m <= x)
      BY <1>3, <2>5
    <3> HIDE DEF rr, yy
    <3> QED BY <1>1, <2>1, <2>2, <3>1, <3>2
  <2> QED BY <2>2, <2>3, <2>4, <2>5
<1> QED BY <1>3, <1>4 DEF x

-----------------------------------------------------------------------------
(* The rows of a disc.                                                     *)

InDisc(p, cx, cy, radius) ==
  (p[1] - cx) * (p[1] - cx) + (p[2] - cy) * (p[2] - cy) <= radius * radius

\* The rows from the top of the disc to row y of it.
InRows(p, cx, cy, radius, y) ==
  p[2] - cy \in -radius .. y /\ InDisc(p, cx, cy, radius)

RowBox(cx, cy, radius, y) ==
  Box(cx - MaxX(y, radius), cy + y, 2 * MaxX(y, radius) + 1, 1)

LEMMA RowIsRow ==
  ASSUME NEW p \in Pixels, NEW cx \in Int, NEW cy \in Int, NEW radius \in Nat,
         NEW y \in -radius .. radius
  PROVE  /\ RowBox(cx, cy, radius, y) \in Rectangle
         /\ In(p, RowBox(cx, cy, radius, y))
              <=> p[2] - cy = y /\ InDisc(p, cx, cy, radius)
<1> DEFINE x == MaxX(y, radius)
<1>1. /\ p[1] \in Int /\ p[2] \in Int /\ y \in Int /\ x \in Nat
      /\ p[1] - cx \in Int /\ p[2] - cy \in Int
  <2>1. x \in Nat
    BY RowOfDisc
  <2> HIDE DEF x
  <2> QED BY <2>1, SizeAssumption DEF Pixels
<1>2. p[1] - cx \in -x .. x
        <=> (p[1] - cx) * (p[1] - cx) + y * y <= radius * radius
  BY <1>1, RowOfDisc
<1> HIDE DEF x
<1>3. RowBox(cx, cy, radius, y)
        = [x1 |-> cx - x, y1 |-> cy + y, x2 |-> cx + x, y2 |-> cy + y]
  BY <1>1 DEF RowBox, Box, x
<1>4. In(p, RowBox(cx, cy, radius, y)) <=> p[1] - cx \in -x .. x /\ p[2] - cy = y
  BY <1>1, <1>3 DEF In
<1>5. p[2] - cy = y =>
        (InDisc(p, cx, cy, radius)
           <=> (p[1] - cx) * (p[1] - cx) + y * y <= radius * radius)
  BY DEF InDisc
<1>6. RowBox(cx, cy, radius, y) \in Rectangle
  BY <1>1, <1>3 DEF Rectangle
<1> QED BY <1>2, <1>4, <1>5, <1>6

LEMMA AllRows ==
  ASSUME NEW p \in Pixels, NEW cx \in Int, NEW cy \in Int, NEW radius \in Nat
  PROVE  /\ ~ InRows(p, cx, cy, radius, -radius - 1)
         /\ InRows(p, cx, cy, radius, radius) <=> InDisc(p, cx, cy, radius)
<1> DEFINE dx == p[1] - cx
           dy == p[2] - cy
<1>1. dx \in Int /\ dy \in Int
  BY SizeAssumption DEF Pixels
<1>2. dx * dx \in Nat /\ dy * dy \in Nat /\ radius * radius \in Nat
  BY <1>1
<1>3. dx * dx + dy * dy <= radius * radius => dy \in -radius .. radius
  <2> HIDE DEF dx, dy
  <2>1. PICK m \in Nat : dy * dy = m * m /\ \A x \in Nat : dy \in -x .. x <=> m <= x
    BY <1>1, Magnitude
  <2>2. radius < m => radius * radius < m * m
    BY SquaresGrow
  <2>3. m <= radius => dy \in -radius .. radius
    BY <2>1
  <2>4. radius < m => ~ (dx * dx + dy * dy <= radius * radius)
    BY <1>2, <2>1, <2>2
  <2> QED BY <2>3, <2>4
<1>4. ~ (dy \in -radius .. -radius - 1)
  BY <1>1
<1> QED BY <1>3, <1>4 DEF InRows, InDisc

\* A picture with a disc drawn into it.
Painted(picture, cx, cy, radius, c) ==
  [p \in Pixels |-> IF InDisc(p, cx, cy, radius) THEN c ELSE picture[p]]

\* gfx_draw_circle() draws the disc, clipped to the screen, and nothing else.
LEMMA CircleDraws ==
  ASSUME NEW g, DrawInv(g), NEW cx \in Int, NEW cy \in Int, NEW radius \in Nat,
         NEW c \in Color
  PROVE  /\ DrawInv(Circle(g, cx, cy, radius, c))
         /\ PictureOf(Circle(g, cx, cy, radius, c))
              = Painted(PictureOf(g), cx, cy, radius, c)
<1> DEFINE n == 2 * radius + 1
           States == [buffer : Buffers, screen : Buffers, rect : Rectangle,
                      enabled : BOOLEAN]
           V == {h \in States : DrawInv(h)}
           box(y) == RowBox(cx, cy, radius, y)
           step == [k \in 1 .. n |-> [h \in V |-> Fill(h, box(k - radius - 1), c)]]
           rows == -radius - 1 .. radius
           row[y \in rows] ==
             IF y < -radius THEN g
             ELSE LET x == MaxX(y, radius)
                  IN  Fill(row[y - 1], Box(cx - x, cy + y, 2 * x + 1, 1), c)
           Upto(y) == [p \in Pixels |-> IF InRows(p, cx, cy, radius, y) THEN c
                                        ELSE PictureOf(g)[p]]
           Right(h, y) == h \in V /\ PictureOf(h) = Upto(y)
<1>1. n \in Nat /\ g \in V /\ \A h : h \in V <=> DrawInv(h)
  BY DEF DrawInv
<1>2. \A k \in 1 .. n : k - radius - 1 \in -radius .. radius
  OBVIOUS
<1>3. \A y \in -radius .. radius : box(y) \in Rectangle
  <2>1. <<0, 0>> \in Pixels
    BY SizeAssumption DEF Pixels
  <2> QED BY <2>1, RowIsRow
<1> HIDE DEF V, box, n
<1>4. step \in [1 .. n -> [V -> V]]
  <2>1. ASSUME NEW k \in 1 .. n, NEW h \in V
        PROVE  Fill(h, box(k - radius - 1), c) \in V
    <3>1. DrawInv(h) /\ box(k - radius - 1) \in Rectangle
      BY <1>1, <1>2, <1>3
    <3> QED BY <1>1, <3>1, FillDraws
  <2>2. \A k \in 1 .. n : [h \in V |-> Fill(h, box(k - radius - 1), c)] \in [V -> V]
    BY <2>1
  <2> QED BY <2>2
<1>5. PICK f : RunsLoop(f, n, V, g, step)
  <2>1. step \in Turns(n, V)
    BY <1>4 DEF Turns
  <2> HIDE DEF step
  <2> QED BY <1>1, <2>1, LoopStates
<1>6. \E r : r = [y \in rows |->
                    IF y < -radius THEN g
                    ELSE LET x == MaxX(y, radius)
                         IN  Fill(r[y - 1], Box(cx - x, cy + y, 2 * x + 1, 1), c)]
  <2> DEFINE r == [y \in rows |-> f[y + radius + 1]]
  <2>1. ASSUME NEW y \in rows
        PROVE  f[y + radius + 1]
                 = IF y < -radius THEN g
                   ELSE LET x == MaxX(y, radius)
                        IN  Fill(r[y - 1], Box(cx - x, cy + y, 2 * x + 1, 1), c)
    <3>1. CASE y < -radius
      <4>1. y + radius + 1 = 0
        BY <3>1
      <4> QED BY <1>5, <3>1, <4>1 DEF RunsLoop
    <3>2. CASE ~ (y < -radius)
      <4>1. /\ y + radius + 1 \in 1 .. n /\ y - 1 \in rows
            /\ (y + radius + 1) - radius - 1 = y
            /\ (y + radius + 1) - 1 = (y - 1) + radius + 1
        BY <3>2 DEF n
      <4> DEFINE k == y + radius + 1
      <4>2. k \in 1 .. n /\ k - radius - 1 = y /\ k - 1 \in 0 .. n
        BY <1>1, <4>1
      <4>3. r[y - 1] = f[k - 1]
        BY <4>1
      <4> HIDE DEF r, k
      <4>4. step[k] = [h \in V |-> Fill(h, box(y), c)]
        BY <4>2
      <4> HIDE DEF step
      <4>5. f[k] = step[k][f[k - 1]] /\ f[k - 1] \in V
        BY <1>5, <4>2 DEF RunsLoop
      <4>6. f[k] = Fill(r[y - 1], box(y), c)
        BY <4>3, <4>4, <4>5
      <4> QED BY <3>2, <4>6 DEF k, box, RowBox
    <3> QED BY <3>1, <3>2
  <2>2. r = [y \in rows |->
               IF y < -radius THEN g
               ELSE LET x == MaxX(y, radius)
                    IN  Fill(r[y - 1], Box(cx - x, cy + y, 2 * x + 1, 1), c)]
    BY <2>1
  <2> HIDE DEF r
  <2> QED BY <2>2
<1>7. row = [y \in rows |->
               IF y < -radius THEN g
               ELSE LET x == MaxX(y, radius)
                    IN  Fill(row[y - 1], Box(cx - x, cy + y, 2 * x + 1, 1), c)]
  BY <1>6
<1>8. Circle(g, cx, cy, radius, c) = row[radius]
  BY DEF Circle
<1> HIDE DEF row
<1>9. row[-radius - 1] = g /\ -radius - 1 \in rows
  BY <1>7
<1>10. ASSUME NEW y \in -radius .. radius PROVE row[y] = Fill(row[y - 1], box(y), c)
  <2>1. y \in rows /\ ~ (y < -radius)
    OBVIOUS
  <2> QED BY <1>7, <2>1 DEF box, RowBox
<1>11. Right(row[-radius - 1], -radius - 1)
  <2>1. Upto(-radius - 1) = [p \in Pixels |-> PictureOf(g)[p]]
    BY AllRows
  <2>2. PictureOf(g) = [p \in Pixels |-> PictureOf(g)[p]]
    BY DEF PictureOf
  <2> QED BY <1>1, <1>9, <2>1, <2>2
<1>12. ASSUME NEW y \in -radius .. radius, Right(row[y - 1], y - 1)
       PROVE  Right(row[y], y)
  <2> DEFINE h == row[y - 1]
  <2>1. DrawInv(h) /\ PictureOf(h) = Upto(y - 1)
    BY <1>1, <1>12
  <2> HIDE DEF h, Upto
  <2>2. /\ DrawInv(Fill(h, box(y), c))
        /\ PictureOf(Fill(h, box(y), c))
             = [p \in Pixels |-> IF In(p, box(y)) THEN c ELSE PictureOf(h)[p]]
    BY <1>3, <2>1, FillDraws
  <2>3. ASSUME NEW p \in Pixels
        PROVE  (IF In(p, box(y)) THEN c ELSE Upto(y - 1)[p])
                 = IF InRows(p, cx, cy, radius, y) THEN c ELSE PictureOf(g)[p]
    <3>1. In(p, box(y)) <=> p[2] - cy = y /\ InDisc(p, cx, cy, radius)
      BY RowIsRow DEF box
    <3>2. p[2] - cy \in Int
      BY SizeAssumption DEF Pixels
    <3>3. InRows(p, cx, cy, radius, y)
            <=> InRows(p, cx, cy, radius, y - 1) \/ In(p, box(y))
      BY <3>1, <3>2 DEF InRows
    <3>4. Upto(y - 1)[p]
            = IF InRows(p, cx, cy, radius, y - 1) THEN c ELSE PictureOf(g)[p]
      BY DEF Upto
    <3> QED BY <3>3, <3>4
  <2>4. PictureOf(Fill(h, box(y), c)) = Upto(y)
    BY <2>1, <2>2, <2>3 DEF Upto
  <2> QED BY <1>1, <1>10, <2>2, <2>4 DEF h
<1> HIDE DEF Right
<1>13. Right(row[radius], radius)
  <2> DEFINE S == {k \in 0 .. n : Right(row[k - radius - 1], k - radius - 1)}
  <2>1. 0 \in S
    <3>1. 0 - radius - 1 = -radius - 1 /\ 0 \in 0 .. n
      BY <1>1
    <3> QED BY <1>11, <3>1
  <2>2. ASSUME NEW k \in 1 .. n, k - 1 \in S PROVE k \in S
    <3>1. (k - 1) - radius - 1 = (k - radius - 1) - 1 /\ k \in 0 .. n
      OBVIOUS
    <3>2. k - radius - 1 \in -radius .. radius
      BY <1>2
    <3>3. Right(row[(k - radius - 1) - 1], (k - radius - 1) - 1)
      BY <2>2, <3>1
    <3> QED BY <1>12, <3>1, <3>2, <3>3
  <2> HIDE DEF S
  <2>3. 0 .. n \subseteq S
    BY <1>1, <2>1, <2>2, TurnInduction
  <2>4. n \in 0 .. n /\ n - radius - 1 = radius
    BY DEF n
  <2> QED BY <2>3, <2>4 DEF S
<1>14. Upto(radius) = Painted(PictureOf(g), cx, cy, radius, c)
  BY AllRows DEF Painted
<1> HIDE DEF Upto
<1> QED BY <1>1, <1>8, <1>13, <1>14 DEF Right

-----------------------------------------------------------------------------
(* What the user sees.                                                     *)

\* The pixels of a disc of the given radius and hue in the middle of a black screen.
Disc(radius, h) ==
  [p \in Pixels |-> IF radius > 0 /\ InDisc(p, Cx, Cy, radius) THEN Hsv(h, 255, 255)
                    ELSE Background]

\* Both buffers hold the disc drawn last, so that the next frame knows all there
\* is to erase.
ShowsDisc(g, radius, h) ==
  /\ DrawInv(g)
  /\ PictureOf(g) = Disc(radius, h) /\ ShownOf(g) = Disc(radius, h)

DemoInv ==
  /\ frame \in Nat /\ prev_radius \in Nat /\ hue \in 0 .. 359
  /\ ShowsDisc(gfx, prev_radius, hue)

LEMMA MiddleOfScreen == Cx \in Int /\ Cy \in Int
BY SizeAssumption DEF Cx, Cy

LEMMA NoDisc ==
  ASSUME NEW h
  PROVE  Disc(0, h) = [p \in Pixels |-> Background]
BY DEF Disc

\* gfx_clear() and a swap leave a black screen, which is a disc of radius 0.
LEMMA BlackScreen ==
  ASSUME NEW g, DrawInv(g)
  PROVE  ShowsDisc(SwapFull(Clear(g, Background)), 0, 0)
<1> DEFINE c == Clear(g, Background)
<1>1. DrawInv(c) /\ PictureOf(c)
        = [p \in Pixels |-> IF In(p, Screen) THEN Background ELSE PictureOf(g)[p]]
  BY ColorAssumption, ClearDraws
<1>2. \A p \in Pixels : In(p, Screen)
  BY SizeAssumption DEF In, Screen, Box, Pixels
<1>3. PictureOf(c) = Disc(0, 0)
  BY <1>1, <1>2, NoDisc
<1> HIDE DEF c
<1>4. /\ DrawInv(SwapFull(c)) /\ SwapFull(c).buffer = c.buffer
      /\ ShownOf(SwapFull(c)) = PictureOf(c)
  BY <1>1, SwapDraws
<1>5. PictureOf(SwapFull(c)) = PictureOf(c)
  BY <1>4, PictureValues
<1> QED BY <1>3, <1>4, <1>5 DEF c, ShowsDisc

\* The black disc, two pixels larger, covers the one drawn before.
LEMMA Covered ==
  ASSUME NEW p \in Pixels, NEW radius \in Nat, InDisc(p, Cx, Cy, radius)
  PROVE  InDisc(p, Cx, Cy, radius + 2)
<1>1. p[1] - Cx \in Int /\ p[2] - Cy \in Int
  BY SizeAssumption, MiddleOfScreen DEF Pixels
<1>2. radius * radius <= (radius + 2) * (radius + 2)
  BY SquaresGrow
<1>3. /\ (p[1] - Cx) * (p[1] - Cx) \in Int /\ (p[2] - Cy) * (p[2] - Cy) \in Int
      /\ radius * radius \in Int /\ (radius + 2) * (radius + 2) \in Int
  BY <1>1
<1> QED BY <1>2, <1>3 DEF InDisc

LEMMA ErasedIsBlack ==
  ASSUME NEW g, NEW radius \in Nat, NEW h, ShowsDisc(g, radius, h)
  PROVE  LET e == IF radius > 0 THEN Circle(g, Cx, Cy, radius + 2, Background) ELSE g
         IN  DrawInv(e) /\ PictureOf(e) = [p \in Pixels |-> Background]
<1>1. CASE radius > 0
  <2>1. radius + 2 \in Nat /\ DrawInv(g)
    BY DEF ShowsDisc
  <2>2. /\ DrawInv(Circle(g, Cx, Cy, radius + 2, Background))
        /\ PictureOf(Circle(g, Cx, Cy, radius + 2, Background))
             = Painted(PictureOf(g), Cx, Cy, radius + 2, Background)
    BY <2>1, CircleDraws, MiddleOfScreen, ColorAssumption
  <2>3. \A p \in Pixels : ~ InDisc(p, Cx, Cy, radius + 2) => PictureOf(g)[p] = Background
    BY Covered DEF ShowsDisc, Disc
  <2> QED BY <1>1, <2>2, <2>3 DEF Painted
<1>2. CASE ~ (radius > 0)
  <2>1. radius = 0
    BY <1>2
  <2> QED BY <1>2, <2>1, NoDisc DEF ShowsDisc
<1> QED BY <1>1, <1>2

LEMMA NextDisc ==
  ASSUME NEW e, DrawInv(e), PictureOf(e) = [p \in Pixels |-> Background],
         NEW radius \in Nat \ {0}, NEW h \in 0 .. 359
  PROVE  ShowsDisc(Swap(Circle(e, Cx, Cy, radius, Hsv(h, 255, 255))), radius, h)
<1> DEFINE c == Circle(e, Cx, Cy, radius, Hsv(h, 255, 255))
<1>0. radius \in Nat /\ DrawInv(e)
  OBVIOUS
<1>1. Hsv(h, 255, 255) \in Color
  BY DemoAssumption
<1>2. /\ DrawInv(c)
      /\ PictureOf(c) = Painted(PictureOf(e), Cx, Cy, radius, Hsv(h, 255, 255))
  BY ONLY <1>0, <1>1, CircleDraws, MiddleOfScreen
<1>3. PictureOf(c) = Disc(radius, h)
  BY <1>2 DEF Disc, Painted
<1> HIDE DEF c
<1>4. DrawInv(Swap(c)) /\ Swap(c).buffer = c.buffer /\ ShownOf(Swap(c)) = PictureOf(c)
  BY <1>2, SwapDraws
<1>5. PictureOf(Swap(c)) = PictureOf(c)
  BY <1>4, PictureValues
<1> QED BY <1>3, <1>4, <1>5 DEF c, ShowsDisc

LEMMA RadiusPositive == \A f \in Nat : Radius(f) \in Nat \ {0}
<1> SUFFICES ASSUME NEW f \in Nat PROVE Radius(f) \in Nat \ {0}
  OBVIOUS
<1>1. BaseRadius \in Nat \ {0} /\ Swing \in Nat \ {0}
  BY DemoAssumption
<1>2. f % Swing \in 0 .. Swing - 1
  BY <1>1
<1> QED BY <1>1, <1>2 DEF Radius

LEMMA DemoStarts == Init => DemoInv
<1> SUFFICES ASSUME Init PROVE DemoInv
  OBVIOUS
<1>1. PICK s \in [Addresses -> {Background}] :
        gfx = SwapFull(Clear([buffer |-> s, screen |-> s, rect |-> NoRect,
                              enabled |-> FALSE], Background))
  BY DEF Init
<1> DEFINE g == [buffer |-> s, screen |-> s, rect |-> NoRect, enabled |-> FALSE]
<1>2. DrawInv(g)
  <2>1. s \in Buffers
    BY ColorAssumption DEF Buffers
  <2> QED BY <2>1, RectanglesTyped DEF DrawInv
<1> HIDE DEF g
<1>3. ShowsDisc(SwapFull(Clear(g, Background)), 0, 0)
  BY <1>2, BlackScreen
<1> QED BY <1>1, <1>3 DEF g, Init, DemoInv

LEMMA DemoKeeps == DemoInv /\ [Next]_vars => DemoInv'
<1> SUFFICES ASSUME DemoInv, [Next]_vars PROVE DemoInv'
  OBVIOUS
<1>1. CASE Frame
  <2> DEFINE radius == Radius(frame)
             turned == (hue + 2) % 360
             e == Erased(gfx)
  <2>1. radius \in Nat \ {0} /\ turned \in 0 .. 359
    BY RadiusPositive DEF DemoInv
  <2>2. frame' \in Nat
    <3>1. frame + 1 \in Nat /\ 2 * Swing \in Nat \ {0}
      BY DemoAssumption DEF DemoInv
    <3>2. frame' = (frame + 1) % (2 * Swing)
      BY <1>1 DEF Frame
    <3> QED BY <3>1, <3>2
  <2>3. DrawInv(e) /\ PictureOf(e) = [p \in Pixels |-> Background]
    BY ErasedIsBlack DEF DemoInv, Erased
  <2>4. CASE radius # prev_radius
    <3>1. /\ hue' = turned /\ prev_radius' = radius
          /\ gfx' = Swap(Circle(e, Cx, Cy, radius, Hsv(turned, 255, 255)))
      BY <1>1, <2>4 DEF Frame
    <3> HIDE DEF radius, turned, e
    <3>2. ShowsDisc(gfx', radius, turned)
      BY <2>1, <2>3, <3>1, NextDisc
    <3> QED BY <2>1, <2>2, <3>1, <3>2 DEF DemoInv
  <2>5. CASE radius = prev_radius
    BY <1>1, <2>2, <2>5 DEF Frame, DemoInv
  <2> QED BY <2>4, <2>5
<1>2. CASE KeyAndRestart
  <2>1. DrawInv(SwapFull(Clear(gfx, Background)))
    BY BlackScreen DEF DemoInv, ShowsDisc
  <2>2. ShowsDisc(gfx', 0, 0)
    BY <1>2, <2>1, BlackScreen DEF KeyAndRestart
  <2> QED BY <1>2, <2>2 DEF KeyAndRestart, DemoInv
<1>3. CASE UNCHANGED vars
  BY <1>3 DEF vars, DemoInv
<1> QED BY <1>1, <1>2, <1>3 DEF Next

LEMMA DiscIsSeen == DemoInv => OnlyTheDisc
<1> SUFFICES ASSUME DemoInv, NEW px \in -1 .. Width, NEW py \in -1 .. Height
             PROVE  GetScreenPixel(gfx, px, py) =
                      IF /\ (px - Cx) * (px - Cx) + (py - Cy) * (py - Cy)
                              <= prev_radius * prev_radius
                         /\ prev_radius > 0
                         /\ <<px, py>> \in Pixels
                        THEN Hsv(hue, 255, 255) ELSE Background
  BY DEF OnlyTheDisc
<1>1. CASE <<px, py>> \in Pixels
  <2>1. ShownOf(gfx)[<<px, py>>] = GetScreenPixel(gfx, px, py)
    BY <1>1 DEF ShownOf
  <2>2. Disc(prev_radius, hue)[<<px, py>>]
          = IF prev_radius > 0 /\ InDisc(<<px, py>>, Cx, Cy, prev_radius)
              THEN Hsv(hue, 255, 255) ELSE Background
    BY <1>1 DEF Disc
  <2>3. InDisc(<<px, py>>, Cx, Cy, prev_radius)
          <=> (px - Cx) * (px - Cx) + (py - Cy) * (py - Cy) <= prev_radius * prev_radius
    BY DEF InDisc
  <2> QED BY <1>1, <2>1, <2>2, <2>3 DEF DemoInv, ShowsDisc
<1>2. CASE <<px, py>> \notin Pixels
  BY <1>2 DEF GetScreenPixel
<1> QED BY <1>1, <1>2

\* What the user sees at the end of every frame is one full disc of the radius and
\* the color drawn last, clipped to the screen, and nothing else, for every size of
\* the screen and of the disc (demo_rainbow_circle, gfx_draw_circle,
\* gfx_swap_buffers).
THEOREM OneDiscSeen == Spec => []OnlyTheDisc
<1>1. Init => DemoInv
  BY DemoStarts
<1>2. DemoInv /\ [Next]_vars => DemoInv'
  BY DemoKeeps
<1>3. DemoInv => OnlyTheDisc
  BY DiscIsSeen
<1> QED BY <1>1, <1>2, <1>3, PTL DEF Spec

-----------------------------------------------------------------------------
(* The colors.                                                             *)

\* The part of i that j is of 255, and the channel gfx_hsv() computes from r, how
\* far out of 255 it is to fall.
Part(i, j) == (i * j) \div 255
Fallen(v, s, r) == Part(v, 255 - Part(s, r))

Byte(i) == i \in Nat /\ i <= 255

LEMMA Times ==
  ASSUME NEW s \in Nat, NEW i \in Int, NEW j \in Int, i <= j
  PROVE  s * i \in Int /\ s * j \in Int /\ s * i <= s * j
<1>1. s * j = s * i + s * (j - i) /\ s * (j - i) >= 0 /\ s * i \in Int
  <2>1. j - i \in Nat
    OBVIOUS
  <2> QED BY <2>1
<1> QED BY <1>1

LEMMA PartIsByte ==
  ASSUME NEW i, NEW j, Byte(i), Byte(j)
  PROVE  /\ Byte(Part(i, j)) /\ i * j \in Int
         /\ 255 * Part(i, j) <= i * j /\ i * j <= 255 * Part(i, j) + 254
<1> DEFINE P == i * j
           R == (255 - i) * j
<1>1. P \in Nat /\ R \in Nat /\ P = 255 * j - R
  BY DEF Byte
<1> HIDE DEF P, R
<1>2. P \in Nat /\ P <= 65025
  BY <1>1 DEF Byte
<1>3. /\ P \div 255 \in Nat /\ P \div 255 <= 255
      /\ 255 * (P \div 255) <= P /\ P <= 255 * (P \div 255) + 254
  BY <1>2
<1>4. Part(i, j) = P \div 255
  BY DEF Part, P
<1>5. /\ Byte(Part(i, j)) /\ P \in Int
      /\ 255 * Part(i, j) <= P /\ P <= 255 * Part(i, j) + 254
  BY <1>2, <1>3, <1>4 DEF Byte
<1> QED BY <1>5 DEF P

LEMMA FallIsNear ==
  ASSUME NEW v, NEW s, NEW r, NEW d \in Nat, Byte(v), Byte(s), Byte(r), d <= 60,
         60 * r - 60 <= 255 * d, 255 * d <= 60 * r + 60
  PROVE  /\ Byte(Fallen(v, s, r))
         /\ Apart(Fallen(v, s, r) * Whole, v * (Whole - s * d)) < 3 * Whole
<1> DEFINE u == Part(s, r)
           q == Part(v, 255 - u)
<1>0. v \in Nat /\ v <= 255 /\ s \in Nat /\ s <= 255 /\ r \in Nat /\ r <= 255
  BY DEF Byte
<1>1. Byte(u) /\ 255 * u <= s * r /\ s * r <= 255 * u + 254 /\ s * r \in Int
  BY PartIsByte
<1> HIDE DEF u
<1>2. Byte(255 - u) /\ u \in Nat /\ u <= 255
  BY <1>1 DEF Byte
<1>3. /\ Byte(q) /\ v * (255 - u) \in Int
      /\ 255 * q <= v * (255 - u) /\ v * (255 - u) <= 255 * q + 254
  BY <1>2, PartIsByte
<1> HIDE DEF q
<1> DEFINE P == s * r
           sd == s * d
           Q == v * (255 - u)
<1>4. P \in Int /\ sd \in Int /\ Q \in Int /\ q \in Int
  BY <1>0, <1>1, <1>3 DEF Byte
<1>5. 255 * sd <= 60 * P + 60 * s /\ 60 * P - 60 * s <= 255 * sd
  <2>1. s * (60 * r - 60) <= s * (255 * d) /\ s * (255 * d) <= s * (60 * r + 60)
    BY <1>0, Times
  <2>2. s * (60 * r - 60) = 60 * P - 60 * s
    BY <1>0
  <2>3. s * (60 * r + 60) = 60 * P + 60 * s
    BY <1>0
  <2>4. s * (255 * d) = 255 * sd
    BY <1>0
  <2> QED BY <2>1, <2>2, <2>3, <2>4
<1>6. 255 * u <= P /\ P <= 255 * u + 254 /\ 255 * q <= Q /\ Q <= 255 * q + 254
  BY <1>1, <1>3
<1> DEFINE X == sd - 60 * u
           vX == v * X
<1>7. v * (Whole - sd) = 60 * Q - vX
  <2> HIDE DEF sd
  <2>1. v * (15300 - sd) = v * (60 * (255 - u) - X)
    BY <1>2, <1>4
  <2>2. 255 - u \in Int /\ X \in Int
    BY <1>2, <1>4
  <2> HIDE DEF X
  <2>3. v * (60 * (255 - u) - X) = 60 * (v * (255 - u)) - v * X
    <3>1. \A i, j \in Int : v * (60 * i - j) = 60 * (v * i) - v * j
      BY <1>0
    <3> QED BY <2>2, <3>1
  <2> QED BY <2>1, <2>3 DEF Whole
<1> HIDE DEF P, sd, Q
<1>8. X \in Int /\ -60 <= X /\ X <= 120
  BY <1>0, <1>2, <1>4, <1>5, <1>6
<1> HIDE DEF X
<1>9. v * (-60) <= vX /\ vX <= v * 120 /\ vX \in Int
  BY <1>0, <1>8, Times
<1> HIDE DEF vX
<1>10. vX \in Int /\ -15300 <= vX /\ vX <= 30600
  BY <1>0, <1>9
<1>11. Apart(q * 15300, 60 * Q - vX) < 45900
  <2>1. q * 15300 \in Int /\ 60 * Q - vX \in Int
    BY <1>4, <1>9
  <2>2. q * 15300 - (60 * Q - vX) < 45900 /\ (60 * Q - vX) - q * 15300 < 45900
    BY <1>4, <1>6, <1>10
  <2> QED BY <2>1, <2>2 DEF Apart
<1>12. Apart(q * Whole, v * (Whole - sd)) < 3 * Whole
  BY <1>7, <1>11 DEF Whole
<1> QED BY <1>3, <1>12 DEF Fallen, q, u, sd

\* Region and position in it of a hue, and what gfx_hsv() makes of the position.
Region(h) == (h % 360) \div 60
Place(h) == (h % 360) % 60
Remainder(h) == (Place(h) * 255) \div 60

LEMMA PlaceOfHue ==
  ASSUME NEW h \in Int
  PROVE  /\ Region(h) \in 0 .. 5 /\ Place(h) \in Nat /\ Place(h) <= 59
         /\ h % 360 = 60 * Region(h) + Place(h)
         /\ Byte(Remainder(h)) /\ Byte(255 - Remainder(h))
         /\ 60 * Remainder(h) <= 255 * Place(h)
         /\ 255 * Place(h) <= 60 * Remainder(h) + 59
<1> DEFINE t == h % 360
<1>1. t \in Int /\ 0 <= t /\ t <= 359
  OBVIOUS
<1> HIDE DEF t
<1>2. /\ t \div 60 \in Int /\ 0 <= t \div 60 /\ t \div 60 <= 5
      /\ t % 60 \in Int /\ 0 <= t % 60 /\ t % 60 <= 59
      /\ t = 60 * (t \div 60) + (t % 60)
  BY <1>1
<1>3. /\ Region(h) \in Int /\ 0 <= Region(h) /\ Region(h) <= 5
      /\ Place(h) \in Int /\ 0 <= Place(h) /\ Place(h) <= 59
      /\ t = 60 * Region(h) + Place(h)
  BY <1>2 DEF Region, Place, t
<1>4. /\ Remainder(h) \in Int /\ 60 * Remainder(h) <= 255 * Place(h)
      /\ 255 * Place(h) <= 60 * Remainder(h) + 59
  BY <1>3 DEF Remainder
<1>5. Remainder(h) \in Nat /\ Remainder(h) <= 255 /\ 255 - Remainder(h) \in Nat
  BY <1>3, <1>4
<1>6. Byte(Remainder(h)) /\ Byte(255 - Remainder(h))
  BY <1>5 DEF Byte
<1>7. Region(h) \in 0 .. 5 /\ Place(h) \in Nat
  BY <1>3
<1>8. h % 360 = 60 * Region(h) + Place(h)
  BY <1>3 DEF t
<1> QED BY <1>3, <1>4, <1>6, <1>7, <1>8

\* How far each channel falls, region by region.
LEMMA DropByRegion ==
  ASSUME NEW h \in Int
  PROVE  LET m == Place(h)
         IN  /\ Region(h) = 0 =>
                  Drop(1, h) = 0 /\ Drop(2, h) = 60 - m /\ Drop(3, h) = 60
             /\ Region(h) = 1 =>
                  Drop(1, h) = m /\ Drop(2, h) = 0 /\ Drop(3, h) = 60
             /\ Region(h) = 2 =>
                  Drop(1, h) = 60 /\ Drop(2, h) = 0 /\ Drop(3, h) = 60 - m
             /\ Region(h) = 3 =>
                  Drop(1, h) = 60 /\ Drop(2, h) = m /\ Drop(3, h) = 0
             /\ Region(h) = 4 =>
                  Drop(1, h) = 60 - m /\ Drop(2, h) = 60 /\ Drop(3, h) = 0
             /\ Region(h) = 5 =>
                  Drop(1, h) = 0 /\ Drop(2, h) = 60 /\ Drop(3, h) = m
<1> DEFINE m == Place(h)
           R == Region(h)
           fall(k) == IF k < 240 - k THEN k ELSE 240 - k
           clamp(f) == IF f < 0 THEN 0 ELSE IF f > 60 THEN 60 ELSE f
<1>1. /\ m \in Nat /\ m <= 59 /\ R \in 0 .. 5 /\ h % 360 = 60 * R + m
  BY PlaceOfHue
<1>2. /\ Drop(1, h) = clamp(fall((300 + h) % 360))
      /\ Drop(2, h) = clamp(fall((180 + h) % 360))
      /\ Drop(3, h) = clamp(fall((60 + h) % 360))
  BY DEF Drop
<1> HIDE DEF m, R
<1>3. \A b \in {60, 180, 300} :
        (b + h) % 360 = IF b + 60 * R + m < 360 THEN b + 60 * R + m ELSE b + 60 * R + m - 360
  BY <1>1
<1>4. R = 0 => Drop(1, h) = 0 /\ Drop(2, h) = 60 - m /\ Drop(3, h) = 60
  BY <1>1, <1>2, <1>3
<1>5. R = 1 => Drop(1, h) = m /\ Drop(2, h) = 0 /\ Drop(3, h) = 60
  BY <1>1, <1>2, <1>3
<1>6. R = 2 => Drop(1, h) = 60 /\ Drop(2, h) = 0 /\ Drop(3, h) = 60 - m
  BY <1>1, <1>2, <1>3
<1>7. R = 3 => Drop(1, h) = 60 /\ Drop(2, h) = m /\ Drop(3, h) = 0
  BY <1>1, <1>2, <1>3
<1>8. R = 4 => Drop(1, h) = 60 - m /\ Drop(2, h) = 60 /\ Drop(3, h) = 0
  BY <1>1, <1>2, <1>3
<1>9. R = 5 => Drop(1, h) = 0 /\ Drop(2, h) = 60 /\ Drop(3, h) = m
  BY <1>1, <1>2, <1>3
<1> QED BY <1>4, <1>5, <1>6, <1>7, <1>8, <1>9 DEF m, R

-----------------------------------------------------------------------------

\* A channel as it should be: a byte, near the exact value.
Fits(x, channel, h, s, v) ==
  Byte(x) /\ Apart(x * Whole, Hexcone(channel, h, s, v)) < 3 * Whole

LEMMA ChannelFits ==
  ASSUME NEW h \in Int, NEW s, NEW v, Byte(s), Byte(v), NEW channel \in 1 .. 3
  PROVE  /\ Drop(channel, h) = 0 => Fits(Fallen(v, s, 0), channel, h, s, v)
         /\ Drop(channel, h) = 60 => Fits(Fallen(v, s, 255), channel, h, s, v)
         /\ Drop(channel, h) = Place(h)
              => Fits(Fallen(v, s, Remainder(h)), channel, h, s, v)
         /\ Drop(channel, h) = 60 - Place(h)
              => Fits(Fallen(v, s, 255 - Remainder(h)), channel, h, s, v)
<1>1. ASSUME NEW r, NEW d \in Nat, Byte(r), d <= 60, 60 * r - 60 <= 255 * d,
             255 * d <= 60 * r + 60, Drop(channel, h) = d
      PROVE  Fits(Fallen(v, s, r), channel, h, s, v)
  BY <1>1, FallIsNear DEF Fits, Hexcone
<1>2. /\ Place(h) \in Nat /\ Place(h) <= 59 /\ 60 - Place(h) \in Nat /\ 60 - Place(h) <= 60
      /\ Byte(Remainder(h)) /\ Byte(255 - Remainder(h))
      /\ Byte(0) /\ Byte(255) /\ Remainder(h) \in Nat
      /\ 60 * Remainder(h) <= 255 * Place(h)
      /\ 255 * Place(h) <= 60 * Remainder(h) + 59
  <2>1. /\ Place(h) \in Nat /\ Place(h) <= 59
        /\ Byte(Remainder(h)) /\ Byte(255 - Remainder(h))
        /\ 60 * Remainder(h) <= 255 * Place(h)
        /\ 255 * Place(h) <= 60 * Remainder(h) + 59
    BY PlaceOfHue
  <2> QED BY <2>1 DEF Byte
<1>3. Drop(channel, h) = 0 => Fits(Fallen(v, s, 0), channel, h, s, v)
  BY <1>1, <1>2
<1>4. Drop(channel, h) = 60 => Fits(Fallen(v, s, 255), channel, h, s, v)
  BY <1>1, <1>2
<1>5. Drop(channel, h) = Place(h) => Fits(Fallen(v, s, Remainder(h)), channel, h, s, v)
  BY <1>1, <1>2
<1>6. Drop(channel, h) = 60 - Place(h)
        => Fits(Fallen(v, s, 255 - Remainder(h)), channel, h, s, v)
  BY <1>1, <1>2
<1> QED BY <1>3, <1>4, <1>5, <1>6

LEMMA ColorFits ==
  ASSUME NEW h, NEW s, NEW v, NEW r, NEW g, NEW b,
         Fits(r, 1, h, s, v), Fits(g, 2, h, s, v), Fits(b, 3, h, s, v)
  PROVE  Near(Rgb(r, g, b), h, s, v)
<1>1. Rgb(r, g, b) = <<r, g, b>>
  BY DEF Fits, Byte, Rgb
<1>2. \A channel \in 1 .. 3 : channel = 1 \/ channel = 2 \/ channel = 3
  OBVIOUS
<1> QED BY <1>1, <1>2 DEF Near, Fits

\* What gfx_hsv() computes for each channel.
LEMMA HsvFalls ==
  ASSUME NEW h \in Int, NEW s, NEW v, Byte(s), Byte(v), s # 0
  PROVE  LET p == Fallen(v, s, 255)
             q == Fallen(v, s, Remainder(h))
             t == Fallen(v, s, 255 - Remainder(h))
             f == Fallen(v, s, 0)
         IN  Hsv(h, s, v) = << Rgb(f, t, p), Rgb(q, f, p), Rgb(p, f, t),
                               Rgb(p, q, f), Rgb(t, p, f), Rgb(f, p, q) >>[Region(h) + 1]
<1>1. Part(s, 0) = 0 /\ Part(v, 255) = v /\ Part(s, 255) = s /\ 255 - 0 = 255
  BY DEF Part, Byte
<1>2. Fallen(v, s, 0) = v /\ Fallen(v, s, 255) = Part(v, 255 - s)
  BY <1>1 DEF Fallen
<1> QED BY <1>2 DEF Hsv, Fallen, Part, Remainder, Place, Region

\* For every hue, saturation and value gfx_hsv() is near the exact color.
THEOREM HsvIsNear ==
  ASSUME NEW h \in Int, NEW s, NEW v, Byte(s), Byte(v)
  PROVE  Near(Hsv(h, s, v), h, s, v)
<1>1. CASE s = 0
  <2>1. Byte(v) /\ v \in Nat
    BY DEF Byte
  <2>2. ASSUME NEW channel \in 1 .. 3 PROVE Fits(v, channel, h, s, v)
    <3>1. Drop(channel, h) \in Int
      BY DEF Drop
    <3>2. s * Drop(channel, h) = 0
      BY <1>1, <3>1
    <3>3. Hexcone(channel, h, s, v) = v * Whole
      BY <3>2 DEF Hexcone, Whole
    <3>4. Apart(v * 15300, v * 15300) = 0
      BY <2>1 DEF Apart
    <3> QED BY <2>1, <3>3, <3>4 DEF Fits, Whole
  <2> QED BY <1>1, <2>2, ColorFits DEF Hsv
<1>2. CASE s # 0
  <2> DEFINE p == Fallen(v, s, 255)
             q == Fallen(v, s, Remainder(h))
             t == Fallen(v, s, 255 - Remainder(h))
             f == Fallen(v, s, 0)
             F(x, channel) == Fits(x, channel, h, s, v)
  <2>1. Hsv(h, s, v) = << Rgb(f, t, p), Rgb(q, f, p), Rgb(p, f, t),
                          Rgb(p, q, f), Rgb(t, p, f), Rgb(f, p, q) >>[Region(h) + 1]
    BY <1>2, HsvFalls
  <2>2. \A channel \in 1 .. 3 :
          /\ Drop(channel, h) = 0 => F(f, channel)
          /\ Drop(channel, h) = 60 => F(p, channel)
          /\ Drop(channel, h) = Place(h) => F(q, channel)
          /\ Drop(channel, h) = 60 - Place(h) => F(t, channel)
    BY ChannelFits
  <2>3. \A r, g, b : F(r, 1) /\ F(g, 2) /\ F(b, 3) => Near(Rgb(r, g, b), h, s, v)
    BY ColorFits
  <2> HIDE DEF p, q, t, f, F
  <2>4. Region(h) \in 0 .. 5
    BY PlaceOfHue
  <2>5. CASE Region(h) = 0
    <3>1. Drop(1, h) = 0 /\ Drop(2, h) = 60 - Place(h) /\ Drop(3, h) = 60
      BY <2>5, DropByRegion
    <3>2. Hsv(h, s, v) = Rgb(f, t, p)
      BY <2>1, <2>5
    <3>3. F(f, 1) /\ F(t, 2) /\ F(p, 3)
      BY <2>2, <3>1
    <3> QED BY <2>3, <3>2, <3>3
  <2>6. CASE Region(h) = 1
    <3>1. Drop(1, h) = Place(h) /\ Drop(2, h) = 0 /\ Drop(3, h) = 60
      BY <2>6, DropByRegion
    <3>2. Hsv(h, s, v) = Rgb(q, f, p)
      BY <2>1, <2>6
    <3>3. F(q, 1) /\ F(f, 2) /\ F(p, 3)
      BY <2>2, <3>1
    <3> QED BY <2>3, <3>2, <3>3
  <2>7. CASE Region(h) = 2
    <3>1. Drop(1, h) = 60 /\ Drop(2, h) = 0 /\ Drop(3, h) = 60 - Place(h)
      BY <2>7, DropByRegion
    <3>2. Hsv(h, s, v) = Rgb(p, f, t)
      BY <2>1, <2>7
    <3>3. F(p, 1) /\ F(f, 2) /\ F(t, 3)
      BY <2>2, <3>1
    <3> QED BY <2>3, <3>2, <3>3
  <2>8. CASE Region(h) = 3
    <3>1. Drop(1, h) = 60 /\ Drop(2, h) = Place(h) /\ Drop(3, h) = 0
      BY <2>8, DropByRegion
    <3>2. Hsv(h, s, v) = Rgb(p, q, f)
      BY <2>1, <2>8
    <3>3. F(p, 1) /\ F(q, 2) /\ F(f, 3)
      BY <2>2, <3>1
    <3> QED BY <2>3, <3>2, <3>3
  <2>9. CASE Region(h) = 4
    <3>1. Drop(1, h) = 60 - Place(h) /\ Drop(2, h) = 60 /\ Drop(3, h) = 0
      BY <2>9, DropByRegion
    <3>2. Hsv(h, s, v) = Rgb(t, p, f)
      BY <2>1, <2>9
    <3>3. F(t, 1) /\ F(p, 2) /\ F(f, 3)
      BY <2>2, <3>1
    <3> QED BY <2>3, <3>2, <3>3
  <2>10. CASE Region(h) = 5
    <3>1. Drop(1, h) = 0 /\ Drop(2, h) = 60 /\ Drop(3, h) = Place(h)
      BY <2>10, DropByRegion
    <3>2. Hsv(h, s, v) = Rgb(f, p, q)
      BY <2>1, <2>10
    <3>3. F(f, 1) /\ F(p, 2) /\ F(q, 3)
      BY <2>2, <3>1
    <3> QED BY <2>3, <3>2, <3>3
  <2> QED BY <2>4, <2>5, <2>6, <2>7, <2>8, <2>9, <2>10
<1> QED BY <1>1, <1>2

\* The hues the demo turns through, the ones next to them and those of another turn
\* become colors within 3 of the exact ones (gfx_hsv).
THEOREM ShadesAlwaysTrue == Spec => []ShadesAreTrue
<1>1. Init => DemoInv
  BY DemoStarts
<1>2. DemoInv /\ [Next]_vars => DemoInv'
  BY DemoKeeps
<1>3. DemoInv => ShadesAreTrue
  <2> SUFFICES ASSUME DemoInv,
                      NEW h \in {hue - 360, hue - 1, hue, hue + 360},
                      NEW s \in Levels, NEW v \in Levels
               PROVE  Near(Hsv(h, s, v), h, s, v)
    BY DEF ShadesAreTrue
  <2>1. h \in Int
    BY DEF DemoInv
  <2>2. \A x \in Levels : Byte(x)
    BY DEF Levels, Byte
  <2> QED BY <2>1, <2>2, HsvIsNear
<1> QED BY <1>1, <1>2, <1>3, PTL DEF Spec

=============================================================================
