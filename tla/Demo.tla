-------------------------------- MODULE Demo --------------------------------
(***************************************************************************)
(* The graphics demo (demo.c): a disc in the middle of the screen whose    *)
(* radius swings between BaseRadius and BaseRadius + Swing and whose color *)
(* turns.  A frame erases the previous disc with a slightly larger black   *)
(* one, draws the next and swaps the buffers.                              *)
(***************************************************************************)
EXTENDS Graphics, Colors

CONSTANTS BaseRadius, Swing    \* the smallest radius, frames of half a period
                               \*                                  (100, 100)

ASSUME DemoAssumption ==
  /\ BaseRadius \in Nat \ {0} /\ Swing \in Nat \ {0}
  /\ Background = Rgb(0, 0, 0) /\ {Hsv(h, 255, 255) : h \in 0 .. 359} \subseteq Color

\* Bound: the saturations and values that ShadesAreTrue tries.
Levels == {0, 1, 60, 128, 254, 255}

VARIABLES
  frame,         \* frame, which only counts modulo a period
  prev_radius, hue

vars == <<gfx, frame, prev_radius, hue>>

Cx == Width \div 2
Cy == Height \div 2

\* Each row of a disc is drawn as one line, as wide as the largest x inside the
\* circle.
MaxX(y, radius) ==
  CHOOSE z \in 0 .. radius :
    /\ z * z + y * y <= radius * radius
    /\ \A w \in z + 1 .. radius : w * w + y * y > radius * radius

Circle(g, cx, cy, radius, color) ==
  LET row[y \in -radius - 1 .. radius] ==
        IF y < -radius THEN g
        ELSE LET x == MaxX(y, radius)
             IN  Fill(row[y - 1], Box(cx - x, cy + y, 2 * x + 1, 1), color)
  IN  row[radius]

\* The first half of a period grows the disc, the second shrinks it.
Radius(f) ==
  IF f < Swing THEN BaseRadius + f ELSE BaseRadius + Swing - (f % Swing)

Init ==
  /\ \E s \in [Addresses -> {Background}] :
       gfx = SwapFull(Clear([buffer |-> s, screen |-> s, rect |-> NoRect,
                             enabled |-> FALSE], Background))
  /\ frame = 0 /\ prev_radius = 0 /\ hue = 0

\* mutant: the outermost ring of the disc is not erased.
ErasedTight(g) ==
  IF prev_radius > 0 THEN Circle(g, Cx, Cy, prev_radius - 1, Background) ELSE g

\* The disc drawn last is erased with two pixels to spare.
Erased(g) ==
  IF prev_radius > 0 THEN Circle(g, Cx, Cy, prev_radius + 2, Background) ELSE g

Frame ==
  LET radius == Radius(frame)
      turned == (hue + 2) % 360
  IN  /\ IF radius # prev_radius
           THEN /\ hue' = turned /\ prev_radius' = radius
                /\ gfx' = Swap(Circle(Erased(gfx), Cx, Cy, radius, Hsv(turned, 255, 255)))
           ELSE UNCHANGED <<gfx, prev_radius, hue>>
      /\ frame' = (frame + 1) % (2 * Swing)

\* A key ends the demo; the next command "test" runs it again.  Its variables
\* are local, so the hue starts over too.
KeyAndRestart ==
  /\ gfx' = SwapFull(Clear(SwapFull(Clear(gfx, Background)), Background))
  /\ frame' = 0 /\ prev_radius' = 0 /\ hue' = 0

Next == Frame \/ KeyAndRestart

Spec == Init /\ [][Next]_vars

\* What the user sees is one full disc of the current radius and color and
\* nothing else: no ring of an earlier frame stays behind, no pixel is missing.
OnlyTheDisc ==
  \A px \in -1 .. Width, py \in -1 .. Height :
    LET dx == px - Cx
        dy == py - Cy
        lit == dx * dx + dy * dy <= prev_radius * prev_radius /\ prev_radius > 0
    IN  GetScreenPixel(gfx, px, py) =
          IF lit /\ <<px, py>> \in Pixels THEN Hsv(hue, 255, 255) ELSE Background

\* Integer divisions and all, gfx_hsv() stays within 3 of the exact color, in every
\* region, for pale and dark colors, and for a hue of another turn.
ShadesAreTrue ==
  \A h \in {hue - 360, hue - 1, hue, hue + 360}, s \in Levels, v \in Levels :
    Near(Hsv(h, s, v), h, s, v)

=============================================================================
