------------------------------ MODULE Graphics ------------------------------
(***************************************************************************)
(* The graphics driver (video/graphics.c): everything is drawn into        *)
(* double_buffer, and gfx_swap_buffers() copies it to the framebuffer, the *)
(* whole of it or the dirty rectangle only.  The driver's state is one     *)
(* record and each function an operator from state to state, so that the   *)
(* text console and the demo can call several of them in one step.         *)
(***************************************************************************)
EXTENDS Integers

CONSTANTS Width, Height,   \* fb_width, fb_height                   (800, 600)
          Color,           \* what a pixel can be
          Background,      \* black, the color screens are cleared to
          Areas            \* the rectangles clients draw, on the screen or not

ASSUME SizeAssumption == Width \in Nat \ {0} /\ Height \in Nat \ {0}
ASSUME ColorAssumption == Background \in Color

VARIABLE gfx   \* buffer, screen: the double buffer and the framebuffer;
               \* rect, enabled: the dirty rectangle, dirty_enabled

\* Both buffers are arrays of rows.
Addresses == 0 .. Width * Height - 1
Pixels == (0 .. Width - 1) \X (0 .. Height - 1)
At(x, y) == y * Width + x

-----------------------------------------------------------------------------
(* Rectangles, given by their first and last column and row.               *)

Rectangle == [x1 : Int, y1 : Int, x2 : Int, y2 : Int]
ASSUME AreasAssumption == Areas \subseteq Rectangle

Box(x, y, width, height) ==
  [x1 |-> x, y1 |-> y, x2 |-> x + width - 1, y2 |-> y + height - 1]

Screen == Box(0, 0, Width, Height)

\* What the rectangle is reset to: any drawing makes it the area drawn.
NoRect == [x1 |-> Width, y1 |-> Height, x2 |-> 0, y2 |-> 0]

Empty(r) == r.x1 > r.x2 \/ r.y1 > r.y2

In(p, r) == p[1] \in r.x1 .. r.x2 /\ p[2] \in r.y1 .. r.y2

\* The part of an array that a loop over the rows of r runs through.
Covers(r, a) == \E y \in r.y1 .. r.y2 : a \in At(r.x1, y) .. At(r.x2, y)

Least(i, j) == IF i < j THEN i ELSE j
Most(i, j) == IF i > j THEN i ELSE j

\* mutant: the right edge is clipped one column too far.
ClippedWide(r) == [x1 |-> Most(r.x1, 0), y1 |-> Most(r.y1, 0),
                   x2 |-> Least(r.x2, Width), y2 |-> Least(r.y2, Height - 1)]

\* The part of r that is on the screen.
Clipped(r) == [x1 |-> Most(r.x1, 0), y1 |-> Most(r.y1, 0),
               x2 |-> Least(r.x2, Width - 1), y2 |-> Least(r.y2, Height - 1)]

Enclosing(r, s) == [x1 |-> Least(r.x1, s.x1), y1 |-> Least(r.y1, s.y1),
                    x2 |-> Most(r.x2, s.x2), y2 |-> Most(r.y2, s.y2)]

-----------------------------------------------------------------------------
(* The functions of the driver.                                            *)

\* Only when marking is enabled does drawing in r grow the dirty rectangle.
Mark(g, r) ==
  IF g.enabled THEN [g EXCEPT !.rect = Enclosing(g.rect, r)] ELSE g

MarkAll(g) ==
  [buffer |-> g.buffer, screen |-> g.screen, rect |-> Screen, enabled |-> TRUE]

\* The elements sse_memset32() and sse_memcpy() go through: four at a time, and
\* then the rest one by one.
Run(from, count) ==
  LET chunks == count \div 4
  IN  (from .. from + 4 * chunks - 1) \cup (from + 4 * chunks .. from + count - 1)

Clear(g, color) ==
  MarkAll([g EXCEPT !.buffer =
             [a \in Addresses |-> IF a \in Run(0, Width * Height) THEN color ELSE @[a]]])

\* gfx_fill_rect(); a line is a rectangle of height 1, a pixel one of 1 by 1.
Fill(g, r, color) ==
  LET v == Clipped(r)
  IN  IF Empty(v) THEN g
      ELSE Mark([g EXCEPT !.buffer =
                   [a \in Addresses |-> IF Covers(v, a) THEN color ELSE @[a]]], v)

\* mutant: swapping empties the rectangle and leaves marking on.
ResetRect(g) == [g EXCEPT !.rect = NoRect]

\* After a swap nothing is dirty, and marking is off until MarkAll.
Reset(g) ==
  [buffer |-> g.buffer, screen |-> g.screen, rect |-> NoRect, enabled |-> FALSE]

ClearDirty(g, color) ==
  Reset([g EXCEPT !.buffer =
           [a \in Addresses |-> IF Covers(g.rect, a) THEN color ELSE @[a]]])

SwapFull(g) == Reset([g EXCEPT !.screen = g.buffer])

Swap(g) ==
  IF ~ g.enabled \/ Empty(g.rect) THEN SwapFull(g)
  ELSE Reset([g EXCEPT !.screen =
                [a \in Addresses |-> IF Covers(g.rect, a) THEN g.buffer[a] ELSE @[a]]])

\* mutant: rows are always copied from the bottom up.
CopyUpward(g, sx, sy, dx, dy, width, height) ==
  LET done[k \in 0 .. height] ==
        IF k = 0 THEN g.buffer
        ELSE [a \in Addresses |->
                IF a \in At(dx, dy + height - k) .. At(dx + width - 1, dy + height - k)
                  THEN done[k - 1][a - At(dx, dy) + At(sx, sy)] ELSE done[k - 1][a]]
  IN  Mark([g EXCEPT !.buffer = done[height]], Box(dx, dy, width, height))

\* gfx_copy_rect() up or down the screen, its only use: one row at a time, in
\* the order that spares the rows still to be copied.
CopyRow(buffer, from, to, width) ==
  [a \in Addresses |-> IF a \in Run(to, width) THEN buffer[a - to + from]
                       ELSE buffer[a]]

Copy(g, sx, sy, dx, dy, width, height) ==
  LET row(k) == IF sy < dy THEN height - k ELSE k - 1
      done[k \in 0 .. height] ==
        IF k = 0 THEN g.buffer
        ELSE CopyRow(done[k - 1], At(sx, sy + row(k)), At(dx, dy + row(k)), width)
      fits == /\ sx >= 0 /\ sy >= 0 /\ dx >= 0 /\ dy >= 0
              /\ sx + width <= Width /\ dx + width <= Width
              /\ sy + height <= Height /\ dy + height <= Height
  IN  IF fits THEN Mark([g EXCEPT !.buffer = done[height]], Box(dx, dy, width, height))
      ELSE g

\* A store through gfx_get_double_buffer(), which marks nothing.
Poke(g, a, color) == [g EXCEPT !.buffer[a] = color]

\* gfx_get_pixel() and gfx_get_screen_pixel(): off the screen all is black.
GetPixel(g, x, y) == IF <<x, y>> \in Pixels THEN g.buffer[At(x, y)] ELSE Background
GetScreenPixel(g, x, y) == IF <<x, y>> \in Pixels THEN g.screen[At(x, y)] ELSE Background

-----------------------------------------------------------------------------
(* Any client of the driver.                                               *)

\* graphics_init(); nothing is known of what is on the screen.
DrawInit ==
  \E s \in [Addresses -> Color] :
    gfx = MarkAll([buffer |-> [a \in Addresses |-> Background], screen |-> s,
                   rect |-> Screen, enabled |-> TRUE])

\* One row of the text or more moves up.
ScrollUp == \E n \in 1 .. Height - 1 :
  gfx' = Copy(gfx, 0, n, 0, 0, Width, Height - n)

DrawNext ==
  \/ \E c \in Color : gfx' = Clear(gfx, c) \/ gfx' = ClearDirty(gfx, c)
  \/ \E c \in Color, r \in Areas : gfx' = Fill(gfx, r, c)
  \/ \E c \in Color, a \in Addresses : gfx' = Poke(gfx, a, c)
  \/ ScrollUp
  \/ gfx' = MarkAll(gfx) \/ gfx' = Swap(gfx) \/ gfx' = SwapFull(gfx)

DrawSpec == DrawInit /\ [][DrawNext]_gfx

\* The dirty rectangle stays on the screen or is the one no drawing has touched:
\* gfx_swap_buffers() copies it without clipping, past the end of the framebuffer
\* if it reached over an edge.
DrawTypeOK ==
  gfx \in [buffer : [Addresses -> Color], screen : [Addresses -> Color],
           rect : [x1 : 0 .. Width, y1 : 0 .. Height,
                   x2 : 0 .. Width - 1, y2 : 0 .. Height - 1],
           enabled : BOOLEAN]

\* Whatever was drawn since the last swap, through the driver or by stores into
\* its buffer that mark nothing, the next gfx_swap_buffers() will copy it: the
\* screen never keeps a stale pixel.
NothingMissed ==
  \A p \in Pixels :
    gfx.screen[At(p[1], p[2])] # gfx.buffer[At(p[1], p[2])]
      => \/ ~ gfx.enabled
         \/ gfx.rect.x1 > gfx.rect.x2 \/ gfx.rect.y1 > gfx.rect.y2
         \/ In(p, gfx.rect)

\* The double buffer as a picture.
Picture == [p \in Pixels |-> GetPixel(gfx, p[1], p[2])]
NewPicture == [p \in Pixels |-> GetPixel(gfx', p[1], p[2])]

\* The loops over rows of one array draw what their callers mean on the plane:
\* each call leaves the picture alone, paints the part of one area that is on
\* the screen, sets one pixel, or moves the picture up.  No row runs on into the
\* next one at an edge, and a copy never reads a row it has written.
DrawsOnThePlane ==
  [][ \/ gfx'.buffer = gfx.buffer
      \/ \E r \in Areas \cup {Screen, gfx.rect}, c \in Color :
           NewPicture = [p \in Pixels |-> IF In(p, r) THEN c ELSE Picture[p]]
      \/ \E q \in Pixels, c \in Color : NewPicture = [Picture EXCEPT ![q] = c]
      \/ \E n \in 1 .. Height - 1 :
           NewPicture = [p \in Pixels |-> IF p[2] + n < Height
                                            THEN Picture[<<p[1], p[2] + n>>]
                                            ELSE Picture[p]] ]_gfx

=============================================================================
