----------------------------- MODULE MCGraphics -----------------------------
(* The driver on a screen of two by three pixels.                           *)
EXTENDS Graphics

\* Rectangles inside the screen, across each edge and outside of it.
SmallAreas ==
  {Box(x, y, 2, h) : x \in {-1, 0, 1}, y \in {-1, 1, 3}, h \in {1, 2}}

=============================================================================
