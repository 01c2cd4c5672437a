------------------------------- MODULE MCDemo -------------------------------
(* The demo on a screen the largest disc reaches the edges of, with all the *)
(* colors it turns through.                                                 *)
EXTENDS Demo

NoAreas == {}
Shades == {Rgb(0, 0, 0)} \cup {Hsv(h, 255, 255) : h \in 0 .. 359}
Black == Rgb(0, 0, 0)

=============================================================================
