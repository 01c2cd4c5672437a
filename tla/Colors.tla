------------------------------- MODULE Colors -------------------------------
(***************************************************************************)
(* gfx_rgb() and gfx_hsv() of video/graphics.c.  A color is the triple of  *)
(* its red, green and blue bytes.                                          *)
(***************************************************************************)
EXTENDS Integers

Rgb(r, g, b) == <<r % 256, g % 256, b % 256>>

\* mutant: the hue is not brought back to the first turn from below.
HsvNoTurn(h, s, v) ==
  LET remainder == ((h % 60) * 255) \div 60
      p == (v * (255 - s)) \div 255
      q == (v * (255 - ((s * remainder) \div 255))) \div 255
      t == (v * (255 - ((s * (255 - remainder)) \div 255))) \div 255
      region == << Rgb(v, t, p), Rgb(q, v, p), Rgb(p, v, t),
                   Rgb(p, q, v), Rgb(t, p, v) >>
  IN  IF s = 0 THEN Rgb(v, v, v)
      ELSE IF h \div 60 \in 0 .. 4 THEN region[h \div 60 + 1] ELSE Rgb(v, p, q)

\* Hue in degrees, saturation and value in 0 .. 255; six regions of 60 degrees.
Hsv(h, s, v) ==
  LET hue == h % 360
      remainder == ((hue % 60) * 255) \div 60
      p == (v * (255 - s)) \div 255
      q == (v * (255 - ((s * remainder) \div 255))) \div 255
      t == (v * (255 - ((s * (255 - remainder)) \div 255))) \div 255
      region == << Rgb(v, t, p), Rgb(q, v, p), Rgb(p, v, t),
                   Rgb(p, q, v), Rgb(t, p, v), Rgb(v, p, q) >>
  IN  IF s = 0 THEN Rgb(v, v, v) ELSE region[hue \div 60 + 1]

-----------------------------------------------------------------------------
(* The definition of the hexcone, in fractions of 255 * 60.                *)

Whole == 255 * 60

\* How far a channel is from full value at a hue: 0 .. 60.
Drop(channel, h) ==
  LET k == ((<<300, 180, 60>>[channel] + h) % 360)
      fall == IF k < 240 - k THEN k ELSE 240 - k
  IN  IF fall < 0 THEN 0 ELSE IF fall > 60 THEN 60 ELSE fall

Hexcone(channel, h, s, v) == v * (Whole - s * Drop(channel, h))

Apart(i, j) == IF i < j THEN j - i ELSE i - j

\* All its divisions rounded, the integer color is near the true one.
Near(color, h, s, v) ==
  \A channel \in 1 .. 3 :
    Apart(color[channel] * Whole, Hexcone(channel, h, s, v)) < 3 * Whole

=============================================================================
