------------------------------ MODULE VgaText ------------------------------
(***************************************************************************)
(* The text driver of utils.c, with which graphics_init() reports the mode *)
(* it found.  The screen is the video memory itself, cell after cell and   *)
(* row after row; scrolling moves all cells down by one row's worth of     *)
(* addresses.  A function of the driver is an operator on its state.       *)
(***************************************************************************)
EXTENDS Integers, Sequences, SequencesExt

CONSTANTS ScreenWidth, ScreenHeight,   \* columns and rows         (80, 25)
          VgaTab                       \* columns between tab stops     (4)

ASSUME ScreenAssumption == {ScreenWidth, ScreenHeight, VgaTab} \subseteq Nat \ {0}

Positions == 0 .. ScreenWidth * ScreenHeight - 1

\* VIDEO_MEMORY, a character and its attribute in each cell; cursor_x, cursor_y;
\* current_color; and the position the hardware shows its cursor at.
Filled(color) == [p \in Positions |-> [c |-> " ", color |-> color]]

update_hardware_cursor(v) == [v EXCEPT !.shown = v.y * ScreenWidth + v.x]

vga_clear_screen(v) ==
  update_hardware_cursor([v EXCEPT !.mem = Filled(v.color), !.x = 0, !.y = 0])

vga_init(v, white) == vga_clear_screen([v EXCEPT !.color = white])

\* Four bits each: the background above, the foreground below.
vga_set_color(v, fg, bg) == [v EXCEPT !.color = ((16 * bg) % 256) + (fg % 16)]

vga_set_cursor(v, x, y) ==
  IF x \in 0 .. ScreenWidth - 1 /\ y \in 0 .. ScreenHeight - 1
  THEN update_hardware_cursor([v EXCEPT !.x = x, !.y = y]) ELSE v

\* mutant: the last row is copied up and stays.
ScrollKeeping(v) ==
  [v EXCEPT !.y = ScreenHeight - 1,
            !.mem = [p \in Positions |-> IF p + ScreenWidth \in Positions
                                         THEN @[p + ScreenWidth] ELSE @[p]]]

vga_scroll_up(v) ==
  [v EXCEPT !.y = ScreenHeight - 1,
            !.mem = [p \in Positions |-> IF p + ScreenWidth \in Positions
                                         THEN @[p + ScreenWidth]
                                         ELSE [c |-> " ", color |-> v.color]]]

Cell(v, x, c) ==
  [v EXCEPT !.mem[v.y * ScreenWidth + x] = [c |-> c, color |-> v.color], !.x = x]

\* What a character does before it is seen whether the line or the screen is full.
Printing(v, c) ==
  CASE c = "\n" -> [v EXCEPT !.x = 0, !.y = @ + 1]
    [] c = "\t" -> [v EXCEPT !.x = (@ \div VgaTab + 1) * VgaTab]
    [] c = "\r" -> [v EXCEPT !.x = 0]
    [] c = "back" -> IF v.x > 0 THEN Cell(v, v.x - 1, " ") ELSE v
    [] OTHER -> [Cell(v, v.x, c) EXCEPT !.x = @ + 1]

print_char(v, c) ==
  LET printed == Printing(v, c)
      wrapped == IF printed.x >= ScreenWidth
                 THEN [printed EXCEPT !.x = 0, !.y = @ + 1] ELSE printed
  IN  update_hardware_cursor(
        IF wrapped.y >= ScreenHeight THEN vga_scroll_up(wrapped) ELSE wrapped)

print(v, message) == FoldLeft(print_char, v, message)
print_at(v, message, x, y) == print(vga_set_cursor(v, x, y), message)

=============================================================================
