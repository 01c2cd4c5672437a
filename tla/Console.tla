------------------------------ MODULE Console ------------------------------
(***************************************************************************)
(* The framebuffer console (video/fb_console.c) on top of the graphics     *)
(* driver.  A character is painted CharHeight rows high: FontRows rows of  *)
(* its picture, stored straight into the double buffer, and below them     *)
(* background, drawn with gfx_fill_rect().  All its columns being painted  *)
(* alike, it is one pixel wide here, and the color of a pixel of the       *)
(* picture is the character; the picture of a space is background.         *)
(* isr_handler() prints its report of a crash in other colors on a cleared *)
(* screen and stops the machine.                                           *)
(***************************************************************************)
EXTENDS Graphics

CONSTANTS CharHeight, FontRows,    \* CHAR_HEIGHT, rows of the font    (12, 8)
          TabStop,                 \* columns between tab stops            (4)
          CrashPaper,              \* the background of the crash report
          Smear                    \* what a badly painted cell shows

Cols == Width                      \* CONSOLE_COLS
Rows == Height \div CharHeight     \* CONSOLE_ROWS

ASSUME CellAssumption ==
  /\ CharHeight \in Nat /\ FontRows \in 1 .. CharHeight - 1
  /\ Height = Rows * CharHeight /\ TabStop \in Nat \ {0}

ASSUME PaperAssumption == CrashPaper \in Color \ {Background}

VARIABLES x, y,    \* cursor_x, cursor_y
          paper,   \* bg_color
          mode     \* "runs", "reports" in isr_handler(), or "halted"

cursor == <<x, y>>
vars == <<gfx, x, y, paper, mode>>

\* The characters; Background stands for the space.
Characters == Color \ {CrashPaper}

Now == [g |-> gfx, x |-> x, y |-> y]
Become(t) == gfx' = t.g /\ x' = t.x /\ y' = t.y

\* draw_char() stores into the double buffer without clipping: it relies on the
\* cursor never leaving the screen, not even between two characters.
CursorOnScreen == x \in 0 .. Cols - 1 /\ y \in 0 .. Rows - 1

\* graphics_init() and fb_console_init().
Init ==
  /\ \E c \in Color :
       gfx = Swap(Clear([buffer |-> [a \in Addresses |-> Background],
                         screen |-> [a \in Addresses |-> c],
                         rect |-> Screen, enabled |-> TRUE], Background))
  /\ x = 0 /\ y = 0 /\ paper = Background /\ mode = "runs"

\* mutant: the rows below the picture stay black.
DrawCharOnBlack(g, c, col, line) ==
  LET top == line * CharHeight
      font == Box(col, top, 1, FontRows)
      ink == IF c = Background THEN paper ELSE c
  IN  Fill([g EXCEPT !.buffer =
              [a \in Addresses |-> IF Covers(font, a) THEN ink ELSE @[a]]],
           Box(col, top + FontRows, 1, CharHeight - FontRows), Background)

DrawChar(g, c, col, line) ==
  LET top == line * CharHeight
      font == Box(col, top, 1, FontRows)
      ink == IF c = Background THEN paper ELSE c
  IN  Fill([g EXCEPT !.buffer =
              [a \in Addresses |-> IF Covers(font, a) THEN ink ELSE @[a]]],
           Box(col, top + FontRows, 1, CharHeight - FontRows), paper)

Scroll(g) ==
  LET bottom == (Rows - 1) * CharHeight
  IN  Swap(Fill(Copy(g, 0, CharHeight, 0, 0, Width, bottom),
                Box(0, bottom, Width, CharHeight), paper))

\* mutant: the cursor may stand one line below the screen.
DownLate(t) ==
  IF t.y < Rows THEN [t EXCEPT !.x = 0, !.y = @ + 1]
  ELSE [g |-> Scroll(t.g), x |-> 0, y |-> Rows - 1]

\* The cursor goes to the start of the next line, the last one by scrolling.
Down(t) ==
  IF t.y + 1 < Rows THEN [t EXCEPT !.x = 0, !.y = @ + 1]
  ELSE [g |-> Scroll(t.g), x |-> 0, y |-> Rows - 1]

-----------------------------------------------------------------------------
(* fb_putchar(), by kind of character, and the rest of the interface.      *)

Newline ==
  LET t == Down(Now) IN gfx' = Swap(t.g) /\ x' = t.x /\ y' = t.y

Return == x' = 0 /\ UNCHANGED <<gfx, y>>

\* The code rounds up to the next multiple of four with a mask.
Tab ==
  LET stop == x + TabStop - (x % TabStop)
  IN  \/ stop < Cols /\ x' = stop /\ UNCHANGED <<gfx, y>>
      \/ stop >= Cols /\ Become(Down(Now))

Backspace ==
  /\ x > 0 /\ x' = x - 1
  /\ gfx' = DrawChar(gfx, Background, x - 1, y)
  /\ UNCHANGED y

Write(c) ==
  LET t == [g |-> DrawChar(gfx, c, x, y), x |-> x + 1, y |-> y]
  IN  IF t.x < Cols THEN Become(t) ELSE Become(Down(t))

\* fb_flush(), and the end of fb_print().
Flush == gfx' = Swap(gfx) /\ UNCHANGED cursor

ClearConsole == gfx' = Swap(Clear(gfx, paper)) /\ x' = 0 /\ y' = 0

\* The demo draws its frames and clears the screen before it returns; the
\* console knows nothing of it.
Demo == gfx' = SwapFull(Clear(gfx, Background)) /\ UNCHANGED cursor

\* fb_console_reset_cursor() and fb_set_text_color().
ResetCursor == x' = 0 /\ y' = 0
SetTextColor(bg) == paper' = bg

\* An exception: isr_handler() clears the screen and prepares for its report.
Crash ==
  /\ mode = "runs" /\ mode' = "reports"
  /\ gfx' = Clear(gfx, CrashPaper) /\ SetTextColor(CrashPaper) /\ ResetCursor

\* isr_handler() prints with the same functions, flushes and halts; its report
\* ends before the last line of the screen.
PutText ==
  /\ mode = "runs" \/ (mode = "reports" /\ y < Rows - 1)
  /\ UNCHANGED <<paper, mode>>
  /\ Newline \/ Flush \/ \E c \in Characters : Write(c)

Halt == mode = "reports" /\ mode' = "halted" /\ Flush /\ UNCHANGED paper

Next ==
  \/ PutText
  \/ /\ mode = "runs" /\ UNCHANGED <<paper, mode>>
     /\ Return \/ Tab \/ Backspace \/ ClearConsole \/ Demo
  \/ Crash \/ Halt

Spec == Init /\ [][Next]_vars

-----------------------------------------------------------------------------
(* The console implements a screen of text.                                *)

\* The text that the rows of pixels in an array show on a background.
TextIn(buffer, blank) ==
  LET Row(p, i) == buffer[At(p[1], p[2] * CharHeight + i)]
      Painted(p) == /\ \A i \in 0 .. FontRows - 1 : Row(p, i) = Row(p, 0)
                    /\ \A i \in FontRows .. CharHeight - 1 : Row(p, i) = blank
  IN  [p \in (0 .. Cols - 1) \X (0 .. Rows - 1) |->
         IF Painted(p) THEN Row(p, 0) ELSE Smear]

Text == INSTANCE TextScreen
          WITH Glyphs <- Characters, Blank <- Background,
               text <- TextIn(gfx.buffer, Background),
               shown <- TextIn(gfx.screen, Background)

\* Each call of the console, as a call of TextScreen.
AsOnTextScreen ==
  /\ (Newline => Text!Newline) /\ (Return => Text!Return) /\ (Tab => Text!Tab)
  /\ (Backspace => Text!Backspace) /\ (Flush => Text!Flush)
  /\ (ClearConsole => Text!Clear) /\ (Demo => Text!Demo)
  /\ \A c \in Characters : Write(c) => Text!Write(c)

\* What is painted is what the callers wrote, scrolled line by line, and what the
\* user sees is what was written when it was last flushed: at each newline, at
\* each scroll and at each call of fb_flush().
ImplementsTextScreen ==
  Text!Init /\ [][mode' = "runs" => [Text!Next]_(Text!screen) /\ AsOnTextScreen]_vars

Report == INSTANCE TextScreen
            WITH Glyphs <- Color \ {Background}, Blank <- CrashPaper,
                 text <- TextIn(gfx.buffer, CrashPaper),
                 shown <- TextIn(gfx.screen, CrashPaper)

\* The report of a crash is a screen of text again, in its own colors and starting
\* from an empty screen, wherever the exception struck; nothing of the old text is
\* left in it, and when the machine halts all of the report is visible.
ReportIsText ==
  [][mode' # "runs" =>
       /\ mode = "runs" => /\ TextIn(gfx.buffer, CrashPaper)' = Report!Cleared
                           /\ x' = 0 /\ y' = 0
       /\ mode = "reports" => [Report!Next]_(Report!screen)
       /\ mode' = "halted" => Report!Flush]_vars

=============================================================================
