------------------------------- MODULE Shell -------------------------------
(***************************************************************************)
(* The command line (cli.c) on a screen of text: cli_run() prints the      *)
(* prompt, reads a line into cmd_buffer while it echoes what is typed, and *)
(* executes the line.                                                      *)
(***************************************************************************)
EXTENDS TextScreen, Sequences

CONSTANTS MaxLine,     \* CMD_BUFFER_SIZE - 1                           (255)
          Prompt,      \* what is printed before a line is read
          Outputs      \* what commands do on the screen, as sequences of outputs

\* What fb_print() takes, and the demo of the command "test".
Printable == Glyphs \cup {"newline", "demo"}

ASSUME LineAssumption == MaxLine \in Nat \ {0}
ASSUME GlyphsAssumption == Glyphs \cap {"newline", "demo"} = {}
ASSUME PromptAssumption == Prompt \in Seq(Glyphs)
ASSUME OutputsAssumption == \A o \in Outputs : o \in Seq(Printable)

VARIABLES
  pc,     \* "print", "read", "echo" or "execute"
  out,    \* what is still to be printed
  cmd     \* the characters of cmd_buffer up to cmd_pos

vars == <<text, shown, x, y, pc, out, cmd>>

ShellTypeOK ==
  /\ text \in [Cells -> Glyphs] /\ shown \in [Cells -> Glyphs]
  /\ x \in 0 .. Cols - 1 /\ y \in 0 .. Rows - 1
  /\ pc \in {"print", "read", "echo", "execute"}
  /\ out \in Seq(Printable)
  /\ cmd \in Seq(Glyphs) /\ Len(cmd) <= MaxLine

ShellInit == Init /\ pc = "print" /\ out = Prompt /\ cmd = <<>>

Output(o) ==
  \/ o = "newline" /\ Newline
  \/ o = "demo" /\ Demo
  \/ o \in Glyphs /\ Write(o)

\* fb_print() and then, the last character printed, the prompt waits for a key.
PrintChar ==
  /\ pc = "print"
  /\ \/ out # <<>> /\ Output(Head(out)) /\ out' = Tail(out) /\ UNCHANGED pc
     \/ out = <<>> /\ pc' = "read" /\ Flush /\ UNCHANGED out
  /\ UNCHANGED cmd

\* mutant: nothing stops the line at the end of the buffer.
TypeAnyway(c) ==
  /\ pc = "read" /\ pc' = "echo"
  /\ cmd' = Append(cmd, c) /\ Write(c)
  /\ UNCHANGED out

\* A character that the buffer has room for; another one is ignored.
Type(c) ==
  /\ pc = "read" /\ Len(cmd) < MaxLine
  /\ cmd' = Append(cmd, c) /\ Write(c)
  /\ pc' = "echo" /\ UNCHANGED out

\* mutant: backspace is not stopped at the start of the line.
EraseAnyway ==
  /\ pc = "read" /\ pc' = "echo"
  /\ cmd' = IF cmd = <<>> THEN cmd ELSE SubSeq(cmd, 1, Len(cmd) - 1)
  /\ Backspace /\ UNCHANGED out

Erase ==
  /\ pc = "read" /\ cmd # <<>>
  /\ cmd' = SubSeq(cmd, 1, Len(cmd) - 1) /\ Backspace
  /\ pc' = "echo" /\ UNCHANGED out

\* The flush that makes the echo visible.
Echo == pc = "echo" /\ pc' = "read" /\ Flush /\ UNCHANGED <<out, cmd>>

Enter ==
  /\ pc = "read" /\ pc' = "execute" /\ Newline
  /\ UNCHANGED <<out, cmd>>

\* cli_process_command(): a command prints something, as "test" does before its
\* demo, or, being "clear", leaves an empty screen.
Execute ==
  /\ pc = "execute" /\ pc' = "print" /\ cmd' = <<>>
  /\ \/ UNCHANGED screen /\ \E o \in Outputs : out' = o \o Prompt
     \/ Clear /\ out' = Prompt

ShellNext ==
  \/ PrintChar \/ Erase \/ Echo \/ Enter \/ Execute
  \/ \E c \in Glyphs : Type(c)

ShellSpec == ShellInit /\ [][ShellNext]_vars

\* As long as the user does not erase back over the end of a line of the screen.
WithinLine == Erase => x > 0
WithinLineSpec == ShellInit /\ [][ShellNext /\ WithinLine]_vars

\* While a line is read, the characters before the cursor are the prompt and the
\* line that Enter would execute, as far as they have not scrolled away: what the
\* user sees is what runs, however it was typed and corrected.
Place(p) == p[2] * Cols + p[1]
EchoMirrorsLine ==
  pc = "read" =>
    \A i \in 1 .. Len(Prompt \o cmd), p \in Cells :
      Place(p) + i = Place(<<x, y>>)
        => /\ text[p] = (Prompt \o cmd)[Len(Prompt \o cmd) + 1 - i]
           /\ shown[p] = text[p]

=============================================================================
