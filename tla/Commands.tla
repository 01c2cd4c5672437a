------------------------------ MODULE Commands ------------------------------
(***************************************************************************)
(* What a line of the shell means (cli.c): cli_process_command finds the   *)
(* command, and the cmd_*_exec functions of the file commands make a path  *)
(* of the rest.  Lines are strings without tabs and other control          *)
(* characters, as cli_run only puts characters from ' ' on into the line.  *)
(***************************************************************************)
EXTENDS Integers, Sequences

WithArgument == {"echo", "ls", "touch", "cd", "rm", "mkdir"}
Alone == {"help", "halt", "shutdown", "clear", "test", "pwd", "sex"}

\* The character at i, or "" for the terminator.
At(s, i) == IF i \in 1 .. Len(s) THEN SubSeq(s, i, i) ELSE ""
From(s, i) == SubSeq(s, i, Len(s))

RECURSIVE skip_spaces(_)
skip_spaces(s) == IF At(s, 1) = " " THEN skip_spaces(From(s, 2)) ELSE s

starts_with(s, prefix) == Len(prefix) <= Len(s) /\ SubSeq(s, 1, Len(prefix)) = prefix

BeginsWith(s, c) == starts_with(s, c)       \* mutant: what follows is not looked at
Takes(s, c) == starts_with(s, c) /\ At(s, Len(c) + 1) \in {" ", ""}

\* cli_process_command(): the command and what it is given.
Dispatch(line) ==
  LET s == skip_spaces(line)
      taking == {c \in WithArgument : Takes(s, c)}
  IN  IF s = "" THEN [command |-> "none", args |-> ""]
      ELSE IF taking # {} THEN LET c == CHOOSE c \in taking : TRUE
                               IN  [command |-> c, args |-> skip_spaces(From(s, Len(c) + 1))]
      ELSE IF s \in Alone THEN [command |-> s, args |-> ""]
      ELSE [command |-> "unknown", args |-> s]

\* "ls" alone lists ".", "cd" alone goes to "/".
WithDefault(command, args) ==
  CASE command = "ls" /\ args = "" -> "."
    [] command = "cd" /\ args = "" -> "/"
    [] OTHER -> args

FileCommands == {"ls", "touch", "cd", "rm", "mkdir"}

\* Does the line call the file system?  The others print how they are used.
CallsFileSystem(line) ==
  LET d == Dispatch(line)
  IN  d.command \in FileCommands /\ WithDefault(d.command, d.args) # ""

\* "if (path[0] == '/') path++", with which every call of fat32.c begins.
PathArgument(path) ==
  IF At(path, 1) = "/" THEN [abs |-> TRUE, name |-> From(path, 2)]
                       ELSE [abs |-> FALSE, name |-> path]

-----------------------------------------------------------------------------
(* current_path, the text that pwd and the prompt print.                   *)

Joined(here, name) == here \o "/" \o name     \* mutant: a '/' after the root's, too

\* fat32_chdir() down into a directory, as it was typed.
Descend(here, name) ==
  IF Len(here) > 1 THEN here \o "/" \o name ELSE "/" \o name

\* fat32_chdir("..") cuts at the last '/', and keeps the first.
Ascend(here) ==
  LET slashes == {i \in 2 .. Len(here) : At(here, i) = "/"}
  IN  IF slashes = {} THEN "/"
      ELSE SubSeq(here, 1, (CHOOSE i \in slashes : \A j \in slashes : j <= i) - 1)

=============================================================================
