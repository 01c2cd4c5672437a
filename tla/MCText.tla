------------------------------- MODULE MCText -------------------------------
(***************************************************************************)
(* The algorithms on characters, each on all inputs up to a bound and      *)
(* against a definition of what it computes: file names (MCFileNames) and  *)
(* the string functions (CStrings) on pairs of strings, the printing of    *)
(* numbers (Numerals) on numbers, the command line (Commands) on lines put *)
(* together from words, current_path on sequences of cd, and the VGA text  *)
(* driver (VgaText) on sequences of calls.                                 *)
(***************************************************************************)
EXTENDS MCFileNames, CStrings, Numerals, Commands, VgaText

CONSTANTS MaxString, MaxOther,    \* bounds: lengths of the two strings
          MaxPieces,              \* bound: pieces a line is made of
          MaxSegments,            \* bound: depth of current_path
          MaxCalls                \* bound: calls of the text driver

VARIABLES
  num,         \* a number to print
  pieces,      \* a line, in pieces
  trail,       \* the names of the directories that cd went down to
  calls        \* calls of the text driver

inputs == <<stored, typed, num, pieces, trail, calls>>

MCWords == WithArgument \cup Alone \cup {" ", "/", "x"}
Line == IF pieces = <<>> THEN "" ELSE FoldLeft(LAMBDA a, b : a \o b, "", pieces)

\* Characters of every kind, a change of color, and print_at() of one character
\* in the middle, in the last cell and off the screen.
MCCalls ==
  [op : {"char"}, c : {"x", "\n", "\t", "\r", "back"}]
    \cup {[op |-> "color", fg |-> 4, bg |-> 1], [op |-> "clear"]}
    \cup [op : {"at"}, x : {ScreenWidth - 1}, y : {0, ScreenHeight - 1, ScreenHeight}]

TextInit == NamesInit /\ num = 0 /\ pieces = <<>> /\ trail = <<>> /\ calls = <<>>

ANumber ==
  /\ num = 0 /\ num' \in -(2 ^ (Width - 1)) .. 2 ^ (Width - 1) - 1
  /\ stored = <<>> /\ typed = <<>> /\ pieces = <<>> /\ trail = <<>> /\ calls = <<>>
  /\ UNCHANGED <<stored, typed, pieces, trail, calls>>

ALine ==
  /\ Len(pieces) < MaxPieces /\ \E w \in MCWords : pieces' = Append(pieces, w)
  /\ stored = <<>> /\ typed = <<>> /\ num = 0 /\ trail = <<>> /\ calls = <<>>
  /\ UNCHANGED <<stored, typed, num, trail, calls>>

APath ==
  /\ Len(trail) < MaxSegments
  /\ \E n \in {"a", "b", "a.b"} : trail' = Append(trail, n)
  /\ stored = <<>> /\ typed = <<>> /\ num = 0 /\ pieces = <<>> /\ calls = <<>>
  /\ UNCHANGED <<stored, typed, num, pieces, calls>>

ACall ==
  /\ Len(calls) < MaxCalls /\ \E c \in MCCalls : calls' = Append(calls, c)
  /\ stored = <<>> /\ typed = <<>> /\ num = 0 /\ pieces = <<>> /\ trail = <<>>
  /\ UNCHANGED <<stored, typed, num, pieces, trail>>

AName ==
  /\ num = 0 /\ pieces = <<>> /\ trail = <<>> /\ calls = <<>>
  /\ NamesNext /\ UNCHANGED <<num, pieces, trail, calls>>

TextSpec == TextInit /\ [][ANumber \/ ALine \/ APath \/ ACall \/ AName]_inputs

-----------------------------------------------------------------------------
(* Strings.  S and T are the two names as bytes.                           *)

Code == [c \in MCChar |->
  CASE c = "a" -> 97 [] c = "A" -> 65 [] c = "." -> 46 [] OTHER -> 32]
S == [i \in DOMAIN stored |-> Code[stored[i]]]
T == [i \in DOMAIN typed |-> Code[typed[i]]]
Small == Len(S) <= MaxString /\ Len(T) <= MaxOther

\* S and T in memory, terminated, and room behind T that must keep its marks.
Mark == 1
Room == [i \in 1 .. Len(S) + 2 |-> Mark]
Memory == S \o <<NUL>> \o T \o <<NUL>> \o Room
s0 == 1
t0 == Len(S) + 2
Put(at, bytes) ==      \* Memory with these bytes at that address
  [i \in 1 .. Len(Memory) |->
     IF i \in at .. at + Len(bytes) - 1 THEN bytes[i - at + 1] ELSE Memory[i]]
Cut(s, n) == SubSeq(s, 1, IF n < Len(s) THEN n ELSE Len(s))
Sign(k) == IF k > 0 THEN 1 ELSE IF k < 0 THEN -1 ELSE 0

\* memmove() leaves what a copy through a second buffer would, however the two
\* areas overlap.
MovesLikeACopy ==
  Len(S) <= MaxString =>
    \A d, s \in DOMAIN S, n \in 0 .. Len(S) :
      d + n - 1 <= Len(S) /\ s + n - 1 <= Len(S)
        => memmove(S, d, s, n) =
             [i \in DOMAIN S |-> IF i \in d .. d + n - 1 THEN S[i - d + s] ELSE S[i]]

\* Copies and concatenations put the right bytes at T or behind it and touch no
\* byte further.  For strncpy() that is said of limits up to the length of its
\* string only: beyond it the code writes n + 1 bytes (string.c:93-99).
CopiesStopInTime ==
  Small =>
    /\ strcpy(Memory, t0, s0) = Put(t0, S \o <<NUL>>)
    /\ strcat(Memory, t0, s0) = Put(t0, T \o S \o <<NUL>>)
    /\ \A n \in 0 .. Len(S) + 1 :
         /\ strncat(Memory, t0, s0, n) = Put(t0, T \o Cut(S, n) \o <<NUL>>)
         /\ n <= Len(S) => strncpy(Memory, t0, s0, n) = Put(t0, Cut(S, n))

\* The order of the dictionary, of bytes.
Precedes(a, b) ==
  \E k \in 0 .. Len(a) :
    /\ k < Len(b) /\ SubSeq(a, 1, k) = SubSeq(b, 1, k)
    /\ k < Len(a) => a[k + 1] < b[k + 1]
Order(a, b) == IF a = b THEN 0 ELSE IF Precedes(a, b) THEN -1 ELSE 1
Folded(s) == [i \in DOMAIN s |-> IF s[i] = Code["A"] THEN Code["a"] ELSE s[i]]

\* All comparisons are one order: with a limit it is the order of what the limit
\* leaves, without case the order of the strings in lower case.
ComparisonsAgree ==
  Small =>
    /\ Sign(strcmp(Memory, s0, t0)) = Order(S, T)
    /\ Sign(strcasecmp(Memory, s0, t0)) = Order(Folded(S), Folded(T))
    /\ \A n \in 0 .. MaxString + 1 :
         /\ Sign(strncmp(Memory, s0, t0, n)) = Order(Cut(S, n), Cut(T, n))
         /\ Sign(strncasecmp(Memory, s0, t0, n)) = Order(Cut(Folded(S), n), Cut(Folded(T), n))
         /\ n <= Len(S) /\ n <= Len(T)
              => Sign(memcmp(Memory, s0, t0, n)) = Order(Cut(S, n), Cut(T, n))

FirstIn(P) == IF P = {} THEN NULL ELSE CHOOSE i \in P : \A j \in P : i <= j
LastIn(P) == IF P = {} THEN NULL ELSE CHOOSE i \in P : \A j \in P : i >= j
Prefix(P) == IF P = {} THEN Len(S) ELSE FirstIn(P) - 1

\* Each search finds the first place (strrchr: the last) that is what it is asked
\* for, also when it overlaps one that almost was.
SearchesAgree ==
  Len(S) <= MaxString /\ Len(T) <= MaxOther + 1 =>
    LET In == {i \in DOMAIN S : \E j \in DOMAIN T : T[j] = S[i]}
        Out == DOMAIN S \ In
    IN  /\ strlen(Memory, s0) = Len(S)
        /\ \A n \in 0 .. MaxString + 1 : strnlen(Memory, s0, n) = Len(Cut(S, n))
        /\ \A c \in {Code[x] : x \in MCChar} :
             LET At_c == {i \in DOMAIN S : S[i] = c}
             IN  strchr(Memory, s0, c) = FirstIn(At_c) /\ strrchr(Memory, s0, c) = LastIn(At_c)
        /\ strpbrk(Memory, s0, t0) = FirstIn(In)
        /\ strspn(Memory, s0, t0) = Prefix(Out) /\ strcspn(Memory, s0, t0) = Prefix(In)
        /\ strstr(Memory, s0, t0) =
             FirstIn({i \in 1 .. Len(S) - Len(T) + 1 : SubSeq(S, i, i + Len(T) - 1) = T})

\* The tokens of successive calls, read out as strtok() returns them.
RECURSIVE Tokens(_, _, _)
Tokens(m, str, saved) ==
  LET r == strtok(m, str, saved, t0)
  IN  IF r.token = NULL THEN <<>>
      ELSE <<SubSeq(r.mem, r.token, r.token + strlen(r.mem, r.token) - 1)>>
             \o Tokens(r.mem, NULL, r.saved)

\* strtok(), called until it returns NULL, gives the longest stretches without a
\* delimiter, in their order, none of them empty and none twice.
TokensAreTheWords ==
  Small =>
    LET Plain(i) == i \in DOMAIN S /\ \A j \in DOMAIN T : T[j] # S[i]
        starts == {i \in DOMAIN S : Plain(i) /\ ~ Plain(i - 1)}
        words == [i \in starts |->
                    SubSeq(S, i, FirstIn({k \in i .. Len(S) : ~ Plain(k + 1)}))]
        order == [k \in 1 .. Cardinality(starts) |->
                    CHOOSE i \in starts : Cardinality({j \in starts : j < i}) = k - 1]
    IN  Tokens(Memory, s0, NULL) = [k \in DOMAIN order |-> words[order[k]]]

\* Reversing and changing case touch the string and nothing behind it; reversed
\* twice it is itself.
ChangesInPlace ==
  Small =>
    /\ strrev(Memory, s0) = Put(s0, [i \in DOMAIN S |-> S[Len(S) + 1 - i]])
    /\ strrev(strrev(Memory, t0), t0) = Memory
    /\ strlwr(Memory, s0) = Put(s0, Folded(S))
    /\ strlwr(strupr(Memory, s0), s0) = strlwr(Memory, s0)

\* What the functions that write leave in memory, within the string's room and
\* behind it, is what they are for.
StringsWritten == MovesLikeACopy /\ CopiesStopInTime /\ ChangesInPlace

\* Whatever compares, searches or takes apart gives the answer of the definition,
\* for all short strings, empty ones included.
StringsRead == ComparisonsAgree /\ SearchesAgree /\ TokensAreTheWords

-----------------------------------------------------------------------------
(* Numbers.                                                                *)

ValueOf(digits, base) == FoldLeft(LAMBDA v, d : base * v + d, 0, digits)

\* What is printed is the number, the most negative one and zero included, without
\* leading zeros; in hexadecimal it is its bits, in all its digits.
NumeralsDenote ==
  LET p == PrintInt(num)
      bits == num % 2 ^ Width
  IN  /\ \A i \in DOMAIN p.digits : p.digits[i] \in 0 .. 9
      /\ ValueOf(p.digits, 10) = (IF p.sign THEN - num ELSE num)
      /\ p.digits # <<>> /\ (p.digits[1] = 0 => Len(p.digits) = 1 /\ ~ p.sign)
      /\ ValueOf(PrintHex(bits), 16) = bits /\ Len(PrintHex(bits)) = Width \div 4

-----------------------------------------------------------------------------
(* The command line.                                                       *)

\* The words of the line, without its spaces.
Words ==
  FoldLeft(LAMBDA ws, p : IF p = " " THEN Append(ws, "")
                          ELSE [ws EXCEPT ![Len(ws)] = @ \o p], <<"">>, pieces)
Spoken == SelectSeq(Words, LAMBDA w : w # "")

\* The first word alone decides which command runs: not a prefix of it, nor what
\* follows, but for the commands without an argument, which must be all there is
\* ("help " is unknown).
FirstWordDecides ==
  Line # "" =>
    LET d == Dispatch(Line)
        first == IF Spoken = <<>> THEN "" ELSE Spoken[1]
        last == pieces[Len(pieces)]
    IN  d.command = CASE first = "" -> "none"
                      [] first \in WithArgument -> first
                      [] first \in Alone /\ Len(Spoken) = 1 /\ last # " " -> first
                      [] OTHER -> "unknown"

\* No command hands the file system an empty path, and none but cd and ls invents
\* one: what module Fat32 assumes of its paths.
PathsAreNamed ==
  LET d == Dispatch(Line)
      p == PathArgument(WithDefault(d.command, d.args))
  IN  CallsFileSystem(Line) \/ d.command \in {"ls", "cd"} => (p.name = "" => p.abs)

\* Each line, spaces anywhere in it, runs the command its first word is, on a path.
LinesUnderstood == FirstWordDecides /\ PathsAreNamed

\* current_path, after going down the trail.
Text(names) == FoldLeft(Descend, "/", names)

\* "cd <dir>" and "cd .." on the text of current_path do what pushing and popping a
\* name does: the text is the names, each once after a '/', and ".." takes back
\* exactly the last one.
TextIsTheTrail ==
  /\ Text(trail) =
       IF trail = <<>> THEN "/" ELSE FoldLeft(LAMBDA a, n : a \o "/" \o n, "", trail)
  /\ Ascend(Text(trail)) =
       Text(IF trail = <<>> THEN trail ELSE SubSeq(trail, 1, Len(trail) - 1))

-----------------------------------------------------------------------------
(* The text driver.                                                        *)

\* What the boot loader left, and vga_init() clears.
Left == [mem |-> [p \in Positions |-> [c |-> "?", color |-> 0]],
         x |-> 0, y |-> 0, color |-> 7, shown |-> 1]
Call(v, k) == CASE k.op = "char" -> print(v, <<k.c>>)
                [] k.op = "clear" -> vga_clear_screen(v)
                [] k.op = "color" -> vga_set_color(v, k.fg, k.bg)
                [] k.op = "at" -> print_at(v, <<"x">>, k.x, k.y)

\* The same calls on an endless sheet of lines, where nothing ever moves: top is
\* the first line that is still visible.
Blanked(s) == [s EXCEPT !.marks = [p \in DOMAIN @ \ {<<s.line, s.col>>} |-> @[p]]]
Shifted(s) ==
  LET n == IF s.col >= ScreenWidth THEN [s EXCEPT !.col = 0, !.line = @ + 1] ELSE s
  IN  IF n.line = n.top + ScreenHeight THEN [n EXCEPT !.top = @ + 1] ELSE n
Written(s, c) ==
  Shifted(
    CASE c = "\n" -> [s EXCEPT !.col = 0, !.line = @ + 1]
      [] c = "\r" -> [s EXCEPT !.col = 0]
      [] c = "\t" -> [s EXCEPT !.col = CHOOSE i \in @ + 1 .. @ + VgaTab : i % VgaTab = 0]
      [] c = "back" -> IF s.col = 0 THEN s ELSE Blanked([s EXCEPT !.col = @ - 1])
      [] OTHER -> [s EXCEPT !.marks = (<<s.line, s.col>> :> <<c, s.color>>) @@ @,
                            !.col = @ + 1])
Empty == [marks |-> <<>>, line |-> 0, col |-> 0, top |-> 0, color |-> 7]
OnSheet(s, k) ==
  CASE k.op = "char" -> Written(s, k.c)
    [] k.op = "clear" -> [Empty EXCEPT !.color = s.color]
    [] k.op = "color" -> [s EXCEPT !.color = k.fg + 16 * k.bg]
    [] k.op = "at" ->
         Written(IF k.y < ScreenHeight THEN [s EXCEPT !.col = k.x, !.line = s.top + k.y]
                 ELSE s, "x")

\* The video memory is a window on the sheet, however it was scrolled: each visible
\* character is in its line and column and in the color it was printed in, all
\* other cells are blank, and the hardware cursor stands where the next character
\* will appear.
WindowOnTheSheet ==
  LET v == FoldLeft(Call, vga_init(Left, 7), calls)
      s == FoldLeft(OnSheet, Empty, calls)
      Seen(l, k) == v.mem[(l - s.top) * ScreenWidth + k]
  IN  /\ v.shown = (s.line - s.top) * ScreenWidth + s.col
      /\ \A l \in s.top .. s.top + ScreenHeight - 1, k \in 0 .. ScreenWidth - 1 :
           IF <<l, k>> \in DOMAIN s.marks
           THEN <<Seen(l, k).c, Seen(l, k).color>> = s.marks[<<l, k>>]
           ELSE Seen(l, k).c = " "

=============================================================================
