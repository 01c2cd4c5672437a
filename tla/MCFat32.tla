------------------------------ MODULE MCFat32 ------------------------------
(***************************************************************************)
(* Fat32 on small disks.  Names are strings.  An 8.3 name is represented   *)
(* by one of the names formatted to it, and Short and Shown say what       *)
(* format_filename and parse_filename make of the names below; the         *)
(* assumption compares them with module FileNames, which computes it from  *)
(* the characters.  A segment of current_path is its text.                 *)
(***************************************************************************)
EXTENDS Fat32

Typed == {"", ".", "..", "a", "A", "b", "a b"}
Special == {"", ".", ".."}

Short(n) == IF n = "A" THEN "a" ELSE n
Shown(s) == IF s = "a b" THEN "a" ELSE s

Chars ==
  [n \in Typed |->
     CASE n = "" -> <<>>
       [] n = ".." -> <<".", ".">>
       [] n = "a b" -> <<"a", " ", "b">>
       [] OTHER -> <<n>>]

Alphabet == {"a", "A", "b", "B", ".", " "}
UpperOf ==
  [c \in Alphabet |-> IF c = "a" THEN "A" ELSE IF c = "b" THEN "B" ELSE c]

FN == INSTANCE FileNames
        WITH Char <- Alphabet, Upper <- UpperOf, Point <- ".", Space <- " ",
             BaseLength <- 8, ExtLength <- 3

ASSUME NamesAreConverted ==
  \A n, m \in Typed :
    LET N == FN!FormatName(Chars[n])
        M == FN!FormatName(Chars[m])
    IN  /\ Short(n) = Short(m) <=> N = M
        /\ Shown(Short(m)) = Short(n) <=> FN!SameName(FN!ParseName(M), Chars[n])

ShortOf(names) == {Short(n) : n \in names}
FormatOf(names) == [n \in names |-> Short(n)]
SpellsOf(names) ==
  [n \in names |-> {s \in ShortOf(names) : Shown(s) = Short(n)}]
SegmentsOf(names) == [n \in names |-> <<n>>]

Rel(n) == [abs |-> FALSE, name |-> n]
Abs(n) == [abs |-> TRUE, name |-> n]

\* Two names, of which the first also finds the entry of the second.  (A name in
\* another case would do nothing but what the name itself does.)
OddNames == Special \cup {"a", "a b"}
OddShort == ShortOf(OddNames)
OddFormat == FormatOf(OddNames)
OddSpells == SpellsOf(OddNames)
OddSegments == SegmentsOf(OddNames)
OddPaths == {Rel("a"), Rel("a b"), Rel(".."), Abs("."), Abs("")}

=============================================================================
