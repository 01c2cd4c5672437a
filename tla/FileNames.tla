----------------------------- MODULE FileNames -----------------------------
(***************************************************************************)
(* The names of fs/fat32.c, character by character: format_filename makes  *)
(* the 8.3 name of a directory entry from what the user typed,             *)
(* parse_filename the name that ls shows, and find_dir_entry takes an      *)
(* entry whose shown name equals the typed one up to case, or whose 8.3    *)
(* name is the typed name's.  A name is a sequence of characters; the two  *)
(* field lengths are parameters, so that small alphabets and short names   *)
(* already overflow them.                                                  *)
(***************************************************************************)
EXTENDS Integers, Sequences, FiniteSets

CONSTANTS Char,           \* the characters, Point and Space among them
          Point, Space,   \* '.' and ' '
          Upper,          \* the upper-case form of each character
          BaseLength,     \* 8
          ExtLength       \* 3

ASSUME CharAssumption ==
  /\ {Point, Space} \subseteq Char /\ Point # Space
  /\ Upper \in [Char -> Char]
  /\ \A c \in Char : Upper[Upper[c]] = Upper[c]
  /\ \A c \in Char : c \in {Point, Space} <=> Upper[c] \in {Point, Space}
  /\ Upper[Point] = Point /\ Upper[Space] = Space

ASSUME LengthAssumption ==
  BaseLength \in Nat /\ ExtLength \in Nat /\ BaseLength > 1 /\ ExtLength > 1

UpperName(n) == [i \in 1 .. Len(n) |-> Upper[n[i]]]

\* The leading part of s before its first c, all of s when there is none.
Before(s, c) ==
  LET stop == {k \in 1 .. Len(s) : s[k] = c}
      last == IF stop = {} THEN Len(s)
                           ELSE (CHOOSE k \in stop : \A j \in stop : k <= j) - 1
  IN  SubSeq(s, 1, last)

\* A field of an entry: s in upper case, cut or padded with spaces to len.
Field(s, len) == [i \in 1 .. len |-> IF i <= Len(s) THEN Upper[s[i]] ELSE Space]

\* format_filename(): "." and ".." as they are; otherwise the part before the
\* first point, and the part after it, further points included.
FormatName(n) ==
  IF n \in {<<Point>>, <<Point, Point>>} THEN Field(n, BaseLength + ExtLength)
  ELSE LET base == Before(n, Point)
           ext == SubSeq(n, Len(base) + 2, Len(n))
       IN  Field(base, BaseLength) \o Field(ext, ExtLength)

\* mutant: the point is written whether or not there is an extension
ParseWithPoint(s) ==
  Before(SubSeq(s, 1, BaseLength), Space) \o <<Point>>
    \o Before(SubSeq(s, BaseLength + 1, BaseLength + ExtLength), Space)

\* parse_filename(): each field up to its first space.
ParseName(s) ==
  LET base == Before(SubSeq(s, 1, BaseLength), Space)
      ext == Before(SubSeq(s, BaseLength + 1, BaseLength + ExtLength), Space)
  IN  IF ext = <<>> THEN base ELSE base \o <<Point>> \o ext

\* filename_cmp() = 0
SameName(a, b) == UpperName(a) = UpperName(b)

\* The test of find_dir_entry(): does the typed name n find the entry s?
Finds(n, s) == SameName(ParseName(s), n) \/ s = FormatName(n)

=============================================================================
