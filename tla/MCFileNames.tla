---------------------------- MODULE MCFileNames ----------------------------
(***************************************************************************)
(* FileNames on all pairs of names up to a length: the one an entry was    *)
(* created with and the one being typed, both spelled character by         *)
(* character.  The alphabet is a letter in both cases, the point and the   *)
(* space, and the fields are of two characters, which names of five        *)
(* already overflow.                                                       *)
(***************************************************************************)
EXTENDS FileNames

MCChar == {"a", "A", ".", " "}
MCUpper == [c \in MCChar |-> IF c = "a" THEN "A" ELSE c]

CONSTANTS MaxStored, MaxTyped   \* bounds on their lengths

VARIABLES stored, typed

NamesInit == stored = <<>> /\ typed = <<>>

Storing(c) ==
  /\ Len(stored) < MaxStored
  /\ stored' = Append(stored, c)
  /\ UNCHANGED typed

Typing(c) ==
  /\ Len(typed) < MaxTyped
  /\ typed' = Append(typed, c)
  /\ UNCHANGED stored

NamesNext == \E c \in Char : Storing(c) \/ Typing(c)

NamesSpec == NamesInit /\ [][NamesNext]_<<stored, typed>>

Spaceless(n) == \A i \in 1 .. Len(n) : n[i] # Space

\* A name that fits the two fields as it is: BASE or BASE.EXT.
EightThree(n) ==
  LET base == Before(n, Point)
      ext == SubSeq(n, Len(base) + 2, Len(n))
  IN  /\ Spaceless(n)
      /\ Len(base) \in 1 .. BaseLength /\ Len(ext) <= ExtLength
      /\ Before(ext, Point) = ext
      /\ Len(n) = Len(base) + (IF ext = <<>> THEN 0 ELSE 1 + Len(ext))

\* The two halves of find_dir_entry's test agree: without spaces, a typed
\* name finds exactly the entries whose 8.3 name is its own.  (With one, as
\* "a" finds the entry of "a b", they do not: parse_filename stops there.)
SpellingIsFormatting ==
  Spaceless(stored) /\ Spaceless(typed)
    => (Finds(typed, FormatName(stored)) <=> FormatName(stored) = FormatName(typed))

\* Names that fit 8.3 are kept apart exactly up to case: no two of them share
\* an entry unless they differ in case only.
EightThreeNamesKeptApart ==
  EightThree(stored) /\ EightThree(typed)
    => (Finds(typed, FormatName(stored)) <=> SameName(stored, typed))

\* What ls prints, typed back, is formatted to the entry it was printed for,
\* long names that were cut included.
ListedNameNamesEntry ==
  Spaceless(stored) => FormatName(ParseName(FormatName(stored))) = FormatName(stored)

\* What was created with a name is found by it, by what ls prints for it and, if
\* both are ordinary, by no other name.
NamesFindTheirEntries ==
  SpellingIsFormatting /\ EightThreeNamesKeptApart /\ ListedNameNamesEntry

=============================================================================
