------------------------------ MODULE DirTree ------------------------------
(***************************************************************************)
(* What the shell's file commands promise: a tree of directories and files *)
(* named by paths from the root, with one current directory.               *)
(*                                                                         *)
(* There are no slots or tables here and no chains, only what the limits   *)
(* of the disk come to: MaxDirs clusters for directories and file data,    *)
(* and room for a number of entries in each directory.  A command fails    *)
(* exactly when the tree or those limits say so.                           *)
(***************************************************************************)
EXTENDS Integers, Sequences, FiniteSets

CONSTANTS Label,       \* names of entries
          MaxDirs,     \* clusters the disk has, that of the root included
          Room         \* entries a directory has room for

VARIABLES
  tree,       \* path |-> "dir" or "file"; the root is <<>>
  used,       \* clusters that hold file data
  cwd,        \* path of the current directory
  open,       \* what the file handle is open on: "closed", "dir" or "file"
  ret

treeVars == <<tree, used, cwd, open, ret>>

Top == <<>>
Parent(d) == SubSeq(d, 1, Len(d) - 1)
Child(d, l) == Append(d, l)
Children(t, d) == {x \in DOMAIN t : x # Top /\ Parent(x) = d}
Dirs(t) == {x \in DOMAIN t : t[x] = "dir"}
IsDir(t, x) == x \in DOMAIN t /\ t[x] = "dir"
With(t, x, kind) ==
  [y \in DOMAIN t \cup {x} |-> IF y = x THEN kind ELSE t[y]]

\* A directory other than the root spends two entries on "." and "..".
HasRoom(t, d) ==
  Cardinality(Children(t, d)) < IF d = Top THEN Room ELSE Room - 2

Init == tree = With(<<>>, Top, "dir") /\ used = 0 /\ cwd = Top
        /\ open = "closed" /\ ret = 0

\* Where an argument starts: at the root or in the current directory.
Start == {Top, cwd}

Refuse == ret' = -1 /\ UNCHANGED <<tree, used, cwd, open>>
Changed(t) == tree' = t /\ ret' = 0 /\ UNCHANGED <<used, cwd, open>>

Touch(d, l) ==
  LET t == tree IN
  IF Child(d, l) \in DOMAIN t \/ ~ HasRoom(t, d)
    THEN Refuse
    ELSE Changed(With(t, Child(d, l), "file"))

MakeDir(d, l) ==
  LET t == tree IN
  IF \/ Child(d, l) \in DOMAIN t \/ ~ HasRoom(t, d)
     \/ Cardinality(Dirs(t)) + used >= MaxDirs
    THEN Refuse
    ELSE Changed(With(t, Child(d, l), "dir"))

Remove(d, l) ==
  LET t == tree IN
  /\ ~ IsDir(t, Child(d, l))
  /\ IF Child(d, l) \in DOMAIN t
       THEN Changed([x \in DOMAIN t \ {Child(d, l)} |-> t[x]])
       ELSE Refuse

Look(d, l) ==
  /\ ret' = IF IsDir(tree, Child(d, l)) THEN 0 ELSE -1
  /\ UNCHANGED <<tree, used, cwd, open>>

LookHere == ret' = 0 /\ UNCHANGED <<tree, used, cwd, open>>

Enter(d, l) ==
  IF IsDir(tree, Child(d, l))
    THEN cwd' = Child(d, l) /\ ret' = 0 /\ UNCHANGED <<tree, used, open>>
    ELSE Refuse

Up ==
  /\ cwd' = IF cwd = Top THEN Top ELSE Parent(cwd)
  /\ ret' = 0 /\ UNCHANGED <<tree, used, open>>

Home == cwd' = Top /\ ret' = 0 /\ UNCHANGED <<tree, used, open>>

\* The handle of a file: opening finds what the path names, as a directory or as
\* a file, and only a file's handle can be read and written.
Open(d, l) ==
  LET t == tree IN
  IF Child(d, l) \in DOMAIN t
    THEN open' = t[Child(d, l)] /\ ret' = 0 /\ UNCHANGED <<tree, used, cwd>>
    ELSE Refuse

Close == open' = "closed" /\ ret' = 0 /\ UNCHANGED <<tree, used, cwd>>

NotAFile == open # "file" /\ Refuse

\* Writing may take clusters that no directory has, for good.
Fill ==
  /\ open = "file"
  /\ used' \in used .. MaxDirs - Cardinality(Dirs(tree))
  /\ ret' = 0 /\ UNCHANGED <<tree, cwd, open>>

Next ==
  \/ \E d \in Start, l \in Label :
       \/ Touch(d, l) \/ MakeDir(d, l) \/ Remove(d, l) \/ Look(d, l) \/ Enter(d, l)
       \/ Open(d, l)
  \/ LookHere \/ Up \/ Home \/ Close \/ NotAFile \/ Fill

TreeSpec == Init /\ [][Next]_treeVars

=============================================================================
