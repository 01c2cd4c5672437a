----------------------------- MODULE Fat32Tree -----------------------------
(***************************************************************************)
(* The directory tree on the disk, for the users fat32.h and the help text *)
(* of the shell describe: "rm <file> - Delete file".  fat32_delete does    *)
(* not check that; module Fat32 has what remains true when it is given a   *)
(* directory, this module what is true as long as it is not.               *)
(***************************************************************************)
EXTENDS FatFiles

VARIABLE shape

treeVars == <<allVars, shape>>

\* What p names, if anything, is a file.
NamesFile(p) ==
  LET dir == Load(StartDir(p), buffer)
  IN  Found(dir, p.name) => Hit(dir, p.name).kind = "file"

-----------------------------------------------------------------------------
(* The shape of the tree.                                                  *)

\* The clusters the FAT has in use for directories.
Allocated == {c \in Clusters : fat[c] # Free} \ FileClusters

\* The FAT has room for clusters the disk does not have (find_free_cluster
\* divides the size of the whole disk, not of its data area).  Until one of
\* them is handed out, the tree is in order.
AllOnDisk == \A c \in Allocated : OnDisk(c)

\* Slots of a directory that hold its own entries: not "." and "..".
OwnSlots(c) == IF c = Root THEN Slots ELSE Slots \ {1, 2}

\* The places that name directory k.
Naming(k) ==
  {o \in Allocated \X Slots :
     /\ o[2] \in OwnSlots(o[1])
     /\ data[o[1]][o[2]].kind = "dir" /\ data[o[1]][o[2]].cluster = k}

\* No dangling directory: every subdirectory entry of a directory in use, and
\* the shell itself, are at a cluster the FAT has in use.
NothingDangles ==
  AllOnDisk =>
    /\ cwd \in Allocated
    /\ \A c \in Allocated, i \in Slots :
         data[c][i].kind = "dir" => data[c][i].cluster \in Allocated

\* No cross link and no leak: every cluster in use, the root's aside, is named
\* by exactly one entry, and nothing but "." and ".." names the root.
EachNamedOnce ==
  AllOnDisk =>
    /\ \A c \in Allocated \ {Root} : Cardinality(Naming(c)) = 1
    /\ Naming(Root) = {}

\* "." of a directory is itself and ".." the directory that names it, in the
\* slots where mkdir wrote them, whatever was created and removed since.
DotEntries ==
  AllOnDisk =>
    \A c \in Allocated \ {Root} :
      /\ data[c][1] = DirEntry(Format[Dot], c)
      /\ \E o \in Naming(c) : data[c][2] = DirEntry(Format[DotDot], o[1])

\* There is no cycle: a directory is in a cluster beyond its parent's, because
\* mkdir takes the first free one and none is ever given back.
ChildBeyondParent ==
  AllOnDisk => \A c \in Allocated : \A o \in Naming(c) : o[1] < c

\* The directories in use form a tree with the root on top, and their "." and ".."
\* say so, whatever mkdir, rm and touch were called for, and from where.
TreeInOrder == NothingDangles /\ EachNamedOnce /\ DotEntries /\ ChildBeyondParent

-----------------------------------------------------------------------------
(* The tree as paths, for users who also keep to ordinary names.           *)

\* A name that finds its own entry only, whose entry is not found as "." or "..",
\* and that is one segment of a path.  (".. a" shows as "..", as its extension is
\* cut at the space.)
Ordinary(n) ==
  /\ n \notin {Empty, Dot, DotDot}
  /\ Spells[n] \subseteq {Format[n]} /\ Segments[n] = <<n>>
  /\ ~ Matches(Format[n], Dot) /\ ~ Matches(Format[n], DotDot)

OrdinaryChange(p) ==
  /\ Ordinary(p.name)
  /\ Create(p) \/ Mkdir(p) \/ (NamesFile(p) /\ Delete(p))

OrdinaryMove(p) ==
  /\ Ordinary(p.name) \/ p.name \in {Empty, Dot, DotDot}
  /\ List(p) \/ Chdir(p)

\* The file interface, on files and directories that have ordinary names.
OrdinaryFileCall ==
  \/ \E p \in Path : Ordinary(p.name) /\ OpenFile(p)
  \/ \E n \in Counts : ReadFile(n) \/ WriteFile(n)
  \/ CloseFile \/ RefuseTransfer

OrdinaryNext ==
  \/ \E p \in Path : (OrdinaryChange(p) \/ OrdinaryMove(p)) /\ UNCHANGED fileVars
  \/ OrdinaryFileCall

\* The name of directory c in the directory its ".." leads to.
Above(c) == data[c][2].cluster
LabelOf(c) ==
  LET up == data[Above(c)]
  IN  up[CHOOSE i \in OwnSlots(Above(c)) : up[i].kind = "dir" /\ up[i].cluster = c].name

\* The path to a directory, found by climbing its ".." entries.
PathTo[c \in Clusters] ==
  IF c = Root \/ Above(c) \notin Root .. c - 1 THEN <<>>
                                              ELSE Append(PathTo[Above(c)], LabelOf(c))

\* The entries of the directories in use, "." and ".." aside: path and kind.
OwnEntries ==
  {o \in Allocated \X Slots : o[2] \in OwnSlots(o[1]) /\ Live(data[o[1]][o[2]])}
PathOf(o) == Append(PathTo[o[1]], data[o[1]][o[2]].name)
PathKinds == {<<PathOf(o), data[o[1]][o[2]].kind>> : o \in OwnEntries}

\* What every path leads to.
TreeOnDisk ==
  LET all == {<< <<>>, "dir" >>} \cup PathKinds
  IN  [x \in {l[1] : l \in all} |-> (CHOOSE l \in all : l[1] = x)[2]]

\* `shape' is what the disk amounts to as a tree.  It adds nothing to the state,
\* every step computes it from the other variables.
Shape == [tree |-> TreeOnDisk, used |-> Cardinality(FileClusters), cwd |-> PathTo[cwd]]

OrdinaryInit == FilesInit /\ shape = Shape

OrdinarySpec == OrdinaryInit /\ [][OrdinaryNext /\ shape' = Shape']_treeVars

Tree == INSTANCE DirTree
          WITH Label <- ShortName, MaxDirs <- MaxCluster - Root,
               Room <- EntriesPerCluster, tree <- shape.tree, used <- shape.used,
               cwd <- shape.cwd, open <- handle.state, ret <- ret

\* Each call, and what it returns, as a call of DirTree.
AsInTree(p) ==
  LET start == IF p.abs THEN <<>> ELSE shape.cwd
      label == Format[p.name]
  IN  /\ Ordinary(p.name) /\ OpenFile(p) => Tree!Open(start, label)
      /\ Ordinary(p.name) /\ UNCHANGED fileVars =>
           /\ Create(p) => Tree!Touch(start, label)
           /\ Mkdir(p) => Tree!MakeDir(start, label)
           /\ NamesFile(p) /\ Delete(p) => Tree!Remove(start, label)
           /\ List(p) => Tree!Look(start, label)
           /\ Chdir(p) => Tree!Enter(start, label)
      /\ p.name \in {Empty, Dot, DotDot} /\ UNCHANGED fileVars =>
           /\ List(p) => Tree!LookHere
           /\ ChdirRoot(p) => Tree!Home
           /\ ChdirDot(p) => Tree!LookHere
           /\ ChdirUp(p) => Tree!Up

\* The disk behaves as the tree of DirTree, which knows no slots and no chains:
\* every call does there what it does here, and is refused only for the reasons
\* given there.
ImplementsTree ==
  Tree!TreeSpec /\ [][\A p \in Path : AsInTree(p)]_treeVars

-----------------------------------------------------------------------------
(* What pwd prints.                                                        *)

\* current_path is reset before an absolute argument is looked up: it stays true
\* when there is nothing to look up or the root has that directory.
PathStaysTrue(p) ==
  p.abs => \/ p.name = Empty
           \/ /\ p.name \notin {Dot, DotDot}
              /\ Found(data[Root], p.name) /\ Hit(data[Root], p.name).kind = "dir"

Careful(p) ==
  OrdinaryChange(p) \/ (OrdinaryMove(p) /\ (Chdir(p) => PathStaysTrue(p)))

\* current_path, followed from the root, leads to the current directory.
PathNamesCwd == [i \in 1 .. Len(path) |-> Format[path[i]]] = shape.cwd

\* "Get current directory" (fat32.h): as long as the user is careful, pwd names
\* the current directory, through every cd, up, down and back to the root.
PwdFollowsCwd ==
  [][PathNamesCwd => PathNamesCwd' \/ ~ \E p \in Path : Careful(p)]_vars

=============================================================================
