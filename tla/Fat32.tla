------------------------------- MODULE Fat32 -------------------------------
(***************************************************************************)
(* The FAT32 file system of KryOS on its RAM disk, as the shell commands   *)
(* ls, touch, cd, rm and mkdir reach it (fs/fat32.c, fs/ramdisk.c and the  *)
(* cmd_*_exec functions of cli.c).  Only the main thread calls the file    *)
(* system and no interrupt handler touches it, so one call is one step.    *)
(*                                                                         *)
(* Data the properties do not tell apart is abstracted.  A name typed by   *)
(* the user is a value of Name; what format_filename, parse_filename and   *)
(* filename_cmp make of it is given by the constants Format and Spells     *)
(* (module FileNames computes them from characters).  A directory cluster  *)
(* is a function from entry slots to entries; of an entry the model keeps  *)
(* its state, its 8.3 name and its first cluster.                          *)
(*                                                                         *)
(* The shell never calls fat32_write, the only function that links one     *)
(* cluster to another, so every FAT entry of a data cluster is either 0 or *)
(* 0x0FFFFFFF and each "while (cluster >= 2 && cluster < 0x0FFFFFF8)" loop *)
(* of the code makes exactly one turn.                                     *)
(***************************************************************************)
EXTENDS Integers, Sequences, FiniteSets

CONSTANTS TotalSectors,       \* RAMDISK_SIZE / 512              (2048)
          ReservedSectors,    \* reserved_sectors                (32)
          FatSize,            \* fat_size, in sectors            (80)
          EntriesPerCluster,  \* directory entries per cluster   (128)
          Name,               \* what may follow the optional leading '/'
          ShortName,          \* the 8.3 names entries carry
          Format,             \* format_filename
          Spells,             \* short names whose shown form a name spells
          Segment,            \* what lies between two '/' of current_path
          Segments,           \* the segments a name adds to current_path
          Empty, Dot, DotDot, \* the names "", "." and ".."
          Path,               \* the path arguments the user may type
          MaxDepth            \* bound: segments current_path has room for

SectorsPerCluster == 8
NumFats == 2
Root == 2

DataStart == ReservedSectors + NumFats * FatSize

\* find_free_cluster() looks at clusters below total_sectors_32 >> 3.
MaxCluster == TotalSectors \div SectorsPerCluster
Clusters == Root .. MaxCluster - 1

OnDiskShort(c) ==     \* mutant: the RAM disk's bound is off by one
  DataStart + (c - Root) * SectorsPerCluster + SectorsPerCluster < TotalSectors

\* Does every sector of the cluster lie on the disk?  ramdisk_read() and
\* ramdisk_write() refuse the others, read_cluster() and write_cluster()
\* return -1, and no caller looks at that result.
OnDisk(c) ==
  DataStart + (c - Root) * SectorsPerCluster + SectorsPerCluster <= TotalSectors

\* The geometry of fat32_format(): at least the root directory fits, and the
\* data area is a whole number of clusters.
ASSUME GeometryAssumption ==
  /\ TotalSectors \in Nat /\ ReservedSectors \in Nat /\ FatSize \in Nat
  /\ OnDisk(Root) /\ Root < MaxCluster
  /\ (TotalSectors - DataStart) % SectorsPerCluster = 0

\* A directory cluster holds at least "." and ".." and one more entry.
ASSUME EntriesAssumption ==
  EntriesPerCluster \in Nat /\ EntriesPerCluster > 2

ASSUME NameAssumption ==
  /\ {Empty, Dot, DotDot} \subseteq Name
  /\ Empty # Dot /\ Empty # DotDot /\ Dot # DotDot
  /\ Format \in [Name -> ShortName] /\ Format[Dot] # Format[DotDot]
  /\ Spells \in [Name -> SUBSET ShortName]
  /\ Format[Dot] \notin Spells[DotDot]
  /\ Segments \in [Name -> Seq(Segment)]
  /\ MaxDepth \in Nat

\* A path argument: does it start with '/', and what follows.  cli.c never
\* hands over an empty string ("cd" alone becomes "/", "ls" alone ".").
ASSUME PathAssumption ==
  Path \subseteq {p \in [abs : BOOLEAN, name : Name] : p.name = Empty => p.abs}

-----------------------------------------------------------------------------
Slots == 1 .. EntriesPerCluster

Free == 0                \* FAT entry of a free cluster
EndOfChain == 1          \* stands for 0x0FFFFFFF
NoCluster == 0           \* first cluster of a file entry

\* name[0] = 0x00 ends a directory, 0xE5 marks a deleted entry; what else
\* such an entry holds is never read.
Unused == [kind |-> "end", name |-> Format[Empty], cluster |-> NoCluster]
DeletedAsEnd == Unused       \* mutant: rm writes 0x00 into the name
Deleted == [Unused EXCEPT !.kind = "deleted"]
FileEntry(s) == [kind |-> "file", name |-> s, cluster |-> NoCluster]
DirEntry(s, c) == [kind |-> "dir", name |-> s, cluster |-> c]

Entry ==
  {Unused, Deleted}
    \cup [kind : {"file"}, name : ShortName, cluster : {NoCluster}]
    \cup [kind : {"dir"}, name : ShortName, cluster : Clusters]
Directory == [Slots -> Entry]

EmptyDirectory == [i \in Slots |-> Unused]

VARIABLES
  fat,       \* the first FAT: the entry of each data cluster
  data,      \* the directory each data cluster holds, meaningful if OnDisk
  buffer,    \* cluster_buffer: what the last read or write left there
  cwd,       \* current_dir_cluster
  path,      \* current_path, as its segments; "/" is <<>>
  ret        \* result of the last call

vars == <<fat, data, buffer, cwd, path, ret>>

TypeOK ==
  /\ fat \in [Clusters -> {Free, EndOfChain}]
  /\ data \in [Clusters -> Directory]
  /\ buffer \in Directory
  /\ cwd \in Clusters
  /\ path \in Seq(Segment)
  /\ ret \in {0, -1}

\* ramdisk_init(), fat32_init() and the fat32_format() it calls, because the
\* boot sector of a cleared RAM disk carries no signature.
Init ==
  /\ fat = [c \in Clusters |-> IF c = Root THEN EndOfChain ELSE Free]
  /\ data = [c \in Clusters |-> EmptyDirectory]
  /\ buffer = EmptyDirectory
  /\ cwd = Root
  /\ path = <<>>
  /\ ret = 0

-----------------------------------------------------------------------------
(* Clusters and directory entries.                                         *)

\* read_cluster() into cluster_buffer, under "while (cluster >= 2 && ...":
\* beyond the disk it leaves `buf' there.
Load(c, buf) == IF c \in Clusters /\ OnDisk(c) THEN data[c] ELSE buf

\* write_cluster(): beyond the disk it stores nothing.
Store(d, c, dir) == IF OnDisk(c) THEN [d EXCEPT ![c] = dir] ELSE d

FirstOf(S) == CHOOSE i \in S : \A j \in S : i <= j

Live(e) == e.kind \in {"file", "dir"}

SeenLive(dir) ==          \* mutant: a deleted entry ends the scan, too
  {i \in Slots : \A j \in 1 .. i : Live(dir[j])}

\* Slots a scan gets to see: those before the first end mark.
Seen(dir) == {i \in Slots : \A j \in 1 .. i : dir[j].kind # "end"}

Matches(s, n) == s = Format[n] \/ s \in Spells[n]

NewDirectoryInCwd(self, parent) ==   \* mutant: ".." is the current directory
  [EmptyDirectory EXCEPT ![1] = DirEntry(Format[Dot], self),
                         ![2] = DirEntry(Format[DotDot], cwd)]

\* The first content of a new directory: "." and "..".
NewDirectory(self, parent) ==
  [EmptyDirectory EXCEPT ![1] = DirEntry(Format[Dot], self),
                         ![2] = DirEntry(Format[DotDot], parent)]

\* find_dir_entry(): the slots that match, of which it takes the first.
Hits(dir, n) == {i \in Seen(dir) : Live(dir[i]) /\ Matches(dir[i].name, n)}
Found(dir, n) == Hits(dir, n) # {}
HitSlot(dir, n) == FirstOf(Hits(dir, n))
Hit(dir, n) == dir[HitSlot(dir, n)]

FreshSlots(dir) ==     \* mutant: deleted slots are not used again
  {i \in Slots : dir[i].kind = "end"}

\* find_free_dir_entry(): the first slot that ends the directory or is deleted.
FreeSlots(dir) == {i \in Slots : ~ Live(dir[i])}
FreeSlot(dir) == FirstOf(FreeSlots(dir))

\* find_free_cluster()
FreeClusters == {c \in Clusters : fat[c] = Free}
NewCluster == FirstOf(FreeClusters)

Kept(f, c) == f           \* mutant: the rollback is forgotten

\* set_fat_entry(c, 0x0FFFFFFF) and set_fat_entry(c, 0)
Take(f, c) == [f EXCEPT ![c] = EndOfChain]
Release(f, c) == [f EXCEPT ![c] = Free]

\* "if (path[0] == '/') dir_cluster = root_cluster"
StartDir(p) == IF p.abs THEN Root ELSE cwd

ParentAsRead(e) == e.cluster      \* mutant: "if (parent == 0)" is missing

\* The first cluster of an entry as "cd .." and "ls .." read it: 0 is the root.
ParentOf(e) == IF e.cluster = NoCluster THEN Root ELSE e.cluster

Fail(buf) == ret' = -1 /\ buffer' = buf /\ UNCHANGED <<fat, data, cwd, path>>

-----------------------------------------------------------------------------
(* The calls.                                                              *)

\* fat32_create(), called by touch.
Create(p) ==
  LET start == StartDir(p)
      dir == Load(start, buffer)
      dir2 == [dir EXCEPT ![FreeSlot(dir)] = FileEntry(Format[p.name])]
  IN  \/ /\ Found(dir, p.name) \/ FreeSlots(dir) = {}
         /\ Fail(dir)
      \/ /\ ~ Found(dir, p.name) /\ FreeSlots(dir) # {}
         /\ data' = Store(data, start, dir2)
         /\ buffer' = dir2
         /\ ret' = 0
         /\ UNCHANGED <<fat, cwd, path>>

\* fat32_mkdir().  The new cluster is taken from the FAT before a slot is
\* looked for, and given back when there is none.
Mkdir(p) ==
  LET start == StartDir(p)
      dir == Load(start, buffer)
      new == NewCluster
      dir2 == [dir EXCEPT ![FreeSlot(dir)] = DirEntry(Format[p.name], new)]
      fresh == NewDirectory(new, start)
  IN  \/ /\ Found(dir, p.name) \/ FreeClusters = {}
         /\ Fail(dir)
      \/ /\ ~ Found(dir, p.name) /\ FreeClusters # {}
         /\ FreeSlots(dir) = {}
         /\ fat' = Release(Take(fat, new), new)
         /\ buffer' = dir
         /\ ret' = -1
         /\ UNCHANGED <<data, cwd, path>>
      \/ /\ ~ Found(dir, p.name) /\ FreeClusters # {}
         /\ FreeSlots(dir) # {}
         /\ fat' = Take(fat, new)
         /\ data' = Store(Store(data, start, dir2), new, fresh)
         /\ buffer' = fresh
         /\ ret' = 0
         /\ UNCHANGED <<cwd, path>>

\* fat32_delete(), called by rm.  It frees the cluster of whatever entry it
\* finds and does not ask whether that entry is a file.
Delete(p) ==
  LET start == StartDir(p)
      dir == Load(start, buffer)
      slot == HitSlot(dir, p.name)
      first == dir[slot].cluster
      dir2 == [dir EXCEPT ![slot] = Deleted]
  IN  \/ ~ Found(dir, p.name) /\ Fail(dir)
      \/ /\ Found(dir, p.name)
         /\ fat' = IF first = NoCluster THEN fat ELSE Release(fat, first)
         /\ data' = Store(data, start, dir2)
         /\ buffer' = dir2
         /\ ret' = 0
         /\ UNCHANGED <<cwd, path>>

\* fat32_list_dir(), called by ls.  What is printed is what buffer' holds.
List(p) ==
  LET special == p.name \in {Empty, Dot, DotDot}
      dir == CASE p.name = DotDot -> Load(cwd, buffer)
               [] p.name \in {Empty, Dot} -> buffer
               [] OTHER -> Load(StartDir(p), buffer)
      hit == Hit(dir, p.name)
      target == CASE p.name = Empty -> StartDir(p)
                  [] p.name = Dot -> cwd
                  [] p.name = DotDot -> IF Found(dir, DotDot) THEN ParentOf(hit)
                                                              ELSE StartDir(p)
                  [] OTHER -> hit.cluster
  IN  \/ /\ ~ special /\ (Found(dir, p.name) => hit.kind # "dir")
         /\ Fail(dir)
      \/ /\ special \/ (Found(dir, p.name) /\ hit.kind = "dir")
         /\ buffer' = Load(target, dir)
         /\ ret' = 0
         /\ UNCHANGED <<fat, data, cwd, path>>

UnresetPath(p) == path            \* mutant: the path is not reset

\* fat32_chdir(), called by cd.  A leading '/' resets current_path before the
\* rest of the argument is looked at.
CurrentPath(p) == IF p.abs THEN <<>> ELSE path

\* "cd /", or "cd" alone
ChdirRoot(p) ==
  /\ p.name = Empty
  /\ cwd' = Root /\ path' = <<>> /\ ret' = 0
  /\ UNCHANGED <<fat, data, buffer>>

\* "cd ." and "cd /."
ChdirDot(p) ==
  /\ p.name = Dot
  /\ path' = CurrentPath(p) /\ ret' = 0
  /\ UNCHANGED <<fat, data, buffer, cwd>>

\* "cd .." and "cd /..": both start from the current directory.
ChdirUp(p) ==
  LET dir == Load(cwd, buffer)
      here == CurrentPath(p)
  IN  /\ p.name = DotDot
      /\ IF Found(dir, DotDot)
           THEN /\ cwd' = ParentOf(Hit(dir, DotDot))
                /\ path' = IF here = <<>> THEN <<>>
                                          ELSE SubSeq(here, 1, Len(here) - 1)
           ELSE cwd' = cwd /\ path' = here
      /\ buffer' = dir /\ ret' = 0
      /\ UNCHANGED <<fat, data>>

ChdirDown(p) ==
  LET dir == Load(StartDir(p), buffer)
  IN  /\ p.name \notin {Empty, Dot, DotDot}
      /\ buffer' = dir
      /\ \/ /\ ~ (Found(dir, p.name) /\ Hit(dir, p.name).kind = "dir")
            /\ path' = CurrentPath(p) /\ ret' = -1
            /\ UNCHANGED cwd
         \/ /\ Found(dir, p.name) /\ Hit(dir, p.name).kind = "dir"
            /\ Len(CurrentPath(p) \o Segments[p.name]) <= MaxDepth
            /\ cwd' = Hit(dir, p.name).cluster
            /\ path' = CurrentPath(p) \o Segments[p.name] /\ ret' = 0
      /\ UNCHANGED <<fat, data>>

Chdir(p) == ChdirRoot(p) \/ ChdirDot(p) \/ ChdirUp(p) \/ ChdirDown(p)

Next ==
  \E p \in Path :
    Create(p) \/ Mkdir(p) \/ Delete(p) \/ List(p) \/ Chdir(p)

Spec == Init /\ [][Next]_vars

-----------------------------------------------------------------------------
(* What holds of every sequence of commands.                               *)

NoneHidden(dir) == \A i \in Slots : Live(dir[i]) => i \in Seen(dir)

NoneTwice(dir) ==
  \A i, j \in Slots :
    Live(dir[i]) /\ Live(dir[j]) /\ dir[i].name = dir[j].name => i = j

\* No entry is lost behind the end mark: a scan that stops at the first
\* unused slot has seen every live entry, whatever slots touch, mkdir and rm
\* reused before (the early "return -1" of find_dir_entry relies on it).
NoHiddenEntries == \A c \in Clusters : NoneHidden(data[c])

\* No directory holds two live entries with one 8.3 name, although names are
\* looked up as typed and stored as formatted, in reused slots and in the
\* stale clusters of removed directories.
UniqueNames == \A c \in Clusters : NoneTwice(data[c])

\* A call that reports an error leaves the disk and the current directory as
\* they were: mkdir returns the cluster it took when its directory is full.
\* (current_path is not in the list: "cd /nosuch" resets it.)
FailedCallsChangeNothing ==
  [][ret' = -1 => UNCHANGED <<fat, data, cwd>>]_vars

\* What "Create a directory" (fat32.h) says of mkdir: when it reports success,
\* reading the new cluster gives a directory with "." and ".." and no more.
MkdirMakesDirectory ==
  [][\A p \in Path :
       Mkdir(p) /\ ret' = 0
         => data'[NewCluster] = NewDirectory(NewCluster, StartDir(p))]_vars

=============================================================================
