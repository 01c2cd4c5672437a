----------------------------- MODULE Fat32Proof -----------------------------
(***************************************************************************)
(* What modules Fat32, FatFiles and Fat32Tree say of every sequence of     *)
(* commands, proved for every disk geometry and every set of names: the    *)
(* file system first, then the chain the open files share, then the tree;  *)
(* and what MCFileNames says of names, for names of every length.          *)
(***************************************************************************)
EXTENDS Fat32Tree, MCFileNames, Induction, FiniteSetTheorems, SequenceTheorems

\* The least element of a nonempty set of naturals, which both searches for a
\* slot and the search for a cluster return.
LEMMA FirstOfIsLeast ==
  ASSUME NEW S \in SUBSET Nat, S # {}
  PROVE  FirstOf(S) \in S /\ \A j \in S : FirstOf(S) <= j
<1> DEFINE Less == {ss \in Nat \X Nat : ss[1] < ss[2]}
<1>1. IsWellFoundedOn(Less, Nat)
  BY NatLessThanWellFounded DEF OpToRel
<1>2. PICK i \in S : \A j \in S : ~ (<<j, i>> \in Less)
  BY <1>1, WFMin
<1>3. ASSUME NEW j \in S PROVE i <= j
  <2>1. i \in Nat /\ j \in Nat /\ ~ (<<j, i>> \in Less)
    BY <1>2
  <2>2. ~ (j < i)
    BY <2>1
  <2>3. QED
    BY <2>1, <2>2
<1>4. QED
  BY <1>3 DEF FirstOf

-----------------------------------------------------------------------------
(* What the searches return.                                               *)

LEMMA RootIsCluster == Root \in Clusters /\ Clusters \in SUBSET Nat
BY GeometryAssumption DEF Clusters, Root, MaxCluster, SectorsPerCluster

LEMMA SlotsAreNaturals == Slots \in SUBSET Nat /\ 1 \in Slots /\ 2 \in Slots
BY EntriesAssumption DEF Slots

LEMMA SlotsBelow ==
  ASSUME NEW i \in Slots
  PROVE  i \in Nat /\ \A j \in 1 .. i : j \in Slots
BY EntriesAssumption DEF Slots

LEMMA HitIsHit ==
  ASSUME NEW dir, NEW n, Found(dir, n)
  PROVE  HitSlot(dir, n) \in Hits(dir, n)
<1>1. Hits(dir, n) \in SUBSET Nat /\ Hits(dir, n) # {}
  BY SlotsAreNaturals DEF Hits, Seen, Found
<1>2. QED
  BY <1>1, FirstOfIsLeast DEF HitSlot

LEMMA FreeSlotIsFirst ==
  ASSUME NEW dir, FreeSlots(dir) # {}
  PROVE  /\ FreeSlot(dir) \in Slots /\ ~ Live(dir[FreeSlot(dir)])
         /\ \A j \in Slots : j < FreeSlot(dir) => Live(dir[j])
<1>1. FreeSlots(dir) \in SUBSET Nat
  BY SlotsAreNaturals DEF FreeSlots
<1>2. /\ FreeSlot(dir) \in FreeSlots(dir)
      /\ \A j \in FreeSlots(dir) : FreeSlot(dir) <= j
  BY <1>1, FirstOfIsLeast DEF FreeSlot
<1>3. FreeSlot(dir) \in Slots /\ ~ Live(dir[FreeSlot(dir)])
  BY <1>2 DEF FreeSlots
<1>4. ASSUME NEW j \in Slots, j < FreeSlot(dir)
      PROVE  Live(dir[j])
  <2>1. SUFFICES ASSUME ~ Live(dir[j]) PROVE FALSE
    OBVIOUS
  <2>2. j \in FreeSlots(dir)
    BY <2>1 DEF FreeSlots
  <2>3. FreeSlot(dir) <= j /\ j \in Nat /\ FreeSlot(dir) \in Nat
    BY <1>2, <1>3, <2>2, SlotsAreNaturals
  <2>4. QED
    BY <1>4, <2>3
<1>5. QED
  BY <1>3, <1>4

LEMMA NewClusterIsFree ==
  ASSUME FreeClusters # {}
  PROVE  /\ NewCluster \in Clusters /\ fat[NewCluster] = Free
         /\ \A c \in Clusters : fat[c] = Free => NewCluster <= c
<1>1. FreeClusters \in SUBSET Nat
  BY RootIsCluster DEF FreeClusters
<1>2. /\ NewCluster \in FreeClusters
      /\ \A c \in FreeClusters : NewCluster <= c
  BY <1>1, FirstOfIsLeast DEF NewCluster
<1>3. QED
  BY <1>2 DEF FreeClusters

-----------------------------------------------------------------------------
(* Types.                                                                  *)

LEMMA EntryTypes ==
  /\ \A n \in Name : FileEntry(Format[n]) \in Entry
  /\ \A n \in Name, c \in Clusters : DirEntry(Format[n], c) \in Entry
  /\ Unused \in Entry /\ Deleted \in Entry
BY NameAssumption DEF FileEntry, DirEntry, Unused, Deleted, Entry

LEMMA WriteSlotType ==
  ASSUME NEW dir \in Directory, NEW i \in Slots, NEW e \in Entry
  PROVE  [dir EXCEPT ![i] = e] \in Directory
BY DEF Directory

LEMMA NewDirectoryType ==
  ASSUME NEW c \in Clusters, NEW k \in Clusters
  PROVE  NewDirectory(c, k) \in Directory
<1>1. EmptyDirectory \in Directory
  BY EntryTypes DEF EmptyDirectory, Directory
<1>2. /\ DirEntry(Format[Dot], c) \in Entry
      /\ DirEntry(Format[DotDot], k) \in Entry
  BY EntryTypes, NameAssumption
<1>3. QED
  BY <1>1, <1>2, SlotsAreNaturals DEF NewDirectory, Directory

LEMMA LoadType ==
  ASSUME data \in [Clusters -> Directory], NEW buf \in Directory,
         NEW c \in Clusters
  PROVE  Load(c, buf) \in Directory
BY DEF Load

LEMMA StoreType ==
  ASSUME NEW d \in [Clusters -> Directory], NEW dir \in Directory,
         NEW c \in Clusters
  PROVE  Store(d, c, dir) \in [Clusters -> Directory]
BY DEF Store

\* The slot a search hits, and the cluster its entry leads to.
LEMMA HitType ==
  ASSUME NEW dir \in Directory, NEW n, Found(dir, n)
  PROVE  /\ HitSlot(dir, n) \in Slots /\ Hit(dir, n) = dir[HitSlot(dir, n)]
         /\ Hit(dir, n) \in Entry /\ Live(Hit(dir, n))
         /\ Matches(Hit(dir, n).name, n)
<1>1. HitSlot(dir, n) \in Slots
  BY HitIsHit DEF Hits, Seen
<1>2. QED
  BY <1>1, HitIsHit DEF Hit, Hits, Directory

LEMMA LeadsToCluster ==
  ASSUME NEW e \in Entry, Live(e)
  PROVE  /\ e.kind = "dir" => e.cluster \in Clusters
         /\ e.kind = "file" => e.cluster = NoCluster
         /\ ParentOf(e) \in Clusters
         /\ e.cluster \in Clusters \cup {NoCluster}
<1>1. \/ e \in [kind : {"file"}, name : ShortName, cluster : {NoCluster}]
      \/ e \in [kind : {"dir"}, name : ShortName, cluster : Clusters]
  BY DEF Entry, Live, Unused, Deleted
<1>2. QED
  BY <1>1, RootIsCluster DEF ParentOf, NoCluster

LEMMA StartIsCluster ==
  ASSUME TypeOK, NEW p \in Path
  PROVE  StartDir(p) \in Clusters /\ p.name \in Name
BY RootIsCluster, PathAssumption DEF TypeOK, StartDir

LEMMA CreateType ==
  ASSUME TypeOK, NEW p \in Path, Create(p)
  PROVE  TypeOK'
<1> DEFINE start == StartDir(p)
           dir == Load(start, buffer)
           dir2 == [dir EXCEPT ![FreeSlot(dir)] = FileEntry(Format[p.name])]
<1>1. start \in Clusters /\ dir \in Directory
  BY StartIsCluster, LoadType DEF TypeOK
<1>2. CASE Fail(dir)
  BY <1>1, <1>2 DEF Fail, TypeOK
<1>3. CASE /\ FreeSlots(dir) # {}
           /\ data' = Store(data, start, dir2) /\ buffer' = dir2 /\ ret' = 0
           /\ UNCHANGED <<fat, cwd, path>>
  <2>1. dir2 \in Directory
    BY <1>1, <1>3, FreeSlotIsFirst, StartIsCluster, EntryTypes, WriteSlotType
  <2>2. Store(data, start, dir2) \in [Clusters -> Directory]
    BY <1>1, <2>1, StoreType DEF TypeOK
  <2>3. QED
    BY <1>3, <2>1, <2>2 DEF TypeOK
<1>4. QED
  BY <1>2, <1>3 DEF Create

LEMMA MkdirType ==
  ASSUME TypeOK, NEW p \in Path, Mkdir(p)
  PROVE  TypeOK'
<1> DEFINE start == StartDir(p)
           dir == Load(start, buffer)
           dir2 == [dir EXCEPT ![FreeSlot(dir)] =
                                 DirEntry(Format[p.name], NewCluster)]
           fresh == NewDirectory(NewCluster, start)
<1>1. start \in Clusters /\ dir \in Directory
  BY StartIsCluster, LoadType DEF TypeOK
<1>2. CASE Fail(dir)
  BY <1>1, <1>2 DEF Fail, TypeOK
<1>3. CASE /\ FreeClusters # {}
           /\ fat' = Release(Take(fat, NewCluster), NewCluster)
           /\ buffer' = dir /\ ret' = -1 /\ UNCHANGED <<data, cwd, path>>
  BY <1>1, <1>3, NewClusterIsFree DEF TypeOK, Take, Release
<1>4. CASE /\ FreeClusters # {} /\ FreeSlots(dir) # {}
           /\ fat' = Take(fat, NewCluster)
           /\ data' = Store(Store(data, start, dir2), NewCluster, fresh)
           /\ buffer' = fresh /\ ret' = 0 /\ UNCHANGED <<cwd, path>>
  <2>1. NewCluster \in Clusters
    BY <1>4, NewClusterIsFree
  <2>2. dir2 \in Directory /\ fresh \in Directory
    BY <1>1, <1>4, <2>1, FreeSlotIsFirst, StartIsCluster, EntryTypes,
       WriteSlotType, NewDirectoryType
  <2>3. Store(Store(data, start, dir2), NewCluster, fresh)
          \in [Clusters -> Directory]
    <3>1. Store(data, start, dir2) \in [Clusters -> Directory]
      BY <1>1, <2>2, StoreType DEF TypeOK
    <3>2. QED
      BY <3>1, <2>1, <2>2, StoreType
  <2>4. fat' \in [Clusters -> {Free, EndOfChain}]
    BY <1>4 DEF TypeOK, Take
  <2>5. QED
    BY <1>4, <2>2, <2>3, <2>4 DEF TypeOK
<1>5. QED
  BY <1>2, <1>3, <1>4 DEF Mkdir

LEMMA DeleteType ==
  ASSUME TypeOK, NEW p \in Path, Delete(p)
  PROVE  TypeOK'
<1> DEFINE start == StartDir(p)
           dir == Load(start, buffer)
           slot == HitSlot(dir, p.name)
           dir2 == [dir EXCEPT ![slot] = Deleted]
<1>1. start \in Clusters /\ dir \in Directory
  BY StartIsCluster, LoadType DEF TypeOK
<1>2. CASE Fail(dir)
  BY <1>1, <1>2 DEF Fail, TypeOK
<1>3. CASE /\ Found(dir, p.name)
           /\ fat' = IF dir[slot].cluster = NoCluster
                       THEN fat ELSE Release(fat, dir[slot].cluster)
           /\ data' = Store(data, start, dir2)
           /\ buffer' = dir2 /\ ret' = 0 /\ UNCHANGED <<cwd, path>>
  <2>1. dir2 \in Directory
    BY <1>1, <1>3, HitType, EntryTypes, WriteSlotType
  <2>2. Store(data, start, dir2) \in [Clusters -> Directory]
    BY <1>1, <2>1, StoreType DEF TypeOK
  <2>3. fat' \in [Clusters -> {Free, EndOfChain}]
    BY <1>3 DEF TypeOK, Release
  <2>4. QED
    BY <1>3, <2>1, <2>2, <2>3 DEF TypeOK
<1>4. QED
  BY <1>2, <1>3 DEF Delete

\* What ls reads: at most one directory to look the name up in, then the
\* directory it lists.
LEMMA ListReads ==
  ASSUME TypeOK, NEW p \in Path, List(p)
  PROVE  \E dir \in {buffer, Load(cwd, buffer), Load(StartDir(p), buffer)} :
           buffer' = dir \/ \E c \in Clusters : buffer' = Load(c, dir)
<1> DEFINE special == p.name \in {Empty, Dot, DotDot}
           dir == CASE p.name = DotDot -> Load(cwd, buffer)
                    [] p.name \in {Empty, Dot} -> buffer
                    [] OTHER -> Load(StartDir(p), buffer)
           hit == Hit(dir, p.name)
           target == CASE p.name = Empty -> StartDir(p)
                       [] p.name = Dot -> cwd
                       [] p.name = DotDot -> IF Found(dir, DotDot)
                                               THEN ParentOf(hit)
                                               ELSE StartDir(p)
                       [] OTHER -> hit.cluster
<1>1. StartDir(p) \in Clusters /\ cwd \in Clusters /\ buffer \in Directory
  BY StartIsCluster DEF TypeOK
<1>2. /\ dir \in Directory
      /\ dir \in {buffer, Load(cwd, buffer), Load(StartDir(p), buffer)}
  BY <1>1, LoadType, NameAssumption DEF TypeOK
<1>3. CASE Fail(dir)
  BY <1>2, <1>3 DEF Fail
<1>4. CASE /\ special \/ (Found(dir, p.name) /\ hit.kind = "dir")
           /\ buffer' = Load(target, dir)
  <2>1. Found(dir, p.name) => /\ ParentOf(hit) \in Clusters
                              /\ hit.kind = "dir" => hit.cluster \in Clusters
    BY <1>2, HitType, LeadsToCluster
  <2> HIDE DEF dir, hit
  <2>2. target \in Clusters
    BY <1>1, <1>4, <2>1, NameAssumption
  <2> HIDE DEF target
  <2>3. QED
    BY <1>2, <1>4, <2>2
<1>5. QED
  BY <1>3, <1>4 DEF List

LEMMA ListType ==
  ASSUME TypeOK, NEW p \in Path, List(p)
  PROVE  TypeOK'
<1>1. PICK dir \in {buffer, Load(cwd, buffer), Load(StartDir(p), buffer)} :
        buffer' = dir \/ \E c \in Clusters : buffer' = Load(c, dir)
  BY ListReads
<1>2. dir \in Directory
  BY StartIsCluster, LoadType DEF TypeOK
<1>3. \A c \in Clusters : Load(c, dir) \in Directory
  BY <1>2, LoadType DEF TypeOK
<1>4. buffer' \in Directory
  BY <1>1, <1>2, <1>3
<1>5. UNCHANGED <<fat, data, cwd, path>> /\ ret' \in {0, -1}
  BY DEF List, Fail
<1>6. QED
  BY <1>4, <1>5 DEF TypeOK

LEMMA ChdirType ==
  ASSUME TypeOK, NEW p \in Path, Chdir(p)
  PROVE  TypeOK'
<1>1. CurrentPath(p) \in Seq(Segment)
  BY DEF CurrentPath, TypeOK
<1>2. CASE ChdirRoot(p)
  BY <1>2, RootIsCluster DEF ChdirRoot, TypeOK
<1>3. CASE ChdirDot(p)
  BY <1>1, <1>3 DEF ChdirDot, TypeOK
<1>4. CASE ChdirUp(p)
  <2> DEFINE dir == Load(cwd, buffer)
  <2>1. dir \in Directory
    BY LoadType DEF TypeOK
  <2>2. cwd' \in Clusters
    BY <1>4, <2>1, HitType, LeadsToCluster DEF ChdirUp, TypeOK
  <2>3. path' \in Seq(Segment)
    <3> DEFINE here == CurrentPath(p)
               up == SubSeq(here, 1, Len(here) - 1)
    <3>1. \/ path' = <<>> \/ path' = here
          \/ here # <<>> /\ path' = up
      BY <1>4, Zenon DEF ChdirUp
    <3>2. here \in Seq(Segment) /\ <<>> \in Seq(Segment)
      BY <1>1
    <3> HIDE DEF here
    <3>3. here # <<>> => up \in Seq(Segment)
      BY <3>2
    <3> HIDE DEF up
    <3>4. QED
      BY <3>1, <3>2, <3>3
  <2>4. QED
    BY <1>4, <2>1, <2>2, <2>3 DEF ChdirUp, TypeOK
<1>5. CASE ChdirDown(p)
  <2> DEFINE dir == Load(StartDir(p), buffer)
  <2>1. dir \in Directory
    BY StartIsCluster, LoadType DEF TypeOK
  <2>2. cwd' \in Clusters
    BY <1>5, <2>1, HitType, LeadsToCluster DEF ChdirDown, TypeOK
  <2>3. path' \in Seq(Segment)
    <3>1. \/ path' = CurrentPath(p)
          \/ path' = CurrentPath(p) \o Segments[p.name]
      BY <1>5, Zenon DEF ChdirDown
    <3>2. Segments[p.name] \in Seq(Segment)
      BY StartIsCluster, NameAssumption
    <3>3. CurrentPath(p) \o Segments[p.name] \in Seq(Segment)
      BY <1>1, <3>2
    <3>4. QED
      BY <1>1, <3>1, <3>3, Zenon
  <2>4. QED
    BY <1>5, <2>1, <2>2, <2>3 DEF ChdirDown, TypeOK
<1>6. QED
  BY <1>2, <1>3, <1>4, <1>5 DEF Chdir

LEMMA StepType == TypeOK /\ [Next]_vars => TypeOK'
<1>1. CASE UNCHANGED vars
  BY <1>1 DEF vars, TypeOK
<1>2. CASE Next
  BY <1>2, CreateType, MkdirType, DeleteType, ListType, ChdirType DEF Next
<1>3. QED
  BY <1>1, <1>2

LEMMA InitType == Init => TypeOK
<1>1. EmptyDirectory \in Directory
  BY EntryTypes DEF EmptyDirectory, Directory
<1>2. QED
  BY <1>1, RootIsCluster DEF Init, TypeOK

\* Every variable keeps its type, whatever commands are typed.  In particular
\* the shell never makes a directory's cluster number leave the FAT's range:
\* the read of "..", the only cluster read back from an entry, is a cluster.
THEOREM TypeCorrect == Spec => []TypeOK
BY InitType, StepType, PTL DEF Spec

-----------------------------------------------------------------------------
(* Directories stay in order.                                              *)

InOrder(dir) == NoneHidden(dir) /\ NoneTwice(dir)

\* The inductive form: the cluster buffer is in it, because what a command
\* writes to the disk is the buffer with one slot changed, and because a
\* cluster beyond the disk reads as whatever the buffer holds.
DirectoriesInOrder ==
  /\ \A c \in Clusters : InOrder(data[c])
  /\ InOrder(buffer)

LEMMA EmptyInOrder == InOrder(EmptyDirectory)
BY DEF InOrder, NoneHidden, NoneTwice, EmptyDirectory, Live, Unused

LEMMA NewInOrder ==
  ASSUME NEW c, NEW k
  PROVE  InOrder(NewDirectory(c, k))
<1> DEFINE dir == NewDirectory(c, k)
<1>1. /\ dir[1] = DirEntry(Format[Dot], c) /\ dir[2] = DirEntry(Format[DotDot], k)
      /\ \A i \in Slots : i # 1 /\ i # 2 => dir[i] = Unused
  BY SlotsAreNaturals DEF NewDirectory, EmptyDirectory
<1>2. /\ dir[1].kind = "dir" /\ dir[2].kind = "dir"
      /\ dir[1].name = Format[Dot] /\ dir[2].name = Format[DotDot]
      /\ \A i \in Slots : Live(dir[i]) => i = 1 \/ i = 2
  BY <1>1 DEF DirEntry, Live, Unused
<1> HIDE DEF dir
<1>3. 1 \in Seen(dir) /\ 2 \in Seen(dir)
  <2>1. \A j \in 1 .. 1 : j = 1
    OBVIOUS
  <2>2. \A j \in 1 .. 2 : j = 1 \/ j = 2
    OBVIOUS
  <2>3. QED
    BY <1>2, <2>1, <2>2, SlotsAreNaturals DEF Seen
<1>4. NoneHidden(dir)
  BY <1>2, <1>3 DEF NoneHidden
<1>5. NoneTwice(dir)
  BY <1>2, NameAssumption DEF NoneTwice
<1>6. InOrder(dir)
  BY <1>4, <1>5 DEF InOrder
<1>7. QED
  BY <1>6 DEF dir

\* An entry written to the first free slot, under a name not found before.
LEMMA AddInOrder ==
  ASSUME NEW dir \in Directory, InOrder(dir), FreeSlots(dir) # {},
         NEW n \in Name, ~ Found(dir, n),
         NEW e \in Entry, Live(e), e.name = Format[n]
  PROVE  InOrder([dir EXCEPT ![FreeSlot(dir)] = e])
<1> DEFINE slot == FreeSlot(dir)
           dir2 == [dir EXCEPT ![slot] = e]
<1>1. /\ slot \in Slots /\ ~ Live(dir[slot])
      /\ \A j \in Slots : j < slot => Live(dir[j])
  BY FreeSlotIsFirst
<1>2. dir2[slot] = e /\ \A i \in Slots : i # slot => dir2[i] = dir[i]
  BY <1>1 DEF Directory
<1>3. slot \in Nat /\ \A i \in Slots : i \in Nat /\ \A j \in 1 .. i : j \in Slots
  BY <1>1, SlotsBelow
<1> HIDE DEF slot, dir2
<1>4. \A i \in Slots : dir[i].kind # "end" => dir2[i].kind # "end"
  BY <1>2 DEF Live
<1>5. Seen(dir) \subseteq Seen(dir2)
  BY <1>3, <1>4 DEF Seen
<1>6. slot \in Seen(dir2)
  <2>1. \A j \in 1 .. slot : j = slot \/ (j \in Slots /\ j < slot)
    BY <1>1, <1>3
  <2>2. \A j \in 1 .. slot : dir2[j].kind # "end"
    BY <1>1, <1>2, <2>1 DEF Live
  <2>3. QED
    BY <1>1, <2>2 DEF Seen
<1>7. NoneHidden(dir2)
  BY <1>2, <1>5, <1>6 DEF NoneHidden, InOrder
<1>8. \A i \in Slots : Live(dir[i]) => dir[i].name # Format[n]
  BY DEF InOrder, NoneHidden, Found, Hits, Matches
<1>9. NoneTwice(dir2)
  BY <1>2, <1>8 DEF NoneTwice, InOrder
<1>10. InOrder(dir2)
  BY <1>7, <1>9 DEF InOrder
<1>11. QED
  BY <1>10 DEF dir2, slot

LEMMA RemoveInOrder ==
  ASSUME NEW dir \in Directory, InOrder(dir), NEW slot \in Slots
  PROVE  InOrder([dir EXCEPT ![slot] = Deleted])
<1> DEFINE dir2 == [dir EXCEPT ![slot] = Deleted]
<1>1. ~ Live(Deleted) /\ Deleted.kind # "end"
  BY DEF Live, Deleted, Unused
<1>2. dir2[slot] = Deleted /\ \A i \in Slots : i # slot => dir2[i] = dir[i]
  BY DEF Directory
<1>3. \A i \in Slots : i \in Nat /\ \A j \in 1 .. i : j \in Slots
  BY SlotsBelow
<1> HIDE DEF dir2
<1>4. \A i \in Slots : Live(dir2[i]) => i # slot /\ dir2[i] = dir[i]
  BY <1>1, <1>2
<1>5. Seen(dir) \subseteq Seen(dir2)
  BY <1>1, <1>2, <1>3 DEF Seen
<1>6. NoneHidden(dir2) /\ NoneTwice(dir2)
  BY <1>4, <1>5 DEF InOrder, NoneHidden, NoneTwice
<1>7. InOrder(dir2)
  BY <1>6 DEF InOrder
<1>8. QED
  BY <1>7 DEF dir2

LEMMA LoadInOrder ==
  ASSUME \A c \in Clusters : InOrder(data[c]), NEW buf, InOrder(buf),
         NEW c \in Clusters
  PROVE  InOrder(Load(c, buf))
BY DEF Load

LEMMA StoreInOrder ==
  ASSUME NEW d \in [Clusters -> Directory], \A c \in Clusters : InOrder(d[c]),
         NEW dir, InOrder(dir), NEW k \in Clusters
  PROVE  \A c \in Clusters : InOrder(Store(d, k, dir)[c])
BY DEF Store

LEMMA CreateInOrder ==
  ASSUME TypeOK, DirectoriesInOrder, NEW p \in Path, Create(p)
  PROVE  DirectoriesInOrder'
<1> DEFINE start == StartDir(p)
           dir == Load(start, buffer)
           dir2 == [dir EXCEPT ![FreeSlot(dir)] = FileEntry(Format[p.name])]
<1>1. /\ start \in Clusters /\ p.name \in Name /\ dir \in Directory
      /\ InOrder(dir)
  BY StartIsCluster, LoadType, LoadInOrder DEF TypeOK, DirectoriesInOrder
<1>2. CASE Fail(dir)
  BY <1>1, <1>2 DEF Fail, DirectoriesInOrder
<1>3. CASE /\ ~ Found(dir, p.name) /\ FreeSlots(dir) # {}
           /\ data' = Store(data, start, dir2) /\ buffer' = dir2
  <2>1. /\ FileEntry(Format[p.name]) \in Entry /\ Live(FileEntry(Format[p.name]))
        /\ FileEntry(Format[p.name]).name = Format[p.name]
    BY <1>1, EntryTypes DEF FileEntry, Live
  <2>2. InOrder(dir2)
    BY <1>1, <1>3, <2>1, AddInOrder
  <2> HIDE DEF dir2
  <2>3. \A c \in Clusters : InOrder(Store(data, start, dir2)[c])
    BY <1>1, <2>2, StoreInOrder DEF TypeOK, DirectoriesInOrder
  <2>4. QED
    BY <1>3, <2>2, <2>3 DEF DirectoriesInOrder
<1>4. QED
  BY <1>2, <1>3 DEF Create

LEMMA MkdirInOrder ==
  ASSUME TypeOK, DirectoriesInOrder, NEW p \in Path, Mkdir(p)
  PROVE  DirectoriesInOrder'
<1> DEFINE start == StartDir(p)
           dir == Load(start, buffer)
           new == DirEntry(Format[p.name], NewCluster)
           dir2 == [dir EXCEPT ![FreeSlot(dir)] = new]
           fresh == NewDirectory(NewCluster, start)
<1>1. /\ start \in Clusters /\ p.name \in Name /\ dir \in Directory
      /\ InOrder(dir)
  BY StartIsCluster, LoadType, LoadInOrder DEF TypeOK, DirectoriesInOrder
<1>2. CASE buffer' = dir /\ UNCHANGED data
  BY <1>1, <1>2 DEF DirectoriesInOrder
<1>3. CASE /\ ~ Found(dir, p.name) /\ FreeClusters # {} /\ FreeSlots(dir) # {}
           /\ data' = Store(Store(data, start, dir2), NewCluster, fresh)
           /\ buffer' = fresh
  <2>1. NewCluster \in Clusters
    BY <1>3, NewClusterIsFree
  <2>2. new \in Entry /\ Live(new) /\ new.name = Format[p.name]
    BY <1>1, <2>1, EntryTypes DEF DirEntry, Live
  <2> HIDE DEF new
  <2>3. dir2 \in Directory /\ InOrder(dir2) /\ InOrder(fresh)
    BY <1>1, <1>3, <2>2, AddInOrder, NewInOrder, FreeSlotIsFirst, WriteSlotType
  <2> HIDE DEF dir2, fresh
  <2>4. /\ Store(data, start, dir2) \in [Clusters -> Directory]
        /\ \A c \in Clusters : InOrder(Store(data, start, dir2)[c])
    BY <1>1, <2>3, StoreType, StoreInOrder DEF TypeOK, DirectoriesInOrder
  <2>5. \A c \in Clusters :
          InOrder(Store(Store(data, start, dir2), NewCluster, fresh)[c])
    BY <2>1, <2>3, <2>4, StoreInOrder
  <2>6. QED
    BY <1>3, <2>3, <2>5 DEF DirectoriesInOrder
<1>4. QED
  BY <1>2, <1>3 DEF Mkdir, Fail

LEMMA DeleteInOrder ==
  ASSUME TypeOK, DirectoriesInOrder, NEW p \in Path, Delete(p)
  PROVE  DirectoriesInOrder'
<1> DEFINE start == StartDir(p)
           dir == Load(start, buffer)
           dir2 == [dir EXCEPT ![HitSlot(dir, p.name)] = Deleted]
<1>1. /\ start \in Clusters /\ p.name \in Name /\ dir \in Directory
      /\ InOrder(dir)
  BY StartIsCluster, LoadType, LoadInOrder DEF TypeOK, DirectoriesInOrder
<1>2. CASE Fail(dir)
  BY <1>1, <1>2 DEF Fail, DirectoriesInOrder
<1>3. CASE /\ Found(dir, p.name)
           /\ data' = Store(data, start, dir2) /\ buffer' = dir2
  <2>1. InOrder(dir2)
    BY <1>1, <1>3, HitType, RemoveInOrder
  <2> HIDE DEF dir2
  <2>2. \A c \in Clusters : InOrder(Store(data, start, dir2)[c])
    BY <1>1, <2>1, StoreInOrder DEF TypeOK, DirectoriesInOrder
  <2>3. QED
    BY <1>3, <2>1, <2>2 DEF DirectoriesInOrder
<1>4. QED
  BY <1>2, <1>3 DEF Delete

LEMMA ListInOrder ==
  ASSUME TypeOK, DirectoriesInOrder, NEW p \in Path, List(p)
  PROVE  DirectoriesInOrder'
<1>1. PICK dir \in {buffer, Load(cwd, buffer), Load(StartDir(p), buffer)} :
        buffer' = dir \/ \E c \in Clusters : buffer' = Load(c, dir)
  BY ListReads
<1>2. InOrder(dir)
  BY StartIsCluster, LoadInOrder DEF TypeOK, DirectoriesInOrder
<1>3. \A c \in Clusters : InOrder(Load(c, dir))
  BY <1>2, LoadInOrder DEF DirectoriesInOrder
<1>4. InOrder(buffer')
  BY <1>1, <1>2, <1>3
<1>5. UNCHANGED data
  BY DEF List, Fail
<1>6. QED
  BY <1>4, <1>5 DEF DirectoriesInOrder

LEMMA ChdirInOrder ==
  ASSUME TypeOK, DirectoriesInOrder, NEW p \in Path, Chdir(p)
  PROVE  DirectoriesInOrder'
<1>1. /\ UNCHANGED data
      /\ \/ buffer' = buffer \/ buffer' = Load(cwd, buffer)
         \/ buffer' = Load(StartDir(p), buffer)
  BY Zenon DEF Chdir, ChdirRoot, ChdirDot, ChdirUp, ChdirDown
<1>2. /\ InOrder(Load(cwd, buffer)) /\ InOrder(Load(StartDir(p), buffer))
      /\ InOrder(buffer)
  BY StartIsCluster, LoadInOrder DEF TypeOK, DirectoriesInOrder
<1>3. QED
  BY <1>1, <1>2 DEF DirectoriesInOrder

LEMMA StepInOrder == TypeOK /\ DirectoriesInOrder /\ [Next]_vars => DirectoriesInOrder'
<1>1. CASE UNCHANGED vars
  BY <1>1 DEF vars, DirectoriesInOrder
<1>2. CASE Next
  BY <1>2, CreateInOrder, MkdirInOrder, DeleteInOrder, ListInOrder, ChdirInOrder
     DEF Next
<1>3. QED
  BY <1>1, <1>2

LEMMA AlwaysInOrder == Spec => []DirectoriesInOrder
<1>1. Init => DirectoriesInOrder
  BY EmptyInOrder DEF Init, DirectoriesInOrder
<1>2. QED
  BY <1>1, StepInOrder, TypeCorrect, PTL DEF Spec

\* No live entry ever sits behind an end mark, where no scan would see it.
THEOREM NoHiddenEntriesAlways == Spec => []NoHiddenEntries
<1>1. DirectoriesInOrder => NoHiddenEntries
  BY DEF DirectoriesInOrder, InOrder, NoHiddenEntries
<1>2. QED
  BY <1>1, AlwaysInOrder, PTL

\* No directory ever holds two live entries with one 8.3 name.
THEOREM UniqueNamesAlways == Spec => []UniqueNames
<1>1. DirectoriesInOrder => UniqueNames
  BY DEF DirectoriesInOrder, InOrder, UniqueNames
<1>2. QED
  BY <1>1, AlwaysInOrder, PTL

-----------------------------------------------------------------------------
(* Calls that fail.                                                        *)

\* A call that returns -1 has changed neither the FAT nor a directory nor the
\* current directory; for mkdir this is the rollback of the cluster it took.
THEOREM FailedCallsHarmless == Spec => FailedCallsChangeNothing
<1>1. ASSUME TypeOK, [Next]_vars
      PROVE  [ret' = -1 => UNCHANGED <<fat, data, cwd>>]_vars
  <2>1. SUFFICES ASSUME NEW p \in Path, ret' = -1,
                        \/ Create(p) \/ Mkdir(p) \/ Delete(p) \/ List(p) \/ Chdir(p)
                 PROVE  UNCHANGED <<fat, data, cwd>>
    BY <1>1 DEF Next
  <2>2. CASE Create(p) \/ Delete(p) \/ List(p)
    BY <2>1, <2>2 DEF Create, Delete, List, Fail
  <2>3. CASE Mkdir(p)
    <3>1. CASE Fail(Load(StartDir(p), buffer))
      BY <3>1 DEF Fail
    <3>2. CASE /\ FreeClusters # {} /\ UNCHANGED <<data, cwd>>
               /\ fat' = Release(Take(fat, NewCluster), NewCluster)
      <4>1. fat[NewCluster] = Free /\ NewCluster \in Clusters
        BY <3>2, NewClusterIsFree
      <4>2. fat' = fat
        BY <1>1, <3>2, <4>1 DEF TypeOK, Take, Release
      <4>3. QED
        BY <3>2, <4>2
    <3>3. QED
      BY <2>1, <2>3, <3>1, <3>2 DEF Mkdir
  <2>4. CASE Chdir(p)
    BY <2>1, <2>4 DEF Chdir, ChdirRoot, ChdirDot, ChdirUp, ChdirDown
  <2>5. QED
    BY <2>1, <2>2, <2>3, <2>4
<1>2. QED
  BY <1>1, TypeCorrect, PTL DEF Spec, FailedCallsChangeNothing

-----------------------------------------------------------------------------
(* The chain of the files: on a disk s, a record as Disk is.               *)

\* What a slot holds, of a directory or of file data.
AnyEntry == Entry \cup {[Unused EXCEPT !.kind = "bytes"]}
AnyDirectory == [Slots -> AnyEntry]

Link == Clusters \cup {Free, EndOfChain}
Places == Clusters \cup {NoCluster}

Disks ==
  [fat : [Clusters -> Link], zero : Clusters \cup {EndOfChain},
   data : [Clusters -> AnyDirectory], buffer : AnyDirectory]

DiskType(s) == s \in Disks

LEMMA DiskParts ==
  ASSUME NEW s, DiskType(s)
  PROVE  /\ s.fat \in [Clusters -> Link] /\ s.zero \in Clusters \cup {EndOfChain}
         /\ s.data \in [Clusters -> AnyDirectory] /\ s.buffer \in AnyDirectory
BY DEF DiskType, Disks

\* A call replaces fields of a disk.
WithData(s, d, b) == [s EXCEPT !.data = d, !.buffer = b]

LEMMA DiskWithData ==
  ASSUME NEW s, DiskType(s),
         NEW d \in [Clusters -> AnyDirectory], NEW b \in AnyDirectory
  PROVE  /\ DiskType(WithData(s, d, b))
         /\ WithData(s, d, b).fat = s.fat /\ WithData(s, d, b).zero = s.zero
         /\ WithData(s, d, b).data = d /\ WithData(s, d, b).buffer = b
BY DEF DiskType, Disks, WithData

LEMMA DiskWithEntry ==
  ASSUME NEW s, DiskType(s), NEW c \in Places, NEW v \in Clusters \cup {EndOfChain}
  PROVE  /\ DiskType(SetFatEntry(s, c, v)) /\ SetFatEntry(s, c, v).data = s.data
         /\ SetFatEntry(s, c, v).buffer = s.buffer
         /\ \A d \in Places : FatEntry(SetFatEntry(s, c, v), d)
                                = IF d = c THEN v ELSE FatEntry(s, d)
<1>1. CASE c = NoCluster
  <2>1. SetFatEntry(s, c, v) = [s EXCEPT !.zero = v]
    BY <1>1 DEF SetFatEntry
  <2>2. /\ DiskType([s EXCEPT !.zero = v]) /\ [s EXCEPT !.zero = v].data = s.data
        /\ [s EXCEPT !.zero = v].buffer = s.buffer
        /\ [s EXCEPT !.zero = v].fat = s.fat /\ [s EXCEPT !.zero = v].zero = v
    BY DEF DiskType, Disks
  <2> QED BY <1>1, <2>1, <2>2 DEF FatEntry
<1>2. CASE c # NoCluster
  <2>1. SetFatEntry(s, c, v) = [s EXCEPT !.fat[c] = v] /\ c \in Clusters /\ v \in Link
    BY <1>2 DEF SetFatEntry, Places, Link
  <2>2. /\ DiskType([s EXCEPT !.fat[c] = v]) /\ [s EXCEPT !.fat[c] = v].data = s.data
        /\ [s EXCEPT !.fat[c] = v].buffer = s.buffer
        /\ [s EXCEPT !.fat[c] = v].fat = [s.fat EXCEPT ![c] = v]
        /\ [s EXCEPT !.fat[c] = v].zero = s.zero
    BY <2>1 DEF DiskType, Disks
  <2>3. \A d \in Clusters : [s.fat EXCEPT ![c] = v][d] = IF d = c THEN v ELSE s.fat[d]
    BY <2>1, DiskParts
  <2> QED BY <1>2, <2>1, <2>2, <2>3 DEF FatEntry, Places
<1> QED BY <1>1, <1>2

\* A place of the chain: cluster 0, or a cluster that another one leads to.
InChain(s, c) ==
  c = NoCluster \/ (c \in Clusters /\ \E d \in Places : FatEntry(s, d) = c)

\* No cluster in use is beyond a free one: none is ever given back.
FreeAtEnd(s) ==
  \A c, d \in Clusters : s.fat[c] = Free /\ c < d => s.fat[d] = Free

\* A link leads up, to a cluster in use that nothing else leads to, the root
\* excepted, and comes from a place of the chain.
LinksAscend(s) ==
  \A d \in Places : FatEntry(s, d) \in Clusters =>
    /\ d < FatEntry(s, d) /\ s.fat[FatEntry(s, d)] # Free
    /\ FatEntry(s, d) # Root /\ InChain(s, d)
LinksDiffer(s) ==
  \A d, e \in Places :
    FatEntry(s, d) \in Clusters /\ FatEntry(s, d) = FatEntry(s, e) => d = e

RootInUse(s) == s.fat[Root] = EndOfChain

ChainOK(s) == FreeAtEnd(s) /\ LinksAscend(s) /\ LinksDiffer(s) /\ RootInUse(s)

LEMMA MarksAreNotClusters ==
  /\ Free = 0 /\ NoCluster = 0 /\ EndOfChain = 1
  /\ MaxCluster \in Nat /\ Root \in Clusters
  /\ \A c \in Clusters : c \in Nat /\ c >= 2 /\ c < MaxCluster
BY GeometryAssumption DEF Clusters, Root, MaxCluster, SectorsPerCluster, Free, NoCluster, EndOfChain

LEMMA PlacesAreNaturals ==
  ASSUME NEW c \in Places
  PROVE  c \in Nat /\ c # EndOfChain
BY MarksAreNotClusters DEF Places

LEMMA LinkInChain ==
  ASSUME NEW s, DiskType(s), ChainOK(s), NEW c, InChain(s, c)
  PROVE  /\ c \in Places /\ FatEntry(s, c) \in Clusters \cup {EndOfChain}
         /\ FatEntry(s, c) \in Clusters =>
              InChain(s, FatEntry(s, c)) /\ c < FatEntry(s, c)
<1>1. CASE c = NoCluster
  <2>1. FatEntry(s, c) \in Clusters \cup {EndOfChain} /\ c \in Places
    BY <1>1, DiskParts DEF FatEntry, Places
  <2> QED BY <2>1 DEF ChainOK, LinksAscend, InChain
<1>2. CASE c # NoCluster
  <2>1. c \in Clusters /\ c \in Places
    BY <1>2 DEF InChain, Places
  <2>2. PICK d \in Places : FatEntry(s, d) = c
    BY <1>2 DEF InChain
  <2>3. s.fat[c] # Free
    BY <2>1, <2>2 DEF ChainOK, LinksAscend
  <2>4. FatEntry(s, c) = s.fat[c] /\ s.fat[c] \in Link
    BY <1>2, <2>1, DiskParts DEF FatEntry
  <2>5. FatEntry(s, c) \in Clusters \cup {EndOfChain}
    BY <2>3, <2>4 DEF Link
  <2> QED BY <2>1, <2>5 DEF ChainOK, LinksAscend, InChain
<1> QED BY <1>1, <1>2

-----------------------------------------------------------------------------
(* The clusters of the chain in their order.                               *)

\* Nth on the disk s.
NthOf(s) ==
  CHOOSE f : f = [n \in 0 .. MaxCluster |->
                    IF n = 0 THEN NoCluster
                    ELSE IF f[n - 1] = EndOfChain THEN EndOfChain
                                                  ELSE FatEntry(s, f[n - 1])]

LEMMA NthNow == Nth = NthOf(Disk)
BY DEF Nth, NthOf

LEMMA NthNext == Nth' = NthOf(Disk')
BY DEF Nth, NthOf

StepOf(s, c) == IF c = EndOfChain THEN EndOfChain ELSE FatEntry(s, c)

IsChain(s, f) ==
  /\ f \in [0 .. MaxCluster -> Places \cup {EndOfChain}]
  /\ f[0] = NoCluster
  /\ \A n \in 1 .. MaxCluster : f[n] = StepOf(s, f[n - 1])
  /\ \A n \in 0 .. MaxCluster : f[n] = EndOfChain \/ (InChain(s, f[n]) /\ f[n] >= n)

LEMMA ChainExists ==
  ASSUME NEW s, DiskType(s), ChainOK(s)
  PROVE  IsChain(s, NthOf(s))
<1> DEFINE V == {c \in Places \cup {EndOfChain} : c = EndOfChain \/ InChain(s, c)}
           step == [k \in 1 .. MaxCluster |-> [c \in V |-> StepOf(s, c)]]
           Link1(f) == [n \in 0 .. MaxCluster |->
                    IF n = 0 THEN NoCluster
                    ELSE IF f[n - 1] = EndOfChain THEN EndOfChain
                                                  ELSE FatEntry(s, f[n - 1])]
<1>1. ASSUME NEW c \in V PROVE StepOf(s, c) \in V
  <2>1. CASE c = EndOfChain
    BY <2>1 DEF StepOf
  <2>2. CASE c # EndOfChain
    <3>1. InChain(s, c)
      BY <2>2
    <3>2. FatEntry(s, c) \in Clusters \cup {EndOfChain}
      BY <3>1, LinkInChain
    <3>3. FatEntry(s, c) \in Clusters => InChain(s, FatEntry(s, c))
      BY <3>1, LinkInChain
    <3>4. StepOf(s, c) = FatEntry(s, c)
      BY <2>2 DEF StepOf
    <3> QED BY <3>2, <3>3, <3>4 DEF Places
  <2> QED BY <2>1, <2>2
<1>2. NoCluster \in V
  BY DEF Places, InChain
<1>3. step \in Turns(MaxCluster, V)
  BY <1>1 DEF Turns
<1>4. \A k \in 1 .. MaxCluster : step[k] = [c \in V |-> StepOf(s, c)]
  OBVIOUS
<1>5. \A c \in V : c \in Places \cup {EndOfChain} /\ (c = EndOfChain \/ InChain(s, c))
  OBVIOUS
<1> HIDE DEF V, step
<1>6. PICK g : RunsLoop(g, MaxCluster, V, NoCluster, step)
  BY <1>2, <1>3, MarksAreNotClusters, LoopStates
<1>7. g \in [0 .. MaxCluster -> V] /\ g[0] = NoCluster
  BY <1>6 DEF RunsLoop
<1>8. \A n \in 1 .. MaxCluster : n - 1 \in 0 .. MaxCluster /\ g[n - 1] \in V
  BY <1>7, MarksAreNotClusters
<1>9. \A n \in 1 .. MaxCluster : g[n] = StepOf(s, g[n - 1])
  BY <1>4, <1>6, <1>8 DEF RunsLoop
<1>10. \A n \in 0 .. MaxCluster : n # 0 => n \in 1 .. MaxCluster
  BY MarksAreNotClusters
<1>11. g = Link1(g)
  <2>1. \A n \in 0 .. MaxCluster :
          g[n] = IF n = 0 THEN NoCluster
                 ELSE IF g[n - 1] = EndOfChain THEN EndOfChain ELSE FatEntry(s, g[n - 1])
    BY <1>7, <1>9, <1>10 DEF StepOf
  <2> QED BY <1>7, <2>1
<1> DEFINE h == NthOf(s)
<1>12. h = Link1(h)
  BY <1>11 DEF NthOf
<1>13. h[0] = NoCluster /\ h = [n \in 0 .. MaxCluster |-> h[n]]
  BY <1>12, MarksAreNotClusters
<1>14. \A n \in 1 .. MaxCluster : h[n] = StepOf(s, h[n - 1])
  <2> SUFFICES ASSUME NEW n \in 1 .. MaxCluster PROVE h[n] = StepOf(s, h[n - 1])
    OBVIOUS
  <2>1. n \in 0 .. MaxCluster /\ n # 0
    BY MarksAreNotClusters
  <2> QED BY <1>12, <2>1 DEF StepOf
<1> HIDE DEF h, Link1
<1>15. 0 .. MaxCluster \subseteq {n \in 0 .. MaxCluster : h[n] = g[n]}
  <2> DEFINE S == {n \in 0 .. MaxCluster : h[n] = g[n]}
  <2>1. 0 \in S
    BY <1>7, <1>13, MarksAreNotClusters
  <2>2. ASSUME NEW n \in 1 .. MaxCluster, n - 1 \in S PROVE n \in S
    <3>1. n \in 0 .. MaxCluster
      BY MarksAreNotClusters
    <3> QED BY <1>9, <1>14, <2>2, <3>1
  <2> HIDE DEF S
  <2>3. 0 .. MaxCluster \subseteq S
    BY <2>1, <2>2, TurnInduction, MarksAreNotClusters
  <2> QED BY <2>3 DEF S
<1>16. h = g
  BY <1>7, <1>13, <1>15
<1>17. 0 .. MaxCluster \subseteq {n \in 0 .. MaxCluster : g[n] # EndOfChain => g[n] >= n}
  <2> DEFINE S == {n \in 0 .. MaxCluster : g[n] # EndOfChain => g[n] >= n}
  <2>1. 0 \in S
    BY <1>7, MarksAreNotClusters
  <2>2. ASSUME NEW n \in 1 .. MaxCluster, n - 1 \in S PROVE n \in S
    <3>1. n \in 0 .. MaxCluster
      BY MarksAreNotClusters
    <3>2. g[n] = StepOf(s, g[n - 1]) /\ g[n - 1] \in V
      BY <1>8, <1>9
    <3>3. CASE g[n - 1] = EndOfChain \/ g[n] = EndOfChain
      BY <3>1, <3>2, <3>3 DEF StepOf
    <3>4. CASE g[n - 1] # EndOfChain /\ g[n] # EndOfChain
      <4>1. InChain(s, g[n - 1]) /\ g[n] = FatEntry(s, g[n - 1]) /\ g[n - 1] >= n - 1
        BY <1>5, <2>2, <3>2, <3>4 DEF StepOf
      <4>2. g[n] \in Clusters /\ g[n - 1] < g[n] /\ g[n - 1] \in Places
        BY <3>4, <4>1, LinkInChain
      <4>3. g[n] \in Nat /\ g[n - 1] \in Nat
        BY <4>2, PlacesAreNaturals, MarksAreNotClusters
      <4> QED BY <3>1, <4>1, <4>2, <4>3
    <3> QED BY <3>3, <3>4
  <2> HIDE DEF S
  <2>3. 0 .. MaxCluster \subseteq S
    BY <2>1, <2>2, TurnInduction, MarksAreNotClusters
  <2> QED BY <2>3 DEF S
<1>18. \A n \in 0 .. MaxCluster :
         g[n] \in Places \cup {EndOfChain} /\ (g[n] = EndOfChain \/ InChain(s, g[n]))
  BY <1>5, <1>7
<1>19. g \in [0 .. MaxCluster -> Places \cup {EndOfChain}]
  BY <1>7, <1>18
<1>20. \A n \in 0 .. MaxCluster : g[n] = EndOfChain \/ (InChain(s, g[n]) /\ g[n] >= n)
  BY <1>17, <1>18
<1> QED BY <1>7, <1>9, <1>16, <1>19, <1>20 DEF IsChain, h

LEMMA ChainEnds ==
  ASSUME NEW s, DiskType(s), ChainOK(s), NEW f, IsChain(s, f)
  PROVE  f[MaxCluster] = EndOfChain /\ MaxCluster \in 0 .. MaxCluster
<1>1. MaxCluster \in 0 .. MaxCluster /\ MaxCluster > 0 /\ \A c \in Places : c < MaxCluster
  BY MarksAreNotClusters DEF Places
<1> QED BY <1>1, PlacesAreNaturals, MarksAreNotClusters DEF IsChain

\* Every place of the chain has its number.
LEMMA ChainReaches ==
  ASSUME NEW s, DiskType(s), ChainOK(s), NEW f, IsChain(s, f),
         NEW c, InChain(s, c)
  PROVE  \E n \in 0 .. MaxCluster : f[n] = c
<1> DEFINE Missed == {d \in Places : InChain(s, d) /\ \A n \in 0 .. MaxCluster : f[n] # d}
<1> SUFFICES ASSUME Missed # {} PROVE FALSE
  BY DEF InChain, Places
<1>1. Missed \subseteq Nat
  BY PlacesAreNaturals
<1>2. PICK d \in Missed : \A e \in Missed : ~ (e < d)
  BY <1>1, LeastNumber
<1>3. d # NoCluster
  BY MarksAreNotClusters DEF IsChain
<1>4. PICK e \in Places : d \in Clusters /\ FatEntry(s, e) = d
  BY <1>3 DEF InChain
<1>5. InChain(s, e) /\ e < d
  BY <1>4 DEF ChainOK, LinksAscend
<1>6. e \notin Missed
  BY <1>2, <1>5
<1>7. PICK n \in 0 .. MaxCluster : f[n] = e
  BY <1>5, <1>6
<1>8. f[n] # EndOfChain /\ f[n] >= n /\ f[n] \in Nat /\ d \in Nat
  BY <1>4, <1>7, PlacesAreNaturals, MarksAreNotClusters DEF IsChain
<1>9. n + 1 \in 1 .. MaxCluster /\ (n + 1) - 1 = n /\ n + 1 \in 0 .. MaxCluster
  BY <1>4, <1>5, <1>7, <1>8, MarksAreNotClusters
<1>10. f[n + 1] = d
  BY <1>4, <1>7, <1>8, <1>9 DEF IsChain, StepOf
<1> QED BY <1>9, <1>10

\* Numbers of clusters and the positions in them.
LEMMA DivisionIs ==
  ASSUME NEW b \in Nat, b > 0, NEW a \in Nat
  PROVE  /\ a \div b \in Nat /\ a % b \in Nat /\ a % b < b
         /\ a = b * (a \div b) + (a % b)
OBVIOUS

LEMMA TimesNext ==
  ASSUME NEW b \in Nat, NEW q \in Nat
  PROVE  b * q \in Nat /\ b * (q + 1) = b * q + b
OBVIOUS

LEMMA TimesLess ==
  ASSUME NEW b \in Nat, NEW q \in Nat, NEW r \in Nat, q < r
  PROVE  b * q + b <= b * r
<1>1. PICK d \in Nat : r = (q + 1) + d
  <2>1. r - (q + 1) \in Nat /\ r = (q + 1) + (r - (q + 1))
    OBVIOUS
  <2> QED BY <2>1
<1>2. b * r = b * (q + 1) + b * d /\ b * d \in Nat /\ b * (q + 1) \in Nat
  BY <1>1
<1> QED BY <1>2, TimesNext

LEMMA QuotientIs ==
  ASSUME NEW b \in Nat, b > 0, NEW a \in Nat, NEW q \in Nat,
         b * q <= a, a < b * q + b
  PROVE  a \div b = q
<1> DEFINE p == a \div b
           m == a % b
<1>1. p \in Nat /\ m \in Nat /\ m < b /\ a = b * p + m /\ b * p \in Nat /\ b * q \in Nat
  BY DivisionIs
<1> HIDE DEF p, m
<1>2. ~ (p < q)
  <2> SUFFICES ASSUME p < q PROVE FALSE
    OBVIOUS
  <2>1. b * p + b <= b * q
    BY <1>1, TimesLess
  <2> QED BY <1>1, <2>1
<1>3. ~ (q < p)
  <2> SUFFICES ASSUME q < p PROVE FALSE
    OBVIOUS
  <2>1. b * q + b <= b * p
    BY <1>1, TimesLess
  <2> QED BY <1>1, <2>1
<1>4. p = q
  BY <1>1, <1>2, <1>3
<1> QED BY <1>4 DEF p

\* The bytes of one turn lie in one cluster, and reach its end or not.
LEMMA ChunkInCluster ==
  ASSUME NEW a \in Nat, NEW left \in Nat, left > 0
  PROVE  /\ Chunk(a, left) \in Nat /\ Chunk(a, left) > 0 /\ Chunk(a, left) <= left
         /\ Behind(a + Chunk(a, left)) = a \div ClusterBytes
         /\ IF (a + Chunk(a, left)) % ClusterBytes = 0
              THEN (a + Chunk(a, left)) \div ClusterBytes = (a \div ClusterBytes) + 1
              ELSE (a + Chunk(a, left)) \div ClusterBytes = a \div ClusterBytes
<1> DEFINE b == ClusterBytes
           q == a \div b
           m == a % b
           n == Chunk(a, left)
           e == a + n
<1>1. b \in Nat /\ b > 0
  BY FilesAssumption
<1>2. q \in Nat /\ m \in Nat /\ m < b /\ a = b * q + m /\ b * q \in Nat
  BY <1>1, DivisionIs
<1>3. n = IF left <= b - m THEN left ELSE b - m
  BY DEF Chunk, LeastOf
<1> HIDE DEF b, q, m, n
<1>4. n \in Nat /\ n > 0 /\ n <= left /\ n <= b - m
  BY <1>1, <1>2, <1>3
<1>5. e \in Nat /\ e > b * q /\ e <= b * q + b
  BY <1>2, <1>4, <1>1
<1> HIDE DEF e
<1>6. Behind(e) = q
  <2>1. e - 1 \in Nat /\ b * q <= e - 1 /\ e - 1 < b * q + b /\ e # 0
    BY <1>1, <1>2, <1>5
  <2>2. (e - 1) \div b = q
    BY <1>1, <1>2, <2>1, QuotientIs
  <2> QED BY <2>1, <2>2 DEF Behind, b
<1>7. b * (q + 1) = b * q + b /\ q + 1 \in Nat
  BY <1>1, <1>2, TimesNext
<1>8. CASE e < b * q + b
  <2>1. e \div b = q
    BY <1>1, <1>2, <1>5, <1>8, QuotientIs
  <2>2. e = b * q + (e % b) /\ e % b \in Nat
    BY <1>1, <1>5, <2>1, DivisionIs
  <2>3. e % b # 0
    BY <1>2, <1>5, <2>2
  <2> QED BY <1>4, <1>6, <2>1, <2>3 DEF e, n, q, b
<1>9. CASE e = b * q + b
  <2>1. b * (q + 1) <= e /\ e < b * (q + 1) + b
    BY <1>1, <1>2, <1>5, <1>7, <1>9
  <2>2. e \div b = q + 1
    BY <1>1, <1>5, <1>7, <2>1, QuotientIs
  <2>3. e = b * (q + 1) + (e % b) /\ e % b \in Nat
    BY <1>1, <1>5, <2>2, DivisionIs
  <2>4. e % b = 0
    BY <1>2, <1>1, <1>7, <1>9, <2>3
  <2> QED BY <1>4, <1>6, <2>2, <2>4 DEF e, n, q, b
<1> QED BY <1>1, <1>2, <1>5, <1>8, <1>9

\* Where no cluster ends, the byte before a position is in the same one.
LEMMA BehindInside ==
  ASSUME NEW a \in Nat, a = 0 \/ a % ClusterBytes # 0
  PROVE  Behind(a) = a \div ClusterBytes
<1> DEFINE b == ClusterBytes
           q == a \div b
           m == a % b
<1>1. b \in Nat /\ b > 0
  BY FilesAssumption
<1>2. q \in Nat /\ m \in Nat /\ m < b /\ a = b * q + m /\ b * q \in Nat
  BY <1>1, DivisionIs
<1>3. CASE a = 0
  <2>1. b * 0 = 0
    BY <1>1
  <2>2. a \div b = 0
    BY <1>1, <1>3, <2>1, QuotientIs
  <2> QED BY <1>3, <2>2 DEF Behind
<1>4. CASE a # 0
  <2>1. m # 0
    BY <1>4
  <2> HIDE DEF b, q, m
  <2>2. a - 1 \in Nat /\ b * q <= a - 1 /\ a - 1 < b * q + b
    BY <1>1, <1>2, <2>1
  <2>3. (a - 1) \div b = q
    BY <1>1, <1>2, <2>2, QuotientIs
  <2> QED BY <1>4, <2>3 DEF Behind, q, b
<1> QED BY <1>3, <1>4


-----------------------------------------------------------------------------
(* One turn of fat32_write.                                                *)

Handles ==
  [state : {"closed", "dir", "file"}, cluster : Places, position : Nat, size : Nat]

\* Nothing but file data is stored, and nothing else is left in the buffer.
OnlyBytesPut(s, t) ==
  /\ \A c \in Clusters : t.data[c] = s.data[c] \/ t.data[c] = Bytes
  /\ t.buffer = s.buffer \/ t.buffer = Bytes

\* What a write does to the disk: links stay and are added at the end of the
\* chain, whose new clusters were free, and the rest of the disk stays as it is.
KeepsLinks(s, t) ==
  \A c \in Places : FatEntry(s, c) \in Clusters => FatEntry(t, c) = FatEntry(s, c)
Grows(s, t) ==
  /\ \A c \in Places : InChain(s, c) => InChain(t, c)
  /\ KeepsLinks(s, t)
  /\ \A c \in Clusters : InChain(t, c) => InChain(s, c) \/ s.fat[c] = Free
  /\ \A c \in Clusters : ~ InChain(t, c) => t.data[c] = s.data[c] /\ t.fat[c] = s.fat[c]
  /\ OnlyBytesPut(s, t)

LEMMA GrowsFromItself == ASSUME NEW s PROVE Grows(s, s)
BY DEF Grows, KeepsLinks, OnlyBytesPut

LEMMA EntryOf ==
  ASSUME NEW s, DiskType(s), NEW c \in Places
  PROVE  /\ c = NoCluster => FatEntry(s, c) = s.zero
         /\ c # NoCluster => c \in Clusters /\ FatEntry(s, c) = s.fat[c]
         /\ FatEntry(s, c) \in Link
BY DiskParts DEF FatEntry, Places, Link

LEMMA PutBytesKeeps ==
  ASSUME NEW s, DiskType(s), NEW c, InChain(s, c)
  PROVE  /\ DiskType(PutBytes(s, c))
         /\ PutBytes(s, c).fat = s.fat /\ PutBytes(s, c).zero = s.zero
         /\ \A d \in Clusters : d # c => PutBytes(s, c).data[d] = s.data[d]
         /\ OnlyBytesPut(s, PutBytes(s, c))
<1> DEFINE d2 == IF c = NoCluster THEN s.data ELSE Store(s.data, c, Bytes)
<1>1. PutBytes(s, c) = WithData(s, d2, Bytes)
  BY DEF PutBytes, WithData
<1>2. Bytes \in AnyDirectory
  BY DEF Bytes, AnyDirectory, AnyEntry
<1>3. s.data \in [Clusters -> AnyDirectory]
  BY DiskParts
<1>4. d2 \in [Clusters -> AnyDirectory]
  BY <1>2, <1>3 DEF Store
<1>5. \A d \in Clusters :
        (d # c => d2[d] = s.data[d]) /\ (d2[d] = s.data[d] \/ d2[d] = Bytes)
  BY <1>3 DEF Store
<1> HIDE DEF d2
<1>6. DiskType(PutBytes(s, c))
  BY <1>1, <1>2, <1>4, DiskWithData
<1>7. /\ PutBytes(s, c).fat = s.fat /\ PutBytes(s, c).zero = s.zero
      /\ PutBytes(s, c).data = d2 /\ PutBytes(s, c).buffer = Bytes
  BY <1>1, <1>2, <1>4, DiskWithData
<1>8. OnlyBytesPut(s, PutBytes(s, c))
  BY <1>5, <1>7 DEF OnlyBytesPut
<1> QED BY <1>5, <1>6, <1>7, <1>8

\* The chain is a matter of the FAT alone.
LEMMA ChainOfFat ==
  ASSUME NEW s, NEW t, t.fat = s.fat, t.zero = s.zero
  PROVE  /\ \A c : FatEntry(t, c) = FatEntry(s, c)
         /\ \A c : InChain(t, c) <=> InChain(s, c)
         /\ ChainOK(t) <=> ChainOK(s)
         /\ NthOf(t) = NthOf(s)
<1>1. \A c : FatEntry(t, c) = FatEntry(s, c)
  BY DEF FatEntry
<1>2. \A c : InChain(t, c) <=> InChain(s, c)
  BY <1>1 DEF InChain
<1>3. ChainOK(t) <=> ChainOK(s)
  <2>1. FreeAtEnd(t) <=> FreeAtEnd(s)
    BY DEF FreeAtEnd
  <2>2. LinksAscend(t) <=> LinksAscend(s)
    BY <1>1, <1>2 DEF LinksAscend
  <2>3. LinksDiffer(t) <=> LinksDiffer(s)
    BY <1>1 DEF LinksDiffer
  <2> QED BY <2>1, <2>2, <2>3 DEF ChainOK, RootInUse
<1>4. NthOf(t) = NthOf(s)
  BY <1>1 DEF NthOf
<1> QED BY <1>1, <1>2, <1>3, <1>4

\* The two set_fat_entry calls, for a chain that ends here and the first free
\* cluster.
LEMMA ExtendGrows ==
  ASSUME NEW s, DiskType(s), ChainOK(s), NEW here, InChain(s, here),
         FatEntry(s, here) = EndOfChain,
         NEW new \in Clusters, s.fat[new] = Free,
         \A c \in Clusters : s.fat[c] = Free => new <= c
  PROVE  /\ DiskType(Extend(s, here, new)) /\ ChainOK(Extend(s, here, new))
         /\ InChain(Extend(s, here, new), new) /\ Grows(s, Extend(s, here, new))
         /\ FatEntry(Extend(s, here, new), here) = new
<1> DEFINE t == Extend(s, here, new)
<1>1. here \in Places /\ new # NoCluster /\ new # EndOfChain /\ here # new /\ new \in Places
  <2>1. here \in Places
    BY LinkInChain
  <2>2. here # new
    BY EntryOf, <2>1, MarksAreNotClusters DEF Places
  <2> QED BY <2>1, <2>2, MarksAreNotClusters DEF Places
<1> DEFINE u == SetFatEntry(s, here, new)
<1>3. DiskType(u) /\ u.data = s.data /\ u.buffer = s.buffer
      /\ \A c \in Places : FatEntry(u, c) = IF c = here THEN new ELSE FatEntry(s, c)
  BY <1>1, DiskWithEntry
<1>4. t = SetFatEntry(u, new, EndOfChain)
  BY DEF Extend
<1> HIDE DEF t, u
<1>5. /\ DiskType(t) /\ t.data = s.data /\ t.buffer = s.buffer
      /\ \A c \in Places : FatEntry(t, c) = IF c = new THEN EndOfChain
                                         ELSE IF c = here THEN new ELSE FatEntry(s, c)
  BY <1>1, <1>3, <1>4, DiskWithEntry
<1>20. \A c \in Clusters : t.fat[c] = IF c = new THEN EndOfChain
                                       ELSE IF c = here THEN new ELSE s.fat[c]
  BY <1>1, <1>5, MarksAreNotClusters DEF FatEntry, Places
<1>6. \A c \in Places : FatEntry(s, c) # new
  BY DEF ChainOK, LinksAscend
<1>7. FatEntry(t, here) = new
  BY <1>1, <1>5
<1>8. InChain(t, new)
  BY <1>1, <1>7 DEF InChain
<1>9. FatEntry(s, new) = Free /\ FatEntry(s, new) \notin Clusters /\ EndOfChain \notin Clusters
  BY <1>1, EntryOf, MarksAreNotClusters
<1>10. \A c \in Places : FatEntry(s, c) \in Clusters => FatEntry(t, c) = FatEntry(s, c)
  BY <1>5, <1>9
<1>11. \A c \in Places : InChain(s, c) => InChain(t, c)
  BY <1>10 DEF InChain
<1>12. \A c \in Clusters : InChain(t, c) => c = new \/ InChain(s, c)
  <2> SUFFICES ASSUME NEW c \in Clusters, InChain(t, c), c # new PROVE InChain(s, c)
    OBVIOUS
  <2>1. CASE c = NoCluster
    BY <2>1 DEF InChain
  <2>2. CASE c # NoCluster
    <3>1. PICK d \in Places : FatEntry(t, d) = c
      BY <2>2 DEF InChain
    <3>2. FatEntry(s, d) = c
      BY <1>5, <1>9, <3>1
    <3> QED BY <3>2 DEF InChain
  <2> QED BY <2>1, <2>2
<1>13. Grows(s, t)
  <2>1. ASSUME NEW c \in Clusters, ~ InChain(t, c)
        PROVE t.data[c] = s.data[c] /\ t.fat[c] = s.fat[c]
    <3>1. c # new /\ c # here
      BY <1>1, <1>8, <1>11, <2>1
    <3> QED BY <1>5, <1>20, <3>1
  <2>2. OnlyBytesPut(s, t)
    BY <1>5 DEF OnlyBytesPut
  <2> QED BY <1>10, <1>11, <1>12, <2>1, <2>2 DEF Grows, KeepsLinks
<1>14. FreeAtEnd(t)
  <2> SUFFICES ASSUME NEW c \in Clusters, NEW d \in Clusters, t.fat[c] = Free, c < d
               PROVE  t.fat[d] = Free
    BY DEF FreeAtEnd
  <2>1. Free # EndOfChain /\ new # Free /\ c \in Nat /\ d \in Nat /\ new \in Nat
    BY MarksAreNotClusters
  <2>2. c # new /\ c # here /\ s.fat[c] = Free
    BY <1>20, <2>1
  <2>3. s.fat[d] = Free
    BY <2>2 DEF ChainOK, FreeAtEnd
  <2>4. d # new
    BY <2>1, <2>2
  <2>5. d # here
    <3>1. SUFFICES ASSUME d = here PROVE FALSE
      OBVIOUS
    <3>2. here # NoCluster
      BY <3>1, MarksAreNotClusters
    <3> QED BY <2>1, <2>3, <3>1, <3>2 DEF FatEntry
  <2> QED BY <1>20, <2>3, <2>4, <2>5
<1>15. here < new
  <2>1. CASE here = NoCluster
    BY <2>1, MarksAreNotClusters
  <2>2. CASE here # NoCluster
    <3>1. here \in Clusters /\ s.fat[here] = EndOfChain
      BY <1>1, <2>2 DEF Places, FatEntry
    <3>2. ~ (new < here)
      BY <3>1, MarksAreNotClusters DEF ChainOK, FreeAtEnd
    <3> QED BY <1>1, <3>1, <3>2, MarksAreNotClusters
  <2> QED BY <2>1, <2>2
<1>16. LinksAscend(t)
  <2> SUFFICES ASSUME NEW d \in Places, FatEntry(t, d) \in Clusters
               PROVE  /\ d < FatEntry(t, d) /\ t.fat[FatEntry(t, d)] # Free
                      /\ FatEntry(t, d) # Root /\ InChain(t, d)
    BY DEF LinksAscend
  <2>1. CASE d = here
    <3>1. t.fat[new] # Free
      BY <1>20, MarksAreNotClusters
    <3>2. new # Root
      BY MarksAreNotClusters DEF ChainOK, RootInUse
    <3> QED BY <1>1, <1>7, <1>11, <1>15, <2>1, <3>1, <3>2
  <2>2. CASE d # here
    <3>1. FatEntry(t, d) = FatEntry(s, d)
      BY <1>5, <1>9, <2>2
    <3>2. /\ d < FatEntry(s, d) /\ s.fat[FatEntry(s, d)] # Free
          /\ FatEntry(s, d) # Root /\ InChain(s, d)
      BY <3>1 DEF ChainOK, LinksAscend
    <3>3. t.fat[FatEntry(s, d)] # Free
      BY <1>20, <3>1, <3>2, MarksAreNotClusters
    <3> QED BY <1>11, <3>1, <3>2, <3>3
  <2> QED BY <2>1, <2>2
<1>17. LinksDiffer(t)
  <2> SUFFICES ASSUME NEW d \in Places, NEW e \in Places,
                      FatEntry(t, d) \in Clusters, FatEntry(t, d) = FatEntry(t, e)
               PROVE  d = e
    BY DEF LinksDiffer
  <2>1. d # new /\ e # new
    BY <1>5, <1>9
  <2>2. CASE d # here /\ e # here
    BY <1>5, <2>1, <2>2 DEF ChainOK, LinksDiffer
  <2> QED BY <1>5, <1>6, <2>1, <2>2
<1>18. RootInUse(t)
  <2>1. Root # new /\ Root # here
    <3>1. Root # new
      BY MarksAreNotClusters DEF ChainOK, RootInUse
    <3>2. Root # here
      BY MarksAreNotClusters DEF ChainOK, LinksAscend, InChain
    <3> QED BY <3>1, <3>2
  <2> QED BY <1>20, <2>1, MarksAreNotClusters DEF ChainOK, RootInUse
<1>19. ChainOK(t)
  BY <1>14, <1>16, <1>17, <1>18 DEF ChainOK
<1> QED BY <1>5, <1>7, <1>8, <1>13, <1>19 DEF t

LEMMA GrowsOn ==
  ASSUME NEW s, NEW t, NEW u, DiskType(t), ChainOK(t), Grows(s, t), Grows(t, u)
  PROVE  Grows(s, u)
<1>1. \A c \in Places : InChain(s, c) => InChain(u, c)
  BY DEF Grows, KeepsLinks
<1>2. \A c \in Places : FatEntry(s, c) \in Clusters => FatEntry(u, c) = FatEntry(s, c)
  BY DEF Grows, KeepsLinks
<1>3. ASSUME NEW c \in Clusters, InChain(u, c) PROVE InChain(s, c) \/ s.fat[c] = Free
  BY <1>3 DEF Grows, KeepsLinks
<1>4. ASSUME NEW c \in Clusters, ~ InChain(u, c)
      PROVE  u.data[c] = s.data[c] /\ u.fat[c] = s.fat[c]
  BY <1>4 DEF Grows, Places
<1>5. OnlyBytesPut(s, u)
  BY DEF Grows, OnlyBytesPut
<1> QED BY <1>1, <1>2, <1>3, <1>4, <1>5 DEF Grows, KeepsLinks


-----------------------------------------------------------------------------
(* The loop of fat32_write.                                                *)

\* c is cluster number k of the chain.
AtNumber(s, c, k) == k \in 0 .. MaxCluster /\ NthOf(s)[k] = c

LEMMA SameNumber ==
  ASSUME NEW s, DiskType(s), ChainOK(s), NEW t, DiskType(t), ChainOK(t), KeepsLinks(s, t),
         NEW c \in Places, NEW k, AtNumber(s, c, k)
  PROVE  AtNumber(t, c, k)
<1> DEFINE f == NthOf(s)
           g == NthOf(t)
           S == {n \in 0 .. MaxCluster : f[n] # EndOfChain => g[n] = f[n]}
<1>1. IsChain(s, f) /\ IsChain(t, g)
  BY ChainExists
<1> HIDE DEF f, g
<1>2. 0 \in S
  BY <1>1, MarksAreNotClusters DEF IsChain
<1>3. ASSUME NEW n \in 1 .. MaxCluster, n - 1 \in S PROVE n \in S
  <2>1. n \in 0 .. MaxCluster /\ n - 1 \in 0 .. MaxCluster
    BY MarksAreNotClusters
  <2> SUFFICES ASSUME f[n] # EndOfChain PROVE g[n] = f[n]
    BY <2>1
  <2>2. f[n] = StepOf(s, f[n - 1]) /\ g[n] = StepOf(t, g[n - 1])
    BY <1>1 DEF IsChain
  <2>3. f[n - 1] # EndOfChain
    BY <2>2 DEF StepOf
  <2>4. g[n - 1] = f[n - 1] /\ InChain(s, f[n - 1])
    BY <1>1, <1>3, <2>1, <2>3 DEF IsChain
  <2>5. f[n] = FatEntry(s, f[n - 1]) /\ g[n] = FatEntry(t, f[n - 1])
    BY <2>2, <2>3, <2>4 DEF StepOf
  <2>6. FatEntry(s, f[n - 1]) \in Clusters /\ f[n - 1] \in Places
    BY <2>4, <2>5, LinkInChain
  <2> QED BY <2>5, <2>6 DEF Grows, KeepsLinks
<1> HIDE DEF S
<1>4. 0 .. MaxCluster \subseteq S
  BY <1>2, <1>3, TurnInduction, MarksAreNotClusters
<1>5. k \in S /\ f[k] = c /\ k \in 0 .. MaxCluster
  BY <1>4 DEF AtNumber, f
<1>6. f[k] # EndOfChain
  BY <1>5, PlacesAreNaturals
<1>7. g[k] = c
  BY <1>5, <1>6 DEF S
<1> QED BY <1>5, <1>7 DEF AtNumber, g

LEMMA NextNumber ==
  ASSUME NEW s, DiskType(s), ChainOK(s), NEW c, InChain(s, c), NEW k, AtNumber(s, c, k),
         FatEntry(s, c) # EndOfChain
  PROVE  AtNumber(s, FatEntry(s, c), k + 1)
<1> DEFINE f == NthOf(s)
<1>1. IsChain(s, f)
  BY ChainExists
<1>2. k \in 0 .. MaxCluster /\ f[k] = c
  BY DEF AtNumber
<1> HIDE DEF f
<1>3. c \in Places /\ c # EndOfChain
  BY LinkInChain, PlacesAreNaturals
<1>4. k # MaxCluster
  BY <1>1, <1>2, <1>3, ChainEnds
<1>5. k + 1 \in 1 .. MaxCluster /\ k + 1 \in 0 .. MaxCluster /\ (k + 1) - 1 = k
  BY <1>2, <1>4, MarksAreNotClusters
<1>6. f[k + 1] = StepOf(s, f[k])
  BY <1>1, <1>5 DEF IsChain
<1> QED BY <1>2, <1>3, <1>5, <1>6 DEF AtNumber, StepOf, f

Loops == [disk : Disks, handle : Handles, left : Nat]

\* The handle is where its position belongs: at the next byte's cluster as long as
\* bytes remain, at the last one's in the end.
Placed(s, h, left) ==
  AtNumber(s, h.cluster, IF left > 0 THEN h.position \div ClusterBytes
                                     ELSE Behind(h.position))

\* A state of the loop that began on disk s with handle h and n bytes to write, in
\* place or not.
LoopOK(s, h, n, placed, r) ==
  /\ ChainOK(r.disk) /\ Grows(s, r.disk) /\ InChain(r.disk, r.handle.cluster)
  /\ r.handle.state = "file" /\ r.handle.size = h.size
  /\ r.handle.position >= h.position
  /\ r.left < n => r.handle.position > h.position
  /\ placed => Placed(r.disk, r.handle, r.left)

\* A turn puts its bytes at the handle's place, moves the position and goes to the
\* place where the rest belongs.
Moved(h, n) == [h EXCEPT !.position = @ + n]
MovedTo(h, n, c) == [Moved(h, n) EXCEPT !.cluster = c]

LEMMA MovedHandle ==
  ASSUME NEW h \in Handles, NEW n \in Nat, NEW c \in Places
  PROVE  /\ Moved(h, n) \in Handles /\ MovedTo(h, n, c) \in Handles
         /\ Moved(h, n).position = h.position + n
         /\ MovedTo(h, n, c).position = h.position + n
         /\ Moved(h, n).cluster = h.cluster /\ MovedTo(h, n, c).cluster = c
         /\ Moved(h, n).state = h.state /\ MovedTo(h, n, c).state = h.state
         /\ Moved(h, n).size = h.size /\ MovedTo(h, n, c).size = h.size
<1>1. /\ Moved(h, n) \in Handles /\ Moved(h, n).position = h.position + n
      /\ Moved(h, n).cluster = h.cluster
      /\ Moved(h, n).state = h.state /\ Moved(h, n).size = h.size
  BY DEF Moved, Handles
<1>2. \A g \in Handles : [g EXCEPT !.cluster = c] \in Handles
  BY DEF Handles
<1>3. \A g \in Handles :
        /\ [g EXCEPT !.cluster = c].position = g.position
        /\ [g EXCEPT !.cluster = c].cluster = c
        /\ [g EXCEPT !.cluster = c].state = g.state
        /\ [g EXCEPT !.cluster = c].size = g.size
  BY DEF Handles
<1> QED BY <1>1, <1>2, <1>3 DEF MovedTo

\* What a turn may leave: LoopOK from its parts.
LEMMA TurnLeaves ==
  ASSUME NEW s, NEW h \in Handles, NEW n \in Nat, NEW placed,
         NEW t \in Disks, NEW g \in Handles, NEW left \in Nat,
         ChainOK(t), Grows(s, t), InChain(t, g.cluster),
         g.state = "file", g.size = h.size, g.position > h.position,
         placed => Placed(t, g, left)
  PROVE  /\ [disk |-> t, handle |-> g, left |-> left] \in Loops
         /\ LoopOK(s, h, n, placed, [disk |-> t, handle |-> g, left |-> left])
BY DEF LoopOK, Loops, Handles

LEMMA WriteTurnOK ==
  ASSUME NEW s, NEW h \in Handles, NEW n \in Nat, NEW placed,
         NEW r \in Loops, r.left <= n, LoopOK(s, h, n, placed, r)
  PROVE  /\ WriteTurn(r) \in Loops /\ LoopOK(s, h, n, placed, WriteTurn(r))
         /\ WriteTurn(r).left <= n
         /\ WriteTurn(r).left < r.left \/ WriteTurn(r).left = 0
<1> DEFINE here == r.handle.cluster
           pos == r.handle.position
           m == Chunk(pos, r.left)
           put == PutBytes(r.disk, here)
           left == r.left - m
           h2 == Moved(r.handle, m)
           next == FatEntry(put, here)
           free == {c \in Clusters : put.fat[c] = Free}
           new == FirstOf(free)
           k == pos \div ClusterBytes
<1>1. r.disk \in Disks /\ DiskType(r.disk) /\ r.handle \in Handles /\ r.left \in Nat
  BY DEF Loops, DiskType
<1>2. pos \in Nat /\ h.position \in Nat /\ pos >= h.position
  BY <1>1 DEF Handles, LoopOK
<1>3. CASE r.left = 0
  <2>1. WriteTurn(r) = r
    BY <1>3 DEF WriteTurn
  <2> QED BY <1>3, <2>1
<1>4. CASE r.left > 0
  <2>1. /\ m \in Nat /\ m > 0 /\ m <= r.left /\ Behind(pos + m) = k
        /\ (pos + m) % ClusterBytes = 0 => (pos + m) \div ClusterBytes = k + 1
        /\ (pos + m) % ClusterBytes # 0 => (pos + m) \div ClusterBytes = k
    BY <1>1, <1>2, <1>4, ChunkInCluster
  <2>2. left \in Nat /\ left < r.left /\ left <= n /\ pos + m > h.position /\ pos + m \in Nat
    BY <1>1, <1>2, <2>1
  <2>3. InChain(r.disk, here) /\ ChainOK(r.disk) /\ Grows(s, r.disk)
        /\ r.handle.state = "file" /\ r.handle.size = h.size
        /\ (placed => AtNumber(r.disk, here, k))
    BY <1>4 DEF LoopOK, Placed
  <2>4. /\ DiskType(put) /\ put.fat = r.disk.fat /\ put.zero = r.disk.zero
        /\ \A d \in Clusters : d # here => put.data[d] = r.disk.data[d]
        /\ OnlyBytesPut(r.disk, put)
    BY <1>1, <2>3, PutBytesKeeps
  <2>5. /\ \A c : FatEntry(put, c) = FatEntry(r.disk, c)
        /\ \A c : InChain(put, c) <=> InChain(r.disk, c)
        /\ ChainOK(put) /\ NthOf(put) = NthOf(r.disk)
    BY <2>3, <2>4, ChainOfFat
  <2>6. InChain(put, here) /\ here \in Places /\ put \in Disks
    BY <1>1, <2>3, <2>4, <2>5, LinkInChain DEF DiskType
  <2>7. Grows(r.disk, put)
    BY <2>4, <2>5, <2>6 DEF Grows, KeepsLinks
  <2>8. Grows(s, put)
    BY <1>1, <2>3, <2>7, GrowsOn
  <2>9. placed => AtNumber(put, here, k)
    BY <2>3, <2>5 DEF AtNumber
  <2>10. next \in Clusters \cup {EndOfChain} /\ (next \in Clusters => InChain(put, next))
    BY <2>4, <2>5, <2>6, LinkInChain
  <2>11. /\ h2 \in Handles /\ h2.position = pos + m /\ h2.cluster = here
         /\ h2.state = "file" /\ h2.size = h.size
    BY <1>1, <2>1, <2>3, <2>6, MovedHandle
  <2>12. ASSUME NEW c \in Places
         PROVE  /\ MovedTo(r.handle, m, c) \in Handles
                /\ MovedTo(r.handle, m, c).position = pos + m
                /\ MovedTo(r.handle, m, c).cluster = c
                /\ MovedTo(r.handle, m, c).state = "file"
                /\ MovedTo(r.handle, m, c).size = h.size
    BY <1>1, <2>1, <2>3, MovedHandle
  <2>13. WriteTurn(r) =
           CASE r.left = 0 -> r
             [] r.left > 0 /\ ~ MovesOn(pos + m, left) ->
                  [disk |-> put, handle |-> h2, left |-> left]
             [] r.left > 0 /\ MovesOn(pos + m, left) /\ next # EndOfChain ->
                  [disk |-> put, handle |-> MovedTo(r.handle, m, next), left |-> left]
             [] r.left > 0 /\ MovesOn(pos + m, left) /\ next = EndOfChain /\ free = {} ->
                  [disk |-> put, handle |-> h2, left |-> 0]
             [] OTHER ->
                  [disk |-> Extend(put, here, new),
                   handle |-> MovedTo(r.handle, m, new), left |-> left]
    BY <2>11 DEF WriteTurn, Moved, MovedTo
  <2> HIDE DEF here, pos, m, put, left, h2, next, free, new, k
  <2>14. CASE ~ MovesOn(pos + m, left)
    <3>1. WriteTurn(r) = [disk |-> put, handle |-> h2, left |-> left]
      BY <1>4, <2>13, <2>14
    <3>2. placed => Placed(put, h2, left)
      <4>1. CASE left = 0
        BY <2>1, <2>9, <2>11, <4>1 DEF Placed
      <4>2. CASE left > 0
        <5>1. (pos + m) \div ClusterBytes = k
          BY <2>1, <2>14, <4>2 DEF MovesOn
        <5> QED BY <2>9, <2>11, <4>2, <5>1 DEF Placed
      <4> QED BY <2>2, <4>1, <4>2
    <3>3. InChain(put, h2.cluster) /\ h2.position > h.position
      BY <2>2, <2>6, <2>11
    <3> QED BY <2>2, <2>5, <2>6, <2>8, <2>11, <3>1, <3>2, <3>3, TurnLeaves
  <2>15. CASE MovesOn(pos + m, left) /\ next # EndOfChain
    <3> DEFINE g == MovedTo(r.handle, m, next)
    <3>1. WriteTurn(r) = [disk |-> put, handle |-> g, left |-> left]
      BY <1>4, <2>13, <2>15
    <3>2. next \in Clusters /\ next \in Places /\ InChain(put, next)
      BY <2>10, <2>15 DEF Places
    <3>3. g \in Handles /\ g.position = pos + m /\ g.cluster = next
          /\ g.state = "file" /\ g.size = h.size
      BY <2>12, <3>2
    <3> HIDE DEF g
    <3>4. placed => Placed(put, g, left)
      <4> SUFFICES ASSUME placed PROVE Placed(put, g, left)
        OBVIOUS
      <4>1. AtNumber(put, next, k + 1)
        BY <2>4, <2>5, <2>6, <2>9, <2>15, NextNumber DEF next
      <4>2. (pos + m) \div ClusterBytes = k + 1 /\ left > 0
        BY <2>1, <2>15 DEF MovesOn
      <4> QED BY <3>3, <4>1, <4>2 DEF Placed
    <3>5. InChain(put, g.cluster) /\ g.position > h.position
      BY <2>2, <3>2, <3>3
    <3> QED BY <2>2, <2>5, <2>6, <2>8, <3>1, <3>3, <3>4, <3>5, TurnLeaves
  <2>16. CASE MovesOn(pos + m, left) /\ next = EndOfChain /\ free = {}
    <3>1. WriteTurn(r) = [disk |-> put, handle |-> h2, left |-> 0]
      BY <1>4, <2>13, <2>16
    <3>2. placed => Placed(put, h2, 0)
      BY <2>1, <2>9, <2>11 DEF Placed
    <3>3. InChain(put, h2.cluster) /\ h2.position > h.position /\ 0 \in Nat /\ 0 <= n
      BY <2>2, <2>6, <2>11
    <3> QED BY <2>5, <2>6, <2>8, <2>11, <3>1, <3>2, <3>3, TurnLeaves
  <2>17. CASE MovesOn(pos + m, left) /\ next = EndOfChain /\ free # {}
    <3> DEFINE g == MovedTo(r.handle, m, new)
               t == Extend(put, here, new)
    <3>1. WriteTurn(r) = [disk |-> t, handle |-> g, left |-> left]
      BY <1>4, <2>13, <2>17
    <3>2. new \in Clusters /\ new \in Places /\ put.fat[new] = Free
          /\ \A c \in Clusters : put.fat[c] = Free => new <= c
      <4>1. free \subseteq Nat /\ \A c \in free : c \in Clusters /\ put.fat[c] = Free
        BY MarksAreNotClusters DEF free
      <4>2. new \in free /\ \A c \in free : new <= c
        BY <2>17, <4>1, FirstOfIsLeast DEF new
      <4> QED BY <4>1, <4>2 DEF free, Places
    <3>3. g \in Handles /\ g.position = pos + m /\ g.cluster = new
          /\ g.state = "file" /\ g.size = h.size
      BY <2>12, <3>2
    <3>4. FatEntry(put, here) = EndOfChain
      BY <2>17 DEF next
    <3>5. /\ DiskType(t) /\ ChainOK(t) /\ InChain(t, new) /\ Grows(put, t)
          /\ FatEntry(t, here) = new
      BY <2>4, <2>5, <2>6, <3>2, <3>4, ExtendGrows
    <3> HIDE DEF g, t
    <3>6. Grows(s, t) /\ t \in Disks
      BY <2>4, <2>5, <2>8, <3>5, GrowsOn DEF DiskType
    <3>7. placed => Placed(t, g, left)
      <4> SUFFICES ASSUME placed PROVE Placed(t, g, left)
        OBVIOUS
      <4>1. AtNumber(t, here, k)
        BY <2>4, <2>5, <2>6, <2>9, <3>5, SameNumber DEF Grows
      <4>2. InChain(t, here) /\ new # EndOfChain
        BY <2>6, <3>2, <3>5, MarksAreNotClusters DEF Grows, KeepsLinks
      <4>3. AtNumber(t, new, k + 1)
        BY <3>5, <4>1, <4>2, NextNumber
      <4>4. (pos + m) \div ClusterBytes = k + 1 /\ left > 0
        BY <2>1, <2>17 DEF MovesOn
      <4> QED BY <3>3, <4>3, <4>4 DEF Placed
    <3>8. InChain(t, g.cluster) /\ g.position > h.position
      BY <2>2, <3>3, <3>5
    <3> QED BY <2>2, <3>1, <3>3, <3>5, <3>6, <3>7, <3>8, TurnLeaves
  <2> QED BY <2>14, <2>15, <2>16, <2>17
<1> QED BY <1>1, <1>3, <1>4


\* The states of the loop, turn by turn.
WriteStates(s, h, n) ==
  CHOOSE f : f = [k \in 0 .. n |-> IF k = 0 THEN [disk |-> s, handle |-> h, left |-> n]
                                            ELSE WriteTurn(f[k - 1])]

LEMMA WriteLoopIs ==
  ASSUME NEW s, NEW h, NEW n
  PROVE  WriteLoop(s, h, n) = WriteStates(s, h, n)[n]
BY DEF WriteLoop, WriteStates

LEMMA WriteLoopOK ==
  ASSUME NEW s \in Disks, NEW h \in Handles, NEW n \in Nat, n > 0, NEW placed,
         ChainOK(s), InChain(s, h.cluster), h.state = "file",
         placed => AtNumber(s, h.cluster, h.position \div ClusterBytes)
  PROVE  LET r == WriteLoop(s, h, n)
         IN  r \in Loops /\ r.left = 0 /\ LoopOK(s, h, n, placed, r)
<1> DEFINE V == {r \in Loops : r.left <= n /\ LoopOK(s, h, n, placed, r)}
           start == [disk |-> s, handle |-> h, left |-> n]
           step == [k \in 1 .. n |-> [r \in V |-> WriteTurn(r)]]
           f == WriteStates(s, h, n)
           Whole(g) == [k \in 0 .. n |-> IF k = 0 THEN start ELSE WriteTurn(g[k - 1])]
<1>1. start \in V
  <2>1. start \in Loops /\ start.left = n /\ n <= n
    BY DEF Loops
  <2>2. LoopOK(s, h, n, placed, start)
    BY GrowsFromItself DEF LoopOK, Placed, Handles
  <2> QED BY <2>1, <2>2
<1>2. ASSUME NEW r \in V
      PROVE  WriteTurn(r) \in V /\ (WriteTurn(r).left < r.left \/ WriteTurn(r).left = 0)
  BY WriteTurnOK
<1>3. step \in Turns(n, V)
  BY <1>2 DEF Turns
<1>4. \A k \in 1 .. n : step[k] = [r \in V |-> WriteTurn(r)]
  OBVIOUS
<1>5. \A r \in V : r \in Loops /\ r.left \in Nat /\ LoopOK(s, h, n, placed, r)
  BY DEF Loops
<1>6. start.left = n
  OBVIOUS
<1> HIDE DEF V, step, start
<1>7. PICK g : RunsLoop(g, n, V, start, step)
  BY <1>1, <1>3, LoopStates
<1>8. g \in [0 .. n -> V] /\ g[0] = start
  BY <1>7 DEF RunsLoop
<1>9. \A k \in 1 .. n : k - 1 \in 0 .. n /\ k \in 0 .. n /\ k # 0 /\ g[k - 1] \in V
  BY <1>8
<1>10. \A k \in 1 .. n : g[k] = WriteTurn(g[k - 1])
  BY <1>4, <1>7, <1>9 DEF RunsLoop
<1>11. g = Whole(g)
  <2>1. \A k \in 0 .. n : k # 0 => k \in 1 .. n
    OBVIOUS
  <2>2. \A k \in 0 .. n : g[k] = IF k = 0 THEN start ELSE WriteTurn(g[k - 1])
    BY <1>8, <1>10, <2>1
  <2> QED BY <1>8, <2>2
<1>12. f = Whole(f)
  BY <1>11 DEF WriteStates, start
<1> HIDE DEF f, Whole
<1>13. f[0] = start /\ \A k \in 1 .. n : f[k] = WriteTurn(f[k - 1])
  <2>1. 0 \in 0 .. n
    OBVIOUS
  <2>2. \A k \in 1 .. n : k \in 0 .. n /\ k # 0
    OBVIOUS
  <2> QED BY <1>12, <2>1, <2>2 DEF Whole
<1> DEFINE S == {k \in 0 .. n : f[k] \in V /\ f[k].left <= n - k}
<1>14. 0 \in S
  BY <1>1, <1>6, <1>13
<1>15. ASSUME NEW k \in 1 .. n, k - 1 \in S PROVE k \in S
  <2>1. f[k - 1] \in V /\ f[k - 1].left <= n - (k - 1) /\ f[k - 1].left \in Nat
    BY <1>5, <1>15
  <2>2. f[k] = WriteTurn(f[k - 1])
    BY <1>13
  <2>3. f[k] \in V /\ (f[k].left < f[k - 1].left \/ f[k].left = 0) /\ f[k].left \in Nat
    BY <1>2, <1>5, <2>1, <2>2
  <2>4. f[k].left <= n - k
    BY <2>1, <2>3
  <2> QED BY <1>9, <2>3, <2>4
<1> HIDE DEF S
<1>16. 0 .. n \subseteq S
  BY <1>14, <1>15, TurnInduction
<1>17. f[n] \in V /\ f[n].left <= n - n
  BY <1>16 DEF S
<1>18. WriteLoop(s, h, n) = f[n]
  BY WriteLoopIs DEF f
<1> QED BY <1>5, <1>17, <1>18

\* A handle that stands at the end of its file reads nothing.
LEMMA ReadLoopIs ==
  ASSUME NEW s, NEW h \in Handles, NEW n \in Nat, h.position >= h.size
  PROVE  ReadLoop(s, h, n) = [disk |-> s, handle |-> h, left |-> n]
<1> DEFINE start == [disk |-> s, handle |-> h, left |-> n]
           Whole(g) == [k \in 0 .. n |-> IF k = 0 THEN start ELSE ReadTurn(g[k - 1])]
           f == CHOOSE g : g = Whole(g)
           e == [k \in 0 .. n |-> start]
<1>1. ReadLoop(s, h, n) = f[n]
  BY DEF ReadLoop
<1>2. ReadTurn(start) = start
  BY DEF ReadTurn
<1> HIDE DEF start
<1>3. \A k \in 0 .. n : k # 0 => e[k - 1] = start
  OBVIOUS
<1>4. e = Whole(e)
  <2>1. \A k \in 0 .. n : start = IF k = 0 THEN start ELSE ReadTurn(e[k - 1])
    BY <1>2, <1>3
  <2> QED BY <2>1
<1>5. f = Whole(f)
  BY <1>4
<1> HIDE DEF f, e, Whole
<1> DEFINE S == {k \in 0 .. n : f[k] = start}
<1>6. 0 \in S
  BY <1>5 DEF Whole
<1>7. ASSUME NEW k \in 1 .. n, k - 1 \in S PROVE k \in S
  <2>1. k \in 0 .. n /\ k # 0 /\ f[k - 1] = start
    BY <1>7
  <2>2. f[k] = ReadTurn(f[k - 1])
    BY <1>5, <2>1 DEF Whole
  <2> QED BY <1>2, <2>1, <2>2
<1> HIDE DEF S
<1>8. 0 .. n \subseteq S
  BY <1>6, <1>7, TurnInduction
<1> QED BY <1>1, <1>8 DEF S, start

-----------------------------------------------------------------------------
(* What remains true of the chain under every call.                        *)

\* mkdir takes the first free cluster, and the chain does not notice.
LEMMA TakeKeepsChain ==
  ASSUME NEW s, DiskType(s), ChainOK(s), NEW t, DiskType(t), t.zero = s.zero,
         NEW new \in Clusters, s.fat[new] = Free,
         \A c \in Clusters : s.fat[c] = Free => new <= c,
         t.fat = Take(s.fat, new)
  PROVE  /\ ChainOK(t) /\ KeepsLinks(s, t)
         /\ \A c : InChain(t, c) <=> InChain(s, c)
<1>1. \A c \in Clusters : t.fat[c] = IF c = new THEN EndOfChain ELSE s.fat[c]
  BY DiskParts DEF Take
<1>2. new # NoCluster /\ EndOfChain \notin Clusters /\ Free \notin Clusters /\ EndOfChain # Free
  BY MarksAreNotClusters
<1>3. \A c \in Places : FatEntry(t, c) = IF c = new THEN EndOfChain ELSE FatEntry(s, c)
  BY <1>1, <1>2 DEF FatEntry, Places
<1>4. FatEntry(s, new) = Free
  BY <1>2 DEF FatEntry
<1>5. \A c \in Places : FatEntry(s, c) \in Clusters <=> FatEntry(t, c) \in Clusters
  BY <1>2, <1>3, <1>4
<1>6. KeepsLinks(s, t)
  BY <1>2, <1>3, <1>4 DEF KeepsLinks
<1>7. \A c : InChain(t, c) <=> InChain(s, c)
  <2>1. ASSUME NEW c \in Clusters, NEW d \in Places
        PROVE  FatEntry(t, d) = c <=> FatEntry(s, d) = c
    BY <1>2, <1>3, <1>4
  <2> QED BY <2>1 DEF InChain
<1>8. FreeAtEnd(t)
  <2> SUFFICES ASSUME NEW c \in Clusters, NEW d \in Clusters, t.fat[c] = Free, c < d
               PROVE  t.fat[d] = Free
    BY DEF FreeAtEnd
  <2>1. s.fat[c] = Free /\ c # new /\ new <= c
    BY <1>1, <1>2
  <2>2. d # new /\ s.fat[d] = Free
    BY <2>1, MarksAreNotClusters DEF ChainOK, FreeAtEnd
  <2> QED BY <1>1, <2>2
<1>9. LinksAscend(t)
  <2> SUFFICES ASSUME NEW d \in Places, FatEntry(t, d) \in Clusters
               PROVE  /\ d < FatEntry(t, d) /\ t.fat[FatEntry(t, d)] # Free
                      /\ FatEntry(t, d) # Root /\ InChain(t, d)
    BY DEF LinksAscend
  <2>1. FatEntry(t, d) = FatEntry(s, d)
    BY <1>2, <1>3
  <2>2. /\ d < FatEntry(s, d) /\ s.fat[FatEntry(s, d)] # Free
        /\ FatEntry(s, d) # Root /\ InChain(s, d)
    BY <2>1 DEF ChainOK, LinksAscend
  <2> QED BY <1>1, <1>2, <1>7, <2>1, <2>2
<1>10. LinksDiffer(t)
  <2> SUFFICES ASSUME NEW d \in Places, NEW e \in Places,
                      FatEntry(t, d) \in Clusters, FatEntry(t, d) = FatEntry(t, e)
               PROVE  d = e
    BY DEF LinksDiffer
  <2> QED BY <1>2, <1>3 DEF ChainOK, LinksDiffer
<1>11. RootInUse(t)
  BY <1>1, MarksAreNotClusters DEF ChainOK, RootInUse
<1> QED BY <1>6, <1>7, <1>8, <1>9, <1>10, <1>11 DEF ChainOK

FilesInv ==
  /\ DiskType(Disk) /\ ChainOK(Disk) /\ cwd \in Clusters
  /\ handle \in Handles
  /\ handle.state = "file" => InChain(Disk, handle.cluster) /\ handle.position = handle.size

LEMMA DiskFields ==
  /\ Disk.fat = fat /\ Disk.zero = zero /\ Disk.data = data /\ Disk.buffer = buffer
BY DEF Disk

LEMMA DiskFieldsNext ==
  /\ Disk'.fat = fat' /\ Disk'.zero = zero' /\ Disk'.data = data' /\ Disk'.buffer = buffer'
BY DEF Disk

LEMMA DiskTypeIs ==
  ASSUME NEW f, NEW z, NEW d, NEW b
  PROVE  DiskType([fat |-> f, zero |-> z, data |-> d, buffer |-> b])
           <=> /\ f \in [Clusters -> Link] /\ z \in Clusters \cup {EndOfChain}
               /\ d \in [Clusters -> AnyDirectory] /\ b \in AnyDirectory
BY DEF DiskType, Disks

LEMMA DiskTyped ==
  ASSUME DiskType(Disk)
  PROVE  /\ fat \in [Clusters -> Link] /\ zero \in Clusters \cup {EndOfChain}
         /\ data \in [Clusters -> AnyDirectory] /\ buffer \in AnyDirectory
BY DiskTypeIs DEF Disk

\* A call of the shell leaves the files alone and takes one cluster at most.
ShellCall ==
  /\ UNCHANGED fileVars
  /\ data' \in [Clusters -> AnyDirectory] /\ buffer' \in AnyDirectory /\ cwd' \in Clusters
  /\ fat' = fat \/ (FreeClusters # {} /\ fat' = Take(fat, NewCluster))

LEMMA ShellCallKeeps ==
  ASSUME FilesInv, ShellCall
  PROVE  /\ FilesInv' /\ KeepsLinks(Disk, Disk')
         /\ \A c : InChain(Disk', c) <=> InChain(Disk, c)
<1>1. /\ fat \in [Clusters -> Link] /\ zero \in Clusters \cup {EndOfChain}
      /\ data \in [Clusters -> AnyDirectory] /\ buffer \in AnyDirectory
  BY DiskTyped DEF FilesInv
<1>2. zero' = zero /\ handle' = handle
  BY DEF ShellCall, fileVars
<1>3. ASSUME FreeClusters # {}
      PROVE  /\ NewCluster \in Clusters /\ fat[NewCluster] = Free
             /\ \A c \in Clusters : fat[c] = Free => NewCluster <= c
  BY <1>3, NewClusterIsFree
<1>4. fat' \in [Clusters -> Link]
  BY <1>1, <1>3 DEF ShellCall, Take, Link
<1>5. DiskType(Disk')
  BY <1>1, <1>2, <1>4, DiskTypeIs DEF Disk, ShellCall
<1>6. /\ ChainOK(Disk') /\ KeepsLinks(Disk, Disk')
      /\ \A c : InChain(Disk', c) <=> InChain(Disk, c)
  <2>1. CASE fat' = fat
    <3>1. Disk'.fat = Disk.fat /\ Disk'.zero = Disk.zero
      BY <1>2, <2>1, DiskFields, DiskFieldsNext
    <3>2. ChainOK(Disk)
      BY DEF FilesInv
    <3> QED BY <3>1, <3>2, ChainOfFat DEF KeepsLinks
  <2>2. CASE FreeClusters # {} /\ fat' = Take(fat, NewCluster)
    <3>1. DiskType(Disk) /\ ChainOK(Disk)
      BY DEF FilesInv
    <3>2. /\ Disk'.zero = Disk.zero /\ Disk'.fat = Take(Disk.fat, NewCluster)
          /\ Disk.fat[NewCluster] = Free
          /\ \A c \in Clusters : Disk.fat[c] = Free => NewCluster <= c
      BY <1>2, <1>3, <2>2, DiskFields, DiskFieldsNext
    <3> QED BY <1>3, <1>5, <2>2, <3>1, <3>2, TakeKeepsChain
  <2> QED BY <2>1, <2>2 DEF ShellCall
<1> QED BY <1>2, <1>5, <1>6 DEF FilesInv, ShellCall

\* What the searches find in any directory or what is taken for one.
LEMMA AnyEntryTypes ==
  /\ Directory \subseteq AnyDirectory /\ Entry \subseteq AnyEntry
  /\ \A e \in AnyEntry : e.kind = "dir" => e.cluster \in Clusters /\ e \in Entry
  /\ \A e \in AnyEntry : e.kind = "file" => e.cluster = NoCluster /\ e \in Entry
  /\ \A e \in AnyEntry : Live(e) => e.kind = "dir" \/ e.kind = "file"
BY DEF AnyEntry, AnyDirectory, Directory, Entry, Unused, Deleted, Live

LEMMA AnyLoadType ==
  ASSUME DiskType(Disk), NEW c, NEW buf \in AnyDirectory
  PROVE  Load(c, buf) \in AnyDirectory
BY DiskTyped DEF Load

LEMMA AnyHitType ==
  ASSUME NEW dir \in AnyDirectory, NEW n, Found(dir, n)
  PROVE  /\ HitSlot(dir, n) \in Slots /\ Hit(dir, n) \in AnyEntry /\ Live(Hit(dir, n))
         /\ Hit(dir, n) = dir[HitSlot(dir, n)]
         /\ Matches(Hit(dir, n).name, n)
<1>1. HitSlot(dir, n) \in Hits(dir, n)
  BY HitIsHit
<1> QED BY <1>1 DEF Hits, Seen, Hit, AnyDirectory

LEMMA AnyStoreType ==
  ASSUME NEW d \in [Clusters -> AnyDirectory], NEW c, NEW dir \in AnyDirectory
  PROVE  Store(d, c, dir) \in [Clusters -> AnyDirectory]
BY DEF Store

LEMMA AnyWriteSlot ==
  ASSUME NEW dir \in AnyDirectory, NEW i, NEW e \in Entry
  PROVE  [dir EXCEPT ![i] = e] \in AnyDirectory
BY AnyEntryTypes DEF AnyDirectory

LEMMA PathTypes ==
  ASSUME NEW p \in Path, cwd \in Clusters
  PROVE  p.name \in Name /\ StartDir(p) \in Clusters
BY PathAssumption, RootIsCluster DEF StartDir

LEMMA CreateIsCall ==
  ASSUME FilesInv, NEW p \in Path, Create(p), UNCHANGED fileVars
  PROVE  ShellCall
<1> DEFINE start == StartDir(p)
           dir == Load(start, buffer)
           dir2 == [dir EXCEPT ![FreeSlot(dir)] = FileEntry(Format[p.name])]
<1>1. /\ data \in [Clusters -> AnyDirectory] /\ buffer \in AnyDirectory
      /\ DiskType(Disk) /\ cwd \in Clusters
  BY DiskTyped DEF FilesInv
<1>2. p.name \in Name
  BY <1>1, PathTypes
<1>3. dir \in AnyDirectory
  BY <1>1, AnyLoadType
<1>4. dir2 \in AnyDirectory
  BY <1>2, <1>3, EntryTypes, AnyWriteSlot
<1>5. Store(data, start, dir2) \in [Clusters -> AnyDirectory]
  BY <1>1, <1>4, AnyStoreType
<1>6. \/ buffer' = dir /\ UNCHANGED <<fat, data, cwd>>
      \/ data' = Store(data, start, dir2) /\ buffer' = dir2 /\ UNCHANGED <<fat, cwd>>
  BY DEF Create, Fail
<1> HIDE DEF dir, dir2
<1> QED BY <1>1, <1>3, <1>4, <1>5, <1>6 DEF ShellCall

LEMMA MkdirIsCall ==
  ASSUME FilesInv, NEW p \in Path, Mkdir(p), UNCHANGED fileVars
  PROVE  ShellCall
<1> DEFINE start == StartDir(p)
           dir == Load(start, buffer)
           new == NewCluster
           dir2 == [dir EXCEPT ![FreeSlot(dir)] = DirEntry(Format[p.name], new)]
           fresh == NewDirectory(new, start)
<1>1. /\ data \in [Clusters -> AnyDirectory] /\ buffer \in AnyDirectory
      /\ DiskType(Disk) /\ cwd \in Clusters /\ fat \in [Clusters -> Link]
  BY DiskTyped DEF FilesInv
<1>2. p.name \in Name /\ start \in Clusters
  BY <1>1, PathTypes
<1>3. dir \in AnyDirectory
  BY <1>1, AnyLoadType
<1>4. \/ buffer' = dir /\ UNCHANGED <<fat, data, cwd>>
      \/ /\ FreeClusters # {} /\ fat' = Release(Take(fat, new), new)
         /\ buffer' = dir /\ UNCHANGED <<data, cwd>>
      \/ /\ FreeClusters # {} /\ fat' = Take(fat, new)
         /\ data' = Store(Store(data, start, dir2), new, fresh)
         /\ buffer' = fresh /\ UNCHANGED cwd
  BY DEF Mkdir, Fail
<1>5. CASE buffer' = dir /\ UNCHANGED <<fat, data, cwd>>
  BY <1>1, <1>3, <1>5 DEF ShellCall
<1>6. ASSUME FreeClusters # {} PROVE new \in Clusters /\ fat[new] = Free
  BY <1>6, NewClusterIsFree
<1>7. CASE /\ FreeClusters # {} /\ fat' = Release(Take(fat, new), new)
           /\ buffer' = dir /\ UNCHANGED <<data, cwd>>
  <2>1. Release(Take(fat, new), new) = fat
    BY <1>1, <1>6, <1>7 DEF Release, Take
  <2> QED BY <1>1, <1>3, <1>7, <2>1 DEF ShellCall
<1>8. CASE /\ FreeClusters # {} /\ fat' = Take(fat, new)
           /\ data' = Store(Store(data, start, dir2), new, fresh)
           /\ buffer' = fresh /\ UNCHANGED cwd
  <2>1. new \in Clusters
    BY <1>6, <1>8
  <2>2. dir2 \in AnyDirectory
    BY <1>2, <1>3, <2>1, EntryTypes, AnyWriteSlot
  <2>3. fresh \in AnyDirectory
    BY <1>2, <2>1, NewDirectoryType, AnyEntryTypes
  <2> HIDE DEF dir, dir2, fresh
  <2>4. Store(Store(data, start, dir2), new, fresh) \in [Clusters -> AnyDirectory]
    BY <1>1, <2>2, <2>3, AnyStoreType
  <2> QED BY <1>1, <1>8, <2>3, <2>4 DEF ShellCall
<1> QED BY <1>4, <1>5, <1>7, <1>8

LEMMA DeleteIsCall ==
  ASSUME FilesInv, NEW p \in Path, Delete(p), NamesFile(p), UNCHANGED fileVars
  PROVE  ShellCall
<1> DEFINE start == StartDir(p)
           dir == Load(start, buffer)
           slot == HitSlot(dir, p.name)
           first == dir[slot].cluster
           dir2 == [dir EXCEPT ![slot] = Deleted]
<1>1. /\ data \in [Clusters -> AnyDirectory] /\ buffer \in AnyDirectory
      /\ DiskType(Disk) /\ cwd \in Clusters
  BY DiskTyped DEF FilesInv
<1>2. dir \in AnyDirectory
  BY <1>1, AnyLoadType
<1>3. dir2 \in AnyDirectory
  BY <1>2, EntryTypes, AnyWriteSlot
<1>4. Store(data, start, dir2) \in [Clusters -> AnyDirectory]
  BY <1>1, <1>3, AnyStoreType
<1>5. Found(dir, p.name) => first = NoCluster
  BY <1>2, AnyHitType, AnyEntryTypes DEF NamesFile, Hit
<1>6. \/ buffer' = dir /\ UNCHANGED <<fat, data, cwd>>
      \/ /\ Found(dir, p.name) /\ fat' = (IF first = NoCluster THEN fat ELSE Release(fat, first))
         /\ data' = Store(data, start, dir2) /\ buffer' = dir2 /\ UNCHANGED cwd
  BY DEF Delete, Fail
<1> HIDE DEF dir, dir2, first
<1> QED BY <1>1, <1>2, <1>3, <1>4, <1>5, <1>6 DEF ShellCall

LEMMA ListIsCall ==
  ASSUME FilesInv, NEW p \in Path, List(p), UNCHANGED fileVars
  PROVE  ShellCall
<1>1. /\ data \in [Clusters -> AnyDirectory] /\ buffer \in AnyDirectory
      /\ DiskType(Disk) /\ cwd \in Clusters
  BY DiskTyped DEF FilesInv
<1>2. UNCHANGED <<fat, data, cwd>>
  BY DEF List, Fail
<1>3. PICK dir, c : /\ dir \in {buffer, Load(cwd, buffer), Load(StartDir(p), buffer)}
                    /\ buffer' = dir \/ buffer' = Load(c, dir)
  BY DEF List, Fail
<1>4. dir \in AnyDirectory
  BY <1>1, <1>3, AnyLoadType
<1>5. buffer' \in AnyDirectory
  BY <1>1, <1>3, <1>4, AnyLoadType
<1> QED BY <1>1, <1>2, <1>5 DEF ShellCall

LEMMA ChdirIsCall ==
  ASSUME FilesInv, NEW p \in Path, Chdir(p), UNCHANGED fileVars
  PROVE  ShellCall
<1>1. /\ data \in [Clusters -> AnyDirectory] /\ buffer \in AnyDirectory
      /\ DiskType(Disk) /\ cwd \in Clusters
  BY DiskTyped DEF FilesInv
<1>2. Load(cwd, buffer) \in AnyDirectory /\ Load(StartDir(p), buffer) \in AnyDirectory
  BY <1>1, AnyLoadType
<1>3. ASSUME NEW e \in AnyEntry, Live(e) PROVE ParentOf(e) \in Clusters
  BY <1>3, AnyEntryTypes, RootIsCluster DEF ParentOf
<1>4. CASE ChdirRoot(p)
  BY <1>1, <1>4, RootIsCluster DEF ChdirRoot, ShellCall
<1>5. CASE ChdirDot(p)
  BY <1>1, <1>5 DEF ChdirDot, ShellCall
<1>6. CASE ChdirUp(p)
  <2> DEFINE dir == Load(cwd, buffer)
  <2>1. buffer' = dir /\ UNCHANGED <<fat, data>>
    BY <1>6 DEF ChdirUp
  <2>2. cwd' = IF Found(dir, DotDot) THEN ParentOf(Hit(dir, DotDot)) ELSE cwd
    BY <1>6 DEF ChdirUp
  <2>3. Found(dir, DotDot) => ParentOf(Hit(dir, DotDot)) \in Clusters
    BY <1>2, <1>3, AnyHitType
  <2> HIDE DEF dir
  <2> QED BY <1>1, <1>2, <2>1, <2>2, <2>3 DEF ShellCall, dir
<1>7. CASE ChdirDown(p)
  <2> DEFINE dir == Load(StartDir(p), buffer)
  <2>1. buffer' = dir /\ UNCHANGED <<fat, data>>
    BY <1>7 DEF ChdirDown
  <2>2. \/ cwd' = cwd
        \/ /\ Found(dir, p.name) /\ Hit(dir, p.name).kind = "dir"
           /\ cwd' = Hit(dir, p.name).cluster
    BY <1>7 DEF ChdirDown
  <2>3. Found(dir, p.name) /\ Hit(dir, p.name).kind = "dir"
          => Hit(dir, p.name).cluster \in Clusters
    BY <1>2, AnyHitType, AnyEntryTypes
  <2> HIDE DEF dir
  <2> QED BY <1>1, <1>2, <2>1, <2>2, <2>3 DEF ShellCall, dir
<1> QED BY <1>4, <1>5, <1>6, <1>7 DEF Chdir

LEMMA OpenKeeps ==
  ASSUME FilesInv, NEW p \in Path, OpenFile(p)
  PROVE  /\ FilesInv' /\ fat' = fat /\ zero' = zero
         /\ handle' = handle \/ (handle'.cluster = NoCluster /\ handle'.position = 0)
<1> DEFINE dir == Load(StartDir(p), buffer)
           e == Hit(dir, p.name)
<1>1. /\ data \in [Clusters -> AnyDirectory] /\ buffer \in AnyDirectory
      /\ fat \in [Clusters -> Link] /\ zero \in Clusters \cup {EndOfChain}
      /\ DiskType(Disk) /\ ChainOK(Disk) /\ cwd \in Clusters /\ handle \in Handles
  BY DiskTyped DEF FilesInv
<1>2. dir \in AnyDirectory
  BY <1>1, AnyLoadType
<1>3. /\ buffer' = dir /\ UNCHANGED <<fat, data, cwd, zero>>
      /\ \/ UNCHANGED handle
         \/ Found(dir, p.name) /\ handle' = IF e.kind = "dir" THEN DirHandle ELSE FileHandle(e.cluster)
  BY DEF OpenFile
<1>4. Found(dir, p.name) => e.kind = "dir" \/ e.cluster = NoCluster
  BY <1>2, AnyHitType, AnyEntryTypes
<1>5. /\ DirHandle \in Handles /\ FileHandle(NoCluster) \in Handles
      /\ DirHandle.state = "dir"
      /\ DirHandle.position = 0 /\ DirHandle.cluster = NoCluster
      /\ FileHandle(NoCluster).position = 0 /\ FileHandle(NoCluster).size = 0
      /\ FileHandle(NoCluster).cluster = NoCluster
  BY DEF DirHandle, FileHandle, ClosedHandle, Handles, Places
<1> HIDE DEF dir, e
<1>6. handle' = handle \/ handle' = DirHandle \/ handle' = FileHandle(NoCluster)
  BY <1>3, <1>4
<1>7. DiskType(Disk')
  BY <1>1, <1>2, <1>3, DiskTypeIs DEF Disk
<1>8. ChainOK(Disk') /\ \A c : InChain(Disk', c) <=> InChain(Disk, c)
  <2>1. Disk'.fat = Disk.fat /\ Disk'.zero = Disk.zero
    BY <1>3, DiskFields, DiskFieldsNext
  <2> QED BY <1>1, <2>1, ChainOfFat
<1>9. /\ handle' \in Handles
      /\ handle'.state = "file" => InChain(Disk', handle'.cluster) /\ handle'.position = handle'.size
      /\ handle' = handle \/ (handle'.cluster = NoCluster /\ handle'.position = 0)
  <2>1. CASE handle' = handle
    BY <1>1, <1>8, <2>1 DEF FilesInv
  <2>2. CASE handle' = DirHandle
    BY <1>5, <2>2
  <2>3. CASE handle' = FileHandle(NoCluster)
    BY <1>5, <2>3 DEF InChain
  <2> QED BY <1>6, <2>1, <2>2, <2>3
<1> QED BY <1>1, <1>3, <1>7, <1>8, <1>9 DEF FilesInv

LEMMA CloseKeeps ==
  ASSUME FilesInv, CloseFile
  PROVE  FilesInv' /\ fat' = fat /\ zero' = zero
<1>1. UNCHANGED <<fat, data, buffer, cwd, zero>> /\ handle' = ClosedHandle
  BY DEF CloseFile
<1>2. Disk' = Disk
  BY <1>1 DEF Disk
<1>3. ClosedHandle \in Handles /\ ClosedHandle.state # "file"
  BY DEF ClosedHandle, Handles, Places
<1> QED BY <1>1, <1>2, <1>3 DEF FilesInv

LEMMA RefuseKeeps ==
  ASSUME FilesInv, RefuseTransfer
  PROVE  FilesInv' /\ fat' = fat /\ zero' = zero /\ handle' = handle
<1>1. UNCHANGED <<fat, data, buffer, cwd, zero, handle>>
  BY DEF RefuseTransfer, Fail, fileVars
<1>2. Disk' = Disk
  BY <1>1 DEF Disk
<1> QED BY <1>1, <1>2 DEF FilesInv

\* Reading moves nothing: a handle is always at the end of what it has written.
LEMMA ReadKeeps ==
  ASSUME FilesInv, NEW n \in Counts, ReadFile(n)
  PROVE  FilesInv' /\ fat' = fat /\ zero' = zero /\ handle' = handle
         /\ data' = data /\ buffer' = buffer /\ cwd' = cwd
<1>1. ReadLoop(Disk, handle, n) = [disk |-> Disk, handle |-> handle, left |-> n]
  <2>1. handle \in Handles /\ handle.position \in Nat /\ handle.position >= handle.size
    BY DEF FilesInv, ReadFile, Handles
  <2>2. n \in Nat
    BY FilesAssumption
  <2> QED BY <2>1, <2>2, ReadLoopIs
<1>2. /\ fat' = Disk.fat /\ zero' = Disk.zero /\ data' = Disk.data /\ buffer' = Disk.buffer
      /\ handle' = handle /\ cwd' = cwd
  BY <1>1 DEF ReadFile, Transfer
<1>3. UNCHANGED <<fat, data, buffer, cwd, zero, handle>>
  BY <1>2, DiskFields
<1>4. Disk' = Disk
  BY <1>3 DEF Disk
<1> QED BY <1>3, <1>4 DEF FilesInv

\* What is in place before and not at a boundary is in place after.
InPlaceBefore == AtNumber(Disk, handle.cluster, handle.position \div ClusterBytes)

LEMMA WriteKeeps ==
  ASSUME FilesInv, NEW n \in Counts, WriteFile(n)
  PROVE  /\ FilesInv' /\ cwd' = cwd /\ Grows(Disk, Disk')
         /\ handle'.position > handle.position /\ handle'.state = "file"
         /\ InPlaceBefore => AtNumber(Disk', handle'.cluster, Behind(handle'.position))
<1> DEFINE r == WriteLoop(Disk, handle, n)
           end == r.handle.position
           h2 == [r.handle EXCEPT !.size = IF end > @ THEN end ELSE @]
           placed == InPlaceBefore
<1>1. /\ Disk \in Disks /\ handle \in Handles /\ n \in Nat /\ n > 0
      /\ ChainOK(Disk) /\ InChain(Disk, handle.cluster) /\ handle.state = "file"
      /\ handle.position = handle.size /\ handle.position \in Nat
  BY FilesAssumption DEF FilesInv, WriteFile, DiskType, Handles
<1>2. placed => AtNumber(Disk, handle.cluster, handle.position \div ClusterBytes)
  BY DEF InPlaceBefore
<1>3. /\ fat' = r.disk.fat /\ zero' = r.disk.zero
      /\ data' = r.disk.data /\ buffer' = r.disk.buffer
      /\ handle' = h2 /\ cwd' = cwd
  BY DEF WriteFile, Transfer
<1> HIDE DEF placed
<1>4. r \in Loops /\ r.left = 0 /\ LoopOK(Disk, handle, n, placed, r)
  BY <1>1, <1>2, WriteLoopOK
<1> HIDE DEF r
<1>5. r.disk \in Disks /\ r.handle \in Handles /\ end \in Nat
  BY <1>4 DEF Loops, Handles
<1>6. /\ ChainOK(r.disk) /\ Grows(Disk, r.disk) /\ InChain(r.disk, r.handle.cluster)
      /\ r.handle.state = "file" /\ r.handle.size = handle.size
      /\ end > handle.position
      /\ placed => AtNumber(r.disk, r.handle.cluster, Behind(end))
  BY <1>1, <1>4 DEF LoopOK, Placed
<1>7. Disk' = r.disk
  <2>1. r.disk = [fat |-> r.disk.fat, zero |-> r.disk.zero, data |-> r.disk.data, buffer |-> r.disk.buffer]
    BY <1>5 DEF Disks
  <2> QED BY <1>3, <2>1 DEF Disk
<1>8. /\ h2 \in Handles /\ h2.state = "file" /\ h2.cluster = r.handle.cluster
      /\ h2.position = end /\ h2.size = end
  BY <1>1, <1>5, <1>6 DEF Handles
<1> HIDE DEF h2, end
<1>9. FilesInv'
  BY <1>1, <1>3, <1>5, <1>6, <1>7, <1>8 DEF FilesInv, DiskType
<1> QED BY <1>3, <1>6, <1>7, <1>8, <1>9 DEF placed

-----------------------------------------------------------------------------
(* The theorems.                                                           *)

LEMMA FilesInitially == OrdinaryInit => FilesInv
<1> SUFFICES ASSUME OrdinaryInit PROVE FilesInv
  OBVIOUS
<1>1. /\ fat = [c \in Clusters |-> IF c = Root THEN EndOfChain ELSE Free]
      /\ data = [c \in Clusters |-> EmptyDirectory] /\ buffer = EmptyDirectory
      /\ cwd = Root /\ zero = EndOfChain /\ handle = ClosedHandle
  BY DEF OrdinaryInit, FilesInit, Init
<1>2. EmptyDirectory \in AnyDirectory
  BY EntryTypes, AnyEntryTypes DEF EmptyDirectory, AnyDirectory
<1>3. DiskType(Disk)
  BY <1>1, <1>2, DiskTypeIs DEF Disk, Link
<1>4. ClosedHandle \in Handles /\ ClosedHandle.state # "file"
  BY DEF ClosedHandle, Handles, Places
<1>5. \A c \in Places : FatEntry(Disk, c) \notin Clusters
  BY <1>1, DiskFields, MarksAreNotClusters DEF FatEntry, Places
<1>6. FreeAtEnd(Disk)
  BY <1>1, DiskFields, MarksAreNotClusters DEF FreeAtEnd, Clusters, Root
<1>7. RootInUse(Disk)
  BY <1>1, DiskFields, MarksAreNotClusters DEF RootInUse
<1>8. ChainOK(Disk)
  BY <1>5, <1>6, <1>7 DEF ChainOK, LinksAscend, LinksDiffer
<1> QED BY <1>1, <1>3, <1>4, <1>8, MarksAreNotClusters DEF FilesInv

\* Every step is a call of the shell or of the file interface.
LEMMA StepIsCall ==
  ASSUME FilesInv, OrdinaryNext
  PROVE  \/ ShellCall
         \/ \E p \in Path : OpenFile(p)
         \/ CloseFile \/ RefuseTransfer
         \/ \E n \in Counts : ReadFile(n) \/ WriteFile(n)
<1>1. CASE OrdinaryFileCall
  BY <1>1 DEF OrdinaryFileCall
<1>2. ASSUME NEW p \in Path, OrdinaryChange(p) \/ OrdinaryMove(p), UNCHANGED fileVars
      PROVE  ShellCall
  BY <1>2, CreateIsCall, MkdirIsCall, DeleteIsCall, ListIsCall, ChdirIsCall
     DEF OrdinaryChange, OrdinaryMove
<1> QED BY <1>1, <1>2 DEF OrdinaryNext

LEMMA FilesStep == FilesInv /\ [OrdinaryNext /\ shape' = Shape']_treeVars => FilesInv'
<1> SUFFICES ASSUME FilesInv, [OrdinaryNext /\ shape' = Shape']_treeVars PROVE FilesInv'
  OBVIOUS
<1>1. CASE OrdinaryNext
  BY <1>1, StepIsCall, ShellCallKeeps, OpenKeeps, CloseKeeps, RefuseKeeps, ReadKeeps, WriteKeeps
<1>2. CASE UNCHANGED treeVars
  <2>1. UNCHANGED <<fat, data, buffer, cwd, zero, handle>>
    BY <1>2 DEF treeVars, allVars, vars, fileVars
  <2>2. Disk' = Disk
    BY <2>1 DEF Disk
  <2> QED BY <2>1, <2>2 DEF FilesInv
<1> QED BY <1>1, <1>2

LEMMA FilesAlways == OrdinarySpec => []FilesInv
<1>1. FilesInv /\ [OrdinaryNext /\ shape' = Shape']_treeVars => FilesInv'
  BY FilesStep
<1> QED BY <1>1, FilesInitially, PTL DEF OrdinarySpec

\* The clusters of the chain, as module FatFiles counts them off.
LEMMA FileClustersAre ==
  ASSUME DiskType(Disk), ChainOK(Disk)
  PROVE  FileClusters = {c \in Clusters : InChain(Disk, c)}
<1>1. IsChain(Disk, Nth)
  BY ChainExists, NthNow
<1>2. ASSUME NEW n \in 0 .. MaxCluster, Nth[n] \in Clusters PROVE InChain(Disk, Nth[n])
  BY <1>1, <1>2, MarksAreNotClusters DEF IsChain
<1>3. ASSUME NEW c \in Clusters, InChain(Disk, c) PROVE \E n \in 0 .. MaxCluster : Nth[n] = c
  BY <1>1, <1>3, ChainReaches
<1> QED BY <1>2, <1>3 DEF FileClusters

\* In place, by the number of the handle's cluster.
LEMMA InPlaceIs ==
  ASSUME handle \in Handles
  PROVE  InPlace <=> (handle.state = "file"
                        => AtNumber(Disk, handle.cluster, Behind(handle.position)))
<1>1. handle.position \in Nat
  BY DEF Handles
<1>2. ASSUME NEW a \in Nat PROVE Behind(a) \in Nat
  <2>1. CASE a = 0
    BY <2>1 DEF Behind
  <2>2. CASE a # 0
    <3>1. a - 1 \in Nat /\ ClusterBytes \in Nat /\ ClusterBytes > 0
      BY <2>2, FilesAssumption
    <3>2. (a - 1) \div ClusterBytes \in Nat
      BY <3>1, DivisionIs
    <3> QED BY <2>2, <3>2 DEF Behind
  <2> QED BY <2>1, <2>2
<1>3. Behind(handle.position) \in 0 .. MaxCluster <=> Behind(handle.position) <= MaxCluster
  BY <1>1, <1>2, MarksAreNotClusters
<1> QED BY <1>3, NthNow DEF InPlace, AtNumber

LEMMA InPlaceNextIs ==
  ASSUME handle' \in Handles
  PROVE  AtNumber(Disk', handle'.cluster, Behind(handle'.position)) => InPlace'
<1>1. MaxCluster \in Nat
  BY MarksAreNotClusters
<1>2. AtNumber(Disk', handle'.cluster, Behind(handle'.position))
        => /\ Behind(handle'.position) <= MaxCluster
           /\ Nth'[Behind(handle'.position)] = handle'.cluster
  BY <1>1, NthNext DEF AtNumber
<1> QED BY <1>2 DEF InPlace, Behind

LEMMA StaysStep ==
  ASSUME FilesInv, FilesInv', OrdinaryNext, InPlace,
         AtBoundary => handle' = handle \/ handle'.position = 0
  PROVE  InPlace'
<1>1. /\ DiskType(Disk) /\ ChainOK(Disk) /\ DiskType(Disk') /\ ChainOK(Disk')
      /\ handle \in Handles /\ handle' \in Handles
      /\ handle.position \in Nat /\ handle.cluster \in Places
  BY DEF FilesInv, Handles
<1> SUFFICES ASSUME handle'.state = "file" PROVE InPlace'
  BY DEF InPlace
<1>2. ASSUME handle' = handle, KeepsLinks(Disk, Disk') PROVE InPlace'
  <2>1. AtNumber(Disk, handle.cluster, Behind(handle.position))
    BY <1>1, <1>2, InPlaceIs
  <2>2. AtNumber(Disk', handle.cluster, Behind(handle.position))
    BY <1>1, <1>2, <2>1, SameNumber
  <2> QED BY <1>1, <1>2, <2>2, InPlaceNextIs
<1>3. ASSUME fat' = fat, zero' = zero PROVE KeepsLinks(Disk, Disk')
  <2>1. Disk'.fat = Disk.fat /\ Disk'.zero = Disk.zero
    BY <1>3, DiskFields, DiskFieldsNext
  <2> QED BY <2>1 DEF KeepsLinks, FatEntry
<1>4. CASE ShellCall
  BY <1>2, <1>4, ShellCallKeeps DEF ShellCall, fileVars
<1>5. ASSUME NEW p \in Path, OpenFile(p) PROVE InPlace'
  <2>1. CASE handle' = handle
    BY <1>2, <1>3, <1>5, <2>1, OpenKeeps
  <2>2. CASE handle'.cluster = NoCluster /\ handle'.position = 0
    <3>1. NthOf(Disk')[0] = NoCluster /\ 0 \in 0 .. MaxCluster
      BY <1>1, ChainExists, MarksAreNotClusters DEF IsChain
    <3>2. AtNumber(Disk', handle'.cluster, Behind(handle'.position))
      BY <2>2, <3>1 DEF AtNumber, Behind
    <3> QED BY <1>1, <3>2, InPlaceNextIs
  <2> QED BY <1>5, <2>1, <2>2, OpenKeeps
<1>6. CASE CloseFile
  <2>1. handle'.state = "closed"
    BY <1>6 DEF CloseFile, ClosedHandle
  <2> QED BY <2>1
<1>7. CASE RefuseTransfer
  BY <1>2, <1>3, <1>7, RefuseKeeps
<1>8. ASSUME NEW n \in Counts, ReadFile(n) PROVE InPlace'
  BY <1>2, <1>3, <1>8, ReadKeeps
<1>9. ASSUME NEW n \in Counts, WriteFile(n) PROVE InPlace'
  <2>1. /\ handle'.position > handle.position
        /\ InPlaceBefore => AtNumber(Disk', handle'.cluster, Behind(handle'.position))
    BY <1>9, WriteKeeps
  <2>2. handle' # handle /\ handle'.position # 0
    BY <1>1, <2>1
  <2>3. handle.state = "file"
    BY <1>9 DEF WriteFile
  <2>4. handle.position = 0 \/ handle.position % ClusterBytes # 0
    BY <1>1, <2>2, <2>3 DEF AtBoundary
  <2>5. Behind(handle.position) = handle.position \div ClusterBytes
    BY <1>1, <2>4, BehindInside
  <2>6. InPlaceBefore
    BY <1>1, <2>3, <2>5, InPlaceIs DEF InPlaceBefore
  <2> QED BY <1>1, <2>1, <2>6, InPlaceNextIs
<1> QED BY <1>4, <1>5, <1>6, <1>7, <1>8, <1>9, StepIsCall

THEOREM WritesStayInPlace == OrdinarySpec => StaysInPlace
<1>1. ASSUME FilesInv, FilesInv', [OrdinaryNext /\ shape' = Shape']_treeVars
      PROVE  [InPlace /\ (AtBoundary => handle' = handle \/ handle'.position = 0)
                => InPlace']_allVars
  <2>1. CASE UNCHANGED treeVars
    BY <2>1 DEF treeVars
  <2>2. CASE OrdinaryNext
    BY <1>1, <2>2, StaysStep
  <2> QED BY <1>1, <2>1, <2>2
<1> QED BY <1>1, FilesAlways, PTL DEF OrdinarySpec, StaysInPlace

-----------------------------------------------------------------------------
(* The shape of the tree.                                                  *)

\* Slot i of directory c names directory k.
Names(d, c, i, k) == i \in OwnSlots(c) /\ d[c][i].kind = "dir" /\ d[c][i].cluster = k

\* Slot i of c is the only one that names k, and k lies beyond c and says so.
IsPlaceOf(A, d, c, i, k) ==
  /\ Names(d, c, i, k) /\ c < k
  /\ d[k][1] = DirEntry(Format[Dot], k) /\ d[k][2] = DirEntry(Format[DotDot], c)
  /\ \A b \in A, j \in Slots : Names(d, b, j, k) => b = c /\ j = i

\* The directories of A, as d holds them, are a tree, and w is one of them.
IsTree(A, d, w) ==
  /\ A \subseteq Clusters /\ Root \in A /\ w \in A
  /\ \A c \in A, i \in Slots : d[c][i].kind = "dir" => d[c][i].cluster \in A
  /\ \A c \in A, i \in Slots : ~ Names(d, c, i, Root)
  /\ \A k \in A \ {Root} : \E c \in A, i \in Slots : IsPlaceOf(A, d, c, i, k)

LEMMA OwnSlotsAre ==
  /\ \A c : OwnSlots(c) \subseteq Slots
  /\ OwnSlots(Root) = Slots
  /\ \A c : c # Root => OwnSlots(c) = Slots \ {1, 2}
BY DEF OwnSlots

\* Only the entries of directories count.
LEMMA SameDirectories ==
  ASSUME NEW A, NEW d, NEW w, IsTree(A, d, w), NEW e, NEW v \in A,
         \A c \in A, i \in Slots :
           e[c][i] = d[c][i] \/ (d[c][i].kind # "dir" /\ e[c][i].kind # "dir")
  PROVE  IsTree(A, e, v)
<1>1. \A c \in A, i \in Slots : \A k : Names(e, c, i, k) <=> Names(d, c, i, k)
  BY DEF Names
<1>2. ASSUME NEW k \in A \ {Root} PROVE \E c \in A, i \in Slots : IsPlaceOf(A, e, c, i, k)
  <2>1. PICK c \in A, i \in Slots : IsPlaceOf(A, d, c, i, k)
    BY DEF IsTree
  <2>2. d[k][1].kind = "dir" /\ d[k][2].kind = "dir"
    BY <2>1 DEF IsPlaceOf, DirEntry
  <2>3. e[k][1] = d[k][1] /\ e[k][2] = d[k][2]
    BY <2>2, SlotsAreNaturals
  <2>4. IsPlaceOf(A, e, c, i, k)
    BY <1>1, <2>1, <2>3 DEF IsPlaceOf
  <2> QED BY <2>4
<1>3. \A c \in A, i \in Slots : ~ Names(e, c, i, Root)
  BY <1>1 DEF IsTree
<1>4. \A c \in A, i \in Slots : e[c][i].kind = "dir" => e[c][i].cluster \in A
  BY DEF IsTree
<1> QED BY <1>2, <1>3, <1>4 DEF IsTree

\* A new directory beyond all others, in a slot that holds none.
LEMMA AddDirectory ==
  ASSUME NEW A, NEW d, NEW w, IsTree(A, d, w), NEW e,
         NEW new \in Clusters, \A c \in A : c < new,
         NEW b \in A, NEW j \in Slots, d[b][j].kind # "dir", NEW name,
         e[b][j] = DirEntry(name, new),
         \A i \in Slots : i # j => e[b][i] = d[b][i],
         \A c \in A : c # b => e[c] = d[c],
         e[new] = NewDirectory(new, b)
  PROVE  IsTree(A \cup {new}, e, w)
<1> DEFINE B == A \cup {new}
<1>1. A \subseteq Clusters /\ Root \in A /\ new # Root /\ new \notin A /\ b # new /\ b < new
  <2>1. \A c \in A : c \in Nat
    BY MarksAreNotClusters DEF IsTree
  <2>2. new \notin A
    BY <2>1
  <2> QED BY <2>2 DEF IsTree
<1>2. \A c \in A, i \in Slots : c # b \/ i # j => e[c][i] = d[c][i]
  OBVIOUS
<1>3. /\ e[b][j].kind = "dir" /\ e[b][j].cluster = new
      /\ DirEntry(name, new).kind = "dir"
  BY DEF DirEntry
<1>4. /\ e[new][1] = DirEntry(Format[Dot], new) /\ e[new][2] = DirEntry(Format[DotDot], b)
      /\ \A i \in Slots \ {1, 2} : e[new][i] = Unused
  BY SlotsAreNaturals DEF NewDirectory, EmptyDirectory
<1>5. \A i \in Slots : \A k : ~ Names(e, new, i, k)
  BY <1>1, <1>4 DEF Names, Unused, OwnSlots
<1>6. j \in OwnSlots(b)
  <2>1. CASE b = Root
    BY <2>1, OwnSlotsAre
  <2>2. CASE b # Root
    <3>1. PICK c \in A, i \in Slots : IsPlaceOf(A, d, c, i, b)
      BY <2>2 DEF IsTree
    <3>2. d[b][1].kind = "dir" /\ d[b][2].kind = "dir"
      BY <3>1 DEF IsPlaceOf, DirEntry
    <3>3. j # 1 /\ j # 2
      BY <3>2
    <3> QED BY <2>2, <3>3, OwnSlotsAre
  <2> QED BY <2>1, <2>2
<1>7. Names(e, b, j, new)
  BY <1>3, <1>6 DEF Names
<1>8. \A c \in A, i \in Slots : \A k :
        c # b \/ i # j => (Names(e, c, i, k) <=> Names(d, c, i, k))
  BY <1>2 DEF Names
<1>9. \A k : k # new => ~ Names(e, b, j, k) /\ ~ Names(d, b, j, k)
  BY <1>3 DEF Names
<1>10. \A c \in A, i \in Slots : ~ Names(d, c, i, new)
  BY <1>1 DEF Names, IsTree
<1>11. \A c \in B, i \in Slots : ~ Names(e, c, i, Root)
  <2> SUFFICES ASSUME NEW c \in A, NEW i \in Slots PROVE ~ Names(e, c, i, Root)
    BY <1>5
  <2>1. ~ Names(d, c, i, Root)
    BY DEF IsTree
  <2> QED BY <1>1, <1>8, <1>9, <2>1
<1>12. \A c \in B, i \in Slots : e[c][i].kind = "dir" => e[c][i].cluster \in B
  <2> SUFFICES ASSUME NEW c \in B, NEW i \in Slots, e[c][i].kind = "dir"
               PROVE  e[c][i].cluster \in B
    OBVIOUS
  <2>1. CASE c = new
    <3>1. i = 1 \/ i = 2
      BY <1>4, <2>1 DEF Unused
    <3> QED BY <1>4, <2>1, <3>1 DEF DirEntry
  <2>2. CASE c = b /\ i = j
    BY <1>3, <2>2
  <2>3. CASE c # new /\ ~ (c = b /\ i = j)
    BY <1>2, <2>3 DEF IsTree
  <2> QED BY <2>1, <2>2, <2>3
<1>13. ASSUME NEW k \in B \ {Root} PROVE \E c \in B, i \in Slots : IsPlaceOf(B, e, c, i, k)
  <2>1. CASE k = new
    <3>1. \A c \in B, i \in Slots : Names(e, c, i, new) => c = b /\ i = j
      BY <1>5, <1>8, <1>10
    <3>2. IsPlaceOf(B, e, b, j, new)
      BY <1>1, <1>4, <1>7, <3>1 DEF IsPlaceOf
    <3> QED BY <2>1, <3>2
  <2>2. CASE k # new
    <3>1. PICK c \in A, i \in Slots : IsPlaceOf(A, d, c, i, k)
      BY <2>2 DEF IsTree
    <3>2. e[k][1] = d[k][1] /\ e[k][2] = d[k][2]
      <4>1. d[k][1].kind = "dir" /\ d[k][2].kind = "dir"
        BY <3>1 DEF IsPlaceOf, DirEntry
      <4> QED BY <1>2, <2>2, <4>1, SlotsAreNaturals
    <3>3. Names(e, c, i, k)
      BY <1>8, <1>9, <2>2, <3>1 DEF IsPlaceOf
    <3>4. \A c2 \in B, i2 \in Slots : Names(e, c2, i2, k) => c2 = c /\ i2 = i
      BY <1>5, <1>8, <1>9, <2>2, <3>1 DEF IsPlaceOf
    <3>5. IsPlaceOf(B, e, c, i, k)
      BY <3>1, <3>2, <3>3, <3>4 DEF IsPlaceOf
    <3> QED BY <3>5
  <2> QED BY <2>1, <2>2
<1>14. B \subseteq Clusters /\ Root \in B /\ w \in B
  BY <1>1 DEF IsTree
<1> QED BY <1>11, <1>12, <1>13, <1>14 DEF IsTree

TreeInv == AllOnDisk => IsTree(Allocated, data, cwd)

LEMMA AllocatedAre ==
  ASSUME FilesInv
  PROVE  /\ Allocated = {c \in Clusters : fat[c] # Free /\ ~ InChain(Disk, c)}
         /\ Root \in Allocated
<1>1. Allocated = {c \in Clusters : fat[c] # Free /\ ~ InChain(Disk, c)}
  BY FileClustersAre DEF Allocated, FilesInv
<1>2. fat[Root] # Free
  BY DiskFields, MarksAreNotClusters DEF FilesInv, ChainOK, RootInUse
<1>3. ~ InChain(Disk, Root)
  BY MarksAreNotClusters DEF FilesInv, ChainOK, LinksAscend, InChain
<1> QED BY <1>1, <1>2, <1>3, MarksAreNotClusters

LEMMA FileClustersNext ==
  ASSUME DiskType(Disk'), ChainOK(Disk')
  PROVE  FileClusters' = {c \in Clusters : InChain(Disk', c)}
<1>1. IsChain(Disk', Nth')
  BY ChainExists, NthNext
<1>2. ASSUME NEW n \in 0 .. MaxCluster, Nth'[n] \in Clusters PROVE InChain(Disk', Nth'[n])
  BY <1>1, <1>2, MarksAreNotClusters DEF IsChain
<1>3. ASSUME NEW c \in Clusters, InChain(Disk', c) PROVE \E n \in 0 .. MaxCluster : Nth'[n] = c
  BY <1>1, <1>3, ChainReaches
<1> QED BY <1>2, <1>3 DEF FileClusters

LEMMA AllocatedNext ==
  ASSUME FilesInv'
  PROVE  Allocated' = {c \in Clusters : fat'[c] # Free /\ ~ InChain(Disk', c)}
BY FileClustersNext DEF Allocated, FilesInv

\* A call of the shell adds the cluster it takes to those in use for directories.
LEMMA ShellCallAllocates ==
  ASSUME FilesInv, ShellCall
  PROVE  /\ fat' = fat => Allocated' = Allocated
         /\ FreeClusters # {} /\ fat' = Take(fat, NewCluster)
              => /\ Allocated' = Allocated \cup {NewCluster}
                 /\ NewCluster \in Clusters /\ \A c \in Allocated : c < NewCluster
<1>1. /\ FilesInv' /\ \A c : InChain(Disk', c) <=> InChain(Disk, c)
  BY ShellCallKeeps
<1>2. /\ Allocated = {c \in Clusters : fat[c] # Free /\ ~ InChain(Disk, c)}
      /\ Allocated' = {c \in Clusters : fat'[c] # Free /\ ~ InChain(Disk', c)}
  BY <1>1, AllocatedAre, AllocatedNext
<1>3. ASSUME fat' = fat PROVE Allocated' = Allocated
  BY <1>1, <1>2, <1>3
<1>4. ASSUME FreeClusters # {}, fat' = Take(fat, NewCluster)
      PROVE  /\ Allocated' = Allocated \cup {NewCluster}
             /\ NewCluster \in Clusters /\ \A c \in Allocated : c < NewCluster
  <2>1. NewCluster \in Clusters /\ fat[NewCluster] = Free
    BY <1>4, NewClusterIsFree
  <2>2. \A c \in Clusters : fat'[c] = IF c = NewCluster THEN EndOfChain ELSE fat[c]
    BY <1>4, <2>1, DiskTyped DEF FilesInv, Take
  <2>3. EndOfChain # Free
    BY MarksAreNotClusters
  <2>4. ~ InChain(Disk, NewCluster)
    BY <2>1, DiskFields, MarksAreNotClusters DEF FilesInv, ChainOK, LinksAscend, InChain
  <2>5. Allocated' = Allocated \cup {NewCluster}
    BY <1>1, <1>2, <2>1, <2>2, <2>3, <2>4
  <2>6. \A c \in Allocated : c < NewCluster
    <3> SUFFICES ASSUME NEW c \in Allocated PROVE c < NewCluster
      OBVIOUS
    <3>1. c \in Clusters /\ fat[c] # Free
      BY <1>2
    <3>2. ~ (NewCluster < c)
      BY <2>1, <3>1, DiskFields DEF FilesInv, ChainOK, FreeAtEnd
    <3> QED BY <2>1, <3>1, <3>2, MarksAreNotClusters
  <2> QED BY <2>1, <2>5, <2>6
<1> QED BY <1>3, <1>4

LEMMA TreeFromInv == FilesInv /\ TreeInv => TreeInOrder
<1> SUFFICES ASSUME FilesInv, TreeInv, AllOnDisk PROVE TreeInOrder
  BY DEF TreeInOrder, NothingDangles, EachNamedOnce, DotEntries, ChildBeyondParent
<1>1. IsTree(Allocated, data, cwd)
  BY DEF TreeInv
<1>2. ASSUME NEW k PROVE Naming(k) = {o \in Allocated \X Slots : Names(data, o[1], o[2], k)}
  BY DEF Naming, Names
<1>3. NothingDangles
  BY <1>1 DEF NothingDangles, IsTree
<1>4. Naming(Root) = {}
  BY <1>1, <1>2 DEF IsTree
<1>5. ASSUME NEW k \in Allocated \ {Root}
      PROVE  \E c \in Allocated, i \in Slots :
               Naming(k) = {<<c, i>>} /\ IsPlaceOf(Allocated, data, c, i, k)
  <2>1. PICK c \in Allocated, i \in Slots : IsPlaceOf(Allocated, data, c, i, k)
    BY <1>1 DEF IsTree
  <2>2. <<c, i>> \in Naming(k)
    BY <1>2, <2>1 DEF IsPlaceOf
  <2>3. ASSUME NEW o \in Naming(k) PROVE o = <<c, i>>
    <3>1. o \in Allocated \X Slots /\ Names(data, o[1], o[2], k)
      BY <1>2
    <3>2. o[1] = c /\ o[2] = i
      BY <2>1, <3>1 DEF IsPlaceOf
    <3> QED BY <3>1, <3>2
  <2>4. Naming(k) = {<<c, i>>}
    BY <2>2, <2>3
  <2> QED BY <2>1, <2>4
<1>6. EachNamedOnce
  BY <1>4, <1>5, FS_Singleton DEF EachNamedOnce
<1>7. DotEntries
  <2> SUFFICES ASSUME NEW k \in Allocated \ {Root}
               PROVE  /\ data[k][1] = DirEntry(Format[Dot], k)
                      /\ \E o \in Naming(k) : data[k][2] = DirEntry(Format[DotDot], o[1])
    BY DEF DotEntries
  <2>1. PICK c \in Allocated, i \in Slots :
               Naming(k) = {<<c, i>>} /\ IsPlaceOf(Allocated, data, c, i, k)
    BY <1>5
  <2>2. <<c, i>> \in Naming(k) /\ <<c, i>>[1] = c
    BY <2>1
  <2> QED BY <2>1, <2>2 DEF IsPlaceOf
<1>8. ChildBeyondParent
  <2> SUFFICES ASSUME NEW k \in Allocated, NEW o \in Naming(k) PROVE o[1] < k
    BY DEF ChildBeyondParent
  <2>1. k # Root
    BY <1>4
  <2>2. PICK c \in Allocated, i \in Slots :
               Naming(k) = {<<c, i>>} /\ IsPlaceOf(Allocated, data, c, i, k)
    BY <1>5, <2>1
  <2> QED BY <2>2 DEF IsPlaceOf
<1> QED BY <1>3, <1>6, <1>7, <1>8 DEF TreeInOrder

\* Where the tree is on the disk, directories are read and written as they are.
LEMMA OnTree ==
  ASSUME FilesInv, AllOnDisk, NEW c \in Allocated
  PROVE  /\ c \in Clusters /\ OnDisk(c) /\ \A buf : Load(c, buf) = data[c]
         /\ \A d, dir : Store(d, c, dir) = [d EXCEPT ![c] = dir]
BY AllocatedAre DEF AllOnDisk, Load, Store

LEMMA TreeNow ==
  ASSUME FilesInv, TreeInv, NEW B, Allocated \subseteq B, \A c \in B : OnDisk(c)
  PROVE  /\ AllOnDisk /\ IsTree(Allocated, data, cwd)
         /\ cwd \in Allocated /\ Root \in Allocated
         /\ \A p : StartDir(p) \in Allocated
         /\ data \in [Clusters -> AnyDirectory] /\ \A c \in Allocated : c \in Clusters
<1>1. AllOnDisk
  BY DEF AllOnDisk
<1>2. IsTree(Allocated, data, cwd)
  BY <1>1 DEF TreeInv
<1> QED BY <1>1, <1>2, AllocatedAre, DiskTyped DEF IsTree, StartDir, FilesInv

\* A call that takes no cluster and changes no directory's entries for directories.
LEMMA QuietTree ==
  ASSUME FilesInv, TreeInv, Allocated' = Allocated,
         AllOnDisk /\ IsTree(Allocated, data, cwd) =>
           /\ cwd' \in Allocated
           /\ \A c \in Allocated, i \in Slots :
                \/ data'[c][i] = data[c][i]
                \/ data[c][i].kind # "dir" /\ data'[c][i].kind # "dir"
  PROVE  TreeInv'
<1> SUFFICES ASSUME AllOnDisk' PROVE IsTree(Allocated', data', cwd')
  BY DEF TreeInv, IsTree, IsPlaceOf, Names, OwnSlots
<1>1. AllOnDisk /\ IsTree(Allocated, data, cwd)
  BY TreeNow DEF AllOnDisk
<1>2. IsTree(Allocated, data', cwd')
  BY <1>1, SameDirectories
<1> QED BY <1>2

LEMMA CreateTree ==
  ASSUME FilesInv, TreeInv, NEW p \in Path, Create(p), UNCHANGED fileVars
  PROVE  TreeInv'
<1> DEFINE start == StartDir(p)
           dir == Load(start, buffer)
           slot == FreeSlot(dir)
           dir2 == [dir EXCEPT ![slot] = FileEntry(Format[p.name])]
<1>1. fat' = fat /\ cwd' = cwd
      /\ (data' = data \/ (FreeSlots(dir) # {} /\ data' = Store(data, start, dir2)))
  BY DEF Create, Fail
<1>2. Allocated' = Allocated
  BY <1>1, CreateIsCall, ShellCallAllocates
<1>3. ASSUME AllOnDisk, IsTree(Allocated, data, cwd)
      PROVE  /\ cwd' \in Allocated
             /\ \A c \in Allocated, i \in Slots :
                  \/ data'[c][i] = data[c][i]
                  \/ data[c][i].kind # "dir" /\ data'[c][i].kind # "dir"
  <2>1. /\ start \in Allocated /\ data \in [Clusters -> AnyDirectory]
        /\ cwd \in Allocated /\ \A c \in Allocated : c \in Clusters
    BY <1>3, TreeNow DEF AllOnDisk
  <2>2. dir = data[start] /\ Store(data, start, dir2) = [data EXCEPT ![start] = dir2]
    <3>1. OnDisk(start) /\ Load(start, buffer) = data[start]
      BY <1>3, <2>1, OnTree
    <3>2. Store(data, start, dir2) = [data EXCEPT ![start] = dir2]
      <4> HIDE DEF dir2, start
      <4> QED BY <3>1 DEF Store
    <3> QED BY <3>1, <3>2
  <2>3. CASE data' = data
    BY <1>1, <2>1, <2>3
  <2>4. CASE FreeSlots(dir) # {} /\ data' = Store(data, start, dir2)
    <3>1. slot \in Slots /\ ~ Live(dir[slot])
      BY <2>4, FreeSlotIsFirst
    <3>2. dir[slot].kind # "dir" /\ FileEntry(Format[p.name]).kind # "dir"
      BY <3>1 DEF Live, FileEntry
    <3>3. dir \in AnyDirectory
      BY <2>1, <2>2
    <3> HIDE DEF dir, slot, start
    <3>4. /\ dir2[slot].kind # "dir" /\ \A i \in Slots : i # slot => dir2[i] = dir[i]
      BY <3>1, <3>2, <3>3 DEF AnyDirectory
    <3> HIDE DEF dir2
    <3>5. data'[start] = dir2 /\ \A c \in Clusters : c # start => data'[c] = data[c]
      BY <2>1, <2>2, <2>4
    <3> QED BY <1>1, <2>1, <2>2, <3>2, <3>4, <3>5
  <2> QED BY <1>1, <2>3, <2>4
<1> HIDE DEF dir, dir2, start, slot
<1> QED BY <1>2, <1>3, QuietTree

LEMMA DeleteTree ==
  ASSUME FilesInv, TreeInv, NEW p \in Path, Delete(p), NamesFile(p), UNCHANGED fileVars
  PROVE  TreeInv'
<1> DEFINE start == StartDir(p)
           dir == Load(start, buffer)
           slot == HitSlot(dir, p.name)
           first == dir[slot].cluster
           dir2 == [dir EXCEPT ![slot] = Deleted]
<1>1. cwd' = cwd /\ (data' = data \/ (Found(dir, p.name) /\ data' = Store(data, start, dir2)))
  BY DEF Delete, Fail
<1>2. Allocated' = Allocated
  <2>1. \/ fat' = fat
        \/ Found(dir, p.name) /\ fat' = IF first = NoCluster THEN fat ELSE Release(fat, first)
    BY DEF Delete, Fail
  <2>2. dir \in AnyDirectory
    BY AnyLoadType, DiskTyped DEF FilesInv
  <2>3. Found(dir, p.name) => first = NoCluster
    BY <2>2, AnyHitType, AnyEntryTypes DEF NamesFile, Hit
  <2> HIDE DEF dir, first
  <2>4. fat' = fat
    BY <2>1, <2>3
  <2> QED BY <2>4, DeleteIsCall, ShellCallAllocates
<1>3. ASSUME AllOnDisk, IsTree(Allocated, data, cwd)
      PROVE  /\ cwd' \in Allocated
             /\ \A c \in Allocated, i \in Slots :
                  \/ data'[c][i] = data[c][i]
                  \/ data[c][i].kind # "dir" /\ data'[c][i].kind # "dir"
  <2>1. /\ start \in Allocated /\ data \in [Clusters -> AnyDirectory]
        /\ cwd \in Allocated /\ \A c \in Allocated : c \in Clusters
    BY <1>3, TreeNow DEF AllOnDisk
  <2>2. dir = data[start] /\ Store(data, start, dir2) = [data EXCEPT ![start] = dir2]
    <3>1. OnDisk(start) /\ Load(start, buffer) = data[start]
      BY <1>3, <2>1, OnTree
    <3>2. Store(data, start, dir2) = [data EXCEPT ![start] = dir2]
      <4> HIDE DEF dir2, start
      <4> QED BY <3>1 DEF Store
    <3> QED BY <3>1, <3>2
  <2>3. CASE data' = data
    BY <1>1, <2>1, <2>3
  <2>4. CASE Found(dir, p.name) /\ data' = Store(data, start, dir2)
    <3>1. dir \in AnyDirectory
      BY <2>1, <2>2
    <3>2. slot \in Slots
      BY <2>4, <3>1, AnyHitType
    <3>3. dir[slot].kind # "dir" /\ Deleted.kind # "dir"
      BY <2>4 DEF NamesFile, Hit, Deleted, Unused
    <3> HIDE DEF dir, slot, start
    <3>4. /\ dir2[slot].kind # "dir" /\ \A i \in Slots : i # slot => dir2[i] = dir[i]
      BY <3>1, <3>2, <3>3 DEF AnyDirectory
    <3> HIDE DEF dir2
    <3>5. data'[start] = dir2 /\ \A c \in Clusters : c # start => data'[c] = data[c]
      BY <2>1, <2>2, <2>4
    <3> QED BY <1>1, <2>1, <2>2, <3>3, <3>4, <3>5
  <2> QED BY <1>1, <2>3, <2>4
<1> HIDE DEF dir, dir2, start, slot
<1> QED BY <1>2, <1>3, QuietTree

LEMMA MkdirTree ==
  ASSUME FilesInv, TreeInv, NEW p \in Path, Mkdir(p), UNCHANGED fileVars
  PROVE  TreeInv'
<1> DEFINE start == StartDir(p)
           dir == Load(start, buffer)
           new == NewCluster
           slot == FreeSlot(dir)
           dir2 == [dir EXCEPT ![slot] = DirEntry(Format[p.name], new)]
           fresh == NewDirectory(new, start)
<1>1. \/ UNCHANGED <<fat, data, cwd>>
      \/ FreeClusters # {} /\ fat' = Release(Take(fat, new), new) /\ UNCHANGED <<data, cwd>>
      \/ /\ FreeClusters # {} /\ FreeSlots(dir) # {} /\ fat' = Take(fat, new)
         /\ data' = Store(Store(data, start, dir2), new, fresh) /\ UNCHANGED cwd
  BY DEF Mkdir, Fail
<1>2. FreeClusters # {} => new \in Clusters /\ fat[new] = Free
  BY NewClusterIsFree
<1>3. ASSUME fat' = fat, UNCHANGED <<data, cwd>> PROVE TreeInv'
  <2>1. Allocated' = Allocated
    BY <1>3, MkdirIsCall, ShellCallAllocates
  <2>2. IsTree(Allocated, data, cwd) => cwd' \in Allocated
    BY <1>3 DEF IsTree
  <2> QED BY <1>3, <2>1, <2>2, QuietTree
<1>4. CASE FreeClusters # {} /\ fat' = Release(Take(fat, new), new) /\ UNCHANGED <<data, cwd>>
  <2>1. fat \in [Clusters -> Link]
    BY DiskTyped DEF FilesInv
  <2>2. Release(Take(fat, new), new) = fat
    BY <1>2, <1>4, <2>1 DEF Release, Take
  <2> QED BY <1>3, <1>4, <2>2
<1>5. CASE /\ FreeClusters # {} /\ FreeSlots(dir) # {} /\ fat' = Take(fat, new)
           /\ data' = Store(Store(data, start, dir2), new, fresh) /\ UNCHANGED cwd
  <2>1. /\ Allocated' = Allocated \cup {new}
        /\ new \in Clusters /\ \A c \in Allocated : c < new
    BY <1>5, MkdirIsCall, ShellCallAllocates
  <2> HIDE DEF new
  <2> SUFFICES ASSUME AllOnDisk' PROVE IsTree(Allocated', data', cwd')
    BY DEF TreeInv, IsTree, IsPlaceOf, Names, OwnSlots
  <2>2. \A c \in Allocated \cup {new} : OnDisk(c)
    BY <2>1 DEF AllOnDisk
  <2>3. /\ AllOnDisk /\ IsTree(Allocated, data, cwd) /\ start \in Allocated
        /\ data \in [Clusters -> AnyDirectory] /\ \A c \in Allocated : c \in Clusters
    BY <2>2, TreeNow
  <2>4. dir = data[start] /\ Store(data, start, dir2) = [data EXCEPT ![start] = dir2]
    <3>1. OnDisk(start) /\ Load(start, buffer) = data[start]
      BY <2>3, OnTree
    <3>2. Store(data, start, dir2) = [data EXCEPT ![start] = dir2]
      <4> HIDE DEF dir2, start
      <4> QED BY <3>1 DEF Store
    <3> QED BY <3>1, <3>2
  <2>5. slot \in Slots /\ ~ Live(dir[slot])
    BY <1>5, FreeSlotIsFirst
  <2>6. dir \in AnyDirectory /\ dir[slot].kind # "dir"
    BY <2>3, <2>4, <2>5 DEF Live
  <2> HIDE DEF dir, slot, start
  <2>7. /\ dir2[slot] = DirEntry(Format[p.name], new)
        /\ \A i \in Slots : i # slot => dir2[i] = dir[i]
    BY <2>5, <2>6 DEF AnyDirectory
  <2> HIDE DEF dir2, fresh
  <2>8. data' = [[data EXCEPT ![start] = dir2] EXCEPT ![new] = fresh]
    BY <1>5, <2>1, <2>2, <2>4 DEF Store
  <2>9. start # new /\ start \in Clusters
    BY <2>1, <2>3, MarksAreNotClusters
  <2>10. /\ data'[new] = fresh /\ data'[start] = dir2
         /\ \A c \in Allocated : c # start => data'[c] = data[c]
    BY <2>1, <2>3, <2>8, <2>9, MarksAreNotClusters
  <2>11. /\ data[start][slot].kind # "dir" /\ data'[start][slot] = DirEntry(Format[p.name], new)
         /\ \A i \in Slots : i # slot => data'[start][i] = data[start][i]
         /\ data'[new] = NewDirectory(new, start)
    BY <2>4, <2>6, <2>7, <2>10 DEF fresh
  <2>12. IsTree(Allocated \cup {new}, data', cwd)
    <3> DEFINE name == Format[p.name]
    <3> HIDE DEF name
    <3>1. data'[start][slot] = DirEntry(name, new)
      BY <2>11 DEF name
    <3> QED BY <2>1, <2>3, <2>5, <2>10, <2>11, <3>1, AddDirectory
  <2> QED BY <1>5, <2>1, <2>12
<1> QED BY <1>1, <1>3, <1>4, <1>5

LEMMA ListTree ==
  ASSUME FilesInv, TreeInv, NEW p \in Path, List(p), UNCHANGED fileVars
  PROVE  TreeInv'
<1>1. UNCHANGED <<fat, data, cwd>>
  BY DEF List, Fail
<1>2. Allocated' = Allocated
  BY <1>1, ListIsCall, ShellCallAllocates
<1>3. IsTree(Allocated, data, cwd) => cwd' \in Allocated
  BY <1>1 DEF IsTree
<1> QED BY <1>1, <1>2, <1>3, QuietTree

LEMMA ChdirTree ==
  ASSUME FilesInv, TreeInv, NEW p \in Path, Chdir(p), UNCHANGED fileVars
  PROVE  TreeInv'
<1>1. UNCHANGED <<fat, data>>
  BY DEF Chdir, ChdirRoot, ChdirDot, ChdirUp, ChdirDown
<1>2. Allocated' = Allocated
  BY <1>1, ChdirIsCall, ShellCallAllocates
<1>3. ASSUME AllOnDisk, IsTree(Allocated, data, cwd) PROVE cwd' \in Allocated
  <2>1. /\ cwd \in Allocated /\ Root \in Allocated /\ StartDir(p) \in Allocated
        /\ data \in [Clusters -> AnyDirectory] /\ \A c \in Allocated : c \in Clusters
    BY <1>3, TreeNow DEF AllOnDisk
  <2>2. ASSUME NEW c \in Allocated, NEW n, Found(Load(c, buffer), n)
        PROVE  /\ Hit(Load(c, buffer), n).kind = "dir" => Hit(Load(c, buffer), n).cluster \in Allocated
               /\ Hit(Load(c, buffer), n).kind # "dir" => Hit(Load(c, buffer), n).cluster = NoCluster
    <3>1. Load(c, buffer) = data[c]
      BY <1>3, OnTree
    <3>2. data[c] \in AnyDirectory
      BY <2>1
    <3>3. /\ Hit(data[c], n) = data[c][HitSlot(data[c], n)] /\ HitSlot(data[c], n) \in Slots
          /\ Hit(data[c], n) \in AnyEntry /\ Live(Hit(data[c], n))
      BY <2>2, <3>1, <3>2, AnyHitType
    <3>4. Hit(data[c], n).kind # "dir" => Hit(data[c], n).cluster = NoCluster
      BY <3>3, AnyEntryTypes
    <3>5. Hit(data[c], n).kind = "dir" => Hit(data[c], n).cluster \in Allocated
      BY <1>3, <3>3 DEF IsTree
    <3> QED BY <3>1, <3>4, <3>5
  <2>3. CASE ChdirRoot(p)
    BY <2>1, <2>3 DEF ChdirRoot
  <2>4. CASE ChdirDot(p)
    BY <2>1, <2>4 DEF ChdirDot
  <2>5. CASE ChdirUp(p)
    <3> DEFINE dir == Load(cwd, buffer)
    <3>1. cwd' = IF Found(dir, DotDot) THEN ParentOf(Hit(dir, DotDot)) ELSE cwd
      BY <2>5 DEF ChdirUp
    <3>2. Found(dir, DotDot) => ParentOf(Hit(dir, DotDot)) \in Allocated
      BY <2>1, <2>2 DEF ParentOf
    <3> HIDE DEF dir
    <3> QED BY <2>1, <3>1, <3>2
  <2>6. CASE ChdirDown(p)
    <3> DEFINE dir == Load(StartDir(p), buffer)
    <3>1. \/ cwd' = cwd
          \/ /\ Found(dir, p.name) /\ Hit(dir, p.name).kind = "dir"
             /\ cwd' = Hit(dir, p.name).cluster
      BY <2>6 DEF ChdirDown
    <3>2. Found(dir, p.name) /\ Hit(dir, p.name).kind = "dir"
            => Hit(dir, p.name).cluster \in Allocated
      BY <2>1, <2>2
    <3> HIDE DEF dir
    <3> QED BY <2>1, <3>1, <3>2
  <2> QED BY <2>3, <2>4, <2>5, <2>6 DEF Chdir
<1> QED BY <1>1, <1>2, <1>3, QuietTree

FileCall ==
  \/ \E p \in Path : OpenFile(p)
  \/ CloseFile \/ RefuseTransfer
  \/ \E n \in Counts : ReadFile(n) \/ WriteFile(n)

\* A call that leaves the FAT leaves the clusters where they are.
LEMMA SameFat ==
  ASSUME FilesInv, FilesInv', fat' = fat, zero' = zero
  PROVE  Allocated' = Allocated /\ FileClusters' = FileClusters
<1>1. Disk'.fat = Disk.fat /\ Disk'.zero = Disk.zero
  BY DiskFields, DiskFieldsNext
<1>2. \A c : InChain(Disk', c) <=> InChain(Disk, c)
  BY <1>1, ChainOfFat
<1>3. FileClusters' = FileClusters
  BY <1>2, FileClustersAre, FileClustersNext DEF FilesInv
<1> QED BY <1>2, <1>3, AllocatedAre, AllocatedNext

\* Files take clusters that no directory has.
LEMMA FileCallDoes ==
  ASSUME FilesInv, FileCall
  PROVE  /\ FilesInv' /\ Allocated' = Allocated /\ cwd' = cwd
         /\ \A c \in Allocated : data'[c] = data[c]
         /\ FileClusters \subseteq FileClusters'
         /\ FileClusters' = FileClusters \/ \E n \in Counts : WriteFile(n)
<1>1. ASSUME NEW p \in Path, OpenFile(p)
      PROVE  FilesInv' /\ UNCHANGED <<fat, zero, data, cwd>>
  BY <1>1, OpenKeeps DEF OpenFile
<1>2. CloseFile => FilesInv' /\ UNCHANGED <<fat, zero, data, cwd>>
  BY CloseKeeps DEF CloseFile
<1>3. RefuseTransfer => FilesInv' /\ UNCHANGED <<fat, zero, data, cwd>>
  BY RefuseKeeps DEF RefuseTransfer, Fail
<1>4. ASSUME NEW n \in Counts, ReadFile(n)
      PROVE  FilesInv' /\ UNCHANGED <<fat, zero, data, cwd>>
  BY <1>4, ReadKeeps
<1>5. CASE FilesInv' /\ UNCHANGED <<fat, zero, data, cwd>>
  BY <1>5, SameFat
<1>6. ASSUME NEW n \in Counts, WriteFile(n)
      PROVE  /\ FilesInv' /\ Allocated' = Allocated /\ cwd' = cwd
             /\ \A c \in Allocated : data'[c] = data[c]
             /\ FileClusters \subseteq FileClusters'
  <2>1. FilesInv' /\ cwd' = cwd /\ Grows(Disk, Disk')
    BY <1>6, WriteKeeps
  <2>2. /\ \A c \in Clusters : InChain(Disk, c) => InChain(Disk', c)
        /\ \A c \in Clusters : InChain(Disk', c) => InChain(Disk, c) \/ fat[c] = Free
        /\ \A c \in Clusters : ~ InChain(Disk', c) => data'[c] = data[c] /\ fat'[c] = fat[c]
    BY <2>1, DiskFields, DiskFieldsNext DEF Grows, Places
  <2>3. /\ Allocated = {c \in Clusters : fat[c] # Free /\ ~ InChain(Disk, c)}
        /\ Allocated' = {c \in Clusters : fat'[c] # Free /\ ~ InChain(Disk', c)}
    BY <2>1, AllocatedAre, AllocatedNext
  <2>4. Allocated' = Allocated
    BY <2>2, <2>3
  <2>5. \A c \in Allocated : data'[c] = data[c]
    BY <2>2, <2>3, <2>4
  <2>6. FileClusters \subseteq FileClusters'
    BY <2>1, <2>2, FileClustersAre, FileClustersNext DEF FilesInv
  <2> QED BY <2>1, <2>4, <2>5, <2>6
<1> QED BY <1>1, <1>2, <1>3, <1>4, <1>5, <1>6 DEF FileCall

LEMMA FileCallTree ==
  ASSUME FilesInv, TreeInv, FileCall
  PROVE  TreeInv'
<1>1. IsTree(Allocated, data, cwd) => cwd' \in Allocated
  BY FileCallDoes DEF IsTree
<1> QED BY <1>1, FileCallDoes, QuietTree

LEMMA IdleDoes ==
  ASSUME FilesInv, UNCHANGED treeVars
  PROVE  /\ FilesInv' /\ Allocated' = Allocated /\ FileClusters' = FileClusters
         /\ UNCHANGED <<fat, data, cwd, path, ret, handle>>
<1>1. UNCHANGED <<fat, data, buffer, cwd, path, ret, zero, handle>>
  BY DEF treeVars, allVars, vars, fileVars
<1>2. Disk' = Disk
  BY <1>1 DEF Disk
<1>3. FilesInv'
  BY <1>1, <1>2 DEF FilesInv
<1> QED BY <1>1, <1>3, SameFat

LEMMA TreeStep ==
  FilesInv /\ TreeInv /\ [OrdinaryNext /\ shape' = Shape']_treeVars => TreeInv'
<1> SUFFICES ASSUME FilesInv, TreeInv, [OrdinaryNext /\ shape' = Shape']_treeVars
             PROVE  TreeInv'
  OBVIOUS
<1>1. CASE OrdinaryFileCall
  BY <1>1, FileCallTree DEF OrdinaryFileCall, FileCall
<1>2. ASSUME NEW p \in Path, OrdinaryChange(p) \/ OrdinaryMove(p), UNCHANGED fileVars
      PROVE  TreeInv'
  BY <1>2, CreateTree, MkdirTree, DeleteTree, ListTree, ChdirTree
     DEF OrdinaryChange, OrdinaryMove
<1>3. CASE UNCHANGED treeVars
  <2>1. IsTree(Allocated, data, cwd) => cwd' \in Allocated
    BY <1>3, IdleDoes DEF IsTree
  <2> QED BY <1>3, <2>1, IdleDoes, QuietTree
<1> QED BY <1>1, <1>2, <1>3 DEF OrdinaryNext

LEMMA TreeInitially == OrdinaryInit => TreeInv
<1> SUFFICES ASSUME OrdinaryInit PROVE IsTree(Allocated, data, cwd)
  BY DEF TreeInv
<1>1. /\ fat = [c \in Clusters |-> IF c = Root THEN EndOfChain ELSE Free]
      /\ data = [c \in Clusters |-> EmptyDirectory] /\ cwd = Root
  BY DEF OrdinaryInit, FilesInit, Init
<1>2. Allocated = {Root}
  <2>1. FilesInv
    BY FilesInitially
  <2>2. Root \in Allocated /\ \A c \in Allocated : c \in Clusters /\ fat[c] # Free
    BY <2>1, AllocatedAre
  <2> QED BY <1>1, <2>2
<1>3. \A c \in Allocated, i \in Slots : data[c][i].kind # "dir"
  BY <1>1, <1>2, MarksAreNotClusters DEF EmptyDirectory, Unused
<1> QED BY <1>1, <1>2, <1>3, MarksAreNotClusters DEF IsTree, Names

LEMMA TreeAlways == OrdinarySpec => [](FilesInv /\ TreeInv)
<1>1. OrdinaryInit => FilesInv /\ TreeInv
  BY FilesInitially, TreeInitially
<1>2. FilesInv /\ TreeInv /\ [OrdinaryNext /\ shape' = Shape']_treeVars => (FilesInv /\ TreeInv)'
  BY FilesStep, TreeStep
<1> QED BY <1>1, <1>2, PTL DEF OrdinarySpec

THEOREM TreeStaysInOrder == OrdinarySpec => []TreeInOrder
BY TreeAlways, TreeFromInv, PTL

-----------------------------------------------------------------------------
(* The chain has no directory's cluster.                                   *)

\* The subdirectory entries of a directory, or of what is taken for one, lead to
\* clusters in A.
LeadsTo(dir, A) == \A i \in Slots : dir[i].kind = "dir" => dir[i].cluster \in A

\* Wherever one can come to look for a directory, the FAT has a cluster in use for
\* one.  The buffer is in it, for clusters that the disk does not have.
LeadInv ==
  /\ cwd \in Allocated /\ LeadsTo(buffer, Allocated)
  /\ \A c \in Clusters : LeadsTo(data[c], Allocated)

LEMMA LeadsLoad ==
  ASSUME LeadInv, NEW c \in Clusters, NEW buf, LeadsTo(buf, Allocated)
  PROVE  LeadsTo(Load(c, buf), Allocated)
BY DEF Load, LeadInv

LEMMA LeadsSlot ==
  ASSUME NEW dir \in AnyDirectory, NEW A, LeadsTo(dir, A), NEW i, NEW e,
         e.kind = "dir" => e.cluster \in A
  PROVE  LeadsTo([dir EXCEPT ![i] = e], A)
BY DEF LeadsTo, AnyDirectory

LEMMA LeadsStore ==
  ASSUME NEW d \in [Clusters -> AnyDirectory], NEW A, \A k \in Clusters : LeadsTo(d[k], A),
         NEW c, NEW dir, LeadsTo(dir, A)
  PROVE  \A k \in Clusters : LeadsTo(Store(d, c, dir)[k], A)
<1> TAKE k \in Clusters
<1>1. Store(d, c, dir)[k] = d[k] \/ Store(d, c, dir)[k] = dir
  BY DEF Store
<1> QED BY <1>1

LEMMA LeadsMore ==
  ASSUME NEW dir, NEW A, NEW B, LeadsTo(dir, A), A \subseteq B
  PROVE  LeadsTo(dir, B)
BY DEF LeadsTo

\* What a search hits leads there, too, and so does "..".
LEMMA HitLeads ==
  ASSUME NEW dir \in AnyDirectory, LeadsTo(dir, Allocated), Root \in Allocated,
         NEW n, Found(dir, n)
  PROVE  /\ Hit(dir, n).kind = "dir" => Hit(dir, n).cluster \in Allocated
         /\ ParentOf(Hit(dir, n)) \in Allocated
<1>1. /\ HitSlot(dir, n) \in Slots /\ Hit(dir, n) \in AnyEntry /\ Live(Hit(dir, n))
      /\ Hit(dir, n) = dir[HitSlot(dir, n)]
  BY AnyHitType
<1>2. Hit(dir, n).kind = "dir" => Hit(dir, n).cluster \in Allocated
  BY <1>1 DEF LeadsTo
<1>3. Hit(dir, n).kind # "dir" => Hit(dir, n).cluster = NoCluster
  BY <1>1, AnyEntryTypes
<1> QED BY <1>2, <1>3 DEF ParentOf

\* What the calls of the shell begin with.
LEMMA LeadsNow ==
  ASSUME FilesInv, LeadInv, NEW p \in Path
  PROVE  /\ cwd \in Allocated /\ Root \in Allocated /\ Allocated \subseteq Clusters
         /\ StartDir(p) \in Allocated /\ p.name \in Name
         /\ data \in [Clusters -> AnyDirectory] /\ buffer \in AnyDirectory
         /\ \A c \in Clusters : LeadsTo(data[c], Allocated)
         /\ LeadsTo(buffer, Allocated)
         /\ \A c \in Allocated :
              /\ Load(c, buffer) \in AnyDirectory
              /\ LeadsTo(Load(c, buffer), Allocated)
<1>1. cwd \in Allocated /\ Root \in Allocated /\ Allocated \subseteq Clusters
  BY AllocatedAre DEF LeadInv, Allocated
<1>2. StartDir(p) \in Allocated /\ p.name \in Name
  BY <1>1, PathTypes DEF StartDir
<1>3. data \in [Clusters -> AnyDirectory] /\ buffer \in AnyDirectory /\ DiskType(Disk)
  BY DiskTyped DEF FilesInv
<1>4. LeadsTo(buffer, Allocated) /\ \A c \in Clusters : LeadsTo(data[c], Allocated)
  BY DEF LeadInv
<1>5. ASSUME NEW c \in Allocated
      PROVE  Load(c, buffer) \in AnyDirectory /\ LeadsTo(Load(c, buffer), Allocated)
  BY <1>1, <1>3, <1>4, AnyLoadType, LeadsLoad
<1> QED BY <1>1, <1>2, <1>3, <1>4, <1>5

LEMMA CreateLeads ==
  ASSUME FilesInv, LeadInv, NEW p \in Path, Create(p), UNCHANGED fileVars
  PROVE  LeadInv'
<1> DEFINE start == StartDir(p)
           dir == Load(start, buffer)
           dir2 == [dir EXCEPT ![FreeSlot(dir)] = FileEntry(Format[p.name])]
<1>1. /\ fat' = fat /\ cwd' = cwd
      /\ \/ data' = data /\ buffer' = dir
         \/ data' = Store(data, start, dir2) /\ buffer' = dir2
  BY DEF Create, Fail
<1>2. Allocated' = Allocated
  BY <1>1, CreateIsCall, ShellCallAllocates
<1>3. dir \in AnyDirectory /\ LeadsTo(dir, Allocated)
  BY LeadsNow
<1>4. FileEntry(Format[p.name]).kind # "dir"
  BY DEF FileEntry
<1> HIDE DEF dir, start
<1>5. LeadsTo(dir2, Allocated)
  BY <1>3, <1>4, LeadsSlot
<1> HIDE DEF dir2
<1>6. \A k \in Clusters : LeadsTo(Store(data, start, dir2)[k], Allocated)
  BY <1>5, LeadsNow, LeadsStore
<1> QED BY <1>1, <1>2, <1>3, <1>5, <1>6 DEF LeadInv

LEMMA DeleteLeads ==
  ASSUME FilesInv, LeadInv, NEW p \in Path, Delete(p), NamesFile(p), UNCHANGED fileVars
  PROVE  LeadInv'
<1> DEFINE start == StartDir(p)
           dir == Load(start, buffer)
           slot == HitSlot(dir, p.name)
           first == dir[slot].cluster
           dir2 == [dir EXCEPT ![slot] = Deleted]
<1>1. /\ cwd' = cwd
      /\ \/ data' = data /\ buffer' = dir /\ fat' = fat
         \/ /\ Found(dir, p.name) /\ data' = Store(data, start, dir2) /\ buffer' = dir2
            /\ fat' = IF first = NoCluster THEN fat ELSE Release(fat, first)
  BY DEF Delete, Fail
<1>2. dir \in AnyDirectory /\ LeadsTo(dir, Allocated)
  BY LeadsNow
<1>3. Found(dir, p.name) => first = NoCluster
  BY <1>2, AnyHitType, AnyEntryTypes DEF NamesFile, Hit
<1>4. Deleted.kind # "dir"
  BY DEF Deleted, Unused
<1> HIDE DEF dir, start, slot, first
<1>5. LeadsTo(dir2, Allocated)
  BY <1>2, <1>4, LeadsSlot
<1>6. fat' = fat
  BY <1>1, <1>3
<1>7. Allocated' = Allocated
  BY <1>6, DeleteIsCall, ShellCallAllocates
<1> HIDE DEF dir2
<1>8. \A k \in Clusters : LeadsTo(Store(data, start, dir2)[k], Allocated)
  BY <1>5, LeadsNow, LeadsStore
<1> QED BY <1>1, <1>2, <1>5, <1>7, <1>8 DEF LeadInv

LEMMA MkdirLeads ==
  ASSUME FilesInv, LeadInv, NEW p \in Path, Mkdir(p), UNCHANGED fileVars
  PROVE  LeadInv'
<1> DEFINE start == StartDir(p)
           dir == Load(start, buffer)
           new == NewCluster
           dir2 == [dir EXCEPT ![FreeSlot(dir)] = DirEntry(Format[p.name], new)]
           fresh == NewDirectory(new, start)
<1>1. \/ buffer' = dir /\ UNCHANGED <<fat, data, cwd>>
      \/ /\ FreeClusters # {} /\ fat' = Release(Take(fat, new), new)
         /\ buffer' = dir /\ UNCHANGED <<data, cwd>>
      \/ /\ FreeClusters # {} /\ fat' = Take(fat, new)
         /\ data' = Store(Store(data, start, dir2), new, fresh)
         /\ buffer' = fresh /\ UNCHANGED cwd
  BY DEF Mkdir, Fail
<1>2. dir \in AnyDirectory /\ LeadsTo(dir, Allocated) /\ start \in Allocated /\ p.name \in Name
  BY LeadsNow
<1>3. FreeClusters # {} => new \in Clusters /\ fat[new] = Free
  BY NewClusterIsFree
<1>4. ASSUME fat' = fat, buffer' = dir, UNCHANGED <<data, cwd>> PROVE LeadInv'
  <2>1. Allocated' = Allocated
    BY <1>4, MkdirIsCall, ShellCallAllocates
  <2> QED BY <1>2, <1>4, <2>1 DEF LeadInv
<1>5. CASE /\ FreeClusters # {} /\ fat' = Release(Take(fat, new), new)
           /\ buffer' = dir /\ UNCHANGED <<data, cwd>>
  <2>1. fat \in [Clusters -> Link]
    BY DiskTyped DEF FilesInv
  <2>2. Release(Take(fat, new), new) = fat
    BY <1>3, <1>5, <2>1 DEF Release, Take
  <2> QED BY <1>4, <1>5, <2>2
<1>6. CASE /\ FreeClusters # {} /\ fat' = Take(fat, new)
           /\ data' = Store(Store(data, start, dir2), new, fresh)
           /\ buffer' = fresh /\ UNCHANGED cwd
  <2> DEFINE B == Allocated \cup {new}
  <2>1. Allocated' = B /\ new \in Clusters
    BY <1>6, MkdirIsCall, ShellCallAllocates
  <2>2. /\ DirEntry(Format[p.name], new).cluster = new
        /\ DirEntry(Format[p.name], new) \in Entry
    BY <1>2, <2>1, EntryTypes DEF DirEntry
  <2>3. \A i \in Slots :
          \/ fresh[i] = DirEntry(Format[Dot], new)
          \/ fresh[i] = DirEntry(Format[DotDot], start)
          \/ fresh[i] = Unused
    BY SlotsAreNaturals DEF NewDirectory, EmptyDirectory
  <2>4. LeadsTo(fresh, B)
    <3> HIDE DEF fresh, new, start
    <3> QED BY <1>2, <2>3 DEF LeadsTo, DirEntry, Unused
  <2> HIDE DEF dir, start, new, fresh
  <2>5. LeadsTo(dir2, B)
    <3>1. LeadsTo(dir, B)
      BY <1>2, LeadsMore
    <3> QED BY <1>2, <2>2, <3>1, LeadsSlot
  <2>6. dir2 \in AnyDirectory
    BY <1>2, <2>2, AnyWriteSlot
  <2> HIDE DEF dir2
  <2>7. data \in [Clusters -> AnyDirectory] /\ \A k \in Clusters : LeadsTo(data[k], B)
    BY LeadsNow, LeadsMore
  <2>8. /\ Store(data, start, dir2) \in [Clusters -> AnyDirectory]
        /\ \A k \in Clusters : LeadsTo(Store(data, start, dir2)[k], B)
    BY <2>5, <2>6, <2>7, AnyStoreType, LeadsStore
  <2>9. \A k \in Clusters : LeadsTo(Store(Store(data, start, dir2), new, fresh)[k], B)
    BY <2>4, <2>8, LeadsStore
  <2> QED BY <1>6, <2>1, <2>4, <2>9 DEF LeadInv
<1> QED BY <1>1, <1>4, <1>5, <1>6

LEMMA ListLeads ==
  ASSUME FilesInv, LeadInv, NEW p \in Path, List(p), UNCHANGED fileVars
  PROVE  LeadInv'
<1> DEFINE special == p.name \in {Empty, Dot, DotDot}
           dir == CASE p.name = DotDot -> Load(cwd, buffer)
                    [] p.name \in {Empty, Dot} -> buffer
                    [] OTHER -> Load(StartDir(p), buffer)
           hit == Hit(dir, p.name)
           target == CASE p.name = Empty -> StartDir(p)
                       [] p.name = Dot -> cwd
                       [] p.name = DotDot -> IF Found(dir, DotDot) THEN ParentOf(hit)
                                                                   ELSE StartDir(p)
                       [] OTHER -> hit.cluster
<1>1. UNCHANGED <<fat, data, cwd>>
  BY DEF List, Fail
<1>2. Allocated' = Allocated
  BY <1>1, ListIsCall, ShellCallAllocates
<1>3. \/ buffer' = dir
      \/ special /\ buffer' = Load(target, dir)
      \/ Found(dir, p.name) /\ hit.kind = "dir" /\ buffer' = Load(target, dir)
  BY DEF List, Fail
<1>4. /\ cwd \in Allocated /\ Root \in Allocated /\ Allocated \subseteq Clusters
      /\ StartDir(p) \in Allocated
  BY LeadsNow
<1>5. dir \in AnyDirectory /\ LeadsTo(dir, Allocated)
  <2>1. dir \in {buffer, Load(cwd, buffer), Load(StartDir(p), buffer)}
    OBVIOUS
  <2> HIDE DEF dir
  <2> QED BY <1>4, <2>1, LeadsNow
<1>6. Found(dir, p.name) => /\ hit.kind = "dir" => hit.cluster \in Allocated
                            /\ ParentOf(hit) \in Allocated
  <2> HIDE DEF dir
  <2> QED BY <1>4, <1>5, HitLeads
<1> HIDE DEF dir, hit
<1>7. special \/ (Found(dir, p.name) /\ hit.kind = "dir") => target \in Clusters
  BY <1>4, <1>6
<1> HIDE DEF target, special
<1>8. LeadsTo(buffer', Allocated)
  BY <1>3, <1>5, <1>7, LeadsLoad
<1> QED BY <1>1, <1>2, <1>8 DEF LeadInv

LEMMA ChdirLeads ==
  ASSUME FilesInv, LeadInv, NEW p \in Path, Chdir(p), UNCHANGED fileVars
  PROVE  LeadInv'
<1>1. UNCHANGED <<fat, data>>
  BY DEF Chdir, ChdirRoot, ChdirDot, ChdirUp, ChdirDown
<1>2. Allocated' = Allocated
  BY <1>1, ChdirIsCall, ShellCallAllocates
<1>3. /\ cwd \in Allocated /\ Root \in Allocated /\ StartDir(p) \in Allocated
      /\ LeadsTo(buffer, Allocated)
      /\ \A c \in Allocated : /\ Load(c, buffer) \in AnyDirectory
                              /\ LeadsTo(Load(c, buffer), Allocated)
  BY LeadsNow
<1>4. cwd' \in Allocated /\ LeadsTo(buffer', Allocated)
  <2>1. CASE ChdirRoot(p)
    BY <1>3, <2>1 DEF ChdirRoot
  <2>2. CASE ChdirDot(p)
    BY <1>3, <2>2 DEF ChdirDot
  <2>3. CASE ChdirUp(p)
    <3> DEFINE dir == Load(cwd, buffer)
    <3>1. buffer' = dir /\ cwd' = IF Found(dir, DotDot) THEN ParentOf(Hit(dir, DotDot)) ELSE cwd
      BY <2>3 DEF ChdirUp
    <3>2. dir \in AnyDirectory /\ LeadsTo(dir, Allocated)
      BY <1>3
    <3> HIDE DEF dir
    <3> QED BY <1>3, <3>1, <3>2, HitLeads
  <2>4. CASE ChdirDown(p)
    <3> DEFINE dir == Load(StartDir(p), buffer)
    <3>1. /\ buffer' = dir
          /\ \/ cwd' = cwd
             \/ /\ Found(dir, p.name) /\ Hit(dir, p.name).kind = "dir"
                /\ cwd' = Hit(dir, p.name).cluster
      BY <2>4 DEF ChdirDown
    <3>2. dir \in AnyDirectory /\ LeadsTo(dir, Allocated)
      BY <1>3
    <3> HIDE DEF dir
    <3> QED BY <1>3, <3>1, <3>2, HitLeads
  <2> QED BY <2>1, <2>2, <2>3, <2>4 DEF Chdir
<1> QED BY <1>1, <1>2, <1>4 DEF LeadInv

\* The file interface stores nothing that could be taken for a subdirectory.
LEMMA FileCallLeads ==
  ASSUME FilesInv, LeadInv, FileCall
  PROVE  LeadInv'
<1>1. Allocated' = Allocated /\ cwd' = cwd
  BY FileCallDoes
<1>2. LeadsTo(Bytes, Allocated)
  BY DEF LeadsTo, Bytes, Unused
<1>3. ASSUME NEW p \in Path, OpenFile(p) PROVE LeadsTo(buffer', Allocated) /\ data' = data
  BY <1>3, LeadsNow DEF OpenFile
<1>4. CloseFile \/ RefuseTransfer => buffer' = buffer /\ data' = data
  BY DEF CloseFile, RefuseTransfer, Fail
<1>5. ASSUME NEW n \in Counts, ReadFile(n) PROVE buffer' = buffer /\ data' = data
  BY <1>5, ReadKeeps
<1>6. ASSUME NEW n \in Counts, WriteFile(n)
      PROVE  /\ buffer' = buffer \/ buffer' = Bytes
             /\ \A c \in Clusters : data'[c] = data[c] \/ data'[c] = Bytes
  BY <1>6, WriteKeeps, DiskFields, DiskFieldsNext DEF Grows, OnlyBytesPut
<1>7. LeadsTo(buffer', Allocated) /\ \A c \in Clusters : LeadsTo(data'[c], Allocated)
  BY <1>2, <1>3, <1>4, <1>5, <1>6 DEF FileCall, LeadInv
<1> QED BY <1>1, <1>7 DEF LeadInv

LEMMA LeadStep ==
  FilesInv /\ LeadInv /\ [OrdinaryNext /\ shape' = Shape']_treeVars => LeadInv'
<1> SUFFICES ASSUME FilesInv, LeadInv, [OrdinaryNext /\ shape' = Shape']_treeVars
             PROVE  LeadInv'
  OBVIOUS
<1>1. CASE OrdinaryFileCall
  BY <1>1, FileCallLeads DEF OrdinaryFileCall, FileCall
<1>2. ASSUME NEW p \in Path, OrdinaryChange(p) \/ OrdinaryMove(p), UNCHANGED fileVars
      PROVE  LeadInv'
  BY <1>2, CreateLeads, MkdirLeads, DeleteLeads, ListLeads, ChdirLeads
     DEF OrdinaryChange, OrdinaryMove
<1>3. CASE UNCHANGED treeVars
  <2>1. UNCHANGED <<data, buffer, cwd>>
    BY <1>3 DEF treeVars, allVars, vars
  <2> QED BY <1>3, <2>1, IdleDoes DEF LeadInv
<1> QED BY <1>1, <1>2, <1>3 DEF OrdinaryNext

LEMMA LeadInitially == OrdinaryInit => LeadInv
<1> SUFFICES ASSUME OrdinaryInit PROVE LeadInv
  OBVIOUS
<1>1. /\ data = [c \in Clusters |-> EmptyDirectory] /\ buffer = EmptyDirectory /\ cwd = Root
  BY DEF OrdinaryInit, FilesInit, Init
<1>2. Root \in Allocated
  BY FilesInitially, AllocatedAre
<1>3. LeadsTo(EmptyDirectory, Allocated)
  BY DEF LeadsTo, EmptyDirectory, Unused
<1> QED BY <1>1, <1>2, <1>3 DEF LeadInv


LEMMA ApartFromInv == FilesInv /\ LeadInv => ChainIsApart
<1> SUFFICES ASSUME FilesInv, LeadInv PROVE ChainIsApart
  OBVIOUS
<1>1. DiskType(Disk) /\ ChainOK(Disk) /\ IsChain(Disk, Nth)
  BY ChainExists, NthNow DEF FilesInv
<1>2. \E n \in 0 .. MaxCluster : Nth[n] = EndOfChain
  BY <1>1, ChainEnds
<1>3. ASSUME NEW c \in FileClusters PROVE Cardinality(LinkedFrom(c)) = 1
  <2>1. c \in Clusters /\ InChain(Disk, c)
    BY <1>1, FileClustersAre
  <2>2. PICK d \in Places : FatEntry(Disk, d) = c
    BY <2>1, MarksAreNotClusters DEF InChain
  <2>3. \A e \in Places : FatEntry(Disk, e) = c => e = d
    BY <1>1, <2>1, <2>2 DEF ChainOK, LinksDiffer
  <2>4. LinkedFrom(c) = {d}
    BY <2>2, <2>3 DEF LinkedFrom, Places
  <2> QED BY <2>4, FS_Singleton
<1>4. ASSUME NEW c \in Clusters \ FileClusters PROVE fat[c] \in {Free, EndOfChain}
  <2>1. ~ InChain(Disk, c) /\ c \in Places
    BY <1>1, FileClustersAre DEF Places
  <2>2. FatEntry(Disk, c) = fat[c]
    BY DiskFields, MarksAreNotClusters DEF FatEntry
  <2>3. fat[c] \notin Clusters
    BY <1>1, <2>1, <2>2 DEF ChainOK, LinksAscend
  <2>4. fat[c] \in Link
    BY <1>1, DiskTyped
  <2> QED BY <2>3, <2>4 DEF Link
<1>5. FileClusters \cap DirectoryClusters = {}
  <2> SUFFICES ASSUME NEW k \in DirectoryClusters PROVE k \notin FileClusters
    OBVIOUS
  <2>1. CASE k = Root \/ k = cwd
    BY <2>1, AllocatedAre DEF LeadInv, Allocated
  <2>2. CASE k \notin {Root, cwd}
    <3>1. PICK e \in DirectoryEntries : k = e.cluster
      BY <2>2 DEF DirectoryClusters
    <3>2. PICK c \in Clusters, i \in Slots : e = data[c][i] /\ data[c][i].kind = "dir"
      BY DEF DirectoryEntries
    <3> QED BY <3>1, <3>2 DEF LeadInv, LeadsTo, Allocated
  <2> QED BY <2>1, <2>2
<1> QED BY <1>2, <1>3, <1>4, <1>5 DEF ChainIsApart

LEMMA LeadAlways == OrdinarySpec => [](FilesInv /\ LeadInv)
<1>1. OrdinaryInit => FilesInv /\ LeadInv
  BY FilesInitially, LeadInitially
<1>2. FilesInv /\ LeadInv /\ [OrdinaryNext /\ shape' = Shape']_treeVars => (FilesInv /\ LeadInv)'
  BY FilesStep, LeadStep
<1> QED BY <1>1, <1>2, PTL DEF OrdinarySpec

\* As long as rm is given files and names are ordinary, the chain of the files
\* ends, meets itself nowhere and has no cluster that is the root, the shell's or
\* where a subdirectory entry leads, on every disk, phantom clusters included.
THEOREM ChainStaysApart == OrdinarySpec => []ChainIsApart
BY LeadAlways, ApartFromInv, PTL

-----------------------------------------------------------------------------
(* Paths of directories.                                                   *)

\* LabelOf and PathTo, as data d holds the directories.
LabelIn(d, c) ==
  LET up == d[d[c][2].cluster]
  IN  up[CHOOSE i \in OwnSlots(d[c][2].cluster) :
           up[i].kind = "dir" /\ up[i].cluster = c].name

PathStep(P, d, c) ==
  IF c = Root \/ d[c][2].cluster \notin Root .. c - 1
    THEN <<>> ELSE Append(P[d[c][2].cluster], LabelIn(d, c))

PathsIn(d) == CHOOSE P : P = [c \in Clusters |-> PathStep(P, d, c)]

LEMMA PathsNow == PathTo = PathsIn(data)
BY DEF PathTo, PathsIn, PathStep, LabelIn, LabelOf, Above

LEMMA PathsNext == PathTo' = PathsIn(data')
BY DEF PathTo, PathsIn, PathStep, LabelIn, LabelOf, Above

\* Each path is made of one of a lower cluster, so all of them are defined.
LEMMA PathsExist ==
  ASSUME NEW d
  PROVE  PathsIn(d) = [c \in Clusters |-> PathStep(PathsIn(d), d, c)]
<1> DEFINE Below(m) == {c \in Clusters : c < Root + m}
           Ok(m, P) == P = [c \in Below(m) |-> PathStep(P, d, c)]
           S == {m \in Nat : \E P : Ok(m, P)}
<1>1. \A c \in Clusters : c \in Nat /\ c >= 2 /\ c < MaxCluster /\ Root = 2
  BY MarksAreNotClusters DEF Root
<1>2. 0 \in S
  <2>1. Below(0) = {}
    BY <1>1
  <2>2. Ok(0, [c \in {} |-> PathStep(<<>>, d, c)])
    BY <2>1
  <2> HIDE DEF Ok
  <2> QED BY <2>2
<1>3. ASSUME NEW m \in Nat, m \in S PROVE m + 1 \in S
  <2>1. PICK P : Ok(m, P)
    BY <1>3
  <2> DEFINE Q == [c \in Below(m + 1) |-> PathStep(P, d, c)]
  <2>2. ASSUME NEW c \in Below(m + 1) PROVE PathStep(Q, d, c) = PathStep(P, d, c)
    <3>1. CASE c = Root \/ d[c][2].cluster \notin Root .. c - 1
      BY <3>1 DEF PathStep
    <3>2. CASE c # Root /\ d[c][2].cluster \in Root .. c - 1
      <4> DEFINE up == d[c][2].cluster
      <4>1. up \in Root .. c - 1 /\ c \in Clusters /\ c < Root + (m + 1)
        BY <3>2
      <4> HIDE DEF up
      <4>2. up \in Clusters
        BY <1>1, <4>1, MarksAreNotClusters DEF Clusters
      <4>3. up \in Below(m) /\ up \in Below(m + 1)
        BY <1>1, <4>1, <4>2
      <4>4. Q[up] = PathStep(P, d, up) /\ P[up] = PathStep(P, d, up)
        <5> HIDE DEF Below
        <5>1. Q[up] = PathStep(P, d, up)
          BY <4>3
        <5>2. \A x \in Below(m) : P[x] = PathStep(P, d, x)
          BY <2>1
        <5> QED BY <4>3, <5>1, <5>2
      <4> HIDE DEF Q
      <4> QED BY <3>2, <4>4 DEF PathStep, up
    <3> QED BY <3>1, <3>2
  <2>3. Ok(m + 1, Q)
    <3> HIDE DEF Below
    <3> QED BY <2>2
  <2> HIDE DEF Ok, Q
  <2> QED BY <2>3
<1>4. MaxCluster \in Nat
  BY MarksAreNotClusters
<1> HIDE DEF S
<1>5. MaxCluster \in S
  BY <1>2, <1>3, <1>4, SetInduction
<1>6. PICK P : Ok(MaxCluster, P)
  BY <1>5 DEF S
<1>7. Below(MaxCluster) = Clusters
  BY <1>1, <1>4
<1>8. P = [c \in Clusters |-> PathStep(P, d, c)]
  <2> HIDE DEF Below
  <2>1. P = [c \in Below(MaxCluster) |-> PathStep(P, d, c)]
    BY <1>6
  <2> QED BY <1>7, <2>1
<1> QED BY <1>8 DEF PathsIn

\* P gives the directories of A their paths, as d holds them.
ArePaths(A, d, P) ==
  /\ P[Root] = <<>>
  /\ \A k \in A \ {Root}, c \in A, i \in Slots :
       IsPlaceOf(A, d, c, i, k) => P[k] = Append(P[c], d[c][i].name)

LEMMA PathsAre ==
  ASSUME NEW A, NEW d, NEW w, IsTree(A, d, w)
  PROVE  ArePaths(A, d, PathsIn(d))
<1> DEFINE P == PathsIn(d)
<1>1. P = [c \in Clusters |-> PathStep(P, d, c)]
  BY PathsExist
<1> HIDE DEF P
<1>2. P[Root] = <<>>
  BY <1>1, MarksAreNotClusters DEF PathStep
<1>3. ASSUME NEW k \in A \ {Root}, NEW c \in A, NEW i \in Slots, IsPlaceOf(A, d, c, i, k)
      PROVE  P[k] = Append(P[c], d[c][i].name)
  <2>1. k \in Clusters /\ c \in Clusters /\ c < k /\ d[k][2].cluster = c
    BY <1>3 DEF IsTree, IsPlaceOf, DirEntry
  <2>2. c \in Root .. k - 1
    BY <2>1, MarksAreNotClusters DEF Root
  <2> DEFINE here == CHOOSE j \in OwnSlots(c) : d[c][j].kind = "dir" /\ d[c][j].cluster = k
  <2>3. here = i
    <3>1. i \in OwnSlots(c) /\ d[c][i].kind = "dir" /\ d[c][i].cluster = k
      BY <1>3 DEF IsPlaceOf, Names
    <3>2. \A j \in OwnSlots(c) : d[c][j].kind = "dir" /\ d[c][j].cluster = k => j = i
      BY <1>3, OwnSlotsAre DEF IsPlaceOf, Names
    <3> QED BY <3>1, <3>2
  <2>4. LabelIn(d, k) = d[c][here].name
    BY <2>1 DEF LabelIn
  <2> HIDE DEF here
  <2> QED BY <1>1, <2>1, <2>2, <2>3, <2>4 DEF PathStep
<1> QED BY <1>2, <1>3 DEF ArePaths, P

\* What holds of the root and of every directory whose parent it holds of, holds
\* of all.
LEMMA TreeInduction ==
  ASSUME NEW A, NEW d, NEW w, IsTree(A, d, w), NEW S, Root \in S,
         \A k \in A \ {Root}, c \in A, i \in Slots :
           IsPlaceOf(A, d, c, i, k) /\ c \in S => k \in S
  PROVE  A \subseteq S
<1> DEFINE T == {n \in Nat : \A k \in A : k < n => k \in S}
<1>1. \A k \in A : k \in Nat
  BY MarksAreNotClusters DEF IsTree
<1>2. 0 \in T
  BY <1>1
<1>3. ASSUME NEW n \in Nat, n \in T PROVE n + 1 \in T
  <2>1. ASSUME NEW k \in A, k < n + 1 PROVE k \in S
    <3>1. CASE k = Root
      BY <3>1
    <3>2. CASE k # Root
      <4>1. PICK c \in A, i \in Slots : IsPlaceOf(A, d, c, i, k)
        BY <3>2 DEF IsTree
      <4>2. c < k
        BY <4>1 DEF IsPlaceOf
      <4>3. c < n
        BY <1>1, <2>1, <4>2
      <4>4. c \in S
        BY <1>3, <4>3
      <4> QED BY <3>2, <4>1, <4>4
    <3> QED BY <3>1, <3>2
  <2> QED BY <2>1
<1> HIDE DEF T
<1>4. Nat \subseteq T
  BY <1>2, <1>3, SetInduction
<1>5. ASSUME NEW k \in A PROVE k \in S
  <2>1. k + 1 \in Nat /\ k < k + 1
    BY <1>1
  <2> QED BY <1>4, <2>1 DEF T
<1> QED BY <1>5

LEMMA AppendIs ==
  ASSUME NEW S, NEW s \in Seq(S), NEW a \in S
  PROVE  /\ Append(s, a) \in Seq(S) /\ Append(s, a) # <<>>
         /\ SubSeq(Append(s, a), 1, Len(Append(s, a)) - 1) = s
OBVIOUS

LEMMA AppendDiffers ==
  ASSUME NEW S, NEW s \in Seq(S), NEW t \in Seq(S), NEW a \in S, NEW b \in S,
         Append(s, a) = Append(t, b)
  PROVE  s = t /\ a = b
<1>1. Len(s) = Len(t)
  OBVIOUS
<1>2. \A i \in 1 .. Len(s) : s[i] = t[i]
  BY <1>1
<1>3. a = b
  BY <1>1
<1> QED BY <1>1, <1>2, <1>3

LEMMA PathsAreSeqs ==
  ASSUME NEW A, NEW d \in [Clusters -> AnyDirectory], NEW w, IsTree(A, d, w),
         NEW P, ArePaths(A, d, P)
  PROVE  \A k \in A : P[k] \in Seq(ShortName)
<1> DEFINE S == {k \in A : P[k] \in Seq(ShortName)}
<1>1. Root \in S
  <2>1. <<>> \in Seq(ShortName)
    OBVIOUS
  <2> QED BY <2>1 DEF ArePaths, IsTree
<1>2. ASSUME NEW k \in A \ {Root}, NEW c \in A, NEW i \in Slots,
             IsPlaceOf(A, d, c, i, k), c \in S
      PROVE  k \in S
  <2>1. d[c][i].name \in ShortName
    <3>1. d[c][i] \in AnyEntry /\ d[c][i].kind = "dir"
      BY <1>2 DEF IsTree, AnyDirectory, IsPlaceOf, Names
    <3>2. d[c][i] \in Entry
      BY <3>1, AnyEntryTypes
    <3> QED BY <3>1, <3>2 DEF Entry, Unused, Deleted
  <2>2. P[k] = Append(P[c], d[c][i].name)
    BY <1>2 DEF ArePaths
  <2>3. P[c] \in Seq(ShortName)
    BY <1>2
  <2>4. Append(P[c], d[c][i].name) \in Seq(ShortName)
    BY <2>1, <2>3
  <2> QED BY <2>2, <2>4
<1> HIDE DEF S
<1>3. A \subseteq S
  BY <1>1, <1>2, TreeInduction
<1> QED BY <1>3 DEF S

\* No two entries of a directory have one name, the dot entries included.
NamedOnce(A, d) == \A c \in A : NoneTwice(d[c])

LEMMA PathsDiffer ==
  ASSUME NEW A, NEW d \in [Clusters -> AnyDirectory], NEW w, IsTree(A, d, w),
         NamedOnce(A, d), NEW P, ArePaths(A, d, P)
  PROVE  \A k, l \in A : P[k] = P[l] => k = l
<1> DEFINE S == {k \in A : \A l \in A : P[k] = P[l] => k = l}
<1>1. \A k \in A : P[k] \in Seq(ShortName)
  BY PathsAreSeqs
<1>2. ASSUME NEW k \in A \ {Root}
      PROVE  \E c \in A, i \in Slots :
                /\ IsPlaceOf(A, d, c, i, k) /\ P[k] = Append(P[c], d[c][i].name)
                /\ Names(d, c, i, k) /\ Live(d[c][i]) /\ d[c][i].name \in ShortName
  <2>1. PICK c \in A, i \in Slots : IsPlaceOf(A, d, c, i, k)
    BY <1>2 DEF IsTree
  <2>2. d[c][i] \in AnyEntry /\ d[c][i].kind = "dir"
    BY <2>1 DEF IsTree, AnyDirectory, IsPlaceOf, Names
  <2>3. d[c][i] \in Entry
    BY <2>2, AnyEntryTypes
  <2>4. d[c][i].name \in ShortName
    BY <2>2, <2>3 DEF Entry, Unused, Deleted
  <2> QED BY <2>1, <2>2, <2>4 DEF ArePaths, IsPlaceOf, Live
<1>3. \A k \in A \ {Root} : P[k] # <<>>
  BY <1>1, <1>2, AppendIs
<1>4. Root \in S
  BY <1>3 DEF ArePaths, IsTree
<1>5. ASSUME NEW k \in A \ {Root}, NEW c \in A, NEW i \in Slots,
             IsPlaceOf(A, d, c, i, k), c \in S
      PROVE  k \in S
  <2> SUFFICES ASSUME NEW l \in A, P[k] = P[l] PROVE k = l
    OBVIOUS
  <2>1. l # Root
    BY <1>3 DEF ArePaths
  <2>2. PICK b \in A, j \in Slots :
          /\ IsPlaceOf(A, d, b, j, l) /\ P[l] = Append(P[b], d[b][j].name)
          /\ Names(d, b, j, l) /\ Live(d[b][j]) /\ d[b][j].name \in ShortName
    BY <1>2, <2>1
  <2>3. /\ P[k] = Append(P[c], d[c][i].name)
        /\ Names(d, c, i, k) /\ Live(d[c][i]) /\ d[c][i].name \in ShortName
    <3>1. PICK a \in A, m \in Slots :
            /\ IsPlaceOf(A, d, a, m, k) /\ P[k] = Append(P[a], d[a][m].name)
            /\ Names(d, a, m, k) /\ Live(d[a][m]) /\ d[a][m].name \in ShortName
      BY <1>2
    <3>2. a = c /\ m = i
      BY <1>5, <3>1 DEF IsPlaceOf
    <3> QED BY <3>1, <3>2
  <2>4. P[c] = P[b] /\ d[c][i].name = d[b][j].name
    <3>1. P[c] \in Seq(ShortName) /\ P[b] \in Seq(ShortName)
      BY <1>1
    <3>2. Append(P[c], d[c][i].name) = Append(P[b], d[b][j].name)
      BY <2>2, <2>3
    <3>3. d[c][i].name \in ShortName /\ d[b][j].name \in ShortName
      BY <2>2, <2>3
    <3> DEFINE s == P[c]
               t == P[b]
               x == d[c][i].name
               y == d[b][j].name
    <3> HIDE DEF s, t, x, y
    <3>4. /\ s \in Seq(ShortName) /\ t \in Seq(ShortName)
          /\ x \in ShortName /\ y \in ShortName /\ Append(s, x) = Append(t, y)
      BY <3>1, <3>2, <3>3 DEF s, t, x, y
    <3>5. s = t /\ x = y
      BY <3>4, AppendDiffers
    <3> QED BY <3>5 DEF s, t, x, y
  <2>5. c = b
    BY <1>5, <2>4
  <2>6. i = j
    BY <2>2, <2>3, <2>4, <2>5 DEF NamedOnce, NoneTwice
  <2> QED BY <2>2, <2>3, <2>5, <2>6 DEF Names
<1> HIDE DEF S
<1>6. A \subseteq S
  BY <1>4, <1>5, TreeInduction
<1> QED BY <1>6 DEF S

\* Directories keep their paths as long as they keep their places and names.
LEMMA PathsStay ==
  ASSUME NEW A, NEW d, NEW w, IsTree(A, d, w), NEW P, ArePaths(A, d, P),
         NEW B, NEW e, NEW v, IsTree(B, e, v), NEW Q, ArePaths(B, e, Q), A \subseteq B,
         \A c \in A, i \in Slots : \A k \in A :
           Names(d, c, i, k) => Names(e, c, i, k) /\ e[c][i].name = d[c][i].name
  PROVE  \A k \in A : Q[k] = P[k]
<1> DEFINE S == {k \in A : Q[k] = P[k]}
<1>1. Root \in S
  BY DEF ArePaths, IsTree
<1>2. ASSUME NEW k \in A \ {Root}, NEW c \in A, NEW i \in Slots,
             IsPlaceOf(A, d, c, i, k), c \in S
      PROVE  k \in S
  <2>1. Names(e, c, i, k) /\ e[c][i].name = d[c][i].name
    BY <1>2 DEF IsPlaceOf
  <2>2. PICK b \in B, j \in Slots : IsPlaceOf(B, e, b, j, k)
    BY <1>2 DEF IsTree
  <2>3. c = b /\ i = j
    BY <2>1, <2>2 DEF IsPlaceOf
  <2>4. Q[k] = Append(Q[c], e[c][i].name)
    BY <2>2, <2>3 DEF ArePaths
  <2>5. P[k] = Append(P[c], d[c][i].name)
    BY <1>2 DEF ArePaths
  <2> QED BY <1>2, <2>1, <2>4, <2>5
<1> HIDE DEF S
<1>3. A \subseteq S
  BY <1>1, <1>2, TreeInduction
<1> QED BY <1>3 DEF S

-----------------------------------------------------------------------------
(* What the calls do where the tree is on the disk.                        *)

\* The disk has room for every directory in use, before and after.
OnDiskNow == FilesInv /\ TreeInv /\ AllOnDisk /\ AllOnDisk'

DirOf(p) == data[StartDir(p)]
WithEntry(d, c, i, e) == [d EXCEPT ![c] = [@ EXCEPT ![i] = e]]

LEMMA PlacesOnTree ==
  ASSUME OnDiskNow, NEW p \in Path
  PROVE  /\ IsTree(Allocated, data, cwd)
         /\ StartDir(p) \in Allocated /\ cwd \in Allocated /\ Root \in Allocated
         /\ data \in [Clusters -> AnyDirectory] /\ \A c \in Allocated : c \in Clusters
         /\ \A c \in Allocated : OnDisk(c) /\ \A buf : Load(c, buf) = data[c]
         /\ p.name \in Name
<1>1. \A c \in Allocated : OnDisk(c)
  BY DEF OnDiskNow, AllOnDisk
<1>2. /\ IsTree(Allocated, data, cwd)
      /\ StartDir(p) \in Allocated /\ cwd \in Allocated /\ Root \in Allocated
      /\ data \in [Clusters -> AnyDirectory] /\ \A c \in Allocated : c \in Clusters
  BY <1>1, TreeNow DEF OnDiskNow
<1>3. \A c \in Allocated : OnDisk(c) /\ \A buf : Load(c, buf) = data[c]
  BY <1>1, OnTree DEF OnDiskNow
<1> QED BY <1>2, <1>3, PathAssumption

LEMMA CreateDoes ==
  ASSUME OnDiskNow, NEW p \in Path, Create(p), UNCHANGED fileVars
  PROVE  /\ Allocated' = Allocated /\ cwd' = cwd
         /\ \/ /\ Found(DirOf(p), p.name) \/ FreeSlots(DirOf(p)) = {}
               /\ ret' = -1 /\ data' = data
            \/ /\ ~ Found(DirOf(p), p.name) /\ FreeSlots(DirOf(p)) # {} /\ ret' = 0
               /\ data' = WithEntry(data, StartDir(p), FreeSlot(DirOf(p)),
                                    FileEntry(Format[p.name]))
<1> DEFINE start == StartDir(p)
           dir == Load(start, buffer)
           dir2 == [dir EXCEPT ![FreeSlot(dir)] = FileEntry(Format[p.name])]
<1>1. /\ fat' = fat /\ cwd' = cwd
      /\ \/ (Found(dir, p.name) \/ FreeSlots(dir) = {}) /\ ret' = -1 /\ data' = data
         \/ /\ ~ Found(dir, p.name) /\ FreeSlots(dir) # {} /\ ret' = 0
            /\ data' = Store(data, start, dir2)
  BY DEF Create, Fail
<1>2. Allocated' = Allocated
  BY <1>1, CreateIsCall, ShellCallAllocates DEF OnDiskNow
<1>3. OnDisk(start) /\ dir = DirOf(p) /\ start \in Clusters
  BY PlacesOnTree DEF DirOf
<1>4. \A b : Store(data, start, b) = [data EXCEPT ![start] = b]
  <2> HIDE DEF start
  <2> QED BY <1>3 DEF Store
<1>5. Store(data, start, dir2)
        = WithEntry(data, StartDir(p), FreeSlot(DirOf(p)), FileEntry(Format[p.name]))
  <2>1. [data EXCEPT ![start] = [DirOf(p) EXCEPT ![FreeSlot(DirOf(p))] = FileEntry(Format[p.name])]]
          = WithEntry(data, StartDir(p), FreeSlot(DirOf(p)), FileEntry(Format[p.name]))
    BY DEF WithEntry, DirOf
  <2>2. dir2 = [DirOf(p) EXCEPT ![FreeSlot(DirOf(p))] = FileEntry(Format[p.name])]
    BY <1>3
  <2> HIDE DEF dir2, dir, start
  <2> QED BY <1>4, <2>1, <2>2
<1> HIDE DEF dir2, dir, start
<1> QED BY <1>1, <1>2, <1>3, <1>5

LEMMA MkdirDoes ==
  ASSUME OnDiskNow, NEW p \in Path, Mkdir(p), UNCHANGED fileVars
  PROVE  /\ cwd' = cwd
         /\ \/ /\ \/ Found(DirOf(p), p.name) \/ FreeSlots(DirOf(p)) = {}
                  \/ FreeClusters = {}
               /\ ret' = -1 /\ data' = data /\ Allocated' = Allocated
            \/ /\ ~ Found(DirOf(p), p.name) /\ FreeSlots(DirOf(p)) # {}
               /\ FreeClusters # {} /\ ret' = 0
               /\ NewCluster \in Clusters /\ (\A c \in Allocated : c < NewCluster)
               /\ Allocated' = Allocated \cup {NewCluster}
               /\ data' = [WithEntry(data, StartDir(p), FreeSlot(DirOf(p)),
                                     DirEntry(Format[p.name], NewCluster))
                             EXCEPT ![NewCluster] = NewDirectory(NewCluster, StartDir(p))]
<1> DEFINE start == StartDir(p)
           dir == Load(start, buffer)
           new == NewCluster
           dir2 == [dir EXCEPT ![FreeSlot(dir)] = DirEntry(Format[p.name], new)]
           fresh == NewDirectory(new, start)
<1>1. /\ cwd' = cwd
      /\ \/ /\ Found(dir, p.name) \/ FreeClusters = {}
            /\ ret' = -1 /\ UNCHANGED <<fat, data>>
         \/ /\ FreeClusters # {} /\ FreeSlots(dir) = {} /\ ret' = -1
            /\ fat' = Release(Take(fat, new), new) /\ UNCHANGED data
         \/ /\ ~ Found(dir, p.name) /\ FreeClusters # {} /\ FreeSlots(dir) # {} /\ ret' = 0
            /\ fat' = Take(fat, new)
            /\ data' = Store(Store(data, start, dir2), new, fresh)
  BY DEF Mkdir, Fail
<1>2. FreeClusters # {} => new \in Clusters /\ fat[new] = Free
  BY NewClusterIsFree
<1>3. fat \in [Clusters -> Link]
  BY DiskTyped DEF FilesInv, OnDiskNow
<1>4. FreeClusters # {} /\ fat' = Release(Take(fat, new), new) => fat' = fat
  BY <1>2, <1>3 DEF Release, Take
<1>5. /\ fat' = fat => Allocated' = Allocated
      /\ FreeClusters # {} /\ fat' = Take(fat, new)
           => /\ Allocated' = Allocated \cup {new}
              /\ new \in Clusters /\ \A c \in Allocated : c < new
  BY MkdirIsCall, ShellCallAllocates DEF OnDiskNow
<1>6. OnDisk(start) /\ dir = DirOf(p) /\ start \in Clusters
  BY PlacesOnTree DEF DirOf
<1>7. dir2 = [DirOf(p) EXCEPT ![FreeSlot(DirOf(p))] = DirEntry(Format[p.name], new)]
  BY <1>6
<1>8. ASSUME FreeClusters # {}, fat' = Take(fat, new)
      PROVE  Store(Store(data, start, dir2), new, fresh)
               = [WithEntry(data, start, FreeSlot(DirOf(p)), DirEntry(Format[p.name], new))
                    EXCEPT ![new] = fresh]
  <2>1. OnDisk(new)
    BY <1>5, <1>8 DEF OnDiskNow, AllOnDisk, OnDisk
  <2>2. [data EXCEPT ![start] = [DirOf(p) EXCEPT ![FreeSlot(DirOf(p))] = DirEntry(Format[p.name], new)]]
          = WithEntry(data, start, FreeSlot(DirOf(p)), DirEntry(Format[p.name], new))
    BY DEF WithEntry, DirOf
  <2> HIDE DEF dir2, dir, start, new, fresh
  <2>3. Store(data, start, dir2)
          = WithEntry(data, start, FreeSlot(DirOf(p)), DirEntry(Format[p.name], new))
    BY <1>6, <1>7, <2>2 DEF Store
  <2> QED BY <2>1, <2>3 DEF Store
<1>9. CASE /\ ~ Found(dir, p.name) /\ FreeClusters # {} /\ FreeSlots(dir) # {} /\ ret' = 0
           /\ fat' = Take(fat, new)
           /\ data' = Store(Store(data, start, dir2), new, fresh)
  <2>1. data' = [WithEntry(data, start, FreeSlot(DirOf(p)), DirEntry(Format[p.name], new))
                   EXCEPT ![new] = fresh]
    <3> HIDE DEF dir2, dir, start, new, fresh
    <3> QED BY <1>8, <1>9
  <2>2. ~ Found(DirOf(p), p.name) /\ FreeSlots(DirOf(p)) # {}
    BY <1>6, <1>9
  <2>3. Allocated' = Allocated \cup {new} /\ new \in Clusters /\ \A c \in Allocated : c < new
    <3> HIDE DEF new
    <3> QED BY <1>5, <1>9
  <2> QED BY <1>1, <1>9, <2>1, <2>2, <2>3
<1> HIDE DEF dir2, dir, start, new, fresh
<1>10. CASE (Found(dir, p.name) \/ FreeClusters = {}) /\ ret' = -1 /\ UNCHANGED <<fat, data>>
  BY <1>1, <1>5, <1>6, <1>10
<1>11. CASE /\ FreeClusters # {} /\ FreeSlots(dir) = {} /\ ret' = -1
            /\ fat' = Release(Take(fat, new), new) /\ UNCHANGED data
  BY <1>1, <1>4, <1>5, <1>6, <1>11
<1> QED BY <1>1, <1>9, <1>10, <1>11

LEMMA DeleteDoes ==
  ASSUME OnDiskNow, NEW p \in Path, Delete(p), NamesFile(p), UNCHANGED fileVars
  PROVE  /\ Allocated' = Allocated /\ cwd' = cwd
         /\ \/ ~ Found(DirOf(p), p.name) /\ ret' = -1 /\ data' = data
            \/ /\ Found(DirOf(p), p.name) /\ Hit(DirOf(p), p.name).kind = "file" /\ ret' = 0
               /\ data' = WithEntry(data, StartDir(p), HitSlot(DirOf(p), p.name), Deleted)
<1> DEFINE start == StartDir(p)
           dir == Load(start, buffer)
           first == dir[HitSlot(dir, p.name)].cluster
           dir2 == [dir EXCEPT ![HitSlot(dir, p.name)] = Deleted]
<1>1. /\ cwd' = cwd
      /\ \/ ~ Found(dir, p.name) /\ ret' = -1 /\ UNCHANGED <<fat, data>>
         \/ /\ Found(dir, p.name) /\ ret' = 0 /\ data' = Store(data, start, dir2)
            /\ fat' = IF first = NoCluster THEN fat ELSE Release(fat, first)
  BY DEF Delete, Fail
<1>2. OnDisk(start) /\ dir = DirOf(p) /\ start \in Clusters /\ dir \in AnyDirectory
  <2>1. OnDisk(start) /\ dir = DirOf(p) /\ start \in Clusters
    BY PlacesOnTree DEF DirOf
  <2>2. dir \in AnyDirectory
    BY AnyLoadType, DiskTyped DEF FilesInv, OnDiskNow
  <2> QED BY <2>1, <2>2
<1>3. Found(dir, p.name) => Hit(dir, p.name).kind = "file"
  BY DEF NamesFile
<1>4. Found(dir, p.name) => first = NoCluster
  BY <1>2, <1>3, AnyHitType, AnyEntryTypes
<1>5. dir2 = [DirOf(p) EXCEPT ![HitSlot(DirOf(p), p.name)] = Deleted]
  BY <1>2
<1>6. [data EXCEPT ![start] = [DirOf(p) EXCEPT ![HitSlot(DirOf(p), p.name)] = Deleted]]
        = WithEntry(data, start, HitSlot(DirOf(p), p.name), Deleted)
  BY DEF WithEntry, DirOf
<1> HIDE DEF first, dir2, dir, start
<1>7. fat' = fat
  BY <1>1, <1>4
<1>8. Allocated' = Allocated
  BY <1>7, DeleteIsCall, ShellCallAllocates DEF OnDiskNow
<1>9. Store(data, start, dir2) = WithEntry(data, start, HitSlot(DirOf(p), p.name), Deleted)
  BY <1>2, <1>5, <1>6 DEF Store
<1> QED BY <1>1, <1>2, <1>3, <1>8, <1>9 DEF start

LEMMA ListDoes ==
  ASSUME OnDiskNow, NEW p \in Path, List(p), UNCHANGED fileVars
  PROVE  /\ Allocated' = Allocated /\ cwd' = cwd /\ data' = data
         /\ p.name \in {Empty, Dot, DotDot} => ret' = 0
         /\ p.name \notin {Empty, Dot, DotDot}
              => ret' = IF Found(DirOf(p), p.name) /\ Hit(DirOf(p), p.name).kind = "dir"
                          THEN 0 ELSE -1
<1>1. UNCHANGED <<fat, data, cwd>>
  BY DEF List, Fail
<1>2. Allocated' = Allocated
  BY <1>1, ListIsCall, ShellCallAllocates DEF OnDiskNow
<1>3. Load(StartDir(p), buffer) = DirOf(p)
  BY PlacesOnTree DEF DirOf
<1>4. p.name \in {Empty, Dot, DotDot} => ret' = 0
  BY DEF List, Fail
<1>5. ASSUME p.name \notin {Empty, Dot, DotDot}
      PROVE  ret' = IF Found(DirOf(p), p.name) /\ Hit(DirOf(p), p.name).kind = "dir"
                      THEN 0 ELSE -1
  <2> DEFINE dir == CASE p.name = DotDot -> Load(cwd, buffer)
                      [] p.name \in {Empty, Dot} -> buffer
                      [] OTHER -> Load(StartDir(p), buffer)
             hit == Hit(dir, p.name)
  <2>1. \/ (Found(dir, p.name) => hit.kind # "dir") /\ ret' = -1
        \/ Found(dir, p.name) /\ hit.kind = "dir" /\ ret' = 0
    BY <1>5 DEF List, Fail
  <2>2. dir = DirOf(p)
    BY <1>3, <1>5
  <2> HIDE DEF dir
  <2> QED BY <2>1, <2>2
<1> QED BY <1>1, <1>2, <1>4, <1>5

LEMMA ChdirDoes ==
  ASSUME OnDiskNow, NEW p \in Path, Chdir(p), UNCHANGED fileVars
  PROVE  /\ Allocated' = Allocated /\ data' = data
         /\ p.name = Empty => ret' = 0 /\ cwd' = Root /\ path' = <<>>
         /\ p.name = Dot => ret' = 0 /\ cwd' = cwd /\ path' = CurrentPath(p)
         /\ p.name = DotDot =>
              /\ ret' = 0
              /\ IF Found(data[cwd], DotDot)
                   THEN /\ cwd' = ParentOf(Hit(data[cwd], DotDot))
                        /\ path' = IF CurrentPath(p) = <<>> THEN <<>>
                                   ELSE SubSeq(CurrentPath(p), 1, Len(CurrentPath(p)) - 1)
                   ELSE cwd' = cwd /\ path' = CurrentPath(p)
         /\ p.name \notin {Empty, Dot, DotDot} =>
              IF Found(DirOf(p), p.name) /\ Hit(DirOf(p), p.name).kind = "dir"
                THEN /\ ret' = 0 /\ cwd' = Hit(DirOf(p), p.name).cluster
                     /\ path' = CurrentPath(p) \o Segments[p.name]
                ELSE ret' = -1 /\ cwd' = cwd /\ path' = CurrentPath(p)
<1>1. UNCHANGED <<fat, data>>
  BY DEF Chdir, ChdirRoot, ChdirDot, ChdirUp, ChdirDown
<1>2. Allocated' = Allocated
  BY <1>1, ChdirIsCall, ShellCallAllocates DEF OnDiskNow
<1>3. Load(StartDir(p), buffer) = DirOf(p) /\ Load(cwd, buffer) = data[cwd]
  BY PlacesOnTree DEF DirOf
<1>4. CASE ChdirRoot(p)
  BY <1>1, <1>2, <1>4, NameAssumption DEF ChdirRoot
<1>5. CASE ChdirDot(p)
  BY <1>1, <1>2, <1>5, NameAssumption DEF ChdirDot
<1>6. CASE ChdirUp(p)
  <2>1. p.name # Empty /\ p.name # Dot
    BY <1>6, NameAssumption DEF ChdirUp
  <2> QED BY <1>1, <1>2, <1>3, <1>6, <2>1 DEF ChdirUp
<1>7. CASE ChdirDown(p)
  BY <1>1, <1>2, <1>3, <1>7 DEF ChdirDown
<1> QED BY <1>4, <1>5, <1>6, <1>7 DEF Chdir

-----------------------------------------------------------------------------
(* The directories in use are in order, whatever files were written.       *)

\* Every directory of A has its entries in order and none that ".." would find
\* in the place of its own.
DirsOK(A, d) ==
  \A c \in A :
    /\ d[c] \in Directory /\ InOrder(d[c])
    /\ \A i \in OwnSlots(c) : Live(d[c][i]) => ~ Matches(d[c][i].name, DotDot)

OrderInv == AllOnDisk => DirsOK(Allocated, data)

\* One entry changes, in one directory.
LEMMA EntriesWith ==
  ASSUME NEW d \in [Clusters -> AnyDirectory], NEW c \in Clusters, NEW i \in Slots, NEW e
  PROVE  /\ WithEntry(d, c, i, e)[c][i] = e
         /\ \A j \in Slots : j # i => WithEntry(d, c, i, e)[c][j] = d[c][j]
         /\ \A b \in Clusters : b # c => WithEntry(d, c, i, e)[b] = d[b]
<1>1. d[c] \in AnyDirectory
  OBVIOUS
<1>2. WithEntry(d, c, i, e) = [d EXCEPT ![c] = [d[c] EXCEPT ![i] = e]]
  BY DEF WithEntry
<1> DEFINE dir2 == [d[c] EXCEPT ![i] = e]
<1>3. dir2[i] = e /\ \A j \in Slots : j # i => dir2[j] = d[c][j]
  BY <1>1 DEF AnyDirectory
<1> HIDE DEF dir2
<1>4. /\ WithEntry(d, c, i, e)[c] = dir2
      /\ \A b \in Clusters : b # c => WithEntry(d, c, i, e)[b] = d[b]
  BY <1>2 DEF dir2
<1> QED BY <1>3, <1>4

\* A new entry in the first free slot, and one deleted.
LEMMA AddKeepsOrder ==
  ASSUME NEW A, A \subseteq Clusters, NEW d \in [Clusters -> AnyDirectory], DirsOK(A, d),
         NEW c \in A, NEW n \in Name, Ordinary(n), ~ Found(d[c], n), FreeSlots(d[c]) # {},
         NEW e \in Entry, Live(e), e.name = Format[n]
  PROVE  DirsOK(A, WithEntry(d, c, FreeSlot(d[c]), e))
<1> DEFINE slot == FreeSlot(d[c])
           f == WithEntry(d, c, slot, e)
<1>1. slot \in Slots /\ c \in Clusters
  BY FreeSlotIsFirst
<1>2. /\ f[c] = [d[c] EXCEPT ![slot] = e] /\ f[c][slot] = e
      /\ \A j \in Slots : j # slot => f[c][j] = d[c][j]
      /\ \A b \in Clusters : b # c => f[b] = d[b]
  <2>1. f[c] = [d[c] EXCEPT ![slot] = e]
    BY <1>1 DEF WithEntry
  <2>2. /\ f[c][slot] = e /\ \A j \in Slots : j # slot => f[c][j] = d[c][j]
        /\ \A b \in Clusters : b # c => f[b] = d[b]
    BY <1>1, EntriesWith
  <2> HIDE DEF f, slot
  <2> QED BY <2>1, <2>2
<1>3. d[c] \in Directory /\ InOrder(d[c])
  BY DEF DirsOK
<1>4. InOrder([d[c] EXCEPT ![slot] = e])
  BY <1>3, AddInOrder
<1>5. [d[c] EXCEPT ![slot] = e] \in Directory
  BY <1>3 DEF Directory
<1> HIDE DEF f, slot
<1>6. ASSUME NEW i \in OwnSlots(c), Live(f[c][i]) PROVE ~ Matches(f[c][i].name, DotDot)
  <2>1. i \in Slots
    BY OwnSlotsAre
  <2>2. CASE i = slot
    BY <1>2, <2>2 DEF Ordinary
  <2>3. CASE i # slot
    BY <1>2, <1>6, <2>1, <2>3 DEF DirsOK
  <2> QED BY <2>2, <2>3
<1>7. ASSUME NEW b \in A, b # c PROVE f[b] = d[b]
  BY <1>2, <1>7
<1>8. DirsOK(A, f)
  BY <1>2, <1>4, <1>5, <1>6, <1>7 DEF DirsOK
<1> QED BY <1>8 DEF f, slot

LEMMA RemoveKeepsOrder ==
  ASSUME NEW A, A \subseteq Clusters, NEW d \in [Clusters -> AnyDirectory], DirsOK(A, d),
         NEW c \in A, NEW slot \in Slots
  PROVE  DirsOK(A, WithEntry(d, c, slot, Deleted))
<1> DEFINE f == WithEntry(d, c, slot, Deleted)
<1>1. c \in Clusters
  OBVIOUS
<1>2. /\ f[c] = [d[c] EXCEPT ![slot] = Deleted] /\ f[c][slot] = Deleted
      /\ \A j \in Slots : j # slot => f[c][j] = d[c][j]
      /\ \A b \in Clusters : b # c => f[b] = d[b]
  <2>1. f[c] = [d[c] EXCEPT ![slot] = Deleted]
    BY <1>1 DEF WithEntry
  <2>2. /\ f[c][slot] = Deleted /\ \A j \in Slots : j # slot => f[c][j] = d[c][j]
        /\ \A b \in Clusters : b # c => f[b] = d[b]
    BY <1>1, EntriesWith
  <2> HIDE DEF f
  <2> QED BY <2>1, <2>2
<1>3. d[c] \in Directory /\ InOrder(d[c])
  BY DEF DirsOK
<1>4. InOrder([d[c] EXCEPT ![slot] = Deleted])
  BY <1>3, RemoveInOrder
<1>5. [d[c] EXCEPT ![slot] = Deleted] \in Directory
  <2>1. Deleted \in Entry
    BY DEF Entry
  <2> QED BY <1>3, <2>1 DEF Directory
<1>6. ~ Live(Deleted)
  BY DEF Live, Deleted, Unused
<1> HIDE DEF f
<1>7. ASSUME NEW i \in OwnSlots(c), Live(f[c][i]) PROVE ~ Matches(f[c][i].name, DotDot)
  <2>1. i \in Slots /\ i # slot
    BY <1>2, <1>6, <1>7, OwnSlotsAre
  <2> QED BY <1>2, <1>7, <2>1 DEF DirsOK
<1>8. ASSUME NEW b \in A, b # c PROVE f[b] = d[b]
  BY <1>2, <1>8
<1>9. DirsOK(A, f)
  BY <1>2, <1>4, <1>5, <1>7, <1>8 DEF DirsOK
<1> QED BY <1>9 DEF f

\* A new directory has its dot entries and no other.
LEMMA NewDirectoryIs ==
  ASSUME NEW new, NEW b
  PROVE  /\ NewDirectory(new, b)[1] = DirEntry(Format[Dot], new)
         /\ NewDirectory(new, b)[2] = DirEntry(Format[DotDot], b)
         /\ \A i \in Slots \ {1, 2} : NewDirectory(new, b)[i] = Unused
BY SlotsAreNaturals DEF NewDirectory, EmptyDirectory

LEMMA NewKeepsOrder ==
  ASSUME NEW A, A \subseteq Clusters, NEW d \in [Clusters -> AnyDirectory], DirsOK(A, d),
         NEW b \in Clusters, NEW new \in Clusters, new \notin A, new # Root
  PROVE  DirsOK(A \cup {new}, [d EXCEPT ![new] = NewDirectory(new, b)])
<1> DEFINE dir == NewDirectory(new, b)
           f == [d EXCEPT ![new] = dir]
<1>1. f[new] = dir /\ \A c \in A : f[c] = d[c]
  OBVIOUS
<1>2. dir \in Directory /\ InOrder(dir)
  BY NewDirectoryType, NewInOrder
<1>3. \A i \in OwnSlots(new) : ~ Live(dir[i])
  BY NewDirectoryIs, OwnSlotsAre DEF Live, Unused
<1> HIDE DEF f, dir
<1>4. DirsOK(A \cup {new}, f)
  BY <1>1, <1>2, <1>3 DEF DirsOK
<1> QED BY <1>4 DEF f, dir

LEMMA OrderNext ==
  ASSUME OnDiskNow, OrderInv,
         [OrdinaryNext /\ shape' = Shape']_treeVars
  PROVE  DirsOK(Allocated', data')
<1>1. DirsOK(Allocated, data) /\ data \in [Clusters -> AnyDirectory] /\ Allocated \subseteq Clusters
  <2>1. Allocated \subseteq Clusters
    BY DEF Allocated
  <2> QED BY <2>1, DiskTyped DEF OrderInv, OnDiskNow, FilesInv
<1>2. ASSUME Allocated' = Allocated, \A c \in Allocated : data'[c] = data[c]
      PROVE  DirsOK(Allocated', data')
  BY <1>1, <1>2 DEF DirsOK
<1>3. CASE OrdinaryFileCall
  <2>1. FileCall
    BY <1>3 DEF OrdinaryFileCall, FileCall
  <2> QED BY <1>2, <2>1, FileCallDoes DEF OnDiskNow
<1>4. ASSUME NEW p \in Path, OrdinaryChange(p), UNCHANGED fileVars
      PROVE  DirsOK(Allocated', data')
  <2>1. /\ StartDir(p) \in Allocated /\ p.name \in Name /\ Ordinary(p.name)
        /\ StartDir(p) \in Clusters /\ Root \in Allocated
    BY <1>4, PlacesOnTree DEF OrdinaryChange
  <2>2. CASE Create(p)
    <3>1. FileEntry(Format[p.name]) \in Entry /\ Live(FileEntry(Format[p.name]))
          /\ FileEntry(Format[p.name]).name = Format[p.name]
      BY <2>1, EntryTypes DEF Live, FileEntry
    <3> HIDE DEF Create
    <3>2. CASE data' = data
      BY <1>2, <1>4, <2>2, <3>2, CreateDoes
    <3>3. CASE /\ ~ Found(DirOf(p), p.name) /\ FreeSlots(DirOf(p)) # {}
               /\ data' = WithEntry(data, StartDir(p), FreeSlot(DirOf(p)),
                                    FileEntry(Format[p.name]))
      BY <1>1, <1>4, <2>1, <2>2, <3>1, <3>3, AddKeepsOrder, CreateDoes DEF DirOf
    <3> QED BY <1>4, <2>2, <3>2, <3>3, CreateDoes
  <2>3. CASE Mkdir(p)
    <3>1. CASE data' = data /\ Allocated' = Allocated
      BY <1>2, <3>1
    <3>2. CASE /\ ~ Found(DirOf(p), p.name) /\ FreeSlots(DirOf(p)) # {}
               /\ NewCluster \in Clusters /\ (\A c \in Allocated : c < NewCluster)
               /\ Allocated' = Allocated \cup {NewCluster}
               /\ data' = [WithEntry(data, StartDir(p), FreeSlot(DirOf(p)),
                                     DirEntry(Format[p.name], NewCluster))
                             EXCEPT ![NewCluster] = NewDirectory(NewCluster, StartDir(p))]
      <4> DEFINE new == NewCluster
                 e == DirEntry(Format[p.name], new)
                 f == WithEntry(data, StartDir(p), FreeSlot(DirOf(p)), e)
      <4>1. new \notin Allocated /\ new # Root /\ new \in Clusters
        BY <1>1, <2>1, <3>2, MarksAreNotClusters
      <4>2. e \in Entry /\ Live(e) /\ e.name = Format[p.name]
        BY <2>1, <4>1, EntryTypes DEF Live, DirEntry
      <4> HIDE DEF new, e
      <4>3. DirsOK(Allocated, f)
        BY <1>1, <2>1, <3>2, <4>2, AddKeepsOrder DEF DirOf
      <4>4. f \in [Clusters -> AnyDirectory]
        <5>1. DirOf(p) \in AnyDirectory
          BY <1>1, <2>1 DEF DirOf
        <5>2. [data[StartDir(p)] EXCEPT ![FreeSlot(DirOf(p))] = e] \in AnyDirectory
          BY <4>2, <5>1, AnyWriteSlot DEF DirOf
        <5> QED BY <1>1, <5>2 DEF WithEntry
      <4> HIDE DEF f
      <4>5. DirsOK(Allocated \cup {new}, [f EXCEPT ![new] = NewDirectory(new, StartDir(p))])
        BY <1>1, <2>1, <4>1, <4>3, <4>4, NewKeepsOrder
      <4> QED BY <3>2, <4>5 DEF f, e, new
    <3> QED BY <1>4, <2>3, <3>1, <3>2, MkdirDoes
  <2>4. CASE NamesFile(p) /\ Delete(p)
    <3>1. CASE data' = data
      BY <1>2, <1>4, <2>4, <3>1, DeleteDoes
    <3>2. CASE /\ Found(DirOf(p), p.name)
               /\ data' = WithEntry(data, StartDir(p), HitSlot(DirOf(p), p.name), Deleted)
      <4>1. HitSlot(DirOf(p), p.name) \in Slots
        BY <1>1, <2>1, <3>2, AnyHitType DEF DirOf
      <4> QED BY <1>1, <1>4, <2>1, <2>4, <3>2, <4>1, RemoveKeepsOrder, DeleteDoes
    <3> QED BY <1>4, <2>4, <3>1, <3>2, DeleteDoes
  <2> QED BY <1>4, <2>2, <2>3, <2>4 DEF OrdinaryChange
<1>5. ASSUME NEW p \in Path, OrdinaryMove(p), UNCHANGED fileVars
      PROVE  DirsOK(Allocated', data')
  BY <1>2, <1>5, ListDoes, ChdirDoes DEF OrdinaryMove
<1>6. CASE UNCHANGED treeVars
  BY <1>2, <1>6, IdleDoes DEF OnDiskNow
<1> QED BY <1>3, <1>4, <1>5, <1>6 DEF OrdinaryNext

-----------------------------------------------------------------------------
(* The tree of paths, of the directories of A as d holds them.             *)

TreeOK(A, d, w, P) ==
  IsTree(A, d, w) /\ d \in [Clusters -> AnyDirectory] /\ DirsOK(A, d) /\ ArePaths(A, d, P)

\* Slot i of c holds an entry of its own, which has this path.
IsOwn(d, c, i) == i \in OwnSlots(c) /\ Live(d[c][i])
EntryPath(P, d, c, i) == Append(P[c], d[c][i].name)

LEMMA OwnEntryIs ==
  ASSUME NEW A, NEW d, DirsOK(A, d), NEW c \in A, NEW i, IsOwn(d, c, i)
  PROVE  i \in Slots /\ d[c][i].name \in ShortName /\ d[c][i].kind \in {"file", "dir"}
<1>1. i \in Slots /\ d[c][i] \in Entry /\ Live(d[c][i])
  BY OwnSlotsAre DEF DirsOK, IsOwn, Directory
<1> QED BY <1>1 DEF Entry, Unused, Deleted, Live

LEMMA DotsAre ==
  ASSUME NEW A, NEW d, NEW w, IsTree(A, d, w), NEW c \in A, c # Root
  PROVE  d[c][1] = DirEntry(Format[Dot], c)
         /\ \E b \in A, i \in Slots : IsPlaceOf(A, d, b, i, c)
                                      /\ d[c][2] = DirEntry(Format[DotDot], b)
BY DEF IsTree, IsPlaceOf

\* An ordinary name finds the entry of a directory that has it, if there is one.
LEMMA LookUp ==
  ASSUME NEW A, NEW d, NEW w, IsTree(A, d, w), DirsOK(A, d), NEW c \in A,
         NEW n \in Name, Ordinary(n)
  PROVE  /\ Found(d[c], n) <=> \E i \in Slots : IsOwn(d, c, i) /\ d[c][i].name = Format[n]
         /\ Found(d[c], n) => /\ HitSlot(d[c], n) \in Slots /\ IsOwn(d, c, HitSlot(d[c], n))
                              /\ d[c][HitSlot(d[c], n)].name = Format[n]
                              /\ Hit(d[c], n) = d[c][HitSlot(d[c], n)]
<1>1. \A s : Matches(s, n) <=> s = Format[n]
  BY DEF Ordinary, Matches
<1>2. /\ \A i \in Slots : Live(d[c][i]) => i \in Seen(d[c])
      /\ Seen(d[c]) \subseteq Slots
  BY DEF DirsOK, InOrder, NoneHidden, Seen
<1>3. Hits(d[c], n) = {i \in Slots : Live(d[c][i]) /\ d[c][i].name = Format[n]}
  BY <1>1, <1>2 DEF Hits
<1>4. ASSUME NEW i \in Slots, Live(d[c][i]), d[c][i].name = Format[n] PROVE i \in OwnSlots(c)
  <2>1. CASE c = Root
    BY <2>1, OwnSlotsAre
  <2>2. CASE c # Root
    <3>1. d[c][1].name = Format[Dot] /\ d[c][2].name = Format[DotDot]
      <4>1. PICK b : d[c][1] = DirEntry(Format[Dot], c) /\ d[c][2] = DirEntry(Format[DotDot], b)
        BY <2>2, DotsAre
      <4> QED BY <4>1 DEF DirEntry
    <3>2. Format[n] # Format[Dot] /\ Format[n] # Format[DotDot]
      BY DEF Ordinary, Matches
    <3>3. i # 1 /\ i # 2
      BY <1>4, <3>1, <3>2
    <3> QED BY <2>2, <3>3, OwnSlotsAre
  <2> QED BY <2>1, <2>2
<1>5. \A i \in Slots : IsOwn(d, c, i) /\ d[c][i].name = Format[n] <=> i \in Hits(d[c], n)
  BY <1>3, <1>4 DEF IsOwn
<1>6. Hits(d[c], n) \subseteq Slots
  BY <1>3
<1>7. Found(d[c], n) <=> \E i \in Slots : i \in Hits(d[c], n)
  BY <1>6 DEF Found
<1>8. Found(d[c], n) => HitSlot(d[c], n) \in Hits(d[c], n)
  BY HitIsHit
<1> QED BY <1>5, <1>6, <1>7, <1>8 DEF Hit

\* ".." finds the entry mkdir wrote, and nothing in the root.
LEMMA LookUp2 ==
  ASSUME NEW A, NEW d, NEW w, IsTree(A, d, w), DirsOK(A, d)
  PROVE  /\ ~ Found(d[Root], DotDot)
         /\ \A c \in A \ {Root}, b \in A, i \in Slots : IsPlaceOf(A, d, b, i, c)
              => Found(d[c], DotDot) /\ ParentOf(Hit(d[c], DotDot)) = b
<1>1. ASSUME NEW c \in A
      PROVE  Hits(d[c], DotDot) = {i \in Slots : Live(d[c][i]) /\ Matches(d[c][i].name, DotDot)}
  <2>1. /\ \A i \in Slots : Live(d[c][i]) => i \in Seen(d[c])
        /\ Seen(d[c]) \subseteq Slots
    BY DEF DirsOK, InOrder, NoneHidden, Seen
  <2> QED BY <2>1 DEF Hits
<1>2. ~ Found(d[Root], DotDot)
  <2>1. Root \in A /\ OwnSlots(Root) = Slots
    BY OwnSlotsAre DEF IsTree
  <2>2. \A i \in Slots : Live(d[Root][i]) => ~ Matches(d[Root][i].name, DotDot)
    BY <2>1 DEF DirsOK
  <2> QED BY <1>1, <2>1, <2>2 DEF Found
<1>3. ASSUME NEW c \in A \ {Root}, NEW b \in A, NEW i \in Slots, IsPlaceOf(A, d, b, i, c)
      PROVE  Found(d[c], DotDot) /\ ParentOf(Hit(d[c], DotDot)) = b
  <2>1. d[c][1] = DirEntry(Format[Dot], c) /\ d[c][2] = DirEntry(Format[DotDot], b)
    BY <1>3 DEF IsPlaceOf
  <2>2. /\ d[c][2].kind = "dir" /\ d[c][2].name = Format[DotDot] /\ d[c][2].cluster = b
        /\ d[c][1].name = Format[Dot]
    BY <2>1 DEF DirEntry
  <2>3. 2 \in Slots /\ Live(d[c][2]) /\ Matches(d[c][2].name, DotDot)
    BY <2>2, SlotsAreNaturals DEF Live, Matches
  <2>4. ~ Matches(Format[Dot], DotDot)
    BY NameAssumption DEF Matches
  <2>5. ASSUME NEW j \in Slots, Live(d[c][j]), Matches(d[c][j].name, DotDot) PROVE j = 2
    <3>1. j \notin OwnSlots(c)
      BY <2>5 DEF DirsOK
    <3>2. j # 1
      BY <2>2, <2>4, <2>5
    <3> QED BY <3>1, <3>2, OwnSlotsAre
  <2>6. Hits(d[c], DotDot) = {2}
    BY <1>1, <2>3, <2>5
  <2>7. Found(d[c], DotDot) /\ HitSlot(d[c], DotDot) = 2
    BY <2>6, HitIsHit DEF Found
  <2>8. b # NoCluster
    BY MarksAreNotClusters DEF IsTree
  <2> QED BY <2>2, <2>7, <2>8 DEF Hit, ParentOf
<1> QED BY <1>2, <1>3

-----------------------------------------------------------------------------
(* What a function from paths to kinds says of them.                       *)

Describes(t, A, d, P) ==
  /\ t = [x \in DOMAIN t |-> t[x]]
  /\ <<>> \in DOMAIN t /\ t[<<>>] = "dir"
  /\ \A c \in A, i \in Slots : IsOwn(d, c, i) =>
       EntryPath(P, d, c, i) \in DOMAIN t /\ t[EntryPath(P, d, c, i)] = d[c][i].kind
  /\ \A x \in DOMAIN t :
       x = <<>> \/ \E c \in A, i \in Slots : IsOwn(d, c, i) /\ x = EntryPath(P, d, c, i)

\* The paths of entries are the names below their directories' paths.
LEMMA EntryPathsAre ==
  ASSUME NEW A, NEW d, NEW w, NEW P, TreeOK(A, d, w, P), NEW c \in A, NEW s \in ShortName
  PROVE  /\ P[c] \in Seq(ShortName)
         /\ Append(P[c], s) # <<>> /\ Tree!Parent(Append(P[c], s)) = P[c]
         /\ \A b \in A : \A r \in ShortName : Append(P[c], s) = Append(P[b], r) => b = c /\ r = s
<1>1. \A k \in A : P[k] \in Seq(ShortName)
  BY PathsAreSeqs DEF TreeOK
<1>2. \A k, l \in A : P[k] = P[l] => k = l
  <2>1. NamedOnce(A, d)
    BY DEF NamedOnce, TreeOK, DirsOK, InOrder
  <2> QED BY <2>1, PathsDiffer DEF TreeOK
<1> DEFINE p == P[c]
<1>3. p \in Seq(ShortName)
  BY <1>1
<1> HIDE DEF p
<1>4. Append(p, s) # <<>> /\ Tree!Parent(Append(p, s)) = p
  BY <1>3, AppendIs DEF Tree!Parent
<1>5. ASSUME NEW b \in A, NEW r \in ShortName, Append(p, s) = Append(P[b], r)
      PROVE  b = c /\ r = s
  <2> DEFINE q == P[b]
  <2>1. q \in Seq(ShortName)
    BY <1>1
  <2> HIDE DEF q
  <2>2. Append(p, s) = Append(q, r)
    BY <1>5 DEF q
  <2>3. p = q /\ s = r
    BY <1>3, <2>1, <2>2, AppendDiffers
  <2> QED BY <1>2, <2>3 DEF p, q
<1> QED BY <1>3, <1>4, <1>5 DEF p

LEMMA OwnPathsAre ==
  ASSUME NEW A, NEW d, NEW w, NEW P, TreeOK(A, d, w, P),
         NEW c \in A, NEW i \in Slots, IsOwn(d, c, i)
  PROVE  /\ EntryPath(P, d, c, i) # <<>> /\ Tree!Parent(EntryPath(P, d, c, i)) = P[c]
         /\ \A b \in A : \A r \in ShortName :
              EntryPath(P, d, c, i) = Append(P[b], r) => b = c /\ r = d[c][i].name
         /\ \A b \in A, j \in Slots :
              IsOwn(d, b, j) /\ EntryPath(P, d, c, i) = EntryPath(P, d, b, j) => b = c /\ j = i
<1>1. d[c][i].name \in ShortName
  BY OwnEntryIs DEF TreeOK
<1> DEFINE s == d[c][i].name
<1>2. s \in ShortName /\ EntryPath(P, d, c, i) = Append(P[c], s)
  BY <1>1 DEF EntryPath
<1> HIDE DEF s
<1>3. /\ Append(P[c], s) # <<>> /\ Tree!Parent(Append(P[c], s)) = P[c]
      /\ \A b \in A : \A r \in ShortName : Append(P[c], s) = Append(P[b], r) => b = c /\ r = s
  BY <1>2, EntryPathsAre
<1>4. ASSUME NEW b \in A, NEW j \in Slots, IsOwn(d, b, j),
             EntryPath(P, d, c, i) = EntryPath(P, d, b, j)
      PROVE  b = c /\ j = i
  <2>1. d[b][j].name \in ShortName
    BY <1>4, OwnEntryIs DEF TreeOK
  <2> DEFINE r == d[b][j].name
  <2>2. r \in ShortName /\ Append(P[c], s) = Append(P[b], r)
    BY <1>2, <1>4, <2>1 DEF EntryPath
  <2> HIDE DEF r
  <2>3. b = c /\ r = s
    BY <1>3, <2>2
  <2>4. NoneTwice(d[c])
    BY DEF TreeOK, DirsOK, InOrder
  <2> QED BY <1>4, <2>3, <2>4 DEF NoneTwice, IsOwn, r, s
<1> QED BY <1>2, <1>3, <1>4 DEF s

LEMMA DescribedOnce ==
  ASSUME NEW A, NEW d, NEW P, NEW t, Describes(t, A, d, P), NEW u, Describes(u, A, d, P)
  PROVE  t = u
<1>1. DOMAIN t = DOMAIN u
  BY DEF Describes
<1>2. \A x \in DOMAIN t : t[x] = u[x]
  BY DEF Describes
<1>3. t = [x \in DOMAIN t |-> t[x]] /\ u = [x \in DOMAIN u |-> u[x]]
  BY DEF Describes
<1> QED BY <1>1, <1>2, <1>3

\* TreeOnDisk, of any directories.
EntriesOf(A, d) == {o \in A \X Slots : o[2] \in OwnSlots(o[1]) /\ Live(d[o[1]][o[2]])}
TreeOf(A, d, P) ==
  LET all == {<< <<>>, "dir" >>}
               \cup {<<Append(P[o[1]], d[o[1]][o[2]].name), d[o[1]][o[2]].kind>> :
                       o \in EntriesOf(A, d)}
  IN  [x \in {l[1] : l \in all} |-> (CHOOSE l \in all : l[1] = x)[2]]

LEMMA TreeNowIs == TreeOnDisk = TreeOf(Allocated, data, PathTo)
BY DEF TreeOnDisk, TreeOf, PathKinds, PathOf, OwnEntries, EntriesOf

LEMMA TreeNextIs == TreeOnDisk' = TreeOf(Allocated', data', PathTo')
BY DEF TreeOnDisk, TreeOf, PathKinds, PathOf, OwnEntries, EntriesOf, OwnSlots

LEMMA TreeDescribed ==
  ASSUME NEW A, NEW d, NEW w, NEW P, TreeOK(A, d, w, P)
  PROVE  Describes(TreeOf(A, d, P), A, d, P)
<1> DEFINE rest == {<<Append(P[o[1]], d[o[1]][o[2]].name), d[o[1]][o[2]].kind>> :
                      o \in EntriesOf(A, d)}
           all == {<< <<>>, "dir" >>} \cup rest
           t == TreeOf(A, d, P)
<1>1. t = [x \in {l[1] : l \in all} |-> (CHOOSE l \in all : l[1] = x)[2]]
  BY DEF TreeOf
<1>2. ASSUME NEW c \in A, NEW i \in Slots, IsOwn(d, c, i)
      PROVE  <<EntryPath(P, d, c, i), d[c][i].kind>> \in rest
  <2>1. <<c, i>> \in EntriesOf(A, d)
    BY <1>2 DEF EntriesOf, IsOwn
  <2>2. <<Append(P[<<c, i>>[1]], d[<<c, i>>[1]][<<c, i>>[2]].name),
          d[<<c, i>>[1]][<<c, i>>[2]].kind>> \in rest
    BY <2>1
  <2> QED BY <2>2 DEF EntryPath
<1>3. ASSUME NEW l \in rest
      PROVE  \E c \in A, i \in Slots :
               IsOwn(d, c, i) /\ l = <<EntryPath(P, d, c, i), d[c][i].kind>>
  <2>1. PICK o \in EntriesOf(A, d) :
          l = <<Append(P[o[1]], d[o[1]][o[2]].name), d[o[1]][o[2]].kind>>
    BY <1>3
  <2>2. o[1] \in A /\ o[2] \in Slots /\ IsOwn(d, o[1], o[2])
    BY DEF EntriesOf, IsOwn
  <2> QED BY <2>1, <2>2 DEF EntryPath
<1> HIDE DEF rest
<1>4. \A l \in all : l = <<l[1], l[2]>>
  BY <1>3
<1>5. \A l, m \in all : l[1] = m[1] => l = m
  <2>1. ASSUME NEW l \in rest PROVE l[1] # <<>>
    BY <1>3, OwnPathsAre
  <2>2. ASSUME NEW l \in rest, NEW m \in rest, l[1] = m[1] PROVE l = m
    <3>1. PICK c \in A, i \in Slots :
            IsOwn(d, c, i) /\ l = <<EntryPath(P, d, c, i), d[c][i].kind>>
      BY <1>3
    <3>2. PICK b \in A, j \in Slots :
            IsOwn(d, b, j) /\ m = <<EntryPath(P, d, b, j), d[b][j].kind>>
      BY <1>3
    <3>3. EntryPath(P, d, c, i) = EntryPath(P, d, b, j)
      BY <2>2, <3>1, <3>2
    <3>4. b = c /\ j = i
      BY <3>1, <3>2, <3>3, OwnPathsAre
    <3> QED BY <3>1, <3>2, <3>4
  <2> QED BY <2>1, <2>2
<1> HIDE DEF all, t
<1>6. ASSUME NEW l \in all PROVE l[1] \in DOMAIN t /\ t[l[1]] = l[2]
  <2>1. l[1] \in {m[1] : m \in all}
    OBVIOUS
  <2>2. (CHOOSE m \in all : m[1] = l[1]) = l
    BY <1>5
  <2> QED BY <1>1, <2>1, <2>2
<1>7. \A x \in DOMAIN t : \E l \in all : x = l[1]
  BY <1>1
<1>8. t = [x \in DOMAIN t |-> t[x]]
  BY <1>1
<1>9. <<>> \in DOMAIN t /\ t[<<>>] = "dir"
  <2>1. << <<>>, "dir" >> \in all
    BY DEF all
  <2> QED BY <1>6, <2>1
<1>10. ASSUME NEW c \in A, NEW i \in Slots, IsOwn(d, c, i)
       PROVE  EntryPath(P, d, c, i) \in DOMAIN t /\ t[EntryPath(P, d, c, i)] = d[c][i].kind
  <2>1. <<EntryPath(P, d, c, i), d[c][i].kind>> \in all
    BY <1>2, <1>10 DEF all
  <2> QED BY <1>6, <2>1
<1>11. ASSUME NEW x \in DOMAIN t
       PROVE  x = <<>> \/ \E c \in A, i \in Slots : IsOwn(d, c, i) /\ x = EntryPath(P, d, c, i)
  <2>1. PICK l \in all : x = l[1]
    BY <1>7
  <2>2. CASE l \in rest
    BY <1>3, <2>1, <2>2
  <2>3. CASE l \notin rest
    BY <2>1, <2>3 DEF all
  <2> QED BY <2>2, <2>3
<1> QED BY <1>8, <1>9, <1>10, <1>11 DEF Describes, t

-----------------------------------------------------------------------------
(* What DirTree asks of the tree.                                          *)

\* DirTree has its own instance of the library's operator.
LEMMA SameCardinality == ASSUME NEW S PROVE Tree!Cardinality(S) = Cardinality(S)
BY DEF Tree!Cardinality, Cardinality

LEMMA OneToOne ==
  ASSUME NEW S, NEW T, NEW f \in [S -> T], \A x, y \in S : f[x] = f[y] => x = y,
         \A y \in T : \E x \in S : f[x] = y
  PROVE  ExistsBijection(S, T)
BY DEF ExistsBijection, Bijection, Injection, Surjection, IsInjective

\* A name below a directory's path is that of its entry, if it has one.
LEMMA ChildIs ==
  ASSUME NEW A, NEW d, NEW w, NEW P, TreeOK(A, d, w, P), NEW t, Describes(t, A, d, P),
         NEW c \in A, NEW s \in ShortName
  PROVE  /\ Tree!Child(P[c], s) \in DOMAIN t
              <=> \E i \in Slots : IsOwn(d, c, i) /\ d[c][i].name = s
         /\ \A i \in Slots : IsOwn(d, c, i) /\ d[c][i].name = s
              => t[Tree!Child(P[c], s)] = d[c][i].kind
<1>1. ASSUME NEW i \in Slots, IsOwn(d, c, i), d[c][i].name = s
      PROVE  Append(P[c], s) \in DOMAIN t /\ t[Append(P[c], s)] = d[c][i].kind
  BY <1>1 DEF Describes, EntryPath
<1>2. ASSUME Append(P[c], s) \in DOMAIN t
      PROVE  \E i \in Slots : IsOwn(d, c, i) /\ d[c][i].name = s
  <2>1. Append(P[c], s) # <<>>
    BY EntryPathsAre
  <2>2. PICK b \in A, i \in Slots : IsOwn(d, b, i) /\ Append(P[c], s) = EntryPath(P, d, b, i)
    BY <1>2, <2>1 DEF Describes
  <2>3. c = b /\ s = d[b][i].name
    BY <2>2, OwnPathsAre
  <2> QED BY <2>2, <2>3
<1> QED BY <1>1, <1>2 DEF Tree!Child

LEMMA SlotsAreFinite ==
  /\ IsFiniteSet(Slots) /\ Cardinality(Slots) = EntriesPerCluster
  /\ IsFiniteSet(Slots \ {1, 2}) /\ Cardinality(Slots \ {1, 2}) = EntriesPerCluster - 2
<1>1. EntriesPerCluster \in Nat /\ EntriesPerCluster > 2
  BY EntriesAssumption
<1>2. IsFiniteSet(Slots) /\ Cardinality(Slots) = EntriesPerCluster
  BY <1>1, FS_Interval DEF Slots
<1>3. IsFiniteSet(Slots \ {1}) /\ Cardinality(Slots \ {1}) = EntriesPerCluster - 1
  BY <1>2, FS_RemoveElement, SlotsAreNaturals
<1>4. /\ IsFiniteSet((Slots \ {1}) \ {2})
      /\ Cardinality((Slots \ {1}) \ {2}) = EntriesPerCluster - 1 - 1
  BY <1>3, FS_RemoveElement, SlotsAreNaturals
<1>5. (Slots \ {1}) \ {2} = Slots \ {1, 2}
  OBVIOUS
<1> QED BY <1>1, <1>2, <1>4, <1>5

\* A directory has room for an entry exactly when it has a free slot.
LEMMA RoomIs ==
  ASSUME NEW A, NEW d, NEW w, NEW P, TreeOK(A, d, w, P), NEW t, Describes(t, A, d, P),
         NEW c \in A
  PROVE  Tree!HasRoom(t, P[c]) <=> FreeSlots(d[c]) # {}
<1> DEFINE own == {i \in Slots : IsOwn(d, c, i)}
           children == Tree!Children(t, P[c])
           f == [i \in own |-> EntryPath(P, d, c, i)]
<1>1. children = {x \in DOMAIN t : x # <<>> /\ Tree!Parent(x) = P[c]}
  BY DEF Tree!Children, Tree!Top
<1>2. \A i \in own : EntryPath(P, d, c, i) \in children
  BY <1>1, OwnPathsAre DEF Describes
<1>3. ASSUME NEW x \in children PROVE \E i \in own : x = EntryPath(P, d, c, i)
  <2>1. x \in DOMAIN t /\ x # <<>> /\ Tree!Parent(x) = P[c]
    BY <1>1
  <2>2. PICK b \in A, i \in Slots : IsOwn(d, b, i) /\ x = EntryPath(P, d, b, i)
    BY <2>1 DEF Describes
  <2>3. P[b] = P[c]
    BY <2>1, <2>2, OwnPathsAre
  <2>4. b = c
    <3>1. NamedOnce(A, d)
      BY DEF NamedOnce, TreeOK, DirsOK, InOrder
    <3> QED BY <2>3, <3>1, PathsDiffer DEF TreeOK
  <2> QED BY <2>2, <2>4
<1>4. \A i, j \in own : EntryPath(P, d, c, i) = EntryPath(P, d, c, j) => i = j
  BY OwnPathsAre
<1>5. ExistsBijection(own, children)
  <2>1. f \in [own -> children]
    BY <1>2
  <2>2. \A i, j \in own : f[i] = f[j] => i = j
    BY <1>4
  <2>3. \A x \in children : \E i \in own : f[i] = x
    BY <1>3
  <2> HIDE DEF f, own, children
  <2> QED BY <2>1, <2>2, <2>3, OneToOne
<1>6. own \subseteq OwnSlots(c)
  BY DEF IsOwn
<1>7. /\ IsFiniteSet(OwnSlots(c))
      /\ Cardinality(OwnSlots(c)) = IF c = Root THEN EntriesPerCluster ELSE EntriesPerCluster - 2
  BY OwnSlotsAre, SlotsAreFinite
<1>8. P[c] = <<>> <=> c = Root
  <2>1. P[Root] = <<>> /\ Root \in A
    BY DEF TreeOK, ArePaths, IsTree
  <2>2. NamedOnce(A, d)
    BY DEF NamedOnce, TreeOK, DirsOK, InOrder
  <2> QED BY <2>1, <2>2, PathsDiffer DEF TreeOK
<1>9. own = OwnSlots(c) <=> FreeSlots(d[c]) = {}
  <2>1. own = OwnSlots(c) <=> \A i \in OwnSlots(c) : Live(d[c][i])
    BY OwnSlotsAre DEF IsOwn
  <2>2. FreeSlots(d[c]) = {} <=> \A i \in Slots : Live(d[c][i])
    BY DEF FreeSlots
  <2>3. CASE c = Root
    BY <2>1, <2>2, <2>3, OwnSlotsAre
  <2>4. CASE c # Root
    <3>1. PICK b : d[c][1] = DirEntry(Format[Dot], c) /\ d[c][2] = DirEntry(Format[DotDot], b)
      BY <2>4, DotsAre DEF TreeOK
    <3>2. Live(d[c][1]) /\ Live(d[c][2])
      BY <3>1 DEF Live, DirEntry
    <3> QED BY <2>1, <2>2, <2>4, <3>2, OwnSlotsAre
  <2> QED BY <2>3, <2>4
<1>10. IsFiniteSet(own) /\ Cardinality(own) <= Cardinality(OwnSlots(c))
       /\ (Cardinality(own) = Cardinality(OwnSlots(c)) => own = OwnSlots(c))
       /\ Cardinality(own) \in Nat
  <2> HIDE DEF own
  <2> QED BY <1>6, <1>7, FS_Subset, FS_CardinalityType
<1>11. Cardinality(children) = Cardinality(own)
  <2> HIDE DEF own, children
  <2> QED BY <1>5, <1>10, FS_Bijection
<1>12. Tree!HasRoom(t, P[c])
         <=> Cardinality(children) < (IF P[c] = <<>> THEN EntriesPerCluster ELSE EntriesPerCluster - 2)
  BY SameCardinality DEF Tree!HasRoom, Tree!Top
<1> HIDE DEF own, children
<1>13. Tree!HasRoom(t, P[c]) <=> Cardinality(own) < Cardinality(OwnSlots(c))
  BY <1>7, <1>8, <1>11, <1>12
<1>14. Cardinality(OwnSlots(c)) \in Nat
  BY <1>7, FS_CardinalityType
<1> QED BY <1>9, <1>10, <1>13, <1>14

LEMMA ClustersAreFinite ==
  IsFiniteSet(Clusters) /\ Cardinality(Clusters) = MaxCluster - Root
<1>1. MaxCluster \in Nat /\ Root = 2 /\ Root < MaxCluster
  BY MarksAreNotClusters, GeometryAssumption DEF Root
<1>2. Root \in Int /\ MaxCluster - 1 \in Int /\ ~ (Root > MaxCluster - 1)
  BY <1>1
<1> QED BY <1>1, <1>2, FS_Interval DEF Clusters

\* The directories of the tree are those in use.
LEMMA DirsAre ==
  ASSUME NEW A, NEW d, NEW w, NEW P, TreeOK(A, d, w, P), NEW t, Describes(t, A, d, P)
  PROVE  /\ \A c \in A : P[c] \in DOMAIN t /\ t[P[c]] = "dir"
         /\ Tree!Cardinality(Tree!Dirs(t)) = Cardinality(A)
<1>1. ASSUME NEW c \in A PROVE P[c] \in DOMAIN t /\ t[P[c]] = "dir"
  <2>1. CASE c = Root
    BY <2>1 DEF TreeOK, ArePaths, Describes
  <2>2. CASE c # Root
    <3>1. PICK b \in A, i \in Slots : IsPlaceOf(A, d, b, i, c)
      BY <2>2 DEF TreeOK, IsTree
    <3>2. IsOwn(d, b, i) /\ d[b][i].kind = "dir"
      BY <3>1 DEF IsOwn, IsPlaceOf, Names, Live
    <3>3. P[c] = EntryPath(P, d, b, i)
      BY <2>2, <3>1 DEF TreeOK, ArePaths, EntryPath
    <3> QED BY <3>2, <3>3 DEF Describes
  <2> QED BY <2>1, <2>2
<1>2. ASSUME NEW x \in DOMAIN t, t[x] = "dir" PROVE \E c \in A : x = P[c]
  <2>1. CASE x = <<>>
    BY <2>1 DEF TreeOK, ArePaths, IsTree
  <2>2. CASE x # <<>>
    <3>1. PICK b \in A, i \in Slots : IsOwn(d, b, i) /\ x = EntryPath(P, d, b, i)
      BY <2>2 DEF Describes
    <3>2. d[b][i].kind = "dir"
      BY <1>2, <3>1 DEF Describes
    <3> DEFINE k == d[b][i].cluster
    <3>3. k \in A /\ Names(d, b, i, k)
      BY <3>1, <3>2 DEF Names, IsOwn, TreeOK, IsTree
    <3> HIDE DEF k
    <3>4. k # Root
      BY <3>3 DEF TreeOK, IsTree
    <3>5. PICK a \in A, j \in Slots : IsPlaceOf(A, d, a, j, k)
      BY <3>3, <3>4 DEF TreeOK, IsTree
    <3>6. a = b /\ j = i
      BY <3>3, <3>5 DEF IsPlaceOf
    <3>7. P[k] = EntryPath(P, d, b, i)
      BY <3>3, <3>4, <3>5, <3>6 DEF TreeOK, ArePaths, EntryPath
    <3> QED BY <3>1, <3>3, <3>7
  <2> QED BY <2>1, <2>2
<1>3. \A k, l \in A : P[k] = P[l] => k = l
  <2>1. NamedOnce(A, d)
    BY DEF NamedOnce, TreeOK, DirsOK, InOrder
  <2> QED BY <2>1, PathsDiffer DEF TreeOK
<1>4. IsFiniteSet(A)
  BY ClustersAreFinite, FS_Subset DEF TreeOK, IsTree
<1> DEFINE f == [c \in A |-> P[c]]
           dirs == Tree!Dirs(t)
<1>5. dirs = {x \in DOMAIN t : t[x] = "dir"}
  BY DEF Tree!Dirs
<1> HIDE DEF dirs
<1>6. f \in [A -> dirs] /\ (\A k, l \in A : f[k] = f[l] => k = l)
      /\ \A x \in dirs : \E c \in A : f[c] = x
  BY <1>1, <1>2, <1>3, <1>5
<1>7. ExistsBijection(A, dirs)
  <2> HIDE DEF f
  <2> QED BY <1>6, OneToOne
<1> QED BY <1>1, <1>4, <1>7, FS_Bijection, SameCardinality DEF dirs

\* No cluster is free exactly when directories and files have all of them.
LEMMA ClustersAdd ==
  ASSUME FilesInv
  PROVE  /\ Cardinality(Allocated) \in Nat /\ Cardinality(FileClusters) \in Nat
         /\ Cardinality(Allocated) + Cardinality(FileClusters) <= MaxCluster - Root
         /\ FreeClusters = {}
              <=> Cardinality(Allocated) + Cardinality(FileClusters) >= MaxCluster - Root
<1> DEFINE inUse == Allocated \cup FileClusters
<1>1. /\ FileClusters = {c \in Clusters : InChain(Disk, c)}
      /\ Allocated = {c \in Clusters : fat[c] # Free /\ ~ InChain(Disk, c)}
  BY FileClustersAre, AllocatedAre DEF FilesInv
<1>2. \A c \in Clusters : InChain(Disk, c) => fat[c] # Free
  BY DiskFields, MarksAreNotClusters DEF FilesInv, ChainOK, LinksAscend, InChain
<1>3. /\ Allocated \cap FileClusters = {} /\ inUse \subseteq Clusters
      /\ FreeClusters = {} <=> inUse = Clusters
  BY <1>1, <1>2 DEF FreeClusters
<1>4. IsFiniteSet(Clusters) /\ Cardinality(Clusters) = MaxCluster - Root
  BY ClustersAreFinite
<1>5. Allocated \subseteq Clusters /\ FileClusters \subseteq Clusters
  BY <1>1
<1>6. IsFiniteSet(Allocated) /\ IsFiniteSet(FileClusters) /\ IsFiniteSet(inUse)
  BY <1>3, <1>4, <1>5, FS_Subset
<1>7. /\ Cardinality(Allocated) \in Nat /\ Cardinality(FileClusters) \in Nat
      /\ Cardinality(inUse) \in Nat
  BY <1>6, FS_CardinalityType
<1>8. Cardinality(inUse) = Cardinality(Allocated) + Cardinality(FileClusters)
  <2>1. Cardinality(Allocated \cap FileClusters) = 0
    BY <1>3, FS_EmptySet
  <2>2. Cardinality(inUse) = Cardinality(Allocated) + Cardinality(FileClusters)
                               - Cardinality(Allocated \cap FileClusters)
    BY <1>6, FS_Union
  <2> QED BY <1>7, <2>1, <2>2
<1>9. /\ Cardinality(inUse) <= MaxCluster - Root
      /\ Cardinality(inUse) = MaxCluster - Root => inUse = Clusters
  BY <1>3, <1>4, FS_Subset
<1>10. MaxCluster \in Nat /\ Root = 2
  BY MarksAreNotClusters DEF Root
<1> HIDE DEF inUse
<1>11. FreeClusters = {} <=> Cardinality(inUse) >= MaxCluster - Root
  BY <1>3, <1>4, <1>7, <1>9, <1>10
<1> QED BY <1>7, <1>8, <1>9, <1>11

-----------------------------------------------------------------------------
(* What the tree becomes.                                                  *)

\* One more entry, in slot i of c.
LEMMA AddDescribed ==
  ASSUME NEW A, NEW d, NEW w, NEW P, TreeOK(A, d, w, P), NEW t, Describes(t, A, d, P),
         NEW B, NEW e, NEW v, NEW Q, TreeOK(B, e, v, Q), A \subseteq B,
         \A k \in A : Q[k] = P[k],
         NEW c \in A, NEW i \in Slots, IsOwn(e, c, i),
         \A b \in B, j \in Slots : (b = c /\ j = i) \/ (IsOwn(e, b, j) <=> b \in A /\ IsOwn(d, b, j)),
         ~ IsOwn(d, c, i),
         \A b \in A, j \in Slots : IsOwn(d, b, j) =>
           e[b][j].name = d[b][j].name /\ e[b][j].kind = d[b][j].kind
  PROVE  Describes(Tree!With(t, Tree!Child(P[c], e[c][i].name), e[c][i].kind), B, e, Q)
<1> DEFINE x == Append(P[c], e[c][i].name)
           kind == e[c][i].kind
           u == [y \in DOMAIN t \cup {x} |-> IF y = x THEN kind ELSE t[y]]
<1>1. x = EntryPath(Q, e, c, i) /\ x # <<>>
  BY OwnPathsAre DEF EntryPath
<1>2. \A b \in A, j \in Slots : IsOwn(d, b, j) => EntryPath(Q, e, b, j) = EntryPath(P, d, b, j)
  BY DEF EntryPath
<1> HIDE DEF x, kind
<1>3. DOMAIN u = DOMAIN t \cup {x} /\ \A y \in DOMAIN u : u[y] = IF y = x THEN kind ELSE t[y]
  OBVIOUS
<1>4. u = [y \in DOMAIN u |-> u[y]]
  OBVIOUS
<1>5. u = Tree!With(t, Tree!Child(P[c], e[c][i].name), e[c][i].kind)
  BY DEF Tree!With, Tree!Child, x, kind
<1> HIDE DEF u
<1>6. <<>> \in DOMAIN u /\ u[<<>>] = "dir"
  BY <1>1, <1>3 DEF Describes
<1>7. ASSUME NEW b \in B, NEW j \in Slots, IsOwn(e, b, j)
      PROVE  EntryPath(Q, e, b, j) \in DOMAIN u /\ u[EntryPath(Q, e, b, j)] = e[b][j].kind
  <2>1. CASE b = c /\ j = i
    BY <1>1, <1>3, <2>1 DEF kind
  <2>2. CASE ~ (b = c /\ j = i)
    <3>1. b \in A /\ IsOwn(d, b, j)
      BY <1>7, <2>2
    <3>2. EntryPath(Q, e, b, j) \in DOMAIN t /\ t[EntryPath(Q, e, b, j)] = e[b][j].kind
      BY <1>2, <3>1 DEF Describes
    <3>3. EntryPath(Q, e, b, j) # x
      BY <1>1, <1>7, <2>2, OwnPathsAre
    <3> QED BY <1>3, <3>2, <3>3
  <2> QED BY <2>1, <2>2
<1>8. ASSUME NEW y \in DOMAIN u
      PROVE  y = <<>> \/ \E b \in B, j \in Slots : IsOwn(e, b, j) /\ y = EntryPath(Q, e, b, j)
  <2>1. CASE y = x
    BY <1>1, <2>1
  <2>2. CASE y # x /\ y # <<>>
    <3>1. PICK b \in A, j \in Slots : IsOwn(d, b, j) /\ y = EntryPath(P, d, b, j)
      BY <1>3, <1>8, <2>2 DEF Describes
    <3>2. IsOwn(e, b, j) /\ b \in B
      BY <3>1
    <3> QED BY <1>2, <3>1, <3>2
  <2> QED BY <2>1, <2>2
<1>9. Describes(u, B, e, Q)
  BY <1>4, <1>6, <1>7, <1>8 DEF Describes
<1> QED BY <1>5, <1>9

\* The entry of slot i of c less.
Without(u, t, x) == u = [y \in DOMAIN t \ {x} |-> t[y]]

LEMMA RemoveDescribed ==
  ASSUME NEW A, NEW d, NEW w, NEW P, TreeOK(A, d, w, P), NEW t, Describes(t, A, d, P),
         NEW e, NEW Q, \A k \in A : Q[k] = P[k],
         NEW c \in A, NEW i \in Slots, IsOwn(d, c, i), ~ IsOwn(e, c, i),
         \A b \in A, j \in Slots : (b = c /\ j = i) \/ e[b][j] = d[b][j],
         NEW u, Without(u, t, Tree!Child(P[c], d[c][i].name))
  PROVE  Describes(u, A, e, Q)
<1> DEFINE x == Append(P[c], d[c][i].name)
<1>1. x = EntryPath(P, d, c, i) /\ x # <<>>
  BY OwnPathsAre DEF EntryPath
<1>2. u = [y \in DOMAIN t \ {x} |-> t[y]]
  BY DEF Tree!Child, Without
<1>3. ASSUME NEW b \in A, NEW j \in Slots, ~ (b = c /\ j = i)
      PROVE  /\ IsOwn(e, b, j) <=> IsOwn(d, b, j)
             /\ EntryPath(Q, e, b, j) = EntryPath(P, d, b, j) /\ e[b][j] = d[b][j]
  BY <1>3 DEF EntryPath, IsOwn
<1> HIDE DEF x
<1>4. DOMAIN u = DOMAIN t \ {x} /\ \A y \in DOMAIN u : u[y] = t[y]
  BY <1>2
<1>5. u = [y \in DOMAIN u |-> u[y]]
  BY <1>2
<1>6. <<>> \in DOMAIN u /\ u[<<>>] = "dir"
  BY <1>1, <1>4 DEF Describes
<1>7. ASSUME NEW b \in A, NEW j \in Slots, IsOwn(e, b, j)
      PROVE  EntryPath(Q, e, b, j) \in DOMAIN u /\ u[EntryPath(Q, e, b, j)] = e[b][j].kind
  <2>1. ~ (b = c /\ j = i)
    BY <1>7
  <2>2. IsOwn(d, b, j) /\ EntryPath(Q, e, b, j) = EntryPath(P, d, b, j) /\ e[b][j] = d[b][j]
    BY <1>3, <1>7, <2>1
  <2>3. EntryPath(P, d, b, j) # x
    BY <1>1, <2>1, <2>2, OwnPathsAre
  <2> QED BY <1>4, <2>2, <2>3 DEF Describes
<1>8. ASSUME NEW y \in DOMAIN u
      PROVE  y = <<>> \/ \E b \in A, j \in Slots : IsOwn(e, b, j) /\ y = EntryPath(Q, e, b, j)
  <2>1. CASE y # <<>>
    <3>1. PICK b \in A, j \in Slots : IsOwn(d, b, j) /\ y = EntryPath(P, d, b, j)
      BY <1>4, <1>8, <2>1 DEF Describes
    <3>2. ~ (b = c /\ j = i)
      BY <1>1, <1>4, <1>8, <3>1
    <3> QED BY <1>3, <3>1, <3>2
  <2> QED BY <2>1
<1> QED BY <1>5, <1>6, <1>7, <1>8 DEF Describes

LEMMA SameDescribed ==
  ASSUME NEW A, NEW d, NEW P, NEW t, Describes(t, A, d, P), NEW e, NEW Q,
         \A k \in A : Q[k] = P[k] /\ e[k] = d[k]
  PROVE  Describes(t, A, e, Q)
<1>1. \A c \in A, i \in Slots : /\ IsOwn(e, c, i) <=> IsOwn(d, c, i)
                                /\ EntryPath(Q, e, c, i) = EntryPath(P, d, c, i)
  BY DEF EntryPath, IsOwn
<1> QED BY <1>1 DEF Describes

-----------------------------------------------------------------------------
(* A step and its two trees.                                               *)

Related ==
  /\ OnDiskNow /\ OrderInv /\ FilesInv' /\ TreeInv' /\ OrderInv'
  /\ shape = Shape /\ shape' = Shape'

LEMMA TreesAre ==
  ASSUME Related
  PROVE  /\ TreeOK(Allocated, data, cwd, PathTo)
         /\ TreeOK(Allocated', data', cwd', PathTo')
         /\ Describes(shape.tree, Allocated, data, PathTo)
         /\ Describes(shape'.tree, Allocated', data', PathTo')
<1>1. IsTree(Allocated, data, cwd) /\ DirsOK(Allocated, data) /\ data \in [Clusters -> AnyDirectory]
  BY DiskTyped DEF Related, OnDiskNow, TreeInv, OrderInv, FilesInv
<1>2. IsTree(Allocated', data', cwd') /\ DirsOK(Allocated', data')
  <2>1. AllOnDisk'
    BY DEF Related, OnDiskNow
  <2> QED BY <2>1 DEF Related, TreeInv, OrderInv, IsTree, DirsOK, OwnSlots, IsPlaceOf, Names
<1>3. data' \in [Clusters -> AnyDirectory]
  <2>1. DiskType(Disk')
    BY DEF Related, FilesInv
  <2> QED BY <2>1, DiskTypeIs DEF Disk
<1>4. TreeOK(Allocated, data, cwd, PathTo)
  BY <1>1, PathsAre, PathsNow DEF TreeOK
<1>5. TreeOK(Allocated', data', cwd', PathTo')
  BY <1>2, <1>3, PathsAre, PathsNext DEF TreeOK
<1>6. shape.tree = TreeOf(Allocated, data, PathTo)
  BY TreeNowIs DEF Related, Shape
<1>7. shape'.tree = TreeOf(Allocated', data', PathTo')
  <2>1. shape'.tree = TreeOnDisk'
    BY DEF Related, Shape
  <2> QED BY <2>1, TreeNextIs
<1> QED BY <1>4, <1>5, <1>6, <1>7, TreeDescribed

LEMMA ShapesAre ==
  ASSUME Related
  PROVE  /\ shape.cwd = PathTo[cwd] /\ shape'.cwd = PathTo'[cwd']
         /\ shape.used = Cardinality(FileClusters) /\ shape'.used = Cardinality(FileClusters')
BY DEF Related, Shape

\* Directories keep their paths through a step that leaves their entries.
LEMMA PathsKept ==
  ASSUME Related, Allocated \subseteq Allocated',
         \A c \in Allocated, i \in Slots : data[c][i].kind = "dir" => data'[c][i] = data[c][i]
  PROVE  \A k \in Allocated : PathTo'[k] = PathTo[k]
<1>1. /\ TreeOK(Allocated, data, cwd, PathTo)
      /\ TreeOK(Allocated', data', cwd', PathTo')
  BY TreesAre
<1>2. \A c \in Allocated, i \in Slots : \A k \in Allocated :
        Names(data, c, i, k) => Names(data', c, i, k) /\ data'[c][i].name = data[c][i].name
  BY DEF Names
<1> QED BY <1>1, <1>2, PathsStay DEF TreeOK

LEMMA QuietShape ==
  ASSUME Related, Allocated' = Allocated, \A c \in Allocated : data'[c] = data[c]
  PROVE  shape'.tree = shape.tree /\ \A k \in Allocated : PathTo'[k] = PathTo[k]
<1>1. \A k \in Allocated : PathTo'[k] = PathTo[k]
  BY PathsKept
<1>2. Describes(shape.tree, Allocated, data, PathTo)
      /\ Describes(shape'.tree, Allocated', data', PathTo')
  BY TreesAre
<1>3. Describes(shape.tree, Allocated', data', PathTo')
  BY <1>1, <1>2, SameDescribed
<1>4. shape'.tree = shape.tree
  BY <1>2, <1>3, DescribedOnce
<1> QED BY <1>1, <1>4

LEMMA EntryAdded ==
  ASSUME Related, NEW c \in Allocated, NEW slot \in Slots, ~ Live(data[c][slot]),
         NEW en, Live(en), data'[c][slot] = en, Allocated \subseteq Allocated',
         \A b \in Allocated, j \in Slots : (b = c /\ j = slot) \/ data'[b][j] = data[b][j],
         \A b \in Allocated', j \in Slots : b \notin Allocated => ~ IsOwn(data', b, j)
  PROVE  /\ shape'.tree = Tree!With(shape.tree, Tree!Child(PathTo[c], en.name), en.kind)
         /\ \A k \in Allocated : PathTo'[k] = PathTo[k]
<1>1. /\ TreeOK(Allocated, data, cwd, PathTo)
      /\ TreeOK(Allocated', data', cwd', PathTo')
      /\ Describes(shape.tree, Allocated, data, PathTo)
      /\ Describes(shape'.tree, Allocated', data', PathTo')
  BY TreesAre
<1>2. \A b \in Allocated, i \in Slots : data[b][i].kind = "dir" => data'[b][i] = data[b][i]
  BY DEF Live
<1>3. \A k \in Allocated : PathTo'[k] = PathTo[k]
  BY <1>2, PathsKept
<1>4. slot \in OwnSlots(c)
  <2>1. CASE c = Root
    BY <2>1, OwnSlotsAre
  <2>2. CASE c # Root
    <3>1. PICK b : data[c][1] = DirEntry(Format[Dot], c) /\ data[c][2] = DirEntry(Format[DotDot], b)
      BY <1>1, <2>2, DotsAre DEF TreeOK
    <3>2. Live(data[c][1]) /\ Live(data[c][2])
      BY <3>1 DEF Live, DirEntry
    <3> QED BY <2>2, <3>2, OwnSlotsAre
  <2> QED BY <2>1, <2>2
<1>5. IsOwn(data', c, slot) /\ ~ IsOwn(data, c, slot)
  BY <1>4 DEF IsOwn
<1>6. \A b \in Allocated', j \in Slots :
        (b = c /\ j = slot) \/ (IsOwn(data', b, j) <=> b \in Allocated /\ IsOwn(data, b, j))
  BY DEF IsOwn
<1>7. \A b \in Allocated, j \in Slots : IsOwn(data, b, j) =>
        data'[b][j].name = data[b][j].name /\ data'[b][j].kind = data[b][j].kind
  BY <1>5
<1>8. Describes(Tree!With(shape.tree, Tree!Child(PathTo[c], data'[c][slot].name),
                          data'[c][slot].kind), Allocated', data', PathTo')
  BY <1>1, <1>3, <1>5, <1>6, <1>7, AddDescribed
<1>9. Describes(Tree!With(shape.tree, Tree!Child(PathTo[c], en.name), en.kind),
                Allocated', data', PathTo')
  BY <1>8
<1> QED BY <1>1, <1>3, <1>9, DescribedOnce

LEMMA EntryRemoved ==
  ASSUME Related, NEW c \in Allocated, NEW slot \in Slots, IsOwn(data, c, slot),
         data[c][slot].kind = "file", ~ Live(data'[c][slot]), Allocated' = Allocated,
         \A b \in Allocated, j \in Slots : (b = c /\ j = slot) \/ data'[b][j] = data[b][j]
  PROVE  /\ shape'.tree
              = [x \in DOMAIN shape.tree \ {Tree!Child(PathTo[c], data[c][slot].name)}
                   |-> shape.tree[x]]
         /\ \A k \in Allocated : PathTo'[k] = PathTo[k]
<1>1. /\ TreeOK(Allocated, data, cwd, PathTo)
      /\ Describes(shape.tree, Allocated, data, PathTo)
      /\ Describes(shape'.tree, Allocated', data', PathTo')
  BY TreesAre
<1>2. \A b \in Allocated, i \in Slots : data[b][i].kind = "dir" => data'[b][i] = data[b][i]
  OBVIOUS
<1>3. \A k \in Allocated : PathTo'[k] = PathTo[k]
  BY <1>2, PathsKept
<1>4. ~ IsOwn(data', c, slot)
  BY DEF IsOwn
<1> DEFINE u == [x \in DOMAIN shape.tree \ {Tree!Child(PathTo[c], data[c][slot].name)}
                   |-> shape.tree[x]]
<1>5. Without(u, shape.tree, Tree!Child(PathTo[c], data[c][slot].name))
  BY DEF Without
<1> HIDE DEF u
<1>6. Describes(u, Allocated, data', PathTo')
  BY <1>1, <1>3, <1>4, <1>5, RemoveDescribed
<1>7. shape'.tree = u
  BY <1>1, <1>6, DescribedOnce
<1> QED BY <1>3, <1>7 DEF u

-----------------------------------------------------------------------------
(* Each call of the shell is a call of DirTree.                            *)

StartPath(p) == IF p.abs THEN <<>> ELSE shape.cwd

LEMMA StartIs ==
  ASSUME Related, NEW p \in Path
  PROVE  /\ StartPath(p) = PathTo[StartDir(p)] /\ StartPath(p) \in Tree!Start
         /\ StartDir(p) \in Allocated /\ cwd \in Allocated /\ Root \in Allocated
         /\ p.name \in Name /\ Format[p.name] \in ShortName
<1>1. /\ StartDir(p) \in Allocated /\ cwd \in Allocated /\ Root \in Allocated
      /\ p.name \in Name
  BY PlacesOnTree DEF Related
<1>2. PathTo[Root] = <<>>
  BY TreesAre DEF TreeOK, ArePaths
<1> QED BY <1>1, <1>2, ShapesAre, NameAssumption DEF StartPath, StartDir, Tree!Start, Tree!Top

LEMMA LookUpIs ==
  ASSUME Related, NEW p \in Path, Ordinary(p.name)
  PROVE  LET x == Tree!Child(StartPath(p), Format[p.name])
             dir == DirOf(p)
         IN  /\ x \in DOMAIN shape.tree <=> Found(dir, p.name)
             /\ Found(dir, p.name) => shape.tree[x] = Hit(dir, p.name).kind
             /\ Found(dir, p.name) => Hit(dir, p.name).kind \in {"file", "dir"}
             /\ Found(dir, p.name) =>
                  /\ HitSlot(dir, p.name) \in Slots
                  /\ IsOwn(data, StartDir(p), HitSlot(dir, p.name))
                  /\ dir[HitSlot(dir, p.name)].name = Format[p.name]
                  /\ Hit(dir, p.name) = dir[HitSlot(dir, p.name)]
             /\ Tree!IsDir(shape.tree, x)
                  <=> Found(dir, p.name) /\ Hit(dir, p.name).kind = "dir"
             /\ Tree!HasRoom(shape.tree, StartPath(p)) <=> FreeSlots(dir) # {}
<1> DEFINE x == Tree!Child(StartPath(p), Format[p.name])
           dir == DirOf(p)
           c == StartDir(p)
<1>1. /\ TreeOK(Allocated, data, cwd, PathTo)
      /\ Describes(shape.tree, Allocated, data, PathTo)
  BY TreesAre
<1>2. c \in Allocated /\ StartPath(p) = PathTo[c] /\ p.name \in Name /\ Format[p.name] \in ShortName
  BY StartIs
<1>3. dir = data[c]
  BY DEF DirOf
<1> HIDE DEF c, dir
<1>4. /\ Found(data[c], p.name)
           <=> \E i \in Slots : IsOwn(data, c, i) /\ data[c][i].name = Format[p.name]
      /\ Found(data[c], p.name) =>
           /\ HitSlot(data[c], p.name) \in Slots /\ IsOwn(data, c, HitSlot(data[c], p.name))
           /\ data[c][HitSlot(data[c], p.name)].name = Format[p.name]
           /\ Hit(data[c], p.name) = data[c][HitSlot(data[c], p.name)]
  BY <1>1, <1>2, LookUp DEF TreeOK
<1>5. /\ x \in DOMAIN shape.tree
           <=> \E i \in Slots : IsOwn(data, c, i) /\ data[c][i].name = Format[p.name]
      /\ \A i \in Slots : IsOwn(data, c, i) /\ data[c][i].name = Format[p.name]
           => shape.tree[x] = data[c][i].kind
  BY <1>1, <1>2, ChildIs
<1>6. Tree!HasRoom(shape.tree, StartPath(p)) <=> FreeSlots(data[c]) # {}
  BY <1>1, <1>2, RoomIs
<1> HIDE DEF x
<1>7. Found(dir, p.name) => Hit(dir, p.name).kind \in {"file", "dir"}
  BY <1>1, <1>2, <1>3, <1>4, OwnEntryIs DEF TreeOK
<1>8. x \in DOMAIN shape.tree <=> Found(dir, p.name)
  BY <1>3, <1>4, <1>5
<1>9. Found(dir, p.name) => shape.tree[x] = Hit(dir, p.name).kind
  BY <1>3, <1>4, <1>5
<1>10. Tree!IsDir(shape.tree, x) <=> Found(dir, p.name) /\ Hit(dir, p.name).kind = "dir"
  BY <1>8, <1>9 DEF Tree!IsDir
<1> QED BY <1>3, <1>4, <1>6, <1>7, <1>8, <1>9, <1>10 DEF c, dir, x

\* The calls of the shell leave the files' clusters and the handle alone.
LEMMA FilesStay ==
  ASSUME Related, ShellCall
  PROVE  shape'.used = shape.used /\ handle' = handle
<1>1. DiskType(Disk') /\ ChainOK(Disk') /\ \A c : InChain(Disk', c) <=> InChain(Disk, c)
  BY ShellCallKeeps DEF Related, OnDiskNow, FilesInv
<1>2. FileClusters' = FileClusters
  BY <1>1, FileClustersAre, FileClustersNext DEF Related, OnDiskNow, FilesInv
<1> QED BY <1>2, ShapesAre DEF ShellCall, fileVars

LEMMA QuietCall ==
  ASSUME Related, ShellCall, Allocated' = Allocated, data' = data
  PROVE  /\ UNCHANGED <<shape.tree, shape.used, handle.state>>
         /\ cwd' = cwd => shape'.cwd = shape.cwd
         /\ \A k \in Allocated : PathTo'[k] = PathTo[k]
<1>1. shape'.tree = shape.tree /\ \A k \in Allocated : PathTo'[k] = PathTo[k]
  BY QuietShape
<1>2. cwd \in Allocated
  BY TreesAre DEF TreeOK, IsTree
<1> QED BY <1>1, <1>2, FilesStay, ShapesAre

LEMMA TouchInTree ==
  ASSUME Related, NEW p \in Path, Ordinary(p.name), Create(p), UNCHANGED fileVars
  PROVE  Tree!Touch(StartPath(p), Format[p.name])
<1> DEFINE x == Tree!Child(StartPath(p), Format[p.name])
           dir == DirOf(p)
<1>1. /\ x \in DOMAIN shape.tree <=> Found(dir, p.name)
      /\ Tree!HasRoom(shape.tree, StartPath(p)) <=> FreeSlots(dir) # {}
  BY LookUpIs
<1>2. ShellCall
  BY CreateIsCall DEF Related, OnDiskNow
<1>3. /\ Allocated' = Allocated /\ cwd' = cwd
      /\ \/ (Found(dir, p.name) \/ FreeSlots(dir) = {}) /\ ret' = -1 /\ data' = data
         \/ /\ ~ Found(dir, p.name) /\ FreeSlots(dir) # {} /\ ret' = 0
            /\ data' = WithEntry(data, StartDir(p), FreeSlot(dir), FileEntry(Format[p.name]))
  BY CreateDoes DEF Related
<1>4. CASE (Found(dir, p.name) \/ FreeSlots(dir) = {}) /\ ret' = -1 /\ data' = data
  <2>1. Tree!Refuse
    BY <1>2, <1>3, <1>4, QuietCall DEF Tree!Refuse
  <2> QED BY <1>1, <1>4, <2>1 DEF Tree!Touch
<1>5. CASE /\ ~ Found(dir, p.name) /\ FreeSlots(dir) # {} /\ ret' = 0
           /\ data' = WithEntry(data, StartDir(p), FreeSlot(dir), FileEntry(Format[p.name]))
  <2> DEFINE c == StartDir(p)
             slot == FreeSlot(dir)
             en == FileEntry(Format[p.name])
  <2>1. c \in Allocated /\ StartPath(p) = PathTo[c] /\ cwd \in Allocated
    BY StartIs
  <2>2. slot \in Slots /\ ~ Live(data[c][slot])
    BY <1>5, FreeSlotIsFirst DEF DirOf, FreeSlots
  <2>3. Live(en) /\ en.name = Format[p.name] /\ en.kind = "file"
    BY DEF Live, FileEntry
  <2>4. data \in [Clusters -> AnyDirectory] /\ \A b \in Allocated : b \in Clusters
    BY PlacesOnTree DEF Related
  <2>5. data' = WithEntry(data, c, slot, en)
    BY <1>5
  <2> HIDE DEF c, slot, en, dir
  <2>6. /\ data'[c][slot] = en
        /\ \A b \in Allocated, j \in Slots : (b = c /\ j = slot) \/ data'[b][j] = data[b][j]
    <3> DEFINE f == WithEntry(data, c, slot, en)
    <3>1. /\ f[c][slot] = en /\ \A j \in Slots : j # slot => f[c][j] = data[c][j]
          /\ \A b \in Clusters : b # c => f[b] = data[b]
      <4>1. c \in Clusters
        BY <2>1, <2>4
      <4> QED BY <2>2, <2>4, <4>1, EntriesWith
    <3>2. data' = f
      BY <2>5
    <3> HIDE DEF f
    <3> QED BY <2>4, <3>1, <3>2
  <2>7. /\ shape'.tree = Tree!With(shape.tree, Tree!Child(PathTo[c], en.name), en.kind)
        /\ \A k \in Allocated : PathTo'[k] = PathTo[k]
    BY <1>3, <2>1, <2>2, <2>3, <2>6, EntryAdded
  <2>8. shape'.tree = Tree!With(shape.tree, Tree!Child(StartPath(p), Format[p.name]), "file")
    BY <2>1, <2>3, <2>7
  <2>9. UNCHANGED <<shape.used, shape.cwd, handle.state>>
    BY <1>2, <1>3, <2>1, <2>7, FilesStay, ShapesAre
  <2>10. Tree!Changed(Tree!With(shape.tree, Tree!Child(StartPath(p), Format[p.name]), "file"))
    BY <1>5, <2>8, <2>9 DEF Tree!Changed
  <2> QED BY <1>1, <1>5, <2>10 DEF Tree!Touch
<1> QED BY <1>3, <1>4, <1>5

LEMMA RemoveInTree ==
  ASSUME Related, NEW p \in Path, Ordinary(p.name), NamesFile(p), Delete(p), UNCHANGED fileVars
  PROVE  Tree!Remove(StartPath(p), Format[p.name])
<1> DEFINE x == Tree!Child(StartPath(p), Format[p.name])
           dir == DirOf(p)
<1>1. /\ x \in DOMAIN shape.tree <=> Found(dir, p.name)
      /\ Tree!IsDir(shape.tree, x)
           <=> Found(dir, p.name) /\ Hit(dir, p.name).kind = "dir"
      /\ Found(dir, p.name) =>
           /\ HitSlot(dir, p.name) \in Slots
           /\ IsOwn(data, StartDir(p), HitSlot(dir, p.name))
           /\ dir[HitSlot(dir, p.name)].name = Format[p.name]
           /\ Hit(dir, p.name) = dir[HitSlot(dir, p.name)]
  BY LookUpIs
<1>2. ShellCall
  BY DeleteIsCall DEF Related, OnDiskNow
<1>3. /\ Allocated' = Allocated /\ cwd' = cwd
      /\ \/ ~ Found(dir, p.name) /\ ret' = -1 /\ data' = data
         \/ /\ Found(dir, p.name) /\ Hit(dir, p.name).kind = "file" /\ ret' = 0
            /\ data' = WithEntry(data, StartDir(p), HitSlot(dir, p.name), Deleted)
  BY DeleteDoes DEF Related
<1>4. CASE ~ Found(dir, p.name) /\ ret' = -1 /\ data' = data
  <2>1. Tree!Refuse
    BY <1>2, <1>3, <1>4, QuietCall DEF Tree!Refuse
  <2> QED BY <1>1, <1>4, <2>1 DEF Tree!Remove
<1>5. CASE /\ Found(dir, p.name) /\ Hit(dir, p.name).kind = "file" /\ ret' = 0
           /\ data' = WithEntry(data, StartDir(p), HitSlot(dir, p.name), Deleted)
  <2> DEFINE c == StartDir(p)
             slot == HitSlot(dir, p.name)
  <2>1. c \in Allocated /\ StartPath(p) = PathTo[c] /\ cwd \in Allocated
    BY StartIs
  <2>2. slot \in Slots /\ IsOwn(data, c, slot) /\ data[c][slot].kind = "file"
        /\ data[c][slot].name = Format[p.name]
    BY <1>1, <1>5 DEF DirOf
  <2>4. data \in [Clusters -> AnyDirectory] /\ \A b \in Allocated : b \in Clusters
    BY PlacesOnTree DEF Related
  <2>5. data' = WithEntry(data, c, slot, Deleted)
    BY <1>5
  <2>6. ~ Live(Deleted)
    BY DEF Live, Deleted, Unused
  <2> HIDE DEF c, slot, dir
  <2>7. /\ data'[c][slot] = Deleted
        /\ \A b \in Allocated, j \in Slots : (b = c /\ j = slot) \/ data'[b][j] = data[b][j]
    <3> DEFINE f == WithEntry(data, c, slot, Deleted)
    <3>1. /\ f[c][slot] = Deleted /\ \A j \in Slots : j # slot => f[c][j] = data[c][j]
          /\ \A b \in Clusters : b # c => f[b] = data[b]
      <4>1. c \in Clusters
        BY <2>1, <2>4
      <4> QED BY <2>2, <2>4, <4>1, EntriesWith
    <3>2. data' = f
      BY <2>5
    <3> HIDE DEF f
    <3> QED BY <2>4, <3>1, <3>2
  <2>8. /\ shape'.tree
              = [y \in DOMAIN shape.tree \ {Tree!Child(PathTo[c], data[c][slot].name)}
                   |-> shape.tree[y]]
        /\ \A k \in Allocated : PathTo'[k] = PathTo[k]
    BY <1>3, <2>1, <2>2, <2>6, <2>7, EntryRemoved
  <2>9. UNCHANGED <<shape.used, shape.cwd, handle.state>>
    BY <1>2, <1>3, <2>1, <2>8, FilesStay, ShapesAre
  <2>10. Tree!Changed([y \in DOMAIN shape.tree \ {x} |-> shape.tree[y]])
    BY <1>5, <2>1, <2>2, <2>8, <2>9 DEF Tree!Changed
  <2> QED BY <1>1, <1>5, <2>10 DEF Tree!Remove
<1> QED BY <1>3, <1>4, <1>5

\* The limit of DirTree's MakeDir is that no cluster is free.
LEMMA LimitIs ==
  ASSUME Related
  PROVE  FreeClusters = {}
           <=> Tree!Cardinality(Tree!Dirs(shape.tree)) + shape.used >= MaxCluster - Root
<1>1. Tree!Cardinality(Tree!Dirs(shape.tree)) = Cardinality(Allocated)
  BY TreesAre, DirsAre
<1> QED BY <1>1, ClustersAdd, ShapesAre DEF Related, OnDiskNow

LEMMA MakeDirInTree ==
  ASSUME Related, NEW p \in Path, Ordinary(p.name), Mkdir(p), UNCHANGED fileVars
  PROVE  Tree!MakeDir(StartPath(p), Format[p.name])
<1> DEFINE x == Tree!Child(StartPath(p), Format[p.name])
           dir == DirOf(p)
           new == NewCluster
<1>1. /\ x \in DOMAIN shape.tree <=> Found(dir, p.name)
      /\ Tree!HasRoom(shape.tree, StartPath(p)) <=> FreeSlots(dir) # {}
  BY LookUpIs
<1>2. ShellCall
  BY MkdirIsCall DEF Related, OnDiskNow
<1>3. /\ cwd' = cwd
      /\ \/ /\ Found(dir, p.name) \/ FreeSlots(dir) = {} \/ FreeClusters = {}
            /\ ret' = -1 /\ data' = data /\ Allocated' = Allocated
         \/ /\ ~ Found(dir, p.name) /\ FreeSlots(dir) # {}
            /\ FreeClusters # {} /\ ret' = 0
            /\ new \in Clusters /\ (\A c \in Allocated : c < new)
            /\ Allocated' = Allocated \cup {new}
            /\ data' = [WithEntry(data, StartDir(p), FreeSlot(dir),
                                  DirEntry(Format[p.name], new))
                          EXCEPT ![new] = NewDirectory(new, StartDir(p))]
  BY MkdirDoes DEF Related
<1>4. CASE /\ Found(dir, p.name) \/ FreeSlots(dir) = {} \/ FreeClusters = {}
           /\ ret' = -1 /\ data' = data /\ Allocated' = Allocated
  <2>1. Tree!Refuse
    BY <1>2, <1>3, <1>4, QuietCall DEF Tree!Refuse
  <2>2. \/ x \in DOMAIN shape.tree \/ ~ Tree!HasRoom(shape.tree, StartPath(p))
        \/ Tree!Cardinality(Tree!Dirs(shape.tree)) + shape.used >= MaxCluster - Root
    BY <1>1, <1>4, LimitIs
  <2> HIDE DEF dir, new
  <2> QED BY <2>1, <2>2 DEF Tree!MakeDir
<1>5. CASE /\ ~ Found(dir, p.name) /\ FreeSlots(dir) # {}
           /\ FreeClusters # {} /\ ret' = 0
           /\ new \in Clusters /\ (\A c \in Allocated : c < new)
           /\ Allocated' = Allocated \cup {new}
           /\ data' = [WithEntry(data, StartDir(p), FreeSlot(dir),
                                 DirEntry(Format[p.name], new))
                         EXCEPT ![new] = NewDirectory(new, StartDir(p))]
  <2> DEFINE c == StartDir(p)
             slot == FreeSlot(dir)
             en == DirEntry(Format[p.name], new)
             f == WithEntry(data, c, slot, en)
             fresh == NewDirectory(new, c)
  <2>1. c \in Allocated /\ StartPath(p) = PathTo[c] /\ cwd \in Allocated
    BY StartIs
  <2>2. slot \in Slots /\ ~ Live(data[c][slot])
    BY <1>5, FreeSlotIsFirst DEF DirOf, FreeSlots
  <2>3. Live(en) /\ en.name = Format[p.name] /\ en.kind = "dir"
    BY DEF Live, DirEntry
  <2>4. data \in [Clusters -> AnyDirectory] /\ \A b \in Allocated : b \in Clusters
    BY PlacesOnTree DEF Related
  <2>5. data' = [f EXCEPT ![new] = fresh]
    BY <1>5
  <2>6. \A i \in OwnSlots(new) : ~ Live(fresh[i])
    <3>1. new # Root /\ Root \in Allocated
      BY <1>5, <2>1, <2>4, StartIs, MarksAreNotClusters
    <3> QED BY <3>1, NewDirectoryIs, OwnSlotsAre DEF Live, Unused
  <2>7. \A b \in Allocated : b # new
    BY <1>5, <2>4, MarksAreNotClusters
  <2>8. c \in Clusters
    BY <2>1, <2>4
  <2>9. /\ f[c][slot] = en /\ \A j \in Slots : j # slot => f[c][j] = data[c][j]
        /\ \A b \in Clusters : b # c => f[b] = data[b]
    BY <2>2, <2>4, <2>8, EntriesWith
  <2>10. DOMAIN f = Clusters
    BY <2>4 DEF WithEntry
  <2> HIDE DEF fresh, f, en
  <2>11. data'[new] = fresh /\ \A b \in Allocated : data'[b] = f[b]
    BY <1>5, <2>4, <2>5, <2>7, <2>10
  <2> HIDE DEF c, slot, dir, new
  <2>12. /\ data'[c][slot] = en
         /\ \A b \in Allocated, j \in Slots : (b = c /\ j = slot) \/ data'[b][j] = data[b][j]
    BY <2>1, <2>4, <2>9, <2>11
  <2>13. Allocated \subseteq Allocated'
         /\ \A b \in Allocated', j \in Slots : b \notin Allocated => ~ IsOwn(data', b, j)
    BY <1>5, <2>6, <2>11 DEF IsOwn
  <2>14. /\ shape'.tree = Tree!With(shape.tree, Tree!Child(PathTo[c], en.name), en.kind)
         /\ \A k \in Allocated : PathTo'[k] = PathTo[k]
    BY <2>1, <2>2, <2>3, <2>12, <2>13, EntryAdded
  <2>15. shape'.tree = Tree!With(shape.tree, x, "dir")
    BY <2>1, <2>3, <2>14
  <2>16. UNCHANGED <<shape.used, shape.cwd, handle.state>>
    BY <1>2, <1>3, <2>1, <2>14, FilesStay, ShapesAre
  <2>17. Tree!Changed(Tree!With(shape.tree, x, "dir"))
    BY <1>5, <2>15, <2>16 DEF Tree!Changed
  <2>18. /\ x \notin DOMAIN shape.tree /\ Tree!HasRoom(shape.tree, StartPath(p))
         /\ ~ (Tree!Cardinality(Tree!Dirs(shape.tree)) + shape.used >= MaxCluster - Root)
    BY <1>1, <1>5, LimitIs
  <2> QED BY <2>17, <2>18 DEF Tree!MakeDir
<1> QED BY <1>3, <1>4, <1>5

LEMMA ListInTree ==
  ASSUME Related, NEW p \in Path, List(p), UNCHANGED fileVars
  PROVE  /\ Ordinary(p.name) => Tree!Look(StartPath(p), Format[p.name])
         /\ p.name \in {Empty, Dot, DotDot} => Tree!LookHere
<1>1. ShellCall
  BY ListIsCall DEF Related, OnDiskNow
<1>2. /\ Allocated' = Allocated /\ cwd' = cwd /\ data' = data
      /\ p.name \in {Empty, Dot, DotDot} => ret' = 0
      /\ p.name \notin {Empty, Dot, DotDot}
           => ret' = IF Found(DirOf(p), p.name) /\ Hit(DirOf(p), p.name).kind = "dir"
                       THEN 0 ELSE -1
  BY ListDoes DEF Related
<1>3. UNCHANGED <<shape.tree, shape.used, shape.cwd, handle.state>>
  BY <1>1, <1>2, QuietCall
<1>4. ASSUME Ordinary(p.name) PROVE Tree!Look(StartPath(p), Format[p.name])
  <2>1. p.name \notin {Empty, Dot, DotDot}
    BY <1>4 DEF Ordinary
  <2>2. Tree!IsDir(shape.tree, Tree!Child(StartPath(p), Format[p.name]))
          <=> Found(DirOf(p), p.name) /\ Hit(DirOf(p), p.name).kind = "dir"
    BY <1>4, LookUpIs
  <2> QED BY <1>2, <1>3, <2>1, <2>2 DEF Tree!Look
<1> QED BY <1>2, <1>3, <1>4 DEF Tree!LookHere

LEMMA ChdirInTree ==
  ASSUME Related, NEW p \in Path, Chdir(p), UNCHANGED fileVars
  PROVE  /\ Ordinary(p.name) => Tree!Enter(StartPath(p), Format[p.name])
         /\ p.name = Empty => Tree!Home
         /\ p.name = Dot => Tree!LookHere
         /\ p.name = DotDot => Tree!Up
<1>1. ShellCall
  BY ChdirIsCall DEF Related, OnDiskNow
<1>2. /\ Allocated' = Allocated /\ data' = data
      /\ p.name = Empty => ret' = 0 /\ cwd' = Root
      /\ p.name = Dot => ret' = 0 /\ cwd' = cwd
      /\ p.name = DotDot =>
           /\ ret' = 0
           /\ IF Found(data[cwd], DotDot)
                THEN cwd' = ParentOf(Hit(data[cwd], DotDot)) ELSE cwd' = cwd
      /\ p.name \notin {Empty, Dot, DotDot} =>
           IF Found(DirOf(p), p.name) /\ Hit(DirOf(p), p.name).kind = "dir"
             THEN ret' = 0 /\ cwd' = Hit(DirOf(p), p.name).cluster
             ELSE ret' = -1 /\ cwd' = cwd
  BY ChdirDoes DEF Related
<1>3. /\ UNCHANGED <<shape.tree, shape.used, handle.state>>
      /\ cwd' = cwd => shape'.cwd = shape.cwd
      /\ \A k \in Allocated : PathTo'[k] = PathTo[k]
  BY <1>1, <1>2, QuietCall
<1>4. /\ TreeOK(Allocated, data, cwd, PathTo)
      /\ shape.cwd = PathTo[cwd] /\ shape'.cwd = PathTo'[cwd']
      /\ PathTo[Root] = <<>> /\ Root \in Allocated /\ cwd \in Allocated
  BY TreesAre, ShapesAre DEF TreeOK, ArePaths, IsTree
<1>5. ASSUME Ordinary(p.name) PROVE Tree!Enter(StartPath(p), Format[p.name])
  <2> DEFINE x == Tree!Child(StartPath(p), Format[p.name])
             dir == DirOf(p)
             c == StartDir(p)
             slot == HitSlot(dir, p.name)
  <2>1. p.name \notin {Empty, Dot, DotDot}
    BY <1>5 DEF Ordinary
  <2>2. /\ Tree!IsDir(shape.tree, x) <=> Found(dir, p.name) /\ Hit(dir, p.name).kind = "dir"
        /\ Found(dir, p.name) =>
             /\ slot \in Slots /\ IsOwn(data, c, slot)
             /\ dir[slot].name = Format[p.name] /\ Hit(dir, p.name) = dir[slot]
    BY <1>5, LookUpIs
  <2>3. CASE ~ (Found(dir, p.name) /\ Hit(dir, p.name).kind = "dir")
    <3>1. Tree!Refuse
      BY <1>2, <1>3, <2>1, <2>3 DEF Tree!Refuse
    <3> QED BY <2>2, <2>3, <3>1 DEF Tree!Enter
  <2>4. CASE Found(dir, p.name) /\ Hit(dir, p.name).kind = "dir"
    <3> DEFINE k == Hit(dir, p.name).cluster
    <3>1. ret' = 0 /\ cwd' = k
      BY <1>2, <2>1, <2>4
    <3>2. c \in Allocated /\ StartPath(p) = PathTo[c] /\ dir = data[c]
      BY StartIs DEF DirOf
    <3>3. /\ slot \in Slots /\ Names(data, c, slot, k) /\ k \in Allocated /\ k # Root
          /\ data[c][slot].name = Format[p.name]
      BY <1>4, <2>2, <2>4, <3>2 DEF Names, IsOwn, TreeOK, IsTree
    <3> HIDE DEF k, c, slot, dir
    <3>4. PICK b \in Allocated, j \in Slots : IsPlaceOf(Allocated, data, b, j, k)
      BY <1>4, <3>3 DEF TreeOK, IsTree
    <3>5. b = c /\ j = slot
      BY <3>2, <3>3, <3>4 DEF IsPlaceOf
    <3>6. PathTo[k] = Append(PathTo[c], Format[p.name])
      BY <1>4, <3>3, <3>4, <3>5 DEF TreeOK, ArePaths
    <3>7. shape'.cwd = x
      BY <1>3, <1>4, <3>1, <3>2, <3>3, <3>6 DEF Tree!Child
    <3> QED BY <1>3, <2>2, <2>4, <3>1, <3>7 DEF Tree!Enter
  <2> QED BY <2>3, <2>4
<1>6. ASSUME p.name = Empty PROVE Tree!Home
  BY <1>2, <1>3, <1>4, <1>6 DEF Tree!Home, Tree!Top
<1>7. ASSUME p.name = Dot PROVE Tree!LookHere
  BY <1>2, <1>3, <1>7 DEF Tree!LookHere
<1>8. ASSUME p.name = DotDot PROVE Tree!Up
  <2>1. ret' = 0 /\ IF Found(data[cwd], DotDot)
                      THEN cwd' = ParentOf(Hit(data[cwd], DotDot)) ELSE cwd' = cwd
    BY <1>2, <1>8
  <2>2. CASE cwd = Root
    <3>1. ~ Found(data[Root], DotDot)
      BY <1>4, LookUp2 DEF TreeOK
    <3>2. cwd' = cwd /\ shape.cwd = <<>>
      BY <1>4, <2>1, <2>2, <3>1
    <3> QED BY <1>3, <2>1, <3>2 DEF Tree!Up, Tree!Top
  <2>3. CASE cwd # Root
    <3>1. PICK b \in Allocated, j \in Slots : IsPlaceOf(Allocated, data, b, j, cwd)
      BY <1>4, <2>3 DEF TreeOK, IsTree
    <3>2. Found(data[cwd], DotDot) /\ ParentOf(Hit(data[cwd], DotDot)) = b
      BY <1>4, <2>3, <3>1, LookUp2 DEF TreeOK
    <3>3. IsOwn(data, b, j) /\ shape.cwd = EntryPath(PathTo, data, b, j)
      BY <1>4, <2>3, <3>1 DEF IsPlaceOf, Names, IsOwn, Live, TreeOK, ArePaths, EntryPath
    <3>4. shape.cwd # <<>> /\ Tree!Parent(shape.cwd) = PathTo[b]
      BY <1>4, <3>3, OwnPathsAre
    <3>5. shape'.cwd = PathTo[b]
      BY <1>3, <1>4, <2>1, <3>2
    <3> QED BY <1>3, <2>1, <3>4, <3>5 DEF Tree!Up, Tree!Top
  <2> QED BY <2>2, <2>3
<1> QED BY <1>5, <1>6, <1>7, <1>8

-----------------------------------------------------------------------------
(* And so is each call of the file interface.                              *)

LEMMA OpenInTree ==
  ASSUME Related, NEW p \in Path, Ordinary(p.name), OpenFile(p)
  PROVE  Tree!Open(StartPath(p), Format[p.name])
<1> DEFINE x == Tree!Child(StartPath(p), Format[p.name])
           dir == Load(StartDir(p), buffer)
           e == Hit(dir, p.name)
<1>1. dir = DirOf(p)
  BY PlacesOnTree DEF Related, DirOf
<1>2. /\ x \in DOMAIN shape.tree <=> Found(dir, p.name)
      /\ Found(dir, p.name) => shape.tree[x] = e.kind /\ e.kind \in {"file", "dir"}
  BY <1>1, LookUpIs
<1>3. /\ UNCHANGED <<fat, zero, data, cwd>>
      /\ \/ ~ Found(dir, p.name) /\ ret' = -1 /\ UNCHANGED handle
         \/ /\ Found(dir, p.name) /\ ret' = 0
            /\ handle' = IF e.kind = "dir" THEN DirHandle ELSE FileHandle(e.cluster)
  BY DEF OpenFile
<1>4. Allocated' = Allocated /\ FileClusters' = FileClusters
  BY <1>3, SameFat DEF Related, OnDiskNow
<1>5. UNCHANGED <<shape.tree, shape.used, shape.cwd>>
  <2>1. cwd \in Allocated
    BY TreesAre DEF TreeOK, IsTree
  <2> QED BY <1>3, <1>4, <2>1, QuietShape, ShapesAre
<1>6. DirHandle.state = "dir" /\ \A c : FileHandle(c).state = "file"
  BY DEF DirHandle, FileHandle, ClosedHandle
<1> HIDE DEF x, dir, e
<1>7. CASE ~ Found(dir, p.name) /\ ret' = -1 /\ UNCHANGED handle
  <2>1. Tree!Refuse
    BY <1>5, <1>7 DEF Tree!Refuse
  <2> QED BY <1>2, <1>7, <2>1 DEF Tree!Open, x
<1>8. CASE /\ Found(dir, p.name) /\ ret' = 0
           /\ handle' = IF e.kind = "dir" THEN DirHandle ELSE FileHandle(e.cluster)
  <2>1. handle'.state = shape.tree[x]
    BY <1>2, <1>6, <1>8
  <2> QED BY <1>2, <1>5, <1>8, <2>1 DEF Tree!Open, x
<1> QED BY <1>3, <1>7, <1>8

LEMMA FileCallInTree ==
  ASSUME Related,
         CloseFile \/ RefuseTransfer \/ \E n \in Counts : ReadFile(n) \/ WriteFile(n)
  PROVE  Tree!Close \/ Tree!NotAFile \/ Tree!Fill
<1>1. FilesInv /\ FilesInv' /\ FileCall
  BY DEF Related, OnDiskNow, FileCall
<1>2. /\ Allocated' = Allocated /\ cwd' = cwd
      /\ \A c \in Allocated : data'[c] = data[c]
      /\ FileClusters \subseteq FileClusters'
  BY <1>1, FileCallDoes
<1>3. shape'.tree = shape.tree /\ shape'.cwd = shape.cwd
  <2>1. cwd \in Allocated
    BY TreesAre DEF TreeOK, IsTree
  <2> QED BY <1>2, <2>1, QuietShape, ShapesAre
<1>4. CASE CloseFile
  <2>1. UNCHANGED <<fat, zero>> /\ handle' = ClosedHandle /\ ret' = 0
    BY <1>4 DEF CloseFile
  <2>2. FileClusters' = FileClusters
    BY <1>1, <2>1, SameFat
  <2>3. handle'.state = "closed"
    BY <2>1 DEF ClosedHandle
  <2> QED BY <1>3, <2>1, <2>2, <2>3, ShapesAre DEF Tree!Close
<1>5. CASE RefuseTransfer
  <2>1. UNCHANGED <<fat, zero, handle>> /\ ret' = -1 /\ handle.state # "file"
    BY <1>5 DEF RefuseTransfer, Fail, fileVars
  <2>2. FileClusters' = FileClusters
    BY <1>1, <2>1, SameFat
  <2> QED BY <1>3, <2>1, <2>2, ShapesAre DEF Tree!NotAFile, Tree!Refuse
<1>6. ASSUME NEW n \in Counts, ReadFile(n) \/ WriteFile(n) PROVE Tree!Fill
  <2>1. ret' = 0 /\ handle.state = "file" /\ handle'.state = "file"
    BY <1>1, <1>6, ReadKeeps, WriteKeeps DEF ReadFile, WriteFile, Transfer
  <2>2. /\ Cardinality(FileClusters) \in Nat
        /\ Tree!Cardinality(Tree!Dirs(shape.tree)) = Cardinality(Allocated)
    BY <1>1, ClustersAdd, TreesAre, DirsAre
  <2>3. /\ Cardinality(Allocated') \in Nat /\ Cardinality(FileClusters') \in Nat
        /\ Cardinality(Allocated') + Cardinality(FileClusters') <= MaxCluster - Root
    <3>1. (FilesInv => /\ Cardinality(Allocated) \in Nat /\ Cardinality(FileClusters) \in Nat
                       /\ Cardinality(Allocated) + Cardinality(FileClusters) <= MaxCluster - Root)'
      BY ClustersAdd, PTL
    <3> QED BY <1>1, <3>1 DEF Root
  <2>4. Cardinality(FileClusters) <= Cardinality(FileClusters')
    <3>1. FileClusters' \subseteq Clusters
      BY DEF FileClusters, Clusters, Root
    <3>2. IsFiniteSet(FileClusters')
      BY <3>1, ClustersAreFinite, FS_Subset
    <3> QED BY <1>2, <3>2, FS_Subset
  <2>5. MaxCluster \in Nat /\ Root = 2
    BY MarksAreNotClusters DEF Root
  <2>6. shape'.used \in shape.used .. MaxCluster - Root - Tree!Cardinality(Tree!Dirs(shape.tree))
    BY <1>2, <2>2, <2>3, <2>4, <2>5, ShapesAre
  <2> QED BY <1>3, <2>1, <2>6 DEF Tree!Fill
<1> QED BY <1>4, <1>5, <1>6

-----------------------------------------------------------------------------
(* The tree is implemented.                                                *)

RefinementInv == FilesInv /\ TreeInv /\ OrderInv /\ shape = Shape

LEMMA OrderInitially == OrdinaryInit => OrderInv
<1> SUFFICES ASSUME OrdinaryInit PROVE DirsOK(Allocated, data)
  BY DEF OrderInv
<1>1. Allocated \subseteq Clusters
  BY DEF Allocated
<1>2. \A c \in Clusters : data[c] = EmptyDirectory
  BY DEF OrdinaryInit, FilesInit, Init
<1>3. EmptyDirectory \in Directory /\ InOrder(EmptyDirectory)
  BY EntryTypes, EmptyInOrder DEF EmptyDirectory, Directory
<1>4. \A c : \A i \in OwnSlots(c) : ~ Live(EmptyDirectory[i])
  BY OwnSlotsAre DEF EmptyDirectory, Live, Unused
<1> QED BY <1>1, <1>2, <1>3, <1>4 DEF DirsOK

\* The tree and the paths depend on the disk only.
LEMMA IdleShape ==
  ASSUME FilesInv, UNCHANGED treeVars, shape = Shape
  PROVE  (shape = Shape)'
<1>1. /\ Allocated' = Allocated /\ FileClusters' = FileClusters
      /\ data' = data /\ cwd' = cwd
  BY IdleDoes
<1>2. PathTo' = PathTo
  BY <1>1, PathsNow, PathsNext
<1>3. TreeOnDisk' = TreeOnDisk
  BY <1>1, <1>2, TreeNowIs, TreeNextIs
<1> QED BY <1>1, <1>2, <1>3 DEF Shape, treeVars

LEMMA RefinementStep ==
  RefinementInv /\ AllOnDisk /\ AllOnDisk' /\ [OrdinaryNext /\ shape' = Shape']_treeVars
    => RefinementInv' /\ Related
<1> SUFFICES ASSUME RefinementInv, AllOnDisk, AllOnDisk',
                    [OrdinaryNext /\ shape' = Shape']_treeVars
             PROVE  RefinementInv' /\ Related
  OBVIOUS
<1>1. FilesInv /\ TreeInv /\ OrderInv /\ shape = Shape /\ OnDiskNow
  BY DEF RefinementInv, OnDiskNow
<1>2. FilesInv' /\ TreeInv'
  BY <1>1, FilesStep, TreeStep
<1>3. OrderInv'
  <2>1. DirsOK(Allocated', data')
    BY <1>1, OrderNext
  <2> QED BY <2>1 DEF OrderInv, DirsOK, OwnSlots
<1>4. (shape = Shape)'
  <2>1. CASE shape' = Shape'
    BY <2>1
  <2>2. CASE UNCHANGED treeVars
    BY <1>1, <2>2, IdleShape
  <2> QED BY <2>1, <2>2
<1> QED BY <1>1, <1>2, <1>3, <1>4 DEF RefinementInv, Related

LEMMA InitInTree == OrdinaryInit /\ AllOnDisk => Tree!Init
<1> SUFFICES ASSUME OrdinaryInit, AllOnDisk PROVE Tree!Init
  OBVIOUS
<1>1. FilesInv /\ IsTree(Allocated, data, cwd) /\ DirsOK(Allocated, data)
  BY FilesInitially, TreeInitially, OrderInitially DEF TreeInv, OrderInv
<1>2. TreeOK(Allocated, data, cwd, PathTo)
  BY <1>1, DiskTyped, PathsAre, PathsNow DEF TreeOK, FilesInv
<1>3. Describes(TreeOnDisk, Allocated, data, PathTo)
  BY <1>2, TreeDescribed, TreeNowIs
<1> DEFINE t == Tree!With(<<>>, <<>>, "dir")
<1>4. t = [y \in {<<>>} |-> "dir"]
  BY DEF Tree!With
<1>5. Describes(t, Allocated, data, PathTo)
  <2>1. \A c \in Allocated : data[c] = EmptyDirectory
    BY DEF OrdinaryInit, FilesInit, Init, Allocated
  <2>2. \A c \in Allocated, i \in Slots : ~ IsOwn(data, c, i)
    BY <2>1 DEF EmptyDirectory, IsOwn, Live, Unused
  <2>3. /\ t = [x \in DOMAIN t |-> t[x]]
        /\ <<>> \in DOMAIN t /\ t[<<>>] = "dir" /\ \A x \in DOMAIN t : x = <<>>
    BY <1>4
  <2> HIDE DEF t
  <2> QED BY <2>2, <2>3 DEF Describes
<1>6. TreeOnDisk = t
  BY <1>3, <1>5, DescribedOnce
<1>7. FileClusters = {}
  <2>1. zero = EndOfChain /\ \A c \in Clusters : fat[c] \in {Free, EndOfChain}
    BY DEF OrdinaryInit, FilesInit, Init
  <2>2. \A c \in Clusters : ~ InChain(Disk, c)
    BY <2>1, DiskFields, MarksAreNotClusters DEF InChain, FatEntry, Places
  <2> QED BY <1>1, <2>2, FileClustersAre DEF FilesInv
<1>8. PathTo[cwd] = <<>>
  <2>1. cwd = Root
    BY DEF OrdinaryInit, FilesInit, Init
  <2> QED BY <1>2, <2>1 DEF TreeOK, ArePaths
<1>9. shape.tree = t /\ shape.used = 0 /\ shape.cwd = <<>>
  BY <1>6, <1>7, <1>8, FS_EmptySet DEF OrdinaryInit, Shape
<1>10. handle.state = "closed" /\ ret = 0
  BY DEF OrdinaryInit, FilesInit, Init, ClosedHandle
<1> QED BY <1>9, <1>10 DEF Tree!Init, Tree!Top

LEMMA CallsAsInTree == ASSUME Related, NEW p \in Path PROVE AsInTree(p)
<1> DEFINE start == IF p.abs THEN <<>> ELSE shape.cwd
           label == Format[p.name]
<1>1. start = StartPath(p)
  BY DEF StartPath
<1>2. Ordinary(p.name) /\ OpenFile(p) => Tree!Open(start, label)
  BY <1>1, OpenInTree
<1>3. ASSUME Ordinary(p.name), UNCHANGED fileVars
      PROVE  /\ Create(p) => Tree!Touch(start, label)
             /\ Mkdir(p) => Tree!MakeDir(start, label)
             /\ NamesFile(p) /\ Delete(p) => Tree!Remove(start, label)
             /\ List(p) => Tree!Look(start, label)
             /\ Chdir(p) => Tree!Enter(start, label)
  BY <1>1, <1>3, TouchInTree, MakeDirInTree, RemoveInTree, ListInTree, ChdirInTree
<1>4. ASSUME p.name \in {Empty, Dot, DotDot}, UNCHANGED fileVars
      PROVE  /\ List(p) => Tree!LookHere
             /\ ChdirRoot(p) => Tree!Home
             /\ ChdirDot(p) => Tree!LookHere
             /\ ChdirUp(p) => Tree!Up
  <2>1. /\ ChdirRoot(p) => p.name = Empty /\ Chdir(p)
        /\ ChdirDot(p) => p.name = Dot /\ Chdir(p)
        /\ ChdirUp(p) => p.name = DotDot /\ Chdir(p)
    BY DEF Chdir, ChdirRoot, ChdirDot, ChdirUp
  <2> QED BY <1>4, <2>1, ListInTree, ChdirInTree
<1> QED BY <1>2, <1>3, <1>4 DEF AsInTree

LEMMA NextInTree ==
  ASSUME Related, [OrdinaryNext /\ shape' = Shape']_treeVars
  PROVE  [Tree!Next]_Tree!treeVars
<1>1. ASSUME NEW p \in Path
      PROVE  AsInTree(p) /\ (IF p.abs THEN <<>> ELSE shape.cwd) \in Tree!Start
             /\ Format[p.name] \in ShortName
  BY <1>1, CallsAsInTree, StartIs DEF StartPath
<1>2. ASSUME NEW p \in Path, OrdinaryChange(p) \/ OrdinaryMove(p), UNCHANGED fileVars
      PROVE  Tree!Next
  <2>1. CASE Ordinary(p.name)
    BY <1>1, <1>2, <2>1 DEF OrdinaryChange, OrdinaryMove, AsInTree, Tree!Next
  <2>2. CASE ~ Ordinary(p.name)
    <3>1. p.name \in {Empty, Dot, DotDot} /\ (List(p) \/ Chdir(p))
      BY <1>2, <2>2 DEF OrdinaryChange, OrdinaryMove
    <3>2. Chdir(p) => ChdirRoot(p) \/ ChdirDot(p) \/ ChdirUp(p)
      BY <3>1 DEF Chdir, ChdirDown
    <3> QED BY <1>1, <1>2, <3>1, <3>2 DEF AsInTree, Tree!Next
  <2> QED BY <2>1, <2>2
<1>3. CASE OrdinaryFileCall
  <2>1. ASSUME NEW p \in Path, Ordinary(p.name), OpenFile(p) PROVE Tree!Next
    BY <1>1, <2>1 DEF AsInTree, Tree!Next
  <2>2. CASE CloseFile \/ RefuseTransfer \/ \E n \in Counts : ReadFile(n) \/ WriteFile(n)
    BY <2>2, FileCallInTree DEF Tree!Next
  <2> QED BY <1>3, <2>1, <2>2 DEF OrdinaryFileCall
<1>4. CASE UNCHANGED treeVars
  BY <1>4 DEF treeVars, allVars, vars, fileVars, Tree!treeVars
<1> QED BY <1>2, <1>3, <1>4 DEF OrdinaryNext

\* The disk with its slots, clusters and chains behaves as the tree of paths, for
\* every geometry, all names and any bytes written, as long as the FAT hands out
\* clusters that the disk has: each call does in the tree what fat32.c does on the
\* disk, and what it refuses it refuses for the tree's reasons.
THEOREM TreeIsImplemented == OrdinarySpec /\ []AllOnDisk => ImplementsTree
<1>1. OrdinaryInit => RefinementInv
  BY FilesInitially, TreeInitially, OrderInitially DEF RefinementInv, OrdinaryInit
<1>2. OrdinaryInit /\ AllOnDisk => Tree!Init
  BY InitInTree
<1>3. RefinementInv /\ AllOnDisk /\ AllOnDisk' /\ [OrdinaryNext /\ shape' = Shape']_treeVars
        => /\ RefinementInv' /\ [Tree!Next]_Tree!treeVars
           /\ [\A p \in Path : AsInTree(p)]_treeVars
  BY RefinementStep, NextInTree, CallsAsInTree
<1> QED BY <1>1, <1>2, <1>3, PTL DEF OrdinarySpec, ImplementsTree, Tree!TreeSpec

-----------------------------------------------------------------------------
(* What pwd prints.                                                        *)

Shown(s) == [i \in 1 .. Len(s) |-> Format[s[i]]]

LEMMA NothingShown == Shown(<<>>) = <<>>
BY DEF Shown

\* One segment more and one less.
LEMMA ShownLonger ==
  ASSUME NEW S, NEW s \in Seq(S), NEW q \in Seq(ShortName), Shown(s) = q,
         NEW n, <<n>> \in Seq(S), Format[n] \in ShortName
  PROVE  Shown(s \o <<n>>) = Append(q, Format[n])
<1> DEFINE r == s \o <<n>>
           t == Append(q, Format[n])
<1>1. Len(q) = Len(s) /\ \A i \in 1 .. Len(s) : q[i] = Format[s[i]]
  BY DEF Shown
<1>2. n \in S
  <2>1. <<n>>[1] \in S
    OBVIOUS
  <2> QED BY <2>1
<1>3. r \in Seq(S) /\ Len(r) = Len(s) + 1 /\ r[Len(s) + 1] = n
      /\ \A i \in 1 .. Len(s) : r[i] = s[i]
  BY <1>2
<1>4. t \in Seq(ShortName) /\ Len(t) = Len(s) + 1 /\ t[Len(s) + 1] = Format[n]
      /\ \A i \in 1 .. Len(s) : t[i] = q[i]
  BY <1>1
<1> HIDE DEF r, t
<1>5. t = [i \in 1 .. Len(t) |-> t[i]]
  BY <1>4
<1>6. Shown(r) = [i \in 1 .. Len(r) |-> Format[r[i]]]
  BY DEF Shown
<1>7. \A i \in 1 .. Len(s) + 1 : Format[r[i]] = t[i]
  <2> SUFFICES ASSUME NEW i \in 1 .. Len(s) + 1 PROVE Format[r[i]] = t[i]
    OBVIOUS
  <2>1. Len(s) \in Nat
    OBVIOUS
  <2>2. CASE i = Len(s) + 1
    BY <1>3, <1>4, <2>2
  <2>3. CASE i # Len(s) + 1
    <3>1. i \in 1 .. Len(s)
      BY <2>1, <2>3
    <3> QED BY <1>1, <1>3, <1>4, <3>1
  <2> QED BY <2>2, <2>3
<1>8. Shown(r) = t
  BY <1>3, <1>4, <1>5, <1>6, <1>7
<1> QED BY <1>8 DEF r, t

LEMMA FrontIs ==
  ASSUME NEW S, NEW s \in Seq(S), NEW m \in Nat, m <= Len(s)
  PROVE  /\ SubSeq(s, 1, m) \in Seq(S) /\ Len(SubSeq(s, 1, m)) = m
         /\ \A i \in 1 .. m : SubSeq(s, 1, m)[i] = s[i]
OBVIOUS

LEMMA ShownShorter ==
  ASSUME NEW S, NEW s \in Seq(S), NEW q \in Seq(ShortName), Shown(s) = q
  PROVE  /\ s = <<>> <=> q = <<>>
         /\ s # <<>> => Shown(SubSeq(s, 1, Len(s) - 1)) = SubSeq(q, 1, Len(q) - 1)
<1>1. Len(q) = Len(s) /\ \A i \in 1 .. Len(s) : q[i] = Format[s[i]]
  BY DEF Shown
<1>2. s = <<>> <=> q = <<>>
  BY <1>1
<1>3. ASSUME s # <<>> PROVE Shown(SubSeq(s, 1, Len(s) - 1)) = SubSeq(q, 1, Len(q) - 1)
  <2> DEFINE r == SubSeq(s, 1, Len(s) - 1)
             t == SubSeq(q, 1, Len(q) - 1)
  <2>1. Len(s) \in Nat /\ Len(s) > 0
    BY <1>3
  <2>2. Len(s) - 1 \in Nat /\ Len(s) - 1 <= Len(s)
    BY <2>1
  <2>3. r \in Seq(S) /\ Len(r) = Len(s) - 1 /\ \A i \in 1 .. Len(s) - 1 : r[i] = s[i]
    BY <2>2, FrontIs
  <2>4. t \in Seq(ShortName) /\ Len(t) = Len(s) - 1 /\ \A i \in 1 .. Len(s) - 1 : t[i] = q[i]
    BY <1>1, <2>2, FrontIs
  <2> HIDE DEF r, t
  <2>5. t = [i \in 1 .. Len(t) |-> t[i]]
    BY <2>4
  <2>6. Shown(r) = [i \in 1 .. Len(r) |-> Format[r[i]]]
    BY DEF Shown
  <2>7. \A i \in 1 .. Len(s) - 1 : Format[r[i]] = t[i]
    BY <1>1, <2>1, <2>3, <2>4
  <2>8. Shown(r) = t
    BY <2>3, <2>4, <2>5, <2>6, <2>7
  <2> QED BY <2>8 DEF r, t
<1> QED BY <1>2, <1>3

PathInv == path \in Seq(Segment)

LEMMA ListKeepsPath == \A p : List(p) => path' = path
BY DEF List, Fail

LEMMA ChangeKeepsPath == \A p : OrdinaryChange(p) => path' = path
BY DEF OrdinaryChange, Create, Mkdir, Delete, Fail

LEMMA FileCallKeepsPath == OrdinaryFileCall => path' = path
BY DEF OrdinaryFileCall, OpenFile, CloseFile, RefuseTransfer, Fail, ReadFile, WriteFile,
       Transfer

LEMMA ChdirPath ==
  ASSUME PathInv, NEW p \in Path, Chdir(p)
  PROVE  path' \in Seq(Segment)
<1> DEFINE here == CurrentPath(p)
<1>1. here \in Seq(Segment) /\ p.name \in Name
  BY PathAssumption DEF PathInv, CurrentPath
<1>2. Segments[p.name] \in Seq(Segment)
  BY <1>1, NameAssumption
<1> HIDE DEF here
<1>3. here # <<>> => SubSeq(here, 1, Len(here) - 1) \in Seq(Segment)
  BY <1>1
<1>4. here \o Segments[p.name] \in Seq(Segment)
  BY <1>1, <1>2
<1>5. path' \in {<<>>, path, here, here \o Segments[p.name]}
      \/ (here # <<>> /\ path' = SubSeq(here, 1, Len(here) - 1))
  BY DEF Chdir, ChdirRoot, ChdirDot, ChdirUp, ChdirDown, here
<1>6. <<>> \in Seq(Segment)
  OBVIOUS
<1> QED BY <1>1, <1>3, <1>4, <1>5, <1>6 DEF PathInv

LEMMA PathStepTyped ==
  PathInv /\ [OrdinaryNext /\ shape' = Shape']_treeVars => PathInv'
<1> SUFFICES ASSUME PathInv, [OrdinaryNext /\ shape' = Shape']_treeVars PROVE PathInv'
  OBVIOUS
<1>1. CASE OrdinaryFileCall
  BY <1>1, FileCallKeepsPath DEF PathInv
<1>2. ASSUME NEW p \in Path, OrdinaryChange(p) \/ OrdinaryMove(p) PROVE PathInv'
  BY <1>2, ChangeKeepsPath, ListKeepsPath, ChdirPath DEF OrdinaryMove, PathInv
<1>3. CASE UNCHANGED treeVars
  BY <1>3 DEF PathInv, treeVars, allVars, vars
<1> QED BY <1>1, <1>2, <1>3 DEF OrdinaryNext

LEMMA ChdirFollows ==
  ASSUME Related, PathInv, NEW p \in Path, OrdinaryMove(p), Chdir(p), UNCHANGED fileVars,
         PathStaysTrue(p), PathNamesCwd
  PROVE  PathNamesCwd'
<1> SUFFICES Shown(path') = shape'.cwd
  BY DEF PathNamesCwd, Shown
<1>1. Shown(path) = shape.cwd /\ path \in Seq(Segment)
  BY DEF PathNamesCwd, Shown, PathInv
<1>2. shape.cwd \in Seq(ShortName)
  <2>1. /\ TreeOK(Allocated, data, cwd, PathTo) /\ cwd \in Allocated
    BY TreesAre DEF TreeOK, IsTree
  <2> QED BY <2>1, PathsAreSeqs, ShapesAre DEF TreeOK
<1>3. /\ Ordinary(p.name) => Tree!Enter(StartPath(p), Format[p.name])
      /\ p.name = Empty => Tree!Home
      /\ p.name = Dot => Tree!LookHere
      /\ p.name = DotDot => Tree!Up
  BY ChdirInTree
<1>4. /\ p.name = Empty => path' = <<>>
      /\ p.name = Dot => path' = CurrentPath(p)
      /\ p.name = DotDot =>
           IF Found(data[cwd], DotDot)
             THEN path' = IF CurrentPath(p) = <<>> THEN <<>>
                          ELSE SubSeq(CurrentPath(p), 1, Len(CurrentPath(p)) - 1)
             ELSE path' = CurrentPath(p)
      /\ p.name \notin {Empty, Dot, DotDot} =>
           IF Found(DirOf(p), p.name) /\ Hit(DirOf(p), p.name).kind = "dir"
             THEN ret' = 0 /\ path' = CurrentPath(p) \o Segments[p.name]
             ELSE ret' = -1 /\ path' = CurrentPath(p)
  BY ChdirDoes DEF Related
<1>5. p.name = Empty \/ p.name = Dot \/ p.name = DotDot \/ Ordinary(p.name)
  BY DEF OrdinaryMove
<1>6. p.name \in {Dot, DotDot} => CurrentPath(p) = path
  BY NameAssumption DEF PathStaysTrue, CurrentPath
<1>7. CASE p.name = Empty
  BY <1>3, <1>4, <1>7, NothingShown DEF Tree!Home, Tree!Top
<1>8. CASE p.name = Dot
  BY <1>1, <1>3, <1>4, <1>6, <1>8 DEF Tree!LookHere
<1>9. CASE p.name = DotDot
  <2>1. shape'.cwd = IF shape.cwd = <<>> THEN <<>>
                                        ELSE SubSeq(shape.cwd, 1, Len(shape.cwd) - 1)
    BY <1>3, <1>9 DEF Tree!Up, Tree!Top, Tree!Parent
  <2>2. IF Found(data[cwd], DotDot)
          THEN path' = IF path = <<>> THEN <<>> ELSE SubSeq(path, 1, Len(path) - 1)
          ELSE path' = path
    BY <1>4, <1>6, <1>9
  <2>3. /\ path = <<>> <=> shape.cwd = <<>>
        /\ path # <<>> => Shown(SubSeq(path, 1, Len(path) - 1))
                            = SubSeq(shape.cwd, 1, Len(shape.cwd) - 1)
    BY <1>1, <1>2, ShownShorter
  <2>4. CASE cwd = Root
    <3>1. shape.cwd = <<>>
      BY <2>4, TreesAre, ShapesAre DEF TreeOK, ArePaths
    <3> QED BY <2>1, <2>2, <2>3, <3>1, NothingShown
  <2>5. CASE cwd # Root
    <3>1. TreeOK(Allocated, data, cwd, PathTo) /\ cwd \in Allocated
      BY TreesAre DEF TreeOK, IsTree
    <3>2. PICK b \in Allocated, j \in Slots : IsPlaceOf(Allocated, data, b, j, cwd)
      BY <2>5, <3>1 DEF TreeOK, IsTree
    <3>3. Found(data[cwd], DotDot)
      BY <2>5, <3>1, <3>2, LookUp2 DEF TreeOK
    <3> QED BY <2>1, <2>2, <2>3, <3>3, NothingShown
  <2> QED BY <2>4, <2>5
<1>10. CASE Ordinary(p.name)
  <2> DEFINE x == Tree!Child(StartPath(p), Format[p.name])
  <2>1. /\ p.name \notin {Empty, Dot, DotDot} /\ Segments[p.name] = <<p.name>>
        /\ p.name \in Name /\ Format[p.name] \in ShortName
        /\ Segments[p.name] \in Seq(Segment)
    BY <1>10, StartIs, NameAssumption DEF Ordinary
  <2>2. Tree!IsDir(shape.tree, x)
          <=> Found(DirOf(p), p.name) /\ Hit(DirOf(p), p.name).kind = "dir"
    BY <1>10, LookUpIs
  <2>3. CASE Found(DirOf(p), p.name) /\ Hit(DirOf(p), p.name).kind = "dir"
    <3> DEFINE here == CurrentPath(p)
    <3>1. path' = here \o <<p.name>>
      BY <1>4, <2>1, <2>3
    <3>2. shape'.cwd = Append(StartPath(p), Format[p.name])
      BY <1>3, <1>10, <2>2, <2>3 DEF Tree!Enter, Tree!Child
    <3>3. here \in Seq(Segment) /\ StartPath(p) \in Seq(ShortName)
          /\ Shown(here) = StartPath(p)
      <4>1. <<>> \in Seq(Segment) /\ <<>> \in Seq(ShortName)
        OBVIOUS
      <4> QED BY <1>1, <1>2, <4>1, NothingShown DEF CurrentPath, StartPath
    <3> HIDE DEF here
    <3>4. Shown(here \o <<p.name>>) = Append(StartPath(p), Format[p.name])
      BY <2>1, <3>3, ShownLonger
    <3> QED BY <3>1, <3>2, <3>4
  <2>4. CASE ~ (Found(DirOf(p), p.name) /\ Hit(DirOf(p), p.name).kind = "dir")
    <3>1. path' = CurrentPath(p) /\ shape'.cwd = shape.cwd
      BY <1>3, <1>4, <1>10, <2>1, <2>2, <2>4 DEF Tree!Enter, Tree!Refuse
    <3>2. ~ p.abs
      BY <2>1, <2>4 DEF PathStaysTrue, DirOf, StartDir
    <3> QED BY <1>1, <3>1, <3>2 DEF CurrentPath
  <2> QED BY <2>3, <2>4
<1> QED BY <1>5, <1>7, <1>8, <1>9, <1>10

LEMMA PwdStep ==
  ASSUME Related, PathInv, OrdinaryNext, PathNamesCwd, NEW p \in Path, Careful(p)
  PROVE  PathNamesCwd'
<1>1. ASSUME path' = path, shape'.cwd = shape.cwd PROVE PathNamesCwd'
  BY <1>1 DEF PathNamesCwd
<1>2. CASE OrdinaryFileCall
  <2>1. shape'.cwd = shape.cwd
    <3>1. FileCall
      BY <1>2 DEF OrdinaryFileCall, FileCall
    <3>2. Allocated' = Allocated /\ cwd' = cwd /\ \A c \in Allocated : data'[c] = data[c]
      BY <3>1, FileCallDoes DEF Related, OnDiskNow
    <3>3. cwd \in Allocated
      BY TreesAre DEF TreeOK, IsTree
    <3> QED BY <3>2, <3>3, QuietShape, ShapesAre
  <2> QED BY <1>1, <1>2, <2>1, FileCallKeepsPath
<1>3. CASE UNCHANGED fileVars
  <2>1. CASE OrdinaryChange(p)
    <3>1. shape'.cwd = shape.cwd
      BY <1>3, <2>1, TouchInTree, MakeDirInTree, RemoveInTree
         DEF OrdinaryChange, Tree!Touch, Tree!MakeDir, Tree!Remove, Tree!Refuse, Tree!Changed
    <3> QED BY <1>1, <2>1, <3>1, ChangeKeepsPath
  <2>2. CASE OrdinaryMove(p) /\ List(p)
    <3>1. shape'.cwd = shape.cwd
      BY <1>3, <2>2, ListInTree DEF OrdinaryMove, Tree!Look, Tree!LookHere
    <3> QED BY <1>1, <2>2, <3>1, ListKeepsPath
  <2>3. CASE OrdinaryMove(p) /\ Chdir(p) /\ PathStaysTrue(p)
    BY <1>3, <2>3, ChdirFollows
  <2> QED BY <2>1, <2>2, <2>3 DEF Careful, OrdinaryMove
<1> QED BY <1>2, <1>3 DEF OrdinaryNext

\* A user who gives absolute arguments to cd only where they lead to a directory
\* is told by pwd where he is, at any depth and after any changes to the tree.
THEOREM PwdFollows == OrdinarySpec /\ []AllOnDisk => PwdFollowsCwd
<1>1. OrdinaryInit => RefinementInv /\ PathInv
  <2>1. OrdinaryInit => path \in Seq(Segment)
    BY DEF OrdinaryInit, FilesInit, Init
  <2> QED BY <2>1, FilesInitially, TreeInitially, OrderInitially
             DEF RefinementInv, PathInv, OrdinaryInit
<1>2. RefinementInv /\ PathInv /\ AllOnDisk /\ AllOnDisk'
      /\ [OrdinaryNext /\ shape' = Shape']_treeVars
        => /\ RefinementInv' /\ PathInv'
           /\ [PathNamesCwd => PathNamesCwd' \/ ~ \E p \in Path : Careful(p)]_vars
  <2>1. UNCHANGED treeVars => UNCHANGED vars
    BY DEF treeVars, allVars
  <2> QED BY <2>1, RefinementStep, PathStepTyped, PwdStep
<1> QED BY <1>1, <1>2, PTL DEF OrdinarySpec, PwdFollowsCwd

\* On a disk that has every cluster of its FAT, neither theorem needs its premise.
THEOREM DiskHasItsClusters ==
  (\A c \in Clusters : OnDisk(c)) => (OrdinarySpec => ImplementsTree /\ PwdFollowsCwd)
<1> SUFFICES ASSUME \A c \in Clusters : OnDisk(c)
             PROVE  OrdinarySpec => ImplementsTree /\ PwdFollowsCwd
  OBVIOUS
<1>1. AllOnDisk
  BY DEF AllOnDisk, Allocated
<1> QED BY <1>1, TreeIsImplemented, PwdFollows, PTL

-----------------------------------------------------------------------------
(* Names, character by character.                                          *)

\* The part before a character ends where that character first is.
LEMMA BeforeStops ==
  ASSUME NEW S, NEW s \in Seq(S), NEW c, NEW m \in 0 .. Len(s),
         \A i \in 1 .. m : s[i] # c, m < Len(s) => s[m + 1] = c
  PROVE  Before(s, c) = SubSeq(s, 1, m)
<1> DEFINE stop == {k \in 1 .. Len(s) : s[k] = c}
           least == CHOOSE k \in stop : \A j \in stop : k <= j
<1>1. Len(s) \in Nat /\ m \in Nat /\ m <= Len(s)
  BY LenProperties
<1>2. CASE m = Len(s)
  <2>1. stop = {}
    BY <1>2
  <2> QED BY <1>2, <2>1 DEF Before
<1>3. CASE m < Len(s)
  <2>1. m + 1 \in stop
    BY <1>1, <1>3
  <2>2. \A j \in stop : m + 1 <= j
    BY <1>1
  <2>3. \A k \in stop : (\A j \in stop : k <= j) => k = m + 1
    BY <1>1, <2>1, <2>2
  <2>4. least = m + 1
    BY <2>1, <2>2, <2>3
  <2>5. stop # {} /\ least - 1 = m
    BY <1>1, <2>1, <2>4
  <2> QED BY <2>5 DEF Before
<1> QED BY <1>1, <1>2, <1>3

\* And there is such a place, if only the end.
LEMMA StopExists ==
  ASSUME NEW S, NEW s \in Seq(S), NEW c
  PROVE  \E m \in 0 .. Len(s) :
           (\A i \in 1 .. m : s[i] # c) /\ (m < Len(s) => s[m + 1] = c)
<1> DEFINE stop == {k \in 1 .. Len(s) : s[k] = c}
<1>1. Len(s) \in Nat
  BY LenProperties
<1>2. CASE stop = {}
  BY <1>1, <1>2
<1>3. CASE stop # {}
  <2>1. stop \subseteq Nat
    BY <1>1
  <2>2. PICK k \in stop : \A j \in stop : ~ (j < k)
    BY <1>3, <2>1, LeastNumber
  <2>3. k - 1 \in 0 .. Len(s) /\ (k - 1) + 1 = k
    BY <1>1, <2>2
  <2>4. \A i \in 1 .. k - 1 : s[i] # c
    BY <1>1, <2>2
  <2> QED BY <2>2, <2>3, <2>4
<1> QED BY <1>2, <1>3

\* The first m elements of a sequence.
LEMMA FirstPart ==
  ASSUME NEW S, NEW s \in Seq(S), NEW m \in 0 .. Len(s)
  PROVE  /\ SubSeq(s, 1, m) \in Seq(S) /\ Len(SubSeq(s, 1, m)) = m
         /\ \A i \in 1 .. m : SubSeq(s, 1, m)[i] = s[i]
<1>1. Len(s) \in Nat /\ m \in Nat /\ m <= Len(s)
  BY LenProperties
<1>2. \A i \in 1 .. m : s[i] \in S
  BY <1>1, ElementOfSeq
<1>3. /\ SubSeq(s, 1, m) \in Seq(S)
      /\ Len(SubSeq(s, 1, m)) = IF 1 <= m THEN m - 1 + 1 ELSE 0
      /\ \A i \in 1 .. m - 1 + 1 : SubSeq(s, 1, m)[i] = s[1 + i - 1]
  BY <1>1, <1>2, SubSeqProperties
<1> QED BY <1>1, <1>3

\* What follows the first k elements.
LEMMA LastPart ==
  ASSUME NEW S, NEW s \in Seq(S), NEW k \in Nat
  PROVE  /\ SubSeq(s, k + 1, Len(s)) \in Seq(S)
         /\ Len(SubSeq(s, k + 1, Len(s))) = IF k < Len(s) THEN Len(s) - k ELSE 0
         /\ \A i \in 1 .. Len(s) - k : SubSeq(s, k + 1, Len(s))[i] = s[k + i]
<1>1. Len(s) \in Nat
  BY LenProperties
<1>2. \A i \in k + 1 .. Len(s) : s[i] \in S
  <2> TAKE i \in k + 1 .. Len(s)
  <2>1. i \in 1 .. Len(s)
    BY <1>1
  <2> QED BY <2>1, ElementOfSeq
<1>3. /\ SubSeq(s, k + 1, Len(s)) \in Seq(S)
      /\ Len(SubSeq(s, k + 1, Len(s))) = IF k + 1 <= Len(s) THEN Len(s) - (k + 1) + 1 ELSE 0
      /\ \A i \in 1 .. Len(s) - (k + 1) + 1 : SubSeq(s, k + 1, Len(s))[i] = s[(k + 1) + i - 1]
  <2>1. k + 1 \in Int /\ Len(s) \in Int
    BY <1>1
  <2> QED BY <1>2, <2>1, SubSeqProperties
<1> DEFINE rest == SubSeq(s, k + 1, Len(s))
<1> HIDE DEF rest
<1>4. rest \in Seq(S)
  BY <1>3 DEF rest
<1>5. Len(rest) = IF k < Len(s) THEN Len(s) - k ELSE 0
  <2>1. Len(rest) = IF k + 1 <= Len(s) THEN Len(s) - (k + 1) + 1 ELSE 0
    BY <1>3 DEF rest
  <2> QED BY <1>1, <2>1
<1>6. ASSUME NEW i \in 1 .. Len(s) - k PROVE rest[i] = s[k + i]
  <2>1. i \in 1 .. Len(s) - (k + 1) + 1 /\ (k + 1) + i - 1 = k + i
    BY <1>1
  <2>2. rest[i] = s[(k + 1) + i - 1]
    BY <1>3, <2>1 DEF rest
  <2> QED BY <2>1, <2>2
<1> QED BY <1>4, <1>5, <1>6 DEF rest

\* How long the two parts of a typed name are, and the names without parts.
BaseOf(n) == Len(Before(n, Point))
ExtOf(n) == IF BaseOf(n) < Len(n) THEN Len(n) - BaseOf(n) - 1 ELSE 0
DotName(n) == n \in {<<Point>>, <<Point, Point>>}

\* How much of them fits the fields.
BaseShown(n) == IF BaseOf(n) <= BaseLength THEN BaseOf(n) ELSE BaseLength
ExtShown(n) == IF ExtOf(n) <= ExtLength THEN ExtOf(n) ELSE ExtLength

LEMMA BaseIs ==
  ASSUME NEW n \in Seq(Char)
  PROVE  /\ BaseOf(n) \in 0 .. Len(n) /\ Before(n, Point) = SubSeq(n, 1, BaseOf(n))
         /\ \A i \in 1 .. BaseOf(n) : n[i] # Point
         /\ BaseOf(n) < Len(n) => n[BaseOf(n) + 1] = Point
         /\ Len(n) \in Nat /\ BaseOf(n) \in Nat /\ ExtOf(n) \in Nat
<1>1. PICK m \in 0 .. Len(n) :
        (\A i \in 1 .. m : n[i] # Point) /\ (m < Len(n) => n[m + 1] = Point)
  BY StopExists
<1>2. Before(n, Point) = SubSeq(n, 1, m)
  BY <1>1, BeforeStops
<1>3. BaseOf(n) = m
  BY <1>2, FirstPart DEF BaseOf
<1>4. Len(n) \in Nat
  BY LenProperties
<1> QED BY <1>1, <1>2, <1>3, <1>4 DEF ExtOf

LEMMA UpperTypes ==
  /\ \A c \in Char : Upper[c] \in Char /\ Upper[Upper[c]] = Upper[c]
  /\ \A c \in Char : (Upper[c] = Point <=> c = Point) /\ (Upper[c] = Space <=> c = Space)
  /\ Point \in Char /\ Space \in Char /\ Point # Space
BY CharAssumption

LEMMA FieldIs ==
  ASSUME NEW s \in Seq(Char), NEW len \in Nat
  PROVE  /\ Field(s, len) \in Seq(Char) /\ Len(Field(s, len)) = len
         /\ \A i \in 1 .. len :
              Field(s, len)[i] = IF i <= Len(s) THEN Upper[s[i]] ELSE Space
<1>1. Len(s) \in Nat /\ \A i \in 1 .. Len(s) : s[i] \in Char
  BY LenProperties, ElementOfSeq
<1>2. \A i \in 1 .. len : (IF i <= Len(s) THEN Upper[s[i]] ELSE Space) \in Char
  BY <1>1, UpperTypes
<1>3. Field(s, len) \in [1 .. len -> Char]
  BY <1>2 DEF Field
<1>4. Field(s, len) \in Seq(Char) /\ Len(Field(s, len)) = len
  BY <1>3
<1> QED BY <1>4 DEF Field

LEMMA DotNameFormat ==
  ASSUME NEW n \in Seq(Char), DotName(n)
  PROVE  /\ FormatName(n) \in Seq(Char) /\ Len(FormatName(n)) = BaseLength + ExtLength
         /\ \A i \in 1 .. BaseLength + ExtLength :
              FormatName(n)[i] = IF i <= Len(n) THEN Point ELSE Space
         /\ Len(n) \in 1 .. 2 /\ \A i \in 1 .. Len(n) : n[i] = Point
<1>1. Len(n) \in 1 .. 2 /\ \A i \in 1 .. Len(n) : n[i] = Point
  BY DEF DotName
<1> DEFINE len == BaseLength + ExtLength
<1>2. FormatName(n) = Field(n, len)
  BY DEF FormatName, DotName
<1>3. len \in Nat
  BY LengthAssumption
<1> HIDE DEF len
<1>4. /\ FormatName(n) \in Seq(Char) /\ Len(FormatName(n)) = len
      /\ \A i \in 1 .. len :
           FormatName(n)[i] = IF i <= Len(n) THEN Upper[n[i]] ELSE Space
  BY <1>2, <1>3, FieldIs
<1>5. \A i \in 1 .. len : i <= Len(n) => Upper[n[i]] = Point
  BY <1>1, <1>3, UpperTypes
<1> QED BY <1>1, <1>4, <1>5 DEF len

\* format_filename(), character by character.
LEMMA FormatIs ==
  ASSUME NEW n \in Seq(Char), ~ DotName(n)
  PROVE  /\ FormatName(n) \in Seq(Char) /\ Len(FormatName(n)) = BaseLength + ExtLength
         /\ \A i \in 1 .. BaseLength :
              FormatName(n)[i] = IF i <= BaseOf(n) THEN Upper[n[i]] ELSE Space
         /\ \A i \in 1 .. ExtLength :
              FormatName(n)[BaseLength + i] =
                IF i <= ExtOf(n) THEN Upper[n[BaseOf(n) + 1 + i]] ELSE Space
<1> DEFINE base == Before(n, Point)
           ext == SubSeq(n, Len(base) + 2, Len(n))
<1>1. /\ base \in Seq(Char) /\ Len(base) = BaseOf(n)
      /\ \A i \in 1 .. BaseOf(n) : base[i] = n[i]
  BY BaseIs, FirstPart
<1>2. /\ ext \in Seq(Char) /\ Len(ext) = ExtOf(n)
      /\ \A i \in 1 .. ExtOf(n) : ext[i] = n[BaseOf(n) + 1 + i]
  <2> DEFINE k == BaseOf(n) + 1
  <2>1. k \in Nat /\ BaseOf(n) \in Nat /\ Len(n) \in Nat
    BY BaseIs
  <2>2. ext = SubSeq(n, k + 1, Len(n))
    <3>1. Len(base) + 2 = k + 1
      BY <1>1, <2>1
    <3> QED BY <3>1
  <2> HIDE DEF k, ext
  <2>3. /\ ext \in Seq(Char) /\ Len(ext) = IF k < Len(n) THEN Len(n) - k ELSE 0
        /\ \A i \in 1 .. Len(n) - k : ext[i] = n[k + i]
    BY <2>1, <2>2, LastPart
  <2>4. ExtOf(n) = IF k < Len(n) THEN Len(n) - k ELSE 0
    BY <2>1 DEF ExtOf, k
  <2>5. \A i \in 1 .. ExtOf(n) : i \in 1 .. Len(n) - k
    BY <2>1, <2>4
  <2> QED BY <2>1, <2>3, <2>4, <2>5 DEF k
<1>3. FormatName(n) = Field(base, BaseLength) \o Field(ext, ExtLength)
  BY DEF FormatName, DotName
<1> HIDE DEF base, ext
<1> DEFINE f == Field(base, BaseLength)
           g == Field(ext, ExtLength)
<1>4. /\ f \in Seq(Char) /\ Len(f) = BaseLength
      /\ \A i \in 1 .. BaseLength : f[i] = IF i <= Len(base) THEN Upper[base[i]] ELSE Space
  BY <1>1, FieldIs, LengthAssumption
<1>5. /\ g \in Seq(Char) /\ Len(g) = ExtLength
      /\ \A i \in 1 .. ExtLength : g[i] = IF i <= Len(ext) THEN Upper[ext[i]] ELSE Space
  BY <1>2, FieldIs, LengthAssumption
<1> HIDE DEF f, g
<1>6. /\ f \o g \in Seq(Char) /\ Len(f \o g) = BaseLength + ExtLength
      /\ \A i \in 1 .. BaseLength + ExtLength :
           (f \o g)[i] = IF i <= BaseLength THEN f[i] ELSE g[i - BaseLength]
  BY <1>4, <1>5, ConcatProperties
<1>7. FormatName(n) = f \o g
  BY <1>3 DEF f, g
<1>8. ASSUME NEW i \in 1 .. BaseLength
      PROVE  FormatName(n)[i] = IF i <= BaseOf(n) THEN Upper[n[i]] ELSE Space
  <2>1. i \in 1 .. BaseLength + ExtLength /\ i <= BaseLength
    BY LengthAssumption
  <2>2. i <= BaseOf(n) => base[i] = n[i]
    BY <1>1, BaseIs, LengthAssumption
  <2> QED BY <1>1, <1>4, <1>6, <1>7, <2>1, <2>2
<1>9. ASSUME NEW i \in 1 .. ExtLength
      PROVE  FormatName(n)[BaseLength + i] =
                IF i <= ExtOf(n) THEN Upper[n[BaseOf(n) + 1 + i]] ELSE Space
  <2>1. /\ BaseLength + i \in 1 .. BaseLength + ExtLength /\ ~ (BaseLength + i <= BaseLength)
        /\ (BaseLength + i) - BaseLength = i
    BY LengthAssumption
  <2>2. i <= ExtOf(n) => ext[i] = n[BaseOf(n) + 1 + i]
    BY <1>2, BaseIs, LengthAssumption
  <2>3. FormatName(n)[BaseLength + i] = g[i]
    BY <1>6, <1>7, <2>1
  <2> QED BY <1>2, <1>5, <2>2, <2>3
<1> QED BY <1>6, <1>7, <1>8, <1>9

LEMMA BaseFrom ==
  ASSUME NEW q \in Seq(Char), NEW m \in 0 .. Len(q),
         \A i \in 1 .. m : q[i] # Point, m < Len(q) => q[m + 1] = Point
  PROVE  BaseOf(q) = m
<1>1. Before(q, Point) = SubSeq(q, 1, m)
  BY BeforeStops
<1> QED BY <1>1, FirstPart DEF BaseOf

\* Two names with the same characters in both fields.
LEMMA SameFields ==
  ASSUME NEW p \in Seq(Char), NEW q \in Seq(Char), ~ DotName(p), ~ DotName(q),
         \A i \in 1 .. BaseLength : FormatName(p)[i] = FormatName(q)[i],
         \A i \in 1 .. ExtLength : FormatName(p)[BaseLength + i] = FormatName(q)[BaseLength + i]
  PROVE  FormatName(p) = FormatName(q)
<1>1. /\ FormatName(p) \in Seq(Char) /\ Len(FormatName(p)) = BaseLength + ExtLength
      /\ FormatName(q) \in Seq(Char) /\ Len(FormatName(q)) = BaseLength + ExtLength
  BY FormatIs
<1>2. ASSUME NEW i \in 1 .. BaseLength + ExtLength
      PROVE  FormatName(p)[i] = FormatName(q)[i]
  <2>1. CASE i <= BaseLength
    <3>1. i \in 1 .. BaseLength
      BY <2>1, LengthAssumption
    <3> QED BY <3>1
  <2>2. CASE i > BaseLength
    <3>1. i - BaseLength \in 1 .. ExtLength /\ i = BaseLength + (i - BaseLength)
      BY <2>2, LengthAssumption
    <3> QED BY <3>1
  <2> QED BY <2>1, <2>2, LengthAssumption
<1> QED BY <1>1, <1>2, SeqEqual

\* parse_filename(), character by character, for fields of b and e characters.
LEMMA ParseIs ==
  ASSUME NEW s \in Seq(Char), Len(s) = BaseLength + ExtLength,
         NEW b \in 0 .. BaseLength, NEW e \in 0 .. ExtLength,
         \A i \in 1 .. b : s[i] # Space, b < BaseLength => s[b + 1] = Space,
         \A i \in 1 .. e : s[BaseLength + i] # Space,
         e < ExtLength => s[BaseLength + (e + 1)] = Space
  PROVE  /\ ParseName(s) \in Seq(Char)
         /\ Len(ParseName(s)) = IF e = 0 THEN b ELSE b + 1 + e
         /\ \A i \in 1 .. b : ParseName(s)[i] = s[i]
         /\ e > 0 => ParseName(s)[b + 1] = Point
         /\ \A i \in 1 .. e : ParseName(s)[b + 1 + i] = s[BaseLength + i]
<1> DEFINE x == SubSeq(s, 1, BaseLength)
           y == SubSeq(s, BaseLength + 1, BaseLength + ExtLength)
           base == Before(x, Space)
           ext == Before(y, Space)
<1>1. /\ x \in Seq(Char) /\ Len(x) = BaseLength
      /\ \A i \in 1 .. BaseLength : x[i] = s[i]
  <2>1. BaseLength \in 0 .. Len(s)
    BY LengthAssumption
  <2> QED BY <2>1, FirstPart
<1>2. /\ y \in Seq(Char) /\ Len(y) = ExtLength
      /\ \A i \in 1 .. ExtLength : y[i] = s[BaseLength + i]
  <2>1. /\ BaseLength \in Nat /\ BaseLength < Len(s) /\ Len(s) - BaseLength = ExtLength
        /\ y = SubSeq(s, BaseLength + 1, Len(s))
    BY LengthAssumption
  <2> QED BY <2>1, LastPart
<1> HIDE DEF x, y
<1>3. base \in Seq(Char) /\ Len(base) = b /\ \A i \in 1 .. b : base[i] = s[i]
  <2>1. b \in 0 .. Len(x)
    BY <1>1
  <2>2. \A i \in 1 .. b : i \in 1 .. BaseLength /\ x[i] # Space
    BY <1>1, LengthAssumption
  <2>3. b < Len(x) => x[b + 1] = Space
    BY <1>1, LengthAssumption
  <2>4. base = SubSeq(x, 1, b)
    BY <1>1, <2>1, <2>2, <2>3, BeforeStops
  <2> QED BY <1>1, <2>1, <2>2, <2>4, FirstPart
<1>4. ext \in Seq(Char) /\ Len(ext) = e /\ \A i \in 1 .. e : ext[i] = s[BaseLength + i]
  <2>1. e \in 0 .. Len(y)
    BY <1>2
  <2>2. \A i \in 1 .. e : i \in 1 .. ExtLength /\ y[i] # Space
    BY <1>2, LengthAssumption
  <2>3. e < Len(y) => y[e + 1] = Space
    BY <1>2, LengthAssumption
  <2>4. ext = SubSeq(y, 1, e)
    BY <1>2, <2>1, <2>2, <2>3, BeforeStops
  <2> QED BY <1>2, <2>1, <2>2, <2>4, FirstPart
<1>5. ParseName(s) = IF ext = <<>> THEN base ELSE base \o <<Point>> \o ext
  BY DEF ParseName, x, y
<1> HIDE DEF base, ext
<1>6. CASE e = 0
  <2>1. ext = <<>>
    BY <1>4, <1>6, EmptySeq
  <2> QED BY <1>3, <1>5, <1>6, <2>1
<1>7. CASE e > 0
  <2> DEFINE dotted == base \o <<Point>>
  <2>1. ext # <<>>
    BY <1>4, <1>7
  <2>2. <<Point>> \in Seq(Char) /\ Len(<<Point>>) = 1 /\ <<Point>>[1] = Point
    BY UpperTypes
  <2>3. /\ dotted \in Seq(Char) /\ Len(dotted) = b + 1
        /\ \A i \in 1 .. b + 1 : dotted[i] = IF i <= b THEN base[i] ELSE <<Point>>[i - b]
    BY <1>3, <2>2, ConcatProperties
  <2>4. b \in Nat /\ e \in Nat /\ b + 1 \in 1 .. b + 1 /\ ~ (b + 1 <= b) /\ (b + 1) - b = 1
    BY LengthAssumption
  <2>5. (\A i \in 1 .. b : dotted[i] = base[i]) /\ dotted[b + 1] = Point
    <3>1. \A i \in 1 .. b : i \in 1 .. b + 1 /\ i <= b
      BY <2>4
    <3> QED BY <2>2, <2>3, <2>4, <3>1
  <2> HIDE DEF dotted
  <2>6. /\ dotted \o ext \in Seq(Char) /\ Len(dotted \o ext) = (b + 1) + e
        /\ \A i \in 1 .. (b + 1) + e :
             (dotted \o ext)[i] = IF i <= b + 1 THEN dotted[i] ELSE ext[i - (b + 1)]
    <3>1. /\ dotted \o ext \in Seq(Char) /\ Len(dotted \o ext) = Len(dotted) + Len(ext)
          /\ \A i \in 1 .. Len(dotted) + Len(ext) :
               (dotted \o ext)[i] =
                 IF i <= Len(dotted) THEN dotted[i] ELSE ext[i - Len(dotted)]
      <4>1. dotted \in Seq(Char) /\ ext \in Seq(Char)
        BY <1>4, <2>3
      <4> HIDE DEF dotted
      <4> QED BY <4>1, ConcatProperties
    <3> QED BY <1>4, <2>3, <3>1
  <2>7. ParseName(s) = dotted \o ext
    BY <1>5, <2>1 DEF dotted
  <2>8. /\ \A i \in 1 .. b + 1 : i \in 1 .. (b + 1) + e /\ i <= b + 1
        /\ \A i \in 1 .. e : /\ (b + 1) + i \in 1 .. (b + 1) + e /\ ~ ((b + 1) + i <= b + 1)
                             /\ ((b + 1) + i) - (b + 1) = i
        /\ \A i \in 1 .. b : i \in 1 .. b + 1
    BY <2>4
  <2>9. /\ \A i \in 1 .. b + 1 : ParseName(s)[i] = dotted[i]
        /\ \A i \in 1 .. e : ParseName(s)[b + 1 + i] = ext[i]
    BY <2>6, <2>7, <2>8
  <2> QED BY <1>3, <1>4, <1>7, <2>4, <2>5, <2>6, <2>7, <2>8, <2>9
<1> QED BY <1>6, <1>7

\* What ls shows of a name without spaces: both its parts, cut to their fields and
\* in upper case.
LEMMA ListedIs ==
  ASSUME NEW n \in Seq(Char), ~ DotName(n), Spaceless(n)
  PROVE  LET b == BaseShown(n)
             e == ExtShown(n)
             q == ParseName(FormatName(n))
         IN  /\ b \in 0 .. BaseLength /\ e \in 0 .. ExtLength
             /\ q \in Seq(Char) /\ Len(q) = IF e = 0 THEN b ELSE b + 1 + e
             /\ \A i \in 1 .. b : q[i] = Upper[n[i]]
             /\ e > 0 => q[b + 1] = Point
             /\ \A i \in 1 .. e : q[b + 1 + i] = Upper[n[BaseOf(n) + 1 + i]]
<1> DEFINE s == FormatName(n)
           b == BaseShown(n)
           e == ExtShown(n)
           q == ParseName(s)
<1>1. /\ s \in Seq(Char) /\ Len(s) = BaseLength + ExtLength
      /\ \A i \in 1 .. BaseLength : s[i] = IF i <= BaseOf(n) THEN Upper[n[i]] ELSE Space
      /\ \A i \in 1 .. ExtLength :
           s[BaseLength + i] = IF i <= ExtOf(n) THEN Upper[n[BaseOf(n) + 1 + i]] ELSE Space
  BY FormatIs
<1> HIDE DEF s
<1>2. /\ BaseOf(n) \in Nat /\ ExtOf(n) \in Nat /\ Len(n) \in Nat /\ BaseOf(n) <= Len(n)
      /\ ExtOf(n) > 0 => BaseOf(n) + 1 + ExtOf(n) = Len(n)
  BY BaseIs DEF ExtOf
<1>3. b \in 0 .. BaseLength /\ e \in 0 .. ExtLength /\ b <= BaseOf(n) /\ e <= ExtOf(n)
  BY <1>2, LengthAssumption DEF BaseShown, ExtShown
<1>12. (b < BaseLength => b = BaseOf(n)) /\ (e < ExtLength => e = ExtOf(n))
  BY <1>2, LengthAssumption DEF BaseShown, ExtShown
<1> HIDE DEF b, e
<1>4. \A i \in 1 .. Len(n) : Upper[n[i]] # Space
  <2> TAKE i \in 1 .. Len(n)
  <2>1. n[i] \in Char /\ n[i] # Space
    BY ElementOfSeq DEF Spaceless
  <2> QED BY <2>1, UpperTypes
<1>5. ASSUME NEW i \in 1 .. b PROVE s[i] = Upper[n[i]] /\ s[i] # Space
  <2>1. i \in 1 .. BaseLength /\ i <= BaseOf(n) /\ i \in 1 .. Len(n)
    BY <1>2, <1>3, LengthAssumption
  <2> QED BY <1>1, <1>4, <2>1
<1>6. ASSUME NEW i \in 1 .. e
      PROVE  s[BaseLength + i] = Upper[n[BaseOf(n) + 1 + i]] /\ s[BaseLength + i] # Space
  <2>1. i \in 1 .. ExtLength /\ i <= ExtOf(n) /\ BaseOf(n) + 1 + i \in 1 .. Len(n)
    BY <1>2, <1>3, LengthAssumption
  <2> QED BY <1>1, <1>4, <2>1
<1>7. b < BaseLength => s[b + 1] = Space
  <2>1. b < BaseLength => b + 1 \in 1 .. BaseLength /\ ~ (b + 1 <= BaseOf(n))
    BY <1>2, <1>3, <1>12, LengthAssumption
  <2> QED BY <1>1, <2>1
<1>8. e < ExtLength => s[BaseLength + (e + 1)] = Space
  <2>1. e < ExtLength => e + 1 \in 1 .. ExtLength /\ ~ (e + 1 <= ExtOf(n))
    BY <1>2, <1>3, <1>12, LengthAssumption
  <2> QED BY <1>1, <2>1
<1>9. (\A i \in 1 .. b : s[i] # Space) /\ \A i \in 1 .. e : s[BaseLength + i] # Space
  BY <1>5, <1>6
<1>10. /\ q \in Seq(Char)
       /\ Len(q) = IF e = 0 THEN b ELSE b + 1 + e
       /\ \A i \in 1 .. b : q[i] = s[i]
       /\ e > 0 => q[b + 1] = Point
       /\ \A i \in 1 .. e : q[b + 1 + i] = s[BaseLength + i]
  <2>1. s \in Seq(Char) /\ Len(s) = BaseLength + ExtLength
    BY <1>1
  <2> QED BY <1>3, <1>7, <1>8, <1>9, <2>1, ParseIs
<1>11. /\ \A i \in 1 .. b : q[i] = Upper[n[i]]
       /\ \A i \in 1 .. e : q[b + 1 + i] = Upper[n[BaseOf(n) + 1 + i]]
  BY <1>5, <1>6, <1>10
<1> QED BY <1>3, <1>10, <1>11 DEF b, e, s

\* "." and ".." are shown as they are.
LEMMA DotNameShown ==
  ASSUME NEW n \in Seq(Char), DotName(n)
  PROVE  ParseName(FormatName(n)) = n
<1> DEFINE s == FormatName(n)
<1>1. /\ s \in Seq(Char) /\ Len(s) = BaseLength + ExtLength
      /\ \A i \in 1 .. BaseLength + ExtLength : s[i] = IF i <= Len(n) THEN Point ELSE Space
      /\ Len(n) \in 1 .. 2 /\ \A i \in 1 .. Len(n) : n[i] = Point
  BY DotNameFormat
<1> HIDE DEF s
<1>2. Len(n) \in 0 .. BaseLength /\ 0 \in 0 .. ExtLength
  BY <1>1, LengthAssumption
<1>3. \A i \in 1 .. Len(n) : s[i] = Point /\ s[i] # Space
  <2>1. \A i \in 1 .. Len(n) : i \in 1 .. BaseLength + ExtLength /\ i <= Len(n)
    BY <1>1, LengthAssumption
  <2> QED BY <1>1, <2>1, UpperTypes
<1>4. Len(n) < BaseLength => s[Len(n) + 1] = Space
  <2>1. Len(n) + 1 \in 1 .. BaseLength + ExtLength /\ ~ (Len(n) + 1 <= Len(n))
    BY <1>1, LengthAssumption
  <2> QED BY <1>1, <2>1
<1>5. 0 < ExtLength => s[BaseLength + (0 + 1)] = Space
  <2>1. /\ BaseLength + (0 + 1) \in 1 .. BaseLength + ExtLength
        /\ ~ (BaseLength + (0 + 1) <= Len(n))
    BY <1>1, LengthAssumption
  <2> QED BY <1>1, <2>1
<1>6. \A i \in 1 .. 0 : s[BaseLength + i] # Space
  OBVIOUS
<1>7. /\ ParseName(s) \in Seq(Char) /\ Len(ParseName(s)) = Len(n)
      /\ \A i \in 1 .. Len(n) : ParseName(s)[i] = s[i]
  BY <1>1, <1>2, <1>3, <1>4, <1>5, <1>6, ParseIs
<1>8. ParseName(s) = n
  BY <1>1, <1>3, <1>7, SeqEqual
<1> QED BY <1>8 DEF s

\* What ls shows, typed back, is formatted to the entry it was shown for.
LEMMA ListedAgain ==
  ASSUME NEW n \in Seq(Char), Spaceless(n)
  PROVE  /\ ParseName(FormatName(n)) \in Seq(Char)
         /\ FormatName(ParseName(FormatName(n))) = FormatName(n)
<1>1. CASE DotName(n)
  BY <1>1, DotNameShown
<1>2. CASE ~ DotName(n)
  <2> DEFINE L == BaseOf(n)
             x == ExtOf(n)
             b == BaseShown(n)
             e == ExtShown(n)
             q == ParseName(FormatName(n))
  <2>1. /\ b \in 0 .. BaseLength /\ e \in 0 .. ExtLength
        /\ q \in Seq(Char) /\ Len(q) = IF e = 0 THEN b ELSE b + 1 + e
        /\ \A i \in 1 .. b : q[i] = Upper[n[i]]
        /\ e > 0 => q[b + 1] = Point
        /\ \A i \in 1 .. e : q[b + 1 + i] = Upper[n[L + 1 + i]]
    BY <1>2, ListedIs
  <2>2. /\ L \in Nat /\ x \in Nat /\ Len(n) \in Nat /\ L <= Len(n)
        /\ x > 0 => L + 1 + x = Len(n)
        /\ \A i \in 1 .. L : n[i] # Point
        /\ L < Len(n) => n[L + 1] = Point
    BY BaseIs DEF ExtOf
  <2>3. b \in Nat /\ e \in Nat /\ b <= L /\ e <= x
    BY <2>1, <2>2, LengthAssumption DEF BaseShown, ExtShown
  <2>4. \A i \in 1 .. Len(n) : n[i] \in Char
    BY ElementOfSeq
  <2>5. /\ \A i \in 1 .. BaseLength : i <= b <=> i <= L
        /\ \A i \in 1 .. ExtLength : i <= e <=> i <= x
    BY <2>2, LengthAssumption DEF BaseShown, ExtShown
  <2> HIDE DEF L, x, b, e, q
  <2>6. ASSUME NEW i \in 1 .. b PROVE q[i] # Point /\ Upper[q[i]] = Upper[n[i]]
    <3>1. i \in 1 .. L /\ i \in 1 .. Len(n)
      BY <2>2, <2>3
    <3> QED BY <2>1, <2>2, <2>4, <3>1, UpperTypes
  <2>7. BaseOf(q) = b
    <3>1. b \in 0 .. Len(q) /\ (b < Len(q) => e > 0)
      BY <2>1, <2>3
    <3> QED BY <2>1, <2>6, <3>1, BaseFrom
  <2>8. ExtOf(q) = e
    BY <2>1, <2>3, <2>7 DEF ExtOf
  <2>9. ~ DotName(q)
    <3> SUFFICES ASSUME DotName(q) PROVE FALSE
      OBVIOUS
    <3>1. Len(q) \in 1 .. 2 /\ q[1] = Point /\ (Len(q) = 2 => q[2] = Point)
      BY DEF DotName
    <3>2. b = 0
      BY <2>3, <2>6, <3>1
    <3>3. e = 1 /\ q[2] = Point
      BY <2>1, <2>3, <3>1, <3>2
    <3>4. L = 0 /\ x = 1
      BY <2>2, <3>2, <3>3, LengthAssumption DEF b, e, L, x, BaseShown, ExtShown
    <3>5. Len(n) = 2 /\ n[1] = Point
      BY <2>2, <3>4
    <3>6. n[2] = Point
      <4>1. q[0 + 1 + 1] = Upper[n[0 + 1 + 1]]
        BY <2>1, <3>2, <3>3, <3>4
      <4>2. Upper[n[2]] = Point /\ n[2] \in Char
        BY <2>4, <3>3, <3>5, <4>1
      <4> QED BY <4>2, UpperTypes
    <3>7. n = <<Point, Point>>
      BY <3>5, <3>6
    <3> QED BY <1>2, <3>7 DEF DotName
  <2>10. ASSUME NEW i \in 1 .. BaseLength PROVE FormatName(q)[i] = FormatName(n)[i]
    <3>1. FormatName(q)[i] = IF i <= b THEN Upper[q[i]] ELSE Space
      BY <2>1, <2>7, <2>9, FormatIs
    <3>2. FormatName(n)[i] = IF i <= L THEN Upper[n[i]] ELSE Space
      BY <1>2, FormatIs DEF L
    <3>3. i <= b => i \in 1 .. b
      BY <2>3
    <3> QED BY <2>5, <2>6, <3>1, <3>2, <3>3
  <2>11. ASSUME NEW i \in 1 .. ExtLength
         PROVE  FormatName(q)[BaseLength + i] = FormatName(n)[BaseLength + i]
    <3>1. FormatName(q)[BaseLength + i] = IF i <= e THEN Upper[q[b + 1 + i]] ELSE Space
      BY <2>1, <2>7, <2>8, <2>9, FormatIs
    <3>2. FormatName(n)[BaseLength + i] = IF i <= x THEN Upper[n[L + 1 + i]] ELSE Space
      BY <1>2, FormatIs DEF L, x
    <3>3. ASSUME i <= e PROVE Upper[q[b + 1 + i]] = Upper[n[L + 1 + i]]
      <4>1. i \in 1 .. e /\ L + 1 + i \in 1 .. Len(n)
        BY <2>2, <2>3, <3>3
      <4> QED BY <2>1, <2>4, <4>1, UpperTypes
    <3> QED BY <2>5, <3>1, <3>2, <3>3
  <2>12. FormatName(q) = FormatName(n)
    BY <1>2, <2>1, <2>9, <2>10, <2>11, SameFields
  <2> QED BY <2>1, <2>12 DEF q
<1> QED BY <1>1, <1>2

LEMMA FunctionIsSeq ==
  ASSUME NEW S, NEW k \in Nat, NEW f \in [1 .. k -> S]
  PROVE  f \in Seq(S) /\ Len(f) = k
OBVIOUS

LEMMA SameNameIs ==
  ASSUME NEW p \in Seq(Char), NEW q \in Seq(Char)
  PROVE  SameName(p, q) <=>
           Len(p) = Len(q) /\ \A i \in 1 .. Len(p) : Upper[p[i]] = Upper[q[i]]
<1> DEFINE u == UpperName(p)
           v == UpperName(q)
<1>1. Len(p) \in Nat /\ Len(q) \in Nat
  BY LenProperties
<1>2. /\ \A i \in 1 .. Len(p) : Upper[p[i]] \in Char
      /\ \A i \in 1 .. Len(q) : Upper[q[i]] \in Char
  BY ElementOfSeq, UpperTypes
<1>3. u \in [1 .. Len(p) -> Char] /\ v \in [1 .. Len(q) -> Char]
  BY <1>2 DEF UpperName
<1>4. /\ \A i \in 1 .. Len(p) : u[i] = Upper[p[i]]
      /\ \A i \in 1 .. Len(q) : v[i] = Upper[q[i]]
  BY DEF UpperName
<1>5. SameName(p, q) <=> u = v
  BY DEF SameName
<1> HIDE DEF u, v
<1>6. u \in Seq(Char) /\ Len(u) = Len(p) /\ v \in Seq(Char) /\ Len(v) = Len(q)
  BY <1>1, <1>3, FunctionIsSeq
<1>7. u = v <=> Len(u) = Len(v) /\ \A i \in 1 .. Len(u) : u[i] = v[i]
  BY <1>6, SeqEqual
<1> QED BY <1>4, <1>5, <1>6, <1>7

\* format_filename() does not see case.
LEMMA FormatFolds ==
  ASSUME NEW p \in Seq(Char), NEW q \in Seq(Char), SameName(p, q)
  PROVE  FormatName(p) = FormatName(q)
<1>1. Len(p) = Len(q) /\ \A i \in 1 .. Len(p) : Upper[p[i]] = Upper[q[i]]
  BY SameNameIs
<1>2. Len(p) \in Nat /\ \A i \in 1 .. Len(p) : p[i] \in Char /\ q[i] \in Char
  BY <1>1, LenProperties, ElementOfSeq
<1>3. \A i \in 1 .. Len(p) : p[i] = Point <=> q[i] = Point
  BY <1>1, <1>2, UpperTypes
<1>4. DotName(p) \/ DotName(q) => p = q
  <2>1. DotName(p) => \A i \in 1 .. Len(p) : p[i] = Point
    BY DEF DotName
  <2>2. DotName(q) => \A i \in 1 .. Len(q) : q[i] = Point
    BY DEF DotName
  <2>3. (\A i \in 1 .. Len(p) : p[i] = Point /\ q[i] = Point) => p = q
    BY <1>1, SeqEqual
  <2> QED BY <1>1, <1>3, <2>1, <2>2, <2>3
<1>5. CASE ~ DotName(p) /\ ~ DotName(q)
  <2> DEFINE L == BaseOf(p)
  <2>1. /\ L \in 0 .. Len(p) /\ \A i \in 1 .. L : p[i] # Point
        /\ L < Len(p) => p[L + 1] = Point
        /\ L \in Nat
    BY BaseIs
  <2> HIDE DEF L
  <2>2. BaseOf(q) = L
    <3>1. L \in 0 .. Len(q) /\ \A i \in 1 .. L : i \in 1 .. Len(p)
      BY <1>1, <1>2, <2>1
    <3>2. L < Len(q) => L + 1 \in 1 .. Len(p)
      BY <1>1, <1>2, <2>1
    <3>3. (\A i \in 1 .. L : q[i] # Point) /\ (L < Len(q) => q[L + 1] = Point)
      BY <1>1, <1>3, <2>1, <3>1, <3>2
    <3> QED BY <3>1, <3>3, BaseFrom
  <2>3. ExtOf(q) = ExtOf(p)
    BY <1>1, <2>2 DEF ExtOf, L
  <2>4. \A i \in 1 .. BaseLength : FormatName(p)[i] = FormatName(q)[i]
    <3> TAKE i \in 1 .. BaseLength
    <3>1. FormatName(p)[i] = IF i <= L THEN Upper[p[i]] ELSE Space
      BY <1>5, FormatIs DEF L
    <3>2. FormatName(q)[i] = IF i <= L THEN Upper[q[i]] ELSE Space
      BY <1>5, <2>2, FormatIs
    <3>3. i <= L => i \in 1 .. Len(p)
      BY <1>2, <2>1, LengthAssumption
    <3> QED BY <1>1, <3>1, <3>2, <3>3
  <2>5. \A i \in 1 .. ExtLength : FormatName(p)[BaseLength + i] = FormatName(q)[BaseLength + i]
    <3> TAKE i \in 1 .. ExtLength
    <3>1. FormatName(p)[BaseLength + i] = IF i <= ExtOf(p) THEN Upper[p[L + 1 + i]] ELSE Space
      BY <1>5, FormatIs DEF L
    <3>2. FormatName(q)[BaseLength + i] = IF i <= ExtOf(p) THEN Upper[q[L + 1 + i]] ELSE Space
      BY <1>5, <2>2, <2>3, FormatIs
    <3>3. i <= ExtOf(p) => L + 1 + i \in 1 .. Len(p)
      BY <1>2, <2>1, LengthAssumption DEF ExtOf, L
    <3> QED BY <1>1, <3>1, <3>2, <3>3
  <2> QED BY <1>5, <2>4, <2>5, SameFields
<1> QED BY <1>4, <1>5

\* The two tests of find_dir_entry() agree on names without spaces.
LEMMA SpellingAgrees ==
  ASSUME NEW n \in Seq(Char), NEW t \in Seq(Char), Spaceless(n)
  PROVE  Finds(t, FormatName(n)) <=> FormatName(n) = FormatName(t)
<1> DEFINE shown == ParseName(FormatName(n))
<1>1. shown \in Seq(Char) /\ FormatName(shown) = FormatName(n)
  BY ListedAgain
<1> HIDE DEF shown
<1>2. SameName(shown, t) => FormatName(n) = FormatName(t)
  BY <1>1, FormatFolds
<1> QED BY <1>2 DEF Finds, shown

\* A name that fits its fields is shown as it is, but for case.
LEMMA EightThreeShown ==
  ASSUME NEW n \in Seq(Char), EightThree(n)
  PROVE  Spaceless(n) /\ SameName(ParseName(FormatName(n)), n)
<1> DEFINE L == BaseOf(n)
           x == ExtOf(n)
           q == ParseName(FormatName(n))
           ext == SubSeq(n, Len(Before(n, Point)) + 2, Len(n))
<1>1. /\ L \in Nat /\ x \in Nat /\ Len(n) \in Nat /\ L <= Len(n)
      /\ \A i \in 1 .. L : n[i] # Point
      /\ L < Len(n) => n[L + 1] = Point
      /\ L < Len(n) => x = Len(n) - L - 1
      /\ ~ (L < Len(n)) => x = 0
  BY BaseIs DEF ExtOf
<1>2. ext \in Seq(Char) /\ Len(ext) = x
  <2>1. /\ SubSeq(n, (L + 1) + 1, Len(n)) \in Seq(Char)
        /\ Len(SubSeq(n, (L + 1) + 1, Len(n))) = IF L + 1 < Len(n) THEN Len(n) - (L + 1) ELSE 0
    <3>1. L + 1 \in Nat
      BY <1>1
    <3> HIDE DEF L
    <3> QED BY <3>1, LastPart
  <2>2. (L + 1) + 1 = Len(Before(n, Point)) + 2
    BY <1>1 DEF BaseOf
  <2> QED BY <1>1, <2>1, <2>2
<1>3. /\ Spaceless(n) /\ L \in 1 .. BaseLength /\ Len(ext) <= ExtLength
      /\ Len(n) = L + (IF ext = <<>> THEN 0 ELSE 1 + Len(ext))
  BY DEF EightThree, BaseOf
<1>4. x <= ExtLength /\ (x = 0 => Len(n) = L) /\ (x > 0 => Len(n) = L + 1 + x)
  <2>1. ext = <<>> <=> x = 0
    BY <1>2, EmptySeq
  <2>2. x <= ExtLength
    BY <1>2, <1>3
  <2>3. CASE x = 0
    <3>1. Len(n) = L + 0
      BY <1>3, <2>1, <2>3
    <3> QED BY <1>1, <2>2, <2>3, <3>1
  <2>4. CASE x > 0
    <3>1. L < Len(n)
      BY <1>1, <2>4
    <3> QED BY <1>1, <2>2, <2>4, <3>1
  <2> QED BY <1>1, <2>3, <2>4
<1>5. ~ DotName(n)
  <2>1. 1 \in 1 .. L
    BY <1>3
  <2>2. n[1] # Point
    BY <1>1, <2>1
  <2> QED BY <2>2 DEF DotName
<1>6. BaseShown(n) = L /\ ExtShown(n) = x
  BY <1>3, <1>4 DEF BaseShown, ExtShown
<1>7. /\ q \in Seq(Char) /\ Len(q) = IF x = 0 THEN L ELSE L + 1 + x
      /\ \A i \in 1 .. L : q[i] = Upper[n[i]]
      /\ x > 0 => q[L + 1] = Point
      /\ \A i \in 1 .. x : q[L + 1 + i] = Upper[n[L + 1 + i]]
  BY <1>3, <1>5, <1>6, ListedIs
<1> HIDE DEF L, x, q, ext
<1>8. \A i \in 1 .. Len(n) : n[i] \in Char
  BY ElementOfSeq
<1>9. ASSUME NEW i \in 1 .. Len(n) PROVE Upper[q[i]] = Upper[n[i]]
  <2>1. CASE i <= L
    <3>1. i \in 1 .. L
      BY <1>1, <2>1
    <3> QED BY <1>7, <1>8, <3>1, UpperTypes
  <2>2. CASE i = L + 1
    <3>1. x > 0 /\ L < Len(n)
      BY <1>1, <1>4, <2>2
    <3> QED BY <1>1, <1>7, <2>2, <3>1
  <2>3. CASE i > L + 1
    <3>1. i - (L + 1) \in 1 .. x /\ L + 1 + (i - (L + 1)) = i
      BY <1>1, <1>4, <2>3
    <3>2. q[i] = Upper[n[i]]
      BY <1>7, <3>1
    <3> QED BY <1>8, <3>2, UpperTypes
  <2> QED BY <1>1, <2>1, <2>2, <2>3
<1>10. SameName(q, n)
  <2>1. Len(q) = Len(n)
    BY <1>1, <1>4, <1>7
  <2> QED BY <1>7, <1>9, <2>1, SameNameIs
<1> QED BY <1>3, <1>10 DEF q

\* The three parts of the property, for names of any length.
LEMMA NamesFind ==
  ASSUME stored \in Seq(Char), typed \in Seq(Char)
  PROVE  NamesFindTheirEntries
<1>1. SpellingIsFormatting
  BY SpellingAgrees DEF SpellingIsFormatting
<1>2. EightThreeNamesKeptApart
  <2> SUFFICES ASSUME EightThree(stored), EightThree(typed)
               PROVE  Finds(typed, FormatName(stored)) <=> SameName(stored, typed)
    BY DEF EightThreeNamesKeptApart
  <2>1. /\ Spaceless(stored) /\ SameName(ParseName(FormatName(stored)), stored)
        /\ Spaceless(typed) /\ SameName(ParseName(FormatName(typed)), typed)
    BY EightThreeShown
  <2>2. Finds(typed, FormatName(stored)) <=> FormatName(stored) = FormatName(typed)
    BY <2>1, SpellingAgrees
  <2>3. SameName(stored, typed) => FormatName(stored) = FormatName(typed)
    BY FormatFolds
  <2>4. FormatName(stored) = FormatName(typed) => SameName(stored, typed)
    BY <2>1 DEF SameName
  <2> QED BY <2>2, <2>3, <2>4
<1>3. ListedNameNamesEntry
  BY ListedAgain DEF ListedNameNamesEntry
<1> QED BY <1>1, <1>2, <1>3 DEF NamesFindTheirEntries

\* Whatever was created with a name is found by that name and by what ls prints for
\* it, and two names that fit 8.3 share an entry only if they differ in case, for
\* every alphabet, names of every length and fields of two characters or more.
THEOREM NamesAlwaysFind == NamesSpec => []NamesFindTheirEntries
<1> DEFINE Typed == stored \in Seq(Char) /\ typed \in Seq(Char)
<1>1. NamesInit => Typed
  BY EmptySeq DEF NamesInit
<1>2. Typed /\ [NamesNext]_<<stored, typed>> => Typed'
  <2> SUFFICES ASSUME Typed, [NamesNext]_<<stored, typed>> PROVE Typed'
    OBVIOUS
  <2>1. ASSUME NEW c \in Char, Storing(c) \/ Typing(c) PROVE Typed'
    <3>1. Append(stored, c) \in Seq(Char) /\ Append(typed, c) \in Seq(Char)
      BY AppendProperties
    <3> QED BY <2>1, <3>1 DEF Storing, Typing
  <2>2. CASE UNCHANGED <<stored, typed>>
    BY <2>2
  <2> QED BY <2>1, <2>2 DEF NamesNext
<1>3. Typed => NamesFindTheirEntries
  BY NamesFind
<1> QED BY <1>1, <1>2, <1>3, PTL DEF NamesSpec

\* Tables made of these conversions have what NameAssumption asks of Format and
\* Spells, and say which names find which entries: what is proved of the file system
\* holds of format_filename() and parse_filename() on names of every length.
THEOREM ConversionsAreTables ==
  ASSUME NEW Given \in SUBSET Seq(Char), {<<Point>>, <<Point, Point>>} \subseteq Given
  PROVE  LET Shorts == {FormatName(n) : n \in Given}
             FormatTable == [n \in Given |-> FormatName(n)]
             SpellsTable == [n \in Given |-> {s \in Shorts : SameName(ParseName(s), n)}]
         IN  /\ FormatTable \in [Given -> Shorts]
             /\ SpellsTable \in [Given -> SUBSET Shorts]
             /\ FormatTable[<<Point>>] # FormatTable[<<Point, Point>>]
             /\ FormatTable[<<Point>>] \notin SpellsTable[<<Point, Point>>]
             /\ \A n, m \in Given :
                  Finds(n, FormatName(m)) <=>
                    FormatName(m) = FormatTable[n] \/ FormatName(m) \in SpellsTable[n]
<1> DEFINE one == <<Point>>
           two == <<Point, Point>>
<1>1. /\ one \in Seq(Char) /\ Len(one) = 1 /\ DotName(one)
      /\ two \in Seq(Char) /\ Len(two) = 2 /\ DotName(two)
  BY UpperTypes DEF DotName
<1> HIDE DEF one, two
<1>2. ParseName(FormatName(one)) = one /\ ParseName(FormatName(two)) = two
  BY <1>1, DotNameShown
<1>3. ~ SameName(one, two)
  BY <1>1, SameNameIs
<1>4. FormatName(one) # FormatName(two) /\ ~ SameName(ParseName(FormatName(one)), two)
  <2>1. Len(one) # Len(two)
    BY <1>1
  <2>2. one # two
    BY <2>1
  <2> QED BY <1>2, <1>3, <2>2
<1>5. one \in Given /\ two \in Given
  BY DEF one, two
<1>6. \A n, m \in Given : FormatName(m) \in {FormatName(k) : k \in Given}
  OBVIOUS
<1> QED BY <1>4, <1>5, <1>6 DEF Finds, one, two

=============================================================================
