------------------------------ MODULE FatFiles ------------------------------
(***************************************************************************)
(* fat32_open, fat32_close, fat32_read and fat32_write: the part of the    *)
(* interface of fat32.h that no command of the shell calls, next to the    *)
(* calls of module Fat32 that the commands make, on one disk and with one  *)
(* handle.                                                                 *)
(*                                                                         *)
(* fat32_create gives a file first cluster 0 and size 0 and nothing writes *)
(* either back, so every file begins in "cluster 0": the sixteen sectors   *)
(* before the data area, in the second FAT (in fat32_format's geometry),   *)
(* which nothing reads.  Its FAT entry, FAT[0], holds 0x0FFFFFF8 at first; *)
(* fat32_write links further clusters to it.  All files share that chain.  *)
(*                                                                         *)
(* File data is abstracted to Bytes.  Of the result of a read or write     *)
(* the model keeps whether it is an error; how many bytes it is shows in   *)
(* the position.                                                           *)
(***************************************************************************)
EXTENDS Fat32

CONSTANTS ClusterBytes,     \* CLUSTER_SIZE                    (4096)
          Counts,           \* byte counts a caller asks for
          MaxPosition       \* bound: bytes written through one handle

ASSUME FilesAssumption ==
  ClusterBytes \in Nat \ {0} /\ Counts \subseteq Nat \ {0} /\ MaxPosition \in Nat

VARIABLES
  zero,       \* FAT[0]
  handle      \* the caller's fat_file_t

fileVars == <<zero, handle>>
allVars == <<vars, fileVars>>

\* What a closed handle and the handle of a directory still hold is never read.
ClosedHandle == [state |-> "closed", cluster |-> NoCluster, position |-> 0, size |-> 0]
DirHandle == [ClosedHandle EXCEPT !.state = "dir"]
FileHandle(c) == [ClosedHandle EXCEPT !.state = "file", !.cluster = c]

\* A cluster that holds file data: no directory entries, and no end of them.
Bytes == [i \in Slots |-> [Unused EXCEPT !.kind = "bytes"]]

FilesInit == Init /\ zero = EndOfChain /\ handle = ClosedHandle

\* get_fat_entry() and set_fat_entry(), for cluster 0, too.
FatEntry(s, c) == IF c = NoCluster THEN s.zero ELSE s.fat[c]
SetFatEntry(s, c, v) ==
  IF c = NoCluster THEN [s EXCEPT !.zero = v] ELSE [s EXCEPT !.fat[c] = v]

\* read_cluster() into cluster_buffer, the caller's bytes over it, write_cluster().
PutBytes(s, c) ==
  [s EXCEPT !.data = IF c = NoCluster THEN @ ELSE Store(@, c, Bytes), !.buffer = Bytes]

Unended(s, c, next) == SetFatEntry(s, c, next)       \* mutant: the end is not marked

\* The two set_fat_entry() calls of fat32_write, in their order.
Extend(s, c, next) == SetFatEntry(SetFatEntry(s, c, next), next, EndOfChain)

LeastOf(a, b) == IF a <= b THEN a ELSE b

\* What is left of the current cluster, of a request of n bytes.
Chunk(position, n) == LeastOf(n, ClusterBytes - (position % ClusterBytes))

Forgetful(position, left) == FALSE          \* mutant: the next cluster is not found

\* fat32_write looks for the next cluster at a cluster's end, if bytes remain.
MovesOn(position, left) == position % ClusterBytes = 0 /\ left > 0

\* One turn of fat32_write's loop; `left' bytes of the request remain.  When no
\* cluster is free the loop stops with the bytes it has written.
WriteTurn(r) ==
  LET n == Chunk(r.handle.position, r.left)
      here == r.handle.cluster
      put == PutBytes(r.disk, here)
      h2 == [r.handle EXCEPT !.position = @ + n]
      left == r.left - n
      next == FatEntry(put, here)
      free == {c \in Clusters : put.fat[c] = Free}
      new == FirstOf(free)
  IN  CASE r.left = 0 -> r
        [] r.left > 0 /\ ~ MovesOn(h2.position, left) ->
             [disk |-> put, handle |-> h2, left |-> left]
        [] r.left > 0 /\ MovesOn(h2.position, left) /\ next # EndOfChain ->
             [disk |-> put, handle |-> [h2 EXCEPT !.cluster = next], left |-> left]
        [] r.left > 0 /\ MovesOn(h2.position, left) /\ next = EndOfChain /\ free = {} ->
             [disk |-> put, handle |-> h2, left |-> 0]
        [] OTHER ->
             [disk |-> Extend(put, here, new),
              handle |-> [h2 EXCEPT !.cluster = new], left |-> left]

\* One turn of fat32_read's loop: to the end of the file, of the chain or of the
\* request.
ReadTurn(r) ==
  LET here == r.handle.cluster
      n == LeastOf(Chunk(r.handle.position, r.left), r.handle.size - r.handle.position)
      got == [r.disk EXCEPT !.buffer = IF here = NoCluster THEN Bytes ELSE Load(here, @)]
      h2 == [r.handle EXCEPT !.position = @ + n]
      next == FatEntry(r.disk, here)
  IN  IF r.left = 0 \/ r.handle.position >= r.handle.size THEN r
      ELSE IF h2.position % ClusterBytes # 0
        THEN [disk |-> got, handle |-> h2, left |-> r.left - n]
        ELSE [disk |-> got, handle |-> [h2 EXCEPT !.cluster = next],
              left |-> IF next = EndOfChain THEN 0 ELSE r.left - n]

\* The loops, for n bytes: n turns are enough, each moves one byte or more.
WriteLoop(s, h, n) ==
  LET r[k \in 0 .. n] == IF k = 0 THEN [disk |-> s, handle |-> h, left |-> n]
                                  ELSE WriteTurn(r[k - 1])
  IN  r[n]

ReadLoop(s, h, n) ==
  LET r[k \in 0 .. n] == IF k = 0 THEN [disk |-> s, handle |-> h, left |-> n]
                                  ELSE ReadTurn(r[k - 1])
  IN  r[n]

Disk == [fat |-> fat, zero |-> zero, data |-> data, buffer |-> buffer]

Transfer(r, h) ==
  /\ fat' = r.disk.fat /\ zero' = r.disk.zero
  /\ data' = r.disk.data /\ buffer' = r.disk.buffer
  /\ handle' = h /\ ret' = 0
  /\ UNCHANGED <<cwd, path>>

-----------------------------------------------------------------------------
(* The calls.                                                              *)

OpenFile(p) ==
  LET dir == Load(StartDir(p), buffer)
      e == Hit(dir, p.name)
  IN  /\ buffer' = dir
      /\ \/ ~ Found(dir, p.name) /\ ret' = -1 /\ UNCHANGED handle
         \/ /\ Found(dir, p.name) /\ ret' = 0
            /\ handle' = IF e.kind = "dir" THEN DirHandle ELSE FileHandle(e.cluster)
      /\ UNCHANGED <<fat, data, cwd, path, zero>>

CloseFile ==
  /\ handle' = ClosedHandle /\ ret' = 0
  /\ UNCHANGED <<fat, data, buffer, cwd, path, zero>>

\* The test that begins fat32_read and fat32_write.
RefuseTransfer ==
  /\ handle.state # "file"
  /\ Fail(buffer) /\ UNCHANGED fileVars

ReadFile(n) ==
  LET r == ReadLoop(Disk, handle, n)
  IN  handle.state = "file" /\ Transfer(r, r.handle)

WriteFile(n) ==
  LET r == WriteLoop(Disk, handle, n)
      end == r.handle.position
  IN  /\ handle.state = "file" /\ handle.position + n <= MaxPosition
      /\ Transfer(r, [r.handle EXCEPT !.size = IF end > @ THEN end ELSE @])

-----------------------------------------------------------------------------
(* The chain.                                                              *)

\* Cluster number n of the chain that begins at cluster 0, or EndOfChain.
Nth[n \in 0 .. MaxCluster] ==
  IF n = 0 THEN NoCluster
  ELSE IF Nth[n - 1] = EndOfChain THEN EndOfChain ELSE FatEntry(Disk, Nth[n - 1])

FileClusters == {Nth[n] : n \in 0 .. MaxCluster} \cap Clusters

\* The clusters whose FAT entry leads to c.
LinkedFrom(c) == {d \in Clusters \cup {NoCluster} : FatEntry(Disk, d) = c}

\* The root, where the shell is, and where the subdirectory entries lead that any
\* cluster holds, in use or not: a call may take each of these for a directory.
DirectoryEntries == {e \in UNION {{data[c][i] : i \in Slots} : c \in Clusters} : e.kind = "dir"}
DirectoryClusters == {Root, cwd} \cup {e.cluster : e \in DirectoryEntries}

\* The chain of the files ends, no cluster comes twice in it, it has no cluster of
\* a directory, and no cluster outside it is linked to another: the loops over a
\* directory's clusters make one turn, as module Fat32 has it.
ChainIsApart ==
  /\ \E n \in 0 .. MaxCluster : Nth[n] = EndOfChain
  /\ \A c \in FileClusters : Cardinality(LinkedFrom(c)) = 1
  /\ FileClusters \cap DirectoryClusters = {}
  /\ \A c \in Clusters \ FileClusters : fat[c] \in {Free, EndOfChain}

\* The number of the cluster that has the byte before a position, or the first.
Behind(position) == IF position = 0 THEN 0 ELSE (position - 1) \div ClusterBytes

\* The last byte written through the handle went to the cluster the handle is at.
InPlace ==
  handle.state = "file" =>
    /\ Behind(handle.position) <= MaxCluster
    /\ handle.cluster = Nth[Behind(handle.position)]

\* A write that ended with its cluster left the handle there, because no byte
\* remained; the next write starts over in that cluster.
AtBoundary ==
  handle.state = "file" /\ handle.position > 0 /\ handle.position % ClusterBytes = 0

\* Through every split of the data into writes that does not end on a cluster's
\* last byte, and whatever the other calls do in between, each byte goes to the
\* cluster its position belongs to.
StaysInPlace ==
  [][InPlace /\ (AtBoundary => handle' = handle \/ handle'.position = 0)
       => InPlace']_allVars

=============================================================================
