----------------------------- MODULE MCFatTree -----------------------------
(* Fat32Tree, and FatFiles in it, on a small disk.                         *)
EXTENDS MCFat32, Fat32Tree

\* Two ordinary names.
TwoNames == Special \cup {"a", "b"}
TwoShort == ShortOf(TwoNames)
TwoFormat == FormatOf(TwoNames)
TwoSpells == SpellsOf(TwoNames)
TwoSegments == SegmentsOf(TwoNames)
TwoPaths == {Rel("a"), Rel("b"), Rel(".."), Abs(""), Abs("a")}

\* Where fat32_format() puts the second FAT, and the sectors that cluster_to_sector()
\* gives "cluster 0": bytes stored there are in neither the first FAT nor the data.
SecondFat == 32 + 80 .. 32 + 2 * 80 - 1
ClusterZero == LET first == 32 + NumFats * 80 + (0 - Root) * SectorsPerCluster
               IN  first .. first + SectorsPerCluster - 1
ASSUME ClusterZeroInSecondFat == ClusterZero \subseteq SecondFat

\* Every cluster of this disk is on the disk, so each use of cluster_buffer comes
\* after a read_cluster that fills it: what it holds between calls tells no two
\* states apart.
WithoutBuffer == <<fat, data, cwd, path, ret, fileVars, shape>>

=============================================================================
