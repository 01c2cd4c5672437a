SPECIFICATION OrdinarySpec
CONSTANTS
  TotalSectors = 40
  ReservedSectors = 14
  FatSize = 1
  EntriesPerCluster = 3
  MaxDepth = 3
  ClusterBytes = 2
  Counts = {1, 4}
  MaxPosition = 5
  Name <- TwoNames
  ShortName <- TwoShort
  Format <- TwoFormat
  Spells <- TwoSpells
  Segment <- TwoNames
  Segments <- TwoSegments
  Path <- TwoPaths
  Empty = ""
  Dot = "."
  DotDot = ".."
INVARIANTS ChainIsApart TreeInOrder
PROPERTIES StaysInPlace ImplementsTree PwdFollowsCwd
VIEW WithoutBuffer
