SPECIFICATION Spec
CONSTANTS
  TotalSectors = 32
  ReservedSectors = 14
  FatSize = 1
  EntriesPerCluster = 3
  MaxDepth = 1
  Name <- OddNames
  ShortName <- OddShort
  Format <- OddFormat
  Spells <- OddSpells
  Segment <- OddNames
  Segments <- OddSegments
  Path <- OddPaths
  Empty = ""
  Dot = "."
  DotDot = ".."
INVARIANTS TypeOK NoHiddenEntries UniqueNames
PROPERTIES FailedCallsChangeNothing
