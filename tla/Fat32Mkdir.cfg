SPECIFICATION Spec
CONSTANTS
  TotalSectors = 40
  ReservedSectors = 22
  FatSize = 1
  EntriesPerCluster = 3
  MaxDepth = 1
  Name <- OddNames
  ShortName <- OddShort
  Format <- OddFormat
  Spells <- OddSpells
  Segment <- OddNames
  Segments <- OddSegments
  Path <- OddPaths
  Empty = ""
  Dot = "."
  DotDot = ".."
PROPERTIES MkdirMakesDirectory
