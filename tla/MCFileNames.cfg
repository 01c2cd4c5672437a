SPECIFICATION TextSpec
CONSTANTS
  Point = "."
  Space = " "
  Char <- MCChar
  Upper <- MCUpper
  BaseLength = 2
  ExtLength = 2
  MaxStored = 5
  MaxTyped = 4
  MaxString = 4
  MaxOther = 2
  Width = 8
  TopDivisor = 100
  MaxPieces = 4
  MaxSegments = 4
  MaxCalls = 5
  ScreenWidth = 3
  ScreenHeight = 2
  VgaTab = 2
INVARIANTS
  NamesFindTheirEntries
  StringsWritten
  StringsRead
  NumeralsDenote
  LinesUnderstood
  TextIsTheTrail
  WindowOnTheSheet
CHECK_DEADLOCK FALSE
