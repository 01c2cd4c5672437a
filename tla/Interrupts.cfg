SPECIFICATION FairSpec
CONSTANTS
  Lines = {0, 12}
  Drivers = {12}
  Exceptions = {0, 6, 8, 13, 14}
  MaxWaiting = 2
INVARIANTS Transparent ToldTheLine NoLineBlocked SameFrame
INVARIANTS HandlersReady SegmentsAreFlat
PROPERTIES KeyServed
CHECK_DEADLOCK FALSE
