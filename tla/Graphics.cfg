SPECIFICATION DrawSpec
CONSTANTS
  Width = 2
  Height = 3
  Color = {"black", "white"}
  Background = "black"
  Areas <- SmallAreas
INVARIANTS DrawTypeOK NothingMissed
PROPERTIES DrawsOnThePlane
