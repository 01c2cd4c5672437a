SPECIFICATION Spec
CONSTANTS
  Width = 13
  Height = 11
  Color <- Shades
  Background <- Black
  Areas <- NoAreas
  BaseRadius = 1
  Swing = 5
INVARIANTS OnlyTheDisc ShadesAreTrue
