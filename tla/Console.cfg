SPECIFICATION Spec
CONSTANTS
  Width = 3
  Height = 6
  Color = {" ", "a", "red"}
  Background = " "
  Areas <- NoAreas
  CharHeight = 2
  FontRows = 1
  TabStop = 2
  CrashPaper = "red"
  Smear = Smear
INVARIANTS CursorOnScreen
PROPERTIES ImplementsTextScreen ReportIsText
CHECK_DEADLOCK FALSE
