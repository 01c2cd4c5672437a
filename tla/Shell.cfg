SPECIFICATION WithinLineSpec
CONSTANTS
  Cols = 3
  Rows = 3
  TabStop = 2
  Glyphs = {" ", ">", "a", "b"}
  Blank = " "
  MaxLine = 5
  Prompt <- SmallPrompt
  Outputs <- SmallOutputs
INVARIANTS ShellTypeOK EchoMirrorsLine
