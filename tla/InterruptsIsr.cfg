SPECIFICATION Spec
CONSTANTS
  Lines = {12}
  Drivers = {12}
  Exceptions = {0}
  MaxWaiting = 1
INVARIANTS ToldTheException
CHECK_DEADLOCK FALSE
