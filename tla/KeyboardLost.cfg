SPECIFICATION ReleasingSpec
CONSTANTS
  BufferSize = 3
  Letters = {"a"}
  Signs = {}
  Mute = {"F1"}
  Modifiers = {}
  Nothing = Nothing
  MaxPending = 2
PROPERTIES WaitingIsRead
