SPECIFICATION FairSpec
CONSTANTS
  BufferSize = 3
  Letters = {"a"}
  Signs = {}
  Mute = {"F1"}
  Modifiers = {"LShift", "Caps", "Ctrl", "Alt"}
  Nothing = Nothing
  MaxPending = 1
INVARIANTS TypeOK DemoNeverSleeps FlagsMatchKeys
PROPERTIES KeepsOrder OnlyAFullRingDrops TypingDelivers CharacterEndsDemo
