SPECIFICATION DumpSpec
CONSTANTS
  Size = 12
  High = 10
  UnityWords = 1
  ScaledWords = 2
  WordsField = 8
  Items = 6
  Typed = {3, 7}
  Delays = {0, 2}
  Frames = 2
  Width = 4
  SpriteWidth = 2
  LogoWidth = 3
  MaxSpeed = 1
  MaxCommands = 2
  DumpWords = 6
INVARIANTS
  DumpFollowsList
  InMemory
  InBox
PROPERTIES
  Untorn
