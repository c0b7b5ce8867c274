SPECIFICATION VideoSpec
CONSTANTS
  Size = 15
  High = 14
  Wiped = 9
  DpiWidth = 1
  DpiHeight = 2
  MaxMoves = 3
  UnityWords = 1
  ScaledWords = 2
  WordsField = 8
  Items = 2
  Typed = {1}
  Delays = {0}
  Frames = 1
  Width = 4
  SpriteWidth = 2
  LogoWidth = 2
  MaxSpeed = 1
  MaxCommands = 1
INVARIANTS ShownOnceOn NoTrail
PROPERTIES UntornFromStart Recovers
CHECK_DEADLOCK FALSE
