SPECIFICATION Spec
CONSTANTS
  SCREEN_WIDTH = 5
  SCREEN_HEIGHT = 2
  NUL = NUL
  Space = Space
  Chars = {Space, a}
  BiosChar = BiosChar
  BiosCursor = 3
  MaxCalls = 9
INVARIANTS TypeOK HwCursorMatches
PROPERTY IsTeletype
CHECK_DEADLOCK FALSE
