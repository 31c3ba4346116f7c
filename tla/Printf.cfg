SPECIFICATION Spec
CONSTANTS
  Abis <- MCAbis
  Calls <- MCCalls
  Strings <- MCStrings
  Glyphs <- MCGlyphs
INVARIANTS TypeOK ConversionsRight PrintfRight VprintfAgrees
CHECK_DEADLOCK FALSE
