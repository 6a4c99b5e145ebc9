SPECIFICATION MainSpec
CONSTANTS
  Null = Null
  Junk = Junk
  Blank = Blank
  Letter = Letter
  NoPath = NoPath
  MAX_COMMAND_LEN = 9
  Width = 4
  Strings = {"act", "c", "n", "m", "cap", "x86", "arm", "x32", "4.8", "eq", "ne"}
  Mantissa = 2
  Addresses = {0, 1, 2, 3, 4}
  Inputs <- Locations
INVARIANTS
  AsksFileOffset
