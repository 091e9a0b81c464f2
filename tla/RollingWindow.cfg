SPECIFICATION RollSpec
CONSTANTS
  Floats <- MCFloats
  Ints <- MCInts
  Half = 4
  Windows <- MCWindows
  MaxLen = 4
INVARIANT
  OutputsExact
