\* A text dump is under way when the server stops.
SPECIFICATION Spec
SYMMETRY DbrefSymmetry
CONSTANTS
  d1 = d1
  d2 = d2
  d3 = d3
  Dbref = {d1, d2}
  small = small
  large = large
  Contents = {small, large}
  Size <- MCSize
  DB_BITBLOCK = 2
  BYTE = 2
  TextDumps = {TRUE}
  MaxBlocks = 4
  NoObject = NoObject
  NoEntry = NoEntry
  NoPiece = NoPiece
  Delobj = Delobj
INVARIANT
  TextDumpSurvives
