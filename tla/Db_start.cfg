\* The server is started without a text dump.
SPECIFICATION Spec
SYMMETRY DbrefSymmetry
CONSTANTS
  d1 = d1
  d2 = d2
  d3 = d3
  Dbref = {d1, d2}
  small = small
  large = large
  Contents = {small, large}
  Size <- MCSize
  DB_BITBLOCK = 2
  BYTE = 2
  TextDumps = {FALSE}
  MaxBlocks = 4
  NoObject = NoObject
  NoEntry = NoEntry
  NoPiece = NoPiece
  Delobj = Delobj
INVARIANT
  ServesADatabase
