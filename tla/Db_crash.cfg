\* Two objects of one or two blocks; the bitmap grows two blocks at a time.
SPECIFICATION Spec
SYMMETRY DbrefSymmetry
CONSTANTS
  d1 = d1
  d2 = d2
  d3 = d3
  Dbref = {d1, d2}
  small = small
  large = large
  Contents = {small, large}
  Size <- MCSize
  DB_BITBLOCK = 2
  BYTE = 2
  TextDumps = {TRUE, FALSE}
  MaxBlocks = 4
  NoObject = NoObject
  NoEntry = NoEntry
  NoPiece = NoPiece
  Delobj = Delobj
INVARIANTS
  TypeOK
  BlocksDisjoint
  BitmapCovers
PROPERTY
  KeepsItsPromise
ACTION_CONSTRAINT NoIdleWrites
