\* Objects are created and reparented, and the database is dumped.
SPECIFICATION Spec
SYMMETRY HolderSymmetry
CONSTANTS
  h1 = h1
  h2 = h2
  h3 = h3
  h4 = h4
  h5 = h5
  CACHE_WIDTH = 1
  CACHE_DEPTH = 1
  MaxDbref = 2
  Methods = {0}
  Vars = {0}
  Holder = {h1, h2, h3, h4}
  InitChain <- MCInitChain
  NoImage = NoImage
  MaxFrames = 1
  MaxRestarts = 0
  ParentLists <- OneParent
  NULL = NULL
PROPERTY
  DumpSavesEverything
