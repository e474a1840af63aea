\* A variable is assigned twice; its object is evicted and loaded again.
SPECIFICATION Spec
SYMMETRY HolderSymmetry
CONSTANTS
  h1 = h1
  h2 = h2
  h3 = h3
  h4 = h4
  h5 = h5
  CACHE_WIDTH = 1
  CACHE_DEPTH = 1
  MaxDbref = 1
  Methods = {0}
  Vars = {0, 1, 2}
  Holder = {h1, h2, h3}
  InitChain <- MCInitChain
  NoImage = NoImage
  MaxFrames = 2
  MaxRestarts = 1
  ParentLists <- OneParent
  NULL = NULL
PROPERTY
  AssignmentPersists
