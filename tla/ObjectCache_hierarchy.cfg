\* Every object has a bucket of its own, so that none is evicted: what is
\* checked is the surgery on the lists of parents and children,
\* and that the loops over them end.
SPECIFICATION FairSpec
CONSTANTS
  h1 = h1
  h2 = h2
  h3 = h3
  h4 = h4
  h5 = h5
  CACHE_WIDTH = 4
  CACHE_DEPTH = 1
  MaxDbref = 3
  Methods = {0}
  Vars = {0}
  Holder = {h1, h2, h3, h4}
  InitChain <- MCInitChain
  NoImage = NoImage
  MaxFrames = 1
  MaxRestarts = 0
  ParentLists <- Lattice
  NULL = NULL
INVARIANTS
  HierarchySymmetric
  HierarchyAcyclic
  NoOrphans
  LoopsFindTheirObjects
PROPERTY
  OperationsFinish
ACTION_CONSTRAINT NoDump
