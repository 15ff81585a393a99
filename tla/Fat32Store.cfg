SPECIFICATION Spec
CONSTANTS
  CLUSTER_MAP_SIZE = 5
  DIR_ROWS = 6
  CLUSTER_SIZE = 2
  AliasWords = {1}
  a = a
  b = b
  c = c
  junk = junk
  root = root
  zero = zero
  noext = noext
  b1 = b1
  b2 = b2
  Bases <- McBases
  NoBase = zero
  Exts = {}
  NoExt = noext
  RootBase = root
  ReqNames <- McNames
  ReqParents = {2, 3}
  Sizes = {0, 2, 3}
  Bufs = {b1}
  Image <- McText
SYMMETRY McSymmetry
INVARIANTS
  LinksSound
  NoDangling
  NoCrossLink
  FoldersOwnTheirCluster
  HasRoom
PROPERTIES
  ImplementsStore
  
