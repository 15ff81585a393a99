SPECIFICATION Spec
CONSTANTS
  CLUSTER_MAP_SIZE = 6
  DIR_ROWS = 4
  CLUSTER_SIZE = 2
  AliasWords = {1}
  a = a
  b = b
  c = c
  junk = junk
  root = root
  zero = zero
  noext = noext
  b1 = b1
  b2 = b2
  Bases <- McBases
  NoBase = zero
  Exts = {}
  NoExt = noext
  RootBase = root
  ReqNames <- McNames3
  ReqParents = {2}
  Sizes = {2, 3, 9}
  Bufs = {b1, b2}
  Image <- McText
SYMMETRY McSymmetry3
INVARIANTS
  TypeOK
  LinksSound
  NoCrossLink
  CacheCoherent
PROPERTIES
  EntriesKept
  FilesUntouched
  WriteComplete
