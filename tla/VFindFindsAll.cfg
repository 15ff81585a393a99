SPECIFICATION ShellSpec
CONSTANTS
  CLUSTER_MAP_SIZE = 7
  DIR_ROWS = 12
  CLUSTER_SIZE = 2
  AliasWords = {1}
  a = a
  b = b
  pair = pair
  junk = junk
  root = root
  zero = zero
  noext = noext
  x = x
  space = space
  b1 = b1
  b0 = b0
  Bases <- McBases
  NoBase = zero
  Exts <- McExts
  NoExt = noext
  RootBase = root
  ReqNames <- McArguments
  ReqParents = {2}
  Sizes = {0}
  Bufs = {b0}
  Image <- McContents
  Space = space
  Pair = pair
  Zeros = b0
  MaxOverlooked = 1
SYMMETRY McSymmetry
INVARIANT
  FindFindsAll
