SPECIFICATION Spec
CONSTANTS
  c1 = c1
  c2 = c2
  k1 = k1
  k2 = k2
  n1 = n1
  Conns = {c1, c2}
  Keys = {k1, k2}
  Names = {n1}
  NameOf <- MCNameOf
  Inodes = {1, 2, 3}
  Size = 1
  ChunkSizes = {1}
  Hashing = {FALSE}
  Window = 1
  MaxFaults = 0
  MaxDeletions = 0
  MaxPurges = 0
  MaxCrashes = 0
  MaxDrops = 1
  MaxReoffers = 0
  NoConn = NoConn
  NoKey = NoKey
CHECK_DEADLOCK FALSE
PROPERTIES
  NeverOverwritten
