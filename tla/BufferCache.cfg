CONSTANTS
  NBUF = 3
  FSSIZE = 4
  Version = {0, 1}
  CHANGED = {1, 2}
  TAKES_TWICE = FALSE
  FORGETS = FALSE
  DISK_ERRORS = FALSE
SPECIFICATION FairSpec
INVARIANTS
  CacheTypeOK
  ListIntact
  OneBufferPerBlock
  BreadReturnsBlock
PROPERTIES
  ImplementsBlockStore
  CallsReturn
