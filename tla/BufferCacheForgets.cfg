CONSTANTS
  NBUF = 2
  FSSIZE = 3
  Version = {0, 1}
  CHANGED = {1}
  TAKES_TWICE = FALSE
  FORGETS = TRUE
  DISK_ERRORS = FALSE
SPECIFICATION FairSpec
PROPERTY ChangesAreKept
