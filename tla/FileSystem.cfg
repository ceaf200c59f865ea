CONSTANTS
  BSIZE = 2
  IPB = 4
  BPB = 32
  NDIRECT = 1
  NINODES = 4
  FSSIZE = 18
  Name <- MCName
  Cut <- MCCut
  NINODE = 3
  NFILE = 1
  LOGSIZE = 6
  UINT = 16
  Images <- MCImages
  Lookups <- MCLookups
  Links = {"long-1", "long-2"}
  Clients <- MCClients
  MAXPTRS = 2
  MAXREF = 2
  FULL_CACHE = FALSE
SPECIFICATION Spec
INVARIANTS
  FSTypeOK
  OneSlotPerInode
  ValidAgrees
  BlocksAccounted
  NamesUnique
  NameiFinds
PROPERTIES
  ReferencesCounted
  FreedWhenUnused
  ImplementsFileStore
