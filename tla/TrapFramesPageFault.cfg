CONSTANTS
  Examples = {"6.MemPolicy"}
  Tag = {0}
  LOCALS = 2
  FAULTS = TRUE
SPECIFICATION Spec
PROPERTY ImplementsPrivateProcessors
