CONSTANTS
  Devices = {6, 14}
  Traps = {14}
  AutoEoi <- MCAutoEoi
  Careless = {}
SPECIFICATION Spec
INVARIANTS
  PicTypeOK
  EveryInterruptHasHandler
  MasksAsAsked
PROPERTY RequestsAreServed
