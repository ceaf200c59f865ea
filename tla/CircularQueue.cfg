CONSTANTS
  QUEUE_SIZE = 4
  Item = {0, 1}
SPECIFICATION Spec
INVARIANTS
  TypeOK
  RingInv
PROPERTY
  ImplementsFifo
