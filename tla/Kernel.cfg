CONSTANTS
  PROC_NUM = 5
  QUEUE_SIZE = 4
  Q_SIZE = 2
  TIME_LIMIT = 2
  NPROCS = 4
  INIT_PASSES = {0, 1}
  MAX_PASSES = 2
SPECIFICATION FairSpec
INVARIANTS
  TypeOK
  EveryPidInItsPlace
  NoWaiterWhilePasses
  NoPanic
PROPERTIES
  NoOvertaking
  ImplementsSemaphores
  NoStarvation
