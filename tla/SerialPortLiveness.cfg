CONSTANTS
  PROC_NUM = 3
  QUEUE_SIZE = 2
  Q_SIZE = 2
  TIME_LIMIT = 1
  NPROCS = 2
  INIT_PASSES = {0, 2}
  MAX_PASSES = 2
  PORT_NUM = 1
  BUFF_SIZE = 3
  PROMPT = 3
  MAX_TYPED = 2
  KINDS = {"char", "cr"}
  TYPES_EARLY = FALSE
  LATE_ARRIVALS = FALSE
SPECIFICATION FairSerialSpec
PROPERTY
  BytesAreRead
