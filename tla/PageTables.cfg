CONSTANTS
  Examples = {"5.PageFault", "6.MemPolicy", "8.UserProcess"}
  ENTRIES = 20
  POOL = 7
  Places = {0, 1}
  Others <- MCOthers
  Value = {20, 30}
SPECIFICATION Spec
INVARIANTS
  PagesApart
  KernelStaysMapped
PROPERTY
  ImplementsPrivateMemory
