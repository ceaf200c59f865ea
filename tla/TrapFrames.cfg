CONSTANTS
  Examples = {"1.Divide-Zero-Interrupt", "2.Keyboard_Interrupt", "3.com2_interrupt", "4.ContextSwitch", "4.KernelProcess", "5.PageFault", "6.MemPolicy", "7.Syscall", "8.UserProcess", "9.serialport", "A.ide", "TimerEvent"}
  Tag = {0}
  LOCALS = 2
  FAULTS = FALSE
SPECIFICATION Spec
INVARIANT StacksStayApart
PROPERTY ImplementsPrivateProcessors
