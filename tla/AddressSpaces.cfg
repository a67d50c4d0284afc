SPECIFICATION Spec
CONSTANTS
  FrameCount = 16
  MaxProcs = 3
  BootProcs = 2
  PageBytes = 2
  TablePages = 2
  WindowPages = 2
  StackPage = 3
  KernelPage = 4
  HeapPage = 6
  KernelStack = 8
  Breaks = {2, 4, 5}
  Deltas = {1}
  RefLimit = 256
  None = None
INVARIANTS
  KernelImageProtected
  
  ProgramFromFile
  
  FirstHeapShared
CHECK_DEADLOCK FALSE
VIEW View
