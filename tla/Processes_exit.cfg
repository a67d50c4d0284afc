SPECIFICATION SafetySpec
CONSTANTS
  MaxPids = 4
  BootPids = 2
  KernelThreads = {}
  Durations = {}
  Codes = {7}
  Signals = {9, 18, 19}
  Targets = {1, 2}
INVARIANT ExitLoopNotReached
CHECK_DEADLOCK FALSE
