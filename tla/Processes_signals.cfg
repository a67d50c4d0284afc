\* Signals, exits and waits of three processes besides the idle one.
SPECIFICATION SafetySpec
CONSTANTS
  MaxPids = 4
  BootPids = 2
  KernelThreads = {}
  Durations = {}
  Codes = {7}
  Signals = {9, 18, 19}
  Targets = {0, 2}
INVARIANTS
  ResumedByOwnChild
  LocksInPidOrder
PROPERTIES
  ParentWokenByExit
  SwitchIsRoundRobin
CHECK_DEADLOCK FALSE
