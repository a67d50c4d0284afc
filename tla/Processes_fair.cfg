\* Waits, sleeps and exits, and signals that stop or end a process but never
\* continue one, under the cooperative contract.  15 ms is no multiple of the
\* tick of 10 ms.
SPECIFICATION Spec
CONSTANTS
  MaxPids = 4
  BootPids = 3
  KernelThreads = {2}
  Durations = {10, 15}
  Codes = {7}
  Signals = {9, 19}
  Targets = {3}
INVARIANT
  TypeOK
PROPERTIES
  SleepLastsItsTicks
  RunnableGetsProcessor
  ResumedReturns
