\* Every day from 1980 to the middle of 2000, with a boot at the end of the first hour.
SPECIFICATION Spec
CONSTANTS
  Hours = {0}
  MaxDay = 7500
  MaxTicks = 1
CHECK_DEADLOCK FALSE
INVARIANT
  KnownTimeExact
