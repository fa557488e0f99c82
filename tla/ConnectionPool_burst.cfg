SPECIFICATION Spec
CONSTANTS
  Requests <- Burst
  PoolSize = 2
  MaxShortTx = 2
\* A behaviour is over when its requests have all been answered.
CHECK_DEADLOCK FALSE
INVARIANT NoPoolDeadlock
