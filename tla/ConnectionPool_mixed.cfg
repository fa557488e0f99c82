SPECIFICATION FairSpec
CONSTANTS
  Requests <- Mixed
  PoolSize = 3
  MaxShortTx = 2
\* A behaviour is over when its requests have all been answered.
CHECK_DEADLOCK FALSE
INVARIANTS TypeOK NoPoolDeadlock
PROPERTIES EveryRequestAnswered AnswersComeCloser
