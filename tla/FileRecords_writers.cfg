SPECIFICATION FairSpec
CONSTANTS
  None = None
  k1 = k1
  k2 = k2
  s1 = s1
  s2 = s2
  Keys = {k1}
  Stores = {s1}
  LocalStores = {s1}
  Primary = s1
  Replicate = FALSE
  MaxAttempts = 2
  Requests <- Writers
\* A behaviour is over when its requests have all been answered.
CHECK_DEADLOCK FALSE
INVARIANTS TypeOK UniqueObjectKey FailureLeavesNothingVisible LockHeldByOpenTransaction RecordsAgree
PROPERTY EveryRequestEnds
