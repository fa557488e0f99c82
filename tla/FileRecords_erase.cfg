SPECIFICATION Spec
CONSTANTS
  None = None
  k1 = k1
  k2 = k2
  s1 = s1
  s2 = s2
  Keys = {k1}
  Stores = {s1}
  LocalStores = {s1}
  Primary = s1
  Replicate = FALSE
  MaxAttempts = 1
  Requests <- OneDelete
\* A behaviour is over when its requests have all been answered.
CHECK_DEADLOCK FALSE
INVARIANT DeleteIsAllOrNothing
