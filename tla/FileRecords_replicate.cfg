SPECIFICATION Spec
CONSTANTS
  None = None
  k1 = k1
  k2 = k2
  s1 = s1
  s2 = s2
  Keys = {k1, k2}
  Stores = {s1, s2}
  LocalStores = {s1}
  Primary = s2
  Replicate = TRUE
  MaxAttempts = 2
  Requests <- Replicating
CONSTRAINT OneWorkload
\* A behaviour is over when its requests have all been answered.
CHECK_DEADLOCK FALSE
INVARIANTS RecordInv LossOnlyByErasure LoneUploadStands
PROPERTIES ImplementsVisibleFiles StepsRunOut
