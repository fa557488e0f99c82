SPECIFICATION Spec
CONSTANTS
  None = None
  NoLimit = NoLimit
  s1 = s1
  s2 = s2
  t = t
  u = u
  ShareLinks = {s1, s2}
  TrackedLinks = {t}
  UploadLinks = {u}
  Requests <- TwoRaw
  Databases = {"sqlite"}
  Limits = {NoLimit, 1}
\* A behaviour is over when its requests have all been answered.
CHECK_DEADLOCK FALSE
INVARIANT LimitHolds
