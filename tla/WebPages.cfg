SPECIFICATION Spec
CONSTANTS
  MaxCalls = 2
  Rows = {x, y}
  None = None
  Visits <- MCVisits
\* A page may have nothing left to do but to wait for its user.
CHECK_DEADLOCK FALSE
SYMMETRY RowSymmetry
INVARIANTS PageTypeOK ReadYourWrites ShareShowsItsTarget EditFormIsItsLink EditSendsOwnCredentials
