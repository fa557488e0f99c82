SPECIFICATION Spec
CONSTANTS
  Root = Root
  Absent = Absent
  Keep = Keep
  Folders = {f1, f2}
  Names = {n1, n2}
  Sessions = {c1, c2}
  Postgres = TRUE
SYMMETRY Symmetry
INVARIANTS NoCycle
