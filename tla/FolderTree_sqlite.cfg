SPECIFICATION Spec
CONSTANTS
  Root = Root
  Absent = Absent
  Keep = Keep
  Folders = {f1, f2, f3, f4}
  Names = {n1, n2}
  Sessions = {c1, c2}
  Postgres = FALSE
SYMMETRY Symmetry
INVARIANTS TypeOK NoCycle NamesUnique NoLostFolder
PROPERTY ImplementsAtomicFolders
