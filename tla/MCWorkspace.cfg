SPECIFICATION Spec
CONSTANTS
  Calls = {c1, c2}
  Cids = {k1, k2}
  Conns = {n1}
  ConnOf <- MCConnOf
  Files = {f1, f2}
  Hooks = 1
  Linesep = "lf"
  MaxEvents = 2
  Absent = Absent
  Binary = Binary
  None = None
VIEW View
SYMMETRY Symmetry
INVARIANTS
  TypeOK
  OnlyAllowedRuns
PROPERTY RevertRestores
CHECK_DEADLOCK FALSE
