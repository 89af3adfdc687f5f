SPECIFICATION Spec
CONSTANTS
  j1 = j1
  j2 = j2
  a = a
  b = b
  Jobs = {j1, j2}
  Titles = {a, b}
  Arq = TRUE
  Minima = {2}
  MaxItems = 2
  Summary = 1
  MaxRows = 2
  MaxMessages = 3
  MaxFaults = 1
  None = None
SYMMETRY Symmetry
INVARIANTS
  TypeOK
  DuplicatesOverlap

  
VIEW View
CONSTRAINT Meet
