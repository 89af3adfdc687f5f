SPECIFICATION Spec
CONSTANTS
  Requests = {r1, r2}
  Logins = {n1, n2}
  ApiIds = {k1}
  Life <- MCLife
  MinTTL = 1
  MaxTime = 2
  MaxOutages = 0
  None = None
VIEW View
SYMMETRY Symmetry

PROPERTY RevocationLasts
