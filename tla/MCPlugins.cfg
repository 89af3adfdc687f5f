SPECIFICATION Spec
CONSTANTS
  p1 = p1
  q1 = q1
  ext = ext
  u1 = u1
  u2 = u2
  Plugins = {p1, q1}
  External <- MCExternal
  Manifest <- MCManifest
  Users = {u1, u2}
  FirstUsers = {u1}
  Requests = {r1, r2}
  MaxEvents = 3
  Boot = boot
  None = None
  Partial = Partial
SYMMETRY Slots
INVARIANTS
  TypeOK
  NothingOutlivesItsPlugin
  AgentsReachEveryUser
PROPERTY UserRowsAreKept
