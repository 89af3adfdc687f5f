SPECIFICATION LimitsSpec
CONSTANTS
  Requests = {r1, r2}
  Cascade <- MCCascade
  Capacity <- MCCapacity
  Window <- MCWindow
  Sliding = {"auth"}
  Local = {"tool"}
  MaxTime = 3
  MaxFaults = 1
  NoJob = NoJob
  NoEntry = NoEntry
VIEW View
SYMMETRY Symmetry
INVARIANTS
  LimitsTypeOK
  LimitHolds
  RejectionsDoNotCount
