CONSTANTS
  u1 = u1
  Sockets = {s1, s2}
  Cids = {c1}
  StoredCids = {c1}
  Users <- OneUser
  UserOf <- SameOwner
  MaxTurns = 2
  MAX_CONCURRENT_AGENTS = 1
  NoTurn = NoTurn
  NoCid = NoCid
  NoUser = NoUser
SPECIFICATION FairSpec
INVARIANTS
  TypeOK
  RegistryIsNewest
  ExactUntilOverwrite
  NoDeadSubscriber
CHECK_DEADLOCK FALSE
PROPERTY StopFreesConversation
