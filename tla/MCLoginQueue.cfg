SPECIFICATION Spec
CONSTANTS
  Account = {p1, p2, p3, g}
  Staff = {g}
  Sess = {s1, s2, s3, s4}
  NoAccount = NoAccount
  NoSess = NoSess
  Limit = {1}
  NewLimit <- LimitsAfterStart
INVARIANTS
  NoDanglingSession
  FlagMatchesQueue
  PositionsTold
PROPERTIES
  SlotsFollowLimit
  QueueIsFifo
SYMMETRY SessSymmetry
