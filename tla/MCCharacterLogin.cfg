SPECIFICATION CharSpec
CONSTANTS
  p1 = p1
  p2 = p2
  c1 = c1
  c2 = c2
  d1 = d1
  Account = {p1, p2}
  Staff = {}
  Sess = {s1, s2}
  NoAccount = NoAccount
  NoSess = NoSess
  Limit = {1}
  NewLimit = {}
  Char = {c1, c2}
  NoChar = NoChar
  Owner <- OwnerTable
  MaxPending = 2
INVARIANTS
  CharTypeOK
  PlayerInWorld
PROPERTIES
  ImplementsLoginQueue
  LoginEnds
  DeadSessionsGo
