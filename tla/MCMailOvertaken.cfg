SPECIFICATION MailSpec
CONSTANTS
  Char = {a, b}
  Item = {i}
  Gold = 1
  Price = 1
  MaxMail = 2
  MaxQueue = 2
INVARIANTS
  SalesConserveGold
CONSTRAINT ItemsSafe
SYMMETRY CharSymmetry
