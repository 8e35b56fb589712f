SPECIFICATION MailSpec
CONSTANTS
  Char = {a, b}
  Item = {i}
  Gold = 1
  Price = 1
  MaxMail = 2
  MaxQueue = 2
INVARIANTS
  MailTypeOK
  GoldConserved
  ItemsInOnePlace
  
  
PROPERTIES
  ItemsStay
CONSTRAINT Explored
SYMMETRY CharSymmetry
