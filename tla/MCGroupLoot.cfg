SPECIFICATION Spec
CONSTANTS
  Player = {a, b, c, d}
  Party = {g, h}
  Source = {o1, o2}
  NoPlayer = NoPlayer
  NoParty = NoParty
  NoRoll = NoRoll
  MaxSize = 3
INVARIANTS
  InvitesAgree
  MembershipAgrees
  GroupsStand
  
  
CONSTRAINTS
  PointersAreSound
  FewAtOnce
SYMMETRY Symmetry
