SPECIFICATION FairSpec
CONSTANTS
  Map = {m1, m2, m3}
  Worker = {w1, w2}
  NoMap = NoMap
INVARIANTS
  PendingExact
  Barrier
  
PROPERTIES
  TickEnds
  ShutdownEnds
  ImplementsTick
