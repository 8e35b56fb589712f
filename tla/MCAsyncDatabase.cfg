SPECIFICATION Spec
CONSTANTS
  World = World
  MapWorker = MapWorker
  Thread = {World, MapWorker}
  Delayer = Delayer
  NoOp = NoOp
  NoTrans = NoTrans
  Free = Free
  MaxStmt <- MCMaxStmt
  MaxQueue = 2
INVARIANTS
  WorkIsOwners
  QueriesSeeWrites
  NothingLeftBehind
PROPERTIES
  ImplementsStore
  EverythingSettles
CHECK_DEADLOCK FALSE
