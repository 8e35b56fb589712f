SPECIFICATION Spec
CONSTANTS
  Conn = {a}
INVARIANTS
  TargetExists
CHECK_DEADLOCK FALSE
