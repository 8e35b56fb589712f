SPECIFICATION Spec
CONSTANTS
  Conn = {a, b}
INVARIANTS
  PublishedIsAuthed
  RejectedInTheClear
  OpenSessionIsReachable
PROPERTIES
  ClosedIsReclaimed
CHECK_DEADLOCK FALSE
