SPECIFICATION ScanSpec
CONSTANTS
  Other = {"x"}
  MaxLength = 7
INVARIANTS CommentsRemoved ClosedIsAccepted
CHECK_DEADLOCK FALSE
