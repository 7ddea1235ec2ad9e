SPECIFICATION DemoSpec
CONSTANTS
  Counts = {0, 31, 40}
  MinMutuals = 0
  MaxLines = 4
INVARIANTS
  FenceIsTransparent
  ReportsFitRows
CHECK_DEADLOCK FALSE
