\* two connects, two losses, two lines.
SPECIFICATION PreviewFairSpec
CONSTANTS
  MaxConns = 2
  MaxLosses = 2
  MaxLines = 2
INVARIANTS NoLineForgotten
PROPERTIES AllLinesArrive
CHECK_DEADLOCK FALSE
