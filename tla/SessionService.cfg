SPECIFICATION FairSpec
CONSTANTS
  c1 = c1
  c2 = c2
  Conns = {c1, c2}
  Reported = {"running", "exited"}
  Final = {"exited"}
  Terminal = {"exited"}
  MaxLines = 2
  MaxCreates = 2
  MaxCloses = 1
INVARIANTS
  LinesAccounted
  OnlineHostHasConnection
  RowSettles
PROPERTIES
  ExitIsFinal
  EveryLineShown
CHECK_DEADLOCK FALSE
