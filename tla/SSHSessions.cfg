CONSTANTS
  p1 = p1  p2 = p2  s1 = s1  s2 = s2
  Callers = {p1, p2}
  Sessions = {s1, s2}
  MaxDials = 2
  MaxShells = 2
  NoSession = NoSession
SPECIFICATION Spec
INVARIANTS RefsExact NoConnectionLeaks
PROPERTIES LostIsClosed
CHECK_DEADLOCK FALSE
