\* three connections, two calls from the user interface.
SPECIFICATION ClientFairSpec
CONSTANTS
  MaxConns = 3
  MaxCalls = 2
INVARIANTS ConnectionIsWatched
PROPERTIES BrokenIsDropped
CHECK_DEADLOCK FALSE
