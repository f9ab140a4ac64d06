CONSTANTS
  Messages = {h1}
  Notices = {n1}
  Discs = {d1, d2}
  NoDisc = NoDisc
  Conductable = {d1}
  Askers = {a1}
  Rounds = 2
  Callers = {d1, d2, a1}
  Channels = {k1}
  NoChannel = NoChannel
  Capacities = {1}
  HotResize = FALSE
SPECIFICATION DiscSpec
INVARIANTS SlotsMatchHolders RunningEntryHasLoop
PROPERTIES EveryDiscussionEnds MeetingIsLeft
CHECK_DEADLOCK FALSE
