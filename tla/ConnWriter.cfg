SPECIFICATION FairSpec
CONSTANTS
  Senders = {s1, s2}
  BufSize = 2
  FlushSmall = 2
  FlushBig = 3
  MaxMessages = 6
INVARIANTS NothingLost
PROPERTIES Delivered SlowClientDropped
CHECK_DEADLOCK FALSE
