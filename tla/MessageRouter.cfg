SPECIFICATION FairSpec
CONSTANTS
  Requests = {r1}
  Users = {u1}
  NoUser = NoUser
  ProgressCap = 2
  Timeout = 2
  Slack = 1
  Deadline = 5
  Lag = 2
INVARIANTS WaitersStayRegistered CancelledIsUnblocked
PROPERTIES TimeoutOnlyWhenSilent EveryRequestReturns
CHECK_DEADLOCK FALSE
