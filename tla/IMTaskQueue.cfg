SPECIFICATION FairSpec
CONSTANTS
  Users = {u1}
  Clients = {c1, c2}
  Workers = {w1, w2}
  Queues = {q1, q2, q3}
  MaxTasks = 3
  Capacity = 2
  NoQueue = NoQueue
  NoUser = NoUser
INVARIANTS OneWorkerPerUser WorkIsSignalled
PROPERTIES ImplementsMailbox MailboxDrains WorkersWindDown
CHECK_DEADLOCK FALSE
