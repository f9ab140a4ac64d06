SPECIFICATION BatchFairSpec
CONSTANTS
  Callers = {a, b, c}
  QueueSize = 2
  MaxBatchSize = 2
INVARIANTS BatchTypeOK AnswersAreTrue ExactlyOnce
PROPERTIES Fifo WritesReturn
CHECK_DEADLOCK FALSE
