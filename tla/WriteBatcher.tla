----------------------------- MODULE WriteBatcher -----------------------------
(***************************************************************************)
(* The write batcher of hub/internal/store/sqlite/batcher.go.  Repository  *)
(* writes of many goroutines are queued in a channel; one goroutine        *)
(* collects them and executes each batch in one transaction when the flush *)
(* timer fires, the batch is full or the batcher is closed.  ExecContext   *)
(* waits for the result of its write or for its context.                   *)
(*                                                                         *)
(* Each caller makes one call; a call stands for its write.                *)
(***************************************************************************)
EXTENDS Naturals, Sequences, FiniteSets, SequencesExt

CONSTANTS
  Callers,
  QueueSize,     \* buffer of b.jobs
  MaxBatchSize

ASSUME BatcherAssumption == QueueSize \in Nat \ {0} /\ MaxBatchSize \in Nat \ {0}

VARIABLES
  at,       \* where each call stands; "ok" and "err" are its return values
  expired,  \* callers whose context is done
  jobs,     \* the channel b.jobs
  pending,  \* the batch collected by run
  timerOn,  \* whether timerC is armed
  runner,   \* "select", "drain" (stop seen) or "done"
  stop,     \* b.stop is closed
  result,   \* job.result of each write, a buffer of one
  db        \* the committed writes, in order

batchVars == <<at, expired, jobs, pending, timerOn, runner, stop, result, db>>

BatchInit ==
  /\ at = [c \in Callers |-> "idle"]
  /\ expired = {}
  /\ jobs = <<>> /\ pending = <<>> /\ timerOn = FALSE
  /\ runner = "select" /\ stop = FALSE
  /\ result = [c \in Callers |-> "none"]
  /\ db = <<>>

Step(c, from, to) == at[c] = from /\ at' = [at EXCEPT ![c] = to]
RunnerVars == <<pending, timerOn, runner, result, db>>

-----------------------------------------------------------------------------
(* ExecContext: build the job ...                                          *)
Call(c) ==
  /\ Step(c, "idle", "submit")
  /\ UNCHANGED <<expired, jobs, stop, RunnerVars>>

Expire(c) ==
  /\ at[c] \in {"submit", "wait"} /\ c \notin expired
  /\ expired' = expired \cup {c}
  /\ UNCHANGED <<at, jobs, stop, RunnerVars>>

(* ... select: closed, or the context is done, or room in the queue; with  *)
(* several ready Go takes any of them ...                                  *)
SubmitRefused(c) ==
  /\ Step(c, "submit", "err")
  /\ stop \/ c \in expired
  /\ UNCHANGED <<expired, jobs, stop, RunnerVars>>

(* Mutant of Submit: the queue has no bound.                               *)
SubmitUnbounded(c) ==
  /\ Step(c, "submit", "wait")
  /\ jobs' = Append(jobs, c)
  /\ UNCHANGED <<expired, stop, RunnerVars>>

Submit(c) ==
  /\ Step(c, "submit", "wait")
  /\ Len(jobs) < QueueSize
  /\ jobs' = Append(jobs, c)
  /\ UNCHANGED <<expired, stop, RunnerVars>>

(* ... and wait for the result or the context.                             *)
ReceiveResult(c) ==
  /\ result[c] # "none"
  /\ Step(c, "wait", result[c])
  /\ UNCHANGED <<expired, jobs, stop, RunnerVars>>

WaitCancelled(c) ==
  /\ c \in expired
  /\ Step(c, "wait", "err")
  /\ UNCHANGED <<expired, jobs, stop, RunnerVars>>

-----------------------------------------------------------------------------
(* flush goes through the batch, skips the jobs whose context is done and  *)
(* executes the others in one transaction.  When it cannot begin, a        *)
(* statement fails or the commit fails, nothing is written and every job   *)
(* gets an error.                                                          *)
Live(batch) ==
  LET executed[n \in 0..Len(batch)] ==
        IF n = 0 THEN <<>>
        ELSE IF batch[n] \in expired THEN executed[n - 1]
        ELSE Append(executed[n - 1], batch[n])
  IN  executed[Len(batch)]

(* Mutants of Flush: a failing statement leaves the earlier ones in place; *)
(* the batch is not reset.                                                 *)
FlushWithoutRollback(batch, commits) ==
  LET written == IF commits THEN Live(batch) ELSE <<>> IN
  /\ \E n \in 0..Len(Live(batch)) :
       db' = db \o (IF commits THEN written ELSE SubSeq(Live(batch), 1, n))
  /\ result' = [c \in Callers |->
                  IF c \in ToSet(written) THEN "ok"
                  ELSE IF c \in ToSet(batch) THEN "err" ELSE result[c]]
  /\ pending' = <<>>
  /\ timerOn' = FALSE

FlushKeepsBatch(batch, commits) ==
  LET written == IF commits THEN Live(batch) ELSE <<>> IN
  /\ db' = db \o written
  /\ result' = [c \in Callers |->
                  IF c \in ToSet(written) THEN "ok"
                  ELSE IF c \in ToSet(batch) THEN "err" ELSE result[c]]
  /\ pending' = batch
  /\ timerOn' = FALSE

Flush(batch, commits) ==
  LET written == IF commits THEN Live(batch) ELSE <<>> IN
  /\ db' = db \o written
  /\ result' = [c \in Callers |->
                  IF c \in ToSet(written) THEN "ok"
                  ELSE IF c \in ToSet(batch) THEN "err" ELSE result[c]]
  /\ pending' = <<>>
  /\ timerOn' = FALSE

(* Mutant of Collect: the batch is collected as a stack.                   *)
CollectAsStack ==
  /\ runner = "select" /\ jobs # <<>>
  /\ jobs' = Tail(jobs)
  /\ LET batch == <<Head(jobs)>> \o pending IN
       IF Len(batch) >= MaxBatchSize
       THEN \E commits \in BOOLEAN : Flush(batch, commits)
       ELSE /\ pending' = batch
            /\ timerOn' = (timerOn \/ Len(batch) = 1)
            /\ UNCHANGED <<result, db>>
  /\ UNCHANGED <<at, expired, stop, runner>>

(* run: collect a job, and flush at once when the batch is full.           *)
Collect ==
  /\ runner = "select" /\ jobs # <<>>
  /\ jobs' = Tail(jobs)
  /\ LET batch == Append(pending, Head(jobs)) IN
       IF Len(batch) >= MaxBatchSize
       THEN \E commits \in BOOLEAN : Flush(batch, commits)
       ELSE /\ pending' = batch
            /\ timerOn' = (timerOn \/ Len(batch) = 1)
            /\ UNCHANGED <<result, db>>
  /\ UNCHANGED <<at, expired, stop, runner>>

TimerFires ==
  /\ runner = "select" /\ timerOn
  /\ \E commits \in BOOLEAN : Flush(pending, commits)
  /\ UNCHANGED <<at, expired, jobs, stop, runner>>

(* Mutant of SeeStop: run returns at once, without draining the channel.   *)
SeeStopReturns ==
  /\ runner = "select" /\ stop
  /\ \E commits \in BOOLEAN : Flush(pending, commits)
  /\ runner' = "done"
  /\ UNCHANGED <<at, expired, jobs, stop>>

SeeStop ==
  /\ runner = "select" /\ stop
  /\ runner' = "drain"
  /\ UNCHANGED <<at, expired, jobs, stop, pending, timerOn, result, db>>

DrainJob ==
  /\ runner = "drain" /\ jobs # <<>>
  /\ pending' = Append(pending, Head(jobs))
  /\ jobs' = Tail(jobs)
  /\ UNCHANGED <<at, expired, stop, timerOn, runner, result, db>>

DrainDone ==
  /\ runner = "drain" /\ jobs = <<>>
  /\ \E commits \in BOOLEAN : Flush(pending, commits)
  /\ runner' = "done"
  /\ UNCHANGED <<at, expired, jobs, stop>>

(* Close closes b.stop, at any time, and returns when run is done.         *)
Close ==
  /\ ~stop
  /\ stop' = TRUE
  /\ UNCHANGED <<at, expired, jobs, RunnerVars>>

-----------------------------------------------------------------------------
CallerStep(c) == SubmitRefused(c) \/ Submit(c) \/ ReceiveResult(c) \/ WaitCancelled(c)
RunnerStep == Collect \/ TimerFires \/ SeeStop \/ DrainJob \/ DrainDone

BatchNext ==
  \/ \E c \in Callers : Call(c) \/ Expire(c) \/ CallerStep(c)
  \/ RunnerStep
  \/ Close

BatchSpec == BatchInit /\ [][BatchNext]_batchVars

(* The goroutines are scheduled and the timer fires; contexts need not be  *)
(* done and nobody has to close.                                           *)
BatchFairSpec ==
  /\ BatchSpec
  /\ WF_batchVars(RunnerStep) /\ \A c \in Callers : WF_batchVars(CallerStep(c))

-----------------------------------------------------------------------------
Statuses == {"idle", "submit", "wait", "ok", "err"}

BatchTypeOK ==
  /\ at \in [Callers -> Statuses]
  /\ expired \subseteq Callers
  /\ jobs \in Seq(Callers) /\ Len(jobs) <= QueueSize
  /\ pending \in Seq(Callers)
  /\ timerOn \in BOOLEAN /\ stop \in BOOLEAN
  /\ runner \in {"select", "drain", "done"}
  /\ result \in [Callers -> {"none", "ok", "err"}]
  /\ db \in Seq(Callers)

(* What a caller is told is true, and stays true: a write that was          *)
(* acknowledged has been committed, one that failed has not - all or       *)
(* nothing for the whole batch -, unless its caller gave up waiting.       *)
AnswersAreTrue ==
  \A c \in Callers :
    /\ at[c] = "ok" => c \in ToSet(db)
    /\ at[c] = "err" /\ c \notin expired => c \notin ToSet(db)

(* No write is lost on its way and none is executed twice: a write that    *)
(* waits for its result is in the queue or in the batch, exactly once, and *)
(* no longer once it is committed.                                         *)
InFlight == pending \o jobs
ExactlyOnce ==
  /\ \A i, j \in 1..Len(InFlight \o db) :
       (InFlight \o db)[i] = (InFlight \o db)[j] => i = j
  /\ \A c \in Callers : at[c] = "wait" /\ result[c] = "none" => c \in ToSet(InFlight)

(* First in, first out: of two writes in flight the one queued first is    *)
(* never overtaken, within a batch or by a later one.                      *)
Before(s, x, y) == \E i, j \in 1..Len(s) : i < j /\ s[i] = x /\ s[j] = y
Fifo ==
  [][\A c, d \in Callers : Before(InFlight, c, d) /\ d \in ToSet(db') =>
       c \notin ToSet(InFlight') /\ ~Before(db', d, c)]_batchVars

(* Every write queued before Close returns, whether the batcher stays open *)
(* or is closed meanwhile.  (One queued by a call that races Close may find *)
(* run gone; then only its context ends it.)                               *)
WritesReturn == \A c \in Callers : at[c] = "wait" /\ ~stop ~> at[c] \in {"ok", "err"}
===============================================================================
