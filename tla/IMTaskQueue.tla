----------------------------- MODULE IMTaskQueue -----------------------------
(***************************************************************************)
(* The per-user background task queue of the Hub's IM adapter,             *)
(* hub/internal/im/task_queue.go: request handlers enqueue messages, one   *)
(* worker goroutine per user dequeues and executes them and exits after an *)
(* idle timeout.  Each action is one critical section (d.mu or q.mu) or    *)
(* one channel operation of the code; between two of them any other        *)
(* goroutine may run.                                                      *)
(***************************************************************************)
EXTENDS Naturals, Sequences, FiniteSets

CONSTANTS
  Users,      \* user IDs
  Clients,    \* goroutines of HandleMessage that may be inside Enqueue
  Workers,    \* identities for runWorker goroutines
  Queues,     \* identities (addresses) for userQueue objects
  MaxTasks,   \* bound on the tasks ever created (the code has a uint64)
  Capacity,   \* capacity of one userQueue (DefaultQueueCapacity in the code)
  NoQueue, NoUser

ASSUME QueueAssumption ==
  /\ MaxTasks \in Nat
  /\ Capacity \in Nat \ {0}
  /\ NoQueue \notin Queues
  /\ NoUser \notin Users

Tasks == 1..MaxTasks     \* IMTask.ID, 0 stands for the nil task
NoTask == 0

VARIABLES
  queues,    \* d.queues: the registered queue of each user, or NoQueue
  owner,     \* the user each userQueue was created for, NoUser if not created
  tasks,     \* userQueue.tasks
  running,   \* userQueue.running
  notify,    \* whether the one-slot notify channel holds a signal
  stopped,   \* userQueue.stopped, that is stopCh is closed
  pc,        \* where each runWorker goroutine stands
  wq,        \* its queue
  wtask,     \* the task it executes
  cpc,       \* where each Enqueue call stands
  cq,        \* the queue it looked up
  ctask,     \* the task it carries
  nextID,    \* taskIDCounter
  status     \* history: what became of each task

queueVars  == <<owner, tasks, running, notify, stopped>>
workerVars == <<pc, wq, wtask>>
clientVars == <<cpc, cq, ctask>>
vars == <<queues, queueVars, workerVars, clientVars, nextID, status>>

FreeWorkers == {w \in Workers : pc[w] = "free"}
LiveWorkers == {w \in Workers : pc[w] # "free"}
NewQueues   == {q \in Queues : owner[q] = NoUser}

Init ==
  /\ queues  = [u \in Users |-> NoQueue]
  /\ owner   = [q \in Queues |-> NoUser]
  /\ tasks   = [q \in Queues |-> <<>>]
  /\ running = [q \in Queues |-> FALSE]
  /\ notify  = [q \in Queues |-> FALSE]
  /\ stopped = [q \in Queues |-> FALSE]
  /\ pc    = [w \in Workers |-> "free"]
  /\ wq    = [w \in Workers |-> NoQueue]
  /\ wtask = [w \in Workers |-> NoTask]
  /\ cpc   = [c \in Clients |-> "idle"]
  /\ cq    = [c \in Clients |-> NoQueue]
  /\ ctask = [c \in Clients |-> NoTask]
  /\ nextID = 0
  /\ status = [t \in Tasks |-> "new"]

-----------------------------------------------------------------------------
(* Enqueue, up to d.mu.Unlock: number the task, find the user's queue or   *)
(* create it together with its worker.                                     *)
Locate(c, u) ==
  /\ cpc[c] = "idle"
  /\ nextID < MaxTasks
  /\ nextID' = nextID + 1
  /\ ctask' = [ctask EXCEPT ![c] = nextID + 1]
  /\ cpc'   = [cpc EXCEPT ![c] = "located"]
  /\ status' = [status EXCEPT ![nextID + 1] = "placing"]
  /\ \/ /\ queues[u] # NoQueue
        /\ cq' = [cq EXCEPT ![c] = queues[u]]
        /\ UNCHANGED <<queues, owner, pc, wq>>
     \/ /\ queues[u] = NoQueue
        /\ \E q \in NewQueues, w \in FreeWorkers :
             /\ owner'  = [owner EXCEPT ![q] = u]
             /\ queues' = [queues EXCEPT ![u] = q]
             /\ cq' = [cq EXCEPT ![c] = q]
             /\ pc' = [pc EXCEPT ![w] = "dequeue"]
             /\ wq' = [wq EXCEPT ![w] = q]
  /\ UNCHANGED <<tasks, running, notify, stopped, wtask>>

(* Mutants of Accept: the capacity test is off by one; no signal is left.  *)
AcceptOneTooMany(c) ==
  /\ cpc[c] = "located"
  /\ Len(tasks[cq[c]]) <= Capacity
  /\ tasks'  = [tasks EXCEPT ![cq[c]] = Append(@, ctask[c])]
  /\ notify' = [notify EXCEPT ![cq[c]] = TRUE]
  /\ status' = [status EXCEPT ![ctask[c]] = "waiting"]
  /\ cpc'    = [cpc EXCEPT ![c] = "queued"]
  /\ UNCHANGED <<queues, owner, running, stopped, workerVars, cq, ctask, nextID>>

AcceptSilently(c) ==
  /\ cpc[c] = "located"
  /\ Len(tasks[cq[c]]) < Capacity
  /\ tasks'  = [tasks EXCEPT ![cq[c]] = Append(@, ctask[c])]
  /\ status' = [status EXCEPT ![ctask[c]] = "waiting"]
  /\ cpc'    = [cpc EXCEPT ![c] = "queued"]
  /\ UNCHANGED <<queues, owner, running, notify, stopped, workerVars, cq, ctask, nextID>>

(* q.enqueue accepts: append and leave a signal unless one is there.       *)
Accept(c) ==
  /\ cpc[c] = "located"
  /\ Len(tasks[cq[c]]) < Capacity
  /\ tasks'  = [tasks EXCEPT ![cq[c]] = Append(@, ctask[c])]
  /\ notify' = [notify EXCEPT ![cq[c]] = TRUE]
  /\ status' = [status EXCEPT ![ctask[c]] = "waiting"]
  /\ cpc'    = [cpc EXCEPT ![c] = "queued"]
  /\ UNCHANGED <<queues, owner, running, stopped, workerVars, cq, ctask, nextID>>

Return(c) ==
  /\ cpc'   = [cpc EXCEPT ![c] = "idle"]
  /\ cq'    = [cq EXCEPT ![c] = NoQueue]
  /\ ctask' = [ctask EXCEPT ![c] = NoTask]

(* q.enqueue refuses a full queue and Enqueue answers 429.                 *)
Refuse(c) ==
  /\ cpc[c] = "located"
  /\ Len(tasks[cq[c]]) >= Capacity
  /\ status' = [status EXCEPT ![ctask[c]] = "refused"]
  /\ Return(c)
  /\ UNCHANGED <<queues, queueVars, workerVars, nextID>>

(* q.stats, read after q.mu was released, decides between the two answers *)
(* "queued, n-th in line" and "processing".                                *)
ReplyQueued(c) ==
  /\ cpc[c] = "queued"
  /\ running[cq[c]]
  /\ Return(c)
  /\ UNCHANGED <<queues, queueVars, workerVars, nextID, status>>

ReplyProcessing(c) ==
  /\ cpc[c] = "queued"
  /\ ~running[cq[c]]
  /\ Return(c)
  /\ UNCHANGED <<queues, queueVars, workerVars, nextID, status>>

-----------------------------------------------------------------------------
(* dequeue found a task: the worker is about to execute it.                *)
Dequeue(w) ==
  LET q == wq[w] IN
  /\ pc[w] = "dequeue"
  /\ tasks[q] # <<>>
  /\ tasks'   = [tasks EXCEPT ![q] = Tail(@)]
  /\ running' = [running EXCEPT ![q] = TRUE]
  /\ wtask'   = [wtask EXCEPT ![w] = Head(tasks[q])]
  /\ status'  = [status EXCEPT ![Head(tasks[q])] = "running"]
  /\ pc' = [pc EXCEPT ![w] = "execute"]
  /\ UNCHANGED <<queues, owner, notify, stopped, wq, clientVars, nextID>>

(* dequeue found nothing: the worker goes to its select.                   *)
DequeueNone(w) ==
  /\ pc[w] = "dequeue"
  /\ tasks[wq[w]] = <<>>
  /\ running' = [running EXCEPT ![wq[w]] = FALSE]
  /\ pc' = [pc EXCEPT ![w] = "select"]
  /\ UNCHANGED <<queues, owner, tasks, notify, stopped, wq, wtask, clientVars,
                 nextID, status>>

(* executeTask returns: the response, or the 500 an error or a recovered   *)
(* panic is turned into, has been delivered, or there was none (nil).      *)
Finish(w) ==
  /\ pc[w] = "execute"
  /\ status' = [status EXCEPT ![wtask[w]] = "done"]
  /\ wtask' = [wtask EXCEPT ![w] = NoTask]
  /\ pc' = [pc EXCEPT ![w] = "dequeue"]
  /\ UNCHANGED <<queues, queueVars, wq, clientVars, nextID>>

(* The three cases of the worker's select.  The idle timer may be ready    *)
(* together with a signal; Go then picks either.                           *)
SelectNotify(w) ==
  /\ pc[w] = "select"
  /\ notify[wq[w]]
  /\ notify' = [notify EXCEPT ![wq[w]] = FALSE]
  /\ pc' = [pc EXCEPT ![w] = "dequeue"]
  /\ UNCHANGED <<queues, owner, tasks, running, stopped, wq, wtask, clientVars,
                 nextID, status>>

(* Mutant of SelectIdle: the timer case continues instead of returning.     *)
SelectIdleContinues(w) ==
  /\ pc[w] = "select"
  /\ pc' = [pc EXCEPT ![w] = "dequeue"]
  /\ UNCHANGED <<queues, queueVars, wq, wtask, clientVars, nextID, status>>

SelectIdle(w) ==
  /\ pc[w] = "select"
  /\ pc' = [pc EXCEPT ![w] = "exit"]
  /\ UNCHANGED <<queues, queueVars, wq, wtask, clientVars, nextID, status>>

SelectStop(w) ==
  /\ pc[w] = "select"
  /\ stopped[wq[w]]
  /\ pc' = [pc EXCEPT ![w] = "exit"]
  /\ UNCHANGED <<queues, queueVars, wq, wtask, clientVars, nextID, status>>

(* Mutant of Respawn: the return is missing, the entry is deleted as well.  *)
RespawnAndDelete(w) ==
  /\ pc[w] = "exit"
  /\ tasks[wq[w]] # <<>>
  /\ queues' = [queues EXCEPT ![owner[wq[w]]] = NoQueue]
  /\ \E n \in FreeWorkers :
       /\ pc' = [pc EXCEPT ![w] = "free", ![n] = "dequeue"]
       /\ wq' = [wq EXCEPT ![w] = NoQueue, ![n] = wq[w]]
  /\ UNCHANGED <<queueVars, wtask, clientVars, nextID, status>>

(* The deferred drain check, under d.mu: respawn a worker for the same     *)
(* queue if it holds work ...                                              *)
Respawn(w) ==
  /\ pc[w] = "exit"
  /\ tasks[wq[w]] # <<>>
  /\ \E n \in FreeWorkers :
       /\ pc' = [pc EXCEPT ![w] = "free", ![n] = "dequeue"]
       /\ wq' = [wq EXCEPT ![w] = NoQueue, ![n] = wq[w]]
  /\ UNCHANGED <<queues, queueVars, wtask, clientVars, nextID, status>>

(* Mutant of Unregister: no drain check.                                    *)
UnregisterUnchecked(w) ==
  /\ pc[w] = "exit"
  /\ queues' = [queues EXCEPT ![owner[wq[w]]] = NoQueue]
  /\ pc' = [pc EXCEPT ![w] = "free"]
  /\ wq' = [wq EXCEPT ![w] = NoQueue]
  /\ UNCHANGED <<queueVars, wtask, clientVars, nextID, status>>

(* ... and otherwise forget the user's queue.                              *)
Unregister(w) ==
  /\ pc[w] = "exit"
  /\ tasks[wq[w]] = <<>>
  /\ queues' = [queues EXCEPT ![owner[wq[w]]] = NoQueue]
  /\ pc' = [pc EXCEPT ![w] = "free"]
  /\ wq' = [wq EXCEPT ![w] = NoQueue]
  /\ UNCHANGED <<queueVars, wtask, clientVars, nextID, status>>

(* Shutdown, under d.mu: stop every registered queue.                      *)
Shutdown ==
  LET live == {queues[u] : u \in Users} \ {NoQueue} IN
  /\ \E q \in live : ~stopped[q]
  /\ stopped' = [q \in Queues |-> stopped[q] \/ q \in live]
  /\ UNCHANGED <<queues, owner, tasks, running, notify, workerVars, clientVars,
                 nextID, status>>

-----------------------------------------------------------------------------
EnqueueStep(c) == Accept(c) \/ Refuse(c) \/ ReplyQueued(c) \/ ReplyProcessing(c)

WorkerStep(w) ==
  \/ Dequeue(w) \/ DequeueNone(w) \/ Finish(w)
  \/ SelectNotify(w) \/ SelectIdle(w) \/ SelectStop(w)
  \/ Respawn(w) \/ Unregister(w)

Next ==
  \/ \E c \in Clients, u \in Users : Locate(c, u)
  \/ \E c \in Clients : EnqueueStep(c)
  \/ \E w \in Workers : WorkerStep(w)
  \/ Shutdown

Spec == Init /\ [][Next]_vars

(* Goroutines are scheduled, the executor's context times out and the idle *)
(* timer fires; no user has to send another message.                       *)
Fairness == /\ \A c \in Clients : WF_vars(EnqueueStep(c))
            /\ \A w \in Workers : WF_vars(WorkerStep(w))

FairSpec == Spec /\ Fairness

-----------------------------------------------------------------------------
(* The representation: every variable has its type, an idle goroutine      *)
(* holds nothing and a live one holds a created queue.                     *)
TypeOK ==
  /\ queues \in [Users -> Queues \cup {NoQueue}]
  /\ owner \in [Queues -> Users \cup {NoUser}]
  /\ tasks \in [Queues -> Seq(Tasks)]
  /\ running \in [Queues -> BOOLEAN]
  /\ notify \in [Queues -> BOOLEAN]
  /\ stopped \in [Queues -> BOOLEAN]
  /\ pc \in [Workers -> {"free", "dequeue", "execute", "select", "exit"}]
  /\ wq \in [Workers -> Queues \cup {NoQueue}]
  /\ wtask \in [Workers -> Tasks \cup {NoTask}]
  /\ cpc \in [Clients -> {"idle", "located", "queued"}]
  /\ cq \in [Clients -> Queues \cup {NoQueue}]
  /\ ctask \in [Clients -> Tasks \cup {NoTask}]
  /\ nextID \in 0..MaxTasks
  /\ status \in [Tasks -> {"new", "placing", "waiting", "running", "done",
                           "refused"}]
  /\ \A w \in LiveWorkers : wq[w] \in Queues
  /\ \A w \in Workers : pc[w] = "execute" <=> wtask[w] \in Tasks
  /\ \A c \in Clients : cpc[c] # "idle" => cq[c] \in Queues /\ ctask[c] \in Tasks

(* Two messages of one user are never executed at the same time: whatever  *)
(* queues were created, drained, respawned or deleted, at most one         *)
(* runWorker goroutine serves a user.                                      *)
OneWorkerPerUser ==
  \A v, w \in LiveWorkers : owner[wq[v]] = owner[wq[w]] => v = w

(* No wake-up is lost: while a user's registered queue holds tasks, some   *)
(* worker of that queue is on its way to look at it again - it is not      *)
(* parked in its select without a signal.                                  *)
WorkIsSignalled ==
  \A u \in Users :
    queues[u] # NoQueue /\ tasks[queues[u]] # <<>> =>
      \E w \in LiveWorkers : /\ wq[w] = queues[u]
                             /\ pc[w] = "select" => notify[queues[u]]

(* The mailbox a user sees: the tasks of the registered queue and the task *)
(* under execution.  A task appended to a queue that is no longer          *)
(* registered never enters it.                                             *)
MailWaiting == [u \in Users |-> IF queues[u] = NoQueue THEN <<>> ELSE tasks[queues[u]]]
MailCurrent == [u \in Users |->
                  {wtask[w] : w \in {v \in Workers : pc[v] = "execute" /\ owner[wq[v]] = u}}]

Mail == INSTANCE SerialMailbox WITH waiting <- MailWaiting, current <- MailCurrent

(* The dispatcher implements the mailbox: per-user FIFO, one at a time,    *)
(* bounded, nothing removed from the mailbox but by being started - across *)
(* idle exits, respawns, shutdown and re-creation of the queue.            *)
ImplementsMailbox == Mail!Spec

(* Every task that is in its user's mailbox is executed to an end, also    *)
(* when the idle timer or Shutdown makes its worker exit first.            *)
MailboxDrains ==
  \A t \in Tasks, u \in Users :
    (queues[u] # NoQueue /\ \E i \in DOMAIN MailWaiting[u] : MailWaiting[u][i] = t)
      ~> status[t] = "done"

(* Worker goroutines do not leak: once the last message was handled, the   *)
(* idle timer makes every worker exit and every queue entry disappear.     *)
WorkersWindDown == <>[](LiveWorkers = {} /\ \A u \in Users : queues[u] = NoQueue)
==============================================================================
