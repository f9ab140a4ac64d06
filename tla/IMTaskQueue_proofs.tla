-------------------------- MODULE IMTaskQueue_proofs --------------------------
(***************************************************************************)
(* Theorems about the task queue of IMTaskQueue, for any number of users,  *)
(* goroutines, queues and tasks and any capacity.                          *)
(***************************************************************************)
EXTENDS IMTaskQueue, TLAPS

(* The inductive core: a live worker's queue is the registered queue of    *)
(* the user it was created for, no two workers share a queue, and a        *)
(* registered queue has a worker.                                          *)
Registered ==
  /\ \A w \in LiveWorkers : /\ owner[wq[w]] \in Users
                            /\ queues[owner[wq[w]]] = wq[w]
  /\ \A v, w \in LiveWorkers : wq[v] = wq[w] => v = w
  /\ \A u \in Users : queues[u] # NoQueue =>
       /\ owner[queues[u]] = u
       /\ \E w \in LiveWorkers : wq[w] = queues[u]

-----------------------------------------------------------------------------
LEMMA TypeInit == Init => TypeOK
BY QueueAssumption DEF Init, TypeOK, LiveWorkers, Tasks, NoTask

LEMMA TypeEnqueue ==
  ASSUME TypeOK, NEW c \in Clients, (\E u \in Users : Locate(c, u)) \/ EnqueueStep(c)
  PROVE  TypeOK'
<1> USE QueueAssumption DEF TypeOK, LiveWorkers, Tasks, NoTask
<1>1. ASSUME NEW u \in Users, Locate(c, u) PROVE TypeOK'
  <2>1. nextID + 1 \in Tasks
    BY <1>1 DEF Locate
  <2>2. CASE queues[u] # NoQueue
    <3>1. cq' = [cq EXCEPT ![c] = queues[u]] /\ UNCHANGED <<queues, owner, pc, wq>>
      BY <1>1, <2>2 DEF Locate
    <3> QED BY <1>1, <2>1, <2>2, <3>1 DEF Locate
  <2>3. CASE queues[u] = NoQueue
    <3>1. PICK q \in NewQueues, w \in FreeWorkers :
             /\ owner'  = [owner EXCEPT ![q] = u]
             /\ queues' = [queues EXCEPT ![u] = q]
             /\ cq' = [cq EXCEPT ![c] = q]
             /\ pc' = [pc EXCEPT ![w] = "dequeue"]
             /\ wq' = [wq EXCEPT ![w] = q]
      BY <1>1, <2>3 DEF Locate
    <3> QED BY <1>1, <2>1, <3>1 DEF Locate, NewQueues, FreeWorkers
  <2> QED BY <2>2, <2>3
<1>2. ASSUME Accept(c) PROVE TypeOK'
  BY <1>2 DEF Accept, workerVars
<1>3. ASSUME Refuse(c) PROVE TypeOK'
  BY <1>3 DEF Refuse, Return, queueVars, workerVars
<1>4. ASSUME ReplyQueued(c) \/ ReplyProcessing(c) PROVE TypeOK'
  BY <1>4 DEF ReplyQueued, ReplyProcessing, Return, queueVars, workerVars
<1> QED BY <1>1, <1>2, <1>3, <1>4 DEF EnqueueStep

LEMMA TypeWorker ==
  ASSUME TypeOK, NEW w \in Workers, WorkerStep(w)
  PROVE  TypeOK'
<1> USE QueueAssumption DEF TypeOK, LiveWorkers, Tasks, NoTask
<1>1. ASSUME Dequeue(w) PROVE TypeOK'
  <2>1. /\ tasks[wq[w]] \in Seq(Tasks) /\ tasks[wq[w]] # <<>>
        /\ wq[w] \in Queues
    BY <1>1 DEF Dequeue
  <2>2. Head(tasks[wq[w]]) \in Tasks /\ Tail(tasks[wq[w]]) \in Seq(Tasks)
    BY <2>1
  <2> QED BY <1>1, <2>1, <2>2 DEF Dequeue, clientVars
<1>2. ASSUME DequeueNone(w) PROVE TypeOK'
  BY <1>2 DEF DequeueNone, clientVars
<1>3. ASSUME Finish(w) PROVE TypeOK'
  BY <1>3 DEF Finish, queueVars, clientVars
<1>4. ASSUME SelectNotify(w) PROVE TypeOK'
  BY <1>4 DEF SelectNotify, clientVars
<1>5. ASSUME SelectIdle(w) \/ SelectStop(w) PROVE TypeOK'
  BY <1>5 DEF SelectIdle, SelectStop, queueVars, clientVars
<1>6. ASSUME Respawn(w) PROVE TypeOK'
  <2>1. PICK n \in FreeWorkers :
          /\ pc' = [pc EXCEPT ![w] = "free", ![n] = "dequeue"]
          /\ wq' = [wq EXCEPT ![w] = NoQueue, ![n] = wq[w]]
    BY <1>6 DEF Respawn
  <2>2. n # w /\ n \in Workers /\ wq[w] \in Queues /\ pc[w] = "exit"
    BY <1>6 DEF FreeWorkers, Respawn
  <2> QED BY <1>6, <2>1, <2>2 DEF Respawn, queueVars, clientVars, FreeWorkers
<1>7. ASSUME Unregister(w) PROVE TypeOK'
  BY <1>7 DEF Unregister, queueVars, clientVars
<1> QED BY <1>1, <1>2, <1>3, <1>4, <1>5, <1>6, <1>7 DEF WorkerStep

(* Every variable of the task queue keeps its type.                        *)
THEOREM TypeCorrect == Spec => []TypeOK
<1>1. TypeOK /\ [Next]_vars => TypeOK'
  <2> SUFFICES ASSUME TypeOK, [Next]_vars PROVE TypeOK'
    OBVIOUS
  <2>1. CASE Shutdown
    BY <2>1 DEF Shutdown, TypeOK, LiveWorkers, workerVars, clientVars
  <2>2. CASE UNCHANGED vars
    BY <2>2 DEF vars, queueVars, workerVars, clientVars, TypeOK, LiveWorkers
  <2> QED BY <2>1, <2>2, TypeEnqueue, TypeWorker DEF Next
<1> QED BY <1>1, TypeInit, PTL DEF Spec

-----------------------------------------------------------------------------
LEMMA RegisteredInit == Init => Registered
BY DEF Init, Registered, LiveWorkers

LEMMA RegisteredStutter ==
  ASSUME Registered, UNCHANGED <<queues, owner>>, LiveWorkers' = LiveWorkers,
         \A w \in LiveWorkers : wq'[w] = wq[w]
  PROVE  Registered'
BY DEF Registered

(* Only Locate creates, and only Unregister removes, an entry of d.queues. *)
LEMMA RegisteredStep ==
  ASSUME TypeOK, Registered, [Next]_vars
  PROVE  Registered'
<1>1. ASSUME NEW c \in Clients, NEW u \in Users, Locate(c, u) PROVE Registered'
  <2>1. CASE queues[u] # NoQueue
    <3>1. UNCHANGED <<queues, owner, pc, wq>>
      BY <1>1, <2>1 DEF Locate
    <3> QED BY <3>1, RegisteredStutter DEF LiveWorkers
  <2>2. CASE queues[u] = NoQueue
    <3>1. PICK q \in NewQueues, w \in FreeWorkers :
             /\ owner'  = [owner EXCEPT ![q] = u]
             /\ queues' = [queues EXCEPT ![u] = q]
             /\ pc' = [pc EXCEPT ![w] = "dequeue"]
             /\ wq' = [wq EXCEPT ![w] = q]
      BY <1>1, <2>2 DEF Locate
    <3>2. q \in Queues /\ q # NoQueue /\ owner[q] = NoUser /\ w \notin LiveWorkers
          /\ w \in Workers
      BY QueueAssumption DEF NewQueues, FreeWorkers, LiveWorkers
    <3>3. /\ LiveWorkers' = LiveWorkers \cup {w}
          /\ \A v \in LiveWorkers : wq'[v] = wq[v] /\ wq[v] # q
          /\ \A v \in LiveWorkers : owner[wq[v]] # u
          /\ wq'[w] = q
      BY <2>2, <3>1, <3>2, QueueAssumption DEF TypeOK, LiveWorkers, Registered
    <3>4. /\ owner'[q] = u /\ queues'[u] = q
          /\ \A x \in Queues \ {q} : owner'[x] = owner[x]
          /\ \A x \in Users \ {u} : queues'[x] = queues[x]
          /\ \A v \in LiveWorkers : wq[v] \in Queues
      BY <3>1, <3>2 DEF TypeOK
    <3>5. \A v \in LiveWorkers' : owner'[wq'[v]] \in Users /\ queues'[owner'[wq'[v]]] = wq'[v]
      BY <3>3, <3>4 DEF Registered
    <3>6. \A v1, v2 \in LiveWorkers' : wq'[v1] = wq'[v2] => v1 = v2
      BY <3>3, <3>4 DEF Registered
    <3>7. ASSUME NEW x \in Users, queues'[x] # NoQueue
          PROVE  owner'[queues'[x]] = x /\ \E v \in LiveWorkers' : wq'[v] = queues'[x]
      <4>1. CASE x = u
        BY <3>3, <3>4, <4>1
      <4>2. CASE x # u
        <5>1. queues[x] \in Queues /\ owner[queues[x]] = x /\ queues'[x] = queues[x]
          BY <3>4, <3>7, <4>2 DEF Registered, TypeOK
        <5>2. PICK v \in LiveWorkers : wq[v] = queues[x]
          BY <3>7, <4>2, <5>1 DEF Registered
        <5>3. queues[x] # q
          BY <3>3, <5>2
        <5> QED BY <3>3, <3>4, <5>1, <5>2, <5>3
      <4> QED BY <4>1, <4>2
    <3> QED BY <3>5, <3>6, <3>7 DEF Registered
  <2> QED BY <2>1, <2>2
<1>2. ASSUME NEW c \in Clients, EnqueueStep(c) PROVE Registered'
  <2>1. UNCHANGED <<queues, owner, pc, wq>>
    BY <1>2 DEF EnqueueStep, Accept, Refuse, ReplyQueued, ReplyProcessing,
                queueVars, workerVars
  <2> QED BY <2>1, RegisteredStutter DEF LiveWorkers
<1>3. ASSUME NEW w \in Workers, WorkerStep(w) PROVE Registered'
  <2>1. CASE Dequeue(w) \/ DequeueNone(w) \/ Finish(w)
             \/ SelectNotify(w) \/ SelectIdle(w) \/ SelectStop(w)
    <3>1. UNCHANGED <<queues, owner, wq>> /\ pc[w] # "free"
      BY <2>1 DEF Dequeue, DequeueNone, Finish, SelectNotify, SelectIdle,
                  SelectStop, queueVars
    <3>2. \E x \in {"dequeue", "execute", "select", "exit"} : pc' = [pc EXCEPT ![w] = x]
      BY <2>1 DEF Dequeue, DequeueNone, Finish, SelectNotify, SelectIdle, SelectStop
    <3>3. LiveWorkers' = LiveWorkers
      BY <3>1, <3>2 DEF LiveWorkers, TypeOK
    <3> QED BY <3>1, <3>3, RegisteredStutter
  <2>2. CASE Respawn(w)
    <3>1. PICK n \in FreeWorkers :
            /\ pc' = [pc EXCEPT ![w] = "free", ![n] = "dequeue"]
            /\ wq' = [wq EXCEPT ![w] = NoQueue, ![n] = wq[w]]
      BY <2>2 DEF Respawn
    <3>2. n # w /\ n \in Workers /\ n \notin LiveWorkers /\ w \in LiveWorkers
          /\ UNCHANGED <<queues, owner>>
      BY <2>2 DEF FreeWorkers, Respawn, queueVars, LiveWorkers
    <3>3. /\ LiveWorkers' = (LiveWorkers \ {w}) \cup {n}
          /\ wq'[n] = wq[w]
          /\ \A v \in LiveWorkers \ {w} : wq'[v] = wq[v]
      BY <3>1, <3>2 DEF TypeOK, LiveWorkers
    <3>4. \A v \in LiveWorkers' : \E x \in LiveWorkers : wq'[v] = wq[x] /\ (v # n => x = v) /\ (v = n => x = w)
      BY <3>2, <3>3
    <3>5. \A v \in LiveWorkers' : /\ owner'[wq'[v]] \in Users
                                  /\ queues'[owner'[wq'[v]]] = wq'[v]
      BY <3>2, <3>4 DEF Registered
    <3>6. ASSUME NEW v1 \in LiveWorkers', NEW v2 \in LiveWorkers', wq'[v1] = wq'[v2]
          PROVE  v1 = v2
      BY <3>2, <3>3, <3>6 DEF Registered
    <3>7. ASSUME NEW x \in Users, queues'[x] # NoQueue
          PROVE  owner'[queues'[x]] = x /\ \E v \in LiveWorkers' : wq'[v] = queues'[x]
      <4>1. PICK v \in LiveWorkers : wq[v] = queues[x]
        BY <3>2, <3>7 DEF Registered
      <4>2. \E v1 \in LiveWorkers' : wq'[v1] = queues'[x]
        BY <3>2, <3>3, <4>1
      <4> QED BY <3>2, <3>7, <4>2 DEF Registered
    <3> QED BY <3>5, <3>6, <3>7 DEF Registered
  <2>3. CASE Unregister(w)
    <3>1. /\ pc[w] = "exit" /\ w \in LiveWorkers
          /\ queues' = [queues EXCEPT ![owner[wq[w]]] = NoQueue]
          /\ owner' = owner
          /\ pc' = [pc EXCEPT ![w] = "free"]
          /\ wq' = [wq EXCEPT ![w] = NoQueue]
      BY <2>3 DEF Unregister, queueVars, LiveWorkers
    <3>2. /\ LiveWorkers' = LiveWorkers \ {w}
          /\ \A v \in LiveWorkers \ {w} : wq'[v] = wq[v]
          /\ queues'[owner[wq[w]]] = NoQueue
          /\ \A x \in Users \ {owner[wq[w]]} : queues'[x] = queues[x]
      BY <3>1 DEF TypeOK, LiveWorkers, Registered
    <3>3. \A v \in LiveWorkers' : owner[wq[v]] # owner[wq[w]]
      BY <3>1, <3>2 DEF Registered
    <3>4. \A v \in LiveWorkers' : /\ owner'[wq'[v]] \in Users
                                  /\ queues'[owner'[wq'[v]]] = wq'[v]
      BY <3>1, <3>2, <3>3 DEF Registered
    <3>5. \A v1, v2 \in LiveWorkers' : wq'[v1] = wq'[v2] => v1 = v2
      BY <3>2 DEF Registered
    <3>6. ASSUME NEW x \in Users, queues'[x] # NoQueue
          PROVE  owner'[queues'[x]] = x /\ \E v \in LiveWorkers' : wq'[v] = queues'[x]
      <4>1. x # owner[wq[w]] /\ queues'[x] = queues[x]
        BY <3>2, <3>6
      <4>2. PICK v \in LiveWorkers : wq[v] = queues[x]
        BY <3>6, <4>1 DEF Registered
      <4>3. owner[queues[x]] = x /\ v # w
        BY <3>6, <4>1, <4>2 DEF Registered
      <4> QED BY <3>1, <3>2, <4>1, <4>2, <4>3
    <3> QED BY <3>4, <3>5, <3>6 DEF Registered
  <2> QED BY <1>3, <2>1, <2>2, <2>3 DEF WorkerStep
<1>4. CASE Shutdown
  BY <1>4, RegisteredStutter DEF Shutdown, workerVars, LiveWorkers
<1>5. CASE UNCHANGED vars
  BY <1>5, RegisteredStutter DEF vars, queueVars, workerVars, LiveWorkers
<1> QED BY <1>1, <1>2, <1>3, <1>4, <1>5 DEF Next

LEMMA RegisteredAlways == Spec => []Registered
<1>1. TypeOK /\ Registered /\ [Next]_vars => Registered'
  BY RegisteredStep
<1> QED BY <1>1, TypeCorrect, RegisteredInit, PTL DEF Spec

(* At most one worker goroutine serves a user, so a user's messages are    *)
(* never executed concurrently.                                            *)
THEOREM Serial == Spec => []OneWorkerPerUser
<1>1. Registered => OneWorkerPerUser
  BY DEF Registered, OneWorkerPerUser
<1> QED BY <1>1, RegisteredAlways, PTL

-----------------------------------------------------------------------------
(* A parked worker of a queue with tasks has a signal waiting for it.      *)
Signalled ==
  \A w \in Workers : pc[w] = "select" /\ tasks[wq[w]] # <<>> => notify[wq[w]]

LEMMA SignalledStep ==
  ASSUME TypeOK, Registered, Signalled, [Next]_vars
  PROVE  Signalled'
<1> USE QueueAssumption DEF TypeOK, Registered, Signalled, LiveWorkers
<1>1. ASSUME NEW c \in Clients, NEW u \in Users, Locate(c, u) PROVE Signalled'
  <2>1. CASE queues[u] # NoQueue
    BY <1>1, <2>1 DEF Locate
  <2>2. CASE queues[u] = NoQueue
    <3>1. PICK q \in NewQueues, w \in FreeWorkers :
             /\ pc' = [pc EXCEPT ![w] = "dequeue"]
             /\ wq' = [wq EXCEPT ![w] = q]
      BY <1>1, <2>2 DEF Locate
    <3>2. w \in Workers /\ UNCHANGED <<tasks, notify>>
      BY <1>1 DEF Locate, FreeWorkers
    <3>3. \A v \in Workers : pc'[v] = "select" => pc[v] = "select" /\ wq'[v] = wq[v]
      BY <3>1, <3>2
    <3> QED BY <3>2, <3>3
  <2> QED BY <2>1, <2>2
<1>2. ASSUME NEW c \in Clients, EnqueueStep(c) PROVE Signalled'
  <2>1. CASE Accept(c)
    BY <2>1 DEF Accept, workerVars
  <2> QED BY <1>2, <2>1 DEF EnqueueStep, Refuse, ReplyQueued, ReplyProcessing, Return,
              queueVars, workerVars
<1>3. ASSUME NEW w \in Workers, WorkerStep(w) PROVE Signalled'
  <2>0. \A v \in Workers \ {w} : pc[v] = "select" /\ pc[w] # "free" => wq[v] # wq[w]
    OBVIOUS
  <2>1. CASE Dequeue(w)
    BY <2>0, <2>1 DEF Dequeue
  <2>2. CASE DequeueNone(w) \/ Finish(w) \/ SelectIdle(w) \/ SelectStop(w) \/ Unregister(w)
    BY <2>2 DEF DequeueNone, Finish, SelectIdle, SelectStop, Unregister, queueVars
  <2>3. CASE SelectNotify(w)
    BY <2>0, <2>3 DEF SelectNotify
  <2>4. CASE Respawn(w)
    <3>1. PICK n \in FreeWorkers :
            /\ pc' = [pc EXCEPT ![w] = "free", ![n] = "dequeue"]
            /\ wq' = [wq EXCEPT ![w] = NoQueue, ![n] = wq[w]]
      BY <2>4 DEF Respawn
    <3>2. UNCHANGED <<tasks, notify>> /\ n \in Workers
      BY <2>4 DEF Respawn, queueVars, FreeWorkers
    <3>3. \A v \in Workers : pc'[v] = "select" => pc[v] = "select" /\ wq'[v] = wq[v]
      BY <3>1, <3>2
    <3> QED BY <3>2, <3>3
  <2> QED BY <1>3, <2>1, <2>2, <2>3, <2>4 DEF WorkerStep
<1>4. CASE Shutdown
  BY <1>4 DEF Shutdown, workerVars
<1>5. CASE UNCHANGED vars
  BY <1>5 DEF vars, queueVars, workerVars
<1> QED BY <1>1, <1>2, <1>3, <1>4, <1>5 DEF Next

(* No wake-up is lost: a registered queue that holds tasks has a worker    *)
(* that is about to look at it or has a signal to do so.                   *)
THEOREM NoLostWakeup == Spec => []WorkIsSignalled
<1>1. Init => Signalled
  BY DEF Init, Signalled
<1>2. TypeOK /\ Registered /\ Signalled /\ [Next]_vars => Signalled'
  BY SignalledStep
<1>3. Registered /\ Signalled => WorkIsSignalled
  BY DEF Registered, Signalled, WorkIsSignalled, LiveWorkers
<1> QED BY <1>1, <1>2, <1>3, TypeCorrect, RegisteredAlways, PTL DEF Spec
-----------------------------------------------------------------------------
(* A queue not created yet is empty, and an Enqueue call under way holds a *)
(* queue that was created.                                                 *)
Created ==
  /\ \A q \in Queues : owner[q] = NoUser => tasks[q] = <<>>
  /\ \A c \in Clients : cpc[c] # "idle" => owner[cq[c]] \in Users

LEMMA CreatedStep ==
  ASSUME TypeOK, Registered, Created, [Next]_vars
  PROVE  Created'
<1>1. ASSUME NEW c \in Clients, NEW u \in Users, Locate(c, u) PROVE Created'
  <2>1. CASE queues[u] # NoQueue
    <3>1. cq' = [cq EXCEPT ![c] = queues[u]] /\ UNCHANGED <<owner, tasks>>
          /\ cpc' = [cpc EXCEPT ![c] = "located"]
      BY <1>1, <2>1 DEF Locate
    <3>2. owner[queues[u]] = u
      BY <2>1 DEF Registered
    <3> QED BY <3>1, <3>2 DEF Created, TypeOK
  <2>2. CASE queues[u] = NoQueue
    <3>1. PICK q \in NewQueues :
             /\ owner'  = [owner EXCEPT ![q] = u]
             /\ cq' = [cq EXCEPT ![c] = q]
      BY <1>1, <2>2 DEF Locate
    <3>2. tasks' = tasks /\ cpc' = [cpc EXCEPT ![c] = "located"]
      BY <1>1 DEF Locate
    <3> QED BY <3>1, <3>2, QueueAssumption DEF Created, TypeOK, NewQueues
  <2> QED BY <2>1, <2>2
<1>2. ASSUME NEW c \in Clients, EnqueueStep(c) PROVE Created'
  <2>1. CASE Accept(c)
    BY <2>1, QueueAssumption DEF Accept, Created, TypeOK
  <2>2. CASE Return(c) /\ UNCHANGED <<owner, tasks>>
    BY <2>2 DEF Return, Created, TypeOK
  <2> QED BY <1>2, <2>1, <2>2 DEF EnqueueStep, Refuse, ReplyQueued, ReplyProcessing, queueVars
<1>3. ASSUME NEW w \in Workers, WorkerStep(w) PROVE Created'
  <2>1. CASE Dequeue(w)
    <3>1. w \in LiveWorkers /\ owner[wq[w]] \in Users
      BY <2>1 DEF Dequeue, LiveWorkers, Registered
    <3> QED BY <2>1, <3>1, QueueAssumption DEF Dequeue, clientVars, Created, TypeOK
  <2>2. CASE UNCHANGED <<owner, tasks, cpc, cq>>
    BY <2>2 DEF Created
  <2> QED BY <1>3, <2>1, <2>2 DEF WorkerStep, DequeueNone, Finish, SelectNotify,
        SelectIdle, SelectStop, Respawn, Unregister, queueVars, clientVars
<1>4. CASE Shutdown \/ UNCHANGED vars
  BY <1>4 DEF Shutdown, vars, queueVars, clientVars, Created
<1> QED BY <1>1, <1>2, <1>3, <1>4 DEF Next

LEMMA MailInit == Init => Mail!Init
BY DEF Init, Mail!Init, MailWaiting, MailCurrent

(* A step of Enqueue accepts a message into the mailbox or is invisible.   *)
LEMMA MailEnqueue ==
  ASSUME TypeOK, Registered, Created, NEW c \in Clients,
         (\E u \in Users : Locate(c, u)) \/ EnqueueStep(c)
  PROVE  [Mail!Next]_(Mail!mailVars)
<1>1. ASSUME NEW u \in Users, Locate(c, u) PROVE UNCHANGED Mail!mailVars
  <2>1. CASE queues[u] # NoQueue
    BY <1>1, <2>1 DEF Locate, Mail!mailVars, MailWaiting, MailCurrent
  <2>2. CASE queues[u] = NoQueue
    <3>1. PICK q \in NewQueues, w \in FreeWorkers :
             /\ owner'  = [owner EXCEPT ![q] = u]
             /\ queues' = [queues EXCEPT ![u] = q]
             /\ pc' = [pc EXCEPT ![w] = "dequeue"]
             /\ wq' = [wq EXCEPT ![w] = q]
      BY <1>1, <2>2 DEF Locate
    <3>2. /\ q \in Queues /\ q # NoQueue /\ owner[q] = NoUser /\ tasks[q] = <<>>
          /\ w \in Workers /\ pc[w] = "free" /\ UNCHANGED <<tasks, wtask>>
      BY <1>1, QueueAssumption DEF Locate, NewQueues, FreeWorkers, Created
    <3>3. MailWaiting' = MailWaiting
      BY <2>2, <3>1, <3>2 DEF MailWaiting, TypeOK
    <3>4. \A v \in Workers : /\ pc'[v] = "execute" <=> pc[v] = "execute"
                             /\ pc[v] = "execute" => owner'[wq'[v]] = owner[wq[v]]
      BY <3>1, <3>2, QueueAssumption DEF TypeOK, LiveWorkers, Registered
    <3>5. MailCurrent' = MailCurrent
      BY <3>2, <3>4 DEF MailCurrent
    <3> QED BY <3>3, <3>5 DEF Mail!mailVars
  <2> QED BY <2>1, <2>2
<1>2. ASSUME Accept(c) PROVE [Mail!Next]_(Mail!mailVars)
  <2> DEFINE q == cq[c]
             u == owner[q]
  <2>1. /\ q \in Queues /\ u \in Users /\ ctask[c] \in Tasks /\ q # NoQueue
        /\ Len(tasks[q]) < Capacity
        /\ tasks'  = [tasks EXCEPT ![q] = Append(@, ctask[c])]
        /\ UNCHANGED <<queues, owner, pc, wq, wtask>>
    BY <1>2, QueueAssumption DEF Accept, TypeOK, Created, workerVars
  <2>2. MailCurrent' = MailCurrent
    BY <2>1 DEF MailCurrent
  <2>3. \A x \in Users : queues[x] = q => x = u
    BY <2>1 DEF Registered
  <2>4. CASE queues[u] = q
    <3>1. MailWaiting' = [MailWaiting EXCEPT ![u] = Append(@, ctask[c])]
      BY <2>1, <2>3, <2>4 DEF MailWaiting, TypeOK
    <3>2. Len(MailWaiting[u]) < Capacity
      BY <2>1, <2>4 DEF MailWaiting
    <3> QED BY <2>1, <2>2, <3>1, <3>2 DEF Mail!Next, Mail!Accept
  <2>5. CASE queues[u] # q
    <3>1. MailWaiting' = MailWaiting
      BY <2>1, <2>3, <2>5 DEF MailWaiting, TypeOK
    <3> QED BY <2>2, <3>1 DEF Mail!mailVars
  <2> QED BY <2>4, <2>5
<1>3. ASSUME UNCHANGED <<queues, owner, tasks, pc, wq, wtask>> PROVE UNCHANGED Mail!mailVars
  BY <1>3 DEF Mail!mailVars, MailWaiting, MailCurrent
<1> QED BY <1>1, <1>2, <1>3 DEF EnqueueStep, Refuse, ReplyQueued, ReplyProcessing,
      queueVars, workerVars

(* A worker's step starts or finishes a message, or is invisible.          *)
LEMMA MailWorker ==
  ASSUME TypeOK, Registered, NEW w \in Workers, WorkerStep(w)
  PROVE  [Mail!Next]_(Mail!mailVars)
<1> DEFINE q == wq[w]
           u == owner[q]
<1>1. /\ w \in LiveWorkers /\ q \in Queues /\ u \in Users /\ queues[u] = q /\ q # NoQueue
      /\ \A v \in Workers : pc[v] = "execute" /\ owner[wq[v]] = u => v = w
      /\ \A x \in Users : queues[x] = q => x = u
  <2>1. pc[w] # "free"
    BY DEF WorkerStep, Dequeue, DequeueNone, Finish, SelectNotify, SelectIdle,
           SelectStop, Respawn, Unregister
  <2>2. w \in LiveWorkers /\ q \in Queues /\ q # NoQueue
    BY <2>1, QueueAssumption DEF LiveWorkers, TypeOK
  <2>3. u \in Users /\ queues[u] = q
    BY <2>2 DEF Registered
  <2>4. ASSUME NEW v \in Workers, pc[v] = "execute", owner[wq[v]] = u PROVE v = w
    <3>1. v \in LiveWorkers
      BY <2>4 DEF LiveWorkers
    <3> QED BY <2>2, <2>3, <2>4, <3>1 DEF Registered
  <2>5. \A x \in Users : queues[x] = q => x = u
    BY <2>2 DEF Registered
  <2> QED BY <2>2, <2>3, <2>4, <2>5
<1>2. CASE Dequeue(w)
  <2>1. /\ pc[w] = "dequeue" /\ tasks[q] # <<>>
        /\ tasks' = [tasks EXCEPT ![q] = Tail(@)]
        /\ wtask' = [wtask EXCEPT ![w] = Head(tasks[q])]
        /\ pc' = [pc EXCEPT ![w] = "execute"]
        /\ UNCHANGED <<queues, owner, wq>>
    BY <1>2 DEF Dequeue
  <2>2. MailWaiting[u] = tasks[q] /\ MailCurrent[u] = {}
    BY <1>1, <2>1 DEF MailWaiting, MailCurrent
  <2>3. MailWaiting' = [MailWaiting EXCEPT ![u] = Tail(@)]
    BY <1>1, <2>1 DEF MailWaiting, TypeOK
  <2>4. MailCurrent' = [MailCurrent EXCEPT ![u] = {Head(tasks[q])}]
    <3>1. pc'[w] = "execute" /\ wtask'[w] = Head(tasks[q])
          /\ \A v \in Workers \ {w} : pc'[v] = pc[v] /\ wtask'[v] = wtask[v]
      BY <2>1 DEF TypeOK
    <3>2. MailCurrent'[u] = {Head(tasks[q])}
      BY <1>1, <2>1, <3>1 DEF MailCurrent
    <3>3. \A x \in Users \ {u} : MailCurrent'[x] = MailCurrent[x]
      BY <1>1, <2>1, <3>1 DEF MailCurrent
    <3> QED BY <1>1, <3>2, <3>3 DEF MailCurrent
  <2> QED BY <1>1, <2>1, <2>2, <2>3, <2>4 DEF Mail!Next, Mail!Start
<1>3. CASE Finish(w)
  <2>1. /\ pc[w] = "execute"
        /\ pc' = [pc EXCEPT ![w] = "dequeue"]
        /\ wtask' = [wtask EXCEPT ![w] = NoTask]
        /\ UNCHANGED <<queues, owner, tasks, wq>>
    BY <1>3 DEF Finish, queueVars
  <2>2. MailWaiting' = MailWaiting
    BY <2>1 DEF MailWaiting
  <2>3. MailCurrent[u] # {} /\ MailCurrent' = [MailCurrent EXCEPT ![u] = {}]
    <3>1. pc'[w] # "execute"
          /\ \A v \in Workers \ {w} : pc'[v] = pc[v] /\ wtask'[v] = wtask[v]
      BY <2>1 DEF TypeOK
    <3>2. MailCurrent'[u] = {} /\ wtask[w] \in MailCurrent[u]
      BY <1>1, <2>1, <3>1 DEF MailCurrent
    <3>3. \A x \in Users \ {u} : MailCurrent'[x] = MailCurrent[x]
      BY <1>1, <2>1, <3>1 DEF MailCurrent
    <3> QED BY <1>1, <3>2, <3>3 DEF MailCurrent
  <2> QED BY <1>1, <2>2, <2>3 DEF Mail!Next, Mail!Finish
<1>4. CASE DequeueNone(w) \/ SelectNotify(w) \/ SelectIdle(w) \/ SelectStop(w)
  <2>1. UNCHANGED <<queues, owner, tasks, wq, wtask>>
    BY <1>4 DEF DequeueNone, SelectNotify, SelectIdle, SelectStop, queueVars
  <2>2. \A v \in Workers : pc'[v] = "execute" <=> pc[v] = "execute"
    BY <1>4 DEF DequeueNone, SelectNotify, SelectIdle, SelectStop, TypeOK
  <2> QED BY <2>1, <2>2 DEF Mail!mailVars, MailWaiting, MailCurrent
<1>5. CASE Respawn(w)
  <2>1. PICK n \in FreeWorkers :
          /\ pc' = [pc EXCEPT ![w] = "free", ![n] = "dequeue"]
          /\ wq' = [wq EXCEPT ![w] = NoQueue, ![n] = wq[w]]
    BY <1>5 DEF Respawn
  <2>2. UNCHANGED <<queues, owner, tasks, wtask>> /\ pc[w] = "exit" /\ pc[n] = "free"
    BY <1>5 DEF Respawn, queueVars, FreeWorkers
  <2>3. \A v \in Workers : /\ pc'[v] = "execute" <=> pc[v] = "execute"
                           /\ pc[v] = "execute" => wq'[v] = wq[v]
    BY <2>1, <2>2 DEF TypeOK
  <2> QED BY <2>2, <2>3 DEF Mail!mailVars, MailWaiting, MailCurrent
<1>6. CASE Unregister(w)
  <2>1. /\ pc[w] = "exit" /\ tasks[q] = <<>>
        /\ queues' = [queues EXCEPT ![u] = NoQueue]
        /\ pc' = [pc EXCEPT ![w] = "free"]
        /\ wq' = [wq EXCEPT ![w] = NoQueue]
        /\ UNCHANGED <<owner, tasks, wtask>>
    BY <1>6 DEF Unregister, queueVars
  <2>2. MailWaiting' = MailWaiting
    BY <1>1, <2>1 DEF MailWaiting, TypeOK
  <2>3. \A v \in Workers : /\ pc'[v] = "execute" <=> pc[v] = "execute"
                           /\ pc[v] = "execute" => wq'[v] = wq[v]
    BY <2>1 DEF TypeOK
  <2>4. MailCurrent' = MailCurrent
    BY <2>1, <2>3 DEF MailCurrent
  <2> QED BY <2>2, <2>4 DEF Mail!mailVars
<1> QED BY <1>2, <1>3, <1>4, <1>5, <1>6 DEF WorkerStep

(* The dispatcher implements the serial FIFO mailbox.                      *)
THEOREM Refinement == Spec => ImplementsMailbox
<1>1. TypeOK /\ Registered /\ Created /\ [Next]_vars => Created'
  BY CreatedStep
<1>2. TypeOK /\ Registered /\ Created /\ [Next]_vars => [Mail!Next]_(Mail!mailVars)
  <2> SUFFICES ASSUME TypeOK, Registered, Created, [Next]_vars
               PROVE  [Mail!Next]_(Mail!mailVars)
    OBVIOUS
  <2>1. CASE Shutdown \/ UNCHANGED vars
    BY <2>1 DEF Shutdown, vars, queueVars, workerVars, Mail!mailVars, MailWaiting, MailCurrent
  <2> QED BY <2>1, MailEnqueue, MailWorker DEF Next
<1>3. Init => Created
  BY DEF Init, Created
<1> QED BY <1>1, <1>2, <1>3, MailInit, TypeCorrect, RegisteredAlways, PTL
        DEF Spec, ImplementsMailbox, Mail!Spec
==============================================================================
