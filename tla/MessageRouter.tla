---------------------------- MODULE MessageRouter ----------------------------
(***************************************************************************)
(* The pending-request table of the Hub's message router,                  *)
(* hub/internal/im/router.go.  routeToSingleMachine registers a request,   *)
(* sends it to the user's machine and waits for the agent's response, the  *)
(* response timer - which progress messages reset - or its context.        *)
(* HandleAgentResponse, HandleAgentProgress and CancelPendingForUser look  *)
(* the request up under r.mu and write to its channels after the unlock;   *)
(* cleanupExpired reaps entries without recent activity.                   *)
(*                                                                         *)
(* Time is counted in ticks of about ten seconds.  Whoever has something   *)
(* to do for a request is scheduled within Lag ticks; a Hub that keeps up  *)
(* leaves nothing undone when a tick comes, and is never late.             *)
(***************************************************************************)
EXTENDS Naturals, FiniteSets

CONSTANTS
  Requests,    \* request IDs, unique by requestIDCounter
  Users,
  NoUser,
  ProgressCap, \* buffer of ProgressCh
  Timeout,     \* defaultAgentTimeout
  Slack,       \* the ten seconds cleanupExpired adds to it
  Deadline,    \* the caller's context: executeTask gives Timeout + 30 seconds
  Lag          \* longest stall considered

ASSUME RouterAssumption ==
  /\ NoUser \notin Users
  /\ ProgressCap \in Nat \ {0}
  /\ Timeout \in Nat \ {0} /\ Slack \in Nat /\ Deadline \in Nat \ {0} /\ Lag \in Nat

VARIABLES
  pc,        \* where the waiter of each request stands
  user,      \* PendingIMRequest.UserID
  pending,   \* r.pendingReqs, as the set of its keys
  respCh,    \* ResponseCh, buffer of one
  progCh,    \* number of updates buffered in ProgressCh
  outcome,   \* what routeToSingleMachine returned
  idle,      \* ticks since lastActivity
  waited,    \* ticks since the response timer was (re)set
  elapsed,   \* ticks since the caller's context was created
  stall,     \* ticks since somebody was ready to work on the request
  late,      \* history: a tick has found work undone
  responding,  \* HandleAgentResponse calls between unlock and send
  progressing, \* HandleAgentProgress calls between unlock and send
  cancelling,  \* the rest of CancelPendingForUser's toCancel
  cancelled    \* history: what CancelPendingForUser reported as cancelled

chanVars    == <<respCh, progCh>>
clockVars   == <<idle, waited, elapsed, stall>>
handlerVars == <<responding, progressing, cancelling, cancelled>>
vars == <<late, pc, user, pending, chanVars, outcome, clockVars, handlerVars>>

Responses == {"reply", "deferred"}
Outcomes  == Responses \cup {"offline", "timeout", "error"}
Active    == {r \in Requests : pc[r] \in {"registered", "waiting"}}

Init ==
  /\ late = FALSE
  /\ pc      = [r \in Requests |-> "new"]
  /\ user    = [r \in Requests |-> NoUser]
  /\ pending = {}
  /\ respCh  = [r \in Requests |-> "none"]
  /\ progCh  = [r \in Requests |-> 0]
  /\ outcome = [r \in Requests |-> "none"]
  /\ idle    = [r \in Requests |-> 0]
  /\ waited  = [r \in Requests |-> 0]
  /\ elapsed = [r \in Requests |-> 0]
  /\ stall   = [r \in Requests |-> 0]
  /\ responding = {} /\ progressing = {} /\ cancelling = {} /\ cancelled = {}

-----------------------------------------------------------------------------
(* routeToSingleMachine: create the request and enter it in the table.     *)
Register(r, u) ==
  /\ pc[r] = "new"
  /\ pc'   = [pc EXCEPT ![r] = "registered"]
  /\ user' = [user EXCEPT ![r] = u]
  /\ pending' = pending \cup {r}
  /\ UNCHANGED <<late, chanVars, outcome, clockVars, handlerVars>>

(* Every return runs the deferred delete.  Nobody reads the clocks of a    *)
(* finished request.                                                       *)
Return(r, o) ==
  /\ pc' = [pc EXCEPT ![r] = "done"]
  /\ outcome' = [outcome EXCEPT ![r] = o]
  /\ pending' = pending \ {r}
  /\ idle' = [idle EXCEPT ![r] = 0]   /\ waited' = [waited EXCEPT ![r] = 0]
  /\ elapsed' = [elapsed EXCEPT ![r] = 0] /\ stall' = [stall EXCEPT ![r] = 0]
  /\ UNCHANGED <<late, user, chanVars, handlerVars>>

(* SendToMachine succeeds and the timer starts, or it fails: 503.          *)
Send(r) ==
  /\ pc[r] = "registered"
  /\ pc' = [pc EXCEPT ![r] = "waiting"]
  /\ waited' = [waited EXCEPT ![r] = 0]
  /\ stall' = [stall EXCEPT ![r] = 0]
  /\ UNCHANGED <<late, user, pending, chanVars, outcome, idle, elapsed, handlerVars>>

SendFails(r) ==
  /\ pc[r] = "registered"
  /\ Return(r, "offline")

(* Mutants of TakeProgress: a heartbeat does not reset the timer; an       *)
(* update renews the caller's context as well.                             *)
TakeProgressNoReset(r) ==
  /\ pc[r] = "waiting"
  /\ progCh[r] > 0
  /\ progCh' = [progCh EXCEPT ![r] = @ - 1]
  /\ stall'  = [stall EXCEPT ![r] = 0]
  /\ UNCHANGED <<late, pc, user, pending, respCh, outcome, idle, waited, elapsed, handlerVars>>

TakeProgressRenews(r) ==
  /\ pc[r] = "waiting"
  /\ progCh[r] > 0
  /\ progCh' = [progCh EXCEPT ![r] = @ - 1]
  /\ waited' = [waited EXCEPT ![r] = 0]
  /\ elapsed' = [elapsed EXCEPT ![r] = 0]
  /\ stall'  = [stall EXCEPT ![r] = 0]
  /\ UNCHANGED <<late, pc, user, pending, respCh, outcome, idle, handlerVars>>

(* The four cases of the waiter's select; Go picks any that is ready.      *)
TakeResponse(r) ==
  /\ pc[r] = "waiting"
  /\ respCh[r] # "none"
  /\ Return(r, respCh[r])

TakeProgress(r) ==
  /\ pc[r] = "waiting"
  /\ progCh[r] > 0
  /\ progCh' = [progCh EXCEPT ![r] = @ - 1]
  /\ waited' = [waited EXCEPT ![r] = 0]
  /\ stall'  = [stall EXCEPT ![r] = 0]
  /\ UNCHANGED <<late, pc, user, pending, respCh, outcome, idle, elapsed, handlerVars>>

TimerFires(r) ==
  /\ pc[r] = "waiting"
  /\ waited[r] >= Timeout
  /\ Return(r, "timeout")

ContextDone(r) ==
  /\ pc[r] = "waiting"
  /\ elapsed[r] >= Deadline
  /\ Return(r, "error")

-----------------------------------------------------------------------------
(* HandleAgentResponse: the machine that got the request answers, with a   *)
(* reply (a nil one also makes a message to the user, a 500) or with a     *)
(* deferral; an unknown request ID is logged and dropped.                  *)
FindResponse(r, k) ==
  /\ r \in pending /\ pc[r] = "waiting"
  /\ responding' = responding \cup {<<r, k>>}
  /\ UNCHANGED <<late, pc, user, pending, chanVars, outcome, clockVars, progressing,
                 cancelling, cancelled>>

(* The non-blocking send drops the response when the buffer is full.       *)
PushResponse(r, k) ==
  /\ <<r, k>> \in responding
  /\ responding' = responding \ {<<r, k>>}
  /\ respCh' = IF respCh[r] = "none" THEN [respCh EXCEPT ![r] = k] ELSE respCh
  /\ UNCHANGED <<late, pc, user, pending, progCh, outcome, clockVars, progressing,
                 cancelling, cancelled>>

(* HandleAgentProgress: note the activity under the lock, then send.       *)
FindProgress(r) ==
  /\ r \in pending /\ pc[r] = "waiting"
  /\ r \notin progressing
  /\ idle' = [idle EXCEPT ![r] = 0]
  /\ progressing' = progressing \cup {r}
  /\ UNCHANGED <<late, pc, user, pending, chanVars, outcome, waited, elapsed, stall,
                 responding, cancelling, cancelled>>

PushProgress(r) ==
  /\ r \in progressing
  /\ progressing' = progressing \ {r}
  /\ progCh' = IF progCh[r] < ProgressCap THEN [progCh EXCEPT ![r] = @ + 1] ELSE progCh
  /\ UNCHANGED <<late, pc, user, pending, respCh, outcome, clockVars, responding,
                 cancelling, cancelled>>

-----------------------------------------------------------------------------
(* CancelPendingForUser: collect the user's requests under the lock ...    *)
CancelBegin(u) ==
  LET mine == {r \in pending : user[r] = u} IN
  /\ cancelling = {} /\ mine # {}
  /\ cancelling' = mine
  /\ cancelled' = cancelled \cup mine
  /\ UNCHANGED <<late, pc, user, pending, chanVars, outcome, clockVars, responding,
                 progressing>>

(* Mutant of CancelPush: nothing is sent to the waiter.                    *)
CancelForgets(r) ==
  /\ r \in cancelling
  /\ cancelling' = cancelling \ {r}
  /\ UNCHANGED <<late, pc, user, pending, chanVars, outcome, clockVars, responding,
                 progressing, cancelled>>

(* ... and send each a deferred response, unless its buffer is full.       *)
CancelPush(r) ==
  /\ r \in cancelling
  /\ cancelling' = cancelling \ {r}
  /\ respCh' = IF respCh[r] = "none" THEN [respCh EXCEPT ![r] = "deferred"] ELSE respCh
  /\ UNCHANGED <<late, pc, user, pending, progCh, outcome, clockVars, responding,
                 progressing, cancelled>>

(* Mutant of Expired: the age is taken from CreatedAt.                     *)
ExpiredByCreation == {r \in pending : elapsed[r] > Timeout + Slack}

(* cleanupExpired: drop all entries idle for longer than the timeout plus  *)
(* the slack.  Their waiters are not told.                                 *)
Expired == {r \in pending : idle[r] > Timeout + Slack}

CleanupExpired ==
  /\ Expired # {}
  /\ pending' = pending \ Expired
  /\ UNCHANGED <<late, pc, user, chanVars, outcome, clockVars, handlerVars>>

-----------------------------------------------------------------------------
(* Somebody is ready to do something for the request.                      *)
Busy(r) ==
  \/ pc[r] = "registered"
  \/ r \in progressing
  \/ /\ pc[r] = "waiting"
     /\ \/ respCh[r] # "none"
        \/ progCh[r] > 0
        \/ waited[r] >= Timeout
        \/ elapsed[r] >= Deadline

(* Time passes for the requests under way.  Each clock stops at a cap      *)
(* beyond which nothing tells its values apart.                            *)
Later(clock, cap) ==
  [r \in Requests |-> IF r \in Active /\ clock[r] < cap THEN clock[r] + 1 ELSE clock[r]]
IdleCap == Timeout + Slack + 1

Tick ==
  /\ Active # {}
  /\ \A r \in Requests : Busy(r) => stall[r] < Lag
  /\ idle' = Later(idle, IdleCap)
  /\ waited' = Later(waited, Timeout)
  /\ elapsed' = Later(elapsed, Deadline)
  /\ late' = (late \/ \E r \in Requests : Busy(r))
  /\ stall' = [r \in Requests |-> IF Busy(r) THEN stall[r] + 1 ELSE 0]
  /\ UNCHANGED <<pc, user, pending, chanVars, outcome, handlerVars>>

WaiterStep(r) ==
  \/ Send(r) \/ SendFails(r)
  \/ TakeResponse(r) \/ TakeProgress(r) \/ TimerFires(r) \/ ContextDone(r)

AgentStep(r) ==
  \/ \E k \in Responses : FindResponse(r, k) \/ PushResponse(r, k)
  \/ FindProgress(r) \/ PushProgress(r)

Next ==
  \/ \E r \in Requests, u \in Users : Register(r, u)
  \/ \E r \in Requests : WaiterStep(r) \/ AgentStep(r) \/ CancelPush(r)
  \/ \E u \in Users : CancelBegin(u)
  \/ CleanupExpired
  \/ Tick

Spec == Init /\ [][Next]_vars

(* Hub goroutines are scheduled, a ready case of a select is not passed    *)
(* over for ever, and time passes however many updates arrive; the agent   *)
(* need not answer and no user has to cancel.                              *)
Fairness ==
  /\ \A r \in Requests : /\ WF_vars(WaiterStep(r))
                         /\ WF_vars(PushProgress(r))
                         /\ WF_vars(CancelPush(r))
                         /\ WF_vars(TakeResponse(r)) /\ WF_vars(ContextDone(r))
  /\ SF_vars(Tick)

FairSpec == Spec /\ Fairness

-----------------------------------------------------------------------------
TypeOK ==
  /\ late \in BOOLEAN
  /\ pc \in [Requests -> {"new", "registered", "waiting", "done"}]
  /\ user \in [Requests -> Users \cup {NoUser}]
  /\ pending \subseteq Active
  /\ respCh \in [Requests -> Responses \cup {"none"}]
  /\ progCh \in [Requests -> 0..ProgressCap]
  /\ outcome \in [Requests -> Outcomes \cup {"none"}]
  /\ idle \in [Requests -> 0..IdleCap]
  /\ waited \in [Requests -> 0..Timeout]
  /\ elapsed \in [Requests -> 0..Deadline]
  /\ stall \in [Requests -> 0..Lag]
  /\ responding \subseteq Requests \X Responses
  /\ progressing \subseteq Requests
  /\ cancelling \subseteq cancelled /\ cancelled \subseteq Requests
  /\ \A r \in Requests : outcome[r] # "none" <=> pc[r] = "done"

(* A waiter that is still waiting can still be answered: cleanupExpired,   *)
(* which goes by lastActivity, never reaps a request whose timer has yet   *)
(* to fire.  As long as the Hub keeps up.                                  *)
WaitersStayRegistered == ~late => pending = Active

(* Progress keeps a request alive: the response timer fires only when no   *)
(* update came within the timeout - or one arrives in the very tick in     *)
(* which it fires and select picks the timer.                              *)
TimeoutOnlyWhenSilent ==
  [][\A r \in Requests :
       ~late /\ TimerFires(r) => idle[r] >= Timeout \/ progCh[r] > 0 \/ r \in progressing]_vars

(* A cancelled request is released at once: after CancelPendingForUser has *)
(* dealt with it the waiter has returned or has a response to return with, *)
(* also when the machine's own response came first.                        *)
CancelledIsUnblocked ==
  \A r \in cancelled \ cancelling : r \in Active => respCh[r] # "none"

(* Every request returns, so a user's task queue is never blocked for      *)
(* ever, however much progress a chatty agent reports and even if          *)
(* cleanupExpired has removed the request from the table.                  *)
EveryRequestReturns ==
  \A r \in Requests : pc[r] = "registered" ~> pc[r] = "done"
==============================================================================
