-------------------------- MODULE MessageRouter_proofs --------------------------
(***************************************************************************)
(* Theorems about the pending-request table for any number of requests and *)
(* users and any timeouts.  What depends on the Hub keeping up with its    *)
(* work is proved for as long as no tick has found any undone.             *)
(***************************************************************************)
EXTENDS MessageRouter, TLAPS

USE RouterAssumption

(* Registered requests belong to waiters, also when cleanupExpired has     *)
(* removed some.                                                           *)
LEMMA TypeStep ==
  ASSUME TypeOK, [Next]_vars
  PROVE  TypeOK'
<1>1. ASSUME NEW r \in Requests, NEW u \in Users, Register(r, u) PROVE TypeOK'
  BY <1>1 DEF Register, TypeOK, Active, chanVars, clockVars, handlerVars, Outcomes, Responses
<1>2. ASSUME NEW r \in Requests, NEW o \in Outcomes, Return(r, o) PROVE TypeOK'
  BY <1>2 DEF Return, TypeOK, Active, chanVars, handlerVars, Outcomes, Responses, IdleCap
<1>3. ASSUME NEW r \in Requests, Send(r) PROVE TypeOK'
  BY <1>3 DEF Send, TypeOK, Active, chanVars, handlerVars
<1>4. ASSUME NEW r \in Requests, TakeProgress(r) PROVE TypeOK'
  BY <1>4 DEF TakeProgress, TypeOK, Active, handlerVars
<1>5. ASSUME NEW r \in Requests, WaiterStep(r) PROVE TypeOK'
  BY <1>2, <1>3, <1>4, <1>5 DEF WaiterStep, SendFails, TakeResponse, TimerFires, ContextDone,
                                Outcomes, TypeOK
<1>6. ASSUME NEW r \in Requests, NEW k \in Responses, FindResponse(r, k) \/ PushResponse(r, k)
      PROVE  TypeOK'
  BY <1>6 DEF FindResponse, PushResponse, TypeOK, Active, chanVars, clockVars
<1>7. ASSUME NEW r \in Requests, FindProgress(r) PROVE TypeOK'
  BY <1>7 DEF FindProgress, TypeOK, Active, chanVars, IdleCap
<1>8. ASSUME NEW r \in Requests, PushProgress(r) PROVE TypeOK'
  BY <1>8 DEF PushProgress, TypeOK, Active, clockVars
<1>9. ASSUME NEW r \in Requests, CancelPush(r) PROVE TypeOK'
  BY <1>9 DEF CancelPush, TypeOK, Active, clockVars, Responses
<1>10. ASSUME NEW u \in Users, CancelBegin(u) PROVE TypeOK'
  BY <1>10 DEF CancelBegin, TypeOK, Active, clockVars, chanVars
<1>11. CASE CleanupExpired
  BY <1>11 DEF CleanupExpired, TypeOK, Active, clockVars, chanVars, handlerVars
<1>12. CASE Tick
  <2>1. \A r \in Requests : (Busy(r) => stall[r] + 1 <= Lag) /\ stall[r] \in Nat
    BY <1>12 DEF Tick, TypeOK
  <2>2. stall' \in [Requests -> 0..Lag]
    BY <1>12, <2>1 DEF Tick
  <2>3. /\ idle' \in [Requests -> 0..IdleCap] /\ waited' \in [Requests -> 0..Timeout]
        /\ elapsed' \in [Requests -> 0..Deadline]
    BY <1>12 DEF Tick, TypeOK, Later, IdleCap
  <2> QED BY <1>12, <2>2, <2>3 DEF Tick, TypeOK, Active, chanVars, handlerVars
<1>13. CASE UNCHANGED vars
  BY <1>13 DEF vars, chanVars, clockVars, handlerVars, TypeOK, Active
<1> QED BY <1>1, <1>5, <1>6, <1>7, <1>8, <1>9, <1>10, <1>11, <1>12, <1>13 DEF Next, AgentStep

LEMMA TypeInit == Init => TypeOK
<1> SUFFICES ASSUME Init PROVE TypeOK
  OBVIOUS
<1>1. late \in BOOLEAN
  BY DEF Init
<1>2. /\ idle \in [Requests -> 0..IdleCap] /\ waited \in [Requests -> 0..Timeout]
      /\ elapsed \in [Requests -> 0..Deadline] /\ stall \in [Requests -> 0..Lag]
      /\ progCh \in [Requests -> 0..ProgressCap]
  BY DEF Init, IdleCap
<1> QED BY <1>1, <1>2 DEF Init, TypeOK, Active

(* The variables keep their types; an entry in the table has a waiter and  *)
(* a request has an outcome exactly when its waiter has returned.          *)
THEOREM TypeCorrect == Spec => []TypeOK
<1> QED BY TypeInit, TypeStep, PTL DEF Spec

-----------------------------------------------------------------------------
(* When no tick finds work undone, an update in hand is from this very     *)
(* tick, and without one the two clocks agree: the timer was reset when    *)
(* lastActivity was.  The timer therefore fires before the entry expires.  *)
InHand(r) == progCh[r] > 0 \/ r \in progressing
Agree(r) ==
  /\ pc[r] \in {"new", "registered"} => idle[r] = 0 /\ waited[r] = 0
  /\ InHand(r) /\ r \in Active => idle[r] = 0
  /\ ~InHand(r) /\ r \in Active => idle[r] = waited[r]
ClocksAgree == \A r \in Requests : Agree(r)
PromptInv == TypeOK /\ (~late => pending = Active /\ ClocksAgree)

LEMMA NothingExpires == PromptInv /\ ~late => Expired = {}
<1> SUFFICES ASSUME PromptInv, ~late, NEW r \in pending PROVE ~(idle[r] > Timeout + Slack)
  BY DEF Expired
<1>1. r \in Active /\ r \in Requests /\ idle[r] \in Nat /\ waited[r] \in Nat /\ waited[r] <= Timeout
  BY DEF PromptInv, TypeOK, Active
<1>2. idle[r] = 0 \/ idle[r] = waited[r]
  BY <1>1 DEF PromptInv, ClocksAgree, Agree
<1> QED BY <1>1, <1>2

(* Time passes only when nobody has anything to do.                        *)
LEMMA TickAtRest ==
  ASSUME TypeOK, Tick, ~late', NEW r \in Requests
  PROVE  ~Busy(r)
BY DEF Tick, TypeOK

LEMMA PromptStep ==
  ASSUME PromptInv, [Next]_vars
  PROVE  PromptInv'
<1>0. TypeOK'
  BY TypeStep DEF PromptInv
<1>a. ~late' => ~late
  BY DEF Next, WaiterStep, AgentStep, Register, Return, Send, SendFails, TakeResponse,
         TakeProgress, TimerFires, ContextDone, FindResponse, PushResponse, FindProgress,
         PushProgress, CancelPush, CancelBegin, CleanupExpired, Tick, TypeOK, vars
<1> SUFFICES ASSUME ~late' PROVE pending' = Active' /\ ClocksAgree'
  BY <1>0 DEF PromptInv
<1>b. TypeOK /\ ~late /\ pending = Active /\ ClocksAgree
  BY <1>a DEF PromptInv
<1> USE <1>b
<1>1. ASSUME NEW r \in Requests, NEW u \in Users, Register(r, u)
      PROVE  pending' = Active' /\ ClocksAgree'
  <2>1. Active' = Active \cup {r} /\ r \notin Active
    BY <1>1 DEF Register, Active, TypeOK
  <2>2. \A q \in Requests : Agree(q)'
    BY <1>1, <2>1 DEF Register, ClocksAgree, Agree, InHand, TypeOK, chanVars, clockVars,
                      handlerVars
  <2> QED BY <1>1, <2>1, <2>2 DEF Register, ClocksAgree
<1>2. ASSUME NEW r \in Requests, NEW o \in Outcomes, Return(r, o)
      PROVE  pending' = Active' /\ ClocksAgree'
  <2>1. Active' = Active \ {r}
    BY <1>2 DEF Return, Active, TypeOK
  <2>2. \A q \in Requests : Agree(q)'
    BY <1>2, <2>1 DEF Return, ClocksAgree, Agree, InHand, TypeOK, chanVars, handlerVars
  <2> QED BY <1>2, <2>1, <2>2 DEF Return, ClocksAgree
<1>3. ASSUME NEW r \in Requests, Send(r) PROVE pending' = Active' /\ ClocksAgree'
  <2>1. Active' = Active
    BY <1>3 DEF Send, Active, TypeOK
  <2>2. \A q \in Requests : Agree(q)'
    BY <1>3, <2>1 DEF Send, ClocksAgree, Agree, InHand, TypeOK, chanVars, handlerVars
  <2> QED BY <1>3, <2>1, <2>2 DEF Send, ClocksAgree
<1>4. ASSUME NEW r \in Requests, TakeProgress(r) PROVE pending' = Active' /\ ClocksAgree'
  <2>1. Active' = Active /\ r \in Active /\ idle[r] = 0 /\ waited'[r] = 0 /\ idle' = idle
    BY <1>4 DEF TakeProgress, Active, TypeOK, ClocksAgree, Agree, InHand
  <2>2. \A q \in Requests : Agree(q)'
    BY <1>4, <2>1 DEF TakeProgress, ClocksAgree, Agree, InHand, TypeOK, handlerVars
  <2> QED BY <1>4, <2>1, <2>2 DEF TakeProgress, ClocksAgree
<1>5. ASSUME NEW r \in Requests, WaiterStep(r) PROVE pending' = Active' /\ ClocksAgree'
  BY <1>2, <1>3, <1>4, <1>5 DEF WaiterStep, SendFails, TakeResponse, TimerFires, ContextDone,
                                Outcomes, TypeOK
<1>6. ASSUME UNCHANGED <<pc, pending, progCh, progressing, idle, waited>>
      PROVE  pending' = Active' /\ ClocksAgree'
  BY <1>6 DEF ClocksAgree, Agree, InHand, Active
<1>7. ASSUME NEW r \in Requests, FindProgress(r) PROVE pending' = Active' /\ ClocksAgree'
  <2>1. Active' = Active /\ pc[r] = "waiting" /\ idle'[r] = 0
    BY <1>7 DEF FindProgress, Active, TypeOK
  <2>2. \A q \in Requests : Agree(q)'
    BY <1>7, <2>1 DEF FindProgress, ClocksAgree, Agree, InHand, TypeOK, chanVars
  <2> QED BY <1>7, <2>1, <2>2 DEF FindProgress, ClocksAgree
<1>8. ASSUME NEW r \in Requests, PushProgress(r) PROVE pending' = Active' /\ ClocksAgree'
  <2>1. Active' = Active /\ UNCHANGED <<pc, idle, waited>>
    BY <1>8 DEF PushProgress, Active, clockVars
  <2>2. InHand(r) /\ InHand(r)'
    BY <1>8 DEF PushProgress, InHand, TypeOK
  <2>3. \A q \in Requests \ {r} : InHand(q)' <=> InHand(q)
    BY <1>8 DEF PushProgress, InHand, TypeOK
  <2>4. \A q \in Requests : Agree(q)'
    BY <2>1, <2>2, <2>3 DEF ClocksAgree, Agree
  <2> QED BY <1>8, <2>1, <2>4 DEF PushProgress, ClocksAgree
<1>9. CASE Tick
  <2>1. Active' = Active /\ UNCHANGED <<pc, pending, progCh, progressing>>
    BY <1>9 DEF Tick, Active, chanVars, handlerVars
  <2>2. ASSUME NEW r \in Requests PROVE Agree(r)'
    <3>1. CASE r \in Active
      <4>1. pc[r] = "waiting" /\ ~InHand(r) /\ waited[r] < Timeout
        BY <1>9, <3>1, TickAtRest DEF Busy, InHand, Active, TypeOK
      <4>2. idle[r] = waited[r] /\ waited[r] \in Nat
        BY <3>1, <4>1 DEF ClocksAgree, Agree, TypeOK
      <4>3. idle'[r] = idle[r] + 1 /\ waited'[r] = waited[r] + 1
        BY <1>9, <3>1, <4>1, <4>2 DEF Tick, Later, IdleCap
      <4>4. ~InHand(r)'
        BY <2>1, <4>1 DEF InHand
      <4> QED BY <2>1, <4>1, <4>2, <4>3, <4>4 DEF Agree
    <3>2. CASE r \notin Active
      <4>1. idle'[r] = idle[r] /\ waited'[r] = waited[r]
        BY <1>9, <3>2 DEF Tick, Later
      <4> QED BY <2>1, <3>2, <4>1 DEF Agree, ClocksAgree
    <3> QED BY <3>1, <3>2
  <2> QED BY <1>0, <2>1, <2>2 DEF ClocksAgree
<1>10. CASE CleanupExpired
  BY <1>b, <1>10, NothingExpires, <1>6 DEF CleanupExpired, PromptInv, chanVars, clockVars, handlerVars
<1>11. ASSUME NEW r \in Requests, AgentStep(r) \/ CancelPush(r)
       PROVE  pending' = Active' /\ ClocksAgree'
  BY <1>6, <1>7, <1>8, <1>11 DEF AgentStep, FindResponse, PushResponse, CancelPush, chanVars,
                                 clockVars
<1>12. ASSUME NEW u \in Users, CancelBegin(u) PROVE pending' = Active' /\ ClocksAgree'
  BY <1>6, <1>12 DEF CancelBegin, chanVars, clockVars
<1>13. CASE UNCHANGED vars
  BY <1>0, <1>6, <1>13 DEF vars, chanVars, clockVars, handlerVars
<1> QED BY <1>0, <1>1, <1>5, <1>9, <1>10, <1>11, <1>12, <1>13 DEF Next

LEMMA PromptAlways == Spec => []PromptInv
<1>1. Init => PromptInv
  BY TypeInit DEF Init, Active, PromptInv, ClocksAgree, Agree, InHand
<1>2. PromptInv /\ [Next]_vars => PromptInv'
  BY PromptStep
<1> QED BY <1>1, <1>2, PTL DEF Spec

(* In a Hub that keeps up cleanupExpired never removes the entry of a      *)
(* request that is still waiting, whatever timeout and slack are.          *)
THEOREM NeverReapedEarly == Spec => []WaitersStayRegistered
<1>1. PromptInv => WaitersStayRegistered
  BY DEF PromptInv, WaitersStayRegistered
<1> QED BY <1>1, PromptAlways, PTL

(* ... and the response timer does not fire while updates come in within   *)
(* the timeout, but for the race with an update that arrives just then.    *)
THEOREM TimerMeansSilence == Spec => TimeoutOnlyWhenSilent
<1>1. ASSUME PromptInv, ~late, NEW r \in Requests, TimerFires(r)
      PROVE  idle[r] >= Timeout \/ progCh[r] > 0 \/ r \in progressing
  <2>1. r \in Active /\ waited[r] >= Timeout
    BY <1>1 DEF TimerFires, Active
  <2> QED BY <1>1, <2>1 DEF PromptInv, ClocksAgree, Agree, InHand, TypeOK
<1>2. PromptInv /\ [Next]_vars =>
        [\A r \in Requests :
           ~late /\ TimerFires(r) => idle[r] >= Timeout \/ progCh[r] > 0 \/ r \in progressing]_vars
  BY <1>1
<1> QED BY <1>2, PromptAlways, PTL DEF Spec, TimeoutOnlyWhenSilent

-----------------------------------------------------------------------------
(* Cancellation does not depend on time.                                   *)
CancelInv ==
  /\ TypeOK /\ CancelledIsUnblocked
  /\ \A r \in cancelled : pc[r] # "new"

LEMMA CancelStep ==
  ASSUME CancelInv, [Next]_vars
  PROVE  CancelInv'
<1> USE DEF CancelInv, CancelledIsUnblocked
<1>0. TypeOK'
  BY TypeStep
<1>1. ASSUME NEW r \in Requests, NEW u \in Users, Register(r, u) PROVE CancelInv'
  BY <1>0, <1>1 DEF Register, Active, TypeOK, chanVars, handlerVars
<1>2. ASSUME NEW r \in Requests, NEW o \in Outcomes, Return(r, o) PROVE CancelInv'
  BY <1>0, <1>2 DEF Return, Active, TypeOK, chanVars, handlerVars
<1>3. ASSUME NEW r \in Requests, Send(r) \/ TakeProgress(r) PROVE CancelInv'
  BY <1>0, <1>3 DEF Send, TakeProgress, Active, TypeOK, chanVars, handlerVars
<1>4. ASSUME NEW r \in Requests, WaiterStep(r) PROVE CancelInv'
  BY <1>2, <1>3, <1>4 DEF WaiterStep, SendFails, TakeResponse, TimerFires, ContextDone,
                          Outcomes, TypeOK
<1>5. ASSUME NEW r \in Requests, NEW k \in Responses, PushResponse(r, k) \/ FindResponse(r, k)
      PROVE  CancelInv'
  BY <1>0, <1>5 DEF PushResponse, FindResponse, Active, TypeOK, chanVars, Responses
<1>6. ASSUME NEW r \in Requests, FindProgress(r) \/ PushProgress(r) PROVE CancelInv'
  BY <1>0, <1>6 DEF PushProgress, FindProgress, Active, chanVars
<1>7. ASSUME NEW r \in Requests, CancelPush(r) PROVE CancelInv'
  BY <1>0, <1>7 DEF CancelPush, Active, TypeOK
<1>8. ASSUME NEW u \in Users, CancelBegin(u) PROVE CancelInv'
  BY <1>0, <1>8 DEF CancelBegin, Active, TypeOK, chanVars
<1>9. CASE Tick \/ CleanupExpired
  BY <1>0, <1>9 DEF Tick, CleanupExpired, Active, chanVars, handlerVars
<1>10. CASE UNCHANGED vars
  BY <1>0, <1>10 DEF vars, Active, chanVars, handlerVars
<1> QED BY <1>1, <1>4, <1>5, <1>6, <1>7, <1>8, <1>9, <1>10 DEF Next, AgentStep

(* A request that CancelPendingForUser has dealt with is released, however *)
(* the machine's response, the timer and the cancellation interleave.      *)
THEOREM CancelReleases == Spec => []CancelledIsUnblocked
<1>1. Init => CancelInv
  BY TypeInit DEF Init, CancelInv, CancelledIsUnblocked
<1>2. CancelInv /\ [Next]_vars => CancelInv'
  BY CancelStep
<1>3. CancelInv => CancelledIsUnblocked
  BY DEF CancelInv
<1> QED BY <1>1, <1>2, <1>3, PTL DEF Spec
==============================================================================
