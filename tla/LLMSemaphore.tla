----------------------------- MODULE LLMSemaphore -----------------------------
(***************************************************************************)
(* The LLM concurrency limiter of hub/internal/im/llm_semaphore.go: a      *)
(* buffered channel used as a counting semaphore, which Resize replaces by *)
(* a new channel.  Acquire and Release read the field s.sem under s.mu and *)
(* use the channel they read after the unlock.                             *)
(***************************************************************************)
EXTENDS Naturals, FiniteSets

CONSTANTS
  Callers,     \* goroutines that bracket an LLM call with Acquire ... Release
  Channels,    \* identities of channels; more than Callers, so one is unused
  NoChannel,
  Capacities,  \* the capacities Resize is called with (normalised to > 0)
  HotResize    \* whether Resize may run while calls are in flight

ASSUME SemaphoreAssumption ==
  /\ IsFiniteSet(Callers)
  /\ Capacities \subseteq Nat \ {0}
  /\ HotResize \in BOOLEAN
  /\ NoChannel \notin Channels

VARIABLES
  sem,       \* s.sem, the current channel
  cap,       \* the buffer size of each channel; cap[sem] is s.capacity
  fill,      \* how many elements each channel buffers
  inflight,  \* s.inflight
  pc,        \* where each caller stands
  chan       \* the channel a caller read from s.sem in its current call

vars == <<sem, cap, fill, inflight, pc, chan>>

At(S) == {c \in Callers : pc[c] \in S}
InCall  == At({"acquire", "acquired", "calling", "release", "released"})
Holders == At({"acquired", "calling", "release"})  \* sent one, received none

Init ==
  /\ sem \in Channels
  /\ cap \in [Channels -> Capacities]
  /\ fill = [ch \in Channels |-> 0]
  /\ inflight = 0
  /\ pc = [c \in Callers |-> "idle"]
  /\ chan = [c \in Callers |-> NoChannel]

Step(c, from, to) == pc[c] = from /\ pc' = [pc EXCEPT ![c] = to]

(* Mutant of AcquireGiveUp: an Acquire that gave up still holds a slot.    *)
GiveUpLeaks(c) ==
  /\ Step(c, "acquire", "idle")
  /\ fill[chan[c]] < cap[chan[c]]
  /\ fill' = [fill EXCEPT ![chan[c]] = @ + 1]
  /\ chan' = [chan EXCEPT ![c] = NoChannel]
  /\ UNCHANGED <<sem, cap, inflight>>

(* Acquire reads s.sem under the lock ...                                  *)
AcquireRead(c) ==
  /\ Step(c, "idle", "acquire")
  /\ chan' = [chan EXCEPT ![c] = sem]
  /\ UNCHANGED <<sem, cap, fill, inflight>>

(* ... and selects: a slot of that channel ...                             *)
AcquireSend(c) ==
  /\ Step(c, "acquire", "acquired")
  /\ fill[chan[c]] < cap[chan[c]]
  /\ fill' = [fill EXCEPT ![chan[c]] = @ + 1]
  /\ UNCHANGED <<sem, cap, inflight, chan>>

(* ... or the timer or the caller's context: no slot, no call.             *)
AcquireGiveUp(c) ==
  /\ Step(c, "acquire", "idle")
  /\ chan' = [chan EXCEPT ![c] = NoChannel]
  /\ UNCHANGED <<sem, cap, fill, inflight>>

(* The monitoring counter follows the channel operation.                   *)
CountUp(c) ==
  /\ Step(c, "acquired", "calling")
  /\ inflight' = inflight + 1
  /\ UNCHANGED <<sem, cap, fill, chan>>

(* The LLM call is over; Release reads s.sem as it is now ...              *)
ReleaseRead(c) ==
  /\ Step(c, "calling", "release")
  /\ chan' = [chan EXCEPT ![c] = sem]
  /\ UNCHANGED <<sem, cap, fill, inflight>>

(* ... receives from it, blocking while it is empty ...                    *)
ReleaseReceive(c) ==
  /\ Step(c, "release", "released")
  /\ fill[chan[c]] > 0
  /\ fill' = [fill EXCEPT ![chan[c]] = @ - 1]
  /\ UNCHANGED <<sem, cap, inflight, chan>>

(* ... and counts down.                                                    *)
CountDown(c) ==
  /\ Step(c, "released", "idle")
  /\ inflight' = inflight - 1
  /\ chan' = [chan EXCEPT ![c] = NoChannel]
  /\ UNCHANGED <<sem, cap, fill>>

(* Resize: nothing for the same capacity, otherwise a new empty channel.   *)
(* A channel nobody refers to any more may be the new one again.           *)
Resize(n) ==
  /\ n # cap[sem]
  /\ HotResize \/ InCall = {}
  /\ \E ch \in Channels \ ({sem} \cup {chan[c] : c \in Callers}) :
       /\ sem'  = ch
       /\ cap'  = [cap EXCEPT ![ch] = n]
       /\ fill' = [fill EXCEPT ![ch] = 0]
  /\ UNCHANGED <<inflight, pc, chan>>

CallerStep(c) ==
  \/ AcquireSend(c) \/ AcquireGiveUp(c) \/ CountUp(c)
  \/ ReleaseRead(c) \/ ReleaseReceive(c) \/ CountDown(c)

Next ==
  \/ \E c \in Callers : AcquireRead(c) \/ CallerStep(c)
  \/ \E n \in Capacities : Resize(n)

Spec == Init /\ [][Next]_vars

-----------------------------------------------------------------------------
TypeOK ==
  /\ sem \in Channels
  /\ cap \in [Channels -> Capacities]
  /\ fill \in [Channels -> Nat]
  /\ inflight \in Nat
  /\ pc \in [Callers -> {"idle", "acquire", "acquired", "calling", "release", "released"}]
  /\ chan \in [Callers -> Channels \cup {NoChannel}]
  /\ \A c \in Callers : chan[c] = NoChannel <=> pc[c] = "idle"

(* The current channel buffers exactly the slots that are held: none is    *)
(* leaked and none is given back twice.                                    *)
SlotsMatchHolders == fill[sem] = Cardinality(Holders)

(* The limit: never more LLM calls run on slots of the current channel     *)
(* than the capacity allows.                                               *)
CallsOn(ch) == {c \in At({"acquired", "calling"}) : chan[c] = ch}
CallsWithinCapacity == Cardinality(CallsOn(sem)) <= cap[sem]

(* Release never blocks: whoever gives a slot back finds one in the        *)
(* channel.                                                                *)
ReleaseNeverBlocks == \A c \in Callers : pc[c] = "release" => fill[chan[c]] > 0

(* Inflight counts the calls between the two atomic updates, whatever the  *)
(* channels do meanwhile; at rest it is back at zero.                      *)
InflightExact == inflight = Cardinality(At({"calling", "release", "released"}))

===============================================================================
