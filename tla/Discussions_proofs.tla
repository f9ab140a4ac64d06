-------------------------- MODULE Discussions_proofs --------------------------
(***************************************************************************)
(* Theorems about the LLM semaphore for any finite set of callers and any  *)
(* capacities, and about the discussions, whose conductors and the          *)
(* goroutines that ask devices for them are its callers.                   *)
(* What depends on the channel staying the same during a call is proved    *)
(* for HotResize = FALSE: with calls in flight it fails.                   *)
(***************************************************************************)
EXTENDS Discussions, FiniteSetTheorems, TLAPS

(* Adding or removing one caller moves a cardinality by one.               *)
LEMMA CountMoves ==
  ASSUME NEW S, NEW T, NEW c, IsFiniteSet(S)
  PROVE  /\ T = S \cup {c} /\ c \notin S => Cardinality(T) = Cardinality(S) + 1
         /\ T = S \ {c} /\ c \in S => Cardinality(T) = Cardinality(S) - 1
         /\ Cardinality(S) \in Nat
         /\ c \in S => Cardinality(S) > 0
<1>1. Cardinality(S) \in Nat
  BY FS_CardinalityType
<1>2. c \in S => Cardinality(S) # 0
  BY FS_EmptySet
<1> QED BY <1>1, <1>2, FS_AddElement, FS_RemoveElement

LEMMA AtFinite == \A S : At(S) \subseteq Callers /\ IsFiniteSet(At(S))
BY SemaphoreAssumption, FS_Subset DEF At

-----------------------------------------------------------------------------
LEMMA TypeStep ==
  ASSUME TypeOK, InflightExact, [Next]_vars
  PROVE  TypeOK' /\ InflightExact'
<1> USE SemaphoreAssumption
<1> DEFINE S == At({"calling", "release", "released"})
<1>0. IsFiniteSet(S) /\ S \subseteq Callers
  BY AtFinite
<1>1. ASSUME NEW c \in Callers, AcquireRead(c) \/ AcquireSend(c) \/ AcquireGiveUp(c)
      PROVE  TypeOK' /\ InflightExact'
  <2>1. S' = S /\ inflight' = inflight
    BY <1>1 DEF AcquireRead, AcquireSend, AcquireGiveUp, Step, At, TypeOK
  <2>2. TypeOK'
    BY <1>1 DEF AcquireRead, AcquireSend, AcquireGiveUp, Step, TypeOK
  <2> QED BY <2>1, <2>2 DEF InflightExact
<1>2. ASSUME NEW c \in Callers, CountUp(c) PROVE TypeOK' /\ InflightExact'
  <2>1. S' = S \cup {c} /\ c \notin S /\ inflight' = inflight + 1
    BY <1>2 DEF CountUp, Step, At, TypeOK
  <2>2. TypeOK'
    BY <1>2 DEF CountUp, Step, TypeOK
  <2> QED BY <1>0, <2>1, <2>2, CountMoves DEF InflightExact
<1>3. ASSUME NEW c \in Callers, ReleaseRead(c) \/ ReleaseReceive(c) PROVE TypeOK' /\ InflightExact'
  <2>1. S' = S /\ inflight' = inflight
    BY <1>3 DEF ReleaseRead, ReleaseReceive, Step, At, TypeOK
  <2>2. TypeOK'
    BY <1>3 DEF ReleaseRead, ReleaseReceive, Step, TypeOK
  <2> QED BY <2>1, <2>2 DEF InflightExact
<1>4. ASSUME NEW c \in Callers, CountDown(c) PROVE TypeOK' /\ InflightExact'
  <2>1. S' = S \ {c} /\ c \in S /\ inflight' = inflight - 1
    BY <1>4 DEF CountDown, Step, At, TypeOK
  <2>2. Cardinality(S') = Cardinality(S) - 1 /\ Cardinality(S) > 0 /\ Cardinality(S) \in Nat
    BY <1>0, <2>1, CountMoves
  <2>3. inflight' \in Nat /\ inflight' = Cardinality(S')
    BY <2>1, <2>2 DEF InflightExact
  <2>4. TypeOK'
    BY <1>4, <2>3 DEF CountDown, Step, TypeOK
  <2> QED BY <2>3, <2>4 DEF InflightExact
<1>5. ASSUME NEW n \in Capacities, Resize(n) PROVE TypeOK' /\ InflightExact'
  <2>1. S' = S /\ inflight' = inflight
    BY <1>5 DEF Resize, At
  <2>2. TypeOK'
    BY <1>5 DEF Resize, TypeOK
  <2> QED BY <2>1, <2>2 DEF InflightExact
<1>6. CASE UNCHANGED vars
  BY <1>6 DEF vars, TypeOK, InflightExact, At
<1> QED BY <1>1, <1>2, <1>3, <1>4, <1>5, <1>6 DEF Next, CallerStep

(* The variables keep their types and inflight counts exactly the calls    *)
(* between its two updates, whatever Resize does to the channels.          *)
THEOREM InflightCounts == Spec => [](TypeOK /\ InflightExact)
<1>1. Init => TypeOK
  BY SemaphoreAssumption DEF Init, TypeOK
<1>2. Init => InflightExact
  <2> SUFFICES ASSUME Init PROVE InflightExact
    OBVIOUS
  <2>1. At({"calling", "release", "released"}) = {}
    BY DEF Init, At
  <2> QED BY <2>1, FS_EmptySet DEF Init, InflightExact
<1>3. TypeOK /\ InflightExact /\ [Next]_vars => (TypeOK /\ InflightExact)'
  BY TypeStep
<1> QED BY <1>1, <1>2, <1>3, PTL DEF Spec

-----------------------------------------------------------------------------
(* Without a Resize during calls every call uses the current channel, and  *)
(* that channel buffers one element per slot held.                         *)
Conserved ==
  /\ \A c \in Callers : pc[c] # "idle" /\ pc[c] # "released" => chan[c] = sem
  /\ SlotsMatchHolders
  /\ fill[sem] <= cap[sem]

LEMMA ConservedStep ==
  ASSUME HotResize = FALSE, TypeOK, Conserved, [Next]_vars
  PROVE  Conserved'
<1>0. IsFiniteSet(Holders) /\ Holders \subseteq Callers
  BY AtFinite DEF Holders
<1>a. fill[sem] \in Nat /\ cap[sem] \in Nat
  BY SemaphoreAssumption DEF TypeOK
<1>1. ASSUME NEW c \in Callers, AcquireRead(c) \/ AcquireGiveUp(c) \/ CountUp(c)
                                \/ ReleaseRead(c) \/ CountDown(c)
      PROVE  Conserved'
  <2>1. Holders' = Holders /\ UNCHANGED <<sem, cap, fill>>
    BY <1>1 DEF AcquireRead, AcquireGiveUp, CountUp, ReleaseRead, CountDown, Step,
                Holders, At, TypeOK
  <2>2. \A d \in Callers : pc'[d] # "idle" /\ pc'[d] # "released" => chan'[d] = sem
    BY <1>1 DEF AcquireRead, AcquireGiveUp, CountUp, ReleaseRead, CountDown, Step,
                TypeOK, Conserved
  <2> QED BY <2>1, <2>2 DEF Conserved, SlotsMatchHolders
<1>2. ASSUME NEW c \in Callers, AcquireSend(c) PROVE Conserved'
  <2>1. /\ Holders' = Holders \cup {c} /\ c \notin Holders /\ chan[c] = sem
        /\ fill' = [fill EXCEPT ![sem] = @ + 1] /\ fill[sem] < cap[sem]
        /\ pc' = [pc EXCEPT ![c] = "acquired"]
        /\ UNCHANGED <<sem, cap, chan>>
    BY <1>2 DEF AcquireSend, Step, Holders, At, TypeOK, Conserved
  <2>2. Cardinality(Holders') = Cardinality(Holders) + 1
    BY <1>0, <2>1, CountMoves
  <2>3. fill'[sem] = fill[sem] + 1 /\ fill'[sem] <= cap[sem]
    <3>1. fill'[sem] = fill[sem] + 1
      BY <2>1 DEF TypeOK
    <3> QED BY <1>a, <2>1, <3>1 DEF Conserved
  <2>4. \A d \in Callers : pc'[d] # "idle" /\ pc'[d] # "released" => chan'[d] = sem'
    BY <2>1 DEF Conserved, TypeOK
  <2>5. SlotsMatchHolders'
    BY <2>1, <2>2, <2>3 DEF Conserved, SlotsMatchHolders
  <2> QED BY <2>1, <2>3, <2>4, <2>5 DEF Conserved
<1>3. ASSUME NEW c \in Callers, ReleaseReceive(c) PROVE Conserved'
  <2>1. /\ Holders' = Holders \ {c} /\ c \in Holders /\ chan[c] = sem
        /\ fill' = [fill EXCEPT ![sem] = @ - 1] /\ fill[sem] > 0
        /\ pc' = [pc EXCEPT ![c] = "released"]
        /\ UNCHANGED <<sem, cap, chan>>
    BY <1>3 DEF ReleaseReceive, Step, Holders, At, TypeOK, Conserved
  <2>2. Cardinality(Holders') = Cardinality(Holders) - 1
    BY <1>0, <2>1, CountMoves
  <2>3. fill'[sem] = fill[sem] - 1 /\ fill'[sem] <= cap[sem]
    <3>1. fill'[sem] = fill[sem] - 1
      BY <2>1 DEF TypeOK
    <3> QED BY <1>a, <2>1, <3>1 DEF Conserved
  <2>4. \A d \in Callers : pc'[d] # "idle" /\ pc'[d] # "released" => chan'[d] = sem'
    BY <2>1 DEF Conserved, TypeOK
  <2>5. SlotsMatchHolders'
    BY <2>1, <2>2, <2>3 DEF Conserved, SlotsMatchHolders
  <2> QED BY <2>1, <2>3, <2>4, <2>5 DEF Conserved
<1>4. ASSUME NEW n \in Capacities, Resize(n) PROVE Conserved'
  <2>1. InCall = {} /\ UNCHANGED <<pc, chan>>
    BY <1>4 DEF Resize
  <2>2. PICK ch \in Channels : sem' = ch /\ cap' = [cap EXCEPT ![ch] = n]
                               /\ fill' = [fill EXCEPT ![ch] = 0]
    BY <1>4 DEF Resize
  <2>3. \A c \in Callers : pc[c] = "idle"
    BY <2>1 DEF InCall, At, TypeOK
  <2>4. Holders' = {}
    BY <2>1, <2>3 DEF Holders, At
  <2>5. Cardinality(Holders') = 0
    BY <2>4, FS_EmptySet
  <2>6. fill'[sem'] = 0 /\ cap'[sem'] \in Nat
    BY <2>2, SemaphoreAssumption DEF TypeOK
  <2> QED BY <2>1, <2>3, <2>5, <2>6 DEF Conserved, SlotsMatchHolders
<1>5. CASE UNCHANGED vars
  BY <1>5 DEF vars, Conserved, SlotsMatchHolders, Holders, At
<1> QED BY <1>1, <1>2, <1>3, <1>4, <1>5 DEF Next, CallerStep

LEMMA ConservedAlways == ASSUME HotResize = FALSE PROVE Spec => []Conserved
<1>1. Init => Conserved
  <2> SUFFICES ASSUME Init PROVE Conserved
    OBVIOUS
  <2>1. Holders = {}
    BY DEF Init, Holders, At
  <2>2. cap[sem] \in Nat /\ fill[sem] = 0
    BY SemaphoreAssumption DEF Init
  <2> QED BY <2>1, <2>2, FS_EmptySet DEF Init, Conserved, SlotsMatchHolders
<1>2. TypeOK /\ Conserved /\ [Next]_vars => Conserved'
  BY ConservedStep
<1> QED BY <1>1, <1>2, InflightCounts, PTL DEF Spec

(* No slot is leaked or given back twice.                                  *)
THEOREM SlotConservation == ASSUME HotResize = FALSE PROVE Spec => []SlotsMatchHolders
<1>1. Conserved => SlotsMatchHolders
  BY DEF Conserved
<1> QED BY <1>1, ConservedAlways, PTL

(* The number of LLM calls on the current channel respects the capacity.   *)
THEOREM Limit == ASSUME HotResize = FALSE PROVE Spec => []CallsWithinCapacity
<1>1. TypeOK /\ Conserved => CallsWithinCapacity
  <2> SUFFICES ASSUME TypeOK, Conserved PROVE CallsWithinCapacity
    OBVIOUS
  <2>1. CallsOn(sem) \subseteq Holders /\ IsFiniteSet(Holders)
    BY AtFinite DEF CallsOn, Holders, At
  <2>2. /\ Cardinality(CallsOn(sem)) <= Cardinality(Holders)
        /\ Cardinality(CallsOn(sem)) \in Nat /\ Cardinality(Holders) \in Nat
    BY <2>1, FS_Subset, FS_CardinalityType
  <2>3. cap[sem] \in Nat /\ fill[sem] \in Nat
    BY SemaphoreAssumption DEF TypeOK
  <2> QED BY <2>2, <2>3 DEF Conserved, SlotsMatchHolders, CallsWithinCapacity
<1> QED BY <1>1, ConservedAlways, InflightCounts, PTL

(* Release always finds an element to receive.                             *)
THEOREM ReleaseReturns == ASSUME HotResize = FALSE PROVE Spec => []ReleaseNeverBlocks
<1>1. TypeOK /\ Conserved => ReleaseNeverBlocks
  <2> SUFFICES ASSUME TypeOK, Conserved, NEW c \in Callers, pc[c] = "release"
               PROVE  fill[chan[c]] > 0
    BY DEF ReleaseNeverBlocks
  <2>1. c \in Holders /\ IsFiniteSet(Holders) /\ chan[c] = sem
    BY AtFinite DEF Holders, At, Conserved
  <2>2. Cardinality(Holders) > 0
    BY <2>1, CountMoves
  <2> QED BY <2>1, <2>2 DEF Conserved, SlotsMatchHolders
<1> QED BY <1>1, ConservedAlways, InflightCounts, PTL

-----------------------------------------------------------------------------
(* The discussions of a user.  The steps of a loop:                        *)
LoopSteps == {"off", "wait", "head", "decide", "sum", "over"}

(* What the discussions change beside the semaphore.                       *)
DiscTypeOK ==
  /\ space \in {"lobby", "private", "meeting"}
  /\ table \in Discs \cup {NoDisc}
  /\ conducted \in [Discs -> BOOLEAN] /\ running \in [Discs -> BOOLEAN]
  /\ stop \in [Discs -> BOOLEAN]
  /\ loop \in [Discs -> LoopSteps]
  /\ left \in [Discs -> Int] /\ works \in [Askers -> Discs \cup {NoDisc}]
  /\ at \in [Handlers -> {"idle", "enter", "start", "look", "act", "delete", "exit",
                          "private", "vacate", "follow", "meeting", "reset"}]
  /\ after \in [Handlers -> {"idle", "exit", "private"}]
  /\ got \in [Handlers -> Discs \cup {NoDisc}]

(* An entry is read by the stop that uses it, and is an entry of a discussion. *)
StopHasEntry == \A h \in Handlers : at[h] = "act" <=> got[h] # NoDisc

(* The loop of a discussion calls the LLM where it decides or sums up, ... *)
CallersDecide == \A d \in Discs : pc[d] # "idle" => loop[d] \in {"decide", "sum"}

(* ... and waits as long as a goroutine owes it the reply of a device.     *)
RepliesAwaited == \A a \in Askers : works[a] # NoDisc => loop[works[a]] = "wait"

(* The entry of the table is that of a loop which is alive: stronger than
   RunningEntryHasLoop, since a loop removes the entry when it ends. *)
EntryHasLoop == table # NoDisc => loop[table] # "off"

DiscInv ==
  DiscTypeOK /\ StopHasEntry /\ CallersDecide /\ RepliesAwaited /\ EntryHasLoop

(* What the handlers do leaves the semaphore alone, and what a loop does is a
   step of a caller. *)
LEMMA HandlersLeaveSemaphore ==
  (Begin \/ \E h \in Handlers : HandlerStep(h)) => UNCHANGED vars
BY DEF Begin, HandlerStep, Discuss, Stop, ExitPrivate, FollowUp, Coordinate, OfflineNotice,
       EnterMeeting, StartRefused, StartDiscussion, StopLooks, StopActs, StopDeletes, ExitMeeting,
       EnterPrivate, VacateMeeting, FollowsUp, MeetingMessage, ResetSpace, Quiet, SpaceBecomes,
       semVars, vars

LEMMA LoopUsesSemaphore ==
  ASSUME NEW d \in Discs, DiscStep(d) \/ SetRounds(d) \/ TimeOut(d)
  PROVE  [Next]_vars
<1>1. d \in Callers
  BY DiscussionAssumption
<1>2. CASE \/ NextRound(d) \/ LastRound(d) \/ AllReplied(d) \/ BreakerOpen(d) \/ LoopEnds(d)
           \/ SetRounds(d) \/ TimeOut(d)
  BY <1>2 DEF NextRound, LastRound, AllReplied, BreakerOpen, LoopEnds, SetRounds, TimeOut,
              semVars, vars
<1>3. CASE AskLLM(d) \/ NoSlot(d) \/ CallGoesOn(d) \/ Decide(d)
  BY <1>1, <1>3 DEF AskLLM, NoSlot, CallGoesOn, Decide, Next, CallerStep
<1> QED BY <1>2, <1>3 DEF DiscStep

LEMMA AskerUsesSemaphore ==
  ASSUME NEW a \in Askers, AskerStep(a)
  PROVE  [Next]_vars
<1>1. a \in Callers
  BY DiscussionAssumption
<1> QED BY <1>1 DEF AskerStep, AskerWaits, AskerSkips, AskerGoesOn, AskerReplies, AskerReleases,
                    Next, CallerStep, semVars, vars

(* The conductors of discussions and those who ask devices for them keep to the
   protocol of the semaphore: what they do with it, under whatever handlers and
   ends of discussions, is a behaviour of the semaphore's own specification. *)
THEOREM ConductorsUseSemaphore == DiscSpec => Spec
<1>1. DiscInit => Init
  BY DEF DiscInit
<1>2. [DiscNext]_allVars => [Next]_vars
  <2>1. CASE UNCHANGED allVars
    BY <2>1 DEF allVars, semVars, vars
  <2> QED BY <2>1, HandlersLeaveSemaphore, LoopUsesSemaphore, AskerUsesSemaphore DEF DiscNext
<1> QED BY <1>1, <1>2, PTL DEF DiscSpec, Spec

(* Discussions lose no slot of the semaphore and give none back twice.     *)
THEOREM DiscussionsConserveSlots ==
  ASSUME HotResize = FALSE
  PROVE  DiscSpec => []SlotsMatchHolders
BY ConductorsUseSemaphore, SlotConservation, PTL

(* However many discussions decide, sum up and ask devices at once, no more calls
   run than there are slots, and nobody is stuck giving a slot back. *)
THEOREM DiscussionsWithinCapacity ==
  ASSUME HotResize = FALSE
  PROVE  DiscSpec => [](CallsWithinCapacity /\ ReleaseNeverBlocks)
BY ConductorsUseSemaphore, Limit, ReleaseReturns, PTL

-----------------------------------------------------------------------------
(* A step of a handler.                                                    *)
LEMMA BeginStep ==
  ASSUME TypeOK, DiscInv, Begin
  PROVE  DiscInv'
<1> USE DEF Goes
<1>0. UNCHANGED <<vars, table, discVars, got>>
  BY HandlersLeaveSemaphore
     DEF Begin, Discuss, Stop, ExitPrivate, FollowUp, Coordinate, OfflineNotice, Quiet, SpaceBecomes
<1>1. PICK h \in Handlers, to \in {"enter", "look", "idle", "follow", "meeting", "reset", "vacate"} :
        Goes(h, "idle", to)
  BY DEF Begin, Discuss, Stop, ExitPrivate, FollowUp, Coordinate, OfflineNotice, Handlers
<1>2. /\ space' \in {"lobby", "private", "meeting"}
      /\ after' \in [Handlers -> {"idle", "exit", "private"}]
  BY DEF Begin, Discuss, Stop, ExitPrivate, FollowUp, Coordinate, OfflineNotice, Quiet, SpaceBecomes,
         DiscInv, DiscTypeOK, Handlers
<1>3. DiscTypeOK'
  BY <1>0, <1>1, <1>2 DEF DiscInv, DiscTypeOK, discVars
<1>4. StopHasEntry'
  BY <1>0, <1>1 DEF DiscInv, DiscTypeOK, StopHasEntry
<1> QED BY <1>0, <1>3, <1>4 DEF DiscInv, CallersDecide, RepliesAwaited, EntryHasLoop, vars, discVars

LEMMA StopTypes ==
  ASSUME NEW d \in Discs, stop \in [Discs -> BOOLEAN], left \in [Discs -> Int], Stopped(d)
  PROVE  stop' \in [Discs -> BOOLEAN] /\ left' \in [Discs -> Int]
<1>1. PICK b \in BOOLEAN : stop' = [stop EXCEPT ![d] = b]
  BY Zenon DEF Stopped
<1>2. left' \in [Discs -> Int]
  BY DEF Stopped
<1> QED BY <1>1, <1>2

LEMMA HandlerStepKeeps ==
  ASSUME TypeOK, DiscInv, NEW h \in Handlers, HandlerStep(h)
  PROVE  DiscInv'
<1> USE DiscussionAssumption DEF Goes
<1>0. UNCHANGED vars
  BY HandlersLeaveSemaphore
<1>1. CASE EnterMeeting(h) \/ StartRefused(h) \/ ExitMeeting(h) \/ EnterPrivate(h)
             \/ VacateMeeting(h) \/ FollowsUp(h) \/ MeetingMessage(h) \/ ResetSpace(h)
  <2>1. UNCHANGED <<table, discVars, got>>
    BY <1>1 DEF EnterMeeting, StartRefused, ExitMeeting, EnterPrivate, VacateMeeting, FollowsUp,
                MeetingMessage, ResetSpace, Quiet, SpaceBecomes
  <2>2. PICK to \in {"start", "idle", "look", "reset", "enter"} :
          at[h] # "act" /\ at' = [at EXCEPT ![h] = to]
    BY <1>1 DEF EnterMeeting, StartRefused, ExitMeeting, EnterPrivate, VacateMeeting, FollowsUp,
                MeetingMessage, ResetSpace
  <2>3. space' \in {"lobby", "private", "meeting"} /\ after' \in [Handlers -> {"idle", "exit", "private"}]
    BY <1>1 DEF EnterMeeting, StartRefused, ExitMeeting, EnterPrivate, VacateMeeting, FollowsUp,
                MeetingMessage, ResetSpace, Quiet, SpaceBecomes, DiscInv, DiscTypeOK
  <2>4. DiscTypeOK' /\ StopHasEntry'
    BY <2>1, <2>2, <2>3 DEF DiscInv, DiscTypeOK, StopHasEntry, discVars
  <2> QED BY <1>0, <2>1, <2>4 DEF DiscInv, CallersDecide, RepliesAwaited, EntryHasLoop, vars, discVars
<1>2. CASE StartDiscussion(h)
  <2>1. PICK d \in Discs, byLLM \in BOOLEAN :
          /\ table' = d
          /\ conducted' = [conducted EXCEPT ![d] = byLLM]
          /\ running' = [running EXCEPT ![d] = TRUE]
          /\ stop' = [stop EXCEPT ![d] = FALSE]
          /\ loop' = [loop EXCEPT ![d] = IF byLLM THEN "wait" ELSE "head"]
          /\ IF byLLM THEN AskDevices(d) ELSE UNCHANGED works
          /\ left' = [left EXCEPT ![d] = Rounds]
          /\ loop[d] = "off"
    BY <1>2 DEF StartDiscussion
  <2>2. at[h] = "start" /\ at' = [at EXCEPT ![h] = "idle"] /\ UNCHANGED <<space, after, got>>
    BY <1>2 DEF StartDiscussion
  <2>3. /\ works' \in [Askers -> Discs \cup {NoDisc}]
        /\ \A a \in Askers : works'[a] = works[a] \/ (byLLM /\ works'[a] = d)
    BY <2>1 DEF AskDevices, DiscInv, DiscTypeOK
  <2>4. DiscTypeOK'
    BY <2>1, <2>2, <2>3 DEF DiscInv, DiscTypeOK, LoopSteps
  <2>5. StopHasEntry'
    BY <2>2 DEF DiscInv, DiscTypeOK, StopHasEntry
  <2>6. CallersDecide' /\ EntryHasLoop'
    BY <1>0, <2>1 DEF DiscInv, DiscTypeOK, CallersDecide, EntryHasLoop, vars
  <2>7. RepliesAwaited'
    BY <2>1, <2>3 DEF DiscInv, DiscTypeOK, RepliesAwaited
  <2> QED BY <2>4, <2>5, <2>6, <2>7 DEF DiscInv
<1>3. CASE StopLooks(h)
  <2>1. UNCHANGED <<space, table, discVars>>
    BY <1>3 DEF StopLooks
  <2>2. DiscTypeOK' /\ StopHasEntry'
    BY <1>3, <2>1 DEF StopLooks, Returns, DiscInv, DiscTypeOK, StopHasEntry, discVars
  <2> QED BY <1>0, <2>1, <2>2 DEF DiscInv, CallersDecide, RepliesAwaited, EntryHasLoop, vars, discVars
<1>4. CASE StopActs(h)
  <2>1. UNCHANGED <<space, table, conducted, running, loop, works>>
    BY <1>4 DEF StopActs
  <2>2. got[h] \in Discs /\ at[h] = "act" /\ got' = [got EXCEPT ![h] = NoDisc]
    BY <1>4 DEF StopActs, DiscInv, DiscTypeOK, StopHasEntry
  <2>3. stop' \in [Discs -> BOOLEAN] /\ left' \in [Discs -> Int]
    BY <1>4, <2>2, StopTypes DEF StopActs, DiscInv, DiscTypeOK
  <2>4. PICK to \in {"idle", "exit", "private", "delete"} : at' = [at EXCEPT ![h] = to]
    BY <1>4 DEF StopActs, Returns, DiscInv, DiscTypeOK
  <2>5. after' \in [Handlers -> {"idle", "exit", "private"}]
    BY <1>4 DEF StopActs, Returns, DiscInv, DiscTypeOK
  <2>6. DiscTypeOK' /\ StopHasEntry'
    BY <2>1, <2>2, <2>3, <2>4, <2>5 DEF DiscInv, DiscTypeOK, StopHasEntry
  <2> QED BY <1>0, <2>1, <2>6 DEF DiscInv, CallersDecide, RepliesAwaited, EntryHasLoop, vars
<1>5. CASE StopDeletes(h)
  <2>1. table' = NoDisc /\ UNCHANGED <<space, discVars, got>>
    BY <1>5 DEF StopDeletes
  <2>2. DiscTypeOK' /\ StopHasEntry'
    BY <1>5, <2>1 DEF StopDeletes, Returns, DiscInv, DiscTypeOK, StopHasEntry, discVars
  <2> QED BY <1>0, <2>1, <2>2 DEF DiscInv, CallersDecide, RepliesAwaited, EntryHasLoop, vars, discVars
<1> QED BY <1>1, <1>2, <1>3, <1>4, <1>5 DEF HandlerStep

(* A step of the loop of a discussion.                                     *)
LEMMA LoopStepKeeps ==
  ASSUME TypeOK, DiscInv, NEW d \in Discs, DiscStep(d) \/ SetRounds(d) \/ TimeOut(d)
  PROVE  DiscInv'
<1> USE DiscussionAssumption
(* What holds after any step that moves this loop, or leaves it where it is. *)
<1>0. ASSUME NEW to \in LoopSteps, loop' = [loop EXCEPT ![d] = to], to # "off",
             UNCHANGED <<space, table, conducted, running, handVars>>,
             stop' \in [Discs -> BOOLEAN], left' \in [Discs -> Int],
             \A e \in Discs \ {d} : pc'[e] = pc[e],
             pc'[d] # "idle" => to \in {"decide", "sum"},
             works' \in [Askers -> Discs \cup {NoDisc}],
             \A a \in Askers : works'[a] = works[a] \/ (to = "wait" /\ works'[a] = d),
             loop[d] = "wait" /\ to # "wait" => \A a \in Askers : works[a] # d
      PROVE  DiscInv'
  <2>1. DiscTypeOK' /\ StopHasEntry'
    BY <1>0 DEF DiscInv, DiscTypeOK, StopHasEntry, handVars
  <2>2. CallersDecide' /\ EntryHasLoop'
    BY <1>0 DEF DiscInv, DiscTypeOK, CallersDecide, EntryHasLoop
  <2>3. RepliesAwaited'
    BY <1>0 DEF DiscInv, DiscTypeOK, RepliesAwaited
  <2> QED BY <2>1, <2>2, <2>3 DEF DiscInv
<1>a. /\ loop[d] \in LoopSteps /\ loop = [loop EXCEPT ![d] = loop[d]]
      /\ works \in [Askers -> Discs \cup {NoDisc}]
      /\ left \in [Discs -> Int] /\ stop \in [Discs -> BOOLEAN] /\ left[d] \in Int
      /\ pc[d] # "idle" => loop[d] \in {"decide", "sum"}
  BY DEF DiscInv, DiscTypeOK, CallersDecide
<1>b. ASSUME NEW to, LoopTo(d, to)
      PROVE  stop' \in [Discs -> BOOLEAN] /\ left' \in [Discs -> Int]
  BY <1>a, <1>b DEF LoopTo
<1>1. CASE NextRound(d)
  <2>1. PICK to \in {"decide", "head"} : loop' = [loop EXCEPT ![d] = to]
    BY <1>1 DEF NextRound
  <2>2. left' \in [Discs -> Int]
    BY <1>1, <1>a DEF NextRound
  <2> QED BY <1>0, <1>1, <1>a, <2>1, <2>2 DEF NextRound, AtLoop, semVars, LoopSteps
<1>2. CASE SetRounds(d) \/ TimeOut(d)
  <2>1. /\ loop' = loop /\ works' = works /\ pc' = pc /\ loop[d] = "head"
        /\ UNCHANGED <<space, table, conducted, running, handVars>>
    BY <1>2 DEF SetRounds, TimeOut, AtLoop, semVars
  <2>2. stop' \in [Discs -> BOOLEAN] /\ left' \in [Discs -> Int]
    <3>1. CASE SetRounds(d)
      BY <1>a, <3>1 DEF SetRounds
    <3>2. CASE TimeOut(d)
      BY <1>a, <3>2, StopTypes DEF TimeOut
    <3> QED BY <1>2, <3>1, <3>2
  <2> QED BY <1>0, <1>a, <2>1, <2>2
<1>3. CASE LastRound(d) \/ AllReplied(d)
  <2>1. PICK to \in {"sum", "head"} : LoopTo(d, to)
    BY <1>3 DEF LastRound, AllReplied
  <2>2. /\ pc' = pc /\ pc[d] = "idle" /\ works' = works
        /\ UNCHANGED <<space, table, conducted, running, handVars>>
        /\ loop[d] = "wait" => \A a \in Askers : works[a] # d
    BY <1>3 DEF LastRound, AllReplied, AtLoop, OnlyLoop, semVars
  <2> QED BY <1>0, <1>a, <1>b, <2>1, <2>2 DEF LoopTo, LoopSteps
<1>4. CASE AskLLM(d) \/ CallGoesOn(d)
  <2>1. UNCHANGED <<space, table, conducted, running, stop, loop, left, works, handVars>>
    BY <1>4 DEF AskLLM, CallGoesOn, OnlySem, discVars
  <2>2. \A e \in Discs \ {d} : pc'[e] = pc[e]
    BY <1>4 DEF AskLLM, CallGoesOn, AcquireRead, AcquireSend, CountUp, ReleaseRead, ReleaseReceive,
                Step, TypeOK
  <2>3. loop[d] \in {"decide", "sum"}
    BY <1>4, <1>a DEF AskLLM, CallGoesOn, AtLoop, AcquireSend, CountUp, ReleaseRead,
                      ReleaseReceive, Step
  <2> QED BY <1>0, <1>a, <2>1, <2>2, <2>3
<1>5. CASE BreakerOpen(d) \/ NoSlot(d)
  <2>1. PICK to \in {"sum", "over"} : LoopTo(d, to)
    BY <1>5 DEF BreakerOpen, NoSlot, WithoutLLM
  <2>2. works' = works /\ UNCHANGED <<space, table, conducted, running, handVars>>
    BY <1>5 DEF BreakerOpen, NoSlot, WithoutLLM, OnlyLoop
  <2>3. /\ \A e \in Discs \ {d} : pc'[e] = pc[e]
        /\ pc'[d] = "idle" /\ loop[d] \in {"decide", "sum"}
    BY <1>5, <1>a DEF BreakerOpen, NoSlot, AtLoop, AcquireGiveUp, Step, TypeOK, semVars
  <2> QED BY <1>0, <1>a, <1>b, <2>1, <2>2, <2>3 DEF LoopTo, LoopSteps
<1>6. CASE Decide(d)
  <2>1. PICK to \in {"wait", "head", "sum", "over"} :
          LoopTo(d, to) /\ (IF to = "wait" THEN AskDevices(d) ELSE UNCHANGED works)
    BY <1>6 DEF Decide
  <2>2. /\ works' \in [Askers -> Discs \cup {NoDisc}]
        /\ \A a \in Askers : works'[a] = works[a] \/ (to = "wait" /\ works'[a] = d)
    BY <1>a, <2>1 DEF AskDevices
  <2>3. /\ \A e \in Discs \ {d} : pc'[e] = pc[e]
        /\ pc'[d] = "idle" /\ loop[d] \in {"decide", "sum"}
    BY <1>6, <1>a DEF Decide, CountDown, Step, TypeOK
  <2>4. UNCHANGED <<space, table, conducted, running, handVars>>
    BY <1>6 DEF Decide
  <2> QED BY <1>0, <1>a, <1>b, <2>1, <2>2, <2>3, <2>4 DEF LoopTo, LoopSteps
<1>7. CASE LoopEnds(d)
  <2>1. /\ UNCHANGED <<vars, space, works, handVars>> /\ pc[d] = "idle"
        /\ loop' = [loop EXCEPT ![d] = "off"] /\ table' = NoDisc /\ loop[d] \in {"over", "head"}
    BY <1>7 DEF LoopEnds, Finished, AtLoop, LoopTo, semVars, vars
  <2>2. DiscTypeOK'
    <3>1. LoopTo(d, "off")
      BY <1>7 DEF LoopEnds
    <3> QED BY <1>7, <1>b, <2>1, <3>1 DEF LoopEnds, Forgotten, DiscInv, DiscTypeOK, LoopSteps, handVars
  <2>3. CallersDecide' /\ EntryHasLoop'
    BY <2>1 DEF DiscInv, DiscTypeOK, CallersDecide, EntryHasLoop, vars
  <2>4. RepliesAwaited'
    BY <2>1 DEF DiscInv, DiscTypeOK, RepliesAwaited
  <2> QED BY <2>1, <2>2, <2>3, <2>4 DEF DiscInv, StopHasEntry, handVars
<1> QED BY <1>1, <1>2, <1>3, <1>4, <1>5, <1>6, <1>7 DEF DiscStep

(* A step of a goroutine that asks a device.                               *)
LEMMA AskerStepKeeps ==
  ASSUME TypeOK, DiscInv, NEW a \in Askers, AskerStep(a)
  PROVE  DiscInv'
<1> USE DiscussionAssumption
<1>1. UNCHANGED <<space, table, conducted, running, stop, loop, left, handVars>>
  BY DEF AskerStep, AskerWaits, AskerSkips, AskerGoesOn, AskerReplies, AskerReleases, Replied,
         OnlySem, discVars
<1>2. works' = works \/ works' = [works EXCEPT ![a] = NoDisc]
  BY DEF AskerStep, AskerWaits, AskerSkips, AskerGoesOn, AskerReplies, AskerReleases, Replied,
         OnlySem, discVars
<1>3. \A d \in Discs : pc'[d] = pc[d]
  BY DEF AskerStep, AskerWaits, AskerSkips, AskerGoesOn, AskerReplies, AskerReleases, AcquireRead,
         AcquireGiveUp, AcquireSend, CountUp, ReleaseRead, ReleaseReceive, CountDown, Step, TypeOK,
         semVars
<1>4. DiscTypeOK' /\ StopHasEntry'
  BY <1>1, <1>2 DEF DiscInv, DiscTypeOK, StopHasEntry, handVars
<1>5. CallersDecide' /\ EntryHasLoop'
  BY <1>1, <1>3 DEF DiscInv, CallersDecide, EntryHasLoop
<1>6. RepliesAwaited'
  BY <1>1, <1>2 DEF DiscInv, DiscTypeOK, RepliesAwaited
<1> QED BY <1>4, <1>5, <1>6 DEF DiscInv

LEMMA DiscInvariant == DiscSpec => []DiscInv
<1>1. DiscInit => DiscInv
  BY DiscussionAssumption
     DEF DiscInit, Init, DiscInv, DiscTypeOK, LoopSteps, StopHasEntry, CallersDecide, RepliesAwaited, EntryHasLoop
<1>2. TypeOK /\ DiscInv /\ [DiscNext]_allVars => DiscInv'
  <2>1. ASSUME DiscInv, UNCHANGED allVars PROVE DiscInv'
    BY <2>1 DEF allVars, semVars, discVars, handVars, DiscInv, DiscTypeOK, StopHasEntry,
                CallersDecide, RepliesAwaited, EntryHasLoop
  <2> QED BY <2>1, BeginStep, HandlerStepKeeps, LoopStepKeeps, AskerStepKeeps DEF DiscNext
<1> QED BY <1>1, <1>2, ConductorsUseSemaphore, InflightCounts, PTL DEF DiscSpec

(* No user is refused a discussion, or has a message put into one, because of an
   entry that says Running and belongs to a discussion that is over, however
   stops, notices, ends of discussions and new ones interleave. *)
THEOREM RunningEntryIsAlive == DiscSpec => []RunningEntryHasLoop
<1>1. DiscInv => RunningEntryHasLoop
  BY DEF DiscInv, EntryHasLoop, RunningEntryHasLoop
<1> QED BY <1>1, DiscInvariant, PTL

(* A discussion that is over is in no call of the LLM itself, and nobody owes it
   a reply: a goroutine that still holds a slot of its has delivered what it
   asked for and has only its Release to do. *)
EndedAwaitsNothing ==
  \A d \in Discs : loop[d] = "off" => d \notin InCall /\ \A a \in Askers : works[a] # d

THEOREM EndedDiscussionsAwaitNothing == DiscSpec => []EndedAwaitsNothing
<1>1. DiscInv => EndedAwaitsNothing
  BY DiscussionAssumption
     DEF DiscInv, DiscTypeOK, CallersDecide, RepliesAwaited, EndedAwaitsNothing, InCall, At
<1> QED BY <1>1, DiscInvariant, PTL

===============================================================================
