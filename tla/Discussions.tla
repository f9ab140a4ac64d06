------------------------------ MODULE Discussions ------------------------------
(***************************************************************************)
(* The discussions of one user (hub/internal/im: discussion.go,            *)
(* discussion_conductor.go), the interaction space the user is in          *)
(* (space_state.go), and the commands of core.go, messages of              *)
(* coordinator.go and notices of device_notifier.go that move between      *)
(* them.                                                                   *)
(*                                                                         *)
(* Handlers of the same user's messages and device notices run             *)
(* concurrently; each look-up in r.discussions and each change of the      *)
(* space is a critical section of its own.  A conductor takes a slot of    *)
(* the LLM semaphore for each decision and for its final summary, and so   *)
(* does each of the goroutines that ask a device for it; nothing resizes   *)
(* this semaphore.  Which machines are online, what the LLM answers and    *)
(* whether the circuit breaker, shared with all other users, lets a call   *)
(* through is left open at every place that asks.  Panics are left out.    *)
(***************************************************************************)
EXTENDS LLMSemaphore

CONSTANTS
  Messages,   \* goroutines that handle the user's messages
  Notices,    \* goroutines that deliver a notice about one of his devices
  Discs,      \* identities of DiscussionState; one that is over is used again
  NoDisc,
  Conductable, \* bound: the identities a conducted discussion may have
  Askers,     \* goroutines that ask a device for a conductor; used again, too
  Rounds      \* rounds a discussion may have (3), or a conductor decide on (9)

ASSUME DiscussionAssumption ==
  /\ NoDisc \notin Discs /\ Messages \cap Notices = {}
  /\ Callers = Discs \cup Askers /\ Discs \cap Askers = {}
  /\ Conductable \subseteq Discs /\ Rounds \in Nat

Handlers == Messages \cup Notices

VARIABLES
  space,     \* the user's space: "lobby", "private" or "meeting"
  table,     \* r.discussions[user]
  conducted, \* [Discs -> BOOLEAN] the LLM conducts it
  running,   \* [Discs -> BOOLEAN] DiscussionState.Running
  stop,      \* [Discs -> BOOLEAN] StopCh is closed or the 20 minutes are over
  loop,      \* [Discs -> step of its goroutine]
  left,      \* [Discs -> rounds it may still begin]
  works,     \* [Askers -> the discussion that waits for its reply]
  at,        \* [Handlers -> step]
  after,     \* [Handlers -> what follows StopDiscussion]
  got        \* [Handlers -> the entry StopDiscussion has read]

(* Steps of a loop that looks at stop and left no more. *)
Ending == {"sum", "over", "off"}

discVars == <<conducted, running, stop, loop, left, works>>
handVars == <<at, after, got>>
semVars  == <<sem, cap, fill, inflight, pc, chan>>
allVars  == <<semVars, space, table, discVars, handVars>>

DiscInit ==
  /\ Init
  /\ space = "lobby" /\ table = NoDisc
  /\ conducted = [d \in Discs |-> FALSE] /\ running = [d \in Discs |-> FALSE]
  /\ stop = [d \in Discs |-> FALSE]
  /\ loop = [d \in Discs |-> "off"] /\ left = [d \in Discs |-> 0]
  /\ works = [a \in Askers |-> NoDisc]
  /\ at = [h \in Handlers |-> "idle"] /\ after = [h \in Handlers |-> "idle"]
  /\ got = [h \in Handlers |-> NoDisc]

-----------------------------------------------------------------------------
(* Handlers. *)

Goes(h, from, to) == at[h] = from /\ at' = [at EXCEPT ![h] = to]
(* A step that changes only the handler, and one that may change the space. *)
Quiet == UNCHANGED <<semVars, space, table, discVars, after, got>>
SpaceBecomes(s) == space' = s /\ UNCHANGED <<semVars, table, discVars, after, got>>

(* /discuss is accepted in the lobby. *)
Discuss(h) == space = "lobby" /\ Goes(h, "idle", "enter") /\ Quiet

EnterMeeting(h) ==
  /\ Goes(h, "enter", "start")
  /\ SpaceBecomes(IF space = "lobby" THEN "meeting" ELSE space)

(* askDevices starts a goroutine for each device.  Those that are no askers get
   no slot in time, which changes nothing. *)
AskDevices(d) ==
  \E asked \in SUBSET {a \in Askers : works[a] = NoDisc /\ pc[a] = "idle"} :
    works' = [a \in Askers |-> IF a \in asked THEN d ELSE works[a]]

(* StartDiscussion: too few devices, a discussion is running ... *)
StartRefused(h) == Goes(h, "start", "idle") /\ Quiet

(* ... or a new loop starts, under the conductor if the breaker allows, which
   spends its first round on asking all devices. *)
StartDiscussion(h) ==
  /\ Goes(h, "start", "idle")
  /\ table # NoDisc => ~running[table]
  /\ \E d \in Discs, byLLM \in BOOLEAN :
       /\ byLLM => d \in Conductable
       /\ loop[d] = "off" /\ \A g \in Handlers : got[g] # d
       /\ table' = d
       /\ conducted' = [conducted EXCEPT ![d] = byLLM]
       /\ running' = [running EXCEPT ![d] = TRUE]
       /\ stop' = [stop EXCEPT ![d] = FALSE]
       /\ loop' = [loop EXCEPT ![d] = IF byLLM THEN "wait" ELSE "head"]
       /\ IF byLLM THEN AskDevices(d) ELSE UNCHANGED works
       /\ left' = [left EXCEPT ![d] = Rounds]
  /\ UNCHANGED <<semVars, space, after, got>>

(* /stop, and /call, which leaves a discussion first. *)
Stop(h) ==
  /\ Goes(h, "idle", "look")
  /\ \/ after' = [after EXCEPT ![h] = "exit"]
     \/ space # "meeting" /\ after' = [after EXCEPT ![h] = "private"]
  /\ UNCHANGED <<semVars, space, table, discVars, got>>

Returns(h, from) == Goes(h, from, after[h]) /\ after' = [after EXCEPT ![h] = "idle"]

(* How many rounds are left does not matter then. *)
Stopped(d) ==
  /\ stop' = [stop EXCEPT ![d] = loop[d] \notin Ending]
  /\ left' = [left EXCEPT ![d] = 0]

(* StopDiscussion reads the entry under the lock, ... *)
StopLooks(h) ==
  /\ IF table = NoDisc
       THEN Returns(h, "look") /\ UNCHANGED got
       ELSE Goes(h, "look", "act") /\ got' = [got EXCEPT ![h] = table] /\ UNCHANGED after
  /\ UNCHANGED <<semVars, space, table, discVars>>

(* ... closes its channel if it is running, ... *)
StopActs(h) ==
  /\ at[h] = "act"
  /\ IF running[got[h]]
       THEN Returns(h, "act") /\ Stopped(got[h])
       ELSE Goes(h, "act", "delete") /\ UNCHANGED <<stop, left, after>>
  /\ got' = [got EXCEPT ![h] = NoDisc]
  /\ UNCHANGED <<semVars, space, table, conducted, running, loop, works>>

(* ... and otherwise removes whatever entry is there by now. *)
StopDeletes(h) ==
  /\ Returns(h, "delete")
  /\ table' = NoDisc
  /\ UNCHANGED <<semVars, space, discVars, got>>

ExitMeeting(h) ==
  /\ Goes(h, "exit", "idle")
  /\ SpaceBecomes(IF space = "meeting" THEN "lobby" ELSE space)

(* The rest of /call: no such device, a device, or all. *)
EnterPrivate(h) ==
  /\ Goes(h, "private", "idle")
  /\ \/ Quiet
     \/ SpaceBecomes(IF space = "meeting" THEN "meeting" ELSE "private")
     \/ SpaceBecomes(IF space = "private" THEN "lobby" ELSE space)

(* /call all in a private talk, which returns at once. *)
ExitPrivate(h) == space = "private" /\ Goes(h, "idle", "idle") /\ SpaceBecomes("lobby")

(* The notice that a device is offline: the private target, or the last
   participant of the meeting, whose discussion is then stopped. *)
OfflineNotice(h) ==
  \/ ExitPrivate(h)
  \/ space = "meeting" /\ Goes(h, "idle", "vacate") /\ Quiet

VacateMeeting(h) ==
  /\ Goes(h, "vacate", "look")
  /\ space' = IF space = "meeting" THEN "lobby" ELSE space
  /\ after' = [after EXCEPT ![h] = "idle"]
  /\ UNCHANGED <<semVars, table, discVars, got>>

(* A message during a discussion, while the LLM is disabled, ... *)
FollowUp(h) == table # NoDisc /\ Goes(h, "idle", "follow") /\ Quiet

(* ... goes into it, or starts another if that one has ended since. *)
FollowsUp(h) ==
  Goes(h, "follow", IF table # NoDisc /\ running[table] THEN "idle" ELSE "start") /\ Quiet

(* Any other message is dispatched by the space.  In the lobby the classifier
   may find that the user wants a discussion; a private target may be gone. *)
Coordinate(h) ==
  /\ Quiet
  /\ \/ space = "lobby" /\ Goes(h, "idle", "enter")
     \/ space = "meeting" /\ Goes(h, "idle", "meeting")
     \/ space = "private" /\ Goes(h, "idle", "reset")

(* Mutant of MeetingMessage: a meeting without a discussion is kept. *)
MeetingMessageKeeps(h) == Goes(h, "meeting", "idle") /\ Quiet

(* handleMeetingMessage: a meeting whose discussion is over is left, otherwise
   the message goes into the discussion. *)
MeetingMessage(h) ==
  Goes(h, "meeting", IF table = NoDisc THEN "reset" ELSE "idle") /\ Quiet

(* Reset; the message is then handled as one in the lobby. *)
ResetSpace(h) ==
  /\ \E to \in {"idle", "enter"} : Goes(h, "reset", to)
  /\ SpaceBecomes("lobby")

-----------------------------------------------------------------------------
(* The loop of a discussion.  One without a conductor is at its head while its
   devices are asked, reply and sum up, for which it takes no slot. *)

(* What a loop looks at no more is forgotten. *)
LoopTo(d, to) ==
  /\ loop' = [loop EXCEPT ![d] = to]
  /\ stop' = [stop EXCEPT ![d] = @ /\ to \notin Ending]
  /\ left' = [left EXCEPT ![d] = IF to \in Ending THEN 0 ELSE @]

OnlyLoop == UNCHANGED <<space, table, conducted, running, works, handVars>>
OnlySem  == UNCHANGED <<space, table, discVars, handVars>>

(* A call of the LLM returns when its slot is released. *)
AtLoop(d, steps) == loop[d] \in steps /\ pc[d] = "idle"

(* discussionTimeout, or that of the conductor, which the loop sees where it
   looks for a stop. *)
TimeOut(d) ==
  /\ AtLoop(d, {"head"}) /\ ~stop[d] /\ Stopped(d)
  /\ UNCHANGED <<semVars, space, table, conducted, running, loop, works, handVars>>

(* /rounds n: from a command that read the entry when it was this discussion's,
   and its round, be it before the loop went on to another.  A conductor does
   not look at it. *)
SetRounds(d) ==
  /\ AtLoop(d, {"head"}) /\ ~conducted[d] /\ ~stop[d]
  /\ \E n \in 0..Rounds : left' = [left EXCEPT ![d] = n]
  /\ UNCHANGED <<semVars, space, table, conducted, running, stop, loop, works, handVars>>

RoundsOver(d) == stop[d] \/ left[d] = 0

(* One more round, for which a conductor asks the LLM what to do ... *)
NextRound(d) ==
  /\ AtLoop(d, {"head"}) /\ ~RoundsOver(d)
  /\ loop' = [loop EXCEPT ![d] = IF conducted[d] THEN "decide" ELSE "head"]
  /\ left' = [left EXCEPT ![d] = @ - 1]
  /\ UNCHANGED <<semVars, space, table, conducted, running, stop, works, handVars>>

(* ... or the last one was: a conductor lets the LLM sum up. *)
LastRound(d) ==
  /\ AtLoop(d, {"head"}) /\ conducted[d] /\ RoundsOver(d)
  /\ LoopTo(d, "sum") /\ OnlyLoop /\ UNCHANGED semVars

(* askDevices waits for all replies. *)
AllReplied(d) ==
  /\ AtLoop(d, {"wait"}) /\ \A a \in Askers : works[a] # d
  /\ LoopTo(d, "head") /\ OnlyLoop /\ UNCHANGED semVars

(* decideNextAction and generateFinalSummary, unless the breaker is open, ... *)
AskLLM(d) == AtLoop(d, {"decide", "sum"}) /\ AcquireRead(d) /\ OnlySem

(* What follows when the LLM is not asked: the final summary, which is then
   made without it. *)
WithoutLLM(d) == LoopTo(d, IF loop[d] = "decide" THEN "sum" ELSE "over") /\ OnlyLoop

BreakerOpen(d) == AtLoop(d, {"decide", "sum"}) /\ WithoutLLM(d) /\ UNCHANGED semVars

(* Mutant of NoSlot: the conductor tries again. *)
NoSlotRetries(d) == AcquireGiveUp(d) /\ OnlySem

(* ... go on without it when there is no slot in time, ... *)
NoSlot(d) == AcquireGiveUp(d) /\ WithoutLLM(d)

CallGoesOn(d) ==
  /\ AcquireSend(d) \/ CountUp(d) \/ ReleaseRead(d) \/ ReleaseReceive(d)
  /\ OnlySem

(* ... and else, with the slot given back, do what the LLM says: ask devices, sum
   up so far, or conclude, which needs no other summary; one follows when the
   call failed or its answer is not readable, and is the end in any case. *)
Decide(d) ==
  /\ CountDown(d)
  /\ \/ loop[d] = "decide" /\ LoopTo(d, "wait") /\ AskDevices(d)
     \/ loop[d] = "decide" /\ (\E to \in {"head", "sum"} : LoopTo(d, to)) /\ UNCHANGED works
     \/ LoopTo(d, "over") /\ UNCHANGED works
  /\ UNCHANGED <<space, table, conducted, running, handVars>>

(* What is still looked at of a discussion that is over is Running: by a stop
   that has read its entry or, were the entry kept, by all who read it.  A
   conductor has a state of its own, so that the entry of a conducted
   discussion goes on saying Running. *)
Forgotten(d) ==
  /\ running' = [running EXCEPT ![d] = conducted[d] /\ (table' = d \/ \E h \in Handlers : got[h] = d)]
  /\ conducted' = [conducted EXCEPT ![d] = FALSE]

Finished(d) ==
  \/ AtLoop(d, {"over"})
  \/ AtLoop(d, {"head"}) /\ ~conducted[d] /\ RoundsOver(d)

(* Mutant of LoopEnds: a conductor only resets the Running of its own state. *)
ConductorKeepsEntry(d) ==
  /\ Finished(d) /\ LoopTo(d, "off")
  /\ table' = IF conducted[d] THEN table ELSE NoDisc
  /\ Forgotten(d)
  /\ UNCHANGED <<semVars, space, works, handVars>>

(* Stopped, out of rounds, out of time or concluded: the deferred function
   removes the user's entry, whosever it is. *)
LoopEnds(d) ==
  /\ Finished(d) /\ LoopTo(d, "off")
  /\ table' = NoDisc
  /\ Forgotten(d)
  /\ UNCHANGED <<semVars, space, works, handVars>>

-----------------------------------------------------------------------------
(* A goroutine that asks a device. *)

(* It waits for a slot, ... *)
AskerWaits(a) == works[a] # NoDisc /\ AcquireRead(a) /\ OnlySem

Replied(a) ==
  /\ works' = [works EXCEPT ![a] = NoDisc]
  /\ UNCHANGED <<space, table, conducted, running, stop, loop, left, handVars>>

(* ... gives an empty reply when there is none in time, ... *)
AskerSkips(a) == AcquireGiveUp(a) /\ Replied(a)

AskerGoesOn(a) ==
  /\ AcquireSend(a) \/ CountUp(a) \/ ReleaseReceive(a) \/ CountDown(a)
  /\ OnlySem

(* ... and else hands over what the device said, if anything, before its
   deferred Release runs: the discussion may be over by then. *)
AskerReplies(a) ==
  /\ pc[a] = "calling" /\ works[a] # NoDisc
  /\ Replied(a) /\ UNCHANGED semVars

AskerReleases(a) == works[a] = NoDisc /\ ReleaseRead(a) /\ OnlySem

-----------------------------------------------------------------------------
(* What the user and the machines do. *)
Begin ==
  \/ \E h \in Messages : Discuss(h) \/ Stop(h) \/ ExitPrivate(h) \/ FollowUp(h) \/ Coordinate(h)
  \/ \E n \in Notices : OfflineNotice(n)

HandlerStep(h) ==
  \/ EnterMeeting(h) \/ StartRefused(h) \/ StartDiscussion(h)
  \/ StopLooks(h) \/ StopActs(h) \/ StopDeletes(h) \/ ExitMeeting(h) \/ EnterPrivate(h)
  \/ VacateMeeting(h) \/ FollowsUp(h) \/ MeetingMessage(h) \/ ResetSpace(h)

DiscStep(d) ==
  \/ NextRound(d) \/ LastRound(d) \/ AllReplied(d)
  \/ AskLLM(d) \/ BreakerOpen(d) \/ NoSlot(d) \/ CallGoesOn(d) \/ Decide(d)
  \/ LoopEnds(d)

AskerStep(a) ==
  \/ AskerWaits(a) \/ AskerSkips(a) \/ AskerGoesOn(a) \/ AskerReplies(a) \/ AskerReleases(a)

DiscNext ==
  \/ Begin \/ \E h \in Handlers : HandlerStep(h)
  \/ \E d \in Discs : DiscStep(d) \/ SetRounds(d) \/ TimeOut(d)
  \/ \E a \in Askers : AskerStep(a)

(* Goroutines are scheduled; LLM calls, waits for a slot and requests to
   machines have timeouts, and a discussion has one too.  Nobody has to write. *)
DiscSpec ==
  /\ DiscInit /\ [][DiscNext]_allVars
  /\ \A h \in Handlers : WF_allVars(HandlerStep(h))
  /\ \A d \in Discs : WF_allVars(DiscStep(d)) /\ WF_allVars(TimeOut(d))
  /\ \A a \in Askers : WF_allVars(AskerStep(a))

-----------------------------------------------------------------------------
(* An entry that says Running belongs to a discussion whose loop is alive: no
   user is refused a discussion, or has a message put into one, because of one
   that is over, however stops, ends and new discussions interleave.  (What a
   conductor resets is the Running of its own state, not that of the entry.) *)
RunningEntryHasLoop == table # NoDisc /\ running[table] => loop[table] # "off"

(* Every discussion ends, whatever the LLM and the devices do and however often
   the user asks for more rounds, also one whose entry a racing stop removed, so
   that no later stop reaches it. *)
EveryDiscussionEnds == \A d \in Discs : loop[d] # "off" ~> loop[d] = "off"

(* A user who has stopped starting discussions does not write into a meeting
   for ever: no interleaving leaves a meeting that has no end. *)
MeetingIsLeft ==
  <>[](\A h \in Handlers : at[h] \notin {"enter", "start"})
    => <>[](\A h \in Handlers : at[h] # "meeting")
=============================================================================
