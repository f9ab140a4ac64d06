------------------------ MODULE SessionService_proofs ------------------------
(***************************************************************************)
(* Theorems about the session service, for any number of connections, any  *)
(* statuses and any bounds.                                                *)
(***************************************************************************)
EXTENDS SessionService, SequenceTheorems, TLAPS

-----------------------------------------------------------------------------
(* What a concatenation carries.                                           *)
LEMMA CarriesNothing ==
  Range(<<>>) = {} /\ IsInjective(<<>>)
BY DEF Range, IsInjective

LEMMA CarriesOne ==
  ASSUME NEW n
  PROVE  Range(<<n>>) = {n} /\ IsInjective(<<n>>)
BY DEF Range, IsInjective

LEMMA CarriesOnce ==
  ASSUME NEW s \in Seq(Nat), NEW t \in Seq(Nat),
         IsInjective(s), IsInjective(t), Range(s) \cap Range(t) = {}
  PROVE  IsInjective(s \o t)
<1> DEFINE u == s \o t
<1>1. /\ u \in Seq(Nat) /\ Len(s) \in Nat /\ Len(t) \in Nat
      /\ Len(u) = Len(s) + Len(t)
      /\ \A i \in 1..(Len(s) + Len(t)) :
           u[i] = IF i <= Len(s) THEN s[i] ELSE t[i - Len(s)]
  BY ConcatProperties
<1>2. /\ DOMAIN u = 1..(Len(s) + Len(t))
      /\ DOMAIN s = 1..Len(s) /\ DOMAIN t = 1..Len(t)
  BY <1>1
<1> HIDE DEF u
<1>3. ASSUME NEW i \in DOMAIN u
      PROVE  \/ i \in DOMAIN s /\ u[i] = s[i] /\ u[i] \in Range(s)
             \/ i - Len(s) \in DOMAIN t /\ u[i] = t[i - Len(s)] /\ u[i] \in Range(t)
  <2>1. CASE i <= Len(s)
    BY <1>1, <1>2, <2>1 DEF Range
  <2>2. CASE ~(i <= Len(s))
    <3>1. i - Len(s) \in DOMAIN t /\ u[i] = t[i - Len(s)]
      BY <1>1, <1>2, <2>2
    <3> QED BY <3>1 DEF Range
  <2> QED BY <2>1, <2>2
<1>4. ASSUME NEW i \in DOMAIN u, NEW j \in DOMAIN u, u[i] = u[j] PROVE i = j
  <2>1. CASE i \in DOMAIN s /\ j \in DOMAIN s /\ u[i] = s[i] /\ u[j] = s[j]
    BY <1>4, <2>1 DEF IsInjective
  <2>2. CASE /\ i - Len(s) \in DOMAIN t /\ j - Len(s) \in DOMAIN t
             /\ u[i] = t[i - Len(s)] /\ u[j] = t[j - Len(s)]
    <3>1. i - Len(s) = j - Len(s)
      BY <1>4, <2>2 DEF IsInjective
    <3> QED BY <3>1, <1>1, <1>2
  <2> QED BY <1>3, <1>4, <2>1, <2>2
<1> QED BY <1>4 DEF IsInjective, u

-----------------------------------------------------------------------------
(* Types, and a handler has lines only while it deals with a delta or with *)
(* what OnSessionClosed took from the buffer.                              *)
Labels == {"idle", "create", "summary", "delta", "buffer", "end",
           "take", "final", "offline", "unreach", "gone", "cut"}

Work == [status : Statuses, lines : Seq(Nat)]

Fits(label, w) ==
  /\ label \notin {"delta", "buffer", "final"} => w.lines = <<>>
  /\ label = "unreach" => w.status \in {"exited", "unreachable"}

TypedHandlers ==
  /\ pc \in [Conns -> Labels] /\ work \in [Conns -> Work]
  /\ \A c \in Conns : Fits(pc[c], work[c])

TypedData ==
  /\ entry \in [status : Statuses, host : BOOLEAN] /\ row \in Statuses
  /\ buf \in Seq(Nat) /\ shown \in Seq(Nat)
  /\ timer \in {"none", "armed", "fired"} /\ loose \in Nat /\ callbacks \in Nat
  /\ hands \subseteq Seq(Nat) /\ unsaved \subseteq Nat /\ refused \in BOOLEAN
  /\ count \in [lines : Nat, creates : Nat, closes : Nat]

Typed == TypedData /\ TypedHandlers

LEMMA TypedInit == Init => Typed
<1> SUFFICES ASSUME Init PROVE Typed
  OBVIOUS
<1>1. TypedData
  <2>1. entry \in [status : Statuses, host : BOOLEAN] /\ row \in Statuses
    BY DEF Init, Absent, Statuses
  <2>2. count \in [lines : Nat, creates : Nat, closes : Nat]
    BY DEF Init
  <2>3. <<>> \in Seq(Nat)
    OBVIOUS
  <2> QED BY <2>1, <2>2, <2>3 DEF Init, TypedData
<1>2. TypedHandlers
  BY DEF Init, TypedHandlers, Fits, Work, Labels, NoWork, Statuses
<1> QED BY <1>1, <1>2 DEF Typed

LEMMA CachedTyped ==
  ASSUME Typed
  PROVE  Cached \in [status : Statuses, host : BOOLEAN]
BY DEF Typed, TypedData, Cached, Fresh, Statuses

LEMMA Counting ==
  ASSUME Typed, NEW f \in {"lines", "creates", "closes"},
         count' = [count EXCEPT ![f] = count[f] + 1]
  PROVE  count' \in [lines : Nat, creates : Nat, closes : Nat]
<1>1. count \in [lines : Nat, creates : Nat, closes : Nat]
  BY DEF Typed, TypedData
<1> QED BY <1>1

LEMMA HandlersMove ==
  ASSUME Typed, NEW c \in Conns, NEW label \in Labels, NEW w \in Work,
         Goto(c, label), Keep(c, w), Fits(label, w)
  PROVE  TypedHandlers'
BY DEF Typed, TypedHandlers, Goto, Keep

LEMMA HandlerDone ==
  ASSUME Typed, NEW c \in Conns, Done(c)
  PROVE  TypedHandlers'
<1>1. "idle" \in Labels /\ NoWork \in Work /\ Fits("idle", NoWork)
  BY DEF Labels, NoWork, Work, Fits, Statuses
<1> QED BY <1>1, HandlersMove DEF Done

LEMMA HandlerRecords ==
  ASSUME Typed, NEW c \in Conns, NEW st \in Statuses, NEW label \in Labels,
         label \notin {"delta", "buffer", "final"},
         label = "unreach" => st \in {"exited", "unreachable"},
         Goto(c, label), Keep(c, [NoWork EXCEPT !.status = st])
  PROVE  TypedHandlers'
<1> DEFINE w == [NoWork EXCEPT !.status = st]
<1>1. w = [status |-> st, lines |-> <<>>]
  BY DEF NoWork
<1>2. w \in Work /\ Fits(label, w)
  <2>1. <<>> \in Seq(Nat) /\ w.status = st /\ w.lines = <<>>
    BY <1>1
  <2>2. w \in Work
    BY <1>1, <2>1 DEF Work
  <2> QED BY <2>1, <2>2 DEF Fits
<1> HIDE DEF w
<1>3. Goto(c, label) /\ Keep(c, w)
  BY DEF w
<1> QED BY <1>2, <1>3, HandlersMove

LEMMA TypedMessage ==
  ASSUME Typed, NEW c \in Conns, Message(c)
  PROVE  Typed'
<1>0. Cached \in [status : Statuses, host : BOOLEAN]
  BY CachedTyped
<1>1. ASSUME NEW st \in Reported, Created(c, st) PROVE Typed'
  <2>4. entry' \in [status : Statuses, host : BOOLEAN]
    BY <1>1 DEF Created, Fresh, Statuses
  <2>5. count' \in [lines : Nat, creates : Nat, closes : Nat]
    BY <1>1, Counting DEF Created
  <2>1. TypedData'
    BY <1>1, <2>4, <2>5 DEF Created, Typed, TypedData, streamVars
  <2>2. st \in Statuses /\ "create" \in Labels
    BY DEF Statuses, Labels
  <2>3. TypedHandlers'
    BY <1>1, <2>2, HandlerRecords DEF Created
  <2> QED BY <2>1, <2>3 DEF Typed
<1>2. ASSUME NEW st \in Reported, Summary(c, st) PROVE Typed'
  <2>1. FinalStatus(st) \in Statuses /\ "summary" \in Labels
    BY DEF FinalStatus, Statuses, Labels
  <2>2. TypedData'
    BY <1>0, <1>2, <2>1 DEF Summary, Typed, TypedData, streamVars
  <2>3. TypedHandlers'
    BY <1>2, <2>1, HandlerRecords DEF Summary
  <2> QED BY <2>2, <2>3 DEF Typed
<1>3. ASSUME NEW st \in Final, Close(c, st) PROVE Typed'
  <2>1. st \in Statuses /\ "end" \in Labels
    BY DEF Statuses, Labels
  <2>6. entry' \in [status : Statuses, host : BOOLEAN]
    BY <1>0, <1>3, <2>1 DEF Close
  <2>7. count' \in [lines : Nat, creates : Nat, closes : Nat]
    BY <1>3, Counting DEF Close
  <2>2. TypedData'
    BY <1>3, <2>6, <2>7 DEF Close, Typed, TypedData, streamVars
  <2>3. TypedHandlers'
    BY <1>3, <2>1, HandlerRecords DEF Close
  <2> QED BY <2>2, <2>3 DEF Typed
<1>4. CASE Important(c)
  BY <1>0, <1>4 DEF Important, Typed, TypedData, TypedHandlers, streamVars
<1>5. CASE Delta(c)
  <2> DEFINE w == [NoWork EXCEPT !.lines = <<count.lines + 1>>]
  <2>0. count.lines \in Nat /\ <<count.lines + 1>> \in Seq(Nat)
    BY DEF Typed, TypedData
  <2>1. w = [status |-> "absent", lines |-> <<count.lines + 1>>]
    BY DEF NoWork
  <2>5. "delta" \in Labels /\ w \in Work /\ Fits("delta", w)
    BY <2>0, <2>1 DEF Labels, Work, Fits, Statuses
  <2>2. Goto(c, "delta") /\ Keep(c, w)
    BY <1>5 DEF Delta
  <2> HIDE DEF w
  <2>3. TypedHandlers'
    BY <2>5, <2>2, HandlersMove
  <2>6. entry' \in [status : Statuses, host : BOOLEAN]
    BY <1>0, <1>5 DEF Delta
  <2>7. count' \in [lines : Nat, creates : Nat, closes : Nat]
    BY <1>5, Counting DEF Delta
  <2>4. TypedData'
    BY <1>5, <2>6, <2>7 DEF Delta, Typed, TypedData, streamVars
  <2> QED BY <2>3, <2>4 DEF Typed
<1>6. CASE CollectSessions(c)
  <2>1. TypedData'
    BY <1>6 DEF CollectSessions, Typed, TypedData, streamVars
  <2>2. TypedHandlers'
    BY <1>6 DEF CollectSessions, Typed, TypedHandlers, Goto, Fits, Labels
  <2> QED BY <2>1, <2>2 DEF Typed
<1> QED BY <1>1, <1>2, <1>3, <1>4, <1>5, <1>6 DEF Message

LEMMA TypedStep ==
  ASSUME Typed, NEW c \in Conns, Step(c)
  PROVE  Typed'
<1>0. /\ Cached \in [status : Statuses, host : BOOLEAN]
      /\ work[c] \in Work /\ work[c].status \in Statuses /\ work[c].lines \in Seq(Nat)
  BY CachedTyped DEF Typed, TypedHandlers, Work
<1>1. CASE CreateRow(c)
  <2>1. TypedData'
    BY <1>0, <1>1 DEF CreateRow, WriteFails, Typed, TypedData, streamVars
  <2> QED BY <1>1, <2>1, HandlerDone DEF CreateRow, Typed
<1>2. CASE SaveSummary(c)
  <2>1. TypedData'
    BY <1>0, <1>2 DEF SaveSummary, UpdateRow, WriteFails, Typed, TypedData, streamVars
  <2> QED BY <1>2, <2>1, HandlerDone DEF SaveSummary, Typed
<1>3. CASE SavePreview(c)
  <2>1. TypedData'
    BY <1>3 DEF SavePreview, Typed, TypedData, streamVars
  <2>2. TypedHandlers'
    BY <1>3 DEF SavePreview, Typed, TypedHandlers, Goto, Fits, Labels
  <2> QED BY <2>1, <2>2 DEF Typed
<1>4. CASE SavePreviewFails(c)
  <2>1. Range(work[c].lines) \subseteq Nat /\ ToSet(work[c].lines) = Range(work[c].lines)
    BY <1>0, RangeOfSeq DEF ToSet, Range
  <2>2. TypedData'
    BY <1>4, <2>1 DEF SavePreviewFails, Typed, TypedData, streamVars
  <2> QED BY <1>4, <2>2, HandlerDone DEF SavePreviewFails, Typed
<1>5. CASE Buffer(c)
  <2>1. TypedData'
    BY <1>0, <1>5 DEF Buffer, Typed, TypedData
  <2> QED BY <1>5, <2>1, HandlerDone DEF Buffer, Typed
<1>6. CASE CloseRow(c)
  <2>1. TypedData'
    BY <1>0, <1>6 DEF CloseRow, UpdateRow, WriteFails, Typed, TypedData, streamVars
  <2>2. CASE Goto(c, "take") /\ work' = work
    <3>1. TypedHandlers'
      BY <1>6, <2>2 DEF CloseRow, Typed, TypedHandlers, Goto, Fits, Labels
    <3> QED BY <2>1, <3>1 DEF Typed
  <2> QED BY <1>6, <2>1, <2>2, HandlerDone DEF CloseRow, Typed
<1>7. CASE CloseTakes(c)
  <2> DEFINE w == [work[c] EXCEPT !.lines = buf]
  <2>1. "final" \in Labels /\ w \in Work /\ Fits("final", w)
    BY <1>0 DEF Labels, Work, Fits, Typed, TypedData
  <2>2. Goto(c, "final") /\ Keep(c, w)
    BY <1>7 DEF CloseTakes
  <2> HIDE DEF w
  <2>3. TypedHandlers'
    BY <2>1, <2>2, HandlersMove
  <2>4. TypedData'
    BY <1>7 DEF CloseTakes, Typed, TypedData
  <2> QED BY <2>3, <2>4 DEF Typed
<1>8. CASE CloseEmits(c)
  <2>1. TypedData'
    BY <1>0, <1>8 DEF CloseEmits, Typed, TypedData
  <2> QED BY <1>8, <2>1, HandlerDone DEF CloseEmits, Typed
<1>9. CASE MarkOffline(c)
  <2>1. OfflineStatus \in Statuses \cap {"exited", "unreachable"} /\ "unreach" \in Labels
    BY DEF OfflineStatus, Statuses, Labels
  <2>2. TypedData'
    BY <1>0, <1>9, <2>1 DEF MarkOffline, Typed, TypedData, streamVars
  <2>3. TypedHandlers'
    BY <1>9, <2>1, HandlerRecords DEF MarkOffline
  <2> QED BY <2>2, <2>3 DEF Typed
<1>10. CASE SaveOffline(c)
  <2>1. "gone" \in Labels /\ NoWork \in Work /\ Fits("gone", NoWork)
    BY DEF Labels, NoWork, Work, Fits, Statuses
  <2>2. TypedData'
    BY <1>0, <1>10 DEF SaveOffline, UpdateRow, WriteFails, Typed, TypedData, streamVars
  <2> QED BY <1>10, <2>1, <2>2, HandlersMove DEF SaveOffline, Typed
<1>11. CASE OfflineAborts(c)
  <2>1. TypedData'
    BY <1>11 DEF OfflineAborts, Typed, TypedData, streamVars
  <2>2. TypedHandlers'
    BY <1>11 DEF OfflineAborts, Typed, TypedHandlers, Goto, Fits, Labels
  <2> QED BY <2>1, <2>2 DEF Typed
<1> QED BY <1>1, <1>2, <1>3, <1>4, <1>5, <1>6, <1>7, <1>8, <1>9, <1>10, <1>11 DEF Step

LEMMA TypedNext == Typed /\ [Next]_vars => Typed'
<1> SUFFICES ASSUME Typed, [Next]_vars PROVE Typed'
  OBVIOUS
<1>1. CASE Fire
  BY <1>1 DEF Fire, Typed, TypedData, TypedHandlers
<1>2. CASE FlushTake
  BY <1>2 DEF FlushTake, Typed, TypedData, TypedHandlers
<1>3. CASE FlushEmit
  BY <1>3 DEF FlushEmit, Typed, TypedData, TypedHandlers
<1>4. CASE Reap
  BY <1>4 DEF Reap, Typed, TypedData, TypedHandlers, Absent, Statuses, streamVars
<1>5. CASE UNCHANGED vars
  BY <1>5 DEF vars, streamVars, Typed, TypedData, TypedHandlers
<1> QED BY <1>1, <1>2, <1>3, <1>4, <1>5, TypedMessage, TypedStep DEF Next

(* Every reachable state is typed, and a handler holds lines only while it *)
(* deals with a delta or with what OnSessionClosed took from the buffer.   *)
THEOREM Types == Spec => []Typed
BY TypedInit, TypedNext, PTL DEF Spec

-----------------------------------------------------------------------------
(* A step of a handler that leaves its connection open, or its clean-up    *)
(* cut short, keeps both promises about the clean-ups to come.             *)
LEMMA StillOpen ==
  ASSUME Typed, NEW c \in Conns, NEW label,
         label \notin {"unreach", "gone"}, Goto(c, label)
  PROVE  OnlineHostHasConnection' /\ RowSettles'
<1>1. pc'[c] = label
  BY DEF Typed, TypedHandlers, Goto
<1> QED BY <1>1 DEF OnlineHostHasConnection, RowSettles

LEMMA CleanupStep ==
  ASSUME Typed, OnlineHostHasConnection, RowSettles, [Next]_vars
  PROVE  OnlineHostHasConnection' /\ RowSettles'
<1>1. ASSUME NEW c \in Conns, Message(c) PROVE OnlineHostHasConnection' /\ RowSettles'
  <2>1. ASSUME NEW st \in Reported, Created(c, st) \/ Summary(c, st)
        PROVE  OnlineHostHasConnection' /\ RowSettles'
    BY <2>1, StillOpen DEF Created, Summary
  <2>2. ASSUME NEW st \in Final, Close(c, st)
        PROVE  OnlineHostHasConnection' /\ RowSettles'
    BY <2>2, StillOpen DEF Close
  <2>3. CASE Important(c)
    <3>1. pc'[c] = "idle"
      BY <2>3 DEF Important
    <3> QED BY <3>1 DEF OnlineHostHasConnection, RowSettles
  <2>4. CASE Delta(c)
    BY <2>4, StillOpen DEF Delta
  <2>5. CASE CollectSessions(c)
    <3>1. CASE entry = Absent
      BY <2>5, <3>1 DEF CollectSessions, OnlineHostHasConnection, RowSettles, Absent
    <3>2. CASE entry # Absent
      BY <2>5, <3>2, StillOpen DEF CollectSessions
    <3> QED BY <3>1, <3>2
  <2> QED BY <1>1, <2>1, <2>2, <2>3, <2>4, <2>5 DEF Message
<1>2. ASSUME NEW c \in Conns, Step(c) PROVE OnlineHostHasConnection' /\ RowSettles'
  <2>1. CASE CreateRow(c) \/ SaveSummary(c) \/ SavePreviewFails(c) \/ Buffer(c) \/ CloseEmits(c)
    BY <2>1, StillOpen DEF CreateRow, SaveSummary, SavePreviewFails, Buffer, CloseEmits, Done
  <2>2. CASE SavePreview(c) \/ CloseRow(c) \/ CloseTakes(c) \/ OfflineAborts(c)
    BY <2>2, StillOpen DEF SavePreview, CloseRow, CloseTakes, OfflineAborts, Done
  <2>3. CASE MarkOffline(c)
    <3>1. pc'[c] = "unreach"
      BY <2>3 DEF MarkOffline, Goto, Typed, TypedHandlers
    <3>2. entry'.host = FALSE
      BY <2>3, CachedTyped DEF MarkOffline
    <3> QED BY <3>1, <3>2 DEF OnlineHostHasConnection, RowSettles
  <2>4. CASE SaveOffline(c)
    <3>1. OnlineHostHasConnection'
      <4>1. /\ \A d \in Conns : pc[d] \notin {"unreach", "gone"} => pc'[d] = pc[d]
            /\ \A d \in Conns : pc[d] = "cut" => pc'[d] = "cut"
        BY <2>4 DEF SaveOffline, Goto, Typed, TypedHandlers
      <4>2. entry' = entry
        BY <2>4 DEF SaveOffline
      <4> QED BY <4>1, <4>2 DEF OnlineHostHasConnection
    <3>2. work[c].status \in {"exited", "unreachable"}
      BY <2>4 DEF SaveOffline, Typed, TypedHandlers, Fits
    <3>3. RowSettles'
      BY <2>4, <3>2 DEF SaveOffline, UpdateRow, WriteFails, RowSettles
    <3> QED BY <3>1, <3>3
  <2> QED BY <1>2, <2>1, <2>2, <2>3, <2>4 DEF Step
<1>3. CASE Fire \/ FlushTake \/ FlushEmit
  BY <1>3 DEF Fire, FlushTake, FlushEmit, OnlineHostHasConnection, RowSettles
<1>4. CASE Reap
  BY <1>4 DEF Reap, Absent, OnlineHostHasConnection, RowSettles
<1>5. CASE UNCHANGED vars
  BY <1>5 DEF vars, OnlineHostHasConnection, RowSettles
<1> QED BY <1>1, <1>2, <1>3, <1>4, <1>5 DEF Next

LEMMA CleanupInit == Init => OnlineHostHasConnection /\ RowSettles
BY DEF Init, Absent, OnlineHostHasConnection, RowSettles

(* The clean-up of the last connection has the last word on the entry's    *)
(* host state, for any number of connections: an entry says online when    *)
(* every connection is gone only if a clean-up was cut short by a failed   *)
(* write of another session and never came to this one                     *)
(* (MarkMachineOffline).                                                   *)
THEOREM HostWitnessed == Spec => []OnlineHostHasConnection
BY CleanupInit, CleanupStep, TypedInit, TypedNext, PTL DEF Spec

(* ... and on the row, unless the reaper took the entry or a write failed  *)
(* (MarkMachineOffline, OnSessionSummary, OnSessionClosed).                *)
THEOREM RowSettled == Spec => []RowSettles
BY CleanupInit, CleanupStep, TypedInit, TypedNext, PTL DEF Spec

-----------------------------------------------------------------------------
LEMMA ExitStep ==
  ASSUME Typed, [Next]_vars, entry.status = "exited",
         entry'.status \notin {"exited", "error", "absent"}
  PROVE  count'.creates > count.creates \/ count'.closes > count.closes
<1>1. /\ Cached = entry /\ entry \in [status : Statuses, host : BOOLEAN]
      /\ count \in [lines : Nat, creates : Nat, closes : Nat]
  BY DEF Cached, Absent, Typed, TypedData
<1>2. ASSUME NEW c \in Conns, Message(c)
      PROVE  count'.creates > count.creates \/ count'.closes > count.closes
  <2>1. ASSUME NEW st \in Reported, Created(c, st)
        PROVE  count'.creates > count.creates
    BY <1>1, <2>1 DEF Created
  <2>2. ASSUME NEW st \in Reported, Summary(c, st) PROVE FALSE
    <3>1. entry'.status = FinalStatus(st)
      BY <1>1, <2>2 DEF Summary
    <3>2. FinalStatus(st) = "exited" \/ FinalStatus(st) = "error"
      BY <1>1 DEF FinalStatus
    <3> QED BY <3>1, <3>2
  <2>3. ASSUME NEW st \in Final, Close(c, st)
        PROVE  count'.closes > count.closes
    BY <1>1, <2>3 DEF Close
  <2>4. CASE Important(c) \/ Delta(c)
    <3>1. entry'.status = entry.status
      BY <1>1, <2>4 DEF Important, Delta
    <3> QED BY <3>1
  <2>5. CASE CollectSessions(c)
    BY <2>5 DEF CollectSessions
  <2> QED BY <1>2, <2>1, <2>2, <2>3, <2>4, <2>5 DEF Message
<1>3. ASSUME NEW c \in Conns, Step(c) PROVE FALSE
  <2>1. CASE MarkOffline(c)
    <3>1. entry'.status = OfflineStatus
      BY <1>1, <2>1 DEF MarkOffline
    <3> QED BY <1>1, <3>1 DEF OfflineStatus
  <2>2. CASE ~MarkOffline(c)
    <3>1. entry' = entry
      BY <1>3, <2>2 DEF Step, CreateRow, SaveSummary, SavePreview, SavePreviewFails, Buffer,
                        CloseRow, CloseTakes, CloseEmits, OfflineAborts, SaveOffline
    <3> QED BY <3>1
  <2> QED BY <2>1, <2>2
<1>4. CASE Fire \/ FlushTake \/ FlushEmit \/ UNCHANGED vars
  BY <1>4 DEF Fire, FlushTake, FlushEmit, vars
<1>5. CASE Reap
  BY <1>5 DEF Reap, Absent
<1> QED BY <1>2, <1>3, <1>4, <1>5 DEF Next

(* Nothing but session.created, session.closed or the reaper ends the      *)
(* exited state of a cached session, whatever messages and clean-ups are   *)
(* on their way (OnSessionSummary, MarkMachineOffline).                    *)
THEOREM ExitStays == Spec => ExitIsFinal
<1>1. Typed /\ [Next]_vars =>
        [entry.status = "exited" /\ entry'.status \notin {"exited", "error", "absent"}
          => count'.creates > count.creates \/ count'.closes > count.closes]_vars
  BY ExitStep
<1> QED BY <1>1, TypedInit, TypedNext, PTL DEF Spec, ExitIsFinal

-----------------------------------------------------------------------------
(* LinesAccounted place by place.                                          *)
Held(c) == Range(work[c].lines)

Once ==
  /\ IsInjective(shown) /\ IsInjective(buf)
  /\ \A h \in hands : IsInjective(h)
  /\ \A c \in Conns : IsInjective(work[c].lines)

ApartFromShown ==
  /\ Range(shown) \cap Range(buf) = {} /\ Range(shown) \cap unsaved = {}
  /\ \A h \in hands : Range(h) \cap Range(shown) = {}
  /\ \A c \in Conns : Held(c) \cap Range(shown) = {}

ApartFromBuffer ==
  /\ Range(buf) \cap unsaved = {}
  /\ \A h \in hands : Range(h) \cap Range(buf) = {}
  /\ \A c \in Conns : Held(c) \cap Range(buf) = {}

ApartFromHands ==
  /\ \A h \in hands : Range(h) \cap unsaved = {}
  /\ \A h, g \in hands : h # g => Range(h) \cap Range(g) = {}
  /\ \A h \in hands, c \in Conns : Range(h) \cap Held(c) = {}

ApartFromHandlers ==
  /\ \A c \in Conns : Held(c) \cap unsaved = {}
  /\ \A c, d \in Conns : c # d => Held(c) \cap Held(d) = {}

Apart == ApartFromShown /\ ApartFromBuffer /\ ApartFromHands /\ ApartFromHandlers

InHands == UNION {Range(h) : h \in hands}
InHandlers == UNION {Held(c) : c \in Conns}
Complete == Range(shown) \cup Range(buf) \cup InHands \cup InHandlers \cup unsaved = Lines

Accounted == Once /\ Apart /\ Complete

LEMMA AccountedInit == Init => Accounted
<1> SUFFICES ASSUME Init PROVE Accounted
  OBVIOUS
<1>1. \A c \in Conns : work[c].lines = <<>>
  BY DEF Init, NoWork
<1>2. \A c \in Conns : Held(c) = {}
  BY <1>1, CarriesNothing DEF Held
<1>3. Range(shown) = {} /\ Range(buf) = {} /\ hands = {} /\ unsaved = {}
  BY CarriesNothing DEF Init
<1>4. Once
  BY <1>1, CarriesNothing DEF Init, Once
<1>5. Apart
  BY <1>2, <1>3 DEF Apart, ApartFromShown, ApartFromBuffer, ApartFromHands, ApartFromHandlers
<1>6. InHands = {} /\ InHandlers = {}
  BY <1>2, <1>3 DEF InHands, InHandlers
<1>7. Lines = {}
  BY DEF Init, Lines
<1>8. Complete
  BY <1>3, <1>6, <1>7 DEF Complete
<1> QED BY <1>4, <1>5, <1>8 DEF Accounted

(* Steps that leave the lines where they are.                              *)
LEMMA LinesStay ==
  ASSUME Accounted, UNCHANGED <<buf, hands, shown, unsaved>>,
         count'.lines = count.lines,
         \A c \in Conns : work'[c].lines = work[c].lines
  PROVE  Accounted'
<1>1. \A c \in Conns : Held(c)' = Held(c)
  BY DEF Held
<1>2. Once'
  BY DEF Accounted, Once
<1>3. Apart'
  BY <1>1 DEF Accounted, Apart, ApartFromShown, ApartFromBuffer, ApartFromHands, ApartFromHandlers
<1>4. InHands' = InHands /\ InHandlers' = InHandlers /\ Lines' = Lines
  BY <1>1 DEF InHands, InHandlers, Lines
<1>5. Complete'
  BY <1>4 DEF Accounted, Complete
<1> QED BY <1>2, <1>3, <1>5 DEF Accounted

(* What becomes of the handlers' lines when one of them moves on.          *)
LEMMA HandlersKeep ==
  ASSUME Typed, NEW c \in Conns, NEW w, Keep(c, w)
  PROVE  /\ work'[c] = w
         /\ \A d \in Conns : d # c => work'[d] = work[d]
BY DEF Typed, TypedHandlers, Keep

LEMMA HandlerEmptied ==
  ASSUME Typed, NEW c \in Conns, Done(c)
  PROVE  /\ work'[c].lines = <<>> /\ Held(c)' = {}
         /\ \A d \in Conns : d # c => work'[d].lines = work[d].lines /\ Held(d)' = Held(d)
         /\ InHandlers = InHandlers' \cup Held(c)
<1>1. work'[c] = NoWork /\ \A d \in Conns : d # c => work'[d] = work[d]
  BY HandlersKeep DEF Done
<1>2. work'[c].lines = <<>> /\ Held(c)' = {}
  BY <1>1, CarriesNothing DEF Held, NoWork
<1>3. \A d \in Conns : d # c => work'[d].lines = work[d].lines /\ Held(d)' = Held(d)
  BY <1>1 DEF Held
<1>4. InHandlers = InHandlers' \cup Held(c)
  BY <1>2, <1>3 DEF InHandlers
<1> QED BY <1>2, <1>3, <1>4

LEMMA DeltaAccounted ==
  ASSUME Typed, Accounted, NEW c \in Conns, Delta(c)
  PROVE  Accounted'
<1> DEFINE n == count.lines + 1
<1>1. n \in Nat /\ n \notin Lines /\ Lines' = Lines \cup {n}
  BY DEF Delta, Typed, TypedData, Lines
<1>2. Keep(c, [NoWork EXCEPT !.lines = <<n>>]) /\ UNCHANGED <<buf, hands, shown, unsaved>>
  BY DEF Delta, streamVars
<1>3. work[c].lines = <<>> /\ Held(c) = {}
  BY CarriesNothing DEF Delta, Typed, TypedHandlers, Fits, Held
<1> HIDE DEF n
<1>4. /\ work'[c].lines = <<n>> /\ Held(c)' = {n}
      /\ \A d \in Conns : d # c => work'[d].lines = work[d].lines /\ Held(d)' = Held(d)
  <2>1. /\ work'[c] = [NoWork EXCEPT !.lines = <<n>>]
        /\ \A d \in Conns : d # c => work'[d] = work[d]
    BY <1>2, HandlersKeep
  <2>2. work'[c].lines = <<n>>
    BY <2>1 DEF NoWork
  <2> QED BY <2>1, <2>2, CarriesOne DEF Held
<1>5. InHandlers' = InHandlers \cup {n}
  BY <1>3, <1>4 DEF InHandlers
<1>6. /\ n \notin Range(shown) /\ n \notin Range(buf) /\ n \notin unsaved
      /\ \A h \in hands : n \notin Range(h)
      /\ \A d \in Conns : n \notin Held(d)
  BY <1>1 DEF Accounted, Complete, InHands, InHandlers
<1>7. Once'
  BY <1>2, <1>4, CarriesOne DEF Accounted, Once
<1>8. Apart'
  BY <1>2, <1>4, <1>6 DEF Accounted, Apart, ApartFromShown, ApartFromBuffer, ApartFromHands, ApartFromHandlers
<1>9. Complete'
  <2>1. InHands' = InHands
    BY <1>2 DEF InHands
  <2> QED BY <1>1, <1>2, <1>5, <2>1 DEF Accounted, Complete
<1> QED BY <1>7, <1>8, <1>9 DEF Accounted

LEMMA SavePreviewFailsAccounted ==
  ASSUME Typed, Accounted, NEW c \in Conns, SavePreviewFails(c)
  PROVE  Accounted'
<1>1. unsaved' = unsaved \cup Held(c) /\ UNCHANGED <<buf, hands, shown, count>> /\ Done(c)
  <2>1. ToSet(work[c].lines) = Held(c)
    BY DEF ToSet, Range, Held
  <2> QED BY <2>1 DEF SavePreviewFails, streamVars
<1>2. Once'
  BY <1>1, HandlerEmptied, CarriesNothing DEF Accounted, Once
<1>3. Apart'
  BY <1>1, HandlerEmptied DEF Accounted, Apart, ApartFromShown, ApartFromBuffer, ApartFromHands, ApartFromHandlers
<1>4. Complete'
  <2>1. InHands' = InHands /\ Lines' = Lines
    BY <1>1 DEF InHands, Lines
  <2> QED BY <1>1, <2>1, HandlerEmptied DEF Accounted, Complete
<1> QED BY <1>2, <1>3, <1>4 DEF Accounted

LEMMA BufferAccounted ==
  ASSUME Typed, Accounted, NEW c \in Conns, Buffer(c)
  PROVE  Accounted'
<1>1. buf' = buf \o work[c].lines /\ UNCHANGED <<hands, shown, unsaved, count>> /\ Done(c)
  BY DEF Buffer
<1>2. buf \in Seq(Nat) /\ work[c].lines \in Seq(Nat)
  BY DEF Typed, TypedData, TypedHandlers, Work
<1>3. Range(buf') = Range(buf) \cup Held(c)
  BY <1>1, <1>2, RangeConcatenation DEF Held
<1>4. IsInjective(buf')
  BY <1>1, <1>2, CarriesOnce DEF Accounted, Once, Apart, ApartFromBuffer, Held
<1>5. Once'
  BY <1>1, <1>4, HandlerEmptied, CarriesNothing DEF Accounted, Once
<1>6. Apart'
  BY <1>1, <1>3, HandlerEmptied DEF Accounted, Apart, ApartFromShown, ApartFromBuffer, ApartFromHands, ApartFromHandlers
<1>7. Complete'
  <2>1. InHands' = InHands /\ Lines' = Lines
    BY <1>1 DEF InHands, Lines
  <2> QED BY <1>1, <1>3, <2>1, HandlerEmptied DEF Accounted, Complete
<1> QED BY <1>5, <1>6, <1>7 DEF Accounted

LEMMA CloseEmitsAccounted ==
  ASSUME Typed, Accounted, NEW c \in Conns, CloseEmits(c)
  PROVE  Accounted'
<1>1. shown' = shown \o work[c].lines /\ UNCHANGED <<hands, buf, unsaved, count>> /\ Done(c)
  BY DEF CloseEmits
<1>2. shown \in Seq(Nat) /\ work[c].lines \in Seq(Nat)
  BY DEF Typed, TypedData, TypedHandlers, Work
<1>3. Range(shown') = Range(shown) \cup Held(c)
  BY <1>1, <1>2, RangeConcatenation DEF Held
<1>4. IsInjective(shown')
  BY <1>1, <1>2, CarriesOnce DEF Accounted, Once, Apart, ApartFromShown, Held
<1>5. Once'
  BY <1>1, <1>4, HandlerEmptied, CarriesNothing DEF Accounted, Once
<1>6. Apart'
  BY <1>1, <1>3, HandlerEmptied DEF Accounted, Apart, ApartFromShown, ApartFromBuffer, ApartFromHands, ApartFromHandlers
<1>7. Complete'
  <2>1. InHands' = InHands /\ Lines' = Lines
    BY <1>1 DEF InHands, Lines
  <2> QED BY <1>1, <1>3, <2>1, HandlerEmptied DEF Accounted, Complete
<1> QED BY <1>5, <1>6, <1>7 DEF Accounted

LEMMA CloseTakesAccounted ==
  ASSUME Typed, Accounted, NEW c \in Conns, CloseTakes(c)
  PROVE  Accounted'
<1>1. /\ buf' = <<>> /\ UNCHANGED <<hands, shown, unsaved, count>>
      /\ Keep(c, [work[c] EXCEPT !.lines = buf])
  BY DEF CloseTakes
<1>2. work[c].lines = <<>> /\ work[c] \in Work /\ Held(c) = {}
  BY CarriesNothing DEF CloseTakes, Typed, TypedHandlers, Fits, Held
<1>3. /\ work'[c].lines = buf /\ Held(c)' = Range(buf)
      /\ \A d \in Conns : d # c => work'[d].lines = work[d].lines /\ Held(d)' = Held(d)
  <2>1. /\ work'[c] = [work[c] EXCEPT !.lines = buf]
        /\ \A d \in Conns : d # c => work'[d] = work[d]
    BY <1>1, HandlersKeep
  <2>2. work'[c].lines = buf
    BY <1>2, <2>1 DEF Work
  <2> QED BY <2>1, <2>2 DEF Held
<1>4. Range(buf') = {} /\ IsInjective(buf')
  BY <1>1, CarriesNothing
<1>5. Once'
  BY <1>1, <1>3, <1>4 DEF Accounted, Once
<1>6. Apart'
  BY <1>1, <1>3, <1>4 DEF Accounted, Apart, ApartFromShown, ApartFromBuffer, ApartFromHands, ApartFromHandlers
<1>7. Complete'
  <2>1. InHands' = InHands /\ Lines' = Lines
    BY <1>1 DEF InHands, Lines
  <2>2. InHandlers' = InHandlers \cup Range(buf)
    BY <1>2, <1>3 DEF InHandlers
  <2> QED BY <1>1, <1>4, <2>1, <2>2 DEF Accounted, Complete
<1> QED BY <1>5, <1>6, <1>7 DEF Accounted

LEMMA FlushAccounted ==
  ASSUME Typed, Accounted, FlushTake \/ FlushEmit
  PROVE  Accounted'
<1>1. \A c \in Conns : work'[c] = work[c] /\ Held(c)' = Held(c)
  BY DEF FlushTake, FlushEmit, Held
<1>2. InHandlers' = InHandlers /\ Lines' = Lines /\ unsaved' = unsaved
  BY <1>1 DEF InHandlers, Lines, FlushTake, FlushEmit
<1>3. CASE FlushTake
  <2>1. buf' = <<>> /\ Range(buf') = {} /\ IsInjective(buf') /\ shown' = shown
    BY <1>3, CarriesNothing DEF FlushTake
  <2>2. \A h \in hands' : h \in hands \/ h = buf
    BY <1>3 DEF FlushTake
  <2>3. InHands' = InHands \cup Range(buf)
    <3>1. CASE buf = <<>>
      BY <1>3, <3>1, CarriesNothing DEF FlushTake, InHands
    <3>2. CASE buf # <<>>
      BY <1>3, <3>2 DEF FlushTake, InHands
    <3> QED BY <3>1, <3>2
  <2>4. Once'
    BY <1>1, <2>1, <2>2 DEF Accounted, Once
  <2>5. Apart'
    BY <1>1, <1>2, <2>1, <2>2 DEF Accounted, Apart, ApartFromShown, ApartFromBuffer, ApartFromHands, ApartFromHandlers
  <2>6. Complete'
    BY <1>2, <2>1, <2>3 DEF Accounted, Complete
  <2> QED BY <2>4, <2>5, <2>6 DEF Accounted
<1>4. CASE FlushEmit
  <2>1. PICK h \in hands : hands' = hands \ {h} /\ shown' = shown \o h /\ buf' = buf
    BY <1>4 DEF FlushEmit
  <2>2. shown \in Seq(Nat) /\ h \in Seq(Nat)
    BY DEF Typed, TypedData
  <2>3. Range(shown') = Range(shown) \cup Range(h)
    BY <2>1, <2>2, RangeConcatenation
  <2>4. IsInjective(shown')
    BY <2>1, <2>2, CarriesOnce DEF Accounted, Once, Apart, ApartFromShown
  <2>5. InHands = InHands' \cup Range(h)
    BY <2>1 DEF InHands
  <2>6. Once'
    BY <1>1, <2>1, <2>4 DEF Accounted, Once
  <2>7. Apart'
    BY <1>1, <1>2, <2>1, <2>3 DEF Accounted, Apart, ApartFromShown, ApartFromBuffer, ApartFromHands, ApartFromHandlers
  <2>8. Complete'
    BY <1>2, <2>1, <2>3, <2>5 DEF Accounted, Complete
  <2> QED BY <2>6, <2>7, <2>8 DEF Accounted
<1> QED BY <1>3, <1>4

(* The other steps move no line: their handler holds none before and after *)
LEMMA QuietHandler ==
  ASSUME Typed, NEW c \in Conns, NEW w, Keep(c, w),
         work[c].lines = <<>>, w.lines = <<>>
  PROVE  \A d \in Conns : work'[d].lines = work[d].lines
BY HandlersKeep

LEMMA QuietMessage ==
  ASSUME Typed, Accounted, NEW c \in Conns, Message(c), ~Delta(c)
  PROVE  Accounted'
<1>1. UNCHANGED <<buf, hands, shown, unsaved>> /\ count'.lines = count.lines
  BY DEF Message, Created, Summary, Close, Important, CollectSessions,
         streamVars, Typed, TypedData
<1>2. pc[c] = "idle"
  BY DEF Message, Created, Summary, Close, Important, CollectSessions
<1>3. work[c].lines = <<>>
  BY <1>2 DEF Typed, TypedHandlers, Fits
<1>4. \A d \in Conns : work'[d].lines = work[d].lines
  <2>1. CASE work' = work
    BY <2>1
  <2>2. ASSUME NEW st, Keep(c, [NoWork EXCEPT !.status = st])
        PROVE  \A d \in Conns : work'[d].lines = work[d].lines
    <3>1. [NoWork EXCEPT !.status = st].lines = <<>>
      BY DEF NoWork
    <3> QED BY <1>3, <2>2, <3>1, QuietHandler
  <2> QED BY <2>1, <2>2 DEF Message, Created, Summary, Close, Important, CollectSessions
<1> QED BY <1>1, <1>4, LinesStay

LEMMA QuietStep ==
  ASSUME Typed, Accounted, NEW c \in Conns,
         \/ CreateRow(c) \/ SaveSummary(c) \/ SavePreview(c)
         \/ CloseRow(c) \/ OfflineAborts(c) \/ MarkOffline(c) \/ SaveOffline(c)
  PROVE  Accounted'
<1>1. UNCHANGED <<buf, hands, shown, unsaved, count>>
  BY DEF CreateRow, SaveSummary, SavePreview, CloseRow, OfflineAborts, MarkOffline, SaveOffline, streamVars
<1>2. CASE work' = work
  BY <1>1, <1>2, LinesStay
<1>3. CASE work' # work
  <2>1. work[c].lines = <<>>
    BY <1>3 DEF CreateRow, SaveSummary, SavePreview, CloseRow, OfflineAborts, MarkOffline, SaveOffline,
                Typed, TypedHandlers, Fits
  <2>2. ASSUME NEW st, Keep(c, [NoWork EXCEPT !.status = st]) PROVE Accounted'
    <3>1. [NoWork EXCEPT !.status = st].lines = <<>>
      BY DEF NoWork
    <3> QED BY <1>1, <2>1, <2>2, <3>1, QuietHandler, LinesStay
  <2>3. CASE Keep(c, NoWork)
    <3>1. NoWork.lines = <<>>
      BY DEF NoWork
    <3> QED BY <1>1, <2>1, <2>3, <3>1, QuietHandler, LinesStay
  <2> QED BY <1>3, <2>2, <2>3
          DEF CreateRow, SaveSummary, SavePreview, CloseRow, OfflineAborts, MarkOffline, SaveOffline, Done
<1> QED BY <1>2, <1>3

LEMMA AccountedNext == Typed /\ Accounted /\ [Next]_vars => Accounted'
<1> SUFFICES ASSUME Typed, Accounted, [Next]_vars PROVE Accounted'
  OBVIOUS
<1>1. ASSUME NEW c \in Conns, Message(c) PROVE Accounted'
  BY <1>1, QuietMessage, DeltaAccounted
<1>2. ASSUME NEW c \in Conns, Step(c) PROVE Accounted'
  BY <1>2, QuietStep, SavePreviewFailsAccounted, BufferAccounted, CloseTakesAccounted,
     CloseEmitsAccounted DEF Step
<1>3. CASE FlushTake \/ FlushEmit
  BY <1>3, FlushAccounted
<1>4. CASE Fire \/ Reap \/ UNCHANGED vars
  <2>1. UNCHANGED <<buf, hands, shown, unsaved, count, work>>
    BY <1>4 DEF Fire, Reap, vars, streamVars
  <2> QED BY <2>1, LinesStay
<1> QED BY <1>1, <1>2, <1>3, <1>4 DEF Next

(* The places of Accounted are the carriers of LinesAccounted.             *)
LEMMA CarriersAccounted == Accounted => LinesAccounted
<1> SUFFICES ASSUME Accounted PROVE LinesAccounted
  OBVIOUS
<1>1. \A s \in Carriers :
        \/ s = <<"listeners", shown>>
        \/ s = <<"buffer", buf>>
        \/ \E h \in hands : s = <<"flush", h>>
        \/ \E c \in Conns : s = <<"handler", work[c].lines, c>>
  BY DEF Carriers
<1>2. \A s \in Carriers :
        \/ s = <<"listeners", shown>> /\ s[2] = shown /\ Carried(s) = Range(shown)
        \/ s = <<"buffer", buf>> /\ s[2] = buf /\ Carried(s) = Range(buf)
        \/ \E h \in hands : s = <<"flush", h>> /\ s[2] = h /\ Carried(s) = Range(h)
        \/ \E c \in Conns : s = <<"handler", work[c].lines, c>> /\ s[2] = work[c].lines
                              /\ Carried(s) = Held(c)
  BY <1>1 DEF Carried, Held
<1>3. \A s \in Carriers : IsInjective(s[2]) /\ Carried(s) \cap unsaved = {}
  BY <1>2 DEF Accounted, Once, Apart, ApartFromShown, ApartFromBuffer, ApartFromHands, ApartFromHandlers
<1>4. \A s, t \in Carriers : s # t => Carried(s) \cap Carried(t) = {}
  BY <1>2 DEF Accounted, Apart, ApartFromShown, ApartFromBuffer, ApartFromHands, ApartFromHandlers
<1>5. UNION {Carried(s) : s \in Carriers} = Range(shown) \cup Range(buf) \cup InHands \cup InHandlers
  <2>1. \A s \in Carriers : Carried(s) \subseteq Range(shown) \cup Range(buf) \cup InHands \cup InHandlers
    BY <1>2 DEF InHands, InHandlers
  <2>2. Range(shown) \subseteq UNION {Carried(s) : s \in Carriers}
    <3>1. <<"listeners", shown>> \in Carriers /\ Carried(<<"listeners", shown>>) = Range(shown)
      BY DEF Carriers, Carried
    <3> QED BY <3>1
  <2>3. Range(buf) \subseteq UNION {Carried(s) : s \in Carriers}
    <3>1. <<"buffer", buf>> \in Carriers /\ Carried(<<"buffer", buf>>) = Range(buf)
      BY DEF Carriers, Carried
    <3> QED BY <3>1
  <2>4. InHands \subseteq UNION {Carried(s) : s \in Carriers}
    <3>1. \A h \in hands : <<"flush", h>> \in Carriers /\ Carried(<<"flush", h>>) = Range(h)
      BY DEF Carriers, Carried
    <3> QED BY <3>1 DEF InHands
  <2>5. InHandlers \subseteq UNION {Carried(s) : s \in Carriers}
    <3>1. \A c \in Conns : /\ <<"handler", work[c].lines, c>> \in Carriers
                            /\ Carried(<<"handler", work[c].lines, c>>) = Held(c)
      BY DEF Carriers, Carried, Held
    <3> QED BY <3>1 DEF InHandlers
  <2> QED BY <2>1, <2>2, <2>3, <2>4, <2>5
<1>6. (UNION {Carried(s) : s \in Carriers}) \cup unsaved = Lines
  BY <1>5 DEF Accounted, Complete
<1> QED BY <1>3, <1>4, <1>6 DEF LinesAccounted

(* No line of output is lost, repeated or in two places, for any number of *)
(* connections, lines and overlapping flushes and ends of the session      *)
(* (OnSessionPreviewDelta, flushDebouncedDelta, OnSessionClosed).          *)
THEOREM LinesKept == Spec => []LinesAccounted
BY AccountedInit, AccountedNext, CarriersAccounted, TypedInit, TypedNext, PTL DEF Spec

-----------------------------------------------------------------------------
LEMMA OnlyLines ==
  ASSUME NEW s \in Seq(Nat), Range(s) \subseteq Lines
  PROVE  s \in Seq(Lines)
BY SeqOfRange, SeqMonotonic

LEMMA TypesRefined == Typed /\ Accounted => TypeOK
<1> SUFFICES ASSUME Typed, Accounted PROVE TypeOK
  OBVIOUS
<1>1. buf \in Seq(Lines) /\ shown \in Seq(Lines) /\ unsaved \subseteq Lines
  BY OnlyLines DEF Accounted, Complete, Typed, TypedData
<1>2. hands \subseteq Seq(Lines)
  BY OnlyLines DEF Accounted, Complete, InHands, Typed, TypedData
<1>3. work \in [Conns -> [status : Statuses, lines : Seq(Lines)]]
  <2>1. \A c \in Conns : work[c].lines \in Seq(Lines)
    BY OnlyLines DEF Accounted, Complete, InHandlers, Held, Typed, TypedHandlers, Work
  <2> QED BY <2>1 DEF Typed, TypedHandlers, Work
<1> QED BY <1>1, <1>2, <1>3 DEF Typed, TypedData, TypedHandlers, Labels, TypeOK

(* Type correctness: among other things, whatever is buffered, in flight   *)
(* or shown was sent (service.go).                                         *)
THEOREM TypeCorrect == Spec => []TypeOK
BY AccountedInit, AccountedNext, TypesRefined, TypedInit, TypedNext, PTL DEF Spec
=============================================================================
