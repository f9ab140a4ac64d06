--------------------------- MODULE SessionService ---------------------------
(***************************************************************************)
(* The Hub's view of one remote coding session                             *)
(* (hub/internal/session/service.go): the cached entry, the row in the     *)
(* sessions table, and the debounced stream of output lines to listeners.  *)
(* The session's messages come from the connections of its machine, each   *)
(* of which handles one message at a time; timers, the reaper and the      *)
(* clean-up of a lost connection run beside them.                          *)
(*                                                                         *)
(* Every message with output brings one line, numbered in the order in     *)
(* which the cache receives them; the preview that cache and row keep of   *)
(* them is left out, so a write of the preview only succeeds or fails.     *)
(* The maps of the service are keyed by session and one session is         *)
(* modelled; what the others of its machine do to it, that the clean-up of *)
(* a connection never comes to it, is OfflineAborts.                       *)
(***************************************************************************)
EXTENDS Naturals, Sequences, SequencesExt

CONSTANTS
  Conns,      \* connections of the session's machine
  Reported,   \* statuses a session.created or session.summary carries
  Final,      \* statuses a session.closed carries
  Terminal,   \* terminalStatuses
  MaxLines,   \* bounds of the model: lines of output,
  MaxCreates, \* session.created messages,
  MaxCloses   \* and session.closed messages

ASSUME SessionAssumption ==
  /\ Terminal \subseteq Reported \cup Final /\ "exited" \in Terminal
  /\ MaxLines \in Nat /\ MaxCreates \in Nat /\ MaxCloses \in Nat

VARIABLES
  entry,     \* the cached entry; status "absent" when there is none
  row,       \* status in the row; "absent" before its INSERT
  buf,       \* deltaDebounceBuf
  timer,     \* deltaDebounceTimers: "none", "armed", or "fired" (its
             \* callback runs but has not taken the lock)
  loose,     \* armed timers that the map has forgotten
  callbacks, \* callbacks of timers, waiting for the lock
  hands,     \* lines that flushes have taken and not yet emitted
  shown,     \* lines that listeners received
  unsaved,   \* lines given up because the database refused the preview
  refused,   \* some write of the status failed or found no row
  count,     \* lines, session.created and session.closed messages so far
  pc,        \* where the handler of each connection is
  work       \* its local variables

streamVars == <<buf, timer, loose, callbacks, hands, shown>>
vars == <<entry, row, refused, streamVars, unsaved, count, pc, work>>

Absent == [status |-> "absent", host |-> FALSE]
NoWork == [status |-> "absent", lines |-> <<>>]

Init ==
  /\ entry = Absent /\ row = "absent" /\ refused = FALSE
  /\ buf = <<>> /\ timer = "none" /\ loose = 0 /\ callbacks = 0
  /\ hands = {} /\ shown = <<>> /\ unsaved = {}
  /\ count = [lines |-> 0, creates |-> 0, closes |-> 0]
  /\ pc = [c \in Conns |-> "idle"]
  /\ work = [c \in Conns |-> NoWork]

Goto(c, label) == pc' = [pc EXCEPT ![c] = label]
Keep(c, w)     == work' = [work EXCEPT ![c] = w]
Done(c)        == Goto(c, "idle") /\ Keep(c, NoWork)

(* ShardedCache.Modify starts from the entry, or from a fresh one.         *)
Fresh  == [status |-> "", host |-> TRUE]
Cached == IF entry = Absent THEN Fresh ELSE entry

(* An UPDATE of a row that does not exist changes nothing and succeeds.    *)
UpdateRow(st) ==
  \/ row # "absent" /\ row' = st /\ refused' = refused
  \/ row = "absent" /\ row' = row /\ refused' = TRUE

WriteFails == row' = row /\ refused' = TRUE

-----------------------------------------------------------------------------
(* session.created, also sent again for every session of a desktop that    *)
(* reconnects: a new entry replaces the cached one ...                     *)
Created(c, st) ==
  /\ pc[c] = "idle" /\ count.creates < MaxCreates
  /\ count' = [count EXCEPT !.creates = @ + 1]
  /\ entry' = [Fresh EXCEPT !.status = st]
  /\ Goto(c, "create") /\ Keep(c, [NoWork EXCEPT !.status = st])
  /\ UNCHANGED <<row, refused, streamVars, unsaved>>

(* ... and the INSERT fails for a session that has a row.                  *)
CreateRow(c) ==
  /\ pc[c] = "create"
  /\ \/ row = "absent" /\ row' = work[c].status /\ refused' = refused
     \/ row # "absent" /\ UNCHANGED <<row, refused>>
     \/ WriteFails
  /\ Done(c)
  /\ UNCHANGED <<entry, streamVars, unsaved, count>>

-----------------------------------------------------------------------------
(* Mutant of FinalStatus: the reported status always wins.                 *)
ReportedStatus(st) == st

(* session.summary: a late one does not revive an exited session ...       *)
FinalStatus(st) ==
  IF Cached.status = "exited" /\ st # "error" THEN "exited" ELSE st

Summary(c, st) ==
  /\ pc[c] = "idle"
  /\ entry' = [Cached EXCEPT !.status = FinalStatus(st), !.host = TRUE]
  /\ Goto(c, "summary") /\ Keep(c, [NoWork EXCEPT !.status = FinalStatus(st)])
  /\ UNCHANGED <<row, refused, streamVars, unsaved, count>>

(* ... and the row follows.                                                *)
SaveSummary(c) ==
  /\ pc[c] = "summary"
  /\ UpdateRow(work[c].status) \/ WriteFails
  /\ Done(c)
  /\ UNCHANGED <<entry, streamVars, unsaved, count>>

(* session.important_event: only the entry's host state is modelled.       *)
Important(c) ==
  /\ pc[c] = "idle"
  /\ entry' = [Cached EXCEPT !.host = TRUE]
  /\ UNCHANGED <<row, refused, streamVars, unsaved, count, pc, work>>

-----------------------------------------------------------------------------
(* session.preview_delta: the cache first ...                              *)
Delta(c) ==
  LET line == count.lines + 1
  IN /\ pc[c] = "idle" /\ count.lines < MaxLines
     /\ count' = [count EXCEPT !.lines = line]
     /\ entry' = [Cached EXCEPT !.host = TRUE]
     /\ Goto(c, "delta") /\ Keep(c, [NoWork EXCEPT !.lines = <<line>>])
     /\ UNCHANGED <<row, refused, streamVars, unsaved>>

(* ... then the database, unless it was written less than two seconds ago; *)
(* if that fails the handler returns and the line is not streamed ...      *)
SavePreview(c) ==
  /\ pc[c] = "delta"
  /\ Goto(c, "buffer")
  /\ UNCHANGED <<entry, row, refused, streamVars, unsaved, count, work>>

SavePreviewFails(c) ==
  /\ pc[c] = "delta"
  /\ unsaved' = unsaved \cup ToSet(work[c].lines)
  /\ Done(c)
  /\ UNCHANGED <<entry, row, refused, streamVars, count>>

(* Mutant of Buffer: the pending delta is replaced, not extended.          *)
BufferLatest(c) ==
  /\ pc[c] = "buffer"
  /\ buf' = work[c].lines
  /\ timer' = "armed"
  /\ Done(c)
  /\ UNCHANGED <<entry, row, refused, loose, callbacks, hands, shown, unsaved, count>>

(* ... then the debounce buffer, whose timer is stopped and started anew.  *)
(* Stop does not recall a callback that is already running.                *)
Buffer(c) ==
  /\ pc[c] = "buffer"
  /\ buf' = buf \o work[c].lines
  /\ timer' = "armed"
  /\ Done(c)
  /\ UNCHANGED <<entry, row, refused, loose, callbacks, hands, shown, unsaved, count>>

(* The debounce interval is over: the timer in the map, or one that the    *)
(* map has lost, starts its callback ...                                   *)
Fire ==
  /\ \/ timer = "armed" /\ timer' = "fired" /\ loose' = loose
     \/ loose > 0 /\ loose' = loose - 1 /\ timer' = timer
  /\ callbacks' = callbacks + 1
  /\ UNCHANGED <<entry, row, refused, buf, hands, shown, unsaved, count, pc, work>>

(* ... which takes the buffer and the map entry, even one of a newer timer *)
FlushTake ==
  /\ callbacks > 0 /\ callbacks' = callbacks - 1
  /\ hands' = IF buf = <<>> THEN hands ELSE hands \cup {buf}
  /\ buf' = <<>>
  /\ timer' = "none" /\ loose' = IF timer = "armed" THEN loose + 1 ELSE loose
  /\ UNCHANGED <<entry, row, refused, shown, unsaved, count, pc, work>>

(* ... and emits what it took after it released the lock.                  *)
FlushEmit ==
  \E h \in hands :
    /\ hands' = hands \ {h} /\ shown' = shown \o h
    /\ UNCHANGED <<entry, row, refused, buf, timer, loose, callbacks, unsaved, count, pc, work>>

-----------------------------------------------------------------------------
(* session.closed: the entry ...                                           *)
Close(c, st) ==
  /\ pc[c] = "idle" /\ count.closes < MaxCloses
  /\ count' = [count EXCEPT !.closes = @ + 1]
  /\ entry' = [Cached EXCEPT !.status = st]
  /\ Goto(c, "end") /\ Keep(c, [NoWork EXCEPT !.status = st])
  /\ UNCHANGED <<row, refused, streamVars, unsaved>>

(* ... the preview, whose failure is ignored, and the row; if that fails   *)
(* nothing is flushed or emitted ...                                       *)
CloseRow(c) ==
  /\ pc[c] = "end"
  /\ \/ UpdateRow(work[c].status) /\ Goto(c, "take") /\ work' = work
     \/ WriteFails /\ Done(c)
  /\ UNCHANGED <<entry, streamVars, unsaved, count>>

(* Mutant of CloseTakes: the timer is stopped but the buffer left.         *)
CloseOnlyStops(c) ==
  /\ pc[c] = "take"
  /\ timer' = "none"
  /\ Goto(c, "final") /\ Keep(c, [NoWork EXCEPT !.status = work[c].status])
  /\ UNCHANGED <<entry, row, refused, buf, loose, callbacks, hands, shown, unsaved, count>>

(* ... takes the pending lines and stops the timer ...                     *)
CloseTakes(c) ==
  /\ pc[c] = "take"
  /\ buf' = <<>> /\ timer' = "none"
  /\ Goto(c, "final") /\ Keep(c, [work[c] EXCEPT !.lines = buf])
  /\ UNCHANGED <<entry, row, refused, loose, callbacks, hands, shown, unsaved, count>>

(* ... and emits them, and then the end.                                   *)
CloseEmits(c) ==
  /\ pc[c] = "final"
  /\ shown' = shown \o work[c].lines
  /\ Done(c)
  /\ UNCHANGED <<entry, row, refused, buf, timer, loose, callbacks, hands, unsaved, count>>

-----------------------------------------------------------------------------
(* The clean-up of a lost connection, MarkMachineOffline: it collects the  *)
(* machine's sessions first, in no certain order ...                       *)
CollectSessions(c) ==
  /\ pc[c] = "idle"
  /\ Goto(c, IF entry = Absent THEN "gone" ELSE "offline")
  /\ UNCHANGED <<entry, row, refused, streamVars, unsaved, count, work>>

(* ... a write that fails for one that comes before this session ends the  *)
(* loop and nobody takes it up again ...                                   *)
OfflineAborts(c) ==
  /\ pc[c] = "offline"
  /\ Goto(c, "cut")
  /\ UNCHANGED <<entry, row, refused, streamVars, unsaved, count, work>>

(* Mutant of MarkOffline: exited sessions are skipped.                     *)
MarkRunningOffline(c) ==
  LET exited == Cached.status = "exited"
  IN /\ pc[c] = "offline"
     /\ entry' = IF exited THEN Cached
                 ELSE [Cached EXCEPT !.status = "unreachable", !.host = FALSE]
     /\ Goto(c, IF exited THEN "gone" ELSE "unreach")
     /\ Keep(c, [NoWork EXCEPT !.status = IF exited THEN @ ELSE "unreachable"])
     /\ UNCHANGED <<row, refused, streamVars, unsaved, count>>

(* ... marks each unreachable, which brings back an entry that the reaper  *)
(* took meanwhile ...                                                      *)
OfflineStatus == IF Cached.status = "exited" THEN "exited" ELSE "unreachable"

MarkOffline(c) ==
  /\ pc[c] = "offline"
  /\ entry' = [Cached EXCEPT !.status = OfflineStatus, !.host = FALSE]
  /\ Goto(c, "unreach") /\ Keep(c, [NoWork EXCEPT !.status = OfflineStatus])
  /\ UNCHANGED <<row, refused, streamVars, unsaved, count>>

(* Mutant of SaveOffline: only host_online is written.                     *)
SaveHostOnline(c) ==
  /\ pc[c] = "unreach"
  /\ UNCHANGED <<row, refused>>
  /\ Goto(c, "gone") /\ Keep(c, NoWork)
  /\ UNCHANGED <<entry, streamVars, unsaved, count>>

(* ... and so the rows.                                                    *)
SaveOffline(c) ==
  /\ pc[c] = "unreach"
  /\ UpdateRow(work[c].status) \/ WriteFails
  /\ Goto(c, "gone") /\ Keep(c, NoWork)
  /\ UNCHANGED <<entry, streamVars, unsaved, count>>

(* The reaper drops an entry that has been terminal for five minutes.  No  *)
(* handler takes that long; a clean-up that writes the rows of many        *)
(* sessions may.                                                           *)
Reap ==
  /\ entry # Absent /\ entry.status \in Terminal
  /\ \A c \in Conns : pc[c] \in {"idle", "offline", "gone", "cut"}
  /\ entry' = Absent
  /\ UNCHANGED <<row, refused, streamVars, unsaved, count, pc, work>>

-----------------------------------------------------------------------------
Message(c) ==
  \/ \E st \in Reported : Created(c, st) \/ Summary(c, st)
  \/ \E st \in Final : Close(c, st)
  \/ Important(c) \/ Delta(c) \/ CollectSessions(c)

Step(c) ==
  \/ CreateRow(c) \/ SaveSummary(c)
  \/ SavePreview(c) \/ SavePreviewFails(c) \/ Buffer(c)
  \/ CloseRow(c) \/ CloseTakes(c) \/ CloseEmits(c)
  \/ OfflineAborts(c) \/ MarkOffline(c) \/ SaveOffline(c)

Next ==
  \/ \E c \in Conns : Message(c) \/ Step(c)
  \/ Fire \/ FlushTake \/ FlushEmit \/ Reap

Spec == Init /\ [][Next]_vars

(* Handlers run to their end, timers fire and their callbacks run.         *)
FairSpec ==
  /\ Spec
  /\ \A c \in Conns : WF_vars(Step(c))
  /\ WF_vars(Fire) /\ WF_vars(FlushTake) /\ WF_vars(FlushEmit)

-----------------------------------------------------------------------------
Lines    == 1 .. count.lines
Statuses == Reported \cup Final \cup {"", "absent", "unreachable", "exited"}

TypeOK ==
  /\ entry \in [status : Statuses, host : BOOLEAN] /\ row \in Statuses
  /\ buf \in Seq(Lines) /\ shown \in Seq(Lines)
  /\ timer \in {"none", "armed", "fired"} /\ loose \in Nat /\ callbacks \in Nat
  /\ hands \subseteq Seq(Lines) /\ unsaved \subseteq Lines /\ refused \in BOOLEAN
  /\ count \in [lines : Nat, creates : Nat, closes : Nat]
  /\ pc \in [Conns -> {"idle", "create", "summary", "delta", "buffer", "end",
                       "take", "final", "offline", "unreach", "gone", "cut"}]
  /\ work \in [Conns -> [status : Statuses, lines : Seq(Lines)]]

(* Where the lines are on their way from the cache to the listeners.       *)
Carriers ==
  {<<"listeners", shown>>, <<"buffer", buf>>}
    \cup {<<"flush", h>> : h \in hands}
    \cup {<<"handler", work[c].lines, c>> : c \in Conns}

Carried(s) == Range(s[2])

(* Every line of output is in exactly one place and once: still with its   *)
(* handler, in the buffer, in the hands of a flush or of OnSessionClosed,  *)
(* shown to the listeners, or given up with a database error.  None is     *)
(* lost or shown twice however deltas, flushes and the end of the session  *)
(* interleave (OnSessionPreviewDelta, flushDebouncedDelta,                 *)
(* OnSessionClosed).                                                       *)
LinesAccounted ==
  /\ \A s \in Carriers : IsInjective(s[2]) /\ Carried(s) \cap unsaved = {}
  /\ \A s, t \in Carriers : s # t => Carried(s) \cap Carried(t) = {}
  /\ (UNION {Carried(s) : s \in Carriers}) \cup unsaved = Lines

(* An exited session is not revived by late summaries or by the clean-up   *)
(* of its machine's connection: only session.created or session.closed,    *)
(* or the loss of the entry to the reaper, change that                     *)
(* (OnSessionSummary, MarkMachineOffline).                                 *)
ExitIsFinal ==
  [][entry.status = "exited" /\ entry'.status \notin {"exited", "error", "absent"}
     => count'.creates > count.creates \/ count'.closes > count.closes]_vars

(* An entry whose host is online has a connection whose clean-up is still  *)
(* to say otherwise, unless one was cut short by a failed write of another *)
(* session: the only way in which a session of a machine that is gone      *)
(* stays online (MarkMachineOffline, whose error cleanupConnection         *)
(* ignores).                                                               *)
OnlineHostHasConnection ==
  entry.host /\ (\A c \in Conns : pc[c] # "cut") =>
    \E c \in Conns : pc[c] \notin {"unreach", "gone"}

(* When the clean-up of every connection of the machine came to this       *)
(* session, no write of its row failed and the reaper has not dropped the  *)
(* entry, the row does not say that the session is running: whichever      *)
(* handlers overlapped, the last clean-up has the last word                *)
(* (MarkMachineOffline, OnSessionSummary, OnSessionClosed).                *)
RowSettles ==
  (\A c \in Conns : pc[c] = "gone") /\ ~refused /\ entry # Absent =>
    row \in {"exited", "absent", "unreachable"}

(* Every line is shown in the end, or its database write failed            *)
(* (deltaDebounceInterval).                                                *)
EveryLineShown ==
  \A n \in 1 .. MaxLines :
    n \in Lines ~> n \in Range(shown) \cup unsaved
=============================================================================
