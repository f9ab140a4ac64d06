------------------------------ MODULE HubPreview ------------------------------
(***************************************************************************)
(* How the output of a session reaches the Hub (gui/remote_hub_client.go): *)
(* lines are queued and flushed by a ticker, and every connect announces   *)
(* the session again and resends its whole preview.                        *)
(*                                                                         *)
(* Connections come and go as HubClient describes; here only that they do: *)
(* Connect, Break, and the two halves of a loss (a loss stops the flusher, *)
(* then takes the connection away), at any moment and several at a time.   *)
(***************************************************************************)
EXTENDS Integers

CONSTANTS
  MaxConns,   \* bound on connects; they are numbered in order
  MaxLosses,  \* bound on losses and disconnects
  MaxLines    \* bound on the lines the session prints

ASSUME HubPreviewAssumption == MaxConns \in Nat /\ MaxLosses \in Nat /\ MaxLines \in Nat

Conns == 1 .. MaxConns
Lines == 1 .. MaxLines

Sync(n)  == <<"sync", n>>    \* the goroutines that Connect number n starts
Flush(n) == <<"flush", n>>
Senders  == {"sync", "flush"} \X Conns

VARIABLES
  link,      \* what the client holds: "none", "open" or "broken" connection
  opened,    \* connects so far
  starting,  \* connects that have not started their flusher yet
  losses,    \* losses so far
  dropping,  \* losses that have stopped the flusher, not yet dropped the link
  flusher,   \* whose ticker and stop channel the client holds, 0 for no one's
  told,      \* flushers with a value in their stop channel
  step,      \* [Senders -> the step it is at]
  hand,      \* [Senders -> lines taken from pending, not sent yet]
  pending,   \* c.previewPending
  printed,   \* s.Preview.PreviewLines holds the lines 1 .. printed
  queueing,  \* lines in the preview that the output loop has yet to queue
  shown      \* the lines the Hub holds for the session

linkVars  == <<link, opened, starting, losses, dropping>>
flushVars == <<flusher, told>>
lineVars  == <<hand, pending, printed, queueing, shown>>
previewVars == <<linkVars, flushVars, step, lineVars>>

PreviewInit ==
  /\ link = "none" /\ opened = 0 /\ starting = {} /\ losses = 0 /\ dropping = 0
  /\ flusher = 0 /\ told = {}
  /\ step = [p \in Senders |-> "none"]
  /\ hand = [p \in Senders |-> {}]
  /\ pending = {} /\ printed = 0 /\ queueing = {} /\ shown = {}

At(p, from) == step[p] = from
GoTo(p, to) == step' = [step EXCEPT ![p] = to]

-----------------------------------------------------------------------------
(* Connections. *)

(* The sync starts at once, the flusher last. *)
Connect ==
  /\ opened < MaxConns
  /\ opened' = opened + 1 /\ link' = "open"
  /\ starting' = starting \cup {opened'}
  /\ GoTo(Sync(opened'), "created")
  /\ UNCHANGED <<losses, dropping, flushVars, lineVars>>

(* Mutant of StartFlusher: a ticker that is there is kept. *)
StartFlusherOnce(n) ==
  /\ n \in starting
  /\ starting' = starting \ {n}
  /\ flusher' = IF flusher = 0 THEN n ELSE flusher
  /\ GoTo(Flush(n), "tick")
  /\ UNCHANGED <<link, opened, losses, dropping, told, lineVars>>

(* startPreviewFlusher replaces ticker and stop channel: the flusher they
   belonged to never ticks again. *)
StartFlusher(n) ==
  /\ n \in starting
  /\ starting' = starting \ {n}
  /\ flusher' = n
  /\ GoTo(Flush(n), "tick")
  /\ UNCHANGED <<link, opened, losses, dropping, told, lineVars>>

Break ==
  /\ link = "open" /\ link' = "broken"
  /\ UNCHANGED <<opened, starting, losses, dropping, flushVars, step, lineVars>>

(* handleConnectionLoss and Disconnect begin with stopPreviewFlusher. *)
StopFlusher ==
  /\ losses < MaxLosses
  /\ losses' = losses + 1 /\ dropping' = dropping + 1
  /\ told' = IF flusher = 0 THEN told ELSE told \cup {flusher}
  /\ UNCHANGED <<link, opened, starting, flusher, step, lineVars>>

Drop ==
  /\ dropping > 0
  /\ dropping' = dropping - 1 /\ link' = "none"
  /\ UNCHANGED <<opened, starting, losses, flushVars, step, lineVars>>

-----------------------------------------------------------------------------
(* The session's output loop keeps a line in the preview, ... *)
OutputLine ==
  /\ queueing = {} /\ printed < MaxLines
  /\ printed' = printed + 1 /\ queueing' = {printed'}
  /\ UNCHANGED <<linkVars, flushVars, step, hand, pending, shown>>

(* ... then queues it for the Hub (SendPreviewDelta). *)
Queue ==
  /\ queueing # {}
  /\ pending' = pending \cup queueing /\ queueing' = {}
  /\ UNCHANGED <<linkVars, flushVars, step, hand, printed, shown>>

(* SyncSessions announces the session: the Hub starts an empty view of it. *)
Announce(n) ==
  /\ At(Sync(n), "created") /\ GoTo(Sync(n), "preview")
  /\ shown' = IF link = "open" THEN {} ELSE shown
  /\ UNCHANGED <<linkVars, flushVars, hand, pending, printed, queueing>>

(* ... then queues the whole preview, and flushes. *)
Resend(n) ==
  /\ At(Sync(n), "preview") /\ GoTo(Sync(n), "flush")
  /\ pending' = pending \cup 1 .. printed
  /\ UNCHANGED <<linkVars, flushVars, hand, printed, queueing, shown>>

-----------------------------------------------------------------------------
(* flushPreviewDeltas takes what is pending under previewMu ... *)
Take(p, to) ==
  /\ hand' = [hand EXCEPT ![p] = pending] /\ pending' = {}
  /\ GoTo(p, to)
  /\ UNCHANGED <<linkVars, flusher, printed, queueing, shown>>

Tick(n) ==
  /\ At(Flush(n), "tick") /\ flusher = n /\ pending # {}
  /\ Take(Flush(n), "send")
  /\ UNCHANGED told

FlusherStops(n) ==
  /\ At(Flush(n), "tick") /\ n \in told
  /\ told' = told \ {n}
  /\ Take(Flush(n), "lastsend")

SyncFlushes(n) ==
  /\ At(Sync(n), "flush")
  /\ Take(Sync(n), "lastsend")
  /\ UNCHANGED told

(* Mutant of Send: the map is emptied after the writes, not when taken. *)
SendClears(p) ==
  /\ step[p] \in {"send", "lastsend"}
  /\ shown' = IF link = "open" THEN shown \cup hand[p] ELSE shown
  /\ hand' = [hand EXCEPT ![p] = {}] /\ pending' = {}
  /\ GoTo(p, IF step[p] = "send" THEN "tick" ELSE "over")
  /\ UNCHANGED <<linkVars, flushVars, printed, queueing>>

(* ... and writes it under c.mu; without a connection it is dropped. *)
Send(p) ==
  /\ step[p] \in {"send", "lastsend"}
  /\ shown' = IF link = "open" THEN shown \cup hand[p] ELSE shown
  /\ hand' = [hand EXCEPT ![p] = {}]
  /\ GoTo(p, IF step[p] = "send" THEN "tick" ELSE "over")
  /\ UNCHANGED <<linkVars, flushVars, pending, printed, queueing>>

-----------------------------------------------------------------------------
SyncStep(n)  == Announce(n) \/ Resend(n) \/ SyncFlushes(n) \/ Send(Sync(n))
FlushStep(n) == Tick(n) \/ FlusherStops(n) \/ Send(Flush(n))

PreviewNext ==
  \/ Connect \/ Break \/ StopFlusher \/ Drop
  \/ OutputLine \/ Queue
  \/ \E n \in Conns : StartFlusher(n) \/ SyncStep(n) \/ FlushStep(n)

PreviewSpec == PreviewInit /\ [][PreviewNext]_previewVars

(* Goroutines are scheduled and a ticker ticks; nothing obliges the program
   to print or the network to last. *)
PreviewFairSpec ==
  /\ PreviewSpec
  /\ WF_previewVars(Queue) /\ WF_previewVars(Drop)
  /\ \A n \in Conns : /\ WF_previewVars(StartFlusher(n))
                      /\ WF_previewVars(SyncStep(n)) /\ WF_previewVars(FlushStep(n))

-----------------------------------------------------------------------------
(* The lines that are on their way to the Hub. *)
OnTheWay == queueing \cup pending \cup UNION {hand[p] : p \in Senders}

(* While the connection is good, every line of the session is shown, on its
   way, or about to be resent by a sync: a reconnect in the middle of a flush,
   a late announcement or a second sync forgets none. *)
NoLineForgotten ==
  link = "open" =>
    \/ \E n \in Conns : step[Sync(n)] \in {"created", "preview"}
    \/ 1 .. printed \subseteq shown \cup OnTheWay

(* Once the connection lasts, the Hub comes to show every line, the ones
   printed while there was no connection included. *)
AllLinesArrive ==
  <>[](link = "open") => []<>(1 .. printed \subseteq shown)
=============================================================================
