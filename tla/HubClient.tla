------------------------------ MODULE HubClient ------------------------------
(***************************************************************************)
(* The life of the desktop's connection to the Hub                         *)
(* (gui/remote_hub_client.go): connecting, noticing that the connection is *)
(* lost, dropping it and reconnecting.                                     *)
(*                                                                         *)
(* Every successful Connect starts a read loop and a heartbeat loop.  They *)
(* work on whatever connection c.conn names at the time, not on the one    *)
(* they were started for.  c.mu is held while dialling and authenticating, *)
(* so that part of Connect is one step.                                    *)
(***************************************************************************)
EXTENDS Integers

CONSTANTS
  MaxConns,   \* bound on connections opened; they are numbered in order
  MaxCalls    \* bound on calls from the user interface

ASSUME HubClientAssumption == MaxConns \in Nat /\ MaxCalls \in Nat

ConnIds == 1 .. MaxConns
None  == 0                   \* a nil c.conn

Read(n) == <<"read", n>>     \* the goroutines Connect number n starts
Beat(n) == <<"beat", n>>
Loop    == <<"loop", 0>>     \* reconnectLoop
UI      == <<"ui", 0>>       \* calls from the user interface

Workers == {"read", "beat"} \X ConnIds
Callers == {Loop, UI}
Procs   == Workers \cup Callers

VARIABLES
  conn,      \* c.conn; c.connected says the same
  opened,    \* connections opened so far
  link,      \* [ConnIds -> "unused", "open", "broken" or "closed"]
  allow,     \* c.allowReconnect
  step,      \* [Procs -> the step it is at]; c.reconnecting: Loop is not "off"
  on,        \* [ConnIds -> the connection the read loop is blocked on]
  calls      \* calls from the user interface so far

clientVars == <<conn, opened, link, allow, step, on, calls>>

ClientInit ==
  /\ conn = None /\ opened = 0 /\ allow = FALSE
  /\ link = [n \in ConnIds |-> "unused"]
  /\ step = [p \in Procs |-> IF p \in Workers THEN "none"
                             ELSE IF p = Loop THEN "off" ELSE "idle"]
  /\ on = [n \in ConnIds |-> None]
  /\ calls = 0

At(p, from) == step[p] = from
GoTo(p, to) == step' = [step EXCEPT ![p] = to]

-----------------------------------------------------------------------------
(* Connect and its callers. *)

(* Mutant of Connect: a reconnect does not start the goroutines again. *)
ConnectQuietly(p) ==
  /\ At(p, "connect")
  /\ opened < MaxConns
  /\ opened' = opened + 1 /\ conn' = opened + 1
  /\ link' = [link EXCEPT ![opened + 1] = "open"]
  /\ allow' = TRUE
  /\ step' = [step EXCEPT ![p] = IF p = Loop THEN "leave" ELSE "idle",
                          ![Read(opened + 1)] = IF p = Loop THEN @ ELSE "look",
                          ![Beat(opened + 1)] = IF p = Loop THEN @ ELSE "sleep"]
  /\ UNCHANGED <<on, calls>>

(* Dial, authenticate and say hello under c.mu; a connection that is there is
   overwritten, not closed.  Then the goroutines are started. *)
Connect(p) ==
  LET n == opened + 1 IN
  /\ At(p, "connect")
  /\ opened < MaxConns
  /\ opened' = n /\ conn' = n
  /\ link' = [link EXCEPT ![n] = "open"]
  /\ allow' = TRUE
  /\ step' = [step EXCEPT ![Read(n)] = "look", ![Beat(n)] = "sleep",
                          ![p] = IF p = Loop THEN "leave" ELSE "idle"]
  /\ UNCHANGED <<on, calls>>

(* The dial fails, or what follows it does: by then a connection that was there
   is forgotten, not closed.  The loop sleeps, or checks at once after
   enrolling again, or (activation invalidated) leaves, after a disconnect when
   there was an activation. *)
ConnectFails(p) ==
  /\ At(p, "connect")
  /\ conn' \in {conn, None}
  /\ \E to \in IF p = Loop THEN {"sleep", "check", "drop", "leave"} ELSE {"idle"} : GoTo(p, to)
  /\ UNCHANGED <<opened, link, allow, on, calls>>

(* ReconnectRemoteHub and ClearRemoteActivation start with Disconnect; other
   callers connect a client that is not connected. *)
UICall ==
  /\ At(UI, "idle") /\ calls < MaxCalls
  /\ calls' = calls + 1
  /\ \/ GoTo(UI, "drop")
     \/ conn = None /\ GoTo(UI, "connect")
  /\ UNCHANGED <<conn, opened, link, allow, on>>

(* reconnectLoop goes on while reconnecting is allowed and there is no
   connection. *)
LoopCheck ==
  /\ At(Loop, "check")
  /\ GoTo(Loop, IF allow /\ conn = None THEN "connect" ELSE "leave")
  /\ UNCHANGED <<conn, opened, link, allow, on, calls>>

LoopSleeps ==
  /\ At(Loop, "sleep") /\ GoTo(Loop, "check")
  /\ UNCHANGED <<conn, opened, link, allow, on, calls>>

(* The deferred reconnecting.Store(false), after Connect has returned. *)
LoopLeaves ==
  /\ At(Loop, "leave") /\ GoTo(Loop, "off")
  /\ UNCHANGED <<conn, opened, link, allow, on, calls>>

-----------------------------------------------------------------------------
(* Losing a connection. *)

(* handleConnectionLoss in a read loop or a heartbeat loop, Disconnect in a
   caller: whatever connection is there is closed. *)
Drop(p) ==
  /\ At(p, "drop")
  /\ link' = IF conn = None THEN link ELSE [link EXCEPT ![conn] = "closed"]
  /\ conn' = None
  /\ allow' = (allow /\ p \notin Callers)
  /\ \E to \in CASE p = Loop -> {"leave"} [] p = UI -> {"connect", "idle"}
                 [] OTHER -> {"trigger"} : GoTo(p, to)
  /\ UNCHANGED <<opened, on, calls>>

(* triggerReconnect: nothing when a loop has not left yet. *)
Trigger(p) ==
  /\ At(p, "trigger")
  /\ step' = [step EXCEPT ![p] = "over",
                ![Loop] = IF allow /\ @ = "off" THEN "check" ELSE @]
  /\ UNCHANGED <<conn, opened, link, allow, on, calls>>

(* readLoop takes the connection it finds and blocks on it. *)
ReaderLooks(n) ==
  /\ At(Read(n), "look")
  /\ GoTo(Read(n), IF conn = None THEN "over" ELSE "reading")
  /\ on' = [on EXCEPT ![n] = conn]
  /\ UNCHANGED <<conn, opened, link, allow, calls>>

(* Mutant of ReaderReturns: a failed read only ends the loop. *)
ReaderJustEnds(n) ==
  /\ At(Read(n), "reading")
  /\ GoTo(Read(n), IF link[on[n]] = "open" THEN "look" ELSE "over")
  /\ UNCHANGED <<conn, opened, link, allow, on, calls>>

ReaderReturns(n) ==
  /\ At(Read(n), "reading")
  /\ GoTo(Read(n), IF link[on[n]] = "open" THEN "look" ELSE "drop")
  /\ UNCHANGED <<conn, opened, link, allow, on, calls>>

(* heartbeatLoop: a beat on a broken connection may fail or seem to succeed. *)
Heartbeat(n) ==
  /\ At(Beat(n), "sleep")
  /\ \/ conn = None /\ GoTo(Beat(n), "over")
     \/ conn # None /\ link[conn] # "open" /\ GoTo(Beat(n), "drop")
  /\ UNCHANGED <<conn, opened, link, allow, on, calls>>

(* The network or the Hub fails. *)
Break(n) ==
  /\ link[n] = "open"
  /\ link' = [link EXCEPT ![n] = "broken"]
  /\ UNCHANGED <<conn, opened, allow, step, on, calls>>

-----------------------------------------------------------------------------
CallerStep(p) == Connect(p) \/ ConnectFails(p) \/ Drop(p)
LossStep(p)   == Drop(p) \/ Trigger(p)

LoopStep    == CallerStep(Loop) \/ LoopCheck \/ LoopSleeps \/ LoopLeaves
ReadStep(n) == ReaderLooks(n) \/ ReaderReturns(n) \/ LossStep(Read(n))
BeatStep(n) == Heartbeat(n) \/ LossStep(Beat(n))

ClientNext ==
  \/ LoopStep \/ CallerStep(UI) \/ UICall
  \/ \E n \in ConnIds : ReadStep(n) \/ BeatStep(n) \/ Break(n)

ClientSpec == ClientInit /\ [][ClientNext]_clientVars

(* Goroutines are scheduled, and a read of a broken connection fails at its
   deadline.  Nothing obliges the user or the network. *)
ClientFairSpec ==
  /\ ClientSpec
  /\ WF_clientVars(LoopStep) /\ WF_clientVars(CallerStep(UI))
  /\ \A n \in ConnIds : WF_clientVars(ReadStep(n)) /\ WF_clientVars(BeatStep(n))

-----------------------------------------------------------------------------
(* The connection the client uses is read by the loop that was started for it
   and probed by its heartbeat, unless a loss is about to close it: however
   calls, losses and reconnects interleave, none is left unwatched. *)
ConnectionIsWatched ==
  conn # None =>
    \/ /\ step[Beat(conn)] = "sleep"
       /\ \/ step[Read(conn)] = "look"
          \/ step[Read(conn)] = "reading" /\ on[conn] = conn
    \/ \E p \in Procs : step[p] = "drop"

(* A broken connection is given up: the client does not go on believing that
   it is connected. *)
BrokenIsDropped ==
  \A n \in ConnIds : (conn = n /\ link[n] = "broken") ~> conn # n
=============================================================================
