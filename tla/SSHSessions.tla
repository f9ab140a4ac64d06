----------------------------- MODULE SSHSessions -----------------------------
(***************************************************************************)
(* SSH connections to one host, shared through a pool, and the shells that *)
(* run over them (corelib/remote: ssh_pool.go, ssh_manager.go,             *)
(* ssh_session.go, SFTPTransfer).  The pool keeps one counted entry per    *)
(* host, entries of different hosts have nothing in common but the lock.   *)
(*                                                                         *)
(* All network traffic happens outside the pool's lock: the state read     *)
(* before it may have changed when the lock is taken again.  Closing a     *)
(* connection that was just removed is one step with its removal: nobody   *)
(* finds it in the pool any more.                                          *)
(***************************************************************************)
EXTENDS Integers, FiniteSets

CONSTANTS
  Callers,     \* goroutines of the tools: create, reconnect, transfer
  Sessions,    \* SSHManagedSession
  MaxDials,    \* bound on connections dialled; they are numbered in order
  MaxShells,   \* bound on shells (SSHPTYSession) started
  NoSession

ASSUME SSHAssumption ==
  /\ MaxDials \in Nat /\ MaxShells \in Nat
  /\ IsFiniteSet(Callers)

Clients == 1 .. MaxDials
Shells  == 1 .. MaxShells
None    == 0

VARIABLES
  pooled, refs,  \* p.conns[hostID]: client (None: no entry) and refCount
  dialed,        \* number of clients dialled
  conn,          \* [Clients -> "unused", "up", "lost" or "closed"]
  keepalive,     \* [Clients -> BOOLEAN] the pool's keepalive goroutine runs
  pc, kind, target, client,   \* per caller: step, operation, session, client
  started,       \* number of shells started
  shell,         \* [Shells -> "unused", "running" or "ended"]
  over, owner,   \* [Shells -> its client], [Shells -> its session]
  loop,          \* [Shells -> step of its runExitLoop]
  status,        \* [Sessions -> "none", "running" or "exited"]
  handle,        \* [Sessions -> its current shell, s.Handle]
  strays         \* releases of the pooled entry by holders of other clients

poolVars  == <<pooled, refs, strays>>
connVars  == <<dialed, conn, keepalive>>
callVars  == <<pc, kind, target, client>>
shellVars == <<started, shell, over, owner, loop>>
sessVars  == <<status, handle>>
vars == <<poolVars, connVars, callVars, shellVars, sessVars>>

Init ==
  /\ pooled = None /\ refs = 0 /\ strays = 0
  /\ dialed = 0
  /\ conn = [c \in Clients |-> "unused"]
  /\ keepalive = [c \in Clients |-> FALSE]
  /\ pc = [p \in Callers |-> "idle"]
  /\ kind = [p \in Callers |-> "none"]
  /\ target = [p \in Callers |-> NoSession]
  /\ client = [p \in Callers |-> None]
  /\ started = 0
  /\ shell = [h \in Shells |-> "unused"]
  /\ over = [h \in Shells |-> None]
  /\ owner = [h \in Shells |-> NoSession]
  /\ loop = [h \in Shells |-> "none"]
  /\ status = [s \in Sessions |-> "none"]
  /\ handle = [s \in Sessions |-> None]

-----------------------------------------------------------------------------
(* The pool. *)

Goto(p, step) == pc' = [pc EXCEPT ![p] = step]

(* The operation is over. *)
Return(p) ==
  /\ Goto(p, "idle")
  /\ kind' = [kind EXCEPT ![p] = "none"]
  /\ target' = [target EXCEPT ![p] = NoSession]
  /\ client' = [client EXCEPT ![p] = None]

(* The state of the connections once c is closed. *)
Closed(c) == [conn EXCEPT ![c] = "closed"]

(* The entry goes and its client is closed. *)
RemoveEntry ==
  /\ pooled' = None /\ refs' = 0 /\ strays' = 0
  /\ conn' = Closed(pooled)

(* The entry of client c goes if it is still that client's; c is closed. *)
Evict(c) ==
  IF pooled = c THEN RemoveEntry
                ELSE conn' = Closed(c) /\ UNCHANGED poolVars

(* Release names a host, not a client: a holder of client mine lowers the count
   of whatever client is pooled now.  The count at zero closes it. *)
Release(mine) ==
  IF pooled = None THEN UNCHANGED <<poolVars, conn>>
  ELSE IF refs <= 1 THEN RemoveEntry
  ELSE /\ refs' = refs - 1
       /\ strays' = IF mine = pooled THEN strays ELSE strays + 1
       /\ UNCHANGED <<pooled, conn>>

(* What a caller does with the connection it got. *)
Acquired(p) == Goto(p, IF kind[p] = "transfer" THEN "using" ELSE "start")

(* Acquire takes the pooled client as its candidate ... *)
Look(p) ==
  /\ pc[p] = "acquire"
  /\ client' = [client EXCEPT ![p] = pooled]
  /\ Goto(p, IF pooled = None THEN "dial" ELSE "probe")
  /\ UNCHANGED <<poolVars, connVars, kind, target, shellVars, sessVars>>

(* ... asks the peer for a sign of life, without the lock ... *)
Probe(p) ==
  /\ pc[p] = "probe"
  /\ Goto(p, IF conn[client[p]] = "up" THEN "share" ELSE "evict")
  /\ UNCHANGED <<poolVars, connVars, kind, target, client, shellVars, sessVars>>

(* Mutant of Share: the entry is not looked at again. *)
ShareUnchecked(p) ==
  /\ pc[p] = "share"
  /\ refs' = refs + 1 /\ Acquired(p)
  /\ UNCHANGED <<pooled, strays, connVars, kind, target, client, shellVars, sessVars>>

(* ... and shares it if it is still the pooled one, *)
Share(p) ==
  /\ pc[p] = "share"
  /\ IF pooled = client[p]
       THEN refs' = refs + 1 /\ Acquired(p) /\ UNCHANGED client
       ELSE /\ Goto(p, "dial")
            /\ client' = [client EXCEPT ![p] = None]
            /\ UNCHANGED refs
  /\ UNCHANGED <<pooled, strays, connVars, kind, target, shellVars, sessVars>>

(* or removes and closes it when it is dead. *)
EvictDead(p) ==
  /\ pc[p] = "evict"
  /\ Evict(client[p])
  /\ client' = [client EXCEPT ![p] = None]
  /\ Goto(p, "dial")
  /\ UNCHANGED <<dialed, keepalive, kind, target, shellVars, sessVars>>

Dial(p) ==
  /\ pc[p] = "dial"
  /\ dialed < MaxDials
  /\ dialed' = dialed + 1
  /\ conn' = [conn EXCEPT ![dialed + 1] = "up"]
  /\ client' = [client EXCEPT ![p] = dialed + 1]
  /\ Goto(p, "insert")
  /\ UNCHANGED <<poolVars, keepalive, kind, target, shellVars, sessVars>>

DialFails(p) ==
  /\ pc[p] = "dial"
  /\ Return(p)
  /\ UNCHANGED <<poolVars, connVars, shellVars, sessVars>>

(* Mutant of Insert: the new client is forgotten when another was first. *)
InsertForgets(p) ==
  /\ pc[p] = "insert"
  /\ IF pooled # None
       THEN /\ refs' = refs + 1
            /\ client' = [client EXCEPT ![p] = pooled]
            /\ UNCHANGED <<pooled, strays, conn, keepalive>>
       ELSE /\ pooled' = client[p] /\ refs' = 1 /\ strays' = 0
            /\ keepalive' = [keepalive EXCEPT ![client[p]] = TRUE]
            /\ UNCHANGED <<conn, client>>
  /\ Acquired(p)
  /\ UNCHANGED <<dialed, kind, target, shellVars, sessVars>>

(* The end of Acquire and of Reconnect: if somebody else was faster the new
   client is closed and the other one shared, otherwise it is pooled with one
   reference and its keepalive started. *)
Insert(p) ==
  /\ pc[p] = "insert"
  /\ IF pooled # None
       THEN /\ refs' = refs + 1
            /\ conn' = Closed(client[p])
            /\ client' = [client EXCEPT ![p] = pooled]
            /\ UNCHANGED <<pooled, strays, keepalive>>
       ELSE /\ pooled' = client[p] /\ refs' = 1 /\ strays' = 0
            /\ keepalive' = [keepalive EXCEPT ![client[p]] = TRUE]
            /\ UNCHANGED <<conn, client>>
  /\ Acquired(p)
  /\ UNCHANGED <<dialed, kind, target, shellVars, sessVars>>

(* Mutant of KeepaliveGivesUp: the keepalive just ends, nothing is evicted or
   closed. *)
KeepaliveStops(c) ==
  /\ keepalive[c] /\ conn[c] # "up"
  /\ keepalive' = [keepalive EXCEPT ![c] = FALSE]
  /\ UNCHANGED <<poolVars, dialed, conn, callVars, shellVars, sessVars>>

(* Three keepalive requests in a row fail, which they do only on a connection
   that is lost or closed. *)
KeepaliveGivesUp(c) ==
  /\ keepalive[c] /\ conn[c] # "up"
  /\ Evict(c)
  /\ keepalive' = [keepalive EXCEPT ![c] = FALSE]
  /\ UNCHANGED <<dialed, callVars, shellVars, sessVars>>

(* The peer or the network fails. *)
ConnectionLost(c) ==
  /\ conn[c] = "up"
  /\ conn' = [conn EXCEPT ![c] = "lost"]
  /\ UNCHANGED <<poolVars, dialed, keepalive, callVars, shellVars, sessVars>>

-----------------------------------------------------------------------------
(* The operations of the session manager. *)

Begin(p, k, s, step) ==
  /\ pc[p] = "idle"
  /\ kind' = [kind EXCEPT ![p] = k]
  /\ target' = [target EXCEPT ![p] = s]
  /\ Goto(p, step)
  /\ UNCHANGED <<poolVars, connVars, client, shellVars, sessVars>>

(* Every Create makes a session of its own. *)
Create(p, s) ==
  /\ status[s] = "none"
  /\ \A q \in Callers : pc[q] # "idle" => target[q] # s
  /\ Begin(p, "create", s, "acquire")

Transfer(p, s) == status[s] # "none" /\ Begin(p, "transfer", s, "acquire")

(* ReconnectByID, which does not look at the session's status, or
   WriteInputChecked, whose write failed and whose handle seems dead. *)
Reconnect(p, s) == status[s] # "none" /\ Begin(p, "reconnect", s, "shut")

(* reconnectSession closes the old shell ... *)
ShutShell(p) ==
  /\ pc[p] = "shut"
  /\ shell' = [shell EXCEPT ![handle[target[p]]] = "ended"]
  /\ Goto(p, "drop")
  /\ UNCHANGED <<poolVars, connVars, kind, target, client, started, over, owner,
                 loop, sessVars>>

(* ... and SSHPool.Reconnect the pooled connection, whoever shares it. *)
DropEntry(p) ==
  /\ pc[p] = "drop"
  /\ IF pooled # None THEN RemoveEntry ELSE UNCHANGED <<poolVars, conn>>
  /\ Goto(p, "dial")
  /\ UNCHANGED <<dialed, keepalive, kind, target, client, shellVars, sessVars>>

(* The shell starts; the session gets it as its handle and an exit loop. *)
Start(p) ==
  LET h == started + 1
      s == target[p] IN
  /\ pc[p] = "start"
  /\ conn[client[p]] = "up" /\ started < MaxShells
  /\ started' = h
  /\ shell' = [shell EXCEPT ![h] = "running"]
  /\ over' = [over EXCEPT ![h] = client[p]]
  /\ owner' = [owner EXCEPT ![h] = s]
  /\ loop' = [loop EXCEPT ![h] = "wait"]
  /\ status' = [status EXCEPT ![s] = "running"]
  /\ handle' = [handle EXCEPT ![s] = h]
  /\ Return(p)
  /\ UNCHANGED <<poolVars, connVars>>

StartFails(p) ==
  /\ pc[p] = "start"
  /\ Release(client[p])
  /\ Return(p)
  /\ UNCHANGED <<dialed, keepalive, shellVars, sessVars>>

TransferEnds(p) ==
  /\ pc[p] = "using"
  /\ Release(client[p])
  /\ Return(p)
  /\ UNCHANGED <<dialed, keepalive, shellVars, sessVars>>

-----------------------------------------------------------------------------
(* Shells and exit loops. *)

(* The shell ends by itself, is killed, or loses its connection. *)
ShellEnds(h) ==
  /\ shell[h] = "running"
  /\ shell' = [shell EXCEPT ![h] = "ended"]
  /\ UNCHANGED <<poolVars, connVars, callVars, started, over, owner, loop, sessVars>>

AtLoop(h, from, to) == loop[h] = from /\ loop' = [loop EXCEPT ![h] = to]

(* runExitLoop: the session is marked exited ... *)
ObserveExit(h) ==
  /\ AtLoop(h, "wait", "close")
  /\ shell[h] = "ended"
  /\ status' = [status EXCEPT ![owner[h]] = "exited"]
  /\ UNCHANGED <<poolVars, connVars, callVars, started, shell, over, owner, handle>>

(* ... its handle, which may be a newer shell by now, is closed ... *)
CloseHandle(h) ==
  /\ AtLoop(h, "close", "release")
  /\ shell' = [shell EXCEPT ![handle[owner[h]]] = "ended"]
  /\ UNCHANGED <<poolVars, connVars, callVars, started, over, owner, sessVars>>

(* ... and the reference given back, to whatever is pooled by now. *)
ReleaseHandle(h) ==
  /\ AtLoop(h, "release", "done")
  /\ Release(over[h])
  /\ UNCHANGED <<dialed, keepalive, callVars, started, shell, over, owner, sessVars>>

-----------------------------------------------------------------------------
CallerStep(p) ==
  \/ Look(p) \/ Probe(p) \/ Share(p) \/ EvictDead(p)
  \/ Dial(p) \/ DialFails(p) \/ Insert(p)
  \/ ShutShell(p) \/ DropEntry(p) \/ Start(p) \/ StartFails(p) \/ TransferEnds(p)

LoopStep(h) == ObserveExit(h) \/ CloseHandle(h) \/ ReleaseHandle(h)

Next ==
  \/ \E p \in Callers, s \in Sessions : Create(p, s) \/ Transfer(p, s) \/ Reconnect(p, s)
  \/ \E p \in Callers : CallerStep(p)
  \/ \E c \in Clients : KeepaliveGivesUp(c) \/ ConnectionLost(c)
  \/ \E h \in Shells : ShellEnds(h) \/ LoopStep(h)

(* Goroutines are scheduled and network calls return (the requests have no
   timeout of their own, a dead connection fails them); nothing makes shells
   end, connections fail or tools act. *)
Fairness ==
  /\ \A p \in Callers : WF_vars(CallerStep(p))
  /\ \A c \in Clients : WF_vars(KeepaliveGivesUp(c))

Spec == Init /\ [][Next]_vars /\ Fairness

-----------------------------------------------------------------------------
TypeOK ==
  /\ pooled \in 0 .. dialed /\ refs \in Nat /\ strays \in Nat
  /\ dialed \in 0 .. MaxDials
  /\ conn \in [Clients -> {"unused", "up", "lost", "closed"}]
  /\ keepalive \in [Clients -> BOOLEAN]
  /\ pc \in [Callers -> {"idle", "acquire", "probe", "share", "evict", "dial",
                         "insert", "shut", "drop", "start", "using"}]
  /\ kind \in [Callers -> {"none", "create", "transfer", "reconnect"}]
  /\ target \in [Callers -> Sessions \cup {NoSession}]
  /\ client \in [Callers -> 0 .. dialed]
  /\ started \in 0 .. MaxShells
  /\ shell \in [Shells -> {"unused", "running", "ended"}]
  /\ over \in [Shells -> 0 .. dialed]
  /\ owner \in [Shells -> Sessions \cup {NoSession}]
  /\ loop \in [Shells -> {"none", "wait", "close", "release", "done"}]
  /\ status \in [Sessions -> {"none", "running", "exited"}]
  /\ handle \in [Sessions -> 0 .. started]

(* Who holds a reference to client c: a caller that has acquired it, a shell
   whose exit loop has not given it back. *)
HoldingCallers(c) == {p \in Callers : pc[p] \in {"start", "using"} /\ client[p] = c}
HoldingShells(c) ==
  {h \in Shells : loop[h] \in {"wait", "close", "release"} /\ over[h] = c}

(* The count of the pooled client is the number of its holders less the stray
   releases.  So a connection nobody holds is never kept: what Release is for.
   Where strays is not zero, holders can lose the connection under their feet. *)
RefsExact ==
  pooled # None =>
    /\ refs >= 1
    /\ refs + strays = Cardinality(HoldingCallers(pooled))
                        + Cardinality(HoldingShells(pooled))

(* No connection is lost track of: one that is open is pooled, or in the hands
   of the caller that dialled it and is about to pool or to close it. *)
NoConnectionLeaks ==
  \A c \in Clients : conn[c] \in {"up", "lost"} =>
    pooled = c \/ \E p \in Callers : pc[p] = "insert" /\ client[p] = c

(* A connection that is lost is closed, and so leaves the pool, without anybody
   using it: its keepalive always runs. *)
LostIsClosed == []<>(\A c \in Clients : conn[c] # "lost")
=============================================================================
