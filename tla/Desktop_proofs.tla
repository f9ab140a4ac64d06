---------------------------- MODULE Desktop_proofs ----------------------------
(***************************************************************************)
(* Theorems about two parts of the desktop program.  The SSH connection    *)
(* pool, for any number of callers, sessions, dials and shells: its count  *)
(* is the number of holders, and no open connection is lost track of.  The *)
(* output of a session on its way to the Hub, for any number of connects,  *)
(* losses and lines: no line is forgotten while the connection is good.    *)
(***************************************************************************)
EXTENDS SSHSessions, HubPreview, FiniteSetTheorems, TLAPS


USE SSHAssumption DEF Clients, Shells, None

(* The three things the pool does to its entry keep the types. *)
LEMMA EntryTypes ==
  ASSUME TypeOK, NEW c, RemoveEntry \/ Evict(c) \/ Release(c), UNCHANGED dialed
  PROVE  /\ pooled' \in 0 .. dialed' /\ refs' \in Nat /\ strays' \in Nat
         /\ conn' \in [Clients -> {"unused", "up", "lost", "closed"}]
BY DEF RemoveEntry, Evict, Release, Closed, TypeOK, poolVars

LEMMA ReturnTypes ==
  ASSUME TypeOK, NEW p \in Callers, Return(p), UNCHANGED dialed
  PROVE  /\ pc' \in [Callers -> {"idle", "acquire", "probe", "share", "evict", "dial",
                                 "insert", "shut", "drop", "start", "using"}]
         /\ kind' \in [Callers -> {"none", "create", "transfer", "reconnect"}]
         /\ target' \in [Callers -> Sessions \cup {NoSession}]
         /\ client' \in [Callers -> 0 .. dialed']
BY DEF Return, Goto, TypeOK

LEMMA CallerTypes ==
  ASSUME TypeOK, NEW p \in Callers, CallerStep(p)
  PROVE  TypeOK'
<1>1. CASE Look(p)
  BY <1>1 DEF Look, Goto, TypeOK, poolVars, connVars, shellVars, sessVars
<1>2. CASE Probe(p)
  BY <1>2 DEF Probe, Goto, TypeOK, poolVars, connVars, shellVars, sessVars
<1>3. CASE Share(p)
  <2>0. refs \in Nat /\ dialed \in Nat /\ client \in [Callers -> 0 .. dialed]
    BY DEF TypeOK
  <2>1. refs' \in Nat /\ client' \in [Callers -> 0 .. dialed']
    <3>1. /\ (refs' = refs + 1 /\ client' = client)
             \/ (refs' = refs /\ client' = [client EXCEPT ![p] = 0])
          /\ dialed' = dialed
      BY <1>3 DEF Share, connVars
    <3> QED BY <2>0, <3>1
  <2> DEFINE Steps == {"idle", "acquire", "probe", "share", "evict", "dial",
                       "insert", "shut", "drop", "start", "using"}
  <2>2. pc' = [pc EXCEPT ![p] = "dial"] \/ pc' = [pc EXCEPT ![p] = "using"]
          \/ pc' = [pc EXCEPT ![p] = "start"]
    BY <1>3 DEF Share, Acquired, Goto
  <2>3. pc' \in [Callers -> Steps]
    <3>1. pc \in [Callers -> Steps]
      BY DEF TypeOK
    <3> QED BY <2>2, <3>1
  <2> QED BY <1>3, <2>1, <2>3 DEF Share, TypeOK, connVars, shellVars, sessVars
<1>4. CASE EvictDead(p)
  BY <1>4, EntryTypes DEF EvictDead, Goto, TypeOK, shellVars, sessVars
<1>5. CASE Dial(p)
  BY <1>5 DEF Dial, Goto, TypeOK, poolVars, shellVars, sessVars
<1>6. CASE DialFails(p)
  BY <1>6, ReturnTypes DEF DialFails, TypeOK, poolVars, connVars, shellVars, sessVars
<1>7. CASE Insert(p)
  <2>1. keepalive' \in [Clients -> BOOLEAN]
    BY <1>7 DEF Insert, TypeOK
  <2>2. pooled' \in 0 .. dialed' /\ refs' \in Nat /\ strays' \in Nat
    BY <1>7 DEF Insert, TypeOK
  <2>3. /\ conn' \in [Clients -> {"unused", "up", "lost", "closed"}]
        /\ client' \in [Callers -> 0 .. dialed']
    BY <1>7 DEF Insert, Closed, TypeOK
  <2> QED BY <1>7, <2>1, <2>2, <2>3 DEF Insert, Acquired, Goto, TypeOK, shellVars, sessVars
<1>8. CASE ShutShell(p)
  BY <1>8 DEF ShutShell, Goto, TypeOK, poolVars, connVars, sessVars
<1>9. CASE DropEntry(p)
  BY <1>9, EntryTypes DEF DropEntry, Goto, TypeOK, poolVars, shellVars, sessVars
<1>10. CASE Start(p)
  <2>1. /\ started < MaxShells /\ started' = started + 1
        /\ shell' = [shell EXCEPT ![started + 1] = "running"]
        /\ over' = [over EXCEPT ![started + 1] = client[p]]
        /\ owner' = [owner EXCEPT ![started + 1] = target[p]]
        /\ loop' = [loop EXCEPT ![started + 1] = "wait"]
        /\ status' = [status EXCEPT ![target[p]] = "running"]
        /\ handle' = [handle EXCEPT ![target[p]] = started + 1]
        /\ Return(p) /\ UNCHANGED <<pooled, refs, strays, dialed, conn, keepalive>>
    BY <1>10 DEF Start, poolVars, connVars
  <2>0. started \in 0 .. MaxShells /\ handle \in [Sessions -> 0 .. started]
    BY DEF TypeOK
  <2>2. started' \in 0 .. MaxShells /\ handle' \in [Sessions -> 0 .. started']
    <3>1. started' \in 0 .. MaxShells /\ started \in Nat
      BY <2>0, <2>1
    <3>2. handle \in [Sessions -> 0 .. started + 1] /\ started + 1 \in 0 .. started + 1
      BY <2>0, <3>1
    <3> QED BY <2>1, <3>1, <3>2
  <2>3. over' \in [Shells -> 0 .. dialed'] /\ owner' \in [Shells -> Sessions \cup {NoSession}]
    BY <2>1 DEF TypeOK
  <2>4. /\ shell' \in [Shells -> {"unused", "running", "ended"}]
        /\ loop' \in [Shells -> {"none", "wait", "close", "release", "done"}]
        /\ status' \in [Sessions -> {"none", "running", "exited"}]
    BY <2>1 DEF TypeOK
  <2>5. /\ pooled' \in 0 .. dialed' /\ refs' \in Nat /\ strays' \in Nat
        /\ dialed' \in 0 .. MaxDials /\ keepalive' \in [Clients -> BOOLEAN]
        /\ conn' \in [Clients -> {"unused", "up", "lost", "closed"}]
    BY <2>1 DEF TypeOK
  <2> QED BY <2>1, <2>2, <2>3, <2>4, <2>5, ReturnTypes DEF TypeOK
<1>11. CASE StartFails(p) \/ TransferEnds(p)
  BY <1>11, ReturnTypes, EntryTypes DEF StartFails, TransferEnds, TypeOK, shellVars, sessVars
<1> QED BY <1>1, <1>2, <1>3, <1>4, <1>5, <1>6, <1>7, <1>8, <1>9, <1>10, <1>11 DEF CallerStep

LEMMA TypeStep == TypeOK /\ [Next]_vars => TypeOK'
<1> SUFFICES ASSUME TypeOK, [Next]_vars PROVE TypeOK'
  OBVIOUS
<1>1. ASSUME NEW p \in Callers, NEW s \in Sessions, Create(p, s) \/ Transfer(p, s) \/ Reconnect(p, s)
      PROVE  TypeOK'
  BY <1>1 DEF Create, Transfer, Reconnect, Begin, Goto, TypeOK, poolVars, connVars, shellVars, sessVars
<1>2. ASSUME NEW c \in Clients, KeepaliveGivesUp(c) PROVE TypeOK'
  <2>1. keepalive' \in [Clients -> BOOLEAN]
    BY <1>2 DEF KeepaliveGivesUp, TypeOK
  <2> QED BY <1>2, <2>1, EntryTypes DEF KeepaliveGivesUp, TypeOK, callVars, shellVars, sessVars
<1>3. ASSUME NEW c \in Clients, ConnectionLost(c) PROVE TypeOK'
  BY <1>3 DEF ConnectionLost, TypeOK, poolVars, callVars, shellVars, sessVars
<1>4. ASSUME NEW h \in Shells, ShellEnds(h) \/ ObserveExit(h) \/ CloseHandle(h) PROVE TypeOK'
  <2>1. CASE ShellEnds(h)
    BY <1>4, <2>1 DEF ShellEnds, TypeOK, poolVars, connVars, callVars, sessVars
  <2>2. CASE ObserveExit(h)
    BY <1>4, <2>2 DEF ObserveExit, AtLoop, TypeOK, poolVars, connVars, callVars
  <2>3. CASE CloseHandle(h)
    BY <1>4, <2>3 DEF CloseHandle, AtLoop, TypeOK, poolVars, connVars, callVars, sessVars
  <2> QED BY <1>4, <2>1, <2>2, <2>3
<1>5. ASSUME NEW h \in Shells, ReleaseHandle(h) PROVE TypeOK'
  BY <1>5, EntryTypes DEF ReleaseHandle, AtLoop, TypeOK, callVars, sessVars
<1>6. CASE UNCHANGED vars
  BY <1>6 DEF vars, TypeOK, poolVars, connVars, callVars, shellVars, sessVars
<1> QED BY <1>1, <1>2, <1>3, <1>4, <1>5, <1>6, CallerTypes DEF Next, LoopStep

(* The variables keep their types. *)
THEOREM TypeCorrect == Spec => []TypeOK
<1>1. Init => TypeOK
  BY DEF Init, TypeOK
<1> QED BY <1>1, TypeStep, PTL DEF Spec

-----------------------------------------------------------------------------
(* A connection that is open after a step on the entry was open before, and is
   pooled if it was pooled. *)
LEMMA EntryCloses ==
  ASSUME TypeOK, NEW c, NEW x \in Clients, RemoveEntry \/ Evict(c) \/ Release(c),
         conn'[x] \in {"up", "lost"}
  PROVE  conn[x] \in {"up", "lost"} /\ (pooled = x => pooled' = x)
<1>1. conn \in [Clients -> {"unused", "up", "lost", "closed"}]
  BY DEF TypeOK
<1>2. CASE RemoveEntry
  BY <1>1, <1>2 DEF RemoveEntry, Closed
<1>3. CASE Evict(c) /\ pooled # c
  BY <1>1, <1>3 DEF Evict, Closed, poolVars
<1>4. CASE Release(c) /\ ~RemoveEntry
  BY <1>1, <1>4 DEF Release, poolVars
<1> QED BY <1>2, <1>3, <1>4 DEF Evict

(* An open connection stays where it can be found. *)
LEMMA LeaksStep == TypeOK /\ NoConnectionLeaks /\ [Next]_vars => NoConnectionLeaks'
<1> SUFFICES ASSUME TypeOK, NoConnectionLeaks, [Next]_vars PROVE NoConnectionLeaks'
  OBVIOUS
<1>1. ASSUME NEW p \in Callers, NEW s \in Sessions, Create(p, s) \/ Transfer(p, s) \/ Reconnect(p, s)
      PROVE  NoConnectionLeaks'
  BY <1>1 DEF Create, Transfer, Reconnect, Begin, Goto, TypeOK, poolVars, connVars, NoConnectionLeaks
<1>2. ASSUME NEW p \in Callers, Look(p) \/ Probe(p) \/ Share(p) \/ DialFails(p) \/ ShutShell(p) \/ Start(p)
      PROVE  NoConnectionLeaks'
  <2>1. pooled' = pooled /\ conn' = conn
    BY <1>2 DEF Look, Probe, Share, DialFails, ShutShell, Start, poolVars, connVars
  <2>2. pc[p] # "insert" /\ \A q \in Callers : q # p => pc'[q] = pc[q] /\ client'[q] = client[q]
    BY <1>2 DEF Look, Probe, Share, DialFails, ShutShell, Start, Acquired, Goto, Return, TypeOK
  <2> QED BY <2>1, <2>2 DEF NoConnectionLeaks
<1>3. ASSUME NEW p \in Callers, EvictDead(p) \/ DropEntry(p) \/ StartFails(p) \/ TransferEnds(p)
      PROVE  NoConnectionLeaks'
  <2>1. pc[p] # "insert" /\ \A q \in Callers : q # p => pc'[q] = pc[q] /\ client'[q] = client[q]
    BY <1>3 DEF EvictDead, DropEntry, StartFails, TransferEnds, Goto, Return, TypeOK
  <2>2. \/ RemoveEntry \/ Evict(client[p]) \/ Release(client[p])
        \/ pooled' = pooled /\ conn' = conn
    BY <1>3 DEF EvictDead, DropEntry, StartFails, TransferEnds, poolVars
  <2>3. SUFFICES ASSUME NEW c \in Clients, conn'[c] \in {"up", "lost"}
                 PROVE  pooled' = c \/ \E q \in Callers : pc'[q] = "insert" /\ client'[q] = c
    BY DEF NoConnectionLeaks
  <2>4. conn[c] \in {"up", "lost"} /\ (pooled = c => pooled' = c)
    BY <2>2, <2>3, EntryCloses
  <2> QED BY <2>1, <2>4 DEF NoConnectionLeaks
<1>4. ASSUME NEW p \in Callers, Dial(p) PROVE NoConnectionLeaks'
  <2>1. pooled' = pooled /\ \A c \in Clients : c # dialed + 1 => conn'[c] = conn[c]
    BY <1>4 DEF Dial, TypeOK, poolVars
  <2>2. /\ pc[p] # "insert" /\ pc'[p] = "insert" /\ client'[p] = dialed + 1
        /\ \A q \in Callers : q # p => pc'[q] = pc[q] /\ client'[q] = client[q]
    BY <1>4 DEF Dial, Goto, TypeOK
  <2> QED BY <2>1, <2>2 DEF NoConnectionLeaks
<1>5. ASSUME NEW p \in Callers, Insert(p) PROVE NoConnectionLeaks'
  <2>1. \A q \in Callers : q # p => pc'[q] = pc[q] /\ client'[q] = client[q]
    BY <1>5 DEF Insert, Acquired, Goto, TypeOK
  <2>2. CASE pooled = None
    <3>1. pooled' = client[p] /\ conn' = conn
      BY <1>5, <2>2 DEF Insert
    <3>2. \A c \in Clients : conn[c] \in {"up", "lost"} =>
            \E q \in Callers : pc[q] = "insert" /\ client[q] = c
      BY <2>2 DEF NoConnectionLeaks
    <3>3. SUFFICES ASSUME NEW c \in Clients, conn'[c] \in {"up", "lost"}
                   PROVE  pooled' = c \/ \E q \in Callers : pc'[q] = "insert" /\ client'[q] = c
      BY DEF NoConnectionLeaks
    <3>4. PICK q \in Callers : pc[q] = "insert" /\ client[q] = c
      BY <3>1, <3>2, <3>3
    <3> QED BY <2>1, <3>1, <3>4
  <2>3. CASE pooled # None
    <3>1. pooled' = pooled /\ conn' = [conn EXCEPT ![client[p]] = "closed"]
      BY <1>5, <2>3 DEF Insert, Closed
    <3>2. SUFFICES ASSUME NEW c \in Clients, conn'[c] \in {"up", "lost"}
                   PROVE  pooled' = c \/ \E q \in Callers : pc'[q] = "insert" /\ client'[q] = c
      BY DEF NoConnectionLeaks
    <3>3. c # client[p] /\ conn[c] \in {"up", "lost"}
      BY <3>1, <3>2 DEF TypeOK
    <3> QED BY <2>1, <3>1, <3>3 DEF NoConnectionLeaks
  <2> QED BY <2>2, <2>3
<1>6. ASSUME NEW c \in Clients, KeepaliveGivesUp(c) \/ ConnectionLost(c) PROVE NoConnectionLeaks'
  <2>1. UNCHANGED <<pc, client>>
    BY <1>6 DEF KeepaliveGivesUp, ConnectionLost, callVars
  <2>2. CASE KeepaliveGivesUp(c)
    <3>1. Evict(c)
      BY <2>2 DEF KeepaliveGivesUp
    <3> QED BY <2>1, <3>1, EntryCloses DEF NoConnectionLeaks
  <2>3. CASE ConnectionLost(c)
    BY <2>1, <2>3 DEF ConnectionLost, TypeOK, NoConnectionLeaks, poolVars
  <2> QED BY <1>6, <2>2, <2>3
<1>7. ASSUME NEW h \in Shells, ShellEnds(h) \/ ObserveExit(h) \/ CloseHandle(h)
      PROVE  NoConnectionLeaks'
  <2>1. UNCHANGED <<pooled, conn, pc, client>>
    BY <1>7 DEF ShellEnds, ObserveExit, CloseHandle, poolVars, connVars, callVars
  <2> QED BY <2>1 DEF NoConnectionLeaks
<1>8. ASSUME NEW h \in Shells, ReleaseHandle(h) PROVE NoConnectionLeaks'
  <2>1. Release(over[h]) /\ UNCHANGED <<pc, client>>
    BY <1>8 DEF ReleaseHandle, callVars
  <2> QED BY <2>1, EntryCloses DEF NoConnectionLeaks
<1>9. CASE UNCHANGED vars
  BY <1>9 DEF vars, NoConnectionLeaks, poolVars, connVars, callVars
<1> QED BY <1>1, <1>2, <1>3, <1>4, <1>5, <1>6, <1>7, <1>8, <1>9 DEF Next, CallerStep, LoopStep

(* No open connection is lost track of. *)
THEOREM NoneLeak == Spec => []NoConnectionLeaks
<1>1. Init => TypeOK /\ NoConnectionLeaks
  BY DEF Init, TypeOK, NoConnectionLeaks
<1> QED BY <1>1, TypeStep, LeaksStep, PTL DEF Spec

-----------------------------------------------------------------------------
(* A client that is about to be pooled is nobody else's, and a shell that has
   not started has no exit loop.  RefsExact needs both: the client that becomes
   the pooled one has one holder, the shell that starts is one more. *)
Fresh ==
  /\ \A p \in Callers : pc[p] = "insert" =>
       /\ client[p] # None /\ client[p] # pooled
       /\ \A q \in Callers : q # p => client[q] # client[p]
       /\ \A h \in Shells : over[h] # client[p]
  /\ \A h \in Shells : h > started => loop[h] = "none"

(* What a caller does to its client when it neither dials nor pools. *)
Borrows(p) ==
  /\ pc[p] # "insert" /\ pc'[p] # "insert"
  /\ client'[p] \in {client[p], pooled, None}
  /\ \A q \in Callers : q # p => pc'[q] = pc[q] /\ client'[q] = client[q]
  /\ pooled' \in {pooled, None} /\ UNCHANGED <<over, started, loop>>

LEMMA EntryPooled ==
  ASSUME NEW c, RemoveEntry \/ Evict(c) \/ Release(c)
  PROVE  pooled' \in {pooled, None}
BY DEF RemoveEntry, Evict, Release, poolVars

LEMMA FreshStep == TypeOK /\ Fresh /\ [Next]_vars => Fresh'
<1> SUFFICES ASSUME TypeOK, Fresh, [Next]_vars PROVE Fresh'
  OBVIOUS
<1>1. ASSUME NEW p \in Callers, Borrows(p) PROVE Fresh'
  BY <1>1 DEF Borrows, Fresh
<1>2. ASSUME NEW p \in Callers, NEW s \in Sessions, Create(p, s) \/ Transfer(p, s) \/ Reconnect(p, s)
      PROVE  Borrows(p)
  BY <1>2 DEF Create, Transfer, Reconnect, Begin, Goto, TypeOK, Borrows, poolVars, shellVars
<1>3. ASSUME NEW p \in Callers, Look(p) \/ Probe(p) \/ Share(p) \/ DialFails(p) \/ ShutShell(p)
      PROVE  Borrows(p)
  BY <1>3 DEF Look, Probe, Share, DialFails, ShutShell, Acquired, Goto, Return, TypeOK, Borrows,
              poolVars, shellVars
<1>4. ASSUME NEW p \in Callers, EvictDead(p) \/ DropEntry(p) \/ StartFails(p) \/ TransferEnds(p)
      PROVE  Borrows(p)
  <2>1. pooled' \in {pooled, None}
    BY <1>4, EntryPooled DEF EvictDead, DropEntry, StartFails, TransferEnds, poolVars
  <2> QED BY <1>4, <2>1 DEF EvictDead, DropEntry, StartFails, TransferEnds, Goto, Return, TypeOK,
                            Borrows, shellVars
<1>5. ASSUME NEW p \in Callers, Start(p) PROVE Fresh'
  <2>1. /\ pc[p] = "start" /\ pc'[p] = "idle" /\ client'[p] = None
        /\ \A q \in Callers : q # p => pc'[q] = pc[q] /\ client'[q] = client[q]
    BY <1>5 DEF Start, Return, Goto, TypeOK
  <2>2. /\ pooled' = pooled /\ started' = started + 1 /\ started \in Nat
        /\ \A h \in Shells : over'[h] = over[h] \/ over'[h] = client[p]
        /\ \A h \in Shells : h # started + 1 => loop'[h] = loop[h]
    BY <1>5 DEF Start, TypeOK, poolVars
  <2>3. ASSUME NEW q \in Callers, pc'[q] = "insert"
        PROVE  /\ client'[q] # None /\ client'[q] # pooled'
               /\ \A r \in Callers : r # q => client'[r] # client'[q]
               /\ \A h \in Shells : over'[h] # client'[q]
    BY <2>1, <2>2, <2>3 DEF Fresh
  <2>4. ASSUME NEW h \in Shells, h > started' PROVE loop'[h] = "none"
    BY <2>2, <2>4 DEF Fresh
  <2> QED BY <2>3, <2>4 DEF Fresh
<1>6. ASSUME NEW p \in Callers, Dial(p) PROVE Fresh'
  <2>1. /\ client'[p] = dialed + 1 /\ dialed \in Nat
        /\ \A q \in Callers : q # p => pc'[q] = pc[q] /\ client'[q] = client[q]
        /\ UNCHANGED <<pooled, over, started, loop>>
    BY <1>6 DEF Dial, Goto, TypeOK, poolVars, shellVars
  <2>2. /\ pooled \in 0 .. dialed /\ client \in [Callers -> 0 .. dialed]
        /\ over \in [Shells -> 0 .. dialed]
    BY DEF TypeOK
  <2>3. /\ pooled # dialed + 1 /\ \A q \in Callers : client[q] # dialed + 1
        /\ \A h \in Shells : over[h] # dialed + 1
    BY <2>1, <2>2
  <2> QED BY <2>1, <2>3 DEF Fresh
<1>7. ASSUME NEW p \in Callers, Insert(p) PROVE Fresh'
  <2>1. /\ pc[p] = "insert" /\ pc'[p] # "insert"
        /\ \A q \in Callers : q # p => pc'[q] = pc[q] /\ client'[q] = client[q]
        /\ UNCHANGED <<over, started, loop>>
    BY <1>7 DEF Insert, Acquired, Goto, TypeOK, shellVars
  <2>2. \/ pooled' = pooled /\ client'[p] = pooled
        \/ pooled' = client[p] /\ client'[p] = client[p]
    BY <1>7 DEF Insert, TypeOK
  <2> QED BY <2>1, <2>2 DEF Fresh
<1>8. ASSUME NEW c \in Clients, KeepaliveGivesUp(c) \/ ConnectionLost(c) PROVE Fresh'
  <2>1. pooled' \in {pooled, None} /\ UNCHANGED <<pc, client, over, started, loop>>
    BY <1>8, EntryPooled DEF KeepaliveGivesUp, ConnectionLost, poolVars, callVars, shellVars
  <2> QED BY <2>1 DEF Fresh
<1>9. ASSUME NEW h \in Shells, ShellEnds(h) \/ LoopStep(h) PROVE Fresh'
  <2>1. pooled' \in {pooled, None} /\ UNCHANGED <<pc, client, over, started>>
    BY <1>9, EntryPooled DEF LoopStep, ShellEnds, ObserveExit, CloseHandle, ReleaseHandle, poolVars, callVars
  <2>2. \A x \in Shells : loop[x] = "none" => loop'[x] = "none"
    BY <1>9 DEF LoopStep, ShellEnds, ObserveExit, CloseHandle, ReleaseHandle, AtLoop, TypeOK
  <2> QED BY <2>1, <2>2 DEF Fresh
<1>10. CASE UNCHANGED vars
  BY <1>10 DEF vars, Fresh, poolVars, callVars, shellVars
<1> QED BY <1>1, <1>2, <1>3, <1>4, <1>5, <1>6, <1>7, <1>8, <1>9, <1>10 DEF Next, CallerStep

-----------------------------------------------------------------------------
(* RefsExact for one client c, so that both sides of a step speak of the same. *)
Exact(c) ==
  /\ refs >= 1
  /\ refs + strays = Cardinality(HoldingCallers(c)) + Cardinality(HoldingShells(c))

LEMMA HoldersFinite ==
  ASSUME NEW c
  PROVE  /\ IsFiniteSet(HoldingCallers(c)) /\ Cardinality(HoldingCallers(c)) \in Nat
         /\ IsFiniteSet(HoldingShells(c)) /\ Cardinality(HoldingShells(c)) \in Nat
<1>1. HoldingCallers(c) \subseteq Callers /\ HoldingShells(c) \subseteq 1 .. MaxShells
  BY DEF HoldingCallers, HoldingShells
<1>2. IsFiniteSet(1 .. MaxShells)
  BY FS_Interval
<1>3. IsFiniteSet(HoldingCallers(c)) /\ IsFiniteSet(HoldingShells(c))
  BY <1>1, <1>2, FS_Subset
<1> QED BY <1>3, FS_CardinalityType

(* A release by a holder of c that leaves c pooled. *)
LEMMA ReleaseCounts ==
  ASSUME TypeOK, NEW c \in Clients, NEW mine, pooled' = c, Release(mine)
  PROVE  /\ pooled = c /\ refs > 1 /\ refs' = refs - 1
         /\ strays' = IF mine = c THEN strays ELSE strays + 1
<1>1. pooled # None /\ ~RemoveEntry
  BY DEF Release, RemoveEntry, poolVars
<1> QED BY <1>1 DEF Release, TypeOK

(* A caller that does not hold c before or after a step changes no holder. *)
LEMMA SameCallers ==
  ASSUME NEW c, NEW p \in Callers,
         \A q \in Callers : q # p => pc'[q] = pc[q] /\ client'[q] = client[q],
         pc[p] \notin {"start", "using"}, pc'[p] \notin {"start", "using"}
  PROVE  HoldingCallers(c)' = HoldingCallers(c)
BY DEF HoldingCallers

LEMMA CallerLets ==
  ASSUME TypeOK, NEW c \in Clients, NEW p \in Callers, pc[p] \in {"start", "using"}, Return(p)
  PROVE  /\ client[p] = c => /\ p \in HoldingCallers(c)
                              /\ HoldingCallers(c)' = HoldingCallers(c) \ {p}
         /\ client[p] # c => HoldingCallers(c)' = HoldingCallers(c)
<1>1. /\ pc'[p] = "idle" /\ client'[p] = None
      /\ \A q \in Callers : q # p => pc'[q] = pc[q] /\ client'[q] = client[q]
  BY DEF Return, Goto, TypeOK
<1> QED BY <1>1 DEF HoldingCallers

LEMMA CallerHolds ==
  ASSUME NEW c, NEW p \in Callers, pc[p] \notin {"start", "using"},
         pc'[p] \in {"start", "using"}, client'[p] = c,
         \A q \in Callers : q # p => pc'[q] = pc[q] /\ client'[q] = client[q]
  PROVE  p \notin HoldingCallers(c) /\ HoldingCallers(c)' = HoldingCallers(c) \cup {p}
BY DEF HoldingCallers

LEMMA ExactCaller ==
  ASSUME TypeOK, Fresh, NEW c \in Clients, pooled' = c, pooled = c => Exact(c),
         NEW p \in Callers, CallerStep(p)
  PROVE  Exact(c)'
<1>0. refs \in Nat /\ strays \in Nat
  BY DEF TypeOK
<1>1. ASSUME HoldingCallers(c)' = HoldingCallers(c), HoldingShells(c)' = HoldingShells(c),
             UNCHANGED <<pooled, refs, strays>>
      PROVE  Exact(c)'
  BY <1>1 DEF Exact
<1>2. CASE Look(p) \/ Probe(p) \/ DialFails(p) \/ ShutShell(p) \/ Dial(p) \/ EvictDead(p) \/ DropEntry(p)
  <2>1. UNCHANGED <<pooled, refs, strays, over, loop>>
    BY <1>2 DEF Look, Probe, DialFails, ShutShell, Dial, EvictDead, DropEntry, Evict, RemoveEntry,
                poolVars, shellVars
  <2>2. /\ \A q \in Callers : q # p => pc'[q] = pc[q] /\ client'[q] = client[q]
        /\ pc[p] \notin {"start", "using"} /\ pc'[p] \notin {"start", "using"}
    BY <1>2 DEF Look, Probe, DialFails, ShutShell, Dial, EvictDead, DropEntry, Goto, Return, TypeOK
  <2>3. HoldingShells(c)' = HoldingShells(c)
    BY <2>1 DEF HoldingShells
  <2> QED BY <1>1, <2>1, <2>2, <2>3, SameCallers
<1>3. ASSUME pooled = c, refs' = refs + 1, UNCHANGED <<strays, over, loop>>,
             pc[p] \notin {"start", "using"}, pc'[p] \in {"start", "using"}, client'[p] = c,
             \A q \in Callers : q # p => pc'[q] = pc[q] /\ client'[q] = client[q]
      PROVE  Exact(c)'
  <2>1. p \notin HoldingCallers(c) /\ HoldingCallers(c)' = HoldingCallers(c) \cup {p}
    BY <1>3, CallerHolds
  <2>2. HoldingShells(c)' = HoldingShells(c)
    BY <1>3 DEF HoldingShells
  <2>3. Cardinality(HoldingCallers(c)') = Cardinality(HoldingCallers(c)) + 1
    BY <2>1, HoldersFinite, FS_AddElement
  <2> QED BY <1>0, <1>3, <2>2, <2>3, HoldersFinite DEF Exact
<1>4. CASE Share(p)
  <2>1. CASE pooled = client[p]
    BY <1>3, <1>4, <2>1 DEF Share, Acquired, Goto, TypeOK, shellVars
  <2>2. CASE pooled # client[p]
    <3>1. UNCHANGED <<pooled, refs, strays, over, loop>>
      BY <1>4, <2>2 DEF Share, shellVars
    <3>2. /\ \A q \in Callers : q # p => pc'[q] = pc[q] /\ client'[q] = client[q]
          /\ pc[p] \notin {"start", "using"} /\ pc'[p] \notin {"start", "using"}
      BY <1>4, <2>2 DEF Share, Goto, TypeOK
    <3>3. HoldingShells(c)' = HoldingShells(c)
      BY <3>1 DEF HoldingShells
    <3> QED BY <1>1, <3>1, <3>2, <3>3, SameCallers
  <2> QED BY <2>1, <2>2
<1>5. CASE Insert(p)
  <2>1. CASE pooled # None
    BY <1>3, <1>5, <2>1 DEF Insert, Acquired, Goto, TypeOK, shellVars
  <2>2. CASE pooled = None
    <3>1. /\ pc[p] = "insert" /\ client[p] = c /\ client'[p] = c /\ refs' = 1 /\ strays' = 0
          /\ pc'[p] \in {"start", "using"} /\ UNCHANGED <<over, loop>>
          /\ \A q \in Callers : q # p => pc'[q] = pc[q] /\ client'[q] = client[q]
      BY <1>5, <2>2 DEF Insert, Acquired, Goto, TypeOK, shellVars
    <3>2. HoldingCallers(c)' = {p} /\ HoldingShells(c)' = {}
      BY <3>1 DEF Fresh, HoldingCallers, HoldingShells
    <3> QED BY <3>1, <3>2, FS_Singleton, FS_EmptySet DEF Exact
  <2> QED BY <2>1, <2>2
<1>6. CASE Start(p)
  <2>1. /\ pc[p] = "start" /\ Return(p) /\ UNCHANGED <<pooled, refs, strays>>
        /\ started + 1 \in Shells /\ started' = started + 1
        /\ over' = [over EXCEPT ![started + 1] = client[p]]
        /\ loop' = [loop EXCEPT ![started + 1] = "wait"]
        /\ loop[started + 1] = "none"
    BY <1>6 DEF Start, poolVars, Fresh, TypeOK
  <2>2. over \in [Shells -> 0 .. dialed]
        /\ loop \in [Shells -> {"none", "wait", "close", "release", "done"}]
    BY DEF TypeOK
  <2>3. CASE client[p] = c
    <3>1. started + 1 \notin HoldingShells(c) /\ HoldingShells(c)' = HoldingShells(c) \cup {started + 1}
      BY <2>1, <2>2, <2>3 DEF HoldingShells
    <3>2. p \in HoldingCallers(c) /\ HoldingCallers(c)' = HoldingCallers(c) \ {p}
      BY <2>1, <2>3, CallerLets
    <3>3. Cardinality(HoldingShells(c)') = Cardinality(HoldingShells(c)) + 1
      BY <3>1, HoldersFinite, FS_AddElement
    <3>4. Cardinality(HoldingCallers(c)') = Cardinality(HoldingCallers(c)) - 1
      BY <3>2, HoldersFinite, FS_RemoveElement
    <3> QED BY <1>0, <2>1, <3>3, <3>4, HoldersFinite DEF Exact
  <2>4. CASE client[p] # c
    <3>1. HoldingShells(c)' = HoldingShells(c)
      BY <2>1, <2>2, <2>4 DEF HoldingShells
    <3>2. HoldingCallers(c)' = HoldingCallers(c)
      BY <2>1, <2>4, CallerLets
    <3> QED BY <1>1, <2>1, <3>1, <3>2
  <2> QED BY <2>3, <2>4
<1>7. CASE StartFails(p) \/ TransferEnds(p)
  <2>1. /\ pc[p] \in {"start", "using"} /\ Return(p) /\ Release(client[p])
        /\ UNCHANGED <<over, loop>>
    BY <1>7 DEF StartFails, TransferEnds, shellVars
  <2>2. /\ pooled = c /\ refs > 1 /\ refs' = refs - 1
        /\ strays' = IF client[p] = c THEN strays ELSE strays + 1
    BY <2>1, ReleaseCounts
  <2>3. HoldingShells(c)' = HoldingShells(c)
    BY <2>1 DEF HoldingShells
  <2>4. Cardinality(HoldingCallers(c)') = Cardinality(HoldingCallers(c)) - (IF client[p] = c THEN 1 ELSE 0)
    BY <2>1, CallerLets, HoldersFinite, FS_RemoveElement
  <2> QED BY <1>0, <2>2, <2>3, <2>4, HoldersFinite DEF Exact
<1> QED BY <1>2, <1>4, <1>5, <1>6, <1>7 DEF CallerStep

LEMMA ExactStep == TypeOK /\ Fresh /\ RefsExact /\ [Next]_vars => RefsExact'
<1> SUFFICES ASSUME TypeOK, Fresh, RefsExact, [Next]_vars, pooled' # None PROVE RefsExact'
  BY DEF RefsExact
<1>1. pooled' \in Clients
  BY TypeStep DEF TypeOK
<1>2. PICK c \in Clients : pooled' = c
  BY <1>1
<1>3. pooled = c => Exact(c)
  BY DEF RefsExact, Exact
<1>4. SUFFICES Exact(c)'
  BY <1>2 DEF RefsExact, Exact, HoldingCallers, HoldingShells
<1>0. refs \in Nat /\ strays \in Nat
  BY DEF TypeOK
<1>5. ASSUME NEW p \in Callers, CallerStep(p) PROVE Exact(c)'
  BY <1>2, <1>3, <1>5, ExactCaller
<1>6. ASSUME NEW p \in Callers, NEW s \in Sessions, Create(p, s) \/ Transfer(p, s) \/ Reconnect(p, s)
      PROVE  Exact(c)'
  <2>1. /\ UNCHANGED <<pooled, refs, strays, over, loop>>
        /\ \A q \in Callers : q # p => pc'[q] = pc[q] /\ client'[q] = client[q]
        /\ pc[p] \notin {"start", "using"} /\ pc'[p] \notin {"start", "using"}
    BY <1>6 DEF Create, Transfer, Reconnect, Begin, Goto, TypeOK, poolVars, shellVars
  <2>2. HoldingShells(c)' = HoldingShells(c) /\ HoldingCallers(c)' = HoldingCallers(c)
    BY <2>1, SameCallers DEF HoldingShells
  <2> QED BY <1>2, <1>3, <2>1, <2>2 DEF Exact
<1>7. ASSUME NEW k \in Clients, KeepaliveGivesUp(k) \/ ConnectionLost(k) PROVE Exact(c)'
  <2>1. UNCHANGED <<pooled, refs, strays, pc, client, over, loop>>
    BY <1>2, <1>7 DEF KeepaliveGivesUp, ConnectionLost, Evict, RemoveEntry, poolVars, callVars, shellVars
  <2> QED BY <1>2, <1>3, <2>1 DEF Exact, HoldingCallers, HoldingShells
<1>8. ASSUME NEW h \in Shells, ShellEnds(h) \/ ObserveExit(h) \/ CloseHandle(h) PROVE Exact(c)'
  <2>1. /\ UNCHANGED <<pooled, refs, strays, pc, client, over>>
        /\ \A x \in Shells : loop'[x] \in {"wait", "close", "release"} <=>
                              loop[x] \in {"wait", "close", "release"}
    BY <1>8 DEF ShellEnds, ObserveExit, CloseHandle, AtLoop, poolVars, callVars, TypeOK
  <2> QED BY <1>2, <1>3, <2>1 DEF Exact, HoldingCallers, HoldingShells
<1>9. ASSUME NEW h \in Shells, ReleaseHandle(h) PROVE Exact(c)'
  <2>1. /\ Release(over[h]) /\ UNCHANGED <<pc, client, over>>
        /\ loop[h] = "release" /\ loop'[h] = "done"
        /\ \A x \in Shells : x # h => loop'[x] = loop[x]
    BY <1>9 DEF ReleaseHandle, AtLoop, callVars, TypeOK
  <2>2. /\ pooled = c /\ refs > 1 /\ refs' = refs - 1
        /\ strays' = IF over[h] = c THEN strays ELSE strays + 1
    BY <1>2, <2>1, ReleaseCounts
  <2>3. HoldingCallers(c)' = HoldingCallers(c)
    BY <2>1 DEF HoldingCallers
  <2>4. /\ over[h] = c => h \in HoldingShells(c) /\ HoldingShells(c)' = HoldingShells(c) \ {h}
        /\ over[h] # c => HoldingShells(c)' = HoldingShells(c)
    BY <2>1 DEF HoldingShells
  <2>5. Cardinality(HoldingShells(c)') = Cardinality(HoldingShells(c)) - (IF over[h] = c THEN 1 ELSE 0)
    BY <2>4, HoldersFinite, FS_RemoveElement
  <2> QED BY <1>0, <1>3, <2>2, <2>3, <2>5, HoldersFinite DEF Exact
<1>10. CASE UNCHANGED vars
  BY <1>2, <1>3, <1>10 DEF vars, Exact, HoldingCallers, HoldingShells, poolVars, callVars, shellVars
<1> QED BY <1>5, <1>6, <1>7, <1>8, <1>9, <1>10 DEF Next, LoopStep

(* The count of the pooled client is the number of its holders less the
   releases of strangers. *)
THEOREM CountIsExact == Spec => []RefsExact
<1>1. Init => TypeOK /\ Fresh /\ RefsExact
  BY DEF Init, TypeOK, Fresh, RefsExact
<1> QED BY <1>1, TypeStep, FreshStep, ExactStep, PTL DEF Spec

-----------------------------------------------------------------------------
(* How the output of a session reaches the Hub.                            *)
SendSteps == {"none", "created", "preview", "flush", "tick", "send", "lastsend", "over"}

PreviewTypeOK ==
  /\ link \in {"none", "open", "broken"}
  /\ opened \in 0..MaxConns /\ starting \subseteq Conns
  /\ losses \in Nat /\ dropping \in Nat
  /\ flusher \in 0..MaxConns /\ told \subseteq 0..MaxConns
  /\ step \in [Senders -> SendSteps]
  /\ hand \in [Senders -> SUBSET Lines]
  /\ pending \subseteq Lines /\ queueing \subseteq Lines /\ shown \subseteq Lines
  /\ printed \in 0..MaxLines

(* A goroutine holds lines only while it is about to send them, so that    *)
(* taking new ones overwrites none.                                        *)
HandsSend == \A p \in Senders : hand[p] # {} => step[p] \in {"send", "lastsend"}

(* The goroutines of a connect do nothing before they are started.         *)
NotYetStarted ==
  \A n \in Conns :
    /\ n \in starting => n <= opened /\ step[Flush(n)] = "none"
    /\ n > opened => step[Sync(n)] = "none" /\ step[Flush(n)] = "none"

PreviewInv == PreviewTypeOK /\ HandsSend /\ NotYetStarted /\ NoLineForgotten

(* A sync that has yet to queue the whole preview again.                   *)
SyncAhead == \E n \in Conns : step[Sync(n)] \in {"created", "preview"}

LEMMA SendersDiffer ==
  /\ \A n \in Conns : Sync(n) \in Senders /\ Flush(n) \in Senders
  /\ \A n, m \in Conns : /\ Sync(n) # Flush(m)
                         /\ Sync(n) = Sync(m) => n = m
                         /\ Flush(n) = Flush(m) => n = m
  /\ \A p \in Senders : \E n \in Conns : p = Sync(n) \/ p = Flush(n)
<1>1. \A n \in Conns : Sync(n) \in Senders /\ Flush(n) \in Senders
  BY DEF Sync, Flush, Senders
<1>2. \A n, m \in Conns : Sync(n) # Flush(m)
  BY DEF Sync, Flush
<1>3. \A n, m \in Conns : (Sync(n) = Sync(m) => n = m) /\ (Flush(n) = Flush(m) => n = m)
  BY DEF Sync, Flush
<1>4. \A p \in Senders : \E n \in Conns : p = Sync(n) \/ p = Flush(n)
  BY DEF Sync, Flush, Senders
<1> QED BY <1>1, <1>2, <1>3, <1>4

LEMMA PreviewStart == PreviewInit => PreviewInv
<1> SUFFICES ASSUME PreviewInit PROVE PreviewInv
  OBVIOUS
<1>1. PreviewTypeOK
  <2>1. step \in [Senders -> {"none"}] /\ hand \in [Senders -> SUBSET Lines]
    BY DEF PreviewInit
  <2>2. opened \in 0..MaxConns /\ flusher \in 0..MaxConns /\ printed \in 0..MaxLines
        /\ losses \in Nat /\ dropping \in Nat
    BY HubPreviewAssumption DEF PreviewInit
  <2> QED BY <2>1, <2>2 DEF PreviewInit, PreviewTypeOK, SendSteps
<1>2. HandsSend /\ NotYetStarted /\ NoLineForgotten
  BY SendersDiffer DEF PreviewInit, HandsSend, NotYetStarted, NoLineForgotten
<1> QED BY <1>1, <1>2 DEF PreviewInv

(* A connect, and the start of its flusher.                                *)
LEMMA ConnectKeeps ==
  ASSUME PreviewInv, Connect
  PROVE  PreviewInv'
<1> DEFINE n == opened + 1
<1>1. /\ n \in Conns /\ n \in Nat /\ opened \in Nat /\ opened' = n
      /\ link' = "open" /\ starting' = starting \cup {n}
      /\ step' = [step EXCEPT ![Sync(n)] = "created"] /\ Sync(n) \in Senders
      /\ UNCHANGED <<losses, dropping, flusher, told, hand, pending, printed, queueing, shown>>
  BY HubPreviewAssumption, SendersDiffer
     DEF Connect, GoTo, flushVars, lineVars, Conns, PreviewInv, PreviewTypeOK
<1>2. PreviewTypeOK'
  <2>1. opened' \in 0..MaxConns /\ starting' \subseteq Conns
    BY <1>1 DEF PreviewInv, PreviewTypeOK, Conns
  <2>2. step' \in [Senders -> SendSteps]
    BY <1>1 DEF PreviewInv, PreviewTypeOK, SendSteps
  <2> QED BY <1>1, <2>1, <2>2 DEF PreviewInv, PreviewTypeOK
<1>3. step[Sync(n)] = "none" /\ step[Flush(n)] = "none"
  BY <1>1 DEF PreviewInv, NotYetStarted
<1>4. HandsSend'
  BY <1>1, <1>3 DEF PreviewInv, PreviewTypeOK, HandsSend
<1>5. NotYetStarted'
  <2> SUFFICES ASSUME NEW m \in Conns
               PROVE  /\ m \in starting' => m <= opened' /\ step'[Flush(m)] = "none"
                      /\ m > opened' => step'[Sync(m)] = "none" /\ step'[Flush(m)] = "none"
    BY DEF NotYetStarted
  <2>1. step'[Flush(m)] = step[Flush(m)]
    BY <1>1, SendersDiffer DEF PreviewInv, PreviewTypeOK
  <2>2. m \in starting' => m <= opened' /\ step[Flush(m)] = "none"
    BY <1>1, <1>3 DEF PreviewInv, NotYetStarted, Conns
  <2>3. m > opened' => m > opened /\ m # n /\ step'[Sync(m)] = step[Sync(m)]
    BY <1>1, SendersDiffer DEF PreviewInv, PreviewTypeOK, Conns
  <2> QED BY <2>1, <2>2, <2>3 DEF PreviewInv, NotYetStarted
<1>6. SyncAhead'
  BY <1>1 DEF SyncAhead, PreviewInv, PreviewTypeOK
<1> QED BY <1>2, <1>4, <1>5, <1>6 DEF PreviewInv, NoLineForgotten, SyncAhead

LEMMA StartFlusherKeeps ==
  ASSUME PreviewInv, NEW n \in Conns, StartFlusher(n)
  PROVE  PreviewInv'
<1>1. /\ n \in starting /\ starting' = starting \ {n} /\ flusher' = n
      /\ step' = [step EXCEPT ![Flush(n)] = "tick"] /\ Flush(n) \in Senders
      /\ UNCHANGED <<link, opened, losses, dropping, told, hand, pending, printed, queueing, shown>>
  BY SendersDiffer DEF StartFlusher, GoTo, lineVars
<1>2. step[Flush(n)] = "none" /\ n <= opened /\ n \in 0..MaxConns
  BY <1>1, HubPreviewAssumption DEF PreviewInv, NotYetStarted, Conns
<1>3. PreviewTypeOK'
  BY <1>1, <1>2 DEF PreviewInv, PreviewTypeOK, SendSteps
<1>4. HandsSend'
  BY <1>1, <1>2 DEF PreviewInv, PreviewTypeOK, HandsSend
<1>5. \A m \in Conns : step'[Sync(m)] = step[Sync(m)] /\ (m # n => step'[Flush(m)] = step[Flush(m)])
  BY <1>1, SendersDiffer DEF PreviewInv, PreviewTypeOK
<1>6. \A m \in Conns : m > opened => m # n
  BY <1>2, HubPreviewAssumption DEF Conns, PreviewInv, PreviewTypeOK
<1>7. NotYetStarted'
  BY <1>1, <1>5, <1>6 DEF PreviewInv, NotYetStarted
<1>8. NoLineForgotten'
  BY <1>1, <1>5 DEF PreviewInv, NoLineForgotten, OnTheWay
<1> QED BY <1>3, <1>4, <1>7, <1>8 DEF PreviewInv

(* Steps of the connection and of the session's output.                    *)
LEMMA OutsideKeeps ==
  ASSUME PreviewInv, Break \/ StopFlusher \/ Drop \/ OutputLine \/ Queue
  PROVE  PreviewInv'
<1>1. CASE Break \/ StopFlusher \/ Drop
  <2>1. UNCHANGED <<opened, starting, flusher, step, hand, pending, printed, queueing, shown>>
        /\ (link' = link \/ link' \in {"none", "broken"})
    BY <1>1 DEF Break, StopFlusher, Drop, flushVars, lineVars
  <2>2. PreviewTypeOK'
    <3>1. losses' \in Nat /\ dropping' \in Nat
      BY <1>1 DEF Break, StopFlusher, Drop, PreviewInv, PreviewTypeOK
    <3>2. told' \subseteq 0..MaxConns
      BY <1>1 DEF Break, StopFlusher, Drop, flushVars, PreviewInv, PreviewTypeOK
    <3> QED BY <2>1, <3>1, <3>2 DEF PreviewInv, PreviewTypeOK
  <2> QED BY <2>1, <2>2 DEF PreviewInv, HandsSend, NotYetStarted, NoLineForgotten, OnTheWay
<1>2. CASE OutputLine
  <2>1. /\ queueing = {} /\ printed < MaxLines /\ printed' = printed + 1 /\ queueing' = {printed'}
        /\ UNCHANGED <<link, opened, starting, losses, dropping, flusher, told, step, hand, pending, shown>>
    BY <1>2 DEF OutputLine, linkVars, flushVars
  <2>2. printed' \in 0..MaxLines /\ queueing' \subseteq Lines /\ 1..printed' = 1..printed \cup {printed'}
    BY <2>1, HubPreviewAssumption DEF PreviewInv, PreviewTypeOK, Lines
  <2>3. PreviewTypeOK'
    BY <2>1, <2>2 DEF PreviewInv, PreviewTypeOK
  <2>4. NoLineForgotten'
    BY <2>1, <2>2 DEF PreviewInv, NoLineForgotten, OnTheWay
  <2> QED BY <2>1, <2>3, <2>4 DEF PreviewInv, HandsSend, NotYetStarted
<1>3. CASE Queue
  <2>1. /\ pending' = pending \cup queueing /\ queueing' = {}
        /\ UNCHANGED <<link, opened, starting, losses, dropping, flusher, told, step, hand, printed, shown>>
    BY <1>3 DEF Queue, linkVars, flushVars
  <2>2. PreviewTypeOK'
    BY <2>1 DEF PreviewInv, PreviewTypeOK
  <2>3. NoLineForgotten'
    BY <2>1 DEF PreviewInv, NoLineForgotten, OnTheWay
  <2> QED BY <2>1, <2>2, <2>3 DEF PreviewInv, HandsSend, NotYetStarted
<1> QED BY <1>1, <1>2, <1>3

(* Who takes what is pending holds nothing yet: the lines stay on their way. *)
LEMMA TakeKeeps ==
  ASSUME PreviewInv, NEW p \in Senders, NEW to \in {"send", "lastsend"},
         step[p] \in {"tick", "flush"}, Take(p, to), told' \subseteq told
  PROVE  PreviewInv'
<1>1. /\ hand' = [hand EXCEPT ![p] = pending] /\ pending' = {} /\ step' = [step EXCEPT ![p] = to]
      /\ UNCHANGED <<link, opened, starting, losses, dropping, flusher, printed, queueing, shown>>
  BY DEF Take, GoTo, linkVars
<1>2. hand[p] = {}
  BY DEF PreviewInv, HandsSend
<1>3. PreviewTypeOK'
  BY <1>1 DEF PreviewInv, PreviewTypeOK, SendSteps
<1>4. HandsSend'
  BY <1>1 DEF PreviewInv, PreviewTypeOK, HandsSend
<1>5. NotYetStarted'
  <2>1. \A q \in Senders : step[q] = "none" => step'[q] = "none"
    BY <1>1 DEF PreviewInv, PreviewTypeOK
  <2> QED BY <1>1, <2>1, SendersDiffer DEF PreviewInv, NotYetStarted
<1>6. OnTheWay \subseteq OnTheWay'
  <2>1. \A q \in Senders : hand[q] \subseteq UNION {hand'[r] : r \in Senders}
    BY <1>1, <1>2 DEF PreviewInv, PreviewTypeOK
  <2>2. pending \subseteq UNION {hand'[r] : r \in Senders}
    BY <1>1 DEF PreviewInv, PreviewTypeOK
  <2> QED BY <1>1, <2>1, <2>2 DEF OnTheWay
<1>7. \A q \in Senders : step[q] \in {"created", "preview"} => step'[q] = step[q]
  BY <1>1 DEF PreviewInv, PreviewTypeOK
<1>8. NoLineForgotten'
  BY <1>1, <1>6, <1>7, SendersDiffer DEF PreviewInv, NoLineForgotten
<1> QED BY <1>3, <1>4, <1>5, <1>8 DEF PreviewInv

LEMMA SendKeeps ==
  ASSUME PreviewInv, NEW p \in Senders, Send(p)
  PROVE  PreviewInv'
<1>1. /\ step[p] \in {"send", "lastsend"}
      /\ shown' = IF link = "open" THEN shown \cup hand[p] ELSE shown
      /\ hand' = [hand EXCEPT ![p] = {}]
      /\ \E to \in {"tick", "over"} : step' = [step EXCEPT ![p] = to]
      /\ UNCHANGED <<link, opened, starting, losses, dropping, flusher, told, pending, printed, queueing>>
  BY DEF Send, GoTo, linkVars, flushVars
<1>2. PreviewTypeOK'
  BY <1>1 DEF PreviewInv, PreviewTypeOK, SendSteps
<1>3. HandsSend'
  BY <1>1 DEF PreviewInv, PreviewTypeOK, HandsSend
<1>4. \A q \in Senders : step[q] \in {"none", "created", "preview"} => step'[q] = step[q]
  BY <1>1 DEF PreviewInv, PreviewTypeOK
<1>5. NotYetStarted'
  BY <1>1, <1>4, SendersDiffer DEF PreviewInv, NotYetStarted
<1>6. link = "open" => shown \cup OnTheWay \subseteq shown' \cup OnTheWay'
  <2> SUFFICES ASSUME link = "open" PROVE shown \cup OnTheWay \subseteq shown' \cup OnTheWay'
    OBVIOUS
  <2>1. \A q \in Senders : hand[q] \subseteq hand[p] \cup UNION {hand'[r] : r \in Senders}
    BY <1>1 DEF PreviewInv, PreviewTypeOK
  <2> QED BY <1>1, <2>1 DEF OnTheWay
<1>7. NoLineForgotten'
  BY <1>1, <1>4, <1>6, SendersDiffer DEF PreviewInv, NoLineForgotten
<1> QED BY <1>2, <1>3, <1>5, <1>7 DEF PreviewInv

(* The goroutines of a connect.                                            *)
LEMMA SenderKeeps ==
  ASSUME PreviewInv, NEW n \in Conns, SyncStep(n) \/ FlushStep(n)
  PROVE  PreviewInv'
<1>0. Sync(n) \in Senders /\ Flush(n) \in Senders
  BY SendersDiffer
<1>1. CASE Announce(n) \/ Resend(n)
  <2>1. PICK to \in {"preview", "flush"} :
          /\ step[Sync(n)] \in {"created", "preview"} /\ step' = [step EXCEPT ![Sync(n)] = to]
          /\ to = "flush" => pending' = pending \cup 1 .. printed
    BY <1>1 DEF Announce, Resend, At, GoTo
  <2>2. /\ UNCHANGED <<link, opened, starting, losses, dropping, flusher, told, hand, printed, queueing>>
        /\ shown' \in {{}, shown} /\ pending' \in {pending, pending \cup 1 .. printed}
    BY <1>1 DEF Announce, Resend, linkVars, flushVars
  <2>3. PreviewTypeOK'
    <3>1. 1..printed \subseteq Lines
      BY HubPreviewAssumption DEF PreviewInv, PreviewTypeOK, Lines
    <3>2. pending' \subseteq Lines /\ shown' \subseteq Lines
      BY <2>2, <3>1 DEF PreviewInv, PreviewTypeOK
    <3>3. step' \in [Senders -> SendSteps]
      BY <1>0, <2>1 DEF PreviewInv, PreviewTypeOK, SendSteps
    <3> QED BY <2>2, <3>2, <3>3 DEF PreviewInv, PreviewTypeOK
  <2>4. HandsSend'
    BY <1>0, <2>1, <2>2 DEF PreviewInv, PreviewTypeOK, HandsSend
  <2>5. \A q \in Senders : step[q] = "none" => step'[q] = "none"
    BY <1>0, <2>1 DEF PreviewInv, PreviewTypeOK
  <2>6. NotYetStarted'
    BY <2>2, <2>5, SendersDiffer DEF PreviewInv, NotYetStarted
  <2>7. NoLineForgotten'
    <3>1. CASE to = "preview"
      <4>1. step'[Sync(n)] = "preview"
        BY <1>0, <2>1, <3>1 DEF PreviewInv, PreviewTypeOK
      <4> QED BY <4>1 DEF NoLineForgotten
    <3>2. CASE to = "flush"
      BY <2>1, <2>2, <3>2 DEF NoLineForgotten, OnTheWay
    <3> QED BY <2>1, <3>1, <3>2
  <2> QED BY <2>3, <2>4, <2>6, <2>7 DEF PreviewInv
<1>2. CASE SyncFlushes(n) \/ Tick(n) \/ FlusherStops(n)
  <2>1. PICK p \in Senders, to \in {"send", "lastsend"} :
          step[p] \in {"tick", "flush"} /\ Take(p, to) /\ told' \subseteq told
    BY <1>0, <1>2 DEF SyncFlushes, Tick, FlusherStops, At
  <2> QED BY <2>1, TakeKeeps
<1>3. CASE Send(Sync(n)) \/ Send(Flush(n))
  BY <1>0, <1>3, SendKeeps
<1> QED BY <1>1, <1>2, <1>3 DEF SyncStep, FlushStep

LEMMA PreviewInvariant == PreviewSpec => []PreviewInv
<1>1. PreviewInv /\ [PreviewNext]_previewVars => PreviewInv'
  <2>1. ASSUME PreviewInv, UNCHANGED previewVars PROVE PreviewInv'
    BY <2>1 DEF previewVars, linkVars, flushVars, lineVars, PreviewInv, PreviewTypeOK, HandsSend,
                NotYetStarted, NoLineForgotten, OnTheWay
  <2> QED BY <2>1, ConnectKeeps, OutsideKeeps, StartFlusherKeeps, SenderKeeps DEF PreviewNext
<1> QED BY <1>1, PreviewStart, PTL DEF PreviewSpec

(* While the connection is good, every line the session has printed is     *)
(* shown by the Hub, on its way to it, or about to be resent: reconnects   *)
(* in the middle of a flush, late announcements and second syncs included. *)
THEOREM EveryLineKnown == PreviewSpec => []NoLineForgotten
<1>1. PreviewInv => NoLineForgotten
  BY DEF PreviewInv
<1> QED BY <1>1, PreviewInvariant, PTL

(* A flush never overwrites lines that were taken and not yet sent.        *)
THEOREM NoHandOverwritten == PreviewSpec => []HandsSend
<1>1. PreviewInv => HandsSend
  BY DEF PreviewInv
<1> QED BY <1>1, PreviewInvariant, PTL
===============================================================================
