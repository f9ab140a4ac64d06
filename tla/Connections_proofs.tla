--------------------------- MODULE Connections_proofs ---------------------------
(***************************************************************************)
(* Theorems about the two ends of the connections between desktops and the *)
(* Hub: DeviceGateway, for any number of connections, machines, users and  *)
(* platforms, and HubClient, for any number of connections and calls.      *)
(*                                                                         *)
(* At the Hub, Typed is inductive by itself and holds what the three state *)
(* properties rest on: a connection that is past its authentication names  *)
(* a machine, and cleanupConnection has platforms to visit only while it   *)
(* runs.                                                                   *)
(***************************************************************************)
EXTENDS DeviceGateway, HubClient, TLAPS

Authenticated ==
  \A c \in Conns :
    pc[c] \in {"bind", "ready", "unbind", "offline", "release"} => machine[c] \in Machines

TodoInRelease == \A c \in Conns : todo[c] # {} => pc[c] = "release"

OwnerHasSeq == \A p \in Platforms : owner[p] # Free => owner[p].seq # 0

Typed == TypeOK /\ Authenticated /\ TodoInRelease /\ OwnerHasSeq

-----------------------------------------------------------------------------
LEMMA TypedInit == Init => Typed
  BY GatewayAssumption DEF Init, Typed, TypeOK, Authenticated, TodoInRelease, OwnerHasSeq, Free, Idle, Locations

LEMMA TypedHandle ==
  ASSUME Typed, NEW c \in Conns, Handle(c)
  PROVE  Typed'
<1>1. CASE MarkOnline(c)
  BY <1>1 DEF MarkOnline, Reading, claimVars, Typed, TypeOK, Authenticated, TodoInRelease, OwnerHasSeq
<1>2. CASE \E m \in Machines : Authenticate(c, m)
  BY <1>2 DEF Authenticate, Goto, claimVars, Typed, TypeOK, Authenticated, TodoInRelease, OwnerHasSeq, Locations
<1>3. ASSUME NEW p \in Platforms, ClaimGateway(c, p) PROVE Typed'
  <2>1. machine[c] \in Machines /\ claimSeq'[p] = claimSeq[p] + 1 /\ claimSeq[p] \in Nat
    BY <1>3 DEF ClaimGateway, Reading, Typed, TypeOK, Authenticated
  <2>2. TypeOK'
    BY <1>3, <2>1 DEF ClaimGateway, deviceVars, Typed, TypeOK
  <2>3. OwnerHasSeq'
    BY <1>3, <2>1 DEF ClaimGateway, Typed, TypeOK, OwnerHasSeq
  <2>4. Authenticated' /\ TodoInRelease'
    BY <1>3 DEF ClaimGateway, deviceVars, Typed, Authenticated, TodoInRelease
  <2> QED BY <2>2, <2>3, <2>4 DEF Typed
<1>4. ASSUME NEW p \in Platforms, Unclaim(c, p) PROVE Typed'
  <2>1. TypeOK'
    BY <1>4 DEF Unclaim, ReleaseMachine, Free, deviceVars, Typed, TypeOK
  <2>2. OwnerHasSeq'
    BY <1>4 DEF Unclaim, ReleaseMachine, Typed, TypeOK, OwnerHasSeq
  <2>3. Authenticated' /\ TodoInRelease'
    BY <1>4 DEF Unclaim, deviceVars, Typed, Authenticated, TodoInRelease
  <2> QED BY <2>1, <2>2, <2>3 DEF Typed
<1> QED BY <1>1, <1>2, <1>3, <1>4 DEF Handle

LEMMA TypedStep ==
  ASSUME Typed, NEW c \in Conns, Step(c)
  PROVE  Typed'
<1>1. CASE BindDesktop(c)
  BY <1>1 DEF BindDesktop, Goto, claimVars, Typed, TypeOK, Authenticated, TodoInRelease, OwnerHasSeq, Locations
<1>2. CASE Unbind(c)
  BY <1>2 DEF Unbind, Goto, claimVars, Typed, TypeOK, Authenticated, TodoInRelease, OwnerHasSeq, Locations
<1>3. CASE MarkOffline(c)
  BY <1>3 DEF MarkOffline, Goto, claimVars, Typed, TypeOK, Authenticated, TodoInRelease, OwnerHasSeq, Locations
<1>4. ASSUME NEW p \in Platforms, Release(c, p) PROVE Typed'
  <2>1. \A q \in Platforms : owner'[q] = owner[q] \/ owner'[q] = Free
    BY <1>4 DEF Release, ReleaseMachine, ReleaseBySeq, Typed, TypeOK
  <2>2. owner' \in [Platforms -> [machine : Machines \cup {NoMachine}, seq : Nat]]
    BY <1>4 DEF Release, ReleaseMachine, ReleaseBySeq, Free, Typed, TypeOK
  <2>3. TypeOK'
    BY <1>4, <2>2 DEF Release, deviceVars, Typed, TypeOK
  <2>4. OwnerHasSeq'
    BY <2>1 DEF Typed, OwnerHasSeq
  <2>5. Authenticated' /\ TodoInRelease'
    BY <1>4 DEF Release, deviceVars, Typed, TypeOK, Authenticated, TodoInRelease
  <2> QED BY <2>3, <2>4, <2>5 DEF Typed
<1> QED BY <1>1, <1>2, <1>3, <1>4 DEF Step

LEMMA TypedAdmin == Typed /\ Admin => Typed'
<1> SUFFICES ASSUME Typed, Admin PROVE Typed'
  OBVIOUS
<1> USE DEF Typed, TypeOK, Authenticated, TodoInRelease, OwnerHasSeq, claimVars
<1>1. ASSUME NEW u \in Users, ForceDelete(u) PROVE Typed'
  BY <1>1, GatewayAssumption DEF ForceDelete, Idle
<1>2. ASSUME NEW ms, ClearOffline(ms) PROVE Typed'
  BY <1>2 DEF ClearOffline
<1>3. ASSUME NEW m \in Machines, CheckOffline(m) PROVE Typed'
  BY <1>3 DEF CheckOffline, Idle, deviceVars
<1>4. CASE SweepRegistry
  <2> DEFINE swept == {m \in Machines : UserOf[m] = admin.user /\ registry[m] # NoConn}
             cs == {registry[m] : m \in swept}
  <2>1. cs \in SUBSET Conns
    OBVIOUS
  <2>2. admin' = [admin EXCEPT !.op = "close", !.conns = cs]
    BY <1>4 DEF SweepRegistry
  <2> HIDE DEF cs
  <2>3. admin' \in [op : {"idle", "sweep", "close", "delete"}, user : Users \cup {NoUser},
                    machine : Machines \cup {NoMachine}, conns : SUBSET Conns]
    BY <2>1, <2>2
  <2>4. registry' \in [Machines -> Conns \cup {NoConn}]
    BY <1>4 DEF SweepRegistry
  <2> QED BY <1>4, <2>3, <2>4 DEF SweepRegistry
<1>5. CASE CloseSwept
  BY <1>5 DEF CloseSwept, Idle, deviceVars
<1>6. CASE DeleteRow
  BY <1>6 DEF DeleteRow, Idle
<1> QED BY <1>1, <1>2, <1>3, <1>4, <1>5, <1>6 DEF Admin

LEMMA TypedNext == Typed /\ [Next]_vars => Typed'
<1> SUFFICES ASSUME Typed, [Next]_vars PROVE Typed'
  OBVIOUS
<1>1. ASSUME NEW c \in Conns, ReadError(c) PROVE Typed'
  BY <1>1 DEF ReadError, Goto, deviceVars, claimVars, Typed, TypeOK, Authenticated, TodoInRelease, OwnerHasSeq, Locations
<1>2. CASE UNCHANGED vars
  BY <1>2 DEF vars, deviceVars, claimVars, Typed, TypeOK, Authenticated, TodoInRelease, OwnerHasSeq
<1> QED BY <1>1, <1>2, TypedHandle, TypedStep, TypedAdmin DEF Next

(* Every variable keeps its type, a gateway's owner has a sequence number, *)
(* and handlers and clean-ups act for the machine that was authenticated   *)
(* (handleMachineAuth, cleanupConnection).                                 *)
THEOREM Types == Spec => []Typed
  BY TypedInit, TypedNext, PTL DEF Spec

(* Type correctness: owners are machines with sequence numbers, registry   *)
(* entries are connections, rows have one of three states (runtime.go,     *)
(* remote_gateway_plugin.go).                                              *)
THEOREM TypeCorrect == Spec => []TypeOK
  BY Types, PTL DEF Typed

-----------------------------------------------------------------------------
(* The registry.  BindDesktop adds a connection that is about to read;     *)
(* nothing but the connection's own Unbind takes it out of "ready" and     *)
(* "unbind", and that removes the entry.                                   *)
LEMMA RegistryNext == Typed /\ RegistryIsLive /\ [Next]_vars => RegistryIsLive'
<1> SUFFICES ASSUME Typed, RegistryIsLive, [Next]_vars PROVE RegistryIsLive'
  OBVIOUS
<1> USE DEF RegistryIsLive
<1>1. ASSUME NEW c \in Conns, NEW m \in Machines, Authenticate(c, m) PROVE RegistryIsLive'
  BY <1>1 DEF Authenticate, Goto, Typed, TypeOK
<1>2. ASSUME NEW c \in Conns, BindDesktop(c) PROVE RegistryIsLive'
  BY <1>2 DEF BindDesktop, Goto, Typed, TypeOK, Authenticated
<1>3. ASSUME NEW c \in Conns, ReadError(c) PROVE RegistryIsLive'
  BY <1>3 DEF ReadError, Goto, deviceVars, Typed, TypeOK
<1>4. ASSUME NEW c \in Conns, Unbind(c) PROVE RegistryIsLive'
  BY <1>4, GatewayAssumption DEF Unbind, Goto, Typed, TypeOK, Authenticated
<1>5. ASSUME NEW c \in Conns, MarkOffline(c) PROVE RegistryIsLive'
  BY <1>5 DEF MarkOffline, Goto, Typed, TypeOK
<1>6. CASE SweepRegistry
  BY <1>6 DEF SweepRegistry
<1>7. ASSUME registry' = registry, machine' = machine, pc' = pc PROVE RegistryIsLive'
  BY <1>7
<1>8. ASSUME NEW c \in Conns,
             \/ MarkOnline(c)
             \/ \E p \in Platforms : ClaimGateway(c, p) \/ Unclaim(c, p) \/ Release(c, p)
      PROVE  RegistryIsLive'
  BY <1>7, <1>8 DEF MarkOnline, ClaimGateway, Unclaim, Release, deviceVars
<1>9. ASSUME \/ \E u \in Users : ForceDelete(u)
             \/ \E m \in Machines : CheckOffline(m)
             \/ \E ms \in SUBSET Machines : ClearOffline(ms)
             \/ CloseSwept \/ DeleteRow \/ UNCHANGED vars
      PROVE  RegistryIsLive'
  BY <1>7, <1>9 DEF ForceDelete, CheckOffline, ClearOffline, CloseSwept, DeleteRow, deviceVars, vars
<1> QED BY <1>1, <1>2, <1>3, <1>4, <1>5, <1>6, <1>8, <1>9 DEF Next, Handle, Step, Admin

(* Every registered connection belongs to its machine and has not been     *)
(* unbound (BindDesktop, UnbindDesktop, ForceDeleteMachinesByUser).        *)
THEOREM RegistryLive == Spec => []RegistryIsLive
<1>1. Init => RegistryIsLive
  BY DEF Init, RegistryIsLive
<1> QED BY <1>1, RegistryNext, Types, PTL DEF Spec

(* A clean-up never removes a newer connection from the registry           *)
(* (UnbindDesktop).                                                        *)
THEOREM KeepsNewer == Spec => StaleCleanupKeepsNewer
<1> DEFINE Kept == \A m \in Machines : registry[m] # NoConn /\ registry'[m] = NoConn =>
                     pc[registry[m]] = "unbind" \/ admin.op = "sweep"
<1>1. ASSUME Typed, RegistryIsLive, [Next]_vars PROVE Kept
  <2>1. ASSUME NEW c \in Conns, BindDesktop(c) PROVE Kept
    BY <2>1, GatewayAssumption DEF BindDesktop, Typed, TypeOK
  <2>2. ASSUME NEW c \in Conns, Unbind(c) PROVE Kept
    BY <2>2 DEF Unbind, Typed, TypeOK
  <2>3. CASE SweepRegistry
    BY <2>3 DEF SweepRegistry
  <2>4. ASSUME registry' = registry PROVE Kept
    BY <2>4
  <2>5. ASSUME NEW c \in Conns,
               \/ MarkOnline(c) \/ ReadError(c) \/ MarkOffline(c)
               \/ \E m \in Machines : Authenticate(c, m)
               \/ \E p \in Platforms : ClaimGateway(c, p) \/ Unclaim(c, p) \/ Release(c, p)
        PROVE  Kept
    BY <2>4, <2>5 DEF MarkOnline, ReadError, MarkOffline, Authenticate, ClaimGateway,
                      Unclaim, Release, deviceVars
  <2>6. ASSUME \/ \E u \in Users : ForceDelete(u)
               \/ \E m \in Machines : CheckOffline(m)
               \/ \E ms \in SUBSET Machines : ClearOffline(ms)
               \/ CloseSwept \/ DeleteRow \/ UNCHANGED vars
        PROVE  Kept
    BY <2>4, <2>6 DEF ForceDelete, CheckOffline, ClearOffline, CloseSwept, DeleteRow, deviceVars, vars
  <2> QED BY <1>1, <2>1, <2>2, <2>3, <2>5, <2>6 DEF Next, Handle, Step, Admin
<1>2. Typed /\ RegistryIsLive /\ [Next]_vars => [Kept]_vars
  BY <1>1
<1> QED BY <1>2, Types, RegistryLive, PTL DEF Spec, StaleCleanupKeepsNewer

-----------------------------------------------------------------------------
(* The rows.  The witness of an online row stays one until its own         *)
(* MarkOffline, which sets that very row offline.                          *)
Witness(c, m) == machine[c] = m /\ pc[c] \in {"ready", "unbind", "offline"}

LEMMA OnlineNext == Typed /\ OnlineHasConnection /\ [Next]_vars => OnlineHasConnection'
<1> SUFFICES ASSUME Typed, OnlineHasConnection, [Next]_vars, NEW m \in Machines, row'[m] = "online"
             PROVE  \E d \in Conns : Witness(d, m)'
  BY DEF OnlineHasConnection, Witness
<1>1. row[m] = "online" => \E d \in Conns : Witness(d, m)
  BY DEF OnlineHasConnection, Witness
<1>2. ASSUME row[m] = "online", \A d \in Conns : Witness(d, m) => Witness(d, m)'
      PROVE  \E d \in Conns : Witness(d, m)'
  BY <1>1, <1>2
<1> USE DEF Witness
<1>3. ASSUME NEW c \in Conns, MarkOnline(c) PROVE \E d \in Conns : Witness(d, m)'
  <2>1. CASE machine[c] = m
    BY <1>3, <2>1 DEF MarkOnline, Reading
  <2>2. CASE machine[c] # m
    BY <1>2, <1>3, <2>2 DEF MarkOnline, Typed, TypeOK
  <2> QED BY <2>1, <2>2
<1>4. ASSUME NEW c \in Conns, MarkOffline(c) PROVE \E d \in Conns : Witness(d, m)'
  <2>1. machine[c] # m /\ row[m] = "online"
    BY <1>4 DEF MarkOffline, Typed, TypeOK
  <2> QED BY <1>2, <1>4, <2>1 DEF MarkOffline, Goto, Typed, TypeOK
<1>5. ASSUME NEW c \in Conns, \/ (\E n \in Machines : Authenticate(c, n))
                              \/ BindDesktop(c) \/ ReadError(c) \/ Unbind(c)
      PROVE  \E d \in Conns : Witness(d, m)'
  <2>1. row' = row
    BY <1>5 DEF Authenticate, BindDesktop, ReadError, Unbind, deviceVars
  <2>2. \A d \in Conns : Witness(d, m) => Witness(d, m)'
    BY <1>5 DEF Authenticate, BindDesktop, ReadError, Unbind, Goto, deviceVars, Typed, TypeOK
  <2> QED BY <1>2, <2>1, <2>2
<1>6. ASSUME NEW c \in Conns, NEW p \in Platforms, ClaimGateway(c, p) \/ Unclaim(c, p) \/ Release(c, p)
      PROVE  \E d \in Conns : Witness(d, m)'
  BY <1>2, <1>6 DEF ClaimGateway, Unclaim, Release, deviceVars
<1>7. ASSUME Admin \/ UNCHANGED vars PROVE \E d \in Conns : Witness(d, m)'
  <2>1. machine' = machine /\ pc' = pc
    BY <1>7 DEF Admin, ForceDelete, CheckOffline, ClearOffline, SweepRegistry, CloseSwept,
                DeleteRow, deviceVars, vars
  <2>2. row[m] = "online"
    BY <1>7 DEF Admin, ForceDelete, CheckOffline, ClearOffline, SweepRegistry, CloseSwept,
                DeleteRow, deviceVars, vars, Typed, TypeOK
  <2> QED BY <1>2, <2>1, <2>2
<1> QED BY <1>3, <1>4, <1>5, <1>6, <1>7 DEF Next, Handle, Step

(* A row never says online without a connection that will correct it       *)
(* (MarkOnline, UnbindDesktop).                                            *)
THEOREM OnlineWitnessed == Spec => []OnlineHasConnection
<1>1. Init => OnlineHasConnection
  BY DEF Init, OnlineHasConnection
<1> QED BY <1>1, OnlineNext, Types, PTL DEF Spec

-----------------------------------------------------------------------------
(* The gateways.  A new claim has its connection as witness; the witness   *)
(* goes only by releasing the claim, and whoever else releases leaves the  *)
(* owner as it is or the gateway free.                                     *)
LEMMA ClaimNext == Typed /\ ClaimHasConnection /\ [Next]_vars => ClaimHasConnection'
<1> SUFFICES ASSUME Typed, ClaimHasConnection, [Next]_vars, NEW q \in Platforms, owner'[q] # Free
             PROVE  \E d \in Conns : Responsible(d, q)'
  BY DEF ClaimHasConnection
<1>1. owner[q] # Free => \E d \in Conns : Responsible(d, q)
  BY DEF ClaimHasConnection
<1>2. ASSUME owner'[q] = owner[q], \A d \in Conns : Responsible(d, q) => Responsible(d, q)'
      PROVE  \E d \in Conns : Responsible(d, q)'
  BY <1>1, <1>2
<1>3. ASSUME NEW c \in Conns, \/ (\E n \in Machines : Authenticate(c, n))
                              \/ BindDesktop(c) \/ ReadError(c) \/ Unbind(c) \/ MarkOffline(c)
                              \/ MarkOnline(c)
      PROVE  \E d \in Conns : Responsible(d, q)'
  <2>1. owner' = owner /\ seqs' = seqs
    BY <1>3 DEF Authenticate, BindDesktop, ReadError, Unbind, MarkOffline, MarkOnline, claimVars
  <2>2. ASSUME NEW d \in Conns, Responsible(d, q) PROVE Responsible(d, q)'
    BY <1>3, <2>1, <2>2 DEF Authenticate, BindDesktop, ReadError, Unbind, MarkOffline, MarkOnline,
         Goto, deviceVars, Typed, TypeOK, TodoInRelease, Responsible
  <2> QED BY <1>2, <2>1, <2>2
<1>4. ASSUME NEW c \in Conns, NEW p \in Platforms, ClaimGateway(c, p)
      PROVE  \E d \in Conns : Responsible(d, q)'
  <2>1. CASE p = q
    BY <1>4, <2>1 DEF ClaimGateway, Reading, deviceVars, Typed, TypeOK, Responsible
  <2>2. CASE p # q
    BY <1>2, <1>4, <2>2 DEF ClaimGateway, deviceVars, Typed, TypeOK, Responsible
  <2> QED BY <2>1, <2>2
<1>5. ASSUME NEW c \in Conns, NEW p \in Platforms, Unclaim(c, p)
      PROVE  \E d \in Conns : Responsible(d, q)'
  <2>1. owner'[q] = owner[q] /\ (p = q => owner[q].machine # machine[c])
    BY <1>5 DEF Unclaim, ReleaseMachine, Typed, TypeOK
  <2>2. ASSUME NEW d \in Conns, Responsible(d, q) PROVE Responsible(d, q)'
    BY <1>5, <2>1, <2>2 DEF Unclaim, deviceVars, Typed, TypeOK, Responsible
  <2> QED BY <1>2, <2>1, <2>2
<1>6. ASSUME NEW c \in Conns, NEW p \in Platforms, Release(c, p)
      PROVE  \E d \in Conns : Responsible(d, q)'
  <2>1. owner'[q] = owner[q]
    BY <1>6 DEF Release, ReleaseMachine, ReleaseBySeq, Typed, TypeOK
  <2>2. ASSUME p = q PROVE ~Responsible(c, q)
    <3>1. SUFFICES ASSUME Responsible(c, q) PROVE FALSE
      OBVIOUS
    <3>2. seqs[c][q] # 0 /\ HasClaims(c)
      BY <2>1, <3>1 DEF Responsible, HasClaims, Typed, OwnerHasSeq
    <3>3. ReleaseBySeq(q, machine[c], seqs[c][q])
      BY <1>6, <2>2, <3>2 DEF Release
    <3> QED BY <3>1, <3>3 DEF ReleaseBySeq, Responsible, Typed, TypeOK
  <2>3. ASSUME NEW d \in Conns, Responsible(d, q) PROVE Responsible(d, q)'
    BY <1>6, <2>1, <2>2, <2>3 DEF Release, deviceVars, Typed, TypeOK, Responsible
  <2> QED BY <1>2, <2>1, <2>3
<1>7. ASSUME Admin \/ UNCHANGED vars PROVE \E d \in Conns : Responsible(d, q)'
  BY <1>2, <1>7 DEF Admin, ForceDelete, CheckOffline, ClearOffline, SweepRegistry, CloseSwept,
                    DeleteRow, deviceVars, claimVars, vars, Responsible
<1> QED BY <1>3, <1>4, <1>5, <1>6, <1>7 DEF Next, Handle, Step

(* A held gateway has a connection of its machine that will release it     *)
(* (ClaimGateway, cleanupConnection).                                      *)
THEOREM ClaimOwned == Spec => []ClaimHasConnection
<1>1. Init => ClaimHasConnection
  BY DEF Init, ClaimHasConnection
<1> QED BY <1>1, ClaimNext, Types, PTL DEF Spec

-----------------------------------------------------------------------------
(* The desktop's end.  Nothing but the types is needed to see that the     *)
(* connection in use is watched; that it is not one the client has closed  *)
(* is a fact of its own.                                                   *)
ClientTypeOK ==
  /\ opened \in 0..MaxConns /\ conn \in 0..opened
  /\ link \in [ConnIds -> {"unused", "open", "broken", "closed"}]
  /\ allow \in BOOLEAN
  /\ step \in [Procs -> {"none", "look", "reading", "sleep", "drop", "trigger", "over",
                         "off", "check", "connect", "leave", "idle"}]
  /\ on \in [ConnIds -> 0..MaxConns]
  /\ calls \in Nat

(* The client never goes on using a connection that it has closed, and     *)
(* those it has yet to open are untouched.                                 *)
UsedIsNotClosed ==
  /\ conn # None => link[conn] \in {"open", "broken"}
  /\ \A n \in ConnIds : n > opened <=> link[n] = "unused"

(* The loop and the heartbeat of the connection in use are at work; a loss  *)
(* is about to close whatever connection is there.                         *)
Watching ==
  /\ step[Beat(conn)] = "sleep"
  /\ \/ step[Read(conn)] = "look"
     \/ step[Read(conn)] = "reading" /\ on[conn] = conn
LossAhead == \E p \in Procs : step[p] = "drop"

LEMMA WatchedIs == ConnectionIsWatched <=> (conn # None => Watching \/ LossAhead)
BY DEF ConnectionIsWatched, Watching, LossAhead

ClientInv == ClientTypeOK /\ UsedIsNotClosed /\ ConnectionIsWatched

(* The goroutines of different connections are different, and Loop and UI  *)
(* are none of them.                                                       *)
LEMMA ProcsDiffer ==
  /\ \A n \in ConnIds : /\ Read(n) \in Workers /\ Beat(n) \in Workers
                        /\ Read(n) \in Procs /\ Beat(n) \in Procs
  /\ \A n, m \in ConnIds :
       /\ Read(n) # Beat(m)
       /\ Read(n) = Read(m) => n = m
       /\ Beat(n) = Beat(m) => n = m
  /\ \A p \in Callers : p \in Procs /\ p \notin Workers
  /\ Loop \in Callers /\ UI \in Callers /\ Loop # UI
<1>1. \A n \in ConnIds : Read(n) \in Workers /\ Beat(n) \in Workers
  BY DEF Read, Beat, Workers
<1>2. \A n, m \in ConnIds :
        /\ Read(n) # Beat(m)
        /\ Read(n) = Read(m) => n = m
        /\ Beat(n) = Beat(m) => n = m
  BY DEF Read, Beat
<1>3. Loop \notin Workers /\ UI \notin Workers /\ Loop # UI
  BY DEF Loop, UI, Workers
<1>4. \A p \in Callers : p = Loop \/ p = UI
  BY DEF Callers
<1>5. Workers \subseteq Procs /\ Callers \subseteq Procs /\ Loop \in Callers /\ UI \in Callers
  BY DEF Procs, Callers
<1> QED BY <1>1, <1>2, <1>3, <1>4, <1>5

LEMMA ClientStart == ClientInit => ClientInv
<1> SUFFICES ASSUME ClientInit PROVE ClientInv
  OBVIOUS
<1>1. ClientTypeOK
  <2>1. step \in [Procs -> {"none", "off", "idle"}]
    BY DEF ClientInit
  <2>2. /\ opened \in 0..MaxConns /\ conn \in 0..opened /\ on \in [ConnIds -> 0..MaxConns]
        /\ calls \in Nat
    BY HubClientAssumption DEF ClientInit, None
  <2> QED BY <2>1, <2>2 DEF ClientInit, ClientTypeOK
<1>2. UsedIsNotClosed /\ ConnectionIsWatched
  BY HubClientAssumption DEF ClientInit, UsedIsNotClosed, ConnectionIsWatched, ConnIds, None
<1> QED BY <1>1, <1>2 DEF ClientInv

LEMMA ConnIsOpened ==
  ASSUME ClientTypeOK
  PROVE  /\ opened \in Nat /\ MaxConns \in Nat /\ opened <= MaxConns
         /\ conn # None => conn \in ConnIds
BY HubClientAssumption DEF ClientTypeOK, ConnIds, None

(* A step of a process that does not drop the connection keeps the watch   *)
(* when it is no goroutine of the connection in use.                       *)
LEMMA OthersKeepWatch ==
  ASSUME ClientTypeOK, ConnectionIsWatched, NEW p \in Procs, NEW to,
         step[p] # "drop", step' = [step EXCEPT ![p] = to], UNCHANGED on,
         conn' \in {conn, None},
         conn # None => p # Read(conn) /\ p # Beat(conn)
  PROVE  ConnectionIsWatched'
<1> SUFFICES ASSUME conn' # None PROVE ConnectionIsWatched'
  BY DEF ConnectionIsWatched
<1>1. conn' = conn /\ conn # None /\ conn \in ConnIds
  BY ConnIsOpened
<1>2. step'[Read(conn)] = step[Read(conn)] /\ step'[Beat(conn)] = step[Beat(conn)]
  BY <1>1, ProcsDiffer DEF ClientTypeOK
<1>3. \A q \in Procs : step[q] = "drop" => step'[q] = "drop"
  BY DEF ClientTypeOK
<1>4. CASE \E q \in Procs : step[q] = "drop"
  BY <1>3, <1>4 DEF ConnectionIsWatched
<1>5. CASE ~\E q \in Procs : step[q] = "drop"
  BY <1>1, <1>2, <1>5 DEF ConnectionIsWatched
<1> QED BY <1>4, <1>5

LEMMA DropKeeps ==
  ASSUME ClientInv, NEW p \in Procs, Drop(p)
  PROVE  ClientInv'
<1>1. conn' = None /\ UNCHANGED <<opened, on, calls>>
  BY DEF Drop
<1>2. allow' \in BOOLEAN
  BY DEF Drop, ClientInv, ClientTypeOK
<1>3. PICK to \in {"leave", "connect", "idle", "trigger"} : step' = [step EXCEPT ![p] = to]
  BY DEF Drop, GoTo
<1>4. /\ link' \in [ConnIds -> {"unused", "open", "broken", "closed"}]
      /\ \A n \in ConnIds : link'[n] = "unused" <=> link[n] = "unused"
  <2>1. CASE conn = None
    BY <2>1 DEF Drop, ClientInv, ClientTypeOK
  <2>2. CASE conn # None
    <3>1. conn \in ConnIds /\ link' = [link EXCEPT ![conn] = "closed"]
      BY <2>2, ConnIsOpened DEF Drop, ClientInv
    <3> QED BY <2>2, <3>1 DEF ClientInv, ClientTypeOK, UsedIsNotClosed
  <2> QED BY <2>1, <2>2
<1>5. ClientTypeOK'
  BY <1>1, <1>2, <1>3, <1>4, ConnIsOpened DEF ClientInv, ClientTypeOK, None
<1> QED BY <1>1, <1>4, <1>5 DEF ClientInv, UsedIsNotClosed, ConnectionIsWatched

LEMMA CallersKeep ==
  ASSUME ClientInv, NEW p \in Callers, CallerStep(p)
  PROVE  ClientInv'
<1>0. p \in Procs /\ (\A n \in ConnIds : p # Read(n) /\ p # Beat(n))
  BY ProcsDiffer
<1>1. CASE Connect(p)
  <2> DEFINE n == opened + 1
  <2>1. /\ n \in ConnIds /\ n \in Nat /\ n <= MaxConns /\ opened' = n /\ conn' = n
        /\ link' = [link EXCEPT ![n] = "open"]
        /\ step' = [step EXCEPT ![Read(n)] = "look", ![Beat(n)] = "sleep",
                                ![p] = IF p = Loop THEN "leave" ELSE "idle"]
        /\ allow' = TRUE /\ UNCHANGED <<on, calls>>
    BY <1>1, ConnIsOpened DEF Connect, ClientInv, ConnIds
  <2>2. ClientTypeOK'
    <3>1. opened' \in 0..MaxConns /\ conn' \in 0..opened'
      BY <2>1
    <3>2. /\ link' \in [ConnIds -> {"unused", "open", "broken", "closed"}]
          /\ on' \in [ConnIds -> 0..MaxConns] /\ calls' \in Nat
      BY <2>1 DEF ClientInv, ClientTypeOK
    <3>3. step' \in [Procs -> {"none", "look", "reading", "sleep", "drop", "trigger", "over",
                               "off", "check", "connect", "leave", "idle"}]
      BY <2>1 DEF ClientInv, ClientTypeOK
    <3> QED BY <2>1, <3>1, <3>2, <3>3 DEF ClientTypeOK
  <2>3. UsedIsNotClosed'
    BY <2>1, ConnIsOpened DEF ClientInv, ClientTypeOK, UsedIsNotClosed, ConnIds
  <2>4. step'[Read(n)] = "look" /\ step'[Beat(n)] = "sleep"
    BY <1>0, <2>1, ProcsDiffer DEF ClientInv, ClientTypeOK
  <2> QED BY <2>1, <2>2, <2>3, <2>4 DEF ClientInv, ConnectionIsWatched
<1>2. CASE ConnectFails(p)
  <2>1. /\ step[p] = "connect" /\ conn' \in {conn, None} /\ UNCHANGED <<opened, link, allow, on, calls>>
        /\ \E to \in {"sleep", "check", "drop", "leave", "idle"} : step' = [step EXCEPT ![p] = to]
    BY <1>2 DEF ConnectFails, At, GoTo
  <2>2. ClientTypeOK' /\ UsedIsNotClosed'
    BY <1>0, <2>1, ConnIsOpened DEF ClientInv, ClientTypeOK, UsedIsNotClosed, None
  <2>3. conn # None => conn \in ConnIds
    BY ConnIsOpened DEF ClientInv
  <2> QED BY <1>0, <2>1, <2>2, <2>3, OthersKeepWatch DEF ClientInv
<1>3. CASE Drop(p)
  BY <1>0, <1>3, DropKeeps
<1> QED BY <1>1, <1>2, <1>3 DEF CallerStep

LEMMA LoopKeeps ==
  ASSUME ClientInv, UICall \/ LoopCheck \/ LoopSleeps \/ LoopLeaves
  PROVE  ClientInv'
<1>1. PICK p \in {UI, Loop} :
        /\ step[p] \in {"idle", "check", "sleep", "leave"}
        /\ \E to \in {"drop", "connect", "leave", "check", "off"} : step' = [step EXCEPT ![p] = to]
  BY DEF UICall, LoopCheck, LoopSleeps, LoopLeaves, At, GoTo
<1>2. UNCHANGED <<conn, opened, link, allow, on>> /\ calls' \in {calls, calls + 1}
  BY DEF UICall, LoopCheck, LoopSleeps, LoopLeaves
<1>3. p \in Procs /\ (\A n \in ConnIds : p # Read(n) /\ p # Beat(n))
  BY ProcsDiffer
<1>4. ClientTypeOK' /\ UsedIsNotClosed'
  BY <1>1, <1>2, <1>3 DEF ClientInv, ClientTypeOK, UsedIsNotClosed
<1>5. conn # None => conn \in ConnIds
  BY ConnIsOpened DEF ClientInv
<1> QED BY <1>1, <1>2, <1>3, <1>4, <1>5, OthersKeepWatch DEF ClientInv

(* The goroutines of a connection, which may be the one in use.            *)
LEMMA WorkersKeep ==
  ASSUME ClientInv, NEW n \in ConnIds, ReadStep(n) \/ BeatStep(n) \/ Break(n)
  PROVE  ClientInv'
<1> USE ProcsDiffer
<1>0. conn # None => conn \in ConnIds
  BY ConnIsOpened DEF ClientInv
<1>1. CASE Drop(Read(n)) \/ Drop(Beat(n))
  BY <1>1, DropKeeps
<1>2. ASSUME NEW p \in {Read(n), Beat(n)}, Trigger(p) PROVE ClientInv'
  <2>1. /\ step[p] = "trigger" /\ p \in Procs /\ p # Loop /\ Loop \in Procs
        /\ step' = [step EXCEPT ![p] = "over", ![Loop] = IF allow /\ @ = "off" THEN "check" ELSE @]
        /\ UNCHANGED <<conn, opened, link, allow, on, calls>>
    BY <1>2 DEF Trigger, At
  <2>2. ClientTypeOK' /\ UsedIsNotClosed'
    BY <2>1 DEF ClientInv, ClientTypeOK, UsedIsNotClosed
  <2>3. \A q \in Procs : step[q] = "drop" => step'[q] = "drop"
    BY <2>1 DEF ClientInv, ClientTypeOK
  <2>4. ASSUME conn # None, step[Beat(conn)] = "sleep", step[Read(conn)] \in {"look", "reading"}
        PROVE  step'[Beat(conn)] = step[Beat(conn)] /\ step'[Read(conn)] = step[Read(conn)]
    BY <1>0, <2>1, <2>4 DEF ClientInv, ClientTypeOK
  <2> QED BY <2>1, <2>2, <2>3, <2>4 DEF ClientInv, ConnectionIsWatched
<1>3. CASE ReaderLooks(n)
  <2>1. /\ step[Read(n)] = "look" /\ on' = [on EXCEPT ![n] = conn]
        /\ step' = [step EXCEPT ![Read(n)] = IF conn = None THEN "over" ELSE "reading"]
        /\ UNCHANGED <<conn, opened, link, allow, calls>>
    BY <1>3 DEF ReaderLooks, At, GoTo
  <2>2. ClientTypeOK' /\ UsedIsNotClosed'
    BY <2>1, ConnIsOpened DEF ClientInv, ClientTypeOK, UsedIsNotClosed
  <2>3. LossAhead => LossAhead'
    BY <2>1 DEF LossAhead, ClientInv, ClientTypeOK
  <2>4. ASSUME conn # None, Watching PROVE Watching'
    <3>1. conn \in ConnIds /\ conn' = conn /\ step'[Beat(conn)] = step[Beat(conn)]
      BY <1>0, <2>1, <2>4 DEF ClientInv, ClientTypeOK
    <3>2. CASE n = conn
      BY <2>1, <2>4, <3>1, <3>2 DEF ClientInv, ClientTypeOK, Watching
    <3>3. CASE n # conn
      <4>1. step'[Read(conn)] = step[Read(conn)] /\ on'[conn] = on[conn]
        BY <2>1, <3>1, <3>3 DEF ClientInv, ClientTypeOK
      <4> QED BY <2>4, <3>1, <4>1 DEF Watching
    <3> QED BY <3>2, <3>3
  <2>5. ConnectionIsWatched'
    BY <2>1, <2>3, <2>4, WatchedIs DEF ClientInv, ConnectionIsWatched, Watching, LossAhead
  <2> QED BY <2>2, <2>5 DEF ClientInv
<1>4. CASE ReaderReturns(n) \/ Heartbeat(n)
  <2>1. UNCHANGED <<conn, opened, link, allow, on, calls>>
    BY <1>4 DEF ReaderReturns, Heartbeat
  <2>2. PICK p \in {Read(n), Beat(n)}, to \in {"look", "drop", "over"} :
          /\ step' = [step EXCEPT ![p] = to]
          /\ step[p] # "drop"
          /\ to = "look" => p = Read(n)
          /\ to = "over" => conn = None
    BY <1>4 DEF ReaderReturns, Heartbeat, At, GoTo
  <2>3. ClientTypeOK' /\ UsedIsNotClosed'
    BY <2>1, <2>2 DEF ClientInv, ClientTypeOK, UsedIsNotClosed
  <2>4. LossAhead \/ to = "drop" => LossAhead'
    BY <2>2 DEF LossAhead, ClientInv, ClientTypeOK
  <2>5. ASSUME conn # None, to = "look", Watching PROVE Watching'
    <3>1. conn \in ConnIds /\ conn' = conn /\ step'[Beat(conn)] = step[Beat(conn)]
      BY <1>0, <2>1, <2>2, <2>5 DEF ClientInv, ClientTypeOK
    <3>2. CASE n = conn
      BY <2>1, <2>2, <2>5, <3>1, <3>2 DEF ClientInv, ClientTypeOK, Watching
    <3>3. CASE n # conn
      <4>1. step'[Read(conn)] = step[Read(conn)] /\ on'[conn] = on[conn]
        BY <2>1, <2>2, <2>5, <3>1, <3>3 DEF ClientInv, ClientTypeOK
      <4> QED BY <2>5, <3>1, <4>1 DEF Watching
    <3> QED BY <3>2, <3>3
  <2>6. ConnectionIsWatched'
    BY <2>1, <2>2, <2>4, <2>5, WatchedIs DEF ClientInv, ConnectionIsWatched, Watching, LossAhead
  <2> QED BY <2>3, <2>6 DEF ClientInv
<1>5. CASE Break(n)
  <2>1. /\ link[n] = "open" /\ link' = [link EXCEPT ![n] = "broken"]
        /\ UNCHANGED <<conn, opened, allow, step, on, calls>>
    BY <1>5 DEF Break
  <2>2. ClientTypeOK' /\ UsedIsNotClosed'
    BY <1>0, <2>1 DEF ClientInv, ClientTypeOK, UsedIsNotClosed
  <2> QED BY <2>1, <2>2 DEF ClientInv, ConnectionIsWatched
<1> QED BY <1>1, <1>2, <1>3, <1>4, <1>5 DEF ReadStep, BeatStep, LossStep

LEMMA ClientInvariant == ClientSpec => []ClientInv
<1>1. ClientInv /\ [ClientNext]_clientVars => ClientInv'
  <2>1. ASSUME ClientInv, UNCHANGED clientVars PROVE ClientInv'
    BY <2>1 DEF clientVars, ClientInv, ClientTypeOK, UsedIsNotClosed, ConnectionIsWatched
  <2> QED BY <2>1, CallersKeep, LoopKeeps, WorkersKeep, ProcsDiffer DEF ClientNext, LoopStep
<1> QED BY <1>1, ClientStart, PTL DEF ClientSpec

(* The connection in use is read by its own loop and probed by its own     *)
(* heartbeat, unless a loss is about to close it, however losses, calls    *)
(* from the user interface and reconnects interleave.                      *)
THEOREM AlwaysWatched == ClientSpec => []ConnectionIsWatched
<1>1. ClientInv => ConnectionIsWatched
  BY DEF ClientInv
<1> QED BY <1>1, ClientInvariant, PTL

(* A connection that was closed is never used again.                       *)
THEOREM ClosedIsNotUsed == ClientSpec => []UsedIsNotClosed
<1>1. ClientInv => UsedIsNotClosed
  BY DEF ClientInv
<1> QED BY <1>1, ClientInvariant, PTL
===============================================================================
