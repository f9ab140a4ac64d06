---------------------------- MODULE DeviceGateway ----------------------------
(***************************************************************************)
(* Desktops connected to the Hub: the registry of connections              *)
(* (hub/internal/device/runtime.go), the machines table, and the ownership *)
(* of the IM gateways (hub/internal/im/remote_gateway_plugin.go), as the   *)
(* handlers of one WebSocket connection use them                           *)
(* (hub/internal/ws/handlers_machine.go).                                  *)
(*                                                                         *)
(* A connection handles its messages one after another, but a machine that *)
(* reconnects has two: the new one, and one whose loss the Hub has not     *)
(* noticed or not yet cleaned up.  Every lock region and every database    *)
(* statement is a step of its own, except that a handler's last accesses   *)
(* to the connection's own gwClaimSeqs, which no other goroutine reads,    *)
(* belong to the step before.  Database statements succeed.                *)
(***************************************************************************)
EXTENDS Naturals

CONSTANTS
  Conns,       \* WebSocket connections over time
  Machines,
  Users,
  Platforms,   \* IM platforms with a remote gateway plugin
  UserOf,      \* the user of a machine
  NoConn, NoMachine, NoUser,
  MaxClaims    \* bound of the model: claims on each platform

ASSUME GatewayAssumption ==
  /\ UserOf \in [Machines -> Users]
  /\ NoConn \notin Conns /\ NoMachine \notin Machines /\ NoUser \notin Users
  /\ MaxClaims \in [Platforms -> Nat]

VARIABLES
  machine,   \* ctx.MachineID of each connection
  registry,  \* desktopsByMachine
  row,       \* machines.status, "deleted" when the row is gone
  owner,     \* the owner of each platform's gateway; seq 0 is nil
  claimSeq,  \* claims granted so far on each platform
  seqs,      \* gwClaimSeqs of each connection; 0 is absent
  pc,        \* where HandleWS is, for each connection
  todo,      \* platforms that cleanupConnection has not visited yet
  closed,    \* connections whose socket the Hub has closed
  admin      \* the administrator's request in progress

deviceVars == <<machine, registry, row>>
claimVars  == <<owner, claimSeq, seqs>>
vars == <<deviceVars, claimVars, pc, todo, closed, admin>>

Free == [machine |-> NoMachine, seq |-> 0]
Idle == [op |-> "idle", user |-> NoUser, machine |-> NoMachine, conns |-> {}]

Init ==
  /\ machine = [c \in Conns |-> NoMachine]
  /\ registry = [m \in Machines |-> NoConn]
  /\ row = [m \in Machines |-> "offline"]
  /\ owner = [p \in Platforms |-> Free]
  /\ claimSeq = [p \in Platforms |-> 0]
  /\ seqs = [c \in Conns |-> [p \in Platforms |-> 0]]
  /\ pc = [c \in Conns |-> "auth"]
  /\ todo = [c \in Conns |-> {}]
  /\ closed = {}
  /\ admin = Idle

Goto(c, label) == pc' = [pc EXCEPT ![c] = label]

(* In the read loop, about to handle a message.                            *)
Reading(c) == pc[c] = "ready" /\ c \notin closed

-----------------------------------------------------------------------------
(* auth.machine: AuthenticateMachine reads the row; a machine without one  *)
(* is refused, which ends the connection.                                  *)
Authenticate(c, m) ==
  /\ pc[c] = "auth"
  /\ IF row[m] = "deleted" THEN Goto(c, "gone") /\ machine' = machine
     ELSE Goto(c, "bind") /\ machine' = [machine EXCEPT ![c] = m]
  /\ UNCHANGED <<registry, row, claimVars, todo, closed, admin>>

(* BindDesktop: the newest connection replaces the one before it.          *)
BindDesktop(c) ==
  /\ pc[c] = "bind"
  /\ registry' = [registry EXCEPT ![machine[c]] = c]
  /\ Goto(c, "ready")
  /\ UNCHANGED <<machine, row, claimVars, todo, closed, admin>>

(* machine.hello: after the runtime's metadata MarkOnline updates the row, *)
(* if there is one.                                                        *)
MarkOnline(c) ==
  /\ Reading(c)
  /\ row' = [row EXCEPT ![machine[c]] = IF @ = "deleted" THEN @ ELSE "online"]
  /\ UNCHANGED <<machine, registry, claimVars, pc, todo, closed, admin>>

-----------------------------------------------------------------------------
(* im.gateway_claim: granted unless a machine of another user holds the    *)
(* gateway (then nothing changes); the handler remembers the sequence      *)
(* number on the connection.                                               *)
ClaimGateway(c, p) ==
  /\ Reading(c) /\ claimSeq[p] < MaxClaims[p]
  /\ owner[p] # Free => UserOf[owner[p].machine] = UserOf[machine[c]]
  /\ claimSeq' = [claimSeq EXCEPT ![p] = @ + 1]
  /\ owner' = [owner EXCEPT ![p] = [machine |-> machine[c], seq |-> claimSeq'[p]]]
  /\ seqs' = [seqs EXCEPT ![c][p] = claimSeq'[p]]
  /\ UNCHANGED <<deviceVars, pc, todo, closed, admin>>

ReleaseMachine(p, m) ==
  owner' = [owner EXCEPT ![p] = IF @.machine = m THEN Free ELSE @]

ReleaseBySeq(p, m, seq) ==
  owner' = [owner EXCEPT ![p] = IF @.machine = m /\ @.seq = seq THEN Free ELSE @]

(* Mutant of Unclaim: the connection forgets all its claims.               *)
UnclaimForgetsAll(c, p) ==
  /\ Reading(c)
  /\ ReleaseMachine(p, machine[c])
  /\ seqs' = [seqs EXCEPT ![c] = [q \in Platforms |-> 0]]
  /\ UNCHANGED <<deviceVars, claimSeq, pc, todo, closed, admin>>

(* im.gateway_unclaim releases whichever claim the machine has, and        *)
(* forgets the connection's own.                                           *)
Unclaim(c, p) ==
  /\ Reading(c)
  /\ ReleaseMachine(p, machine[c])
  /\ seqs' = [seqs EXCEPT ![c][p] = 0]
  /\ UNCHANGED <<deviceVars, claimSeq, pc, todo, closed, admin>>

-----------------------------------------------------------------------------
(* Reading fails: the client went away or was silent beyond the read       *)
(* deadline, which needs no cause in the Hub, or the Hub closed the        *)
(* socket.  A connection that never authenticated has nothing to clean up. *)
ReadError(c) ==
  /\ pc[c] \in {"auth", "ready"}
  /\ Goto(c, IF pc[c] = "auth" THEN "gone" ELSE "unbind")
  /\ UNCHANGED <<deviceVars, claimVars, todo, closed, admin>>

(* Mutant of Unbind: an entry is removed only if it is another connection. *)
UnbindOther(c) ==
  /\ pc[c] = "unbind"
  /\ registry' = [registry EXCEPT ![machine[c]] = IF @ # c THEN NoConn ELSE @]
  /\ Goto(c, "offline")
  /\ UNCHANGED <<machine, row, claimVars, todo, closed, admin>>

(* Mutant of Unbind: the entry of a connection that was replaced is left,  *)
(* and so is the row.                                                      *)
UnbindNewestOnly(c) ==
  LET newest == registry[machine[c]] = c
  IN /\ pc[c] = "unbind"
     /\ registry' = [registry EXCEPT ![machine[c]] = IF newest THEN NoConn ELSE @]
     /\ todo' = [todo EXCEPT ![c] = IF newest THEN {} ELSE Platforms]
     /\ Goto(c, IF newest THEN "offline" ELSE "release")
     /\ UNCHANGED <<machine, row, claimVars, closed, admin>>

(* cleanupConnection: UnbindDesktop removes this connection, not a newer   *)
(* one, from the registry ...                                              *)
Unbind(c) ==
  /\ pc[c] = "unbind"
  /\ registry' = [registry EXCEPT ![machine[c]] = IF @ = c THEN NoConn ELSE @]
  /\ Goto(c, "offline")
  /\ UNCHANGED <<machine, row, claimVars, todo, closed, admin>>

(* ... but marks the machine offline in any case ...                       *)
MarkOffline(c) ==
  /\ pc[c] = "offline"
  /\ row' = [row EXCEPT ![machine[c]] = IF @ = "deleted" THEN @ ELSE "offline"]
  /\ todo' = [todo EXCEPT ![c] = Platforms]
  /\ Goto(c, "release")
  /\ UNCHANGED <<machine, registry, claimVars, closed, admin>>

(* ... and releases the claims this connection recorded, or, if it has     *)
(* none, every claim of the machine ...                                    *)
HasClaims(c) == \E p \in Platforms : seqs[c][p] # 0

Release(c, p) ==
  /\ pc[c] = "release" /\ p \in todo[c]
  /\ IF ~HasClaims(c) THEN ReleaseMachine(p, machine[c])
     ELSE IF seqs[c][p] # 0 THEN ReleaseBySeq(p, machine[c], seqs[c][p])
     ELSE owner' = owner
  /\ todo' = [todo EXCEPT ![c] = @ \ {p}]
  /\ UNCHANGED <<deviceVars, claimSeq, seqs, pc, closed, admin>>

-----------------------------------------------------------------------------
(* ForceDeleteMachinesByUser: the rows, then the registry entries, then    *)
(* the sockets.                                                            *)
ForceDelete(u) ==
  /\ admin = Idle
  /\ row' = [m \in Machines |-> IF UserOf[m] = u THEN "deleted" ELSE row[m]]
  /\ admin' = [Idle EXCEPT !.op = "sweep", !.user = u]
  /\ UNCHANGED <<machine, registry, claimVars, pc, todo, closed>>

SweepRegistry ==
  LET swept == {m \in Machines : UserOf[m] = admin.user /\ registry[m] # NoConn}
  IN /\ admin.op = "sweep"
     /\ registry' = [m \in Machines |-> IF m \in swept THEN NoConn ELSE registry[m]]
     /\ admin' = [admin EXCEPT !.op = "close", !.conns = {registry[m] : m \in swept}]
     /\ UNCHANGED <<machine, row, claimVars, pc, todo, closed>>

CloseSwept ==
  /\ admin.op = "close"
  /\ closed' = closed \cup admin.conns
  /\ admin' = Idle
  /\ UNCHANGED <<deviceVars, claimVars, pc, todo>>

(* DeleteMachine: refused while the machine is registered, and the row is  *)
(* deleted after the lock is released.                                     *)
CheckOffline(m) ==
  /\ admin = Idle /\ registry[m] = NoConn
  /\ admin' = [Idle EXCEPT !.op = "delete", !.machine = m]
  /\ UNCHANGED <<deviceVars, claimVars, pc, todo, closed>>

DeleteRow ==
  /\ admin.op = "delete"
  /\ row' = [row EXCEPT ![admin.machine] = "deleted"]
  /\ admin' = Idle
  /\ UNCHANGED <<machine, registry, claimVars, pc, todo, closed>>

(* ClearOfflineMachines and DeleteMachinesByUser: every row, or every row  *)
(* of a user, that is not online, in one statement.                        *)
ClearOffline(ms) ==
  /\ admin = Idle
  /\ row' = [m \in Machines |-> IF m \in ms /\ row[m] = "offline" THEN "deleted" ELSE row[m]]
  /\ UNCHANGED <<machine, registry, claimVars, pc, todo, closed, admin>>

-----------------------------------------------------------------------------
Handle(c) ==
  \/ MarkOnline(c) \/ (\E m \in Machines : Authenticate(c, m))
  \/ \E p \in Platforms : ClaimGateway(c, p) \/ Unclaim(c, p)

(* What the connection's goroutine does without waiting for the client.    *)
Step(c) ==
  \/ BindDesktop(c) \/ Unbind(c) \/ MarkOffline(c)
  \/ \E p \in Platforms : Release(c, p)

Admin ==
  \/ \E u \in Users : ForceDelete(u) \/ ClearOffline({m \in Machines : UserOf[m] = u})
  \/ \E m \in Machines : CheckOffline(m)
  \/ SweepRegistry \/ CloseSwept \/ DeleteRow \/ ClearOffline(Machines)

Next ==
  \/ \E c \in Conns : Handle(c) \/ Step(c) \/ ReadError(c)
  \/ Admin

Spec == Init /\ [][Next]_vars

-----------------------------------------------------------------------------
Locations == {"auth", "bind", "ready", "unbind", "offline", "release", "gone"}

TypeOK ==
  /\ machine \in [Conns -> Machines \cup {NoMachine}]
  /\ registry \in [Machines -> Conns \cup {NoConn}]
  /\ row \in [Machines -> {"online", "offline", "deleted"}]
  /\ owner \in [Platforms -> [machine : Machines \cup {NoMachine}, seq : Nat]]
  /\ claimSeq \in [Platforms -> Nat]
  /\ seqs \in [Conns -> [Platforms -> Nat]]
  /\ pc \in [Conns -> Locations]
  /\ todo \in [Conns -> SUBSET Platforms]
  /\ closed \in SUBSET Conns
  /\ admin \in [op : {"idle", "sweep", "close", "delete"}, user : Users \cup {NoUser},
                machine : Machines \cup {NoMachine}, conns : SUBSET Conns]

(* Commands go to registry entries: each is a connection of that machine   *)
(* whose clean-up has not passed UnbindDesktop, so that none outlives its  *)
(* socket (SendToMachine and cleanupConnection).                           *)
RegistryIsLive ==
  \A m \in Machines : registry[m] # NoConn =>
    machine[registry[m]] = m /\ pc[registry[m]] \in {"ready", "unbind"}

(* The late clean-up of an old connection never takes the newer one out of *)
(* the registry: an entry goes only through its own connection's clean-up  *)
(* or the deletion of the user (UnbindDesktop).                            *)
StaleCleanupKeepsNewer ==
  [][\A m \in Machines :
       registry[m] # NoConn /\ registry'[m] = NoConn =>
         pc[registry[m]] = "unbind" \/ admin.op = "sweep"]_vars

(* A row that says online has a connection that will set it offline again: *)
(* late hellos and clean-ups of several connections never leave a machine  *)
(* online for good (MarkOnline, UnbindDesktop).                            *)
OnlineHasConnection ==
  \A m \in Machines : row[m] = "online" =>
    \E c \in Conns : machine[c] = m /\ pc[c] \in {"ready", "unbind", "offline"}

(* A gateway that is held has a connection of that machine that knows the  *)
(* claim and will release it, whatever claims, take-overs, unclaims and    *)
(* clean-ups of other connections came in between (ClaimGateway).          *)
Responsible(c, p) ==
  /\ owner[p].machine = machine[c] /\ owner[p].seq = seqs[c][p]
  /\ pc[c] \in {"ready", "unbind", "offline"} \/ p \in todo[c]

ClaimHasConnection ==
  \A p \in Platforms : owner[p] # Free => \E c \in Conns : Responsible(c, p)

=============================================================================
