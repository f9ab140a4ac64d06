---------------------------- MODULE SerialMailbox ----------------------------
(***************************************************************************)
(* What the per-user task dispatcher of the Hub promises its users: each   *)
(* user has one bounded mailbox, its messages are worked on one at a time, *)
(* in the order in which they were accepted.  A message may be dropped     *)
(* only while it is being accepted; once it is in the mailbox it stays     *)
(* until it is worked on.                                                  *)
(***************************************************************************)
EXTENDS Naturals, Sequences

CONSTANTS Users, Tasks, Capacity

VARIABLES waiting,   \* per user, the accepted messages not yet started
          current    \* per user, the set holding the message being worked on

mailVars == <<waiting, current>>

Init == /\ waiting = [u \in Users |-> <<>>]
        /\ current = [u \in Users |-> {}]

Accept(u, t) ==
  /\ Len(waiting[u]) < Capacity
  /\ waiting' = [waiting EXCEPT ![u] = Append(@, t)]
  /\ UNCHANGED current

Start(u) ==
  /\ waiting[u] # <<>>
  /\ current[u] = {}
  /\ current' = [current EXCEPT ![u] = {Head(waiting[u])}]
  /\ waiting' = [waiting EXCEPT ![u] = Tail(@)]

Finish(u) ==
  /\ current[u] # {}
  /\ current' = [current EXCEPT ![u] = {}]
  /\ UNCHANGED waiting

Next == \E u \in Users : \/ \E t \in Tasks : Accept(u, t)
                         \/ Start(u)
                         \/ Finish(u)

Spec == Init /\ [][Next]_mailVars
==============================================================================
