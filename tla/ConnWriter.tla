------------------------------ MODULE ConnWriter ------------------------------
(***************************************************************************)
(* The outbound side of one WebSocket connection of the Hub: ConnContext   *)
(* in hub/internal/ws/handlers_machine.go.  Any goroutine may Send; the    *)
(* message goes into the buffered channel sendCh, which writeLoop drains   *)
(* in batches.  A full buffer drops the connection.  HandleWS reads from   *)
(* the same connection, replies to some messages itself, and tears down    *)
(* when reading or a handler fails.                                        *)
(*                                                                         *)
(* Messages are numbered in the order in which Send accepts them.          *)
(***************************************************************************)
EXTENDS Naturals, Sequences

CONSTANTS
  Senders,     \* goroutines that call Send
  BufSize,     \* sendChSize
  FlushSmall,  \* a batch of this size is flushed at once (4)
  FlushBig,    \* ... and of this size even while draining (32)
  MaxMessages  \* bound of the model: messages accepted

ASSUME WriterAssumption ==
  /\ BufSize \in Nat \ {0} /\ MaxMessages \in Nat
  /\ FlushSmall \in Nat \ {0} /\ FlushBig \in Nat /\ FlushSmall < FlushBig

VARIABLES
  accepted,   \* number of messages for which Send returned true
  sendCh,     \* the buffered channel
  batch,      \* writeLoop's batch
  wire,       \* messages written to the socket
  writer,     \* "select", "drain", "flush" or "stopped"
  resume,     \* where writeLoop goes on after a successful flush
  closed,     \* closeSend is closed
  up,         \* the connection can be read and written
  reader,     \* HandleWS: "read", "reply", "close", "closing", "hangup" or "gone"
  cleaned,    \* cleanupConnection has run
  pc          \* Send of each goroutine: "idle", "close", "closing", "drop" or "panic"

connVars   == <<accepted, sendCh, closed, up>>
writerVars == <<batch, wire, writer, resume>>
readerVars == <<reader, cleaned>>
vars == <<connVars, writerVars, readerVars, pc>>

Init ==
  /\ accepted = 0 /\ sendCh = <<>> /\ closed = FALSE /\ up = TRUE
  /\ batch = <<>> /\ wire = <<>> /\ writer = "select" /\ resume = "select"
  /\ reader = "read" /\ cleaned = FALSE
  /\ pc = [s \in Senders |-> "idle"]

-----------------------------------------------------------------------------
(* Send: enqueue, or find the buffer full ...                              *)
SendAccepted(s) ==
  /\ pc[s] = "idle" /\ accepted < MaxMessages
  /\ Len(sendCh) < BufSize
  /\ accepted' = accepted + 1
  /\ sendCh' = Append(sendCh, accepted + 1)
  /\ UNCHANGED <<closed, up, writerVars, readerVars, pc>>

SendFull(s) ==
  /\ pc[s] = "idle" /\ Len(sendCh) = BufSize
  /\ pc' = [pc EXCEPT ![s] = "close"]
  /\ UNCHANGED <<connVars, writerVars, readerVars>>

(* ... then closeWriter, whose test and close are two steps; closing a     *)
(* closed channel panics.  The HTTP server catches the panic when Send was *)
(* called from a handler, otherwise the process dies, which only ends the  *)
(* behaviour ...                                                           *)
CheckClosed(s) ==
  /\ pc[s] = "close"
  /\ pc' = [pc EXCEPT ![s] = IF closed THEN "drop" ELSE "closing"]
  /\ UNCHANGED <<connVars, writerVars, readerVars>>

CloseSend(s) ==
  /\ pc[s] = "closing"
  /\ pc' = [pc EXCEPT ![s] = IF closed THEN "panic" ELSE "drop"]
  /\ closed' = TRUE
  /\ UNCHANGED <<accepted, sendCh, up, writerVars, readerVars>>

(* Mutant of Drop: the socket stays open, only the writer is stopped.      *)
DropWriterOnly(s) ==
  /\ pc[s] = "drop"
  /\ pc' = [pc EXCEPT ![s] = "idle"]
  /\ UNCHANGED <<connVars, writerVars, readerVars>>

(* ... and closes the socket, so that the reader ends too.                 *)
Drop(s) ==
  /\ pc[s] = "drop"
  /\ up' = FALSE
  /\ pc' = [pc EXCEPT ![s] = "idle"]
  /\ UNCHANGED <<accepted, sendCh, closed, writerVars, readerVars>>

-----------------------------------------------------------------------------
(* Mutant of Receive: a wake-up starts a new batch.                        *)
ReceiveFresh ==
  /\ writer = "select" /\ sendCh # <<>>
  /\ batch' = <<Head(sendCh)>>
  /\ sendCh' = Tail(sendCh)
  /\ writer' = "drain"
  /\ UNCHANGED <<accepted, closed, up, wire, resume, readerVars, pc>>

(* writeLoop: the first message wakes it, then it drains without blocking. *)
Receive ==
  /\ writer = "select" /\ sendCh # <<>>
  /\ batch' = Append(batch, Head(sendCh))
  /\ sendCh' = Tail(sendCh)
  /\ writer' = "drain"
  /\ UNCHANGED <<accepted, closed, up, wire, resume, readerVars, pc>>

DrainMore ==
  /\ writer = "drain" /\ sendCh # <<>>
  /\ batch' = Append(batch, Head(sendCh))
  /\ sendCh' = Tail(sendCh)
  /\ IF Len(batch') >= FlushBig
     THEN writer' = "flush" /\ resume' = "drain"
     ELSE UNCHANGED <<writer, resume>>
  /\ UNCHANGED <<accepted, closed, up, wire, readerVars, pc>>

DrainEnd ==
  /\ writer = "drain" /\ sendCh = <<>>
  /\ writer' = IF Len(batch) >= FlushSmall THEN "flush" ELSE "select"
  /\ resume' = "select"
  /\ UNCHANGED <<connVars, batch, wire, readerVars, pc>>

(* Mutant of Timer: a small batch waits for company.                       *)
TimerSmall ==
  /\ writer = "select" /\ Len(batch) >= FlushSmall
  /\ writer' = "flush" /\ resume' = "select"
  /\ UNCHANGED <<connVars, batch, wire, readerVars, pc>>

Timer ==
  /\ writer = "select" /\ batch # <<>>
  /\ writer' = "flush" /\ resume' = "select"
  /\ UNCHANGED <<connVars, batch, wire, readerVars, pc>>

SeeClose ==
  /\ writer = "select" /\ closed
  /\ writer' = "flush" /\ resume' = "stopped"
  /\ UNCHANGED <<connVars, batch, wire, readerVars, pc>>

(* flush writes the batch message by message; an error drops the rest of   *)
(* the batch and ends writeLoop, without closing anything.  The connection *)
(* need not be down for that: a message may fail to encode, and handlers   *)
(* write to the same connection with no lock shared with writeLoop, which  *)
(* may spoil its write at any time.  (When the library notices that and    *)
(* panics, the process dies, which only ends the behaviour.)               *)
WriteNext ==
  /\ writer = "flush" /\ batch # <<>> /\ up
  /\ wire' = Append(wire, Head(batch))
  /\ batch' = Tail(batch)
  /\ UNCHANGED <<connVars, writer, resume, readerVars, pc>>

WriteFails ==
  /\ writer = "flush" /\ batch # <<>>
  /\ batch' = <<>>
  /\ writer' = "stopped"
  /\ UNCHANGED <<connVars, wire, resume, readerVars, pc>>

FlushEnd ==
  /\ writer = "flush" /\ batch = <<>>
  /\ writer' = resume
  /\ UNCHANGED <<connVars, batch, wire, resume, readerVars, pc>>

-----------------------------------------------------------------------------
(* HandleWS: some handlers answer on the connection themselves; a handler  *)
(* that returns an error ends the loop like a failed read does, with the   *)
(* connection still up.  The deferred calls run closeWriter, then          *)
(* cleanupConnection, and at last close the connection.                    *)
ReplyBegin ==
  /\ reader = "read" /\ up
  /\ reader' = "reply"
  /\ UNCHANGED <<connVars, writerVars, cleaned, pc>>

ReplyEnd ==
  /\ reader = "reply"
  /\ reader' \in {"read", "close"}
  /\ UNCHANGED <<connVars, writerVars, cleaned, pc>>

ReadFails ==
  /\ reader = "read" /\ ~up
  /\ reader' = "close"
  /\ UNCHANGED <<connVars, writerVars, cleaned, pc>>

ReaderCheckClosed ==
  /\ reader = "close"
  /\ IF closed THEN reader' = "hangup" /\ cleaned' = TRUE
               ELSE reader' = "closing" /\ UNCHANGED cleaned
  /\ UNCHANGED <<connVars, writerVars, pc>>

(* A panic of closeWriter skips the cleanup behind it, not the hanging up. *)
ReaderCloseSend ==
  /\ reader = "closing"
  /\ reader' = "hangup"
  /\ closed' = TRUE
  /\ cleaned' = ~closed
  /\ UNCHANGED <<accepted, sendCh, up, writerVars, pc>>

HangUp ==
  /\ reader = "hangup"
  /\ reader' = "gone"
  /\ up' = FALSE
  /\ UNCHANGED <<accepted, sendCh, closed, writerVars, cleaned, pc>>

(* The peer or the network drops the connection.                           *)
Disconnect ==
  /\ up /\ up' = FALSE
  /\ UNCHANGED <<accepted, sendCh, closed, writerVars, readerVars, pc>>

-----------------------------------------------------------------------------
WriterStep ==
  \/ Receive \/ DrainMore \/ DrainEnd \/ Timer \/ SeeClose
  \/ WriteNext \/ WriteFails \/ FlushEnd
ReaderStep == ReplyEnd \/ ReadFails \/ ReaderCheckClosed \/ ReaderCloseSend \/ HangUp
SenderStep(s) == CheckClosed(s) \/ CloseSend(s) \/ Drop(s)

Next ==
  \/ \E s \in Senders : SendAccepted(s) \/ SendFull(s) \/ SenderStep(s)
  \/ WriterStep \/ ReaderStep \/ ReplyBegin \/ Disconnect

Spec == Init /\ [][Next]_vars

(* Goroutines run, a client that is connected takes what is written to it  *)
(* (one that answers no pings is disconnected by the read deadline), and a *)
(* connection that is down is noticed; nobody has to send and the peer     *)
(* need not disconnect.                                                    *)
FairSpec ==
  /\ Spec
  /\ WF_vars(WriterStep) /\ WF_vars(ReaderStep)
  /\ \A s \in Senders : WF_vars(SenderStep(s))

-----------------------------------------------------------------------------
Ascending(n) == [i \in 1..n |-> i]

TypeOK ==
  /\ accepted \in 0..MaxMessages
  /\ sendCh \in Seq(Nat) /\ Len(sendCh) <= BufSize
  /\ batch \in Seq(Nat) /\ Len(batch) <= FlushBig
  /\ wire \in Seq(Nat)
  /\ closed \in BOOLEAN /\ up \in BOOLEAN /\ cleaned \in BOOLEAN
  /\ writer \in {"select", "drain", "flush", "stopped"}
  /\ resume \in {"select", "drain", "stopped"}
  /\ reader \in {"read", "reply", "close", "closing", "hangup", "gone"}
  /\ pc \in [Senders -> {"idle", "close", "closing", "drop", "panic"}]

(* While writeLoop runs no accepted message is lost, duplicated or         *)
(* overtaken between Send and the socket.                                  *)
NothingLost ==
  writer # "stopped" => wire \o batch \o sendCh = Ascending(accepted)

(* What reaches the client is at any time the beginning of what was sent,  *)
(* also when connections break in the middle of a batch.                   *)
WireIsPrefix == wire = Ascending(Len(wire))

(* writeLoop has ended on a write error, not on closeSend.                 *)
WriteBroke == writer = "stopped" /\ resume # "stopped"

(* A message that Send accepted does not wait for ever in a batch or in    *)
(* the channel: it is written, or the connection goes down, or a write     *)
(* error has ended writeLoop.  The last is no end of the connection in     *)
(* this code: Send goes on accepting what nobody writes until the buffer   *)
(* is full, and only then SlowClientDropped ends it.                       *)
Delivered ==
  \A n \in 1..MaxMessages : accepted >= n ~> (Len(wire) >= n \/ ~up \/ WriteBroke)

(* A client that takes nothing is dropped, one that is slow as well as one *)
(* whose writeLoop has ended on an error: once its buffer was full, the    *)
(* connection is torn down and cleaned up - unless somebody panics on the  *)
(* way.                                                                    *)
Panicked == (\E s \in Senders : pc[s] = "panic") \/ (reader = "gone" /\ ~cleaned)
SlowClientDropped ==
  \A s \in Senders : pc[s] = "close" ~> ((~up /\ reader = "gone") \/ Panicked)
===============================================================================
