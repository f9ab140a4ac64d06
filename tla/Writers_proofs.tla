----------------------------- MODULE Writers_proofs -----------------------------
(***************************************************************************)
(* Theorems about the two goroutines of the Hub that write what many       *)
(* others hand to them: the writer of a connection (ConnWriter), for any   *)
(* number of senders, any buffer size and any flush thresholds, and the    *)
(* write batcher of the database (WriteBatcher), for any callers, queue    *)
(* and batch size.                                                         *)
(***************************************************************************)
EXTENDS ConnWriter, WriteBatcher, SequenceTheorems, WellFoundedInduction, TLAPS

-----------------------------------------------------------------------------
(* Sequences: what the queue operations do to the whole pipeline.          *)
LEMMA AscendingProperties ==
  ASSUME NEW n \in Nat
  PROVE  /\ Ascending(n) \in Seq(Nat)
         /\ Len(Ascending(n)) = n
         /\ \A i \in 1..n : Ascending(n)[i] = i
BY DEF Ascending

LEMMA AscendingUnique ==
  ASSUME NEW s \in Seq(Nat), \A i \in 1..Len(s) : s[i] = i
  PROVE  s = Ascending(Len(s))
<1>1. Len(s) \in Nat
  BY LenProperties
<1> QED BY <1>1, AscendingProperties, SeqEqual

LEMMA AscendingAppend ==
  ASSUME NEW n \in Nat
  PROVE  Append(Ascending(n), n + 1) = Ascending(n + 1)
<1> DEFINE a == Ascending(n)
           t == Append(a, n + 1)
<1>1. /\ a \in Seq(Nat) /\ Len(a) = n
      /\ \A i \in 1..n : a[i] = i
  BY AscendingProperties
<1> HIDE DEF a
<1>2. /\ t \in Seq(Nat) /\ Len(t) = n + 1
      /\ \A i \in 1..n : t[i] = a[i]
      /\ t[n + 1] = n + 1
  BY <1>1, AppendProperties
<1> HIDE DEF t
<1>3. ASSUME NEW i \in 1..Len(t) PROVE t[i] = i
  <2>1. i \in 1..n \/ i = n + 1
    BY <1>2
  <2> QED BY <1>1, <1>2, <2>1
<1>4. t = Ascending(Len(t))
  BY <1>2, <1>3, AscendingUnique
<1> QED BY <1>2, <1>4 DEF t, a

LEMMA AscendingPrefix ==
  ASSUME NEW r \in Seq(Nat), NEW s \in Seq(Nat), NEW n \in Nat,
         r \o s = Ascending(n)
  PROVE  r = Ascending(Len(r))
<1> DEFINE u == r \o s
<1>1. Len(r) \in Nat /\ Len(s) \in Nat
  OBVIOUS
<1>2. /\ Len(u) = Len(r) + Len(s)
      /\ \A i \in 1..(Len(r) + Len(s)) :
           u[i] = IF i <= Len(r) THEN r[i] ELSE s[i - Len(r)]
  BY ConcatProperties
<1>3. Len(u) = n /\ \A i \in 1..n : u[i] = i
  BY AscendingProperties
<1> HIDE DEF u
<1>4. ASSUME NEW i \in 1..Len(r) PROVE r[i] = i
  <2>1. i \in 1..(Len(r) + Len(s)) /\ i <= Len(r) /\ i \in 1..n
    BY <1>1, <1>2, <1>3
  <2> QED BY <1>2, <1>3, <2>1
<1> QED BY <1>4, AscendingUnique

LEMMA Assoc == \A r, s, t \in Seq(Nat) : (r \o s) \o t = r \o (s \o t)
BY ConcatAssociative

(* Moving the head of a sequence to the end of the one before it changes   *)
(* nothing for the two together.                                           *)
LEMMA MoveHead ==
  ASSUME NEW r \in Seq(Nat), NEW s \in Seq(Nat), s # <<>>
  PROVE  /\ Append(r, Head(s)) \in Seq(Nat)
         /\ Tail(s) \in Seq(Nat)
         /\ Append(r, Head(s)) \o Tail(s) = r \o s
<1> DEFINE h == Head(s)
           b == Tail(s)
<1>1. h \in Nat /\ b \in Seq(Nat)
  BY HeadTailProperties
<1>2. s = <<h>> \o b
  <2>1. Len(s) \in Nat \ {0}
    BY EmptySeq
  <2>2. s = <<s[1]>> \o SubSeq(s, 2, Len(s))
    <3>1. 1 \in 1..Len(s) /\ Len(s) \in 1..Len(s)
      BY <2>1
    <3>2. SubSeq(s, 1, Len(s)) = <<s[1]>> \o SubSeq(s, 1 + 1, Len(s))
      BY <3>1, SubSeqRecursiveFirst
    <3> QED BY <3>2, SubSeqFull
  <2>3. h = s[1] /\ b = SubSeq(s, 2, Len(s))
    BY TailIsSubSeq
  <2> QED BY <2>2, <2>3
<1> HIDE DEF h, b
<1>3. <<h>> \in Seq(Nat)
  BY <1>1
<1>4. Append(r, h) = r \o <<h>> /\ Append(r, h) \in Seq(Nat)
  BY <1>1, AppendIsConcat, AppendProperties
<1>5. (r \o <<h>>) \o b = r \o (<<h>> \o b)
  BY <1>1, <1>3, ConcatAssociative
<1>6. Append(r, h) \o b = r \o s
  BY <1>2, <1>4, <1>5, Zenon
<1> QED BY <1>1, <1>4, <1>6 DEF h, b

-----------------------------------------------------------------------------
(* The strengthening of the type invariant: what the batch can hold        *)
(* depends on where writeLoop stands.                                      *)
BatchSizes ==
  /\ writer = "select" => Len(batch) < FlushSmall
  /\ writer = "drain" => Len(batch) < FlushBig

Typed == TypeOK /\ BatchSizes

LEMMA TypedInit == Init => Typed
<1> SUFFICES ASSUME Init PROVE Typed
  OBVIOUS
<1>1. <<>> \in Seq(Nat) /\ Len(<<>>) = 0
  OBVIOUS
<1>2. TypeOK
  <2>1. sendCh \in Seq(Nat) /\ batch \in Seq(Nat) /\ wire \in Seq(Nat)
    BY <1>1, Zenon DEF Init
  <2>2. Len(sendCh) = 0 /\ Len(batch) = 0
    BY <1>1, Zenon DEF Init
  <2>3. pc \in [Senders -> {"idle", "close", "closing", "drop", "panic"}]
    BY DEF Init
  <2>4. accepted \in 0..MaxMessages /\ Len(sendCh) <= BufSize /\ Len(batch) <= FlushBig
    <3>1. accepted = 0
      BY Zenon DEF Init
    <3> QED BY <2>2, <3>1, WriterAssumption
  <2>5. /\ closed \in BOOLEAN /\ up \in BOOLEAN /\ cleaned \in BOOLEAN
        /\ writer = "select" /\ resume = "select" /\ reader = "read"
    BY Zenon DEF Init
  <2> QED BY <2>1, <2>3, <2>4, <2>5, Zenon DEF TypeOK
<1>3. BatchSizes
  BY <1>1, WriterAssumption DEF Init, BatchSizes
<1> QED BY <1>2, <1>3 DEF Typed

(* Send and the reader do not touch the batch.                             *)
LEMMA TypedSenders ==
  ASSUME Typed, NEW s \in Senders, SendAccepted(s) \/ SendFull(s) \/ SenderStep(s)
  PROVE  Typed'
<1> USE DEF Typed, TypeOK, BatchSizes, connVars, writerVars, readerVars
<1>1. CASE SendAccepted(s)
  <2>1. accepted + 1 \in 0..MaxMessages /\ accepted + 1 \in Nat
    BY <1>1, WriterAssumption DEF SendAccepted
  <2>2. /\ Append(sendCh, accepted + 1) \in Seq(Nat)
        /\ Len(Append(sendCh, accepted + 1)) = Len(sendCh) + 1
    BY <2>1, AppendProperties
  <2>3. Len(sendCh) + 1 <= BufSize
    BY <1>1, WriterAssumption DEF SendAccepted
  <2> QED BY <1>1, <2>1, <2>2, <2>3 DEF SendAccepted
<1>2. CASE SendFull(s)
  BY <1>2 DEF SendFull
<1>3. CASE CheckClosed(s)
  BY <1>3 DEF CheckClosed
<1>4. CASE CloseSend(s)
  BY <1>4 DEF CloseSend
<1>5. CASE Drop(s)
  BY <1>5 DEF Drop
<1> QED BY <1>1, <1>2, <1>3, <1>4, <1>5 DEF SenderStep

LEMMA TypedReader ==
  ASSUME Typed, ReaderStep \/ ReplyBegin \/ Disconnect
  PROVE  Typed'
<1> USE DEF Typed, TypeOK, BatchSizes, connVars, writerVars, readerVars
<1>1. CASE ReplyEnd \/ ReplyBegin
  BY <1>1 DEF ReplyEnd, ReplyBegin
<1>2. CASE ReadFails \/ ReaderCheckClosed
  BY <1>2 DEF ReadFails, ReaderCheckClosed
<1>3. CASE ReaderCloseSend
  BY <1>3 DEF ReaderCloseSend
<1>4. CASE HangUp \/ Disconnect
  BY <1>4 DEF HangUp, Disconnect
<1> QED BY <1>1, <1>2, <1>3, <1>4 DEF ReaderStep

LEMMA TypedWriter ==
  ASSUME Typed, WriterStep
  PROVE  Typed'
<1> USE DEF Typed, TypeOK, BatchSizes, connVars, readerVars
<1>0. Len(batch) \in Nat /\ Len(sendCh) \in Nat
  OBVIOUS
<1>1. CASE Receive \/ DrainMore
  <2>1. sendCh # <<>> /\ batch' = Append(batch, Head(sendCh)) /\ sendCh' = Tail(sendCh)
    BY <1>1 DEF Receive, DrainMore
  <2>2. /\ Head(sendCh) \in Nat
        /\ Tail(sendCh) \in Seq(Nat) /\ Len(Tail(sendCh)) = Len(sendCh) - 1
    BY <2>1, HeadTailProperties
  <2>3. batch' \in Seq(Nat) /\ Len(batch') = Len(batch) + 1
    BY <2>1, <2>2, AppendProperties
  <2>4. sendCh' \in Seq(Nat) /\ Len(sendCh') <= BufSize
    BY <1>0, <2>1, <2>2, WriterAssumption
  <2>5. CASE Receive
    <3>1. Len(batch') < FlushBig
      BY <1>0, <2>3, <2>5, WriterAssumption DEF Receive
    <3> QED BY <2>3, <2>4, <2>5, <3>1, WriterAssumption DEF Receive
  <2>6. CASE DrainMore
    <3>1. Len(batch') <= FlushBig
      BY <1>0, <2>3, <2>6, WriterAssumption DEF DrainMore
    <3>2. writer' = "drain" => Len(batch') < FlushBig
      BY <1>0, <2>3, <2>6, WriterAssumption DEF DrainMore
    <3>3. /\ writer' \in {"drain", "flush"} /\ resume' \in {"select", "drain", "stopped"}
          /\ UNCHANGED <<accepted, closed, up, wire, reader, cleaned, pc>>
      BY <2>6 DEF DrainMore
    <3> QED BY <2>3, <2>4, <3>1, <3>2, <3>3
  <2> QED BY <1>1, <2>5, <2>6
<1>2. CASE DrainEnd
  BY <1>0, <1>2, WriterAssumption DEF DrainEnd
<1>3. CASE Timer \/ SeeClose
  BY <1>3 DEF Timer, SeeClose
<1>4. CASE WriteNext
  <2>1. batch # <<>> /\ wire' = Append(wire, Head(batch)) /\ batch' = Tail(batch)
    BY <1>4 DEF WriteNext
  <2>2. /\ Head(batch) \in Nat
        /\ Tail(batch) \in Seq(Nat) /\ Len(Tail(batch)) = Len(batch) - 1
    BY <2>1, HeadTailProperties
  <2>3. wire' \in Seq(Nat)
    BY <2>1, <2>2, AppendProperties
  <2>4. Len(batch') <= FlushBig
    BY <1>0, <2>1, <2>2, WriterAssumption
  <2> QED BY <1>4, <2>1, <2>2, <2>3, <2>4 DEF WriteNext
<1>5. CASE WriteFails \/ FlushEnd
  <2>1. batch' = <<>> /\ <<>> \in Seq(Nat) /\ Len(<<>>) = 0
    BY <1>5 DEF WriteFails, FlushEnd
  <2> QED BY <1>5, <2>1, WriterAssumption DEF WriteFails, FlushEnd
<1> QED BY <1>1, <1>2, <1>3, <1>4, <1>5 DEF WriterStep

LEMMA TypedInductive == Typed /\ [Next]_vars => Typed'
<1> SUFFICES ASSUME Typed, [Next]_vars PROVE Typed'
  OBVIOUS
<1>1. CASE UNCHANGED vars
  BY <1>1 DEF Typed, TypeOK, BatchSizes, vars, connVars, writerVars, readerVars
<1> QED BY <1>1, TypedSenders, TypedWriter, TypedReader DEF Next

(* The buffers keep their bounds - the channel its capacity, a batch its   *)
(* flush threshold - and the control state of writer, reader and senders   *)
(* stays within what the code provides for.                                *)
THEOREM TypeCorrect == Spec => []TypeOK
<1>1. Init => Typed
  BY TypedInit
<1>2. Typed /\ [Next]_vars => Typed'
  BY TypedInductive
<1>3. Typed => TypeOK
  BY DEF Typed
<1> QED BY <1>1, <1>2, <1>3, PTL DEF Spec

-----------------------------------------------------------------------------
(* What has been written and what is on its way, together, is everything   *)
(* Send has accepted; once writeLoop has given up, what has been written   *)
(* stays the beginning of it.                                              *)
Pipeline == NothingLost /\ WireIsPrefix

LEMMA PipelineSenders ==
  ASSUME Typed, Pipeline, NEW s \in Senders,
         SendAccepted(s) \/ SendFull(s) \/ SenderStep(s)
  PROVE  Pipeline'
<1>1. CASE SendAccepted(s)
  <2> DEFINE r == wire \o batch
  <2>1. /\ accepted \in Nat /\ wire \in Seq(Nat) /\ batch \in Seq(Nat)
        /\ sendCh \in Seq(Nat) /\ r \in Seq(Nat)
    BY WriterAssumption, ConcatProperties DEF Typed, TypeOK
  <2>2. /\ accepted' = accepted + 1 /\ sendCh' = Append(sendCh, accepted + 1)
        /\ UNCHANGED <<wire, batch, writer>>
    BY <1>1 DEF SendAccepted, writerVars
  <2>3. ASSUME writer # "stopped" PROVE r \o sendCh' = Ascending(accepted')
    <3>1. r \o sendCh = Ascending(accepted)
      BY <2>3 DEF Pipeline, NothingLost
    <3> HIDE DEF r
    <3>2. Append(sendCh, accepted + 1) = sendCh \o <<accepted + 1>>
      BY <2>1, AppendIsConcat
    <3>3. r \o (sendCh \o <<accepted + 1>>) = (r \o sendCh) \o <<accepted + 1>>
      <4>1. <<accepted + 1>> \in Seq(Nat)
        BY <2>1
      <4> QED BY <2>1, <4>1, ConcatAssociative
    <3>4. Ascending(accepted) \o <<accepted + 1>> = Append(Ascending(accepted), accepted + 1)
      BY <2>1, AscendingProperties, AppendIsConcat
    <3> QED BY <2>1, <2>2, <3>1, <3>2, <3>3, <3>4, AscendingAppend
  <2> QED BY <2>2, <2>3 DEF Pipeline, NothingLost, WireIsPrefix
<1>2. CASE SendFull(s) \/ SenderStep(s)
  BY <1>2 DEF SendFull, SenderStep, CheckClosed, CloseSend, Drop,
     connVars, writerVars, Pipeline, NothingLost, WireIsPrefix
<1> QED BY <1>1, <1>2

LEMMA PipelineWriter ==
  ASSUME Typed, Pipeline, WriterStep
  PROVE  Pipeline'
<1>0. /\ accepted \in Nat /\ wire \in Seq(Nat) /\ batch \in Seq(Nat)
      /\ sendCh \in Seq(Nat)
  BY WriterAssumption DEF Typed, TypeOK
<1>1. CASE Receive \/ DrainMore
  <2>1. /\ sendCh # <<>> /\ batch' = Append(batch, Head(sendCh)) /\ sendCh' = Tail(sendCh)
        /\ writer # "stopped" /\ UNCHANGED <<wire, accepted>>
    BY <1>1 DEF Receive, DrainMore
  <2>2. /\ batch' \in Seq(Nat) /\ sendCh' \in Seq(Nat)
        /\ batch' \o sendCh' = batch \o sendCh
    BY <1>0, <2>1, MoveHead
  <2>3. (wire \o batch') \o sendCh' = wire \o (batch' \o sendCh')
    BY <1>0, <2>2, Assoc, Zenon
  <2>4. (wire \o batch) \o sendCh = wire \o (batch \o sendCh)
    BY <1>0, Assoc, Zenon
  <2>5. (wire \o batch) \o sendCh = Ascending(accepted)
    BY <2>1 DEF Pipeline, NothingLost
  <2>6. (wire \o batch') \o sendCh' = Ascending(accepted)
    BY <2>2, <2>3, <2>4, <2>5, Zenon
  <2> QED BY <2>1, <2>6 DEF Pipeline, NothingLost, WireIsPrefix
<1>2. CASE DrainEnd \/ Timer \/ SeeClose
  BY <1>2 DEF DrainEnd, Timer, SeeClose, connVars, Pipeline, NothingLost, WireIsPrefix
<1>3. CASE WriteNext
  <2>1. /\ batch # <<>> /\ wire' = Append(wire, Head(batch)) /\ batch' = Tail(batch)
        /\ writer # "stopped" /\ UNCHANGED <<sendCh, accepted>>
    BY <1>3 DEF WriteNext, connVars
  <2>2. /\ wire' \in Seq(Nat) /\ batch' \in Seq(Nat)
        /\ wire' \o batch' = wire \o batch
    BY <1>0, <2>1, MoveHead
  <2>3. (wire \o batch) \o sendCh = Ascending(accepted)
    BY <2>1 DEF Pipeline, NothingLost
  <2>4. (wire' \o batch') \o sendCh' = Ascending(accepted')
    BY <2>1, <2>2, <2>3, Zenon
  <2>5. wire' = Ascending(Len(wire'))
    <3>1. wire' \o (batch' \o sendCh) = Ascending(accepted)
      <4>1. wire' \o (batch' \o sendCh) = (wire' \o batch') \o sendCh
        BY <1>0, <2>2, Assoc, Zenon
      <4> QED BY <2>1, <2>4, <4>1, Zenon
    <3>2. batch' \o sendCh \in Seq(Nat)
      BY <1>0, <2>2, ConcatProperties
    <3> QED BY <1>0, <2>2, <3>1, <3>2, AscendingPrefix
  <2> QED BY <2>4, <2>5 DEF Pipeline, NothingLost, WireIsPrefix
<1>4. CASE WriteFails \/ FlushEnd
  BY <1>4 DEF WriteFails, FlushEnd, connVars, Pipeline, NothingLost, WireIsPrefix
<1> QED BY <1>1, <1>2, <1>3, <1>4 DEF WriterStep

LEMMA PipelineReader ==
  ASSUME Pipeline, ReaderStep \/ ReplyBegin \/ Disconnect
  PROVE  Pipeline'
BY DEF ReaderStep, ReplyEnd, ReadFails, ReaderCheckClosed, ReaderCloseSend, HangUp,
   ReplyBegin, Disconnect, connVars, writerVars, Pipeline, NothingLost, WireIsPrefix

LEMMA PipelineInit == Init => Pipeline
<1> SUFFICES ASSUME Init PROVE Pipeline
  OBVIOUS
<1>1. <<>> = Ascending(0)
  BY DEF Ascending
<1>2. Len(<<>>) = 0 /\ <<>> \o <<>> \o <<>> = <<>>
  BY ConcatEmptySeq
<1> QED BY <1>1, <1>2 DEF Init, Pipeline, NothingLost, WireIsPrefix

LEMMA PipelineInductive == Typed /\ Pipeline /\ [Next]_vars => Pipeline'
<1> SUFFICES ASSUME Typed, Pipeline, [Next]_vars PROVE Pipeline'
  OBVIOUS
<1>1. CASE UNCHANGED vars
  BY <1>1 DEF vars, connVars, writerVars, Pipeline, NothingLost, WireIsPrefix
<1> QED BY <1>1, PipelineSenders, PipelineWriter, PipelineReader DEF Next

(* No message that Send accepted is lost, duplicated or overtaken on its   *)
(* way through the channel and writeLoop's batches to the socket, as long  *)
(* as writeLoop runs.                                                      *)
THEOREM NoMessageLost == Spec => []NothingLost
<1>1. Init => Typed /\ Pipeline
  BY TypedInit, PipelineInit
<1>2. Typed /\ Pipeline /\ [Next]_vars => (Typed /\ Pipeline)'
  BY TypedInductive, PipelineInductive
<1>3. Pipeline => NothingLost
  BY DEF Pipeline
<1> QED BY <1>1, <1>2, <1>3, PTL DEF Spec

(* Whatever happens to connection, writer and reader, the client has at    *)
(* any time received exactly the first of the accepted messages, in order. *)
THEOREM WirePrefix == Spec => []WireIsPrefix
<1>1. Init => Typed /\ Pipeline
  BY TypedInit, PipelineInit
<1>2. Typed /\ Pipeline /\ [Next]_vars => (Typed /\ Pipeline)'
  BY TypedInductive, PipelineInductive
<1>3. Pipeline => WireIsPrefix
  BY DEF Pipeline
<1> QED BY <1>1, <1>2, <1>3, PTL DEF Spec

-----------------------------------------------------------------------------
(* The write batcher.  A set of natural numbers with 0 and the successor of
   each of its members is Nat: what a loop does is proved by induction. *)
LEMMA NatSetInduction ==
  ASSUME NEW T \in SUBSET Nat, 0 \in T, \A n \in T : n + 1 \in T
  PROVE  T = Nat
<1> DEFINE R == {ss \in Nat \X Nat : ss[1] < ss[2]}
<1>1. IsWellFoundedOn(R, Nat)
  BY NatLessThanWellFounded, Zenon DEF OpToRel
<1>2. SUFFICES ASSUME Nat \ T # {} PROVE FALSE
  OBVIOUS
<1>3. PICK m \in Nat \ T : \A n \in Nat \ T : <<n, m>> \notin R
  BY <1>1, <1>2, WFMin, Zenon
<1>4. m - 1 \in Nat /\ <<m - 1, m>> \in R
  <2>1. m \in Nat /\ m # 0
    BY <1>3
  <2> QED BY <2>1
<1> QED BY <1>3, <1>4

(* The loop of flush: what it has executed after a job, and its first n rounds. *)
Executes(s, c) == IF c \in expired THEN s ELSE Append(s, c)
Loops(run, group, n) ==
  /\ run \in [0..n -> Seq(Callers)]
  /\ run[0] = <<>>
  /\ \A m \in 1..n : run[m] = Executes(run[m - 1], group[m])

LEMMA LoopsExist ==
  ASSUME NEW group \in Seq(Callers)
  PROVE  \E run : Loops(run, group, Len(group))
<1> DEFINE T == {n \in Nat : n <= Len(group) => \E run : Loops(run, group, n)}
<1>1. 0 \in T
  <2>1. Loops([m \in {0} |-> <<>>], group, 0)
    BY DEF Loops
  <2> QED BY <2>1
<1>2. ASSUME NEW n \in T PROVE n + 1 \in T
  <2>1. SUFFICES ASSUME n + 1 <= Len(group) PROVE \E run : Loops(run, group, n + 1)
    OBVIOUS
  <2>2. n \in Nat /\ n < Len(group) /\ n + 1 \in DOMAIN group
    BY <2>1
  <2>3. PICK run : Loops(run, group, n)
    BY <2>2
  <2> DEFINE last == Executes(run[n], group[n + 1])
             more == [m \in 0..(n + 1) |-> IF m = n + 1 THEN last ELSE run[m]]
  <2>4. last \in Seq(Callers)
    BY <2>2, <2>3 DEF Executes, Loops
  <2> HIDE DEF last
  <2>5. more \in [0..(n + 1) -> Seq(Callers)]
    BY <2>2, <2>3, <2>4 DEF Loops
  <2>6. more[0] = <<>>
    BY <2>2, <2>3 DEF Loops
  <2>7. \A m \in 1..(n + 1) : more[m] = Executes(more[m - 1], group[m])
    <3>1. \A m \in 1..n : more[m] = run[m] /\ more[m - 1] = run[m - 1]
      BY <2>2
    <3>2. more[n + 1] = last /\ more[n] = run[n]
      BY <2>2
    <3>3. \A m \in 1..(n + 1) : m \in 1..n \/ m = n + 1
      BY <2>2
    <3> HIDE DEF more
    <3>4. (n + 1) - 1 = n
      BY <2>2
    <3> QED BY <2>3, <3>1, <3>2, <3>3, <3>4 DEF Loops, last
  <2> QED BY <2>5, <2>6, <2>7 DEF Loops
<1> HIDE DEF T
<1>3. T \in SUBSET Nat
  BY DEF T
<1>4. T = Nat
  BY <1>1, <1>2, <1>3, NatSetInduction
<1>5. Len(group) \in T
  BY <1>4
<1> QED BY <1>5 DEF T

LEMMA LiveLoops ==
  ASSUME NEW group \in Seq(Callers)
  PROVE  \E run : Loops(run, group, Len(group)) /\ Live(group) = run[Len(group)]
<1> DEFINE executed[n \in 0..Len(group)] ==
             IF n = 0 THEN <<>>
             ELSE IF group[n] \in expired THEN executed[n - 1]
             ELSE Append(executed[n - 1], group[n])
<1>1. PICK run : Loops(run, group, Len(group))
  BY LoopsExist
<1>2. run = [n \in 0..Len(group) |->
               IF n = 0 THEN <<>>
               ELSE IF group[n] \in expired THEN run[n - 1]
               ELSE Append(run[n - 1], group[n])]
  <2>1. \A n \in 0..Len(group) : n = 0 \/ n \in 1..Len(group)
    OBVIOUS
  <2> QED BY <1>1, <2>1 DEF Loops, Executes
<1>3. executed = [n \in 0..Len(group) |->
               IF n = 0 THEN <<>>
               ELSE IF group[n] \in expired THEN executed[n - 1]
               ELSE Append(executed[n - 1], group[n])]
  BY <1>2, Zenon
<1>4. Live(group) = executed[Len(group)]
  BY DEF Live
<1> HIDE DEF executed
<1>5. \A n \in 0..Len(group) : executed[n] = 
               IF n = 0 THEN <<>>
               ELSE IF group[n] \in expired THEN executed[n - 1]
               ELSE Append(executed[n - 1], group[n])
  BY <1>3
<1> DEFINE T == {n \in Nat : n <= Len(group) => executed[n] = run[n]}
<1>6. 0 \in T
  BY <1>1, <1>5 DEF Loops
<1>7. ASSUME NEW n \in T PROVE n + 1 \in T
  <2>1. SUFFICES ASSUME n + 1 <= Len(group) PROVE executed[n + 1] = run[n + 1]
    OBVIOUS
  <2>2. n \in Nat /\ (n + 1) - 1 = n /\ n + 1 \in 1..Len(group) /\ n + 1 \in 0..Len(group) /\ n + 1 # 0
    BY <2>1
  <2>3. executed[n] = run[n]
    BY <2>2
  <2>4. executed[n + 1] = IF group[n + 1] \in expired THEN executed[n] ELSE Append(executed[n], group[n + 1])
    BY <1>5, <2>2
  <2> QED BY <1>1, <2>2, <2>3, <2>4 DEF Loops, Executes
<1>8. Len(group) \in T
  <2> HIDE DEF T
  <2>1. T \in SUBSET Nat
    BY DEF T
  <2>2. T = Nat
    BY <1>6, <1>7, <2>1, NatSetInduction
  <2> QED BY <2>2
<1> QED BY <1>1, <1>4, <1>8

Distinct(s) == \A i, j \in 1..Len(s) : s[i] = s[j] => i = j

(* n rounds of the loop keep what is not expired, in the order of the batch. *)
Keeps(s, group, n) ==
  /\ \A k \in 1..Len(s) : \E i \in 1..n : s[k] = group[i] /\ group[i] \notin expired
  /\ \A i \in 1..n : group[i] \notin expired => \E k \in 1..Len(s) : s[k] = group[i]
  /\ \A j, k \in 1..Len(s) : j < k =>
       \E i, l \in 1..n : i < l /\ s[j] = group[i] /\ s[k] = group[l]

LEMMA KeepsStep ==
  ASSUME NEW group \in Seq(Callers), NEW n \in Nat, n + 1 <= Len(group),
         NEW s \in Seq(Callers), Keeps(s, group, n)
  PROVE  Keeps(Executes(s, group[n + 1]), group, n + 1)
<1>0. 1..n \subseteq 1..(n + 1) /\ \A i \in 1..(n + 1) : i \in 1..n \/ i = n + 1
  OBVIOUS
<1>1. CASE group[n + 1] \in expired
  BY <1>0, <1>1 DEF Keeps, Executes
<1>2. CASE group[n + 1] \notin expired
  <2> DEFINE t == Append(s, group[n + 1])
  <2>1. /\ Len(t) = Len(s) + 1 /\ t[Len(s) + 1] = group[n + 1]
        /\ \A k \in 1..Len(s) : t[k] = s[k]
        /\ \A k \in 1..Len(t) : k \in 1..Len(s) \/ k = Len(s) + 1
    BY <1>0
  <2>2. Len(s) \in Nat /\ Len(t) \in Nat /\ 1..Len(s) \subseteq 1..Len(t) /\ Len(s) + 1 \in 1..Len(t)
    BY <2>1
  <2> HIDE DEF t
  <2>3. ASSUME NEW k \in 1..Len(t)
        PROVE  \E i \in 1..(n + 1) : t[k] = group[i] /\ group[i] \notin expired
    <3>1. CASE k \in 1..Len(s)
      <4>1. PICK i \in 1..n : s[k] = group[i] /\ group[i] \notin expired
        BY <3>1 DEF Keeps
      <4>2. i \in 1..(n + 1) /\ t[k] = s[k]
        BY <1>0, <2>1, <3>1
      <4> QED BY <4>1, <4>2
    <3>2. CASE k = Len(s) + 1
      BY <1>2, <2>1, <3>2
    <3> QED BY <2>1, <3>1, <3>2
  <2>4. \A i \in 1..(n + 1) : group[i] \notin expired => \E k \in 1..Len(t) : t[k] = group[i]
    BY <1>0, <1>2, <2>1, <2>2 DEF Keeps
  <2>5. ASSUME NEW j \in 1..Len(t), NEW k \in 1..Len(t), j < k
        PROVE  \E i, l \in 1..(n + 1) : i < l /\ t[j] = group[i] /\ t[k] = group[l]
    <3>1. j \in 1..Len(s)
      BY <2>1, <2>2, <2>5
    <3>2. CASE k \in 1..Len(s)
      <4>1. PICK i, l \in 1..n : i < l /\ s[j] = group[i] /\ s[k] = group[l]
        BY <2>5, <3>1, <3>2 DEF Keeps
      <4>2. i \in 1..(n + 1) /\ l \in 1..(n + 1) /\ t[j] = s[j] /\ t[k] = s[k]
        BY <1>0, <2>1, <3>1, <3>2
      <4> QED BY <4>1, <4>2
    <3>3. CASE k = Len(s) + 1
      <4>1. PICK i \in 1..n : s[j] = group[i]
        BY <3>1 DEF Keeps
      <4>2. i < n + 1 /\ n + 1 \in 1..(n + 1)
        OBVIOUS
      <4> QED BY <1>0, <2>1, <3>1, <3>3, <4>1, <4>2
    <3> QED BY <2>1, <3>2, <3>3
  <2>6. Keeps(t, group, n + 1)
    BY <2>3, <2>4, <2>5 DEF Keeps
  <2>7. Executes(s, group[n + 1]) = t
    BY <1>2 DEF Executes, t
  <2> QED BY <2>6, <2>7
<1> QED BY <1>1, <1>2

LEMMA LiveKeeps ==
  ASSUME NEW group \in Seq(Callers)
  PROVE  Live(group) \in Seq(Callers) /\ Keeps(Live(group), group, Len(group))
<1>1. PICK run : Loops(run, group, Len(group)) /\ Live(group) = run[Len(group)]
  BY LiveLoops
<1> DEFINE T == {n \in Nat : n <= Len(group) => Keeps(run[n], group, n)}
<1>2. 0 \in T
  BY <1>1 DEF Loops, Keeps
<1>3. ASSUME NEW n \in T PROVE n + 1 \in T
  <2>1. SUFFICES ASSUME n + 1 <= Len(group) PROVE Keeps(run[n + 1], group, n + 1)
    OBVIOUS
  <2>2. n \in Nat /\ n \in 0..Len(group) /\ Keeps(run[n], group, n)
    BY <2>1
  <2>3. n + 1 \in 1..Len(group) /\ (n + 1) - 1 = n
    BY <2>1
  <2>4. run[n] \in Seq(Callers) /\ run[n + 1] = Executes(run[n], group[n + 1])
    BY <1>1, <2>2, <2>3 DEF Loops
  <2> QED BY <2>1, <2>2, <2>4, KeepsStep
<1> HIDE DEF T
<1>4. T \in SUBSET Nat
  BY DEF T
<1>5. T = Nat
  BY <1>2, <1>3, <1>4, NatSetInduction
<1>6. Len(group) \in T
  BY <1>5
<1>7. Len(group) \in 0..Len(group)
  OBVIOUS
<1> QED BY <1>1, <1>6, <1>7 DEF T, Loops

(* What flush executes of a batch: its writes that are not expired, each once
   and in their order. *)
LEMMA LiveInOrder ==
  ASSUME NEW group \in Seq(Callers), Distinct(group)
  PROVE  /\ Live(group) \in Seq(Callers) /\ Distinct(Live(group))
         /\ ToSet(Live(group)) = ToSet(group) \ expired
         /\ \A x, y : Before(Live(group), x, y) => Before(group, x, y)
<1> DEFINE s == Live(group)
<1>1. s \in Seq(Callers) /\ Keeps(s, group, Len(group))
  BY LiveKeeps
<1> HIDE DEF s
<1>2. ToSet(s) = ToSet(group) \ expired
  <2>1. DOMAIN s = 1..Len(s) /\ DOMAIN group = 1..Len(group)
    BY <1>1
  <2>2. ASSUME NEW x \in ToSet(s) PROVE x \in ToSet(group) \ expired
    <3>1. PICK k \in 1..Len(s) : x = s[k]
      BY <2>1, <2>2 DEF ToSet
    <3>2. PICK i \in 1..Len(group) : s[k] = group[i] /\ group[i] \notin expired
      BY <1>1, <3>1 DEF Keeps
    <3> QED BY <2>1, <3>1, <3>2 DEF ToSet
  <2>3. ASSUME NEW x \in ToSet(group) \ expired PROVE x \in ToSet(s)
    <3>1. PICK i \in 1..Len(group) : x = group[i]
      BY <2>1, <2>3 DEF ToSet
    <3>2. PICK k \in 1..Len(s) : s[k] = group[i]
      BY <1>1, <2>3, <3>1 DEF Keeps
    <3> QED BY <2>1, <3>1, <3>2 DEF ToSet
  <2> QED BY <2>2, <2>3
<1>3. Distinct(s)
  <2> SUFFICES ASSUME NEW j \in 1..Len(s), NEW k \in 1..Len(s), s[j] = s[k], j < k
               PROVE  FALSE
    BY <1>1 DEF Distinct
  <2>1. PICK i, l \in 1..Len(group) : i < l /\ s[j] = group[i] /\ s[k] = group[l]
    BY <1>1 DEF Keeps
  <2>2. i # l
    BY <2>1
  <2>3. group[i] = group[l]
    BY <2>1, Zenon
  <2> QED BY <2>2, <2>3 DEF Distinct
<1>4. \A x, y : Before(s, x, y) => Before(group, x, y)
  <2> SUFFICES ASSUME NEW j \in 1..Len(s), NEW k \in 1..Len(s), j < k
               PROVE  Before(group, s[j], s[k])
    BY DEF Before
  <2>1. PICK i, l \in 1..Len(group) : i < l /\ s[j] = group[i] /\ s[k] = group[l]
    BY <1>1 DEF Keeps
  <2> QED BY <2>1 DEF Before
<1> QED BY <1>1, <1>2, <1>3, <1>4 DEF s

-----------------------------------------------------------------------------
(* Sequences as queues: what Append, Head and Tail, and \o do to the elements. *)
LEMMA AppendOne ==
  ASSUME NEW S, NEW s \in Seq(S), NEW x \in S
  PROVE  /\ Append(s, x) \in Seq(S) /\ Len(Append(s, x)) = Len(s) + 1
         /\ ToSet(Append(s, x)) = ToSet(s) \cup {x}
         /\ Distinct(s) /\ x \notin ToSet(s) => Distinct(Append(s, x))
<1> DEFINE t == Append(s, x)
<1>1. /\ t \in Seq(S) /\ Len(t) = Len(s) + 1 /\ t[Len(s) + 1] = x /\ Len(s) \in Nat
      /\ \A i \in 1..Len(s) : t[i] = s[i]
  OBVIOUS
<1> HIDE DEF t
<1>2. \A i \in 1..Len(t) : i \in 1..Len(s) \/ i = Len(s) + 1
  BY <1>1
<1>3. DOMAIN s = 1..Len(s) /\ DOMAIN t = 1..Len(t) /\ 1..Len(s) \subseteq 1..Len(t)
      /\ Len(s) + 1 \in 1..Len(t)
  BY <1>1
<1>4. ToSet(t) = ToSet(s) \cup {x}
  BY <1>1, <1>2, <1>3 DEF ToSet
<1>5. ASSUME Distinct(s), x \notin ToSet(s) PROVE Distinct(t)
  <2>1. \A i \in 1..Len(s) : s[i] # x
    BY <1>3, <1>5 DEF ToSet
  <2> QED BY <1>1, <1>2, <1>5, <2>1 DEF Distinct
<1> QED BY <1>1, <1>4, <1>5 DEF t

LEMMA TakeHead ==
  ASSUME NEW S, NEW s \in Seq(S), s # <<>>
  PROVE  /\ Head(s) \in S /\ Tail(s) \in Seq(S) /\ Len(Tail(s)) = Len(s) - 1
         /\ ToSet(s) = {Head(s)} \cup ToSet(Tail(s))
         /\ Distinct(s) => Distinct(Tail(s)) /\ Head(s) \notin ToSet(Tail(s))
<1> DEFINE t == Tail(s)
<1>1. /\ t \in Seq(S) /\ Len(s) \in Nat /\ Len(s) > 0 /\ Len(t) = Len(s) - 1
      /\ \A i \in 1..Len(t) : t[i] = s[i + 1]
      /\ Head(s) = s[1] /\ s[1] \in S
  OBVIOUS
<1> HIDE DEF t
<1>2. DOMAIN s = 1..Len(s) /\ DOMAIN t = 1..Len(t)
  BY <1>1
<1>3. \A i \in 1..Len(t) : i + 1 \in 1..Len(s)
  BY <1>1
<1>4. \A i \in 1..Len(s) : i = 1 \/ (i - 1 \in 1..Len(t) /\ s[i] = t[i - 1])
  BY <1>1
<1>5. ToSet(s) = {s[1]} \cup ToSet(t)
  <2>1. ToSet(s) \subseteq {s[1]} \cup ToSet(t)
    BY <1>2, <1>4 DEF ToSet
  <2>2. 1 \in 1..Len(s)
    BY <1>1
  <2>3. {s[1]} \cup ToSet(t) \subseteq ToSet(s)
    BY <1>1, <1>2, <1>3, <2>2 DEF ToSet
  <2> QED BY <2>1, <2>3
<1>6. ASSUME Distinct(s) PROVE Distinct(t) /\ s[1] \notin ToSet(t)
  <2>1. ASSUME NEW i \in 1..Len(t), NEW j \in 1..Len(t), t[i] = t[j] PROVE i = j
    <3>1. s[i + 1] = s[j + 1] /\ i + 1 \in 1..Len(s) /\ j + 1 \in 1..Len(s)
      BY <1>1, <1>3, <2>1
    <3>2. i + 1 = j + 1
      BY <1>6, <3>1 DEF Distinct
    <3> QED BY <3>2
  <2>2. ASSUME NEW i \in 1..Len(t), t[i] = s[1] PROVE FALSE
    <3>1. s[i + 1] = s[1] /\ i + 1 \in 1..Len(s) /\ 1 \in 1..Len(s)
      BY <1>1, <1>3, <2>2
    <3>2. i + 1 = 1
      BY <1>6, <3>1 DEF Distinct
    <3> QED BY <3>2
  <2> QED BY <1>2, <2>1, <2>2 DEF Distinct, ToSet
<1> QED BY <1>1, <1>5, <1>6 DEF t

LEMMA JoinTwo ==
  ASSUME NEW S, NEW s \in Seq(S), NEW t \in Seq(S)
  PROVE  /\ s \o t \in Seq(S)
         /\ ToSet(s \o t) = ToSet(s) \cup ToSet(t)
         /\ Distinct(s) /\ Distinct(t) /\ ToSet(s) \cap ToSet(t) = {} => Distinct(s \o t)
<1> DEFINE u == s \o t
<1>1. /\ u \in Seq(S) /\ Len(s) \in Nat /\ Len(t) \in Nat /\ Len(u) = Len(s) + Len(t)
      /\ \A i \in 1..Len(s) : u[i] = s[i]
      /\ \A i \in 1..Len(t) : u[Len(s) + i] = t[i]
  OBVIOUS
<1> HIDE DEF u
<1>2. DOMAIN s = 1..Len(s) /\ DOMAIN t = 1..Len(t) /\ DOMAIN u = 1..Len(u)
  BY <1>1
<1>3. /\ \A i \in 1..Len(s) : i \in 1..Len(u)
      /\ \A i \in 1..Len(t) : Len(s) + i \in 1..Len(u)
  BY <1>1
<1>4. \A i \in 1..Len(u) :
        \/ i \in 1..Len(s) /\ u[i] = s[i]
        \/ i - Len(s) \in 1..Len(t) /\ u[i] = t[i - Len(s)] /\ i \notin 1..Len(s)
  BY <1>1
<1>5. ToSet(u) = ToSet(s) \cup ToSet(t)
  <2>1. ToSet(u) \subseteq ToSet(s) \cup ToSet(t)
    BY <1>2, <1>4 DEF ToSet
  <2>2. ToSet(s) \cup ToSet(t) \subseteq ToSet(u)
    <3>1. ASSUME NEW x \in ToSet(s) PROVE x \in ToSet(u)
      BY <1>1, <1>2, <1>3, <3>1 DEF ToSet
    <3>2. ASSUME NEW x \in ToSet(t) PROVE x \in ToSet(u)
      <4>1. PICK i \in 1..Len(t) : x = t[i]
        BY <1>2, <3>2 DEF ToSet
      <4>2. u[Len(s) + i] = x /\ Len(s) + i \in DOMAIN u
        BY <1>1, <1>2, <1>3, <4>1
      <4> QED BY <4>2 DEF ToSet
    <3> QED BY <3>1, <3>2
  <2> QED BY <2>1, <2>2
<1>6. ASSUME Distinct(s), Distinct(t), ToSet(s) \cap ToSet(t) = {} PROVE Distinct(u)
  <2> SUFFICES ASSUME NEW i \in 1..Len(u), NEW j \in 1..Len(u), u[i] = u[j] PROVE i = j
    BY DEF Distinct
  <2>1. \A k \in 1..Len(s), l \in 1..Len(t) : s[k] # t[l]
    BY <1>2, <1>6 DEF ToSet
  <2>2. CASE i \in 1..Len(s) /\ j \in 1..Len(s)
    BY <1>1, <1>6, <2>2 DEF Distinct
  <2>3. CASE i \notin 1..Len(s) /\ j \notin 1..Len(s)
    <3>1. /\ i - Len(s) \in 1..Len(t) /\ j - Len(s) \in 1..Len(t)
          /\ t[i - Len(s)] = t[j - Len(s)]
      BY <1>4, <2>3
    <3>2. i - Len(s) = j - Len(s)
      BY <1>6, <3>1 DEF Distinct
    <3> QED BY <1>1, <3>2
  <2>4. CASE i \in 1..Len(s) /\ j \notin 1..Len(s)
    BY <1>4, <2>1, <2>4
  <2>5. CASE i \notin 1..Len(s) /\ j \in 1..Len(s)
    BY <1>4, <2>1, <2>5
  <2> QED BY <2>2, <2>3, <2>4, <2>5
<1> QED BY <1>1, <1>5, <1>6 DEF u

-----------------------------------------------------------------------------
(* The writes that wait for the transaction, and what the batcher knows of the
   write of one caller. *)
Queued == ToSet(pending) \cup ToSet(jobs)

WriteOK(c) ==
  /\ c \in Queued => result[c] = "none"
  /\ result[c] = "ok" <=> c \in ToSet(db)
  /\ at[c] \in {"idle", "submit"} => c \notin Queued /\ result[c] = "none"
  /\ at[c] = "wait" /\ result[c] = "none" => c \in Queued
  /\ at[c] = "ok" => result[c] = "ok"
  /\ at[c] = "err" /\ c \notin expired => c \notin Queued /\ result[c] # "ok"

BatchInv ==
  /\ BatchTypeOK
  /\ Distinct(pending) /\ Distinct(jobs) /\ Distinct(db)
  /\ ToSet(pending) \cap ToSet(jobs) = {} /\ Queued \cap ToSet(db) = {}
  /\ \A c \in Callers : WriteOK(c)

(* A flush of some batch, as run makes it: the queue is what was in flight
   without the batch. *)
FlushOf(group, commits) ==
  /\ group \in Seq(Callers) /\ Distinct(group) /\ ToSet(group) \cap ToSet(jobs') = {}
  /\ jobs' \in Seq(Callers) /\ Len(jobs') <= QueueSize /\ Distinct(jobs')
  /\ ToSet(group) \cup ToSet(jobs') = Queued
  /\ Flush(group, commits)
  /\ runner' \in {"select", "drain", "done"}
  /\ UNCHANGED <<at, expired, stop>>

(* It commits some of the writes of the batch, in their order, and answers all. *)
Commits(group, written) ==
  /\ ToSet(written) \subseteq ToSet(group) /\ Distinct(written)
  /\ \A x, y : Before(written, x, y) => Before(group, x, y)
  /\ db' = db \o written
  /\ db' \in Seq(Callers) /\ Distinct(db') /\ ToSet(db') = ToSet(db) \cup ToSet(written)
  /\ result' = [c \in Callers |-> IF c \in ToSet(written) THEN "ok"
                                  ELSE IF c \in ToSet(group) THEN "err" ELSE result[c]]
  /\ pending' = <<>> /\ timerOn' = FALSE

LEMMA FlushWrites ==
  ASSUME BatchInv, NEW group, NEW commits \in BOOLEAN, FlushOf(group, commits)
  PROVE  \E written \in Seq(Callers) : Commits(group, written)
<1> DEFINE written == IF commits THEN Live(group) ELSE <<>>
<1>1. /\ db' = db \o written
      /\ result' = [c \in Callers |-> IF c \in ToSet(written) THEN "ok"
                                      ELSE IF c \in ToSet(group) THEN "err" ELSE result[c]]
      /\ pending' = <<>> /\ timerOn' = FALSE
  BY DEF FlushOf, Flush
<1>2. /\ written \in Seq(Callers) /\ ToSet(written) \subseteq ToSet(group) /\ Distinct(written)
      /\ \A x, y : Before(written, x, y) => Before(group, x, y)
  <2>1. CASE commits
    BY <2>1, LiveInOrder DEF FlushOf
  <2>2. CASE ~commits
    BY <2>2 DEF Before, Distinct, ToSet
  <2> QED BY <2>1, <2>2
<1>3. db \in Seq(Callers) /\ Distinct(db) /\ ToSet(db) \cap ToSet(written) = {}
  BY <1>2 DEF BatchInv, BatchTypeOK, FlushOf
<1> HIDE DEF written
<1>4. /\ db \o written \in Seq(Callers) /\ Distinct(db \o written)
      /\ ToSet(db \o written) = ToSet(db) \cup ToSet(written)
  BY <1>2, <1>3, JoinTwo
<1>5. Commits(group, written)
  BY <1>1, <1>2, <1>4 DEF Commits
<1> QED BY <1>2, <1>5

LEMMA NoneIn == ToSet(<<>>) = {} /\ Distinct(<<>>)
BY DEF ToSet, Distinct

LEMMA FlushStep ==
  ASSUME BatchInv, NEW group, NEW commits \in BOOLEAN, FlushOf(group, commits)
  PROVE  BatchInv'
<1>1. PICK written \in Seq(Callers) : Commits(group, written)
  BY FlushWrites
<1>2. BatchTypeOK'
  <2>1. result' \in [Callers -> {"none", "ok", "err"}]
    BY <1>1 DEF BatchInv, BatchTypeOK, Commits
  <2>2. pending' \in Seq(Callers) /\ timerOn' \in BOOLEAN /\ db' \in Seq(Callers)
    <3>1. pending' = <<>> /\ timerOn' = FALSE /\ db' \in Seq(Callers)
      BY <1>1, Zenon DEF Commits
    <3>2. <<>> \in Seq(Callers)
      OBVIOUS
    <3> QED BY <3>1, <3>2, Zenon
  <2> QED BY <2>1, <2>2 DEF BatchInv, BatchTypeOK, FlushOf
<1>3. Queued' = ToSet(jobs') /\ Distinct(pending') /\ ToSet(pending') \cap ToSet(jobs') = {}
  BY <1>1, NoneIn DEF Queued, Commits
<1>4. ToSet(group) \subseteq Queued /\ ToSet(jobs') \subseteq Queued /\ Queued \cap ToSet(db) = {}
      /\ ToSet(group) \cap ToSet(jobs') = {} /\ Queued = ToSet(group) \cup ToSet(jobs')
  BY DEF FlushOf, BatchInv
<1>5. Queued' \cap ToSet(db') = {}
  BY <1>1, <1>3, <1>4 DEF Commits
<1>6. ASSUME NEW c \in Callers PROVE WriteOK(c)'
  <2>1. WriteOK(c) /\ UNCHANGED <<at, expired>> /\ result'[c] =
          (IF c \in ToSet(written) THEN "ok" ELSE IF c \in ToSet(group) THEN "err" ELSE result[c])
    BY <1>1 DEF BatchInv, FlushOf, Commits
  <2> QED BY <1>1, <1>3, <1>4, <2>1 DEF WriteOK, Commits
<1> QED BY <1>1, <1>2, <1>3, <1>5, <1>6 DEF BatchInv, FlushOf, Commits

(* What each step that flushes makes of its batch. *)
LEMMA CollectTakes ==
  ASSUME BatchInv, Collect
  PROVE  LET group == Append(pending, Head(jobs)) IN
           /\ group \in Seq(Callers) /\ Distinct(group) /\ ToSet(group) \cap ToSet(jobs') = {}
           /\ jobs' = Tail(jobs)
           /\ jobs' \in Seq(Callers) /\ Len(jobs') <= QueueSize /\ Distinct(jobs')
           /\ ToSet(group) \cup ToSet(jobs') = Queued
           /\ UNCHANGED <<at, expired, stop, runner>>
<1>1. jobs # <<>> /\ jobs' = Tail(jobs) /\ UNCHANGED <<at, expired, stop, runner>>
  BY DEF Collect
<1>2. /\ jobs \in Seq(Callers) /\ pending \in Seq(Callers) /\ Len(jobs) <= QueueSize
      /\ Len(jobs) \in Nat /\ QueueSize \in Nat
      /\ Distinct(jobs) /\ Distinct(pending) /\ ToSet(pending) \cap ToSet(jobs) = {}
  BY BatcherAssumption DEF BatchInv, BatchTypeOK
<1>3. /\ Head(jobs) \in Callers /\ Tail(jobs) \in Seq(Callers) /\ Len(Tail(jobs)) = Len(jobs) - 1
      /\ ToSet(jobs) = {Head(jobs)} \cup ToSet(Tail(jobs))
      /\ Distinct(Tail(jobs)) /\ Head(jobs) \notin ToSet(Tail(jobs))
  BY <1>1, <1>2, TakeHead
<1>4. /\ Append(pending, Head(jobs)) \in Seq(Callers) /\ Distinct(Append(pending, Head(jobs)))
      /\ ToSet(Append(pending, Head(jobs))) = ToSet(pending) \cup {Head(jobs)}
  BY <1>2, <1>3, AppendOne
<1>5. Len(Tail(jobs)) <= QueueSize
  BY <1>2, <1>3
<1> QED BY <1>1, <1>2, <1>3, <1>4, <1>5 DEF Queued

LEMMA PendingTakes ==
  ASSUME BatchInv, NEW commits, Flush(pending, commits), UNCHANGED <<at, expired, jobs, stop>>,
         runner' \in {"select", "drain", "done"}
  PROVE  FlushOf(pending, commits)
BY DEF BatchInv, BatchTypeOK, FlushOf, Queued

LEMMA RunnerKeeps ==
  ASSUME BatchInv, RunnerStep
  PROVE  BatchInv'
<1>1. CASE Collect
  <2> DEFINE group == Append(pending, Head(jobs))
  <2>0. /\ group \in Seq(Callers) /\ Distinct(group) /\ ToSet(group) \cap ToSet(jobs') = {}
        /\ jobs' \in Seq(Callers) /\ Len(jobs') <= QueueSize /\ Distinct(jobs')
        /\ ToSet(group) \cup ToSet(jobs') = Queued
        /\ UNCHANGED <<at, expired, stop, runner>>
    BY <1>1, CollectTakes
  <2>1. runner' \in {"select", "drain", "done"}
    BY <2>0 DEF BatchInv, BatchTypeOK
  <2>2. ASSUME NEW commits \in BOOLEAN, Flush(group, commits) PROVE BatchInv'
    <3>1. FlushOf(group, commits)
      BY <2>0, <2>1, <2>2 DEF FlushOf
    <3> QED BY <3>1, FlushStep
  <2>3. ASSUME pending' = group, timerOn' = (timerOn \/ Len(group) = 1), UNCHANGED <<result, db>>
        PROVE BatchInv'
    <3>1. Queued' = Queued
      BY <2>0, <2>3 DEF Queued
    <3>2. BatchTypeOK'
      BY <2>0, <2>3 DEF BatchInv, BatchTypeOK
    <3>3. \A c \in Callers : WriteOK(c)'
      BY <2>0, <2>3, <3>1 DEF BatchInv, WriteOK
    <3> QED BY <2>0, <2>3, <3>1, <3>2, <3>3 DEF BatchInv
  <2> QED BY <1>1, <2>2, <2>3 DEF Collect
<1>2. CASE TimerFires
  <2>1. PICK commits \in BOOLEAN : Flush(pending, commits) /\ UNCHANGED <<at, expired, jobs, stop, runner>>
    BY <1>2 DEF TimerFires
  <2>2. FlushOf(pending, commits)
    BY <2>1, PendingTakes DEF BatchInv, BatchTypeOK
  <2> QED BY <2>2, FlushStep
<1>3. CASE SeeStop
  BY <1>3 DEF SeeStop, BatchInv, BatchTypeOK, Queued, WriteOK
<1>4. CASE DrainJob
  <2>1. /\ jobs # <<>> /\ jobs' = Tail(jobs) /\ pending' = Append(pending, Head(jobs))
        /\ UNCHANGED <<at, expired, stop, timerOn, runner, result, db>>
    BY <1>4 DEF DrainJob
  <2>2. /\ jobs \in Seq(Callers) /\ pending \in Seq(Callers) /\ Len(jobs) <= QueueSize
        /\ Len(jobs) \in Nat /\ QueueSize \in Nat
        /\ Distinct(jobs) /\ Distinct(pending) /\ ToSet(pending) \cap ToSet(jobs) = {}
    BY BatcherAssumption DEF BatchInv, BatchTypeOK
  <2>3. /\ Head(jobs) \in Callers /\ jobs' \in Seq(Callers) /\ Len(jobs') = Len(jobs) - 1
        /\ ToSet(jobs) = {Head(jobs)} \cup ToSet(jobs')
        /\ Distinct(jobs') /\ Head(jobs) \notin ToSet(jobs')
    BY <2>1, <2>2, TakeHead
  <2>4. /\ pending' \in Seq(Callers) /\ Distinct(pending')
        /\ ToSet(pending') = ToSet(pending) \cup {Head(jobs)}
    BY <2>1, <2>2, <2>3, AppendOne
  <2>5. Queued' = Queued /\ ToSet(pending') \cap ToSet(jobs') = {} /\ Len(jobs') <= QueueSize
    BY <2>2, <2>3, <2>4 DEF Queued
  <2>6. BatchTypeOK'
    BY <2>1, <2>3, <2>4, <2>5 DEF BatchInv, BatchTypeOK
  <2>7. \A c \in Callers : WriteOK(c)'
    BY <2>1, <2>5 DEF BatchInv, WriteOK
  <2> QED BY <2>1, <2>3, <2>4, <2>5, <2>6, <2>7 DEF BatchInv
<1>5. CASE DrainDone
  <2>1. PICK commits \in BOOLEAN : Flush(pending, commits) /\ UNCHANGED <<at, expired, jobs, stop>>
    BY <1>5 DEF DrainDone
  <2>2. FlushOf(pending, commits)
    BY <1>5, <2>1, PendingTakes DEF DrainDone
  <2> QED BY <2>2, FlushStep
<1> QED BY <1>1, <1>2, <1>3, <1>4, <1>5 DEF RunnerStep

LEMMA CallKeeps ==
  ASSUME BatchInv, NEW c \in Callers, Call(c) \/ Expire(c) \/ CallerStep(c)
  PROVE  BatchInv'
<1>1. CASE Submit(c)
  <2>1. /\ at[c] = "submit" /\ at' = [at EXCEPT ![c] = "wait"] /\ Len(jobs) < QueueSize
        /\ jobs' = Append(jobs, c) /\ UNCHANGED <<expired, stop, pending, timerOn, runner, result, db>>
    BY <1>1 DEF Submit, Step, RunnerVars
  <2>2. /\ jobs \in Seq(Callers) /\ Len(jobs) \in Nat /\ QueueSize \in Nat /\ Distinct(jobs)
        /\ c \notin Queued /\ result[c] = "none"
    BY <2>1, BatcherAssumption DEF BatchInv, BatchTypeOK, WriteOK
  <2>3. /\ jobs' \in Seq(Callers) /\ Len(jobs') = Len(jobs) + 1
        /\ ToSet(jobs') = ToSet(jobs) \cup {c} /\ Distinct(jobs')
    BY <2>1, <2>2, AppendOne DEF Queued
  <2>4. Len(jobs') <= QueueSize
    BY <2>1, <2>2, <2>3
  <2>5. BatchTypeOK'
    BY <2>1, <2>3, <2>4 DEF BatchInv, BatchTypeOK, Statuses
  <2>6. Queued' = Queued \cup {c} /\ c \notin ToSet(db)
    BY <2>1, <2>2, <2>3 DEF Queued, BatchInv, WriteOK
  <2>7. ASSUME NEW e \in Callers PROVE WriteOK(e)'
    <3>1. WriteOK(e) /\ at'[e] = (IF e = c THEN "wait" ELSE at[e])
      BY <2>1 DEF BatchInv, BatchTypeOK
    <3> QED BY <2>1, <2>2, <2>6, <3>1 DEF WriteOK
  <2>8. Distinct(pending') /\ ToSet(pending') \cap ToSet(jobs') = {} /\ Queued' \cap ToSet(db') = {}
    BY <2>1, <2>2, <2>3, <2>6 DEF BatchInv, Queued
  <2> QED BY <2>1, <2>3, <2>5, <2>7, <2>8 DEF BatchInv
<1>2. CASE Expire(c)
  <2>1. /\ expired' = expired \cup {c} /\ UNCHANGED <<at, jobs, stop, pending, timerOn, runner, result, db>>
    BY <1>2 DEF Expire, RunnerVars
  <2>2. BatchTypeOK' /\ Queued' = Queued
    BY <2>1 DEF BatchInv, BatchTypeOK, Queued
  <2>3. \A e \in Callers : WriteOK(e)'
    BY <2>1, <2>2 DEF BatchInv, WriteOK
  <2> QED BY <2>1, <2>2, <2>3 DEF BatchInv
<1>3. CASE Call(c) \/ SubmitRefused(c) \/ ReceiveResult(c) \/ WaitCancelled(c)
  <2>1. UNCHANGED <<expired, jobs, stop, pending, timerOn, runner, result, db>>
    BY <1>3 DEF Call, SubmitRefused, ReceiveResult, WaitCancelled, RunnerVars
  <2>2. PICK to : /\ at' = [at EXCEPT ![c] = to]
                  /\ \/ at[c] = "idle" /\ to = "submit"
                     \/ at[c] = "submit" /\ to = "err"
                     \/ at[c] = "wait" /\ result[c] # "none" /\ to = result[c]
                     \/ at[c] = "wait" /\ c \in expired /\ to = "err"
    BY <1>3 DEF Call, SubmitRefused, ReceiveResult, WaitCancelled, Step
  <2>3. result[c] \in {"none", "ok", "err"}
    BY DEF BatchInv, BatchTypeOK
  <2>4. BatchTypeOK' /\ Queued' = Queued
    BY <2>1, <2>2, <2>3 DEF BatchInv, BatchTypeOK, Statuses, Queued
  <2>5. ASSUME NEW e \in Callers PROVE WriteOK(e)'
    <3>1. WriteOK(e) /\ at'[e] = (IF e = c THEN to ELSE at[e])
      BY <2>2 DEF BatchInv, BatchTypeOK
    <3> QED BY <2>1, <2>2, <2>3, <2>4, <3>1 DEF WriteOK
  <2> QED BY <2>1, <2>4, <2>5 DEF BatchInv
<1> QED BY <1>1, <1>2, <1>3 DEF CallerStep

LEMMA BatchInvariant == BatchSpec => []BatchInv
<1>1. BatchInit => BatchInv
  <2> SUFFICES ASSUME BatchInit PROVE BatchInv
    OBVIOUS
  <2>1. BatchTypeOK
    <3>1. <<>> \in Seq(Callers) /\ Len(<<>>) <= QueueSize
      BY BatcherAssumption
    <3> QED BY <3>1 DEF BatchInit, BatchTypeOK, Statuses
  <2>2. ToSet(pending) = {} /\ ToSet(jobs) = {} /\ ToSet(db) = {} /\ Queued = {}
        /\ Distinct(pending) /\ Distinct(jobs) /\ Distinct(db)
    BY NoneIn DEF BatchInit, Queued
  <2>3. \A c \in Callers : WriteOK(c)
    BY <2>2 DEF BatchInit, WriteOK
  <2> QED BY <2>1, <2>2, <2>3 DEF BatchInv
<1>2. BatchInv /\ [BatchNext]_batchVars => BatchInv'
  <2>1. ASSUME BatchInv, Close \/ UNCHANGED batchVars PROVE BatchInv'
    BY <2>1 DEF Close, RunnerVars, batchVars, BatchInv, BatchTypeOK, Queued, WriteOK
  <2> QED BY <2>1, RunnerKeeps, CallKeeps DEF BatchNext
<1> QED BY <1>1, <1>2, PTL DEF BatchSpec

(* Every write in flight keeps to the types: in particular the queue never
   holds more than its buffer. *)
THEOREM BatchTypes == BatchSpec => []BatchTypeOK
<1>1. BatchInv => BatchTypeOK
  BY DEF BatchInv
<1> QED BY <1>1, BatchInvariant, PTL

(* What a caller is told is true and stays true. *)
THEOREM AnswersHold == BatchSpec => []AnswersAreTrue
<1>1. BatchInv => AnswersAreTrue
  BY DEF BatchInv, WriteOK, AnswersAreTrue
<1> QED BY <1>1, BatchInvariant, PTL

(* No write is lost on its way or executed twice. *)
THEOREM WrittenOnce == BatchSpec => []ExactlyOnce
<1>1. BatchInv => ExactlyOnce
  <2> SUFFICES ASSUME BatchInv PROVE ExactlyOnce
    OBVIOUS
  <2>1. pending \in Seq(Callers) /\ jobs \in Seq(Callers) /\ db \in Seq(Callers)
    BY DEF BatchInv, BatchTypeOK
  <2>2. InFlight \in Seq(Callers) /\ ToSet(InFlight) = Queued /\ Distinct(InFlight)
    BY <2>1, JoinTwo DEF InFlight, BatchInv, Queued
  <2>3. Distinct(InFlight \o db)
    BY <2>1, <2>2, JoinTwo DEF BatchInv
  <2> QED BY <2>2, <2>3 DEF ExactlyOnce, Distinct, BatchInv, WriteOK
<1> QED BY <1>1, BatchInvariant, PTL

-----------------------------------------------------------------------------
(* A step that flushes overtakes nobody: whoever was in flight before a write
   that is now executed has left the queue with it. *)
LEMMA BeforeInSet ==
  ASSUME NEW S, NEW s \in Seq(S), NEW x, NEW y, Before(s, x, y)
  PROVE  x \in ToSet(s) /\ y \in ToSet(s)
BY DEF Before, ToSet

LEMMA OneOrder ==
  ASSUME NEW S, NEW s \in Seq(S), Distinct(s), NEW x, NEW y, Before(s, x, y)
  PROVE  ~Before(s, y, x)
<1> SUFFICES ASSUME Before(s, y, x) PROVE FALSE
  OBVIOUS
<1>1. PICK i, j \in 1..Len(s) : i < j /\ s[i] = x /\ s[j] = y
  BY DEF Before
<1>2. PICK k, l \in 1..Len(s) : k < l /\ s[k] = y /\ s[l] = x
  BY DEF Before
<1>3. i = l /\ j = k
  BY <1>1, <1>2 DEF Distinct
<1> QED BY <1>1, <1>2, <1>3

(* In a queue of two parts, what comes before an element of the first part is
   in the first part, ... *)
LEMMA BeforeInFirst ==
  ASSUME NEW S, NEW s \in Seq(S), NEW t \in Seq(S), ToSet(s) \cap ToSet(t) = {},
         NEW x, NEW y \in ToSet(s), Before(s \o t, x, y)
  PROVE  Before(s, x, y)
<1>1. /\ Len(s) \in Nat /\ Len(t) \in Nat /\ Len(s \o t) = Len(s) + Len(t)
      /\ \A i \in 1..Len(s) : (s \o t)[i] = s[i]
      /\ \A i \in 1..Len(t) : (s \o t)[Len(s) + i] = t[i]
  OBVIOUS
<1>2. PICK i, j \in 1..Len(s \o t) : i < j /\ (s \o t)[i] = x /\ (s \o t)[j] = y
  BY DEF Before
<1>3. j \in 1..Len(s)
  <2> SUFFICES ASSUME j \notin 1..Len(s) PROVE FALSE
    OBVIOUS
  <2>1. j - Len(s) \in 1..Len(t) /\ Len(s) + (j - Len(s)) = j
    BY <1>1
  <2>2. t[j - Len(s)] = y
    BY <1>1, <1>2, <2>1
  <2>3. y \in ToSet(t)
    BY <2>1, <2>2 DEF ToSet
  <2> QED BY <2>3
<1>4. i \in 1..Len(s)
  BY <1>1, <1>2, <1>3
<1> QED BY <1>1, <1>2, <1>3, <1>4 DEF Before

(* ... and what comes before or after one of the second part that is not in
   the first. *)
LEMMA BeforeInSecond ==
  ASSUME NEW S, NEW s \in Seq(S), NEW t \in Seq(S), NEW x, NEW y, x \notin ToSet(s),
         Before(s \o t, x, y)
  PROVE  Before(t, x, y)
<1>1. /\ Len(s) \in Nat /\ Len(t) \in Nat /\ Len(s \o t) = Len(s) + Len(t)
      /\ \A i \in 1..Len(s) : (s \o t)[i] = s[i]
      /\ \A i \in 1..Len(t) : (s \o t)[Len(s) + i] = t[i]
  OBVIOUS
<1>2. PICK i, j \in 1..Len(s \o t) : i < j /\ (s \o t)[i] = x /\ (s \o t)[j] = y
  BY DEF Before
<1>3. i \notin 1..Len(s)
  BY <1>1, <1>2 DEF ToSet
<1>4. /\ i - Len(s) \in 1..Len(t) /\ j - Len(s) \in 1..Len(t) /\ i - Len(s) < j - Len(s)
      /\ Len(s) + (i - Len(s)) = i /\ Len(s) + (j - Len(s)) = j
  BY <1>1, <1>2, <1>3
<1>5. t[i - Len(s)] = x /\ t[j - Len(s)] = y
  BY <1>1, <1>2, <1>4
<1> QED BY <1>4, <1>5 DEF Before

FifoStep ==
  \A c, d \in Callers : Before(InFlight, c, d) /\ d \in ToSet(db') =>
    c \notin ToSet(InFlight') /\ ~Before(db', d, c)

LEMMA FlushInOrder ==
  ASSUME BatchInv, NEW group, NEW commits \in BOOLEAN, FlushOf(group, commits),
         InFlight = group \o jobs'
  PROVE  FifoStep
<1> SUFFICES ASSUME NEW c \in Callers, NEW d \in Callers, Before(InFlight, c, d), d \in ToSet(db')
             PROVE  c \notin ToSet(InFlight') /\ ~Before(db', d, c)
  BY DEF FifoStep
<1>1. PICK written \in Seq(Callers) : Commits(group, written)
  BY FlushWrites
<1>2. /\ group \in Seq(Callers) /\ Distinct(group) /\ jobs' \in Seq(Callers)
      /\ ToSet(group) \cap ToSet(jobs') = {} /\ ToSet(group) \cup ToSet(jobs') = Queued
      /\ Queued \cap ToSet(db) = {} /\ db \in Seq(Callers)
  BY DEF FlushOf, BatchInv, BatchTypeOK
<1>3. d \in Queued
  BY <1>2, JoinTwo, BeforeInSet
<1>4. d \in ToSet(written) /\ d \in ToSet(group) /\ d \notin ToSet(db)
  BY <1>1, <1>2, <1>3 DEF Commits
<1>5. Before(group, c, d)
  BY <1>2, <1>4, BeforeInFirst
<1>6. c \in ToSet(group) /\ ~Before(group, d, c)
  BY <1>2, <1>5, BeforeInSet, OneOrder
<1>7. ToSet(InFlight') = ToSet(jobs')
  BY <1>1, <1>2, JoinTwo, NoneIn DEF InFlight, Commits
<1>8. ~Before(db', d, c)
  BY <1>1, <1>2, <1>4, <1>6, BeforeInSecond DEF Commits
<1> QED BY <1>2, <1>6, <1>7, <1>8

LEMMA FifoKept ==
  ASSUME BatchInv, [BatchNext]_batchVars
  PROVE  FifoStep
<1>0. /\ pending \in Seq(Callers) /\ jobs \in Seq(Callers) /\ db \in Seq(Callers)
      /\ ToSet(InFlight) = Queued /\ Queued \cap ToSet(db) = {}
  <2>1. pending \in Seq(Callers) /\ jobs \in Seq(Callers) /\ db \in Seq(Callers)
    BY DEF BatchInv, BatchTypeOK
  <2> QED BY <2>1, JoinTwo DEF InFlight, Queued, BatchInv
<1>1. ASSUME db' = db PROVE FifoStep
  <2>1. ASSUME NEW c \in Callers, NEW d \in Callers, Before(InFlight, c, d) PROVE d \notin ToSet(db')
    <3>1. InFlight \in Seq(Callers)
      BY <1>0 DEF InFlight
    <3> QED BY <1>0, <1>1, <2>1, <3>1, BeforeInSet
  <2> QED BY <2>1 DEF FifoStep
<1>2. CASE Collect
  <2> DEFINE group == Append(pending, Head(jobs))
  <2>1. /\ group \in Seq(Callers) /\ Distinct(group) /\ ToSet(group) \cap ToSet(jobs') = {}
        /\ jobs' = Tail(jobs)
        /\ jobs' \in Seq(Callers) /\ Len(jobs') <= QueueSize /\ Distinct(jobs')
        /\ ToSet(group) \cup ToSet(jobs') = Queued
        /\ UNCHANGED <<at, expired, stop, runner>>
    BY <1>2, CollectTakes
  <2>2. runner' \in {"select", "drain", "done"}
    BY <2>1 DEF BatchInv, BatchTypeOK
  <2>3. InFlight = group \o jobs'
    BY <1>0, <1>2, <2>1 DEF Collect, InFlight
  <2>4. ASSUME NEW commits \in BOOLEAN, Flush(group, commits) PROVE FifoStep
    <3>1. FlushOf(group, commits)
      BY <2>1, <2>2, <2>4 DEF FlushOf
    <3> QED BY <2>3, <3>1, FlushInOrder
  <2> QED BY <1>1, <1>2, <2>4 DEF Collect
<1>3. CASE TimerFires \/ DrainDone
  <2>1. PICK commits \in BOOLEAN : Flush(pending, commits) /\ UNCHANGED <<at, expired, jobs, stop>>
    BY <1>3 DEF TimerFires, DrainDone
  <2>2. runner' \in {"select", "drain", "done"}
    BY <1>3 DEF TimerFires, DrainDone, BatchInv, BatchTypeOK
  <2>3. FlushOf(pending, commits)
    BY <2>1, <2>2, PendingTakes
  <2>4. InFlight = pending \o jobs'
    BY <2>1 DEF InFlight
  <2> QED BY <2>3, <2>4, FlushInOrder
<1>4. CASE SeeStop \/ DrainJob \/ Close \/ UNCHANGED batchVars
  BY <1>1, <1>4 DEF SeeStop, DrainJob, Close, RunnerVars, batchVars
<1>5. ASSUME NEW c \in Callers, Call(c) \/ Expire(c) \/ CallerStep(c) PROVE FifoStep
  BY <1>1, <1>5 DEF Call, Expire, CallerStep, SubmitRefused, Submit, ReceiveResult, WaitCancelled,
                    RunnerVars
<1> QED BY <1>2, <1>3, <1>4, <1>5 DEF BatchNext, RunnerStep

(* First in, first out: of two writes in flight the one queued first is never
   overtaken, whatever the batches, their failures and the contexts that end. *)
THEOREM WrittenInOrder == BatchSpec => Fifo
<1>1. BatchInv /\ [BatchNext]_batchVars => [FifoStep]_batchVars
  BY FifoKept
<1> QED BY <1>1, BatchInvariant, PTL DEF BatchSpec, Fifo, FifoStep
=================================================================================
