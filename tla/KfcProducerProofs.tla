-------------------------- MODULE KfcProducerProofs -------------------------
(***************************************************************************)
(* Facts about the sending half of kfc that hold in every process that      *)
(* uses it, whatever it sends.                                             *)
(***************************************************************************)
EXTENDS KfcProducer, SequenceTheorems, TLAPS

(* What a step of a process may do to the producer, its messages being M. *)
ProducerMoves(M) ==
  \/ TobeProducer /\ producerLoop = "none"
  \/ \E m \in M : SendMessage(m)
  \/ TakeToSend \/ Sent \/ SendRetried \/ SendFails
  \/ ProducerTakesExit \/ CloseProducer
  \/ UNCHANGED producerVars

LEMMA ProducerTypeInit ==
  ASSUME NEW M, ProducerInit
  PROVE  ProducerTypeOK(M)
<1>1. <<>> \in Seq(M) /\ Len(<<>>) = 0
  BY EmptySeq
<1>2. 0 <= MaxQueue /\ 0 \in 0..MaxFailures
  BY ProducerAssumption, QueueAssumption
<1>3. /\ producerQ \in Seq(M) /\ Len(producerQ) = 0
      /\ sending \in Seq(M) /\ Len(sending) = 0
      /\ out \in Seq(M) /\ accepted \in Seq(M)
  BY <1>1 DEF ProducerInit
<1>4. sending = <<>> /\ producerLoop = "none" /\ producerLoop \in LoopStates
  BY DEF ProducerInit, LoopStates
<1>5. producerAlive \in BOOLEAN /\ failures \in 0..MaxFailures
  BY <1>2 DEF ProducerInit
<1> QED BY <1>2, <1>3, <1>4, <1>5 DEF ProducerTypeOK

(* Whether the topic has got the message or not, a failed attempt keeps it a *)
(* sequence of messages.                                                   *)
LEMMA AttemptType ==
  ASSUME NEW M, ProducerTypeOK(M), AttemptFails
  PROVE  out' \in Seq(M) /\ failures' \in 0..MaxFailures
<1> USE ProducerAssumption DEF ProducerTypeOK, AttemptFails
<1>1. out \o sending \in Seq(M)
  BY ConcatProperties
<1>2. out' \in Seq(M)
  BY <1>1
<1>3. failures' \in 0..MaxFailures
  OBVIOUS
<1> QED BY <1>2, <1>3

LEMMA ProducerType ==
  ASSUME NEW M, ProducerTypeOK(M), ProducerMoves(M)
  PROVE  ProducerTypeOK(M)'
<1> USE ProducerAssumption, QueueAssumption DEF ProducerTypeOK, LoopStates
<1>1. CASE TobeProducer /\ producerLoop = "none"
  BY <1>1 DEF TobeProducer
<1>2. ASSUME NEW m \in M, SendMessage(m)
      PROVE  ProducerTypeOK(M)'
  <2>1. CASE ~producerAlive
    BY <1>2, <2>1 DEF SendMessage, producerVars
  <2>2. CASE producerAlive
    <3>1. /\ Len(producerQ) < MaxQueue
          /\ producerQ' = Append(producerQ, m) /\ accepted' = Append(accepted, m)
          /\ UNCHANGED <<producerAlive, producerLoop, sending, out, failures>>
      BY <1>2, <2>2, Zenon DEF SendMessage
    <3>2. /\ producerQ' \in Seq(M) /\ Len(producerQ') = Len(producerQ) + 1
          /\ accepted' \in Seq(M)
      BY <3>1, AppendProperties
    <3>3. Len(producerQ') <= MaxQueue
      BY <3>1, <3>2, LenProperties
    <3> QED BY <3>1, <3>2, <3>3
  <2> QED BY <2>1, <2>2
<1>3. CASE TakeToSend
  <2>1. /\ Head(producerQ) \in M
        /\ producerQ' \in Seq(M) /\ Len(producerQ') <= MaxQueue
    BY <1>3, HeadTailProperties, LenProperties DEF TakeToSend
  <2>2. sending' \in Seq(M) /\ Len(sending') = 1 /\ sending' # <<>>
    BY <1>3, <2>1 DEF TakeToSend
  <2> QED BY <1>3, <2>1, <2>2 DEF TakeToSend
<1>4. CASE Sent
  <2>1. out' \in Seq(M)
    BY <1>4, ConcatProperties DEF Sent
  <2>2. sending' \in Seq(M) /\ Len(sending') = 0
    BY <1>4, EmptySeq DEF Sent
  <2> QED BY <1>4, <2>1, <2>2 DEF Sent
<1>5. CASE SendFails
  <2>1. sending' \in Seq(M) /\ Len(sending') = 0
    BY <1>5, EmptySeq DEF SendFails
  <2>2. out' \in Seq(M) /\ failures' \in 0..MaxFailures
    BY <1>5, AttemptType DEF SendFails
  <2> QED BY <1>5, <2>1, <2>2 DEF SendFails
<1>5a. CASE SendRetried
  <2>1. out' \in Seq(M) /\ failures' \in 0..MaxFailures
    BY <1>5a, AttemptType DEF SendRetried
  <2> QED BY <1>5a, <2>1 DEF SendRetried
<1>6. CASE ProducerTakesExit
  BY <1>6 DEF ProducerTakesExit
<1>7. CASE CloseProducer
  BY <1>7 DEF CloseProducer
<1>8. CASE UNCHANGED producerVars
  BY <1>8 DEF producerVars
<1> QED BY <1>1, <1>2, <1>3, <1>4, <1>5, <1>6, <1>7, <1>8, <1>5a DEF ProducerMoves
=============================================================================
