-------------------------- MODULE KfcConsumerProofs -------------------------
(***************************************************************************)
(* Facts about the receiving half of kfc that hold in every process that   *)
(* uses it, whatever topics it reads.                                      *)
(***************************************************************************)
EXTENDS KfcConsumer, SequenceTheorems, TLAPS

(* What a step of a process may do to the consumer. *)
ConsumerMoves ==
  \/ Publish \/ ConsumerClient \/ StartConsumerLoop
  \/ \E p \in Partitions : OpenPartition(p) \/ PartitionStep(p)
  \/ ReadMessage \/ ConsumerTakesExit \/ CloseConsumer
  \/ UNCHANGED consumerVars

LEMMA ConsumerTypeInit ==
  ASSUME ConsumerInit
  PROVE  ConsumerTypeOK
<1>1. <<>> \in Seq(UNION {KindsOf[p] : p \in Partitions}) /\ <<>> \in Seq(Message)
  BY EmptySeq
<1>2. Len(<<>>) = 0 /\ 0 <= MaxQueue /\ 0 \in 0..MaxMessages
  BY ConsumerAssumption, QueueAssumption, EmptySeq
<1>3. consumerQ \in Seq(Message) /\ Len(consumerQ) <= MaxQueue
  BY <1>1, <1>2 DEF ConsumerInit
<1>4. /\ topic \in [Partitions -> Seq(UNION {KindsOf[p] : p \in Partitions})]
      /\ offset \in [Partitions -> Nat]
      /\ \A p \in Partitions : offset[p] <= Len(topic[p])
      /\ part \in [Partitions -> PartStates]
  BY <1>1, <1>2 DEF ConsumerInit, PartStates
<1>5. /\ published \in 0..MaxMessages
      /\ consumerAlive \in BOOLEAN /\ stop \in BOOLEAN
      /\ consumerLoop \in {"none", "waiting", "gone"}
  BY <1>2 DEF ConsumerInit
<1> QED BY <1>3, <1>4, <1>5 DEF ConsumerTypeOK

LEMMA ConsumerType ==
  ASSUME ConsumerTypeOK, ConsumerMoves
  PROVE  ConsumerTypeOK'
<1> DEFINE Kind == UNION {KindsOf[p] : p \in Partitions}
<1> USE ConsumerAssumption, QueueAssumption DEF ConsumerTypeOK, PartStates
<1>1. CASE Publish
  <2>0. PICK p \in Partitions :
          \E k \in KindsOf[p] : topic' = [topic EXCEPT ![p] = Append(@, k)]
    BY <1>1 DEF Publish
  <2>1. PICK k \in KindsOf[p] : topic' = [topic EXCEPT ![p] = Append(@, k)]
    BY <2>0
  <2>2. k \in Kind /\ topic[p] \in Seq(Kind)
    BY <2>1
  <2>3. /\ Append(topic[p], k) \in Seq(Kind)
        /\ Len(Append(topic[p], k)) = Len(topic[p]) + 1
        /\ Len(topic[p]) \in Nat
    BY <2>2, AppendProperties, LenProperties
  <2>4. topic' \in [Partitions -> Seq(Kind)]
    BY <2>1, <2>3
  <2>5. \A q \in Partitions : offset'[q] <= Len(topic'[q])
    <3> TAKE q \in Partitions
    <3>1. offset' = offset /\ offset[q] \in Nat /\ offset[q] <= Len(topic[q])
      BY <1>1 DEF Publish
    <3>2. CASE q = p
      <4>1. topic'[q] = Append(topic[p], k)
        BY <2>1, <3>2
      <4> QED BY <2>3, <3>1, <3>2, <4>1
    <3>3. CASE q # p
      BY <2>1, <3>1, <3>3
    <3> QED BY <3>2, <3>3
  <2>6. published' \in 0..MaxMessages
    BY <1>1 DEF Publish
  <2> QED BY <1>1, <2>4, <2>5, <2>6 DEF Publish
<1>2. CASE ConsumerClient
  BY <1>2 DEF ConsumerClient, brokerVars
<1>3. CASE StartConsumerLoop
  BY <1>3 DEF StartConsumerLoop, brokerVars
<1>4. ASSUME NEW p \in Partitions, OpenPartition(p)
      PROVE  ConsumerTypeOK'
  <2>1. topic[p] \in Seq(Kind) /\ Len(topic[p]) \in Nat
    BY LenProperties
  <2>2. /\ offset' \in [Partitions -> Nat] /\ topic' = topic
        /\ \A q \in Partitions : offset'[q] <= Len(topic[q])
    <3>1. offset' = [offset EXCEPT ![p] = Len(topic[p])] /\ topic' = topic
      BY <1>4 DEF OpenPartition, brokerVars
    <3> QED BY <2>1, <3>1
  <2>3. part' \in [Partitions -> PartStates]
    BY <1>4 DEF OpenPartition
  <2>4. UNCHANGED <<published, consumerAlive, consumerQ, consumerLoop, stop>>
    BY <1>4 DEF OpenPartition, brokerVars
  <2> QED BY <2>2, <2>3, <2>4
<1>5. ASSUME NEW p \in Partitions, PartitionReads(p)
      PROVE  ConsumerTypeOK'
  <2>1. topic[p] \in Seq(Kind) /\ Len(topic[p]) \in Nat
    BY LenProperties
  <2>2. /\ offset' \in [Partitions -> Nat] /\ topic' = topic
        /\ \A q \in Partitions : offset'[q] <= Len(topic[q])
    <3>1. /\ offset' = [offset EXCEPT ![p] = @ + 1] /\ topic' = topic
          /\ offset[p] \in Nat /\ offset[p] < Len(topic[p])
      BY <1>5 DEF PartitionReads, brokerVars
    <3> QED BY <2>1, <3>1
  <2>3. part' \in [Partitions -> PartStates]
    BY <1>5 DEF PartitionReads
  <2>4. UNCHANGED <<published, consumerAlive, consumerQ, consumerLoop, stop>>
    BY <1>5 DEF PartitionReads, brokerVars
  <2> QED BY <2>2, <2>3, <2>4
<1>6. ASSUME NEW p \in Partitions, PartitionPuts(p)
      PROVE  ConsumerTypeOK'
  <2>1. [part |-> p, n |-> offset[p]] \in Message
    BY DEF Message
  <2>2. /\ consumerQ' \in Seq(Message)
        /\ Len(consumerQ') = Len(consumerQ) + 1
    BY <1>6, <2>1, AppendProperties DEF PartitionPuts
  <2>3. Len(consumerQ') <= MaxQueue
    BY <1>6, <2>2, LenProperties DEF PartitionPuts
  <2>4. part' \in [Partitions -> PartStates]
    BY <1>6 DEF PartitionPuts
  <2>5. UNCHANGED <<topic, published, offset, consumerAlive, consumerLoop, stop>>
    BY <1>6 DEF PartitionPuts, brokerVars
  <2> QED BY <2>2, <2>3, <2>4, <2>5
<1>7. ASSUME NEW p \in Partitions, PartitionStops(p)
      PROVE  ConsumerTypeOK'
  BY <1>7 DEF PartitionStops, brokerVars
<1>8. CASE ReadMessage
  <2>1. /\ consumerQ' \in Seq(Message)
        /\ Len(consumerQ') = Len(consumerQ) - 1
    BY <1>8, HeadTailProperties DEF ReadMessage
  <2>2. Len(consumerQ') <= MaxQueue
    BY <2>1, LenProperties
  <2>3. UNCHANGED <<topic, published, offset, part, consumerAlive, consumerLoop, stop>>
    BY <1>8 DEF ReadMessage, brokerVars
  <2> QED BY <2>1, <2>2, <2>3
<1>9. CASE ConsumerTakesExit
  BY <1>9 DEF ConsumerTakesExit, brokerVars
<1>10. CASE CloseConsumer
  BY <1>10 DEF CloseConsumer, brokerVars
<1>11. CASE UNCHANGED consumerVars
  BY <1>11 DEF consumerVars, brokerVars
<1> QED BY <1>1, <1>2, <1>3, <1>4, <1>5, <1>6, <1>7, <1>8, <1>9, <1>10, <1>11
        DEF ConsumerMoves, PartitionStep
=============================================================================
