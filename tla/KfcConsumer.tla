----------------------------- MODULE KfcConsumer -----------------------------
(***************************************************************************)
(* The receiving half of kfc (kfc/kfc.go): one goroutine per partition      *)
(* feeding a bounded channel, and consumerLoop, which stops them when the   *)
(* process exits.  Each partition is read from its newest message on.       *)
(***************************************************************************)
EXTENDS Kfc

CONSTANTS Partitions,  \* the partitions of the topics read
          KindsOf,     \* the kinds of message each of them carries
          MaxMessages  \* bound: how many messages are published

ASSUME ConsumerAssumption == MaxMessages \in Nat

VARIABLES topic,         \* the messages of each partition, at the broker
          published,     \* how many messages were published in all
          offset,        \* how many messages its goroutine went past
          part,          \* where its consumerOnePartition is
          consumerAlive, \* kfc.consumer.alive
          consumerQ,     \* kfc.consumer.msgq
          consumerLoop,  \* where consumerLoop is
          stop           \* whether consumerLoop closed ch

brokerVars   == <<topic, published>>
consumerVars ==
  <<brokerVars, offset, part, consumerAlive, consumerQ, consumerLoop, stop>>

PartStates == {"none", "opened", "select", "blocked", "gone"}

(* A message: the n-th of its partition. *)
Message == [part : Partitions, n : Nat]

KindOf(m) == topic[m.part][m.n]

ConsumerInit ==
  /\ topic = [p \in Partitions |-> <<>>]
  /\ published = 0
  /\ offset = [p \in Partitions |-> 0]
  /\ part = [p \in Partitions |-> "none"]
  /\ consumerAlive = FALSE
  /\ consumerQ = <<>>
  /\ consumerLoop = "none"
  /\ stop = FALSE

(* The other programs publish. *)
Publish ==
  /\ published < MaxMessages
  /\ published' = published + 1
  /\ \E p \in Partitions : \E k \in KindsOf[p] :
       topic' = [topic EXCEPT ![p] = Append(@, k)]
  /\ UNCHANGED <<offset, part, consumerAlive, consumerQ, consumerLoop, stop>>

-----------------------------------------------------------------------------
(* A client was made.                                                       *)
ConsumerClient ==
  /\ consumerAlive' = TRUE
  /\ UNCHANGED <<brokerVars, offset, part, consumerQ, consumerLoop, stop>>

(* collectPartitionConsumer opens the partitions one after the other, each  *)
(* at the newest message it then has.                                      *)
OpenPartition(p) ==
  /\ part[p] = "none"
  /\ part' = [part EXCEPT ![p] = "opened"]
  /\ offset' = [offset EXCEPT ![p] = Len(topic[p])]
  /\ UNCHANGED <<brokerVars, consumerAlive, consumerQ, consumerLoop, stop>>

AllOpened == \A p \in Partitions : part[p] = "opened"

(* consumerLoop starts with a goroutine for every partition.                *)
StartConsumerLoop ==
  /\ AllOpened
  /\ part' = [p \in Partitions |-> "select"]
  /\ consumerLoop' = "waiting"
  /\ UNCHANGED <<brokerVars, offset, consumerAlive, consumerQ, stop>>

(* consumerOnePartition takes a message of its partition ...                *)
PartitionReads(p) ==
  /\ part[p] = "select"
  /\ offset[p] < Len(topic[p])
  /\ offset' = [offset EXCEPT ![p] = @ + 1]
  /\ part' = [part EXCEPT ![p] = "blocked"]
  /\ UNCHANGED <<brokerVars, consumerAlive, consumerQ, consumerLoop, stop>>

(* Mutant: with the channel full a message is dropped. *)
PartitionPutsOrDrops(p) ==
  /\ part[p] = "blocked"
  /\ consumerQ' = IF Len(consumerQ) < MaxQueue
                  THEN Append(consumerQ, [part |-> p, n |-> offset[p]]) ELSE consumerQ
  /\ part' = [part EXCEPT ![p] = "select"]
  /\ UNCHANGED <<brokerVars, offset, consumerAlive, consumerLoop, stop>>

(* ... and waits until the channel has room; it does not look at ch then.   *)
PartitionPuts(p) ==
  /\ part[p] = "blocked"
  /\ Len(consumerQ) < MaxQueue
  /\ consumerQ' = Append(consumerQ, [part |-> p, n |-> offset[p]])
  /\ part' = [part EXCEPT ![p] = "select"]
  /\ UNCHANGED <<brokerVars, offset, consumerAlive, consumerLoop, stop>>

PartitionStops(p) ==
  /\ part[p] = "select"
  /\ stop
  /\ part' = [part EXCEPT ![p] = "gone"]
  /\ UNCHANGED <<brokerVars, offset, consumerAlive, consumerQ, consumerLoop, stop>>

PartitionStep(p) == PartitionReads(p) \/ PartitionPuts(p) \/ PartitionStops(p)

(* The process takes a message from ReadMessages(). *)
ReadMessage ==
  /\ consumerQ # <<>>
  /\ consumerQ' = Tail(consumerQ)
  /\ UNCHANGED <<brokerVars, offset, part, consumerAlive, consumerLoop, stop>>

-----------------------------------------------------------------------------
(* Mutant: the exit is handed to each partition goroutine at its select. *)
ConsumerTakesExitOfEach ==
  /\ consumerAlive
  /\ consumerLoop = "waiting"
  /\ \A p \in Partitions : part[p] = "select"
  /\ stop' = TRUE
  /\ consumerLoop' = "gone"
  /\ UNCHANGED <<brokerVars, offset, part, consumerAlive, consumerQ>>

(* ExitConsumer hands its 1 to consumerLoop, which closes ch and returns.   *)
ConsumerTakesExit ==
  /\ consumerAlive
  /\ consumerLoop = "waiting"
  /\ stop' = TRUE
  /\ consumerLoop' = "gone"
  /\ UNCHANGED <<brokerVars, offset, part, consumerAlive, consumerQ>>

(* A second later the client is closed. *)
CloseConsumer ==
  /\ consumerAlive' = FALSE
  /\ UNCHANGED <<brokerVars, offset, part, consumerQ, consumerLoop, stop>>

-----------------------------------------------------------------------------
ConsumerTypeOK ==
  /\ topic \in [Partitions -> Seq(UNION {KindsOf[p] : p \in Partitions})]
  /\ published \in 0..MaxMessages
  /\ offset \in [Partitions -> Nat]
  /\ \A p \in Partitions : offset[p] <= Len(topic[p])
  /\ part \in [Partitions -> PartStates]
  /\ consumerAlive \in BOOLEAN
  /\ consumerQ \in Seq(Message) /\ Len(consumerQ) <= MaxQueue
  /\ consumerLoop \in {"none", "waiting", "gone"}
  /\ stop \in BOOLEAN

(* The messages of partition p in the channel, and the last one put there.  *)
Queued(p)  == {i \in 1..Len(consumerQ) : consumerQ[i].part = p}
LastPut(p) == IF part[p] = "blocked" THEN offset[p] - 1 ELSE offset[p]
=============================================================================
