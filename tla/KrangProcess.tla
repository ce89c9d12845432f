----------------------------- MODULE KrangProcess -----------------------------
(***************************************************************************)
(* The krang program as a process (krang/main/main.go, krang/krang.go):     *)
(* the main goroutine that starts and stops everything, krang's loop, kfc   *)
(* on both sides of it, and the ants that write quotes to influxdb.  What   *)
(* krang decides is in module Krang; here a message costs rows and requests.*)
(***************************************************************************)
EXTENDS KfcProducer, KfcConsumer, AntWriter, FiniteSets

CONSTANT MaxSends  \* bound: how many requests the handlers of a message send

ASSUME KrangProcessAssumption == MaxSends \in Nat

VARIABLES main,     \* what the main goroutine does next
          loop,     \* where krangLoop is
          sends,    \* how many requests it has yet to send for this message
          handled   \* ghost: how far krang got in each partition

processVars == <<main, loop, sends, handled>>
vars == <<producerVars, consumerVars, antVars, processVars>>

MainStates == {"producer", "consumer", "open", "check", "start", "serve", "stop krang",
               "exit consumer", "close consumer", "exit producer", "close producer",
               "ended"}

Init ==
  /\ ProducerInit /\ ConsumerInit /\ AntInit
  /\ main = "producer"
  /\ loop = "none"
  /\ sends = 0
  /\ handled = [p \in Partitions |-> 0]

Running == main # "ended"

-----------------------------------------------------------------------------
(* RunServer, step by step.                                                 *)
StartProducer ==
  /\ main = "producer" /\ main' = "consumer"
  /\ TobeProducer
  /\ UNCHANGED <<consumerVars, antVars, loop, sends, handled>>

StartConsumer ==
  /\ main = "consumer" /\ main' = "open"
  /\ ConsumerClient
  /\ UNCHANGED <<producerVars, antVars, loop, sends, handled>>

OpenPartitions ==
  /\ main = "open"
  /\ \E p \in Partitions :
       /\ OpenPartition(p)
       /\ handled' = [handled EXCEPT ![p] = Len(topic[p])]
  /\ UNCHANGED <<producerVars, antVars, main, loop, sends>>

StartPartitions ==
  /\ main = "open" /\ main' = "check"
  /\ StartConsumerLoop
  /\ UNCHANGED <<producerVars, antVars, loop, sends, handled>>

(* StartKrang: databases are created, then krang's loop starts.             *)
CheckDbs ==
  /\ main = "check" /\ main' = "start"
  /\ Check
  /\ UNCHANGED <<producerVars, consumerVars, loop, sends, handled>>

(* The strategy's Init queries before the loop takes its first message.     *)
StartKrang ==
  /\ main = "start" /\ main' = "serve"
  /\ StartAnts
  /\ loop' = "handling" /\ sends' \in 0..MaxSends
  /\ UNCHANGED <<producerVars, consumerVars, handled>>

(* An error while starting ends the process.                                *)
StartFails ==
  /\ main \in {"producer", "consumer", "open", "check"} /\ main' = "ended"
  /\ UNCHANGED <<producerVars, consumerVars, antVars, loop, sends, handled>>

-----------------------------------------------------------------------------
(* krangLoop takes a message.  The quote handler stores it; a tick goes on   *)
(* to the strategy and a reply to the trade handler, which may send.        *)
MaySend == {"tick", "reply"}

KrangTakes ==
  /\ loop = "select"
  /\ ReadMessage
  /\ LET m == Head(consumerQ)
     IN  /\ handled' = [handled EXCEPT ![m.part] = m.n]
         /\ Store(KindOf(m))
         /\ sends' \in IF KindOf(m) \in MaySend THEN 0..MaxSends ELSE {0}
  /\ loop' = "handling"
  /\ UNCHANGED <<producerVars, main>>

(* SendMessage, in the middle of a handler.                                 *)
KrangSends ==
  /\ loop = "handling" /\ sends > 0
  /\ SendMessage(Len(accepted) + 1)
  /\ sends' = sends - 1
  /\ UNCHANGED <<consumerVars, antVars, main, loop, handled>>

KrangHandled ==
  /\ loop = "handling" /\ sends = 0
  /\ loop' = "select"
  /\ UNCHANGED <<producerVars, consumerVars, antVars, main, sends, handled>>

-----------------------------------------------------------------------------
(* serverLoop: a signal, then everything is stopped in turn.                *)
Interrupt ==
  /\ main = "serve" /\ main' = "stop krang"
  /\ UNCHANGED <<producerVars, consumerVars, antVars, loop, sends, handled>>

(* Mutant: main does not wait until krang's loop takes the 1. *)
StopKrangAtOnce ==
  /\ main = "stop krang" /\ main' = "exit consumer"
  /\ CloseAnts
  /\ UNCHANGED <<producerVars, consumerVars, loop, sends, handled>>

(* krangLoop takes the 1 main hands it, and returns through krangExit.       *)
StopKrang ==
  /\ main = "stop krang" /\ main' = "exit consumer"
  /\ loop = "select" /\ loop' = "gone"
  /\ CloseAnts
  /\ UNCHANGED <<producerVars, consumerVars, sends, handled>>

ExitConsumer ==
  \/ /\ main = "exit consumer" /\ main' = "close consumer"
     /\ ConsumerTakesExit
     /\ UNCHANGED <<producerVars, antVars, loop, sends, handled>>
  \/ /\ main = "close consumer" /\ main' = "exit producer"
     /\ CloseConsumer
     /\ UNCHANGED <<producerVars, antVars, loop, sends, handled>>

ExitProducer ==
  \/ /\ main = "exit producer" /\ main' = "close producer"
     /\ ProducerTakesExit
     /\ UNCHANGED <<consumerVars, antVars, loop, sends, handled>>
  \/ /\ main = "close producer" /\ main' = "ended"
     /\ CloseProducer
     /\ UNCHANGED <<consumerVars, antVars, loop, sends, handled>>

-----------------------------------------------------------------------------
Starting == \/ StartProducer \/ StartConsumer \/ OpenPartitions \/ StartPartitions
            \/ CheckDbs \/ StartKrang

Stopping == StopKrang \/ ExitConsumer \/ ExitProducer

KrangStep == KrangTakes \/ KrangSends \/ KrangHandled

ProducerStep == /\ Running
                /\ TakeToSend \/ Sent \/ SendRetried \/ SendFails
                /\ UNCHANGED <<consumerVars, antVars, processVars>>

ReaderStep(p) == /\ Running
                 /\ PartitionStep(p)
                 /\ UNCHANGED <<producerVars, antVars, processVars>>

WriterStep(d) == /\ Running
                 /\ AntStep(d)
                 /\ UNCHANGED <<producerVars, consumerVars, processVars>>

OthersPublish == Publish /\ UNCHANGED <<producerVars, antVars, processVars>>

Next == \/ Starting \/ StartFails \/ Interrupt \/ Stopping
        \/ Running /\ KrangStep
        \/ ProducerStep
        \/ \E p \in Partitions : ReaderStep(p)
        \/ \E d \in Dbs : WriterStep(d)
        \/ OthersPublish

Spec == Init /\ [][Next]_vars

(***************************************************************************)
(* Fairness.  Goroutines that can step do.  A select takes a ready case at  *)
(* random, and a rendezvous needs its other side to be at the select: what  *)
(* competes there is strongly fair.  Nothing is assumed of the signal, of   *)
(* what is published, or of a start failing.                               *)
(***************************************************************************)
Fairness ==
  /\ WF_vars(Starting)
  /\ SF_vars(StopKrang) /\ WF_vars(ExitConsumer) /\ SF_vars(ExitProducer)
  /\ SF_vars(KrangTakes /\ Running) /\ WF_vars(Running /\ KrangStep)
  /\ WF_vars(ProducerStep)
  /\ \A p \in Partitions : WF_vars(ReaderStep(p))
  /\ \A d \in Dbs : WF_vars(WriterStep(d))

FairSpec == Spec /\ Fairness

-----------------------------------------------------------------------------
TypeOK ==
  /\ ProducerTypeOK(Nat) /\ ConsumerTypeOK /\ AntTypeOK
  /\ main \in MainStates
  /\ loop \in {"none", "select", "handling", "gone"}
  /\ sends \in 0..MaxSends
  /\ handled \in [Partitions -> Nat]

(* Between a partition and krang no message is lost, repeated or            *)
(* overtaken: in the channel is, in order, exactly what follows the last    *)
(* message handled, up to the one before the message that a goroutine       *)
(* waits with, or else to the last one read (kfc.go consumerOnePartition).  *)
NothingLostOnTheWay ==
  \A p \in Partitions :
    part[p] # "none" =>
      /\ handled[p] <= LastPut(p)
      /\ {consumerQ[i].n : i \in Queued(p)} = handled[p] + 1..LastPut(p)
      /\ \A i, j \in Queued(p) : i < j => consumerQ[i].n < consumerQ[j].n

(* Of the requests krang sent, those the producer's loop is done with.      *)
DoneWith == Len(accepted) - Len(sending) - Len(producerQ)

(* Those of them that are not in the topic. *)
Missing == {n \in 1..DoneWith : \A i \in 1..Len(out) : out[i] # n}

(* What krang sent is what the loop of the producer is done with, what it   *)
(* sends, and what is queued, in this order.  No request enters the topic   *)
(* before an earlier one, and each attempt that fails costs one request or  *)
(* doubles one, not more: an exit loses only the last requests              *)
(* (kfc.go SendMessage, syncProducerLoop).                                  *)
RequestsInOrder ==
  LET kept == sending \o producerQ
  IN  /\ kept = [i \in 1..Len(kept) |-> DoneWith + i]
      /\ \A i, j \in 1..Len(out) : i < j => out[i] <= out[j]
      /\ Cardinality(Missing) + (Len(out) + Cardinality(Missing) - DoneWith) <= failures

(* While krang has requests to send there is a loop that takes them: main    *)
(* stops krang before the producer, so no request meets a producer that     *)
(* drops it or a channel nobody empties (krang/main/main.go:79-82).          *)
ProducerOutlivesKrang ==
  Running /\ loop \in {"select", "handling"} =>
    producerAlive /\ producerLoop \in {"select", "sending"}

(* Every row accepted is posted, is in the ant's hands or is in the buffer,  *)
(* in this order (tsdb.go doAntWork, insertToAntm).                         *)
settled == [d \in Dbs |-> rows[d] - Len(pendings[d]) - Len(contents[d])]

RowsInOrder ==
  \A d \in Dbs :
    LET kept == pendings[d] \o contents[d]
    IN  kept = [i \in 1..Len(kept) |-> settled[d] + i]

(* The ants and the buffers implement the store of rows. *)
RowStore == INSTANCE RowStore WITH accepted <- rows

ImplementsRowStore == RowStore!Spec

(* An interrupt ends the process, whatever the partitions, krang, the        *)
(* broker and the ants are doing (main.go serverLoop, kfc.go ExitConsumer    *)
(* and ExitProducer).                                                       *)
InterruptEnds == main = "stop krang" ~> main = "ended"

(* A message that was read is handled, unless the process is ended.         *)
ReadIsHandled ==
  \A p \in Partitions, n \in 1..MaxMessages :
    offset[p] = n ~> handled[p] >= n \/ loop = "gone" \/ ~Running
=============================================================================
