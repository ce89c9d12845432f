---------------------------- MODULE ArcherProcess ----------------------------
(***************************************************************************)
(* The archer program as a process (archer/main/server.go,                  *)
(* archer/bows/bows.go): the main goroutine hands each request to the bow   *)
(* of its exchange over an unbuffered channel, and the bow, a goroutine of   *)
(* its own, posts it and sends the reply.  What requests and replies say is *)
(* in module Archer; here a reply is the request it answers.               *)
(***************************************************************************)
EXTENDS KfcProducer, KfcConsumer

CONSTANTS Exchanges, \* those that may be configured
          Supported  \* those createArchers knows

ASSUME ArcherProcessAssumption == "main" \notin Exchanges

VARIABLES main,   \* what the main goroutine does next
          bows,   \* keys of bl.m: the exchanges with a channel and a bow
          bow,    \* where the goroutine of each bow is
          cmd,    \* the request main hands over, or a bow works on
          taken   \* ghost: how many requests of each partition main took

processVars == <<main, bows, bow, cmd, taken>>
vars == <<producerVars, consumerVars, processVars>>

MainStates == {"producer", "consumer", "open", "start", "serve", "hand", "exit bows",
               "exit producer", "close producer", "exit consumer", "close consumer",
               "ended"}
BowStates == {"none", "returned", "idle", "posting", "replying", "gone"}

(* An ArcherCmd: none, a request, or INTERNAL_CMD_EXIT. *)
Nobody == <<>>

Init ==
  /\ ProducerInit /\ ConsumerInit
  /\ main = "producer"
  /\ bows = {}
  /\ bow = [e \in Exchanges |-> "none"]
  /\ cmd = [x \in {"main"} \cup Exchanges |-> Nobody]
  /\ taken = [p \in Partitions |-> 0]

Running == main # "ended"

-----------------------------------------------------------------------------
(* InitKafkaClient.                                                         *)
StartProducer ==
  /\ main = "producer" /\ main' = "consumer"
  /\ TobeProducer
  /\ UNCHANGED <<consumerVars, bows, bow, cmd, taken>>

StartConsumer ==
  /\ main = "consumer" /\ main' = "open"
  /\ ConsumerClient
  /\ UNCHANGED <<producerVars, bows, bow, cmd, taken>>

OpenPartitions ==
  /\ main = "open"
  /\ \E p \in Partitions :
       /\ OpenPartition(p)
       /\ taken' = [taken EXCEPT ![p] = Len(topic[p])]
  /\ UNCHANGED <<producerVars, main, bows, bow, cmd>>

StartPartitions ==
  /\ main = "open" /\ main' = "start"
  /\ StartConsumerLoop
  /\ UNCHANGED <<producerVars, bows, bow, cmd, taken>>

(* The goroutine of okex waits for requests, that of the bitfinex stub       *)
(* returns at once.                                                        *)
RunBow(e) == IF e = "okex" THEN "idle" ELSE "returned"

(* StartExArcher makes a channel and a goroutine for every exchange in the  *)
(* configuration that it supports and skips the others.                     *)
StartExArcher ==
  /\ main = "start" /\ main' = "serve"
  /\ \E configured \in SUBSET Exchanges : bows' = configured \cap Supported
  /\ bow' = [e \in Exchanges |-> IF e \in bows' THEN RunBow(e) ELSE "none"]
  /\ UNCHANGED <<producerVars, consumerVars, cmd, taken>>

(* An error while starting ends the process.                                *)
StartFails ==
  /\ main \in {"producer", "consumer", "open", "start"} /\ main' = "ended"
  /\ UNCHANGED <<producerVars, consumerVars, bows, bow, cmd, taken>>

-----------------------------------------------------------------------------
(* The kind of a message is its key: the exchange it is for.  A request for  *)
(* an exchange without a bow is dropped, and so is one that does not parse   *)
(* or asks for something archer does not know.                              *)
TakeRequest ==
  /\ main = "serve"
  /\ ReadMessage
  /\ LET m == Head(consumerQ)
     IN  /\ taken' = [taken EXCEPT ![m.part] = m.n]
         /\ \/ KindOf(m) \in bows /\ main' = "hand" /\ cmd' = [cmd EXCEPT !["main"] = m]
            \/ UNCHANGED <<main, cmd>>
  /\ UNCHANGED <<producerVars, bows, bow>>

(* exch <- cmd: main waits, deaf to the signal, until the bow takes it.      *)
HandOver(e) ==
  /\ main = "hand" /\ e = KindOf(cmd["main"])
  /\ bow[e] = "idle"
  /\ main' = "serve"
  /\ bow' = [bow EXCEPT ![e] = "posting"]
  /\ cmd' = [cmd EXCEPT ![e] = cmd["main"], !["main"] = Nobody]
  /\ UNCHANGED <<producerVars, consumerVars, bows, taken>>

(* Mutant: the goroutine of the bow returns when a post fails. *)
PostedOrReturns(e) ==
  /\ bow[e] = "posting"
  /\ \/ bow' = [bow EXCEPT ![e] = "replying"] /\ UNCHANGED cmd
     \/ bow' = [bow EXCEPT ![e] = "gone"] /\ cmd' = [cmd EXCEPT ![e] = Nobody]
  /\ UNCHANGED <<producerVars, consumerVars, main, bows, taken>>

(* The exchange answers, or the post fails and there is no reply.  It may    *)
(* also never end: the http client has no time-out.                         *)
Posted(e) ==
  /\ bow[e] = "posting"
  /\ \/ bow' = [bow EXCEPT ![e] = "replying"] /\ UNCHANGED cmd
     \/ bow' = [bow EXCEPT ![e] = "idle"] /\ cmd' = [cmd EXCEPT ![e] = Nobody]
  /\ UNCHANGED <<producerVars, consumerVars, main, bows, taken>>

Replies(e) ==
  /\ bow[e] = "replying"
  /\ SendMessage(cmd[e])
  /\ bow' = [bow EXCEPT ![e] = "idle"]
  /\ cmd' = [cmd EXCEPT ![e] = Nobody]
  /\ UNCHANGED <<consumerVars, main, bows, taken>>

-----------------------------------------------------------------------------
(* The signal is seen between two requests.                                 *)
Interrupt ==
  /\ main = "serve" /\ main' = "exit bows"
  /\ UNCHANGED <<producerVars, consumerVars, bows, bow, cmd, taken>>

(* doExit: each bow is handed INTERNAL_CMD_EXIT, in the order of a map ...   *)
ExitBow(e) ==
  /\ main = "exit bows" /\ e \in bows
  /\ bow[e] = "idle"
  /\ bow' = [bow EXCEPT ![e] = "gone"]
  /\ UNCHANGED <<producerVars, consumerVars, main, bows, cmd, taken>>

(* Mutant: the producer is stopped without waiting for the bows. *)
BowsExitedNever ==
  /\ main = "exit bows" /\ main' = "exit producer"
  /\ UNCHANGED <<producerVars, consumerVars, bows, bow, cmd, taken>>

BowsExited ==
  /\ main = "exit bows" /\ main' = "exit producer"
  /\ \A e \in bows : bow[e] = "gone"
  /\ UNCHANGED <<producerVars, consumerVars, bows, bow, cmd, taken>>

(* ... then kfc is stopped, the producer first.                             *)
ExitProducer ==
  \/ /\ main = "exit producer" /\ main' = "close producer"
     /\ ProducerTakesExit
     /\ UNCHANGED <<consumerVars, bows, bow, cmd, taken>>
  \/ /\ main = "close producer" /\ main' = "exit consumer"
     /\ CloseProducer
     /\ UNCHANGED <<consumerVars, bows, bow, cmd, taken>>

ExitConsumer ==
  \/ /\ main = "exit consumer" /\ main' = "close consumer"
     /\ ConsumerTakesExit
     /\ UNCHANGED <<producerVars, bows, bow, cmd, taken>>
  \/ /\ main = "close consumer" /\ main' = "ended"
     /\ CloseConsumer
     /\ UNCHANGED <<producerVars, bows, bow, cmd, taken>>

-----------------------------------------------------------------------------
Starting == \/ StartProducer \/ StartConsumer \/ OpenPartitions \/ StartPartitions
            \/ StartExArcher

Stopping == BowsExited \/ ExitProducer \/ ExitConsumer

AllAtChannel == \A e \in bows : bow[e] \in {"idle", "gone"}

BowStep(e) == HandOver(e) \/ Posted(e) \/ Replies(e)

ProducerStep == /\ Running
                /\ TakeToSend \/ Sent \/ SendRetried \/ SendFails
                /\ UNCHANGED <<consumerVars, processVars>>

ReaderStep(p) == /\ Running
                 /\ PartitionStep(p)
                 /\ UNCHANGED <<producerVars, processVars>>

KrangPublishes == Publish /\ UNCHANGED <<producerVars, processVars>>

Next == \/ Starting \/ StartFails \/ TakeRequest \/ Interrupt \/ Stopping
        \/ \E e \in Exchanges : (Running /\ BowStep(e)) \/ ExitBow(e)
        \/ ProducerStep
        \/ \E p \in Partitions : ReaderStep(p)
        \/ KrangPublishes

Spec == Init /\ [][Next]_vars

(***************************************************************************)
(* Fairness.  Every goroutine that can step does.  Nothing makes a post end: *)
(* the http client has no time-out (archer/bows/okex.go:568).  Main may wait *)
(* for the one bow that is not at its channel, so it is only when all are    *)
(* that one surely takes the exit.  The choice between a message and an exit *)
(* in a select is strongly fair.                                            *)
(***************************************************************************)
Fairness ==
  /\ WF_vars(Starting) /\ WF_vars(TakeRequest)
  /\ WF_vars(BowsExited) /\ SF_vars(ExitProducer) /\ WF_vars(ExitConsumer)
  /\ \A e \in Exchanges : WF_vars(Running /\ HandOver(e)) /\ WF_vars(Running /\ Replies(e))
  /\ WF_vars(AllAtChannel /\ \E e \in Exchanges : ExitBow(e))
  /\ WF_vars(ProducerStep)
  /\ \A p \in Partitions : WF_vars(ReaderStep(p))

FairSpec == Spec /\ Fairness

(* Bows that do not come to their channel: the stub has returned, the other  *)
(* is in a post that need not end.                                          *)
Absent(e) == bow[e] \in {"returned", "posting"}

-----------------------------------------------------------------------------
TypeOK ==
  /\ ProducerTypeOK(Message) /\ ConsumerTypeOK
  /\ main \in MainStates
  /\ bows \subseteq Exchanges
  /\ bow \in [Exchanges -> BowStates]
  /\ DOMAIN cmd = {"main"} \cup Exchanges
  /\ \A x \in DOMAIN cmd : cmd[x] = Nobody \/ cmd[x] \in Message
  /\ taken \in [Partitions -> Nat]

(* A request main took is with a bow until it is answered or its post       *)
(* failed: a bow never has two, and the exit waits for the one it has, so   *)
(* whatever may have reached the exchange had its reply put into the        *)
(* channel, if there is one (bows.go doExit, okex.go Run).                  *)
RequestsFinished ==
  /\ \A e \in Exchanges : cmd[e] # Nobody <=> bow[e] \in {"posting", "replying"}
  /\ main \in {"exit producer", "close producer", "exit consumer", "close consumer"} =>
       \A x \in DOMAIN cmd : cmd[x] = Nobody

(* A bow that has a reply to send has a producer that takes it.             *)
RepliesHaveProducer ==
  Running /\ (\E e \in Exchanges : bow[e] \in {"posting", "replying"}) =>
    producerAlive /\ producerLoop \in {"select", "sending"}

(* An interrupt that main has seen ends the process, whatever partitions and *)
(* channels are doing, unless a bow has returned or its post never ends      *)
(* (bows.go doExit).                                                       *)
InterruptEnds ==
  main = "exit bows" ~> \/ main = "ended"
                       \/ [](main = "exit bows" /\ \E e \in bows : Absent(e))

(* Main waits with a request for ever only for a bow that has returned, or   *)
(* whose post never ends: never for the producer a bow replies through, nor  *)
(* for a bow that is done with its request (bows.go:145 and the other sends). *)
HandedOver ==
  main = "hand" ~> \/ main = "serve"
                  \/ [](main = "hand" /\ Absent(KindOf(cmd["main"])))
=============================================================================
