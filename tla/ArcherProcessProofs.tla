------------------------- MODULE ArcherProcessProofs -------------------------
(***************************************************************************)
(* Proofs about the archer process, for every set of partitions and         *)
(* exchanges, and every capacity and bound.                                 *)
(***************************************************************************)
EXTENDS ArcherProcess, KfcProducerProofs, KfcConsumerProofs

-----------------------------------------------------------------------------
(* How far main got, what it has started or stopped by then, and who holds   *)
(* a request.                                                              *)
Before  == {"producer", "consumer", "open", "start"}
Started == {"consumer", "open", "start", "serve", "hand", "exit bows"}
After   == {"exit producer", "close producer", "exit consumer", "close consumer"}
Busy    == {"posting", "replying"}
Living  == {"idle", "posting", "replying", "gone"}

Phases ==
  /\ main \in MainStates
  /\ main = "producer" => producerLoop = "none"
  /\ main \in Started => producerAlive = TRUE /\ producerLoop \in {"select", "sending"}
  /\ bows \subseteq Exchanges
  /\ bow \in [Exchanges -> BowStates]
  /\ main \in Before => \A e \in Exchanges : bow[e] = "none"
  /\ main \in After => \A e \in Exchanges : bow[e] \notin Busy
  /\ \A e \in Exchanges : bow[e] \in Living => e \in bows

Holders ==
  /\ cmd \in [{"main"} \cup Exchanges -> Message \cup {Nobody}]
  /\ cmd["main"] # Nobody <=> main = "hand"
  /\ \A e \in Exchanges : cmd[e] # Nobody <=> bow[e] \in Busy

(* A message is a record, and not the empty command. *)
LEMMA MessageIsSomebody ==
  ASSUME NEW m \in Message
  PROVE  m # Nobody
<1>1. DOMAIN m = {"part", "n"}
  BY DEF Message
<1>2. DOMAIN Nobody = {}
  BY DEF Nobody
<1> QED BY <1>1, <1>2

-----------------------------------------------------------------------------
LEMMA PhasesInit == Init => Phases /\ Holders
<1> SUFFICES ASSUME Init
             PROVE  Phases /\ Holders
  OBVIOUS
<1>1. main = "producer" /\ producerLoop = "none" /\ bows = {}
  BY DEF Init, ProducerInit
<1>2. bow = [e \in Exchanges |-> "none"]
  BY DEF Init
<1>3. cmd = [x \in {"main"} \cup Exchanges |-> Nobody]
  BY DEF Init
<1>4. Phases
  BY <1>1, <1>2 DEF Phases, MainStates, BowStates, Before, Started, After, Busy, Living
<1>5. Holders
  BY <1>1, <1>2, <1>3 DEF Holders, Busy
<1> QED BY <1>4, <1>5

LEMMA PhasesNext == Phases /\ [Next]_vars => Phases'
<1> SUFFICES ASSUME Phases, [Next]_vars
             PROVE  Phases'
  OBVIOUS
<1> USE DEF Phases, MainStates, BowStates, Before, Started, After, Busy, Living
<1>1. CASE StartProducer
  BY <1>1 DEF StartProducer, TobeProducer
<1>2. CASE StartConsumer
  BY <1>2 DEF StartConsumer, producerVars
<1>3. CASE OpenPartitions
  BY <1>3 DEF OpenPartitions, producerVars
<1>4. CASE StartPartitions
  BY <1>4 DEF StartPartitions, producerVars
<1>5. CASE StartExArcher
  <2>1. /\ bows' \subseteq Exchanges /\ main' = "serve"
        /\ bow' = [e \in Exchanges |-> IF e \in bows' THEN RunBow(e) ELSE "none"]
        /\ UNCHANGED producerVars
        /\ main = "start"
    BY <1>5 DEF StartExArcher
  <2>2. \A e \in Exchanges : RunBow(e) \in {"idle", "returned"}
    BY DEF RunBow
  <2>3. bow' \in [Exchanges -> BowStates]
    BY <2>1, <2>2
  <2>4. \A e \in Exchanges : bow'[e] = IF e \in bows' THEN RunBow(e) ELSE "none"
    BY <2>1
  <2>5. \A e \in Exchanges : bow'[e] \in Living => e \in bows'
    BY <2>1, <2>2, <2>4
  <2>6. producerAlive' = TRUE /\ producerLoop' \in {"select", "sending"}
    BY <2>1 DEF producerVars
  <2> QED BY <2>1, <2>3, <2>5, <2>6
<1>6. CASE StartFails
  BY <1>6 DEF StartFails, producerVars
<1>7. CASE TakeRequest
  BY <1>7 DEF TakeRequest, producerVars
<1>8. CASE Interrupt
  BY <1>8 DEF Interrupt, producerVars
<1>9. CASE BowsExited
  BY <1>9 DEF BowsExited, producerVars
<1>10. CASE ExitProducer
  BY <1>10 DEF ExitProducer
<1>11. CASE ExitConsumer
  BY <1>11 DEF ExitConsumer, producerVars
<1>12. ASSUME NEW e \in Exchanges, Running, HandOver(e)
       PROVE  Phases'
  BY <1>12 DEF HandOver, producerVars
<1>13. ASSUME NEW e \in Exchanges, Running, Posted(e)
       PROVE  Phases'
  BY <1>13 DEF Posted, producerVars
<1>14. ASSUME NEW e \in Exchanges, Running, Replies(e)
       PROVE  Phases'
  BY <1>14 DEF Replies, SendMessage, producerVars
<1>15. ASSUME NEW e \in Exchanges, ExitBow(e)
       PROVE  Phases'
  BY <1>15 DEF ExitBow, producerVars
<1>16. CASE ProducerStep
  BY <1>16 DEF ProducerStep, TakeToSend, Sent, SendRetried, SendFails, AttemptFails, processVars
<1>17. ASSUME NEW p \in Partitions, ReaderStep(p)
       PROVE  Phases'
  BY <1>17 DEF ReaderStep, producerVars, processVars
<1>18. CASE KrangPublishes
  BY <1>18 DEF KrangPublishes, producerVars, processVars
<1>19. CASE UNCHANGED vars
  BY <1>19 DEF vars, producerVars, processVars
<1> QED
  BY <1>1, <1>2, <1>3, <1>4, <1>5, <1>6, <1>7, <1>8, <1>9, <1>10, <1>11, <1>12,
     <1>13, <1>14, <1>15, <1>16, <1>17, <1>18, <1>19
     DEF Next, Starting, Stopping, BowStep

-----------------------------------------------------------------------------
(* What a step of the process does to both halves of kfc. *)
ReplyMoves ==
  \/ TobeProducer /\ producerLoop = "none"
  \/ \E e \in Exchanges : bow[e] = "replying" /\ SendMessage(cmd[e])
  \/ TakeToSend \/ Sent \/ SendRetried \/ SendFails
  \/ ProducerTakesExit \/ CloseProducer
  \/ UNCHANGED producerVars

LEMMA StepParts ==
  ASSUME Phases, [Next]_vars
  PROVE  ReplyMoves /\ ConsumerMoves
<1> USE DEF ReplyMoves, ConsumerMoves
<1>1. CASE StartProducer
  BY <1>1 DEF StartProducer, Phases
<1>2. CASE StartConsumer
  BY <1>2 DEF StartConsumer
<1>3. CASE OpenPartitions
  BY <1>3 DEF OpenPartitions
<1>4. CASE StartPartitions
  BY <1>4 DEF StartPartitions
<1>5. CASE StartExArcher
  BY <1>5 DEF StartExArcher
<1>6. CASE StartFails
  BY <1>6 DEF StartFails
<1>7. CASE TakeRequest
  BY <1>7 DEF TakeRequest
<1>8. CASE Interrupt
  BY <1>8 DEF Interrupt
<1>9. CASE BowsExited
  BY <1>9 DEF BowsExited
<1>10. CASE ExitProducer
  BY <1>10 DEF ExitProducer
<1>11. CASE ExitConsumer
  BY <1>11 DEF ExitConsumer
<1>12. ASSUME NEW e \in Exchanges, HandOver(e) \/ Posted(e)
       PROVE  ReplyMoves /\ ConsumerMoves
  BY <1>12 DEF HandOver, Posted
<1>13. ASSUME NEW e \in Exchanges, Replies(e)
       PROVE  ReplyMoves /\ ConsumerMoves
  BY <1>13 DEF Replies
<1>14. ASSUME NEW e \in Exchanges, ExitBow(e)
       PROVE  ReplyMoves /\ ConsumerMoves
  BY <1>14 DEF ExitBow
<1>15. CASE ProducerStep
  BY <1>15 DEF ProducerStep
<1>16. ASSUME NEW p \in Partitions, ReaderStep(p)
       PROVE  ReplyMoves /\ ConsumerMoves
  BY <1>16 DEF ReaderStep
<1>17. CASE KrangPublishes
  BY <1>17 DEF KrangPublishes
<1>18. CASE UNCHANGED vars
  BY <1>18 DEF vars
<1> QED
  BY <1>1, <1>2, <1>3, <1>4, <1>5, <1>6, <1>7, <1>8, <1>9, <1>10, <1>11, <1>12,
     <1>13, <1>14, <1>15, <1>16, <1>17, <1>18
     DEF Next, Starting, Stopping, BowStep

-----------------------------------------------------------------------------
(* A request has one holder: main, while it waits for the bow, or the bow.   *)
LEMMA HoldersNext ==
  ASSUME Phases, Holders, ConsumerTypeOK, [Next]_vars
  PROVE  Holders'
<1> USE DEF Phases, Holders, Busy
<1>1. CASE StartExArcher
  <2>1. /\ bow' = [e \in Exchanges |-> IF e \in bows' THEN RunBow(e) ELSE "none"]
        /\ cmd' = cmd
        /\ main = "start" /\ main' = "serve"
    BY <1>1 DEF StartExArcher
  <2>2. \A e \in Exchanges : RunBow(e) \in {"idle", "returned"}
    BY DEF RunBow
  <2>3. \A e \in Exchanges : bow[e] = "none"
    BY <2>1 DEF Before
  <2>4. \A e \in Exchanges : bow'[e] \in {"none", "idle", "returned"}
    BY <2>1, <2>2
  <2> QED BY <2>1, <2>2, <2>3, <2>4
<1>2. CASE TakeRequest
  <2>1. Head(consumerQ) \in Message
    BY <1>2, HeadTailProperties DEF TakeRequest, ReadMessage, ConsumerTypeOK
  <2>2. Head(consumerQ) # Nobody
    BY <2>1, MessageIsSomebody
  <2>3. /\ main = "serve" /\ bow' = bow
        /\ \/ main' = "hand" /\ cmd' = [cmd EXCEPT !["main"] = Head(consumerQ)]
           \/ main' = main /\ cmd' = cmd
    BY <1>2 DEF TakeRequest
  <2>4. CASE main' = main /\ cmd' = cmd
    BY <2>3, <2>4
  <2>5. CASE main' = "hand" /\ cmd' = [cmd EXCEPT !["main"] = Head(consumerQ)]
    <3>1. cmd' \in [{"main"} \cup Exchanges -> Message \cup {Nobody}]
      BY <2>1, <2>5
    <3>2. cmd'["main"] # Nobody
      BY <2>2, <2>5
    <3>3. \A e \in Exchanges : cmd'[e] = cmd[e]
      BY <2>5, ArcherProcessAssumption
    <3> QED BY <2>3, <2>5, <3>1, <3>2, <3>3
  <2> QED BY <2>3, <2>4, <2>5
<1>3. ASSUME NEW e \in Exchanges, HandOver(e)
      PROVE  Holders'
  <2>1. /\ main = "hand" /\ main' = "serve" /\ bow' = [bow EXCEPT ![e] = "posting"]
        /\ cmd' = [cmd EXCEPT ![e] = cmd["main"], !["main"] = Nobody]
    BY <1>3 DEF HandOver
  <2>2. e # "main"
    BY ArcherProcessAssumption
  <2>3. cmd' \in [{"main"} \cup Exchanges -> Message \cup {Nobody}]
    BY <2>1
  <2>4. cmd'["main"] = Nobody /\ cmd'[e] = cmd["main"]
    BY <2>1, <2>2
  <2>5. \A f \in Exchanges \ {e} : cmd'[f] = cmd[f] /\ bow'[f] = bow[f]
    BY <2>1, ArcherProcessAssumption
  <2>6. bow'[e] = "posting"
    BY <2>1
  <2> QED BY <2>1, <2>3, <2>4, <2>5, <2>6
<1>4. ASSUME NEW e \in Exchanges, Posted(e) \/ Replies(e)
      PROVE  Holders'
  <2>1. /\ main' = main /\ bow[e] \in Busy
        /\ \/ bow' = [bow EXCEPT ![e] = "replying"] /\ cmd' = cmd
           \/ bow' = [bow EXCEPT ![e] = "idle"] /\ cmd' = [cmd EXCEPT ![e] = Nobody]
    BY <1>4 DEF Posted, Replies
  <2>2. CASE bow' = [bow EXCEPT ![e] = "replying"] /\ cmd' = cmd
    BY <2>1, <2>2
  <2>3. CASE bow' = [bow EXCEPT ![e] = "idle"] /\ cmd' = [cmd EXCEPT ![e] = Nobody]
    <3>1. cmd' \in [{"main"} \cup Exchanges -> Message \cup {Nobody}]
      BY <2>3
    <3>2. cmd'["main"] = cmd["main"] /\ cmd'[e] = Nobody /\ bow'[e] = "idle"
      BY <2>3, ArcherProcessAssumption
    <3>3. \A f \in Exchanges \ {e} : cmd'[f] = cmd[f] /\ bow'[f] = bow[f]
      BY <2>3
    <3> QED BY <2>1, <3>1, <3>2, <3>3
  <2> QED BY <2>1, <2>2, <2>3
<1>5. ASSUME NEW e \in Exchanges, ExitBow(e)
      PROVE  Holders'
  BY <1>5 DEF ExitBow
<1>6. CASE Interrupt \/ BowsExited
  BY <1>6 DEF Interrupt, BowsExited
<1>7. ASSUME UNCHANGED <<bow, cmd>>,
             (main \notin {"serve", "hand"} /\ main' # "hand") \/ main' = main
      PROVE  Holders'
  BY <1>7
<1>8. CASE StartProducer \/ StartConsumer \/ OpenPartitions \/ StartPartitions \/ StartFails
  BY <1>7, <1>8 DEF StartProducer, StartConsumer, OpenPartitions, StartPartitions, StartFails
<1>9. CASE ExitProducer \/ ExitConsumer
  BY <1>7, <1>9 DEF ExitProducer, ExitConsumer
<1>10. CASE ProducerStep \/ (\E p \in Partitions : ReaderStep(p)) \/ KrangPublishes
  BY <1>7, <1>10 DEF ProducerStep, ReaderStep, KrangPublishes, processVars
<1>11. CASE UNCHANGED vars
  BY <1>7, <1>11 DEF vars, processVars
<1> QED
  BY <1>1, <1>2, <1>3, <1>4, <1>5, <1>6, <1>8, <1>9, <1>10, <1>11
     DEF Next, Starting, Stopping, BowStep

LEMMA TakenNext ==
  ASSUME taken \in [Partitions -> Nat], ConsumerTypeOK, [Next]_vars
  PROVE  taken' \in [Partitions -> Nat]
<1>1. CASE OpenPartitions
  <2>1. PICK p \in Partitions : taken' = [taken EXCEPT ![p] = Len(topic[p])]
    BY <1>1 DEF OpenPartitions
  <2>2. Len(topic[p]) \in Nat
    BY LenProperties DEF ConsumerTypeOK
  <2> QED BY <2>1, <2>2
<1>2. CASE TakeRequest
  <2>1. Head(consumerQ) \in Message
    BY <1>2, HeadTailProperties DEF TakeRequest, ReadMessage, ConsumerTypeOK
  <2>2. Head(consumerQ).part \in Partitions /\ Head(consumerQ).n \in Nat
    BY <2>1 DEF Message
  <2>3. taken' = [taken EXCEPT ![Head(consumerQ).part] = Head(consumerQ).n]
    BY <1>2 DEF TakeRequest
  <2> QED BY <2>2, <2>3
<1>3. CASE taken' = taken
  BY <1>3
<1> QED
  BY <1>1, <1>2, <1>3
     DEF Next, Starting, Stopping, BowStep, StartProducer, StartConsumer, StartPartitions,
         StartExArcher, StartFails, Interrupt, BowsExited, ExitProducer, ExitConsumer,
         HandOver, Posted, Replies, ExitBow, ProducerStep, ReaderStep, KrangPublishes,
         processVars, vars

-----------------------------------------------------------------------------
(* The inductive invariant. *)
Inv == /\ Phases /\ Holders
       /\ ProducerTypeOK(Message) /\ ConsumerTypeOK
       /\ taken \in [Partitions -> Nat]

LEMMA InvHolds == Spec => []Inv
<1>1. Init => Inv
  <2> SUFFICES ASSUME Init
               PROVE  Inv
    OBVIOUS
  <2>1. ProducerTypeOK(Message) /\ ConsumerTypeOK
    BY ProducerTypeInit, ConsumerTypeInit DEF Init
  <2>2. taken \in [Partitions -> Nat]
    BY DEF Init
  <2> QED BY <2>1, <2>2, PhasesInit DEF Inv
<1>2. Inv /\ [Next]_vars => Inv'
  <2> SUFFICES ASSUME Inv, [Next]_vars
               PROVE  Inv'
    OBVIOUS
  <2>1. /\ Phases /\ Holders /\ ProducerTypeOK(Message) /\ ConsumerTypeOK
        /\ taken \in [Partitions -> Nat]
    BY DEF Inv
  <2>2. ReplyMoves /\ ConsumerMoves
    BY <2>1, StepParts
  <2>3. \A e \in Exchanges : bow[e] = "replying" => cmd[e] \in Message
    BY <2>1 DEF Holders, Busy
  <2>4. ProducerMoves(Message)
    BY <2>2, <2>3 DEF ReplyMoves, ProducerMoves
  <2>5. ProducerTypeOK(Message)' /\ ConsumerTypeOK'
    BY <2>1, <2>2, <2>4, ProducerType, ConsumerType
  <2>6. Phases' /\ Holders' /\ taken' \in [Partitions -> Nat]
    BY <2>1, PhasesNext, HoldersNext, TakenNext
  <2> QED BY <2>5, <2>6 DEF Inv
<1> QED BY <1>1, <1>2, PTL DEF Spec

(* Every variable of the process keeps its type; what main hands over and a  *)
(* bow works on is nothing or a message, and no channel of kfc overflows.    *)
THEOREM TypeCorrect == Spec => []TypeOK
<1>1. Inv => TypeOK
  BY DEF Inv, Phases, Holders, TypeOK
<1> QED BY <1>1, InvHolds, PTL

(* A bow has a request exactly while it posts it or replies, and when kfc is *)
(* being stopped neither main nor a bow has one (bows.go doExit): the exit   *)
(* waits for every bow.  Requests in the channel and in the hands of the     *)
(* partitions, and replies in the channel, are left where they are.          *)
THEOREM RequestsCorrect == Spec => []RequestsFinished
<1>1. Inv => RequestsFinished
  <2> SUFFICES ASSUME Inv
               PROVE  RequestsFinished
    OBVIOUS
  <2>1. \A e \in Exchanges : cmd[e] # Nobody <=> bow[e] \in {"posting", "replying"}
    BY DEF Inv, Holders, Busy
  <2>2. main \in After => \A x \in DOMAIN cmd : cmd[x] = Nobody
    BY DEF Inv, Phases, Holders, After
  <2> QED BY <2>1, <2>2 DEF RequestsFinished, After
<1> QED BY <1>1, InvHolds, PTL

(* A bow that has a reply to send meets a producer whose loop runs: main     *)
(* stops the producer only after every bow (archer/main/server.go).         *)
THEOREM RepliesCorrect == Spec => []RepliesHaveProducer
<1>1. Inv => RepliesHaveProducer
  BY DEF Inv, Phases, RepliesHaveProducer, Running, MainStates, Before, Started, After, Busy
<1> QED BY <1>1, InvHolds, PTL
=============================================================================
