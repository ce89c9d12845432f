-------------------------- MODULE KrangProcessProofs --------------------------
(***************************************************************************)
(* Proofs about the krang process, for every set of partitions, contracts   *)
(* and databases, and every capacity and bound.                             *)
(***************************************************************************)
EXTENDS KrangProcess, KfcProducerProofs, KfcConsumerProofs, FiniteSetTheorems

-----------------------------------------------------------------------------
(* How far main got, and what it has started or stopped by then.            *)
Before  == {"producer", "consumer", "open", "check", "start"}
Started == {"consumer", "open", "check", "start", "serve", "stop krang"}
After   == {"exit consumer", "close consumer", "exit producer", "close producer"}

Phases ==
  /\ main \in MainStates
  /\ main = "producer" => producerLoop = "none"
  /\ main \in Before => loop = "none" /\ \A d \in Dbs : antAt[d] = "none"
  /\ main \in Started => producerAlive = TRUE /\ producerLoop \in {"select", "sending"}
  /\ main \in After => loop = "gone"

LEMMA PhasesInit == Init => Phases
  BY DEF Init, ProducerInit, AntInit, Phases, MainStates, Before, Started, After

LEMMA PhasesNext == Phases /\ [Next]_vars => Phases'
<1> SUFFICES ASSUME Phases, [Next]_vars
             PROVE  Phases'
  OBVIOUS
<1> USE DEF Phases, MainStates, Before, Started, After
<1>1. CASE StartProducer
  BY <1>1 DEF StartProducer, TobeProducer, antVars
<1>2. CASE StartConsumer
  BY <1>2 DEF StartConsumer, producerVars, antVars
<1>3. CASE OpenPartitions
  BY <1>3 DEF OpenPartitions, producerVars, antVars
<1>4. CASE StartPartitions
  BY <1>4 DEF StartPartitions, producerVars, antVars
<1>5. CASE CheckDbs
  BY <1>5 DEF CheckDbs, Check, producerVars
<1>6. CASE StartKrang
  BY <1>6 DEF StartKrang, producerVars
<1>7. CASE StartFails
  BY <1>7 DEF StartFails
<1>8. CASE Interrupt
  BY <1>8 DEF Interrupt, producerVars
<1>9. CASE StopKrang
  BY <1>9 DEF StopKrang, producerVars
<1>10. CASE ExitConsumer
  BY <1>10 DEF ExitConsumer
<1>11. CASE ExitProducer
  BY <1>11 DEF ExitProducer
<1>12. CASE Running /\ KrangTakes
  BY <1>12 DEF KrangTakes, producerVars
<1>13. CASE Running /\ KrangSends
  BY <1>13 DEF KrangSends, SendMessage, producerVars, antVars
<1>14. CASE Running /\ KrangHandled
  BY <1>14 DEF KrangHandled, producerVars, antVars
<1>15. CASE ProducerStep
  BY <1>15 DEF ProducerStep, TakeToSend, Sent, SendRetried, SendFails, AttemptFails, processVars, antVars
<1>16. ASSUME NEW p \in Partitions, ReaderStep(p)
       PROVE  Phases'
  BY <1>16 DEF ReaderStep, producerVars, antVars, processVars
<1>17. ASSUME NEW d \in Dbs, WriterStep(d)
       PROVE  Phases'
  BY <1>17 DEF WriterStep, AntStep, TakeContents, PostBatch, AntReturns, producerVars, processVars
<1>18. CASE OthersPublish
  BY <1>18 DEF OthersPublish, producerVars, antVars, processVars
<1>19. CASE UNCHANGED vars
  BY <1>19 DEF vars, producerVars, antVars, processVars
<1> QED
  BY <1>1, <1>2, <1>3, <1>4, <1>5, <1>6, <1>7, <1>8, <1>9, <1>10, <1>11, <1>12,
     <1>13, <1>14, <1>15, <1>16, <1>17, <1>18, <1>19
     DEF Next, Starting, Stopping, KrangStep

-----------------------------------------------------------------------------
(***************************************************************************)
(* What a step of the process does to the producer, to the consumer and to  *)
(* the ants, one part at a time.                                            *)
(***************************************************************************)
RequestMoves ==
  \/ TobeProducer /\ producerLoop = "none"
  \/ SendMessage(Len(accepted) + 1)
  \/ TakeToSend \/ Sent \/ SendRetried \/ SendFails
  \/ ProducerTakesExit \/ CloseProducer
  \/ UNCHANGED producerVars

AntMoves ==
  \/ Check \/ (StartAnts /\ \A d \in Dbs : antAt[d] = "none") \/ CloseAnts
  \/ \E c \in Contracts : insertToAntm(c)
  \/ \E d \in Dbs : AntStep(d)
  \/ UNCHANGED antVars

LEMMA StepParts ==
  ASSUME Phases, [Next]_vars
  PROVE  RequestMoves /\ ConsumerMoves /\ AntMoves
<1> USE DEF RequestMoves, ConsumerMoves, AntMoves
<1>1. CASE StartProducer
  BY <1>1 DEF StartProducer, Phases
<1>2. CASE StartConsumer
  BY <1>2 DEF StartConsumer
<1>3. CASE OpenPartitions
  BY <1>3 DEF OpenPartitions
<1>4. CASE StartPartitions
  BY <1>4 DEF StartPartitions
<1>5. CASE CheckDbs
  BY <1>5 DEF CheckDbs
<1>6. CASE StartKrang
  BY <1>6 DEF StartKrang, Phases, Before
<1>7. CASE StartFails
  BY <1>7 DEF StartFails
<1>8. CASE Interrupt
  BY <1>8 DEF Interrupt
<1>9. CASE StopKrang
  BY <1>9 DEF StopKrang
<1>10. CASE ExitConsumer
  BY <1>10 DEF ExitConsumer
<1>11. CASE ExitProducer
  BY <1>11 DEF ExitProducer
<1>12. CASE KrangTakes
  BY <1>12 DEF KrangTakes, Store
<1>13. CASE KrangSends
  BY <1>13 DEF KrangSends
<1>14. CASE KrangHandled
  BY <1>14 DEF KrangHandled
<1>15. CASE ProducerStep
  BY <1>15 DEF ProducerStep
<1>16. ASSUME NEW p \in Partitions, ReaderStep(p)
       PROVE  RequestMoves /\ ConsumerMoves /\ AntMoves
  BY <1>16 DEF ReaderStep
<1>17. ASSUME NEW d \in Dbs, WriterStep(d)
       PROVE  RequestMoves /\ ConsumerMoves /\ AntMoves
  BY <1>17 DEF WriterStep
<1>18. CASE OthersPublish
  BY <1>18 DEF OthersPublish
<1>19. CASE UNCHANGED vars
  BY <1>19 DEF vars
<1> QED
  BY <1>1, <1>2, <1>3, <1>4, <1>5, <1>6, <1>7, <1>8, <1>9, <1>10, <1>11, <1>12,
     <1>13, <1>14, <1>15, <1>16, <1>17, <1>18, <1>19
     DEF Next, Starting, Stopping, KrangStep

-----------------------------------------------------------------------------
(* The types of the ants' variables. *)
LEMMA AntTypeInit ==
  ASSUME AntInit
  PROVE  AntTypeOK
<1>1. <<>> \in Seq(Nat)
  BY EmptySeq
<1>2. /\ exists \subseteq Dbs /\ ants \subseteq Dbs
      /\ contents \in [Dbs -> Seq(Nat)] /\ pendings \in [Dbs -> Seq(Nat)]
      /\ antAt \in [Dbs -> {"none", "select", "posting", "gone"}]
      /\ \A d \in Dbs : antAt[d] = "posting" <=> pendings[d] # <<>>
  BY <1>1 DEF AntInit
<1>3. antExit \in BOOLEAN /\ rows \in [Dbs -> Nat] /\ stored \in [Dbs -> Seq(Nat)]
  BY <1>1 DEF AntInit
<1> QED BY <1>2, <1>3 DEF AntTypeOK

(* Batches: the first BatchLen elements of a sequence, and the rest. *)
LEMMA BatchType ==
  ASSUME AntTypeOK, NEW d \in Dbs, antAt[d] = "posting"
  PROVE  /\ pendings[d] \in Seq(Nat) /\ pendings[d] # <<>>
         /\ BatchLen(d) \in 1..BatchMax /\ BatchLen(d) <= Len(pendings[d])
         /\ Rest(d) \in Seq(Nat) /\ Len(Rest(d)) = Len(pendings[d]) - BatchLen(d)
         /\ \A i \in 1..Len(Rest(d)) : Rest(d)[i] = pendings[d][BatchLen(d) + i]
         /\ SubSeq(pendings[d], 1, BatchLen(d)) \in Seq(Nat)
         /\ Len(SubSeq(pendings[d], 1, BatchLen(d))) = BatchLen(d)
         /\ \A i \in 1..BatchLen(d) :
              SubSeq(pendings[d], 1, BatchLen(d))[i] = pendings[d][i]
<1> DEFINE s == pendings[d]
           n == BatchLen(d)
<1>1. s \in Seq(Nat) /\ s # <<>>
  BY DEF AntTypeOK
<1>2. Len(s) \in Nat \ {0} /\ \A i \in 1..Len(s) : s[i] \in Nat
  BY <1>1, EmptySeq, ElementOfSeq
<1>3. n \in 1..BatchMax /\ n <= Len(s)
  BY <1>2, AntAssumption DEF BatchLen
<1>4. n \in Nat /\ Len(s) \in Nat /\ BatchMax \in Nat
  BY <1>2, <1>3, AntAssumption
<1> HIDE DEF s, n
<1>5. /\ SubSeq(s, n + 1, Len(s)) \in Seq(Nat)
      /\ Len(SubSeq(s, n + 1, Len(s))) = IF n + 1 <= Len(s) THEN Len(s) - (n + 1) + 1 ELSE 0
      /\ \A i \in 1..Len(s) - (n + 1) + 1 : SubSeq(s, n + 1, Len(s))[i] = s[n + 1 + i - 1]
  <2>1. \A i \in n + 1..Len(s) : s[i] \in Nat
    BY <1>2, <1>4
  <2> QED BY <1>4, <2>1, SubSeqProperties
<1>6. /\ SubSeq(s, 1, n) \in Seq(Nat)
      /\ Len(SubSeq(s, 1, n)) = IF 1 <= n THEN n - 1 + 1 ELSE 0
      /\ \A i \in 1..n - 1 + 1 : SubSeq(s, 1, n)[i] = s[1 + i - 1]
  <2>1. \A i \in 1..n : s[i] \in Nat
    BY <1>2, <1>3, <1>4
  <2> QED BY <1>4, <2>1, SubSeqProperties
<1>7. /\ Len(SubSeq(s, n + 1, Len(s))) = Len(s) - n
      /\ \A i \in 1..Len(SubSeq(s, n + 1, Len(s))) : SubSeq(s, n + 1, Len(s))[i] = s[n + i]
  BY <1>3, <1>4, <1>5
<1>8. /\ Len(SubSeq(s, 1, n)) = n
      /\ \A i \in 1..n : SubSeq(s, 1, n)[i] = s[i]
  BY <1>3, <1>4, <1>6
<1> QED BY <1>1, <1>3, <1>5, <1>6, <1>7, <1>8 DEF s, n, Rest

LEMMA AntType ==
  ASSUME AntTypeOK, AntMoves
  PROVE  AntTypeOK'
<1>1. CASE Check
  BY <1>1 DEF Check, CreateDatabases, AntTypeOK
<1>2. CASE StartAnts /\ \A d \in Dbs : antAt[d] = "none"
  BY <1>2 DEF StartAnts, AntTypeOK
<1>3. CASE CloseAnts
  BY <1>3 DEF CloseAnts, AntTypeOK
<1>4. ASSUME NEW c \in Contracts, insertToAntm(c)
      PROVE  AntTypeOK'
  <2>1. CASE c \notin ants
    BY <1>4, <2>1 DEF insertToAntm, antVars, AntTypeOK
  <2>2. CASE c \in ants
    <3>1. c \in Dbs /\ contents[c] \in Seq(Nat) /\ rows[c] \in Nat
      BY <2>2 DEF AntTypeOK
    <3>2. Append(contents[c], rows[c] + 1) \in Seq(Nat)
      BY <3>1, AppendProperties
    <3>3. /\ rows' = [rows EXCEPT ![c] = @ + 1]
          /\ contents' = [contents EXCEPT ![c] = Append(@, rows[c] + 1)]
          /\ UNCHANGED <<exists, ants, pendings, antAt, antExit, stored>>
      BY <1>4, <2>2 DEF insertToAntm
    <3>4. rows' \in [Dbs -> Nat] /\ contents' \in [Dbs -> Seq(Nat)]
      BY <3>1, <3>2, <3>3 DEF AntTypeOK
    <3> QED BY <3>3, <3>4 DEF AntTypeOK
  <2> QED BY <2>1, <2>2
<1>5. ASSUME NEW d \in Dbs, TakeContents(d)
      PROVE  AntTypeOK'
  <2>1. <<>> \in Seq(Nat)
    BY EmptySeq
  <2>2. contents' \in [Dbs -> Seq(Nat)] /\ pendings' \in [Dbs -> Seq(Nat)]
    BY <1>5, <2>1 DEF TakeContents, AntTypeOK
  <2> QED BY <1>5, <2>2 DEF TakeContents, AntTypeOK
<1>6. ASSUME NEW d \in Dbs, PostBatch(d)
      PROVE  AntTypeOK'
  <2>1. /\ Rest(d) \in Seq(Nat)
        /\ stored[d] \o SubSeq(pendings[d], 1, BatchLen(d)) \in Seq(Nat)
    BY <1>6, BatchType, ConcatProperties DEF PostBatch, AntTypeOK
  <2>2. pendings' \in [Dbs -> Seq(Nat)] /\ stored' \in [Dbs -> Seq(Nat)]
    BY <1>6, <2>1 DEF PostBatch, AntTypeOK
  <2>3. /\ antAt' \in [Dbs -> {"none", "select", "posting", "gone"}]
        /\ \A e \in Dbs : antAt'[e] = "posting" <=> pendings'[e] # <<>>
    BY <1>6 DEF PostBatch, AntTypeOK
  <2> QED BY <1>6, <2>2, <2>3 DEF PostBatch, AntTypeOK
<1>7. ASSUME NEW d \in Dbs, AntReturns(d)
      PROVE  AntTypeOK'
  BY <1>7 DEF AntReturns, AntTypeOK
<1>8. CASE UNCHANGED antVars
  BY <1>8 DEF antVars, AntTypeOK
<1> QED BY <1>1, <1>2, <1>3, <1>4, <1>5, <1>6, <1>7, <1>8 DEF AntMoves, AntStep

-----------------------------------------------------------------------------
(* The types of main, of krang's loop and of the ghost, step by step. *)
ProcessTypeOK ==
  /\ main \in MainStates
  /\ loop \in {"none", "select", "handling", "gone"}
  /\ sends \in 0..MaxSends
  /\ handled \in [Partitions -> Nat]

LEMMA ProcessType ==
  ASSUME ProcessTypeOK, ConsumerTypeOK, Phases', [Next]_vars
  PROVE  ProcessTypeOK'
<1> USE KrangProcessAssumption DEF ProcessTypeOK
<1>0. main' \in MainStates
  BY DEF Phases
<1>1. CASE OpenPartitions
  <2>1. PICK p \in Partitions : handled' = [handled EXCEPT ![p] = Len(topic[p])]
    BY <1>1 DEF OpenPartitions
  <2>2. Len(topic[p]) \in Nat
    BY LenProperties DEF ConsumerTypeOK
  <2> QED BY <1>0, <1>1, <2>1, <2>2 DEF OpenPartitions
<1>2. CASE KrangTakes
  <2>1. Head(consumerQ) \in Message
    BY <1>2, HeadTailProperties DEF KrangTakes, ReadMessage, ConsumerTypeOK
  <2>2. Head(consumerQ).part \in Partitions /\ Head(consumerQ).n \in Nat
    BY <2>1 DEF Message
  <2>3. handled' = [handled EXCEPT ![Head(consumerQ).part] = Head(consumerQ).n]
    BY <1>2 DEF KrangTakes
  <2>4. sends' \in 0..MaxSends
    BY <1>2 DEF KrangTakes
  <2>5. handled' \in [Partitions -> Nat]
    BY <2>2, <2>3
  <2> QED BY <1>0, <1>2, <2>4, <2>5 DEF KrangTakes
<1>3. CASE StartKrang
  BY <1>0, <1>3 DEF StartKrang
<1>4. CASE KrangSends
  BY <1>0, <1>4 DEF KrangSends
<1>5. CASE KrangHandled
  BY <1>0, <1>5 DEF KrangHandled
<1>6. CASE StopKrang
  BY <1>0, <1>6 DEF StopKrang
<1>7. CASE UNCHANGED <<loop, sends, handled>>
  BY <1>0, <1>7
<1> QED
  BY <1>1, <1>2, <1>3, <1>4, <1>5, <1>6, <1>7
     DEF Next, Starting, Stopping, KrangStep, StartProducer, StartConsumer, StartPartitions,
         CheckDbs, StartFails, Interrupt, ExitConsumer, ExitProducer, ProducerStep,
         ReaderStep, WriterStep, OthersPublish, processVars, vars

LEMMA ProcessTypeInit == Init => ProcessTypeOK
  BY KrangProcessAssumption DEF Init, ProcessTypeOK, MainStates

(* Requests are numbered by the naturals. *)
LEMMA RequestsAreNumbers ==
  ASSUME ProducerTypeOK(Nat), RequestMoves
  PROVE  ProducerMoves(Nat)
<1>1. Len(accepted) + 1 \in Nat
  BY LenProperties DEF ProducerTypeOK
<1> QED BY <1>1 DEF RequestMoves, ProducerMoves

-----------------------------------------------------------------------------
(* The inductive invariant: types, and how far main got. *)
Inv == Phases /\ TypeOK

LEMMA InvInit == Init => Inv
<1> SUFFICES ASSUME Init
             PROVE  Inv
  OBVIOUS
<1>1. ProducerTypeOK(Nat) /\ ConsumerTypeOK /\ AntTypeOK
  BY ProducerTypeInit, ConsumerTypeInit, AntTypeInit DEF Init
<1>2. Phases /\ ProcessTypeOK
  BY PhasesInit, ProcessTypeInit
<1> QED BY <1>1, <1>2 DEF Inv, TypeOK, ProcessTypeOK

LEMMA InvNext == Inv /\ [Next]_vars => Inv'
<1> SUFFICES ASSUME Inv, [Next]_vars
             PROVE  Inv'
  OBVIOUS
<1>1. /\ Phases /\ ProcessTypeOK
      /\ ProducerTypeOK(Nat) /\ ConsumerTypeOK /\ AntTypeOK
  BY DEF Inv, TypeOK, ProcessTypeOK
<1>2. RequestMoves /\ ConsumerMoves /\ AntMoves
  BY <1>1, StepParts
<1>3. ProducerMoves(Nat)
  BY <1>1, <1>2, RequestsAreNumbers
<1>4. Phases'
  BY <1>1, PhasesNext
<1>5. ProcessTypeOK'
  BY <1>1, <1>4, ProcessType
<1>6. ProducerTypeOK(Nat)'
  BY <1>1, <1>3, ProducerType
<1>7. ConsumerTypeOK' /\ AntTypeOK'
  BY <1>1, <1>2, ConsumerType, AntType
<1> QED BY <1>4, <1>5, <1>6, <1>7 DEF Inv, TypeOK, ProcessTypeOK

LEMMA InvHolds == Spec => []Inv
  BY InvInit, InvNext, PTL DEF Spec

(* Every variable of the process keeps its type; neither channel of kfc ever *)
(* holds more than its capacity, and an ant is posting exactly while it has *)
(* rows it took from the buffer.                                           *)
THEOREM TypeCorrect == Spec => []TypeOK
<1>1. Inv => TypeOK
  BY DEF Inv
<1> QED BY <1>1, InvHolds, PTL

(* While krang may send, the loop that takes its requests runs: stopping     *)
(* krang first (krang/main/main.go:79-82) leaves no request to a producer   *)
(* that is gone, at any point where an interrupt can come.                  *)
THEOREM ProducerCorrect == Spec => []ProducerOutlivesKrang
<1>1. Inv => ProducerOutlivesKrang
  BY DEF Inv, Phases, ProducerOutlivesKrang, Running, MainStates, Before, Started, After
<1> QED BY <1>1, InvHolds, PTL

-----------------------------------------------------------------------------
(***************************************************************************)
(* Requests.  Their numbers count what krang sent, so that RequestsInOrder  *)
(* says which request is where.  The topic may have the one that is being   *)
(* sent already, from an attempt whose acknowledgement was lost.            *)
(***************************************************************************)
RequestInv ==
  /\ DoneWith \in Nat
  /\ \A i \in 1..Len(sending) : sending[i] = DoneWith + i
  /\ \A i \in 1..Len(producerQ) : producerQ[i] = DoneWith + Len(sending) + i
  /\ \A i \in 1..Len(out) : out[i] <= DoneWith + Len(sending)
  /\ \A i, j \in 1..Len(out) : i < j => out[i] <= out[j]
  /\ Cardinality(Missing) + (Len(out) + Cardinality(Missing) - DoneWith) <= failures

LEMMA ProducerNumbers ==
  ASSUME ProducerTypeOK(Nat)
  PROVE  /\ sending \in Seq(Nat) /\ producerQ \in Seq(Nat)
         /\ out \in Seq(Nat) /\ accepted \in Seq(Nat)
         /\ Len(sending) \in {0, 1} /\ Len(producerQ) \in Nat
         /\ Len(out) \in Nat /\ Len(accepted) \in Nat /\ failures \in Nat
         /\ \A i \in 1..Len(out) : out[i] \in Nat
<1>1. /\ sending \in Seq(Nat) /\ producerQ \in Seq(Nat)
      /\ out \in Seq(Nat) /\ accepted \in Seq(Nat) /\ failures \in Nat
      /\ Len(sending) <= 1
  BY ProducerAssumption DEF ProducerTypeOK
<1>2. /\ Len(sending) \in Nat /\ Len(producerQ) \in Nat
      /\ Len(out) \in Nat /\ Len(accepted) \in Nat
  BY <1>1, LenProperties
<1>3. \A i \in 1..Len(out) : out[i] \in Nat
  BY <1>1, ElementOfSeq
<1>4. Len(sending) \in {0, 1}
  <2>1. Len(sending) \in Nat /\ Len(sending) <= 1
    BY <1>1, <1>2
  <2> QED BY <2>1
<1> QED BY <1>1, <1>2, <1>3, <1>4

LEMMA MissingFinite ==
  ASSUME DoneWith \in Nat
  PROVE  IsFiniteSet(Missing) /\ Cardinality(Missing) \in Nat
<1>1. IsFiniteSet(1..DoneWith)
  BY FS_Interval
<1>2. Missing \in SUBSET (1..DoneWith)
  BY DEF Missing
<1>3. IsFiniteSet(Missing)
  BY <1>1, <1>2, FS_Subset
<1> QED BY <1>3, FS_CardinalityType

LEMMA RequestInit == Init => RequestInv
<1> SUFFICES ASSUME Init
             PROVE  RequestInv
  OBVIOUS
<1>1. /\ Len(sending) = 0 /\ Len(producerQ) = 0 /\ Len(out) = 0 /\ Len(accepted) = 0
      /\ failures = 0
  BY EmptySeq DEF Init, ProducerInit
<1>2. DoneWith = 0
  BY <1>1 DEF DoneWith
<1>3. Missing = {}
  BY <1>2 DEF Missing
<1>4. Cardinality(Missing) = 0
  BY <1>3, FS_EmptySet
<1> QED BY <1>1, <1>2, <1>4 DEF RequestInv

LEMMA OneMoreMissing ==
  ASSUME IsFiniteSet(Missing), Cardinality(Missing) \in Nat, NEW x
  PROVE  /\ IsFiniteSet(Missing \cup {x})
         /\ Cardinality(Missing \cup {x}) \in Nat
         /\ Cardinality(Missing \cup {x}) <= Cardinality(Missing) + 1
<1>1. /\ IsFiniteSet(Missing \cup {x})
      /\ Cardinality(Missing \cup {x}) \in {Cardinality(Missing), Cardinality(Missing) + 1}
  <2>1. /\ IsFiniteSet(Missing \cup {x})
        /\ Cardinality(Missing \cup {x})
             = IF x \in Missing THEN Cardinality(Missing) ELSE Cardinality(Missing) + 1
    BY FS_AddElement, Zenon
  <2> QED BY <2>1, Zenon
<1> HIDE DEF Missing
<1>2. \A c \in {Cardinality(Missing), Cardinality(Missing) + 1} :
        c \in Nat /\ c <= Cardinality(Missing) + 1
  OBVIOUS
<1> QED BY <1>1, <1>2, Zenon

(* What the topic is like when it has got the message that is being sent.   *)
LEMMA Stored ==
  ASSUME ProducerTypeOK(Nat), RequestInv, Len(sending) = 1, out' = out \o sending
  PROVE  /\ Len(out') = Len(out) + 1
         /\ out'[Len(out) + 1] = DoneWith + 1
         /\ \A i \in 1..Len(out) : out'[i] = out[i]
         /\ \A i \in 1..Len(out') : out'[i] <= DoneWith + 1
         /\ \A i, j \in 1..Len(out') : i < j => out'[i] <= out'[j]
<1> USE ProducerNumbers
<1>1. /\ Len(out') = Len(out) + Len(sending)
      /\ \A i \in 1..Len(out) + Len(sending) :
           out'[i] = IF i <= Len(out) THEN out[i] ELSE sending[i - Len(out)]
  BY ConcatProperties
<1>2. Len(out') = Len(out) + 1 /\ \A i \in 1..Len(out) : out'[i] = out[i]
  BY <1>1
<1>3. out'[Len(out) + 1] = DoneWith + 1
  BY <1>1 DEF RequestInv
<1>4. \A i \in 1..Len(out') : i \in 1..Len(out) \/ i = Len(out) + 1
  BY <1>2
<1>5. \A i \in 1..Len(out) : out[i] <= DoneWith + 1
  BY DEF RequestInv
<1>6. \A i \in 1..Len(out') : out'[i] <= DoneWith + 1
  BY <1>2, <1>3, <1>4, <1>5 DEF RequestInv
<1>7. \A i, j \in 1..Len(out') : i < j => out'[i] <= out'[j]
  <2> SUFFICES ASSUME NEW i \in 1..Len(out'), NEW j \in 1..Len(out'), i < j
               PROVE  out'[i] <= out'[j]
    OBVIOUS
  <2>1. i \in 1..Len(out)
    BY <1>2
  <2>2. CASE j = Len(out) + 1
    BY <1>3, <1>6, <2>2
  <2>3. CASE j # Len(out) + 1
    BY <1>2, <1>4, <2>1, <2>3 DEF RequestInv
  <2> QED BY <2>2, <2>3
<1> QED BY <1>2, <1>3, <1>6, <1>7

(* A message that is done with and is in the topic is not missing.          *)
LEMMA MissingWhenStored ==
  ASSUME DoneWith \in Nat, Len(out) \in Nat, Len(out') = Len(out) + 1,
         out'[Len(out) + 1] = DoneWith + 1,
         \A i \in 1..Len(out) : out'[i] = out[i],
         DoneWith' \in {DoneWith, DoneWith + 1}
  PROVE  Missing' = Missing
<1>1. \A n : (\A i \in 1..Len(out') : out'[i] # n)
               <=> n # DoneWith + 1 /\ \A i \in 1..Len(out) : out[i] # n
  <2> TAKE n
  <2>1. 1..Len(out') = 1..Len(out) \cup {Len(out) + 1}
    OBVIOUS
  <2> QED BY <2>1
<1>2. \A n : n \in 1..DoneWith' /\ n # DoneWith + 1 <=> n \in 1..DoneWith
  OBVIOUS
<1>3. Missing' = {n \in 1..DoneWith' : \A i \in 1..Len(out') : out'[i] # n}
  BY DEF Missing
<1> QED BY <1>1, <1>2, <1>3 DEF Missing

LEMMA RequestNext ==
  ASSUME ProducerTypeOK(Nat), RequestInv, RequestMoves
  PROVE  RequestInv'
<1>0. /\ Len(sending) \in {0, 1} /\ Len(producerQ) \in Nat
      /\ Len(out) \in Nat /\ Len(accepted) \in Nat /\ failures \in Nat
  BY ProducerNumbers
<1>q. /\ sending \in Seq(Nat) /\ producerQ \in Seq(Nat)
      /\ out \in Seq(Nat) /\ accepted \in Seq(Nat)
      /\ \A i \in 1..Len(out) : out[i] \in Nat
  BY ProducerNumbers
<1>d. DoneWith \in Nat
  BY DEF RequestInv
<1>m. IsFiniteSet(Missing) /\ Cardinality(Missing) \in Nat
  BY <1>d, MissingFinite
<1>c. Cardinality(Missing) + (Len(out) + Cardinality(Missing) - DoneWith) <= failures
  BY DEF RequestInv
<1> USE <1>0, <1>d
<1>1. CASE UNCHANGED <<producerQ, sending, out, accepted, failures>>
  BY <1>1 DEF RequestInv, DoneWith, Missing
<1>2. CASE SendMessage(Len(accepted) + 1) /\ producerAlive
  <2> DEFINE m == Len(accepted) + 1
  <2>1. /\ producerQ' = Append(producerQ, m) /\ accepted' = Append(accepted, m)
        /\ UNCHANGED <<sending, out, failures>>
    BY <1>2, Zenon DEF SendMessage
  <2>2. /\ Len(producerQ') = Len(producerQ) + 1 /\ Len(accepted') = Len(accepted) + 1
        /\ \A i \in 1..Len(producerQ) : producerQ'[i] = producerQ[i]
        /\ producerQ'[Len(producerQ) + 1] = m
    <3>1. m \in Nat
      OBVIOUS
    <3> QED BY <1>q, <2>1, <3>1, AppendProperties
  <2>3. m = DoneWith + Len(sending) + Len(producerQ) + 1
    BY DEF DoneWith
  <2> HIDE DEF m
  <2>4. DoneWith' = DoneWith
    BY <2>1, <2>2 DEF DoneWith
  <2>5. Missing' = Missing
    BY <2>1, <2>4 DEF Missing
  <2>6. \A i \in 1..Len(producerQ') : producerQ'[i] = DoneWith + Len(sending) + i
    <3> TAKE i \in 1..Len(producerQ')
    <3>1. CASE i = Len(producerQ) + 1
      BY <2>2, <2>3, <3>1
    <3>2. CASE i # Len(producerQ) + 1
      <4>1. i \in 1..Len(producerQ)
        BY <2>2, <3>2
      <4> QED BY <2>2, <4>1 DEF RequestInv
    <3> QED BY <3>1, <3>2
  <2> QED BY <2>1, <2>4, <2>5, <2>6 DEF RequestInv
<1>3. CASE TakeToSend
  <2>1. /\ producerQ # <<>> /\ producerQ' = Tail(producerQ) /\ sending = <<>>
        /\ sending' = <<Head(producerQ)>>
        /\ UNCHANGED <<out, accepted, failures>>
    BY <1>3 DEF TakeToSend, ProducerTypeOK
  <2>2. /\ Len(producerQ') = Len(producerQ) - 1 /\ Len(producerQ) # 0
        /\ \A i \in 1..Len(producerQ') : producerQ'[i] = producerQ[i + 1]
    BY <1>q, <2>1, HeadTailProperties, EmptySeq
  <2>3. Len(sending) = 0 /\ Len(sending') = 1 /\ sending'[1] = producerQ[1]
    BY <1>q, <2>1, EmptySeq
  <2>4. DoneWith' = DoneWith
    BY <2>1, <2>2, <2>3 DEF DoneWith
  <2>5. Missing' = Missing
    BY <2>1, <2>4 DEF Missing
  <2>6. \A i \in 1..Len(producerQ') : producerQ'[i] = DoneWith + 1 + i
    <3> TAKE i \in 1..Len(producerQ')
    <3>1. i + 1 \in 1..Len(producerQ)
      BY <2>2
    <3>2. producerQ[i + 1] = DoneWith + 0 + (i + 1)
      BY <2>3, <3>1 DEF RequestInv
    <3> QED BY <2>2, <3>2
  <2>7. sending'[1] = DoneWith + 1
    <3>1. 1 \in 1..Len(producerQ)
      BY <2>2
    <3>2. producerQ[1] = DoneWith + 0 + 1
      BY <2>3, <3>1 DEF RequestInv
    <3> QED BY <2>3, <3>2
  <2>8. \A i \in 1..Len(out) : out[i] <= DoneWith + 1
    <3> TAKE i \in 1..Len(out)
    <3>1. out[i] \in Nat /\ out[i] <= DoneWith + 0
      BY <1>q, <2>3 DEF RequestInv
    <3> QED BY <3>1
  <2>9. \A i \in 1..Len(sending') : sending'[i] = DoneWith + i
    BY <2>3, <2>7
  <2> QED BY <1>c, <2>1, <2>3, <2>4, <2>5, <2>6, <2>8, <2>9 DEF RequestInv
<1>4. CASE Sent
  <2>1. /\ sending # <<>> /\ sending' = <<>> /\ out' = out \o sending
        /\ UNCHANGED <<producerQ, accepted, failures>>
    BY <1>4 DEF Sent, ProducerTypeOK
  <2>2. Len(sending) = 1 /\ Len(sending') = 0
    BY <1>q, <2>1, EmptySeq
  <2>3. DoneWith' = DoneWith + 1
    BY <2>1, <2>2 DEF DoneWith
  <2>4. /\ Len(out') = Len(out) + 1
        /\ out'[Len(out) + 1] = DoneWith + 1
        /\ \A i \in 1..Len(out) : out'[i] = out[i]
        /\ \A i \in 1..Len(out') : out'[i] <= DoneWith + 1
        /\ \A i, j \in 1..Len(out') : i < j => out'[i] <= out'[j]
    BY <2>1, <2>2, Stored
  <2>5. Missing' = Missing
    BY <2>3, <2>4, MissingWhenStored
  <2>6. /\ \A i \in 1..Len(producerQ') : producerQ'[i] = DoneWith' + Len(sending') + i
        /\ \A i \in 1..Len(out') : out'[i] <= DoneWith' + Len(sending')
    BY <2>1, <2>2, <2>3, <2>4 DEF RequestInv
  <2>7. Cardinality(Missing) + ((Len(out) + 1) + Cardinality(Missing) - (DoneWith + 1))
          <= failures
    BY <1>c, <1>m
  <2> QED BY <2>1, <2>2, <2>3, <2>4, <2>5, <2>6, <2>7 DEF RequestInv
<1>5. CASE SendRetried
  <2>1. /\ sending # <<>> /\ out' \in {out, out \o sending} /\ failures' = failures + 1
        /\ UNCHANGED <<producerQ, sending, accepted>>
    BY <1>5 DEF SendRetried, AttemptFails, ProducerTypeOK
  <2>2. Len(sending) = 1
    BY <1>q, <2>1, EmptySeq
  <2>3. DoneWith' = DoneWith
    BY <2>1 DEF DoneWith
  <2>4. CASE out' = out
    <3>1. Missing' = Missing
      BY <2>3, <2>4 DEF Missing
    <3>2. Cardinality(Missing) + (Len(out) + Cardinality(Missing) - DoneWith) <= failures + 1
      BY <1>c, <1>m
    <3> QED BY <2>1, <2>3, <2>4, <3>1, <3>2 DEF RequestInv
  <2>5. CASE out' = out \o sending
    <3>1. /\ Len(out') = Len(out) + 1
          /\ out'[Len(out) + 1] = DoneWith + 1
          /\ \A i \in 1..Len(out) : out'[i] = out[i]
          /\ \A i \in 1..Len(out') : out'[i] <= DoneWith + 1
          /\ \A i, j \in 1..Len(out') : i < j => out'[i] <= out'[j]
      BY <2>2, <2>5, Stored
    <3>2. Missing' = Missing
      BY <2>3, <3>1, MissingWhenStored
    <3>3. Cardinality(Missing) + ((Len(out) + 1) + Cardinality(Missing) - DoneWith)
            <= failures + 1
      BY <1>c, <1>m
    <3> QED BY <2>1, <2>2, <2>3, <3>1, <3>2, <3>3 DEF RequestInv
  <2> QED BY <2>1, <2>4, <2>5
<1>6. CASE SendFails
  <2>1. /\ sending # <<>> /\ out' \in {out, out \o sending} /\ failures' = failures + 1
        /\ sending' = <<>>
        /\ UNCHANGED <<producerQ, accepted>>
    BY <1>6 DEF SendFails, AttemptFails, ProducerTypeOK
  <2>2. Len(sending) = 1 /\ Len(sending') = 0
    BY <1>q, <2>1, EmptySeq
  <2>3. DoneWith' = DoneWith + 1
    BY <2>1, <2>2 DEF DoneWith
  <2>4. \A i \in 1..Len(producerQ') : producerQ'[i] = DoneWith' + Len(sending') + i
    BY <2>1, <2>2, <2>3 DEF RequestInv
  <2>5. CASE out' = out
    <3>1. Missing' \subseteq Missing \cup {DoneWith + 1}
      BY <2>3, <2>5 DEF Missing
    <3>2. /\ IsFiniteSet(Missing \cup {DoneWith + 1})
          /\ Cardinality(Missing \cup {DoneWith + 1}) \in Nat
          /\ Cardinality(Missing \cup {DoneWith + 1}) <= Cardinality(Missing) + 1
      BY <1>m, OneMoreMissing
    <3>3. Cardinality(Missing') <= Cardinality(Missing \cup {DoneWith + 1})
      BY <3>1, <3>2, FS_Subset
    <3>4. Cardinality(Missing') \in Nat
      BY <3>1, <3>2, FS_Subset, FS_CardinalityType
    <3>5. Cardinality(Missing') + (Len(out) + Cardinality(Missing') - (DoneWith + 1))
            <= failures + 1
      BY <1>c, <1>m, <3>2, <3>3, <3>4
    <3>6. /\ \A i \in 1..Len(out') : out'[i] <= DoneWith' + Len(sending')
          /\ \A i, j \in 1..Len(out') : i < j => out'[i] <= out'[j]
      BY <2>2, <2>3, <2>5 DEF RequestInv
    <3> QED BY <2>1, <2>2, <2>3, <2>4, <2>5, <3>5, <3>6 DEF RequestInv
  <2>6. CASE out' = out \o sending
    <3>1. /\ Len(out') = Len(out) + 1
          /\ out'[Len(out) + 1] = DoneWith + 1
          /\ \A i \in 1..Len(out) : out'[i] = out[i]
          /\ \A i \in 1..Len(out') : out'[i] <= DoneWith + 1
          /\ \A i, j \in 1..Len(out') : i < j => out'[i] <= out'[j]
      BY <2>2, <2>6, Stored
    <3>2. Missing' = Missing
      BY <2>3, <3>1, MissingWhenStored
    <3>3. Cardinality(Missing) + ((Len(out) + 1) + Cardinality(Missing) - (DoneWith + 1))
            <= failures + 1
      BY <1>c, <1>m
    <3> QED BY <2>1, <2>2, <2>3, <2>4, <3>1, <3>2, <3>3 DEF RequestInv
  <2> QED BY <2>1, <2>5, <2>6
<1> QED
  BY <1>1, <1>2, <1>3, <1>4, <1>5, <1>6
     DEF RequestMoves, SendMessage, TobeProducer, ProducerTakesExit, CloseProducer, producerVars

(* What is kept is the concatenation of the one being sent and the queue. *)
LEMMA RequestInvSuffices ==
  ASSUME ProducerTypeOK(Nat), RequestInv
  PROVE  RequestsInOrder
<1> DEFINE kept == sending \o producerQ
<1>0. /\ sending \in Seq(Nat) /\ producerQ \in Seq(Nat)
      /\ Len(sending) \in {0, 1} /\ Len(producerQ) \in Nat
      /\ DoneWith \in Nat
  BY ProducerNumbers DEF RequestInv
<1> USE <1>0
<1>1. /\ kept \in Seq(Nat) /\ Len(kept) = Len(sending) + Len(producerQ)
      /\ \A i \in 1..Len(sending) + Len(producerQ) :
           kept[i] = IF i <= Len(sending) THEN sending[i] ELSE producerQ[i - Len(sending)]
  BY ConcatProperties
<1>2. \A i \in 1..Len(sending) + Len(producerQ) : kept[i] = DoneWith + i
  <2> TAKE i \in 1..Len(sending) + Len(producerQ)
  <2>1. CASE i <= Len(sending)
    BY <1>1, <2>1 DEF RequestInv
  <2>2. CASE ~(i <= Len(sending))
    <3>1. i - Len(sending) \in 1..Len(producerQ)
      BY <2>2
    <3>2. kept[i] = DoneWith + Len(sending) + (i - Len(sending))
      BY <1>1, <2>2, <3>1 DEF RequestInv
    <3> QED BY <3>2
  <2> QED BY <2>1, <2>2
<1>3. kept \in [1..Len(sending) + Len(producerQ) -> Nat]
  BY <1>1, LenProperties
<1> HIDE DEF kept
<1>4. kept = [i \in 1..Len(kept) |-> DoneWith + i]
  BY <1>1, <1>2, <1>3
<1> QED BY <1>1, <1>4 DEF RequestInv, RequestsInOrder, kept

(* What krang sent stays in order through the channel, the loop and the exit *)
(* of the producer, nothing but a failed attempt loses or doubles a request, *)
(* and a double enters the topic before any later request (kfc.go            *)
(* SendMessage, syncProducerLoop).                                          *)
THEOREM RequestsCorrect == Spec => []RequestsInOrder
<1>1. Inv /\ RequestInv /\ [Next]_vars => RequestInv'
  BY StepParts, RequestNext DEF Inv, TypeOK
<1>2. Inv /\ RequestInv => RequestsInOrder
  BY RequestInvSuffices DEF Inv, TypeOK
<1> QED BY <1>1, <1>2, RequestInit, InvHolds, PTL DEF Spec

-----------------------------------------------------------------------------
(***************************************************************************)
(* Rows.  The rows an ant took precede those in the buffer, and both follow  *)
(* the settled ones without a gap.                                         *)
(***************************************************************************)
RowInv ==
  \A d \in Dbs :
    /\ settled[d] \in Nat
    /\ \A i \in 1..Len(pendings[d]) : pendings[d][i] = settled[d] + i
    /\ \A i \in 1..Len(contents[d]) : contents[d][i] = settled[d] + Len(pendings[d]) + i

(* A row accepted leaves what is settled; m pending ones dropped add m to it. *)
LEMMA OneMore ==
  ASSUME NEW a \in Nat, NEW b \in Nat, NEW c \in Nat
  PROVE  (a + 1) - b - (c + 1) = a - b - c
  OBVIOUS

LEMMA FewerPending ==
  ASSUME NEW a \in Nat, NEW b \in Nat, NEW c \in Nat, NEW m \in Nat
  PROVE  a - (b - m) - c = (a - b - c) + m
  OBVIOUS

LEMMA PendingCovered ==
  ASSUME NEW a \in Nat, NEW b \in Nat, NEW c \in Nat, NEW m \in Nat, m <= b
  PROVE  (a - b - c) + m <= a
  OBVIOUS

(* settled in terms of the variables, before and after a step. *)
LEMMA SettledRows ==
  ASSUME NEW d \in Dbs
  PROVE  /\ settled[d] = rows[d] - Len(pendings[d]) - Len(contents[d])
         /\ settled'[d] = rows'[d] - Len(pendings'[d]) - Len(contents'[d])
  BY DEF settled

LEMMA RowTypes ==
  ASSUME AntTypeOK, NEW d \in Dbs
  PROVE  /\ pendings[d] \in Seq(Nat) /\ contents[d] \in Seq(Nat) /\ stored[d] \in Seq(Nat)
         /\ Len(pendings[d]) \in Nat /\ Len(contents[d]) \in Nat
         /\ rows[d] \in Nat
         /\ antAt[d] # "posting" => Len(pendings[d]) = 0 /\ pendings[d] = <<>>
<1>1. /\ pendings[d] \in Seq(Nat) /\ contents[d] \in Seq(Nat) /\ stored[d] \in Seq(Nat)
      /\ rows[d] \in Nat
      /\ antAt[d] # "posting" => pendings[d] = <<>>
  BY DEF AntTypeOK
<1> QED BY <1>1, LenProperties, EmptySeq

LEMMA RowInit ==
  ASSUME AntInit
  PROVE  RowInv /\ RowStore!Init
<1>1. \A d \in Dbs : /\ rows[d] = 0 /\ Len(pendings[d]) = 0 /\ Len(contents[d]) = 0
                     /\ settled[d] = 0
  BY SettledRows, EmptySeq DEF AntInit
<1>2. settled = [d \in Dbs |-> 0]
  BY <1>1 DEF settled
<1>3. RowInv
  BY <1>1 DEF RowInv
<1> QED BY <1>2, <1>3 DEF AntInit, RowStore!Init

(* A row is accepted: it follows the ones kept. *)
LEMMA RowAccepted ==
  ASSUME AntTypeOK, RowInv, NEW d \in ants, insertToAntm(d)
  PROVE  RowInv' /\ RowStore!Accept(d)
<1>0. d \in Dbs
  BY DEF AntTypeOK
<1>1. /\ rows' = [rows EXCEPT ![d] = @ + 1]
      /\ contents' = [contents EXCEPT ![d] = Append(@, rows[d] + 1)]
      /\ UNCHANGED <<pendings, stored>>
  BY DEF insertToAntm
<1>2. /\ rows'[d] = rows[d] + 1 /\ contents'[d] = Append(contents[d], rows[d] + 1)
      /\ \A e \in Dbs \ {d} : rows'[e] = rows[e] /\ contents'[e] = contents[e]
  BY <1>0, <1>1 DEF AntTypeOK
<1>3. rows[d] + 1 \in Nat
  BY <1>0, RowTypes
<1>4. /\ Len(contents'[d]) = Len(contents[d]) + 1
      /\ \A i \in 1..Len(contents[d]) : contents'[d][i] = contents[d][i]
      /\ contents'[d][Len(contents[d]) + 1] = rows[d] + 1
  BY <1>0, <1>2, <1>3, RowTypes, AppendProperties
<1>5. settled'[d] = settled[d]
  <2>1. rows'[d] = rows[d] + 1 /\ Len(pendings'[d]) = Len(pendings[d])
    BY <1>1, <1>2
  <2>2. rows[d] \in Nat /\ Len(pendings[d]) \in Nat /\ Len(contents[d]) \in Nat
    BY <1>0, RowTypes
  <2>3. settled[d] = rows[d] - Len(pendings[d]) - Len(contents[d])
    BY <1>0, SettledRows
  <2>4. settled'[d] = rows'[d] - Len(pendings'[d]) - Len(contents'[d])
    BY <1>0, SettledRows
  <2>5. Len(contents'[d]) = Len(contents[d]) + 1
    BY <1>4
  <2>6. settled'[d] = (rows[d] + 1) - Len(pendings[d]) - (Len(contents[d]) + 1)
    BY <2>1, <2>4, <2>5, Zenon
  <2>7. (rows[d] + 1) - Len(pendings[d]) - (Len(contents[d]) + 1)
          = rows[d] - Len(pendings[d]) - Len(contents[d])
    BY <2>2, OneMore, Zenon
  <2> QED BY <2>3, <2>6, <2>7, Zenon
<1>6. \A e \in Dbs \ {d} : settled'[e] = settled[e]
  BY <1>1, <1>2, SettledRows
<1>7. settled' = settled
  BY <1>5, <1>6 DEF settled
<1>8. \A i \in 1..Len(contents'[d]) : contents'[d][i] = settled[d] + Len(pendings[d]) + i
  <2> TAKE i \in 1..Len(contents'[d])
  <2>1. CASE i = Len(contents[d]) + 1
    BY <1>0, <1>4, <2>1, SettledRows, RowTypes
  <2>2. CASE i # Len(contents[d]) + 1
    <3>1. i \in 1..Len(contents[d])
      BY <1>0, <1>4, <2>2, RowTypes
    <3> QED BY <1>0, <1>4, <3>1 DEF RowInv
  <2> QED BY <2>1, <2>2
<1>9. RowInv'
  BY <1>1, <1>2, <1>7, <1>8 DEF RowInv
<1> QED BY <1>1, <1>7, <1>9 DEF RowStore!Accept

(* The ant swaps the buffer: what it took becomes what it has to post. *)
LEMMA RowsTaken ==
  ASSUME AntTypeOK, RowInv, NEW d \in Dbs, TakeContents(d)
  PROVE  RowInv' /\ UNCHANGED <<rows, settled, stored>>
<1>1. /\ pendings' = [pendings EXCEPT ![d] = contents[d]]
      /\ contents' = [contents EXCEPT ![d] = <<>>]
      /\ UNCHANGED <<rows, stored>> /\ antAt[d] # "posting"
  BY DEF TakeContents
<1>2. /\ pendings'[d] = contents[d] /\ contents'[d] = <<>>
      /\ \A e \in Dbs \ {d} : pendings'[e] = pendings[e] /\ contents'[e] = contents[e]
  BY <1>1 DEF AntTypeOK
<1>3. Len(pendings[d]) = 0 /\ Len(contents'[d]) = 0
  BY <1>1, <1>2, RowTypes, EmptySeq
<1>4. settled'[d] = settled[d]
  <2>1. rows'[d] = rows[d] /\ Len(pendings'[d]) = Len(contents[d])
    BY <1>1, <1>2
  <2>2. rows[d] \in Nat /\ Len(contents[d]) \in Nat
    BY RowTypes
  <2>3. settled[d] = rows[d] - Len(pendings[d]) - Len(contents[d])
    BY SettledRows
  <2>4. settled'[d] = rows'[d] - Len(pendings'[d]) - Len(contents'[d])
    BY SettledRows
  <2> QED BY <1>3, <2>1, <2>2, <2>3, <2>4
<1>5. \A e \in Dbs \ {d} : settled'[e] = settled[e]
  BY <1>1, <1>2, SettledRows
<1>6. settled' = settled
  BY <1>4, <1>5 DEF settled
<1>7. \A i \in 1..Len(pendings'[d]) : pendings'[d][i] = settled[d] + i
  <2> TAKE i \in 1..Len(pendings'[d])
  <2>1. contents[d][i] = settled[d] + Len(pendings[d]) + i
    BY <1>2 DEF RowInv
  <2> QED BY <1>2, <1>3, <2>1 DEF RowInv
<1>8. \A i \in 1..Len(contents'[d]) : contents'[d][i] = settled[d] + Len(pendings'[d]) + i
  BY <1>3
<1>9. RowInv'
  BY <1>2, <1>6, <1>7, <1>8 DEF RowInv
<1> QED BY <1>1, <1>6, <1>9

(* A batch is settled: it was the rows that follow the settled ones.        *)
LEMMA BatchSettled ==
  ASSUME AntTypeOK, RowInv, NEW d \in Dbs, PostBatch(d)
  PROVE  RowInv' /\ RowStore!Settle(d)
<1> DEFINE n == BatchLen(d)
<1>1. /\ pendings' = [pendings EXCEPT ![d] = Rest(d)]
      /\ UNCHANGED <<rows, contents>> /\ antAt[d] = "posting"
      /\ \/ stored' = [stored EXCEPT ![d] = @ \o SubSeq(pendings[d], 1, n)]
         \/ UNCHANGED stored
  BY DEF PostBatch
<1>2. /\ n \in 1..BatchMax /\ n <= Len(pendings[d])
      /\ Len(Rest(d)) = Len(pendings[d]) - n
      /\ \A i \in 1..Len(Rest(d)) : Rest(d)[i] = pendings[d][n + i]
      /\ SubSeq(pendings[d], 1, n) \in Seq(Nat)
      /\ Len(SubSeq(pendings[d], 1, n)) = n
      /\ \A i \in 1..n : SubSeq(pendings[d], 1, n)[i] = pendings[d][i]
  BY <1>1, BatchType
<1> HIDE DEF n
<1>3. /\ pendings'[d] = Rest(d)
      /\ \A e \in Dbs \ {d} : pendings'[e] = pendings[e]
  BY <1>1 DEF AntTypeOK
<1>4. /\ rows[d] \in Nat /\ Len(pendings[d]) \in Nat /\ Len(contents[d]) \in Nat
      /\ n \in Nat /\ settled[d] \in Nat
  BY <1>2, RowTypes, AntAssumption DEF RowInv
<1>5. settled'[d] = settled[d] + n
  <2>1. rows'[d] = rows[d] /\ Len(contents'[d]) = Len(contents[d])
        /\ Len(pendings'[d]) = Len(pendings[d]) - n
    BY <1>1, <1>2, <1>3
  <2>2. settled[d] = rows[d] - Len(pendings[d]) - Len(contents[d])
    BY SettledRows
  <2>3. settled'[d] = rows'[d] - Len(pendings'[d]) - Len(contents'[d])
    BY SettledRows
  <2>4. settled'[d] = rows[d] - (Len(pendings[d]) - n) - Len(contents[d])
    BY <2>1, <2>3, Zenon
  <2>5. rows[d] - (Len(pendings[d]) - n) - Len(contents[d])
          = (rows[d] - Len(pendings[d]) - Len(contents[d])) + n
    BY <1>4, FewerPending
  <2> QED BY <2>2, <2>4, <2>5, Zenon
<1>6. \A e \in Dbs \ {d} : settled'[e] = settled[e]
  BY <1>1, <1>3, SettledRows
<1>7. settled' = [settled EXCEPT ![d] = @ + n]
  BY <1>5, <1>6 DEF settled
<1>8. settled[d] + n <= rows[d]
  <2>1. settled[d] = rows[d] - Len(pendings[d]) - Len(contents[d])
    BY SettledRows
  <2>2. (rows[d] - Len(pendings[d]) - Len(contents[d])) + n <= rows[d]
    BY <1>2, <1>4, PendingCovered
  <2> QED BY <2>1, <2>2, Zenon
<1>9. \A i \in 1..Len(pendings'[d]) : pendings'[d][i] = settled'[d] + i
  <2> TAKE i \in 1..Len(pendings'[d])
  <2>1. n + i \in 1..Len(pendings[d]) /\ i \in 1..Len(Rest(d)) /\ i \in Nat
    BY <1>2, <1>3, <1>4
  <2>2. pendings'[d][i] = settled[d] + (n + i)
    BY <1>2, <1>3, <2>1 DEF RowInv
  <2> QED BY <1>4, <1>5, <2>1, <2>2
<1>10. \A i \in 1..Len(contents'[d]) :
         contents'[d][i] = settled'[d] + Len(pendings'[d]) + i
  <2> TAKE i \in 1..Len(contents'[d])
  <2>1. contents'[d][i] = settled[d] + Len(pendings[d]) + i
    BY <1>1 DEF RowInv
  <2>2. Len(pendings'[d]) = Len(pendings[d]) - n
    BY <1>2, <1>3
  <2> QED BY <1>4, <1>5, <2>1, <2>2
<1>11. RowInv'
  <2> SUFFICES ASSUME NEW e \in Dbs
               PROVE  /\ settled'[e] \in Nat
                      /\ \A i \in 1..Len(pendings'[e]) : pendings'[e][i] = settled'[e] + i
                      /\ \A i \in 1..Len(contents'[e]) :
                           contents'[e][i] = settled'[e] + Len(pendings'[e]) + i
    BY DEF RowInv
  <2>1. CASE e = d
    <3>1. settled'[d] \in Nat
      BY <1>4, <1>5
    <3> QED BY <1>9, <1>10, <2>1, <3>1
  <2>2. CASE e # d
    BY <1>1, <1>3, <1>6, <2>2 DEF RowInv
  <2> QED BY <2>1, <2>2
<1>12. SubSeq(pendings[d], 1, n) = RowStore!Following(d, n)
  <2>1. \A i \in 1..n : SubSeq(pendings[d], 1, n)[i] = settled[d] + i
    BY <1>2, <1>4 DEF RowInv
  <2>2. SubSeq(pendings[d], 1, n) \in [1..n -> Nat]
    BY <1>2, LenProperties
  <2> QED BY <2>1, <2>2 DEF RowStore!Following
<1> QED BY <1>1, <1>2, <1>7, <1>8, <1>11, <1>12 DEF RowStore!Settle

(* Every move of the ants is one of the store, or none at all.              *)
LEMMA RowNext ==
  ASSUME AntTypeOK, RowInv, AntMoves
  PROVE  RowInv' /\ [RowStore!Next]_(RowStore!vars)
<1> DEFINE Stutter == RowInv' /\ UNCHANGED <<rows, settled, stored>>
<1>0. ASSUME UNCHANGED <<rows, contents, pendings, stored>>
      PROVE  Stutter
  BY <1>0 DEF RowInv, settled
<1>1. ASSUME Check
      PROVE  Stutter
  BY <1>0, <1>1 DEF Check
<1>2. ASSUME StartAnts \/ CloseAnts
      PROVE  Stutter
  BY <1>0, <1>2 DEF StartAnts, CloseAnts
<1>3. ASSUME NEW c \in Contracts, insertToAntm(c)
      PROVE  Stutter \/ (RowInv' /\ RowStore!Next)
  <2>1. CASE c \in ants
    <3>1. c \in Dbs /\ RowInv' /\ RowStore!Accept(c)
      BY <1>3, <2>1, RowAccepted DEF AntTypeOK
    <3> QED BY <3>1 DEF RowStore!Next
  <2>2. CASE c \notin ants
    BY <1>0, <1>3, <2>2 DEF insertToAntm, antVars
  <2> QED BY <2>1, <2>2
<1>4. ASSUME NEW d \in Dbs, TakeContents(d)
      PROVE  Stutter
  BY <1>4, RowsTaken
<1>5. ASSUME NEW d \in Dbs, PostBatch(d)
      PROVE  RowInv' /\ RowStore!Next
  BY <1>5, BatchSettled DEF RowStore!Next
<1>6. ASSUME NEW d \in Dbs, AntReturns(d)
      PROVE  Stutter
  BY <1>0, <1>6 DEF AntReturns
<1>7. ASSUME UNCHANGED antVars
      PROVE  Stutter
  BY <1>0, <1>7 DEF antVars
<1>8. Stutter \/ (RowInv' /\ RowStore!Next)
  BY <1>1, <1>2, <1>3, <1>4, <1>5, <1>6, <1>7 DEF AntMoves, AntStep
<1> QED BY <1>8 DEF RowStore!vars

LEMMA RowInvHolds == Spec => []RowInv
<1>1. Init => RowInv
  BY RowInit DEF Init
<1>2. Inv /\ RowInv /\ [Next]_vars => RowInv'
  BY StepParts, RowNext DEF Inv, TypeOK
<1> QED BY <1>1, <1>2, InvHolds, PTL DEF Spec

(* Rows keep their order from krang's handlers through the buffer of a       *)
(* database to its ant, and none is lost between the two although they share *)
(* the buffer (tsdb.go insertToAntm, doAntWork).                            *)
THEOREM RowsCorrect == Spec => []RowsInOrder
<1>1. ASSUME TypeOK, RowInv, NEW d \in Dbs
      PROVE  LET kept == pendings[d] \o contents[d]
             IN  kept = [i \in 1..Len(kept) |-> settled[d] + i]
  <2> DEFINE kept == pendings[d] \o contents[d]
             p == Len(pendings[d])
             c == Len(contents[d])
  <2>1. /\ p \in Nat /\ c \in Nat /\ settled[d] \in Nat
        /\ pendings[d] \in Seq(Nat) /\ contents[d] \in Seq(Nat)
    BY <1>1, RowTypes DEF TypeOK, RowInv
  <2>2. /\ kept \in Seq(Nat) /\ Len(kept) = p + c
        /\ \A i \in 1..p + c : kept[i] = IF i <= p THEN pendings[d][i]
                                          ELSE contents[d][i - p]
    BY <2>1, ConcatProperties
  <2>0. Len(kept) = p + c
    BY <2>2
  <2>3. kept \in [1..Len(kept) -> Nat]
    BY <2>2, LenProperties
  <2> HIDE DEF kept
  <2>4. \A i \in 1..Len(kept) : kept[i] = settled[d] + i
    <3> TAKE i \in 1..Len(kept)
    <3>1. CASE i <= p
      <4>1. i \in 1..p
        BY <2>1, <2>2, <3>1
      <4> QED BY <1>1, <2>2, <3>1, <4>1 DEF RowInv
    <3>2. CASE ~(i <= p)
      <4>1. i - p \in 1..c /\ i \in Nat
        <5>1. p \in Nat /\ c \in Nat /\ i \in 1..p + c
          BY <2>0, <2>1
        <5> HIDE DEF p, c
        <5> QED BY <3>2, <5>1
      <4>2. kept[i] = contents[d][i - p]
        BY <2>2, <3>2
      <4>3. contents[d][i - p] = settled[d] + p + (i - p)
        BY <1>1, <4>1 DEF RowInv
      <4> QED BY <2>1, <4>1, <4>2, <4>3
    <3> QED BY <3>1, <3>2
  <2>5. kept = [i \in 1..Len(kept) |-> settled[d] + i]
    BY <2>3, <2>4
  <2> QED BY <2>5 DEF kept
<1>2. TypeOK /\ RowInv => RowsInOrder
  BY <1>1 DEF RowsInOrder
<1> QED BY <1>2, TypeCorrect, RowInvHolds, PTL

(* The ants and their buffers implement the store of rows: rows are settled  *)
(* in the order accepted, batch by batch, and a batch is stored whole or    *)
(* lost whole, never twice and never in part (tsdb.go doAntWork).           *)
THEOREM RowStoreCorrect == Spec => ImplementsRowStore
<1>1. Init => RowStore!Init
  BY RowInit DEF Init
<1>2. Inv /\ RowInv /\ [Next]_vars => [RowStore!Next]_(RowStore!vars)
  BY StepParts, RowNext DEF Inv, TypeOK
<1> QED BY <1>1, <1>2, InvHolds, RowInvHolds, PTL DEF Spec, ImplementsRowStore, RowStore!Spec

-----------------------------------------------------------------------------
(* Messages on their way.  Nothing of a partition is in the channel before   *)
(* the partition is opened.                                                 *)
OnTheWay(p) ==
  /\ handled[p] <= LastPut(p)
  /\ \A i \in Queued(p) : consumerQ[i].n \in handled[p] + 1..LastPut(p)
  /\ \A n \in handled[p] + 1..LastPut(p) : \E i \in Queued(p) : consumerQ[i].n = n
  /\ \A i, j \in Queued(p) : i < j => consumerQ[i].n < consumerQ[j].n

WayInv ==
  \A p \in Partitions : IF part[p] = "none" THEN Queued(p) = {} ELSE OnTheWay(p)

LEMMA WayTypes ==
  ASSUME Inv
  PROVE  /\ consumerQ \in Seq(Message) /\ Len(consumerQ) \in Nat
         /\ \A i \in 1..Len(consumerQ) :
              consumerQ[i].part \in Partitions /\ consumerQ[i].n \in Nat
         /\ \A p \in Partitions : /\ handled[p] \in Nat /\ offset[p] \in Nat
                                  /\ LastPut(p) \in Int
                                  /\ Len(topic[p]) \in Nat
         /\ part \in [Partitions -> PartStates] /\ offset \in [Partitions -> Nat]
         /\ handled \in [Partitions -> Nat]
<1>1. /\ consumerQ \in Seq(Message) /\ part \in [Partitions -> PartStates]
      /\ offset \in [Partitions -> Nat] /\ handled \in [Partitions -> Nat]
      /\ topic \in [Partitions -> Seq(UNION {KindsOf[p] : p \in Partitions})]
  BY DEF Inv, TypeOK, ConsumerTypeOK
<1>2. \A i \in 1..Len(consumerQ) : consumerQ[i].part \in Partitions /\ consumerQ[i].n \in Nat
  <2>1. \A m \in Message : m.part \in Partitions /\ m.n \in Nat
    BY DEF Message
  <2> QED BY <1>1, <2>1, ElementOfSeq
<1>3. \A p \in Partitions : LastPut(p) \in Int
  BY <1>1 DEF LastPut
<1> QED BY <1>1, <1>2, <1>3, LenProperties

(* A step that moves neither the channel nor how far anybody got. *)
LEMMA WayKept ==
  ASSUME WayInv, consumerQ' = consumerQ, handled' = handled,
         \A p \in Partitions : (part'[p] = "none") = (part[p] = "none"),
         \A p \in Partitions : LastPut(p)' = LastPut(p)
  PROVE  WayInv'
<1>1. \A p \in Partitions : Queued(p)' = Queued(p)
  BY DEF Queued
<1> QED BY <1>1 DEF WayInv, OnTheWay

LEMMA WayOpens ==
  ASSUME Inv, WayInv, NEW p \in Partitions, OpenPartition(p),
         handled' = [handled EXCEPT ![p] = Len(topic[p])]
  PROVE  WayInv'
<1>1. /\ part[p] = "none" /\ consumerQ' = consumerQ
      /\ part'[p] = "opened" /\ offset'[p] = Len(topic[p]) /\ handled'[p] = Len(topic[p])
      /\ \A q \in Partitions \ {p} :
           part'[q] = part[q] /\ offset'[q] = offset[q] /\ handled'[q] = handled[q]
  BY WayTypes DEF OpenPartition
<1>2. \A q \in Partitions : Queued(q)' = Queued(q)
  BY <1>1 DEF Queued
<1>3. \A q \in Partitions \ {p} : LastPut(q)' = LastPut(q)
  BY <1>1 DEF LastPut
<1>4. Queued(p)' = {}
  BY <1>1, <1>2 DEF WayInv
<1>5. LastPut(p)' = handled'[p] /\ handled'[p] \in Nat
  BY <1>1, WayTypes DEF LastPut
<1>6. OnTheWay(p)'
  <2>1. \A n \in handled'[p] + 1..LastPut(p)' : FALSE
    BY <1>5
  <2> QED BY <1>4, <1>5, <2>1 DEF OnTheWay
<1>7. \A q \in Partitions \ {p} : IF part'[q] = "none" THEN Queued(q)' = {} ELSE OnTheWay(q)'
  BY <1>1, <1>2, <1>3 DEF WayInv, OnTheWay
<1> QED BY <1>1, <1>6, <1>7 DEF WayInv

LEMMA WayPuts ==
  ASSUME Inv, WayInv, NEW p \in Partitions, PartitionPuts(p), handled' = handled
  PROVE  WayInv'
<1> DEFINE k == Len(consumerQ)
           m == [part |-> p, n |-> offset[p]]
<1>1. /\ part[p] = "blocked" /\ part' = [part EXCEPT ![p] = "select"]
      /\ offset' = offset /\ consumerQ' = Append(consumerQ, m)
  BY DEF PartitionPuts
<1>2. /\ part'[p] = "select" /\ \A q \in Partitions \ {p} : part'[q] = part[q]
      /\ LastPut(p) = offset[p] - 1 /\ LastPut(p)' = offset[p]
      /\ \A q \in Partitions \ {p} : LastPut(q)' = LastPut(q)
  BY <1>1, WayTypes DEF LastPut
<1>3. /\ k \in Nat /\ m \in Message /\ offset[p] \in Nat /\ handled[p] \in Nat
      /\ consumerQ \in Seq(Message)
  BY WayTypes DEF Message
<1>4. /\ Len(consumerQ') = k + 1 /\ consumerQ'[k + 1] = m
      /\ \A i \in 1..k : consumerQ'[i] = consumerQ[i]
  BY <1>1, <1>3, AppendProperties
<1> HIDE DEF k
<1>5. \A q \in Partitions \ {p} : Queued(q)' = Queued(q)
  BY <1>3, <1>4 DEF Queued, k
<1>6. Queued(p)' = Queued(p) \cup {k + 1}
  BY <1>3, <1>4 DEF Queued, k
<1>7. \A q \in Partitions : \A i \in Queued(q) : i \in 1..k /\ consumerQ'[i] = consumerQ[i]
  BY <1>4 DEF Queued, k
<1>8. \A q \in Partitions \ {p} : IF part'[q] = "none" THEN Queued(q)' = {} ELSE OnTheWay(q)'
  BY <1>2, <1>5, <1>7 DEF WayInv, OnTheWay
<1>9. OnTheWay(p)'
  <2>1. OnTheWay(p)
    BY <1>1 DEF WayInv
  <2>2. handled'[p] <= LastPut(p)'
    BY <1>2, <1>3, <2>1 DEF OnTheWay
  <2>3. consumerQ'[k + 1].n = offset[p]
    BY <1>4
  <2>4. \A i \in Queued(p)' : consumerQ'[i].n \in handled'[p] + 1..LastPut(p)'
    <3>1. \A i \in Queued(p) : consumerQ'[i].n \in handled'[p] + 1..LastPut(p)'
      BY <1>2, <1>3, <1>7, <2>1 DEF OnTheWay
    <3>2. consumerQ'[k + 1].n \in handled'[p] + 1..LastPut(p)'
      BY <1>2, <1>3, <2>1, <2>3 DEF OnTheWay
    <3> QED BY <1>6, <3>1, <3>2
  <2>5. \A n \in handled'[p] + 1..LastPut(p)' : \E i \in Queued(p)' : consumerQ'[i].n = n
    <3> TAKE n \in handled'[p] + 1..LastPut(p)'
    <3>1. CASE n = offset[p]
      BY <1>6, <2>3, <3>1
    <3>2. CASE n # offset[p]
      <4>1. n \in handled[p] + 1..LastPut(p)
        BY <1>2, <1>3, <3>2
      <4>2. PICK i \in Queued(p) : consumerQ[i].n = n
        BY <2>1, <4>1 DEF OnTheWay
      <4> QED BY <1>6, <1>7, <4>2
    <3> QED BY <3>1, <3>2
  <2>6. \A i, j \in Queued(p)' : i < j => consumerQ'[i].n < consumerQ'[j].n
    <3> SUFFICES ASSUME NEW i \in Queued(p)', NEW j \in Queued(p)', i < j
                 PROVE  consumerQ'[i].n < consumerQ'[j].n
      OBVIOUS
    <3>1. i \in Queued(p)
      BY <1>3, <1>6, <1>7
    <3>2. consumerQ'[i].n = consumerQ[i].n /\ consumerQ[i].n \in handled[p] + 1..LastPut(p)
      BY <1>7, <2>1, <3>1 DEF OnTheWay
    <3>3. CASE j \in Queued(p)
      BY <1>7, <2>1, <3>1, <3>3 DEF OnTheWay
    <3>4. CASE j = k + 1
      BY <1>2, <1>3, <2>3, <3>2, <3>4
    <3> QED BY <1>6, <3>3, <3>4
  <2> QED BY <2>2, <2>4, <2>5, <2>6 DEF OnTheWay
<1> QED BY <1>2, <1>8, <1>9 DEF WayInv

(* The oldest message of its partition is taken, the one after the last handled. *)
LEMMA WayTakes ==
  ASSUME Inv, WayInv, ReadMessage,
         NEW p \in Partitions, NEW h \in Nat,
         Head(consumerQ).part = p, Head(consumerQ).n = h,
         handled' = [handled EXCEPT ![p] = h]
  PROVE  WayInv'
<1> DEFINE k == Len(consumerQ)
<1>1. /\ consumerQ # <<>> /\ consumerQ' = Tail(consumerQ) /\ UNCHANGED <<offset, part>>
  BY DEF ReadMessage
<1>2. /\ consumerQ \in Seq(Message) /\ k \in Nat \ {0}
  BY <1>1, WayTypes, EmptySeq
<1>3. /\ Head(consumerQ) = consumerQ[1] /\ Len(consumerQ') = k - 1
      /\ \A i \in 1..k - 1 : consumerQ'[i] = consumerQ[i + 1]
  BY <1>1, <1>2, HeadTailProperties
<1>4. p \in Partitions /\ h \in Nat /\ 1 \in Queued(p)
  <2>1. 1 \in 1..Len(consumerQ)
    BY <1>2
  <2> QED BY <1>3, <2>1, WayTypes DEF Queued
<1>5. /\ handled'[p] = h /\ \A q \in Partitions \ {p} : handled'[q] = handled[q]
      /\ \A q \in Partitions : LastPut(q)' = LastPut(q) /\ LastPut(q) \in Int /\ handled[q] \in Nat
  BY <1>1, <1>4, WayTypes DEF LastPut
<1>6. OnTheWay(p) /\ h = consumerQ[1].n /\ consumerQ[1].part = p
  BY <1>3, <1>4 DEF WayInv
<1>7. /\ \A q \in Partitions : \A i \in Queued(q)' :
           i \in 1..k - 1 /\ i + 1 \in Queued(q) /\ consumerQ'[i] = consumerQ[i + 1]
      /\ \A q \in Partitions : \A j \in Queued(q) :
           j # 1 => j - 1 \in Queued(q)' /\ consumerQ'[j - 1] = consumerQ[j]
  <2>1. \A i \in 1..k - 1 : i + 1 \in 1..k /\ consumerQ'[i] = consumerQ[i + 1]
    BY <1>2, <1>3
  <2>2. \A j \in 1..k : j # 1 => j - 1 \in 1..k - 1 /\ consumerQ'[j - 1] = consumerQ[j]
    <3> SUFFICES ASSUME NEW j \in 1..k, j # 1
                 PROVE  j - 1 \in 1..k - 1 /\ consumerQ'[j - 1] = consumerQ[j]
      OBVIOUS
    <3>1. j - 1 \in 1..k - 1 /\ (j - 1) + 1 = j
      BY <1>2
    <3> QED BY <2>1, <3>1
  <2> QED BY <1>3, <2>1, <2>2 DEF Queued
<1>8. ASSUME NEW q \in Partitions \ {p}
      PROVE  IF part'[q] = "none" THEN Queued(q)' = {} ELSE OnTheWay(q)'
  <2>1. 1 \notin Queued(q)
    BY <1>6 DEF Queued
  <2>2. CASE part[q] = "none"
    BY <1>1, <1>7, <2>2 DEF WayInv
  <2>3. CASE part[q] # "none"
    <3>1. OnTheWay(q)
      BY <2>3 DEF WayInv
    <3>2. \A i \in Queued(q)' : consumerQ'[i].n \in handled'[q] + 1..LastPut(q)'
      BY <1>5, <1>7, <3>1 DEF OnTheWay
    <3>3. \A n \in handled'[q] + 1..LastPut(q)' : \E i \in Queued(q)' : consumerQ'[i].n = n
      BY <1>5, <1>7, <2>1, <3>1 DEF OnTheWay
    <3>4. \A i, j \in Queued(q)' : i < j => consumerQ'[i].n < consumerQ'[j].n
      BY <1>7, <3>1 DEF OnTheWay
    <3> QED BY <1>1, <1>5, <2>3, <3>1, <3>2, <3>3, <3>4 DEF OnTheWay
  <2> QED BY <2>2, <2>3
<1>9. h = handled[p] + 1 /\ h <= LastPut(p)
  <2>1. h \in handled[p] + 1..LastPut(p)
    BY <1>4, <1>6 DEF OnTheWay
  <2>2. handled[p] + 1 \in handled[p] + 1..LastPut(p)
    BY <1>4, <1>5, <2>1
  <2>3. PICK i \in Queued(p) : consumerQ[i].n = handled[p] + 1
    BY <1>6, <2>2 DEF OnTheWay
  <2>4. i \in 1..k /\ (i = 1 \/ h < handled[p] + 1)
    BY <1>2, <1>4, <1>6, <2>3 DEF OnTheWay, Queued
  <2> QED BY <1>4, <1>5, <1>6, <2>1, <2>3, <2>4
<1>10. OnTheWay(p)'
  <2>1. \A i \in Queued(p)' : consumerQ'[i].n \in handled'[p] + 1..LastPut(p)'
    <3> TAKE i \in Queued(p)'
    <3>1. i \in 1..k - 1 /\ i + 1 \in Queued(p) /\ consumerQ'[i] = consumerQ[i + 1]
      BY <1>4, <1>7
    <3>2. consumerQ[i + 1].n \in handled[p] + 1..LastPut(p) /\ h < consumerQ[i + 1].n
      BY <1>2, <1>4, <1>6, <3>1 DEF OnTheWay
    <3> QED BY <1>4, <1>5, <1>9, <3>1, <3>2
  <2>2. \A n \in handled'[p] + 1..LastPut(p)' : \E i \in Queued(p)' : consumerQ'[i].n = n
    <3> TAKE n \in handled'[p] + 1..LastPut(p)'
    <3>1. n \in handled[p] + 1..LastPut(p) /\ n # h
      BY <1>4, <1>5, <1>9
    <3>2. PICK j \in Queued(p) : consumerQ[j].n = n
      BY <1>6, <3>1 DEF OnTheWay
    <3>3. j # 1
      BY <1>6, <3>1, <3>2
    <3> QED BY <1>4, <1>7, <3>2, <3>3
  <2>3. \A i, j \in Queued(p)' : i < j => consumerQ'[i].n < consumerQ'[j].n
    <3> SUFFICES ASSUME NEW i \in Queued(p)', NEW j \in Queued(p)', i < j
                 PROVE  consumerQ'[i].n < consumerQ'[j].n
      OBVIOUS
    <3>1. /\ i + 1 \in Queued(p) /\ j + 1 \in Queued(p)
          /\ consumerQ'[i] = consumerQ[i + 1] /\ consumerQ'[j] = consumerQ[j + 1]
          /\ i \in 1..k - 1 /\ j \in 1..k - 1
      BY <1>4, <1>7
    <3>2. i + 1 < j + 1
      BY <1>2, <3>1
    <3> QED BY <1>6, <3>1, <3>2 DEF OnTheWay
  <2> QED BY <1>4, <1>5, <1>9, <2>1, <2>2, <2>3 DEF OnTheWay
<1>11. part[p] # "none"
  BY <1>4 DEF WayInv
<1> QED BY <1>1, <1>8, <1>10, <1>11 DEF WayInv

LEMMA WayNext == Inv /\ WayInv /\ [Next]_vars => WayInv'
<1> SUFFICES ASSUME Inv, WayInv, [Next]_vars
             PROVE  WayInv'
  OBVIOUS
<1>1. CASE OpenPartitions
  BY <1>1, WayOpens DEF OpenPartitions
<1>2. CASE KrangTakes
  <2>1. consumerQ # <<>> /\ Head(consumerQ) \in Message
    BY <1>2, HeadTailProperties, WayTypes DEF KrangTakes, ReadMessage
  <2>2. PICK p \in Partitions, h \in Nat : Head(consumerQ).part = p /\ Head(consumerQ).n = h
    BY <2>1 DEF Message
  <2> QED BY <1>2, <2>2, WayTakes DEF KrangTakes
<1>3. ASSUME NEW p \in Partitions, ReaderStep(p)
      PROVE  WayInv'
  <2>0. handled' = handled
    BY <1>3 DEF ReaderStep, processVars
  <2>1. CASE PartitionPuts(p)
    BY <2>0, <2>1, WayPuts
  <2>2. CASE PartitionReads(p)
    BY <2>0, <2>2, WayTypes, WayKept DEF PartitionReads, LastPut
  <2>3. CASE PartitionStops(p)
    BY <2>0, <2>3, WayTypes, WayKept DEF PartitionStops, LastPut
  <2> QED BY <1>3, <2>1, <2>2, <2>3 DEF ReaderStep, PartitionStep
<1>4. CASE StartPartitions
  BY <1>4, WayKept DEF StartPartitions, StartConsumerLoop, AllOpened, LastPut
<1>5. CASE UNCHANGED <<offset, part, consumerQ, handled>>
  BY <1>5, WayKept DEF LastPut
<1> QED
  BY <1>1, <1>2, <1>3, <1>4, <1>5
     DEF Next, Starting, Stopping, KrangStep, StartProducer, StartConsumer, ConsumerClient,
         CheckDbs, StartKrang, StartFails, Interrupt, StopKrang, ExitConsumer,
         ConsumerTakesExit, CloseConsumer, ExitProducer, KrangSends, KrangHandled,
         ProducerStep, WriterStep, OthersPublish, Publish, processVars, consumerVars, vars

LEMMA WayInit == Init => WayInv
<1> SUFFICES ASSUME Init PROVE WayInv
  OBVIOUS
<1>1. consumerQ = <<>> /\ Len(consumerQ) = 0 /\ part = [p \in Partitions |-> "none"]
  BY EmptySeq DEF Init, ConsumerInit
<1> QED BY <1>1 DEF WayInv, Queued

(* Between a partition and krang no message is lost, repeated or overtaken,  *)
(* for any capacity of the channel and whenever the process is interrupted   *)
(* (kfc.go consumerOnePartition, krang.go krangLoop).                        *)
THEOREM MessagesCorrect == Spec => []NothingLostOnTheWay
<1>1. Init => WayInv
  BY WayInit
<1>2. Inv /\ WayInv /\ [Next]_vars => WayInv'
  BY WayNext
<1>3. WayInv => NothingLostOnTheWay
  BY DEF WayInv, OnTheWay, NothingLostOnTheWay
<1> QED BY <1>1, <1>2, <1>3, InvHolds, PTL DEF Spec
=============================================================================
