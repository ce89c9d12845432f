----------------------------- MODULE KfcProducer -----------------------------
(***************************************************************************)
(* The sending half of kfc, the Kafka connector every process links        *)
(* (kfc/kfc.go): a bounded channel, the goroutine that empties it into the  *)
(* broker, and its part in the exit of the process.                        *)
(*                                                                         *)
(* The actions say nothing of who calls them: a process module conjoins    *)
(* them with the step of the goroutine that does.                          *)
(***************************************************************************)
EXTENDS Kfc

CONSTANT MaxFailures   \* bound: how many attempts to send fail

ASSUME ProducerAssumption == MaxFailures \in Nat

VARIABLES producerAlive, \* kfc.producer.alive
          producerQ,     \* kfc.producer.msgq
          producerLoop,  \* where syncProducerLoop is
          sending,       \* the message sp.SendMessage is busy with, if any
          out,           \* the messages the broker took, in order
          accepted,      \* ghost: the messages that entered the channel
          failures       \* how many attempts failed

producerVars ==
  <<producerAlive, producerQ, producerLoop, sending, out, accepted, failures>>

LoopStates == {"none", "select", "sending", "gone"}

ProducerInit ==
  /\ producerAlive = FALSE
  /\ producerQ = <<>>
  /\ producerLoop = "none"
  /\ sending = <<>>
  /\ out = <<>>
  /\ accepted = <<>>
  /\ failures = 0

(* A client and a producer were made, and the loop was started.             *)
TobeProducer ==
  /\ producerAlive' = TRUE
  /\ producerLoop' = "select"
  /\ UNCHANGED <<producerQ, sending, out, accepted, failures>>

(* Mutant: a message is appended to a full channel. *)
SendMessageOverCap(m) ==
  IF producerAlive
  THEN /\ producerQ' = Append(producerQ, m)
       /\ accepted' = Append(accepted, m)
       /\ UNCHANGED <<producerAlive, producerLoop, sending, out, failures>>
  ELSE UNCHANGED producerVars

(* The caller waits while the channel is full; a producer that is not alive *)
(* drops the message silently.                                             *)
SendMessage(m) ==
  IF producerAlive
  THEN /\ Len(producerQ) < MaxQueue
       /\ producerQ' = Append(producerQ, m)
       /\ accepted' = Append(accepted, m)
       /\ UNCHANGED <<producerAlive, producerLoop, sending, out, failures>>
  ELSE UNCHANGED producerVars

-----------------------------------------------------------------------------
(* syncProducerLoop takes a message.                                        *)
TakeToSend ==
  /\ producerLoop = "select"
  /\ producerQ # <<>>
  /\ sending' = <<Head(producerQ)>>
  /\ producerQ' = Tail(producerQ)
  /\ producerLoop' = "sending"
  /\ UNCHANGED <<producerAlive, out, accepted, failures>>

(* sp.SendMessage returns without an error.                                 *)
Sent ==
  /\ producerLoop = "sending"
  /\ out' = out \o sending
  /\ sending' = <<>>
  /\ producerLoop' = "select"
  /\ UNCHANGED <<producerAlive, producerQ, accepted, failures>>

(***************************************************************************)
(* An attempt fails for the producer when the broker refuses the message,   *)
(* and also when the broker has it and only the acknowledgement is lost.    *)
(* sarama's default producer is not idempotent: what it sends again may be  *)
(* in the topic already.  The default of Producer.Retry.Max is 3; here the  *)
(* bound MaxFailures ends the retries.                                     *)
(***************************************************************************)
AttemptFails ==
  /\ producerLoop = "sending"
  /\ failures < MaxFailures
  /\ failures' = failures + 1
  /\ out' \in {out, out \o sending}

(* The library tries again within the same call ...                         *)
SendRetried ==
  /\ AttemptFails
  /\ UNCHANGED <<producerAlive, producerQ, producerLoop, sending, accepted>>

(* Mutant: the loop returns when a send fails. *)
SendFailsForGood ==
  /\ AttemptFails
  /\ sending' = <<>>
  /\ producerLoop' = "gone"
  /\ UNCHANGED <<producerAlive, producerQ, accepted>>

(* Mutant: the message is put back into the channel, behind the others. *)
SendFailsPutBack ==
  /\ AttemptFails
  /\ sending' = <<>>
  /\ producerLoop' = "select"
  /\ producerQ' = producerQ \o sending
  /\ UNCHANGED <<producerAlive, accepted>>

(* ... or gives up: the error is logged and the message is done with, be it *)
(* in the topic or not.                                                    *)
SendFails ==
  /\ AttemptFails
  /\ sending' = <<>>
  /\ producerLoop' = "select"
  /\ UNCHANGED <<producerAlive, producerQ, accepted>>

-----------------------------------------------------------------------------
(* ExitProducer hands its 1 to the loop, which returns; what is queued      *)
(* stays there.                                                            *)
ProducerTakesExit ==
  /\ producerAlive
  /\ producerLoop = "select"
  /\ producerLoop' = "gone"
  /\ UNCHANGED <<producerAlive, producerQ, sending, out, accepted, failures>>

(* A second later the client is closed.                                     *)
CloseProducer ==
  /\ producerAlive' = FALSE
  /\ UNCHANGED <<producerQ, producerLoop, sending, out, accepted, failures>>

-----------------------------------------------------------------------------
ProducerTypeOK(Message) ==
  /\ producerAlive \in BOOLEAN
  /\ producerQ \in Seq(Message) /\ Len(producerQ) <= MaxQueue
  /\ producerLoop \in LoopStates
  /\ sending \in Seq(Message) /\ Len(sending) <= 1
  /\ sending # <<>> <=> producerLoop = "sending"
  /\ out \in Seq(Message)
  /\ accepted \in Seq(Message)
  /\ failures \in 0..MaxFailures
=============================================================================
