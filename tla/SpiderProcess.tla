---------------------------- MODULE SpiderProcess ----------------------------
(***************************************************************************)
(* The spider program as a process (spider/main/server.go): kfc as a        *)
(* producer, the quoters, and a main goroutine that stops only the former.  *)
(***************************************************************************)
EXTENDS Quoter

VARIABLE main  \* what the main goroutine does next

vars == <<producerVars, quoterVars, main>>

MainStates == {"producer", "quoters", "serve", "exit producer", "close producer", "ended"}

Init == ProducerInit /\ QuoterInit /\ main = "producer"

Running == main # "ended"

StartProducer ==
  /\ main = "producer" /\ main' = "quoters"
  /\ TobeProducer
  /\ UNCHANGED quoterVars

StartFeeds ==
  /\ main = "quoters" /\ main' = "serve"
  /\ StartQuoters
  /\ UNCHANGED producerVars

StartFails ==
  /\ main \in {"producer", "quoters"} /\ main' = "ended"
  /\ UNCHANGED <<producerVars, quoterVars>>

Interrupt ==
  /\ main = "serve" /\ main' = "exit producer"
  /\ UNCHANGED <<producerVars, quoterVars>>

ExitProducer ==
  \/ /\ main = "exit producer" /\ main' = "close producer"
     /\ ProducerTakesExit
     /\ UNCHANGED quoterVars
  \/ /\ main = "close producer" /\ main' = "ended"
     /\ CloseProducer
     /\ UNCHANGED quoterVars

-----------------------------------------------------------------------------
ProducerStep == /\ Running
                /\ TakeToSend \/ Sent \/ SendRetried \/ SendFails
                /\ UNCHANGED <<quoterVars, main>>

RunStep(f) == /\ Running
              /\ Reconnect(f) \/ Watch(f)
              /\ UNCHANGED <<producerVars, main>>

WriteStep(c) == /\ Running
                /\ Subscribe(c) \/ BeatFails(c)
                /\ UNCHANGED <<producerVars, main>>

ReadStep(c) == /\ Running
               /\ \/ (ReadFails(c) \/ ReadMessageOf(c)) /\ UNCHANGED producerVars
                  \/ PublishQuote(c)
               /\ UNCHANGED main

ExchangeStep(c) == /\ Running
                   /\ Answers(c) \/ Pushes(c) \/ PushesMalformed(c) \/ Fault(c)
                   /\ UNCHANGED <<producerVars, main>>

SystemStep(c) == /\ Running
                 /\ Unacknowledged(c)
                 /\ UNCHANGED <<producerVars, main>>

Next == \/ StartProducer \/ StartFeeds \/ StartFails \/ Interrupt \/ ExitProducer
        \/ ProducerStep
        \/ \E f \in Feeds : RunStep(f)
        \/ \E c \in Connections : WriteStep(c) \/ ReadStep(c) \/ ExchangeStep(c) \/ SystemStep(c)

Spec == Init /\ [][Next]_vars

(***************************************************************************)
(* Fairness.  Goroutines that can step do; a dial that is tried again and   *)
(* again succeeds (utils/ws.go Reconnect); the system gives up a connection *)
(* whose data nobody acknowledges.  Nothing is assumed of the exchange.     *)
(***************************************************************************)
Fairness ==
  /\ SF_vars(ExitProducer) /\ WF_vars(ProducerStep)
  /\ \A f \in Feeds : WF_vars(RunStep(f))
  /\ \A c \in Connections : 
       WF_vars(WriteStep(c)) /\ WF_vars(ReadStep(c)) /\ WF_vars(SystemStep(c))

FairSpec == Spec /\ Fairness

-----------------------------------------------------------------------------
Quote == [feed : Feeds, conn : 1..MaxConns, ch : {Channels[i] : i \in 1..Len(Channels)},
          n : 0..MaxPushes, i : 1..2, priced : BOOLEAN]

TypeOK ==
  /\ ProducerTypeOK(Quote)
  /\ main \in MainStates
  /\ runAt \in [Feeds -> {"none", "dialing", "watching"}]
  /\ cur \in [Feeds -> 0..MaxConns]
  /\ \A c \in Connections :
       /\ conn[c].link \in Links
       /\ conn[c].reader \in {"none", "read", "publish", "fail", "gone"}
       /\ conn[c].reader \in {"publish", "fail"} <=> conn[c].batch # <<>>
       /\ conn[c].writer \in {"none", "subscribe", "beat", "gone"}
       /\ conn[c].asked \in {<<>>, Channels}
       /\ conn[c].answered <= Len(conn[c].asked)
       /\ conn[c].granted \subseteq {Channels[i] : i \in 1..conn[c].answered}

SameConnection(p, q) == p.feed = q.feed /\ p.conn = q.conn

Precedes(p, q) == p.n < q.n \/ (p.n = q.n /\ p.i < q.i)

(* The quotes of one connection enter the channel in the order they were    *)
(* pushed, candle by candle and none twice, and stay in that order up to    *)
(* the broker, where a retry may repeat one but never put it behind a later *)
(* one.  Of the quotes of a connection and of the one that replaced it      *)
(* nothing is said: those of the old one may come last (okex.go readLoop,   *)
(* parseNtfKLine; kfc.go syncProducerLoop).                                *)
InConnectionOrder ==
  /\ \A j \in 1..Len(accepted) : \A i \in 1..j - 1 :
       SameConnection(accepted[i], accepted[j]) => Precedes(accepted[i], accepted[j])
  /\ \A j \in 1..Len(out) : \A i \in 1..j - 1 :
       SameConnection(out[i], out[j]) => ~Precedes(out[j], out[i])

(* No ticker without prices is published.  The reader looks only at the     *)
(* first answer, and a refusal of the ticker read later would become a      *)
(* ticker of zeros; it is never read later, because the ticker is the first *)
(* channel asked for (okex.go subContractQuote, readLoop).                  *)
NoEmptyTicker == \A i \in 1..Len(accepted) : accepted[i].priced

(* A reader that got past all answers has all channels: a feed is never     *)
(* served in part without anybody noticing (okex.go readLoop, parseNtfKLine).*)
AllChannelsOrNone ==
  \A c \in Connections :
    /\ conn[c].reader \in {"read", "publish"}
    /\ conn[c].asked # <<>> /\ conn[c].answered = Len(conn[c].asked)
    /\ \A i \in 1..Len(conn[c].inbox) : conn[c].inbox[i].type \in {"push", "garbage"}
    => conn[c].granted = {Channels[i] : i \in 1..Len(Channels)}

(* An interrupt ends the process although the readers go on publishing.     *)
InterruptEnds == main = "exit producer" ~> main = "ended"

(* A connection that broke, fell silent or is no longer read is replaced by *)
(* another: the end of either goroutine ends the other (okex.go RunImpl).   *)
LinkIsReplaced ==
  \A f \in Feeds : \A n \in 1..MaxConns - 1 :
    \/ conn[<<f, n>>].link \in {"broken", "silent"}
    \/ conn[<<f, n>>].reader = "gone"
    ~> cur[f] > n \/ ~Running

(* Goroutines do not pile up: once a connection was replaced, the two that  *)
(* served it end (okex.go:57-58, the comment on RunImpl).                   *)
OldOnesEnd ==
  \A f \in Feeds : \A n \in 1..MaxConns - 1 :
    cur[f] > n ~> ~Running \/ (/\ conn[<<f, n>>].reader = "gone"
                              /\ conn[<<f, n>>].writer = "gone")
=============================================================================
