------------------------------- MODULE Trading -------------------------------
(***************************************************************************)
(* krang, the two topics, archer and the exchange, running side by side.   *)
(***************************************************************************)
EXTENDS Krang, Archer

vars == <<krangVars, queueVars, archerVars>>

Init == KrangInit /\ ArcherInit /\ reqQ = <<>> /\ rspQ = <<>>

KrangStep    == KrangNext /\ UNCHANGED archerVars
ArcherStep   == Serve(up) /\ UNCHANGED krangVars
ExchangeStep == FillResting /\ UNCHANGED krangVars

Next == KrangStep \/ ArcherStep \/ ExchangeStep

Spec == Init /\ [][Next]_vars

(***************************************************************************)
(* Fairness.  Each process keeps taking the messages of its own topic      *)
(* (loops without a blocking condition: krang.go krangLoop, archer/bows    *)
(* StartCmdLoop), and the quotes keep bringing quiet ticks of every        *)
(* followed contract.  Nothing is assumed of signals, emergencies, failed  *)
(* posts or crashes.                                                       *)
(***************************************************************************)
QuietTick(s) == \E t \in Ticks :
                  /\ t.sym = s
                  /\ t.signal = "none" /\ ~t.otherEmergency
                  /\ OnTick(t)
                  /\ UNCHANGED archerVars

Fairness == /\ WF_vars(HandleReply /\ UNCHANGED archerVars)
            /\ WF_vars(ArcherStep)
            /\ WF_vars(Start /\ UNCHANGED archerVars)
            /\ \A s \in Symbols : WF_vars(QuietTick(s))

FairSpec == Spec /\ Fairness

-----------------------------------------------------------------------------
(* Every variable has its type; a run that has not started has numbered     *)
(* nothing, and every unanswered command was numbered in this run           *)
(* (krang.go incReqSeed, feedback.go Add).                                  *)
TypeOK ==
  /\ reqQ \in Seq(Package(ReqBody))
  /\ rspQ \in Seq(Package(RspBody))
  /\ run \in Nat
  /\ up \in BOOLEAN
  /\ reqSeed \in Nat
  /\ ~up => reqSeed = 0
  /\ pos \in [Symbols -> Pos]
  /\ undone \subseteq Nat
  /\ DOMAIN feedback \subseteq 1..reqSeed
  /\ feedback \in [DOMAIN feedback -> 0..FB_MAX_CHECKTIMES - 1]
  /\ fsm \in States
  /\ since \in {10 * k : k \in 0..6}
  /\ lossTimes \in Nat
  /\ lossLimit \in Nat
  /\ sent \in Nat
  /\ holding \in [Symbols -> Holding]
  /\ book \in Seq(BookEntry)
  /\ lost \in Nat
  /\ unannounced \subseteq Symbols

-----------------------------------------------------------------------------
(***************************************************************************)
(* Requests and replies in flight, in the order they were issued.          *)
(***************************************************************************)
InOrder(q) == \A i, j \in DOMAIN q : i < j => Before(q[i], q[j])

(* The two topics and the single goroutine at each end of them keep issue   *)
(* order: whatever has been answered was asked before whatever has not      *)
(* (krang.go incReqSeed, bows.go StartCmdLoop, okex.go Run).                *)
RepliesInIssueOrder ==
  /\ InOrder(reqQ)
  /\ InOrder(rspQ)
  /\ \A i \in DOMAIN rspQ, j \in DOMAIN reqQ : Before(rspQ[i], reqQ[j])

(* Orders take effect strictly in the order krang issued them, and thus at  *)
(* most once, and all that took effect were issued before every request     *)
(* that waits to be taken, even across restarts and lost answers: archer    *)
(* never repeats a request (bows.go, okex.go setOrder).  Kafka is taken to  *)
(* deliver each request once.                                              *)
AtMostOnce ==
  /\ InOrder(book)
  /\ \A i \in DOMAIN book, j \in DOMAIN reqQ : Before(book[i], reqQ[j])

(* The i-th reply in flight is an answer about the position in s. *)
PosAnswer(i, s) == rspQ[i].body.tid = "QryPos" /\ rspQ[i].body.sym = s

(* The versions in flight about one contract only grow on their way, from   *)
(* what krang knows to what the exchange holds: no answer overtakes another *)
(* (kfc.go: one partition per topic; krang.go krangLoop).                   *)
VersionsInOrder ==
  \A s \in Symbols :
    /\ pos[s].ver <= holding[s].ver
    /\ \A i \in DOMAIN rspQ : PosAnswer(i, s) =>
         pos[s].ver <= rspQ[i].body.ver /\ rspQ[i].body.ver <= holding[s].ver
    /\ \A i, j \in DOMAIN rspQ : PosAnswer(i, s) /\ PosAnswer(j, s) /\ i < j =>
         rspQ[i].body.ver <= rspQ[j].body.ver

(***************************************************************************)
(* Something on its way that will tell krang the newest position in s.     *)
(***************************************************************************)
OrderReplyInFlight(s) ==
  \E i \in DOMAIN rspQ : rspQ[i].body.tid = "SetOrder" /\ rspQ[i].body.sym = s

QueryInFlight(s) ==
  \E i \in DOMAIN reqQ : reqQ[i].body.tid = "QryPos" /\ reqQ[i].body.sym = s

NewestInFlight(s) ==
  \E i \in DOMAIN rspQ : PosAnswer(i, s) /\ rspQ[i].body.ver = holding[s].ver

Refreshing(s) ==
  s \in unannounced \/ OrderReplyInFlight(s) \/ QueryInFlight(s) \/ NewestInFlight(s)

(* A position krang has out of date is about to be refreshed: a query, its  *)
(* answer, or the answer to an order that leads to a query is in flight.    *)
(* The only exceptions are changes nobody was told of (trade_handler.go     *)
(* rspSetOrder, mavg.go queryAllPos).                                       *)
StaleIsRefreshed ==
  up => \A s \in Symbols : pos[s].ver # holding[s].ver => Refreshing(s)

(* What krang knows of a position never goes back within a run, and is      *)
(* always a state the position has been in.                                 *)
Feed == INSTANCE PositionFeed WITH
          truth <- [s \in Symbols |-> holding[s].ver],
          known <- [s \in Symbols |-> pos[s].ver]

ImplementsPositionFeed == Feed!FeedSpec

-----------------------------------------------------------------------------
(* The orders krang sends in a step. *)
NewOrders ==
  {i \in Len(reqQ) + 1 .. Len(reqQ') : reqQ'[i].body.tid = "SetOrder"}

(* An order leaves only on a position that was not waiting for an update,   *)
(* and leaves it waiting, at most one per side of a contract; opening       *)
(* orders leave only in the normal state and below the loss limit           *)
(* (normal_state.go Decide, defense_state.go, mavg_archer.go).              *)
OrderDiscipline ==
  [][\A i \in NewOrders :
       LET o == reqQ'[i].body
       IN  /\ pos[o.sym].present => pos[o.sym].IsValid
           /\ ~pos'[o.sym].IsValid
           /\ o.open => fsm = "normal" /\ lossTimes < lossLimit
           /\ \A j \in NewOrders \ {i} : reqQ'[j].body.side # o.side]_vars

(* An answer to an order of the present run takes a command off the pending *)
(* feedback only if that command took effect (trade_handler.go rspSetOrder, *)
(* mavg.go CheckFeedBack: "check whether earlier orders were executed").    *)
(* An answer to an order of an earlier run may carry the serial of another  *)
(* command, and takes that one off whatever became of it.                  *)
ClearedOnlyIfExecuted ==
  [][rspSetOrder /\ Head(rspQ).run = run =>
       \A n \in DOMAIN feedback \ DOMAIN feedback' :
         \E i \in DOMAIN book : book[i].run = run /\ book[i].serial = n]_vars

(* A position disabled by an order becomes usable again, as long as only    *)
(* orders go unanswered: the pending feedback makes krang ask (mavg.go      *)
(* CheckFeedBack: "without feedback, update the position promptly").        *)
PositionRecovers ==
  \A s \in Symbols :
    (up /\ pos[s].present /\ ~pos[s].IsValid) ~> (pos[s].IsValid \/ ~up)

-----------------------------------------------------------------------------
(* Statements of the code's own comments that the code does not keep.       *)

(* normal_state.go: "after closing or opening, first update the position;   *)
(* in between, act on the newest position": no order for a contract while   *)
(* an earlier one for it has not been answered.                             *)
ActsOnLatestPosition ==
  [][\A i \in NewOrders :
       LET s == reqQ'[i].body.sym
       IN  /\ ~OrderReplyInFlight(s)
           /\ \A j \in DOMAIN reqQ :
                ~(reqQ[j].body.tid = "SetOrder" /\ reqQ[j].body.sym = s)]_vars
=============================================================================
