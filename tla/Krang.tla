-------------------------------- MODULE Krang --------------------------------
(***************************************************************************)
(* The krang process: one goroutine that takes a tick or an archer reply   *)
(* at a time and runs the trade, quote and strategy handlers on it.  One   *)
(* action per message is therefore atomic, with every request it sends.    *)
(*                                                                         *)
(* krang keeps nothing on disk: a crash loses the keeper, the pending      *)
(* feedback, the strategy's statistics and the serial counter, and the     *)
(* consumer of the next run starts at the newest offset.                   *)
(***************************************************************************)
EXTENDS Mavg, FiniteSets

CONSTANTS Ticks,       \* the ticks of followed contracts the quotes may bring
          MaxOrders,   \* bound: how many orders are sent
          MaxEntries,  \* bound: how often the normal state is entered, plus one
          MaxRuns      \* bound: how many times krang is started

ASSUME KrangAssumption ==
  /\ Ticks \subseteq Tick
  /\ MaxOrders \in Nat
  /\ MaxEntries \in Nat
  /\ MaxRuns \in Nat \ {0}

VARIABLES
  run,        \* number of the current krang run
  up,         \* whether krang is running
  reqSeed,    \* kr.reqSeed
  pos,        \* kr.keeper.pos, one entry per followed contract
  undone,     \* kr.keeper.orders: ids of the orders believed undone
  feedback,   \* kr.keeper.feedback: CheckTimes of each unanswered serial
  fsm,        \* name of the strategy's state
  since,      \* minutes since the defense or shutdown state was entered
  lossTimes, lossLimit,  \* mavgStatis
  sent        \* ghost: number of orders sent, over all runs

keeperVars == <<pos, undone, feedback>>
mavgVars   == <<fsm, since, lossTimes, lossLimit>>
krangVars  == <<run, up, reqSeed, keeperVars, mavgVars, sent>>

FB_MAX_CHECKTIMES == 3

NoLots == [side \in Sides |-> 0]

NoFeedback == [n \in {} |-> 0]

(***************************************************************************)
(* A position of the keeper.  A contract the keeper has no entry for is    *)
(* `present = FALSE'.  `ver' is a ghost: the version of the exchange's     *)
(* position that the last reply described, -1 before any reply.            *)
(***************************************************************************)
Pos == [present : BOOLEAN, IsValid : BOOLEAN, avai : Lots, ver : Nat \cup {-1}]

NoPos == [present |-> FALSE, IsValid |-> FALSE, avai |-> NoLots, ver |-> -1]

(* GetPos creates a missing entry: flat, and marked valid. *)
GetPos(s) ==
  IF pos[s].present THEN pos[s]
  ELSE [pos[s] EXCEPT !.present = TRUE, !.IsValid = TRUE]

(***************************************************************************)
(* HandlePos.  The exchange describes a flat contract by an empty list:    *)
(* then an entry is reset and a missing one stays missing.                 *)
(***************************************************************************)
HandlePos(p, rsp) ==
  IF rsp.avai = NoLots /\ ~p.present
  THEN [p EXCEPT !.ver = rsp.ver]
  ELSE [present |-> TRUE, IsValid |-> TRUE, avai |-> rsp.avai, ver |-> rsp.ver]

-----------------------------------------------------------------------------
(* packAndSend numbers the requests of one step from the seed on. *)
Packages(bodies) ==
  [i \in 1..Len(bodies) |->
     [run |-> run, serial |-> reqSeed + i, body |-> bodies[i]]]

Send(bodies) ==
  /\ reqQ' = reqQ \o Packages(bodies)
  /\ reqSeed' = reqSeed + Len(bodies)

(* Mutant: an unanswered command is given up without reading positions. *)
CheckQueriesNone == <<>>

(* Mutant: an unanswered command is checked once too often. *)
UnexpiredLate == {n \in DOMAIN feedback : feedback[n] + 1 <= FB_MAX_CHECKTIMES}

(***************************************************************************)
(* CheckFeedBack asks for every position once per unanswered command, and  *)
(* gives a command up the third time it is found unanswered.               *)
(***************************************************************************)
CheckQueries ==
  [i \in 1 .. Cardinality(DOMAIN feedback) * Len(queryAllPos) |->
     queryAllPos[((i - 1) % Len(queryAllPos)) + 1]]

Unexpired == {n \in DOMAIN feedback : feedback[n] + 1 < FB_MAX_CHECKTIMES}

IsOverLossLimit == lossTimes >= lossLimit

(***************************************************************************)
(* A tick of a followed contract: check the feedback, look the position    *)
(* up, decide, then enter the next state if it is another one.  An order   *)
(* disables the position until a reply about it arrives.                   *)
(***************************************************************************)
OnTick(t) ==
  LET p       == GetPos(t.sym)
      orders  == IF p.IsValid THEN Decide(fsm, IsOverLossLimit, p.avai, t) ELSE <<>>
      next    == NextState(fsm, IsOverLossLimit, since, t)
      enter   == EnterQueries(fsm, next)
      first   == reqSeed + Len(CheckQueries) + 1
      serials == first .. first + Len(orders) - 1
  IN  /\ up
      /\ sent' = sent + Len(orders)
      /\ sent' <= MaxOrders
      /\ Send(CheckQueries \o orders \o enter)
      /\ feedback' = [n \in Unexpired \cup serials |->
                        IF n \in Unexpired THEN feedback[n] + 1 ELSE 0]
      /\ pos' = [pos EXCEPT ![t.sym] = [p EXCEPT !.IsValid = p.IsValid /\ orders = <<>>]]
      /\ fsm' = next
      /\ since' = IF next = fsm THEN since ELSE 0
      /\ lossTimes' = lossTimes + Losses(orders, t)
      /\ lossLimit' = IF next = "normal" /\ fsm # "normal"
                      THEN lossLimit + LossStep ELSE lossLimit
      /\ UNCHANGED <<run, up, undone, rspQ>>

(***************************************************************************)
(* A tick of a contract the strategy does not follow still has every       *)
(* strategy check its feedback.                                            *)
(***************************************************************************)
OnOtherTick ==
  /\ up
  /\ DOMAIN feedback # {}
  /\ Send(CheckQueries)
  /\ feedback' = [n \in Unexpired |-> feedback[n] + 1]
  /\ UNCHANGED <<run, up, pos, undone, mavgVars, sent, rspQ>>

-----------------------------------------------------------------------------
(* The reply krang handles next, of the given kind. *)
Receive(tid) ==
  /\ up
  /\ rspQ # <<>>
  /\ Head(rspQ).body.tid = tid
  /\ rspQ' = Tail(rspQ)
  /\ UNCHANGED <<run, up, sent>>

(* The balance only scales the size of an order, which a tick brings along. *)
rspQryMoneyInfo ==
  /\ Receive("QryMoney")
  /\ UNCHANGED <<reqSeed, keeperVars, mavgVars, reqQ>>

rspQryPosInfo ==
  /\ Receive("QryPos")
  /\ LET rsp == Head(rspQ).body
     IN  pos' = [pos EXCEPT ![rsp.sym] = HandlePos(@, rsp)]
  /\ UNCHANGED <<reqSeed, undone, feedback, mavgVars, reqQ>>

(* Mutant: the answer to an order only asks for the account and the order. *)
rspSetOrderWithoutQryPos ==
  /\ Receive("SetOrder")
  /\ LET p   == Head(rspQ)
         rsp == p.body
     IN  /\ Send(<<[tid |-> "QryMoney"]>>
                 \o IF rsp.ok THEN <<[tid |-> "QryOrders", id |-> rsp.id]>> ELSE <<>>)
         /\ feedback' = [n \in DOMAIN feedback \ (IF rsp.ok THEN {p.serial} ELSE {})
                           |-> feedback[n]]
  /\ UNCHANGED <<pos, undone, mavgVars>>

(* Mutant: a refused order is taken off the pending feedback too. *)
rspSetOrderClearsAlways ==
  /\ Receive("SetOrder")
  /\ LET p   == Head(rspQ)
         rsp == p.body
     IN  /\ Send(<<[tid |-> "QryMoney"], [tid |-> "QryPos", sym |-> rsp.sym]>>
                 \o IF rsp.ok THEN <<[tid |-> "QryOrders", id |-> rsp.id]>> ELSE <<>>)
         /\ feedback' = [n \in DOMAIN feedback \ {p.serial} |-> feedback[n]]
  /\ UNCHANGED <<pos, undone, mavgVars>>

(***************************************************************************)
(* The answer to an order makes krang read account and position; only a    *)
(* success clears the feedback and asks for the order.                     *)
(***************************************************************************)
rspSetOrder ==
  /\ Receive("SetOrder")
  /\ LET p   == Head(rspQ)
         rsp == p.body
     IN  /\ Send(<<[tid |-> "QryMoney"], [tid |-> "QryPos", sym |-> rsp.sym]>>
                 \o IF rsp.ok THEN <<[tid |-> "QryOrders", id |-> rsp.id]>> ELSE <<>>)
         /\ feedback' = [n \in DOMAIN feedback \ (IF rsp.ok THEN {p.serial} ELSE {})
                           |-> feedback[n]]
  /\ UNCHANGED <<pos, undone, mavgVars>>

(* HandleOrders keeps an order exactly when it is reported undone. *)
rspQryOrders ==
  /\ Receive("QryOrders")
  /\ LET rsp == Head(rspQ).body
     IN  undone' = IF rsp.undone THEN undone \cup {rsp.id} ELSE undone \ {rsp.id}
  /\ UNCHANGED <<reqSeed, pos, feedback, mavgVars, reqQ>>

HandleReply == rspQryMoneyInfo \/ rspQryPosInfo \/ rspSetOrder \/ rspQryOrders

-----------------------------------------------------------------------------
(* Ten minutes go by; past an hour the state's clock tells nothing more. *)
PassTime ==
  /\ up
  /\ fsm \in {"defense", "shutdown"}
  /\ since < DefenseTime
  /\ lossLimit < LossStep * MaxEntries
  /\ since' = since + 10
  /\ UNCHANGED <<run, up, reqSeed, keeperVars, fsm, lossTimes, lossLimit, sent,
                 queueVars>>

KrangInit ==
  /\ run = 0
  /\ up = FALSE
  /\ reqSeed = 0
  /\ pos = [s \in Symbols |-> NoPos]
  /\ undone = {}
  /\ feedback = NoFeedback
  /\ fsm = "normal"
  /\ since = 0
  /\ lossTimes = 0
  /\ lossLimit = LossStep
  /\ sent = 0

(* krangLoop initialises the strategy, which asks for every position. *)
Start ==
  /\ ~up
  /\ run < MaxRuns
  /\ up' = TRUE
  /\ run' = run + 1
  /\ reqQ' = reqQ \o [i \in 1..Len(queryAllPos) |->
                        [run |-> run + 1, serial |-> i, body |-> queryAllPos[i]]]
  /\ reqSeed' = Len(queryAllPos)
  /\ UNCHANGED <<keeperVars, mavgVars, sent, rspQ>>

(* Replies not yet consumed lie before the offset the next run starts at. *)
Crash ==
  /\ up
  /\ run < MaxRuns
  /\ up' = FALSE
  /\ reqSeed' = 0
  /\ pos' = [s \in Symbols |-> NoPos]
  /\ undone' = {}
  /\ feedback' = NoFeedback
  /\ fsm' = "normal"
  /\ since' = 0
  /\ lossTimes' = 0
  /\ lossLimit' = LossStep
  /\ rspQ' = <<>>
  /\ UNCHANGED <<run, sent, reqQ>>

KrangNext ==
  \/ \E t \in Ticks : OnTick(t)
  \/ OnOtherTick
  \/ HandleReply
  \/ PassTime
  \/ Start
  \/ Crash
=============================================================================
