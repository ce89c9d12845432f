------------------------------- MODULE Archer -------------------------------
(***************************************************************************)
(* The archer process and the exchange behind it.  The command loop hands  *)
(* one request at a time, over an unbuffered channel, to the goroutine of  *)
(* the exchange, which posts it and publishes the reply before it takes    *)
(* the next one: requests are served strictly in order.                    *)
(*                                                                         *)
(* A request whose post fails, or whose reply the broker does not take, is *)
(* never answered and never repeated.  The exchange itself is not part of  *)
(* the program; it is modelled from how archer uses it.                    *)
(***************************************************************************)
EXTENDS TradeMessages

CONSTANTS InitialLots,   \* what may be held when the system starts
          OrdersRest,    \* whether an accepted order may stay unfilled for a while
          LossyTids,     \* the kinds of request that may go unanswered
          MaxLost        \* bound: how many requests go unanswered

ASSUME ArcherAssumption ==
  /\ InitialLots \subseteq Lots
  /\ OrdersRest \in BOOLEAN
  /\ LossyTids \subseteq {"QryMoney", "QryPos", "SetOrder", "QryOrders"}
  /\ MaxLost \in Nat

VARIABLES
  holding,   \* the exchange's position in each contract
  book,      \* every order the exchange accepted, in order; its id is its index
  lost,      \* number of requests that went unanswered
  unannounced  \* ghost: contracts whose newest change nothing in flight will tell

archerVars == <<holding, book, lost, unannounced>>

(* `avai' is the part of `held' that no resting close order has claimed. *)
Holding == [held : [Sides -> Int], avai : Lots, ver : Nat]

BookEntry == [run : Nat, serial : Nat, sym : Symbols, side : Sides,
              open : BOOLEAN, vol : Nat, filled : BOOLEAN]

Rejected == [accepted |-> FALSE, filled |-> FALSE]

(***************************************************************************)
(* What the exchange may make of an order.  It may always refuse one (not  *)
(* enough margin), and refuses to close more than can be closed.           *)
(***************************************************************************)
Verdicts(o) ==
  {Rejected} \cup
  IF o.open \/ o.vol <= holding[o.sym].avai[o.side]
  THEN {[accepted |-> TRUE, filled |-> TRUE]}
       \cup IF OrdersRest THEN {[accepted |-> TRUE, filled |-> FALSE]} ELSE {}
  ELSE {}

(* The position once order o has been accepted, and filled or not. *)
Accept(h, o, filled) ==
  IF o.open
  THEN IF filled
       THEN [held |-> [h.held EXCEPT ![o.side] = @ + o.vol],
             avai |-> [h.avai EXCEPT ![o.side] = @ + o.vol],
             ver  |-> h.ver + 1]
       ELSE h
  ELSE [held |-> IF filled THEN [h.held EXCEPT ![o.side] = @ - o.vol] ELSE h.held,
        avai |-> [h.avai EXCEPT ![o.side] = @ - o.vol],
        ver  |-> h.ver + 1]

(* The position once an order that was resting has been filled. *)
Fill(h, o) ==
  IF o.open
  THEN Accept(h, o, TRUE)
  ELSE [held |-> [h.held EXCEPT ![o.side] = @ - o.vol], avai |-> h.avai, ver |-> h.ver + 1]

-----------------------------------------------------------------------------
(* Mutant: a request that was taken may be delivered once more. *)
TakeAgain(tid) ==
  /\ reqQ # <<>>
  /\ Head(reqQ).body.tid = tid
  /\ reqQ' \in {Tail(reqQ), reqQ}

(* archer takes the next request, which is of the given kind. *)
Take(tid) ==
  /\ reqQ # <<>>
  /\ Head(reqQ).body.tid = tid
  /\ reqQ' = Tail(reqQ)

(* Mutant: the newest reply is delivered first. *)
AnswerFirst(body, listening) ==
  /\ rspQ' = IF listening THEN <<Reply(Head(reqQ), body)>> \o rspQ ELSE rspQ
  /\ lost' = lost

(***************************************************************************)
(* Publish a reply, or let the request go unanswered.  A reply published   *)
(* while krang is down is passed over by its next run.                     *)
(***************************************************************************)
Answer(body, listening) ==
  /\ rspQ' = IF listening THEN Append(rspQ, Reply(Head(reqQ), body)) ELSE rspQ
  /\ lost' = lost

NoAnswer(tid) ==
  /\ tid \in LossyTids
  /\ lost < MaxLost
  /\ lost' = lost + 1
  /\ rspQ' = rspQ

qryMoneyInfo(listening) ==
  /\ Take("QryMoney")
  /\ Answer([tid |-> "QryMoney"], listening) \/ NoAnswer("QryMoney")
  /\ UNCHANGED <<holding, book, unannounced>>

qryHoldDetail(listening) ==
  /\ Take("QryPos")
  /\ LET s == Head(reqQ).body.sym
         h == holding[s]
     IN  \/ /\ Answer([tid |-> "QryPos", sym |-> s, avai |-> h.avai, ver |-> h.ver],
                      listening)
            /\ unannounced' = IF listening THEN unannounced \ {s} ELSE unannounced
         \/ /\ NoAnswer("QryPos")
            /\ unannounced' = unannounced \cup {s}
  /\ UNCHANGED <<holding, book>>

(***************************************************************************)
(* The exchange decides on the order, then archer learns of the decision   *)
(* or does not: the post can fail before or after it took effect.          *)
(***************************************************************************)
setOrder(listening) ==
  /\ Take("SetOrder")
  /\ LET req == Head(reqQ)
         o   == req.body
     IN  \E v \in Verdicts(o) :
           /\ holding' = IF v.accepted
                         THEN [holding EXCEPT ![o.sym] = Accept(@, o, v.filled)]
                         ELSE holding
           /\ book' = IF v.accepted
                      THEN Append(book, [run |-> req.run, serial |-> req.serial,
                                         sym |-> o.sym, side |-> o.side, open |-> o.open,
                                         vol |-> o.vol, filled |-> v.filled])
                      ELSE book
           /\ \/ /\ Answer([tid |-> "SetOrder", sym |-> o.sym, ok |-> v.accepted,
                            id |-> IF v.accepted THEN Len(book) + 1 ELSE 0], listening)
                 /\ unannounced' = IF v.accepted /\ ~listening
                                   THEN unannounced \cup {o.sym} ELSE unannounced
              \/ /\ NoAnswer("SetOrder")
                 /\ unannounced' = IF v.accepted
                                   THEN unannounced \cup {o.sym} ELSE unannounced

qryOrdersById(listening) ==
  /\ Take("QryOrders")
  /\ LET id == Head(reqQ).body.id
     IN  \/ Answer([tid |-> "QryOrders", id |-> id, undone |-> ~book[id].filled], listening)
         \/ NoAnswer("QryOrders")
  /\ UNCHANGED <<holding, book, unannounced>>

Serve(listening) ==
  \/ qryMoneyInfo(listening)
  \/ qryHoldDetail(listening)
  \/ setOrder(listening)
  \/ qryOrdersById(listening)

(***************************************************************************)
(* The exchange fills a resting order.  Nothing tells archer or krang.     *)
(***************************************************************************)
FillResting ==
  \E id \in DOMAIN book :
    /\ ~book[id].filled
    /\ LET o == book[id]
       IN  /\ holding' = [holding EXCEPT ![o.sym] = Fill(@, o)]
           /\ unannounced' = unannounced \cup {o.sym}
    /\ book' = [book EXCEPT ![id].filled = TRUE]
    /\ UNCHANGED <<lost, queueVars>>

ArcherInit ==
  /\ holding \in [Symbols -> {[held |-> l, avai |-> l, ver |-> 0] : l \in InitialLots}]
  /\ book = <<>>
  /\ lost = 0
  /\ unannounced = {}
=============================================================================
