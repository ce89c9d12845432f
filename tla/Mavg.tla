-------------------------------- MODULE Mavg --------------------------------
(***************************************************************************)
(* The decisions of the moving-average strategy (strategy/mavg): which     *)
(* orders a tick makes it send, and which state its machine is in after.   *)
(*                                                                         *)
(* Prices are abstracted to what the thresholds tell apart.  The floating  *)
(* profit rate of a side is a level -3..3: zero, inside every threshold    *)
(* (1), beyond the defense threshold (2), beyond the normal threshold too  *)
(* (3), negative for a loss.  Minutes are counted in tens.                 *)
(***************************************************************************)
EXTENDS TradeMessages

CONSTANTS LossStep     \* losing closes allowed per entry of the normal state

ASSUME LossStepAssumption == LossStep \in Nat \ {0}

States  == {"normal", "defense", "shutdown", "radical"}
Signals == {"none", "BUY", "SELL", "EMERGENCY"}
Levels  == -3..3

NormalStop   == 3
DefenseStop  == 2
ShutdownTime == 20
DefenseTime  == 60

(***************************************************************************)
(* What the handlers write into the event composition before Decide runs:  *)
(* the signal of the 5-minute line, whether another line raised an         *)
(* emergency, the profit rates computed from this tick, and the number of  *)
(* contracts an opening order would be for (zero when balance and price    *)
(* make less than one contract).                                           *)
(***************************************************************************)
Tick == [sym : Symbols, signal : Signals, otherEmergency : BOOLEAN,
         rate : [Sides -> Levels], vol : Nat]

HasEmergency(t) == t.signal = "EMERGENCY" \/ t.otherEmergency

OpenSignal(side)  == IF side = "long" THEN "BUY" ELSE "SELL"
CloseSignal(side) == IF side = "long" THEN "SELL" ELSE "BUY"

OutOfRange(rate, stop) == rate <= -stop \/ rate >= stop

(* The flat side opens on its signal, when the order is for a contract. *)
NormalOpens(avai, t, side) ==
  /\ avai[side] = 0
  /\ t.signal = OpenSignal(side)
  /\ t.vol > 0

NormalCloses(avai, t, side) ==
  /\ avai[side] > 0
  /\ \/ t.signal \in {"EMERGENCY", CloseSignal(side)}
     \/ OutOfRange(t.rate[side], NormalStop)

DefenseCloses(avai, t, side) ==
  /\ avai[side] > 0
  /\ \/ t.signal = "EMERGENCY"
     \/ OutOfRange(t.rate[side], DefenseStop)

Order(t, side, open, vol) ==
  [tid |-> "SetOrder", sym |-> t.sym, side |-> side, open |-> open, vol |-> vol]

(* Mutant: an opening order is sent whatever state the strategy is in. *)
SideOrdersAnyState(st, over, avai, t, side) ==
  LET opens  == ~over /\ NormalOpens(avai, t, side)
      closes == \/ st = "normal" /\ ~over /\ NormalCloses(avai, t, side)
                \/ st = "defense" /\ DefenseCloses(avai, t, side)
  IN  IF opens THEN <<Order(t, side, TRUE, t.vol)>>
      ELSE IF closes THEN <<Order(t, side, FALSE, avai[side])>>
      ELSE <<>>

(***************************************************************************)
(* The orders one side of Decide sends, at most one, in state st; `over'   *)
(* is IsOverLossLimit at the start of the tick.                            *)
(***************************************************************************)
SideOrders(st, over, avai, t, side) ==
  LET opens  == st = "normal" /\ ~over /\ NormalOpens(avai, t, side)
      closes == \/ st = "normal" /\ ~over /\ NormalCloses(avai, t, side)
                \/ st = "defense" /\ DefenseCloses(avai, t, side)
  IN  IF opens THEN <<Order(t, side, TRUE, t.vol)>>
      ELSE IF closes THEN <<Order(t, side, FALSE, avai[side])>>
      ELSE <<>>

(* The long part runs before the short part, on the same position. *)
Decide(st, over, avai, t) ==
  SideOrders(st, over, avai, t, "long") \o SideOrders(st, over, avai, t, "short")

(* A close is counted as a loss unless its expected profit is positive. *)
Losses(orders, t) ==
  LET lossAt(i) == IF i <= Len(orders) /\ ~orders[i].open
                      /\ t.rate[orders[i].side] <= 0
                   THEN 1 ELSE 0
  IN  lossAt(1) + lossAt(2)

NextState(st, over, since, t) ==
  CASE st = "normal" /\ over                         -> "defense"
    [] st = "normal" /\ ~over /\ HasEmergency(t)     -> "shutdown"
    [] st = "shutdown" /\ since >= ShutdownTime      -> "normal"
    [] st = "defense" /\ since >= DefenseTime        -> "normal"
    [] OTHER                                         -> st

(***************************************************************************)
(* The account query and one position query per followed contract.         *)
(***************************************************************************)
queryAllPos ==
  [i \in 1 .. Len(Follows) + 1 |->
     IF i = 1 THEN [tid |-> "QryMoney"]
              ELSE [tid |-> "QryPos", sym |-> Follows[i - 1]]]

(* Entering the normal or the defense state reads every position again. *)
EnterQueries(old, new) ==
  IF new # old /\ new \in {"normal", "defense"} THEN queryAllPos ELSE <<>>
=============================================================================
