------------------------------ MODULE MCTrading ------------------------------
(***************************************************************************)
(* Small instances of Trading for TLC: one or two followed contracts and   *)
(* a handful of ticks, chosen so that orders, emergencies and losses meet  *)
(* replies in every order.                                                 *)
(***************************************************************************)
EXTENDS Trading, TLC

CONSTANTS ltc, etc

OneContract  == {ltc}
OneFollowed  == <<ltc>>
TwoContracts == {ltc, etc}
TwoFollowed  == <<ltc, etc>>

Flat      == [side \in Sides |-> 0]
OneLong   == [side \in Sides |-> IF side = "long" THEN 1 ELSE 0]
StartFlat == {Flat}
StartAny  == {Flat, OneLong}
StartLong == {OneLong}

AllTids == {"QryMoney", "QryPos", "SetOrder", "QryOrders"}
OrderTid == {"SetOrder"}

RatesAt(l, s) == [side \in Sides |-> IF side = "long" THEN l ELSE s]

(* Ticks of contract s with one of the given signals and profit rates. *)
TicksOf(S, signals, emergencies, rates) ==
  [sym : S, signal : signals, otherEmergency : emergencies, rate : rates, vol : {1}]

(* Trading in both directions without emergencies; every close loses. *)
TradeTicks(S) == TicksOf(S, {"none", "BUY", "SELL"}, {FALSE}, {RatesAt(0, 0)})
TradeTicks1 == TradeTicks(OneContract)

QuietTicks(S) == TicksOf(S, {"none"}, {FALSE}, {RatesAt(0, 0)})
BuyTicks(S) == QuietTicks(S) \cup TicksOf(S, {"BUY"}, {FALSE}, {RatesAt(0, 0)})
BuyTicks1 == BuyTicks(OneContract)

(* Two contracts held long: one is closed at a loss, which leads to the     *)
(* defense state, or turned short; the other raises emergencies and keeps   *)
(* the quiet ticks coming.                                                  *)
StateTicks2 ==
  TicksOf({ltc}, {"none"}, {FALSE}, {RatesAt(-2, 3)})
  \cup TicksOf({ltc}, {"SELL"}, {FALSE}, {RatesAt(0, 0)})
  \cup TicksOf({etc}, {"EMERGENCY"}, {FALSE}, {RatesAt(0, 0)})
  \cup QuietTicks({etc})
=============================================================================
