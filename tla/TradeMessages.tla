---------------------------- MODULE TradeMessages ----------------------------
(***************************************************************************)
(* The packages krang and archer exchange over the broker, and the two     *)
(* one-partition topics that carry them.                                   *)
(*                                                                         *)
(* A package is a header and a payload.  Of the header only the request    *)
(* serial is kept, together with `run', a mark of the krang run that       *)
(* issued the request: the code has no such field, it is a ghost that lets *)
(* properties tell apart two runs that both count serials from one.  Of a  *)
(* payload only what a handler branches on is kept; prices, bonds and      *)
(* names are data.                                                         *)
(***************************************************************************)
EXTENDS Integers, Sequences

CONSTANTS Symbols,   \* the contracts the strategy follows
          Follows    \* the order in which queryAllPos asks for them

ASSUME FollowsAssumption ==
  /\ Follows \in Seq(Symbols)
  /\ \A s \in Symbols : \E i \in 1..Len(Follows) : Follows[i] = s

VARIABLES reqQ,      \* topic okex_archer_req, not yet taken by archer
          rspQ       \* topic okex_archer_rsp, not yet handled by krang

queueVars == <<reqQ, rspQ>>

Sides == {"long", "short"}

(***************************************************************************)
(* Payloads of the requests.  An order opens or closes one side of one     *)
(* contract; `vol' is its number of contract units.                        *)
(***************************************************************************)
ReqQryMoney == [tid : {"QryMoney"}]
ReqQryPos   == [tid : {"QryPos"}, sym : Symbols]
ReqSetOrder == [tid : {"SetOrder"}, sym : Symbols, side : Sides,
                open : BOOLEAN, vol : Nat]
ReqQryOrder == [tid : {"QryOrders"}, id : Nat]

ReqBody == ReqQryMoney \cup ReqQryPos \cup ReqSetOrder \cup ReqQryOrder

(***************************************************************************)
(* Payloads of the replies.  `avai' is what can be closed on each side and *)
(* `ver' a ghost: how many times the position had changed at the exchange  *)
(* when the exchange answered.                                             *)
(***************************************************************************)
Lots == [Sides -> Nat]

RspQryMoney == [tid : {"QryMoney"}]
RspQryPos   == [tid : {"QryPos"}, sym : Symbols, avai : Lots, ver : Nat]
RspSetOrder == [tid : {"SetOrder"}, sym : Symbols, ok : BOOLEAN, id : Nat]
RspQryOrder == [tid : {"QryOrders"}, id : Nat, undone : BOOLEAN]

RspBody == RspQryMoney \cup RspQryPos \cup RspSetOrder \cup RspQryOrder

Package(Body) == [run : Nat, serial : Nat, body : Body]

(* A package is answered under the run and serial of its request. *)
Reply(req, body) == [run |-> req.run, serial |-> req.serial, body |-> body]

(* `p' was issued before `q'. *)
Before(p, q) == \/ p.run < q.run
                \/ p.run = q.run /\ p.serial < q.serial
=============================================================================
