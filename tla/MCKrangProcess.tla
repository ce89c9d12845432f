---------------------------- MODULE MCKrangProcess ----------------------------
(***************************************************************************)
(* A small instance of KrangProcess for TLC: the topic of quotes and the    *)
(* topic of replies, one partition each.                                   *)
(***************************************************************************)
EXTENDS KrangProcess

CONSTANTS quotes, replies, ltc, etc

Both == {quotes, replies}
BothKinds == [p \in Both |-> IF p = quotes THEN {"tick", "kline"} ELSE {"reply"}]
=============================================================================
