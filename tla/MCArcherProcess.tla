--------------------------- MODULE MCArcherProcess ---------------------------
(***************************************************************************)
(* A small instance of ArcherProcess for TLC: requests for okex and for     *)
(* bitfinex, each of which may be in the configuration or not.              *)
(***************************************************************************)
EXTENDS ArcherProcess

RequestKinds == [p \in Partitions |-> {"okex", "bitfinex"}]
=============================================================================
