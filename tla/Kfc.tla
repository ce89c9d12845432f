--------------------------------- MODULE Kfc ---------------------------------
(***************************************************************************)
(* What both halves of the Kafka connector (kfc/kfc.go) share.              *)
(***************************************************************************)
EXTENDS Naturals, Sequences

CONSTANT MaxQueue  \* MAX_QUEEN_LEN: capacity of both channels

ASSUME QueueAssumption == MaxQueue \in Nat \ {0}
=============================================================================
