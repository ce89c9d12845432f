------------------------------- MODULE MCKLine -------------------------------
(***************************************************************************)
(* A small instance of Signals for TLC, starting at 2018-01-01 00:00 UTC:   *)
(* five-minute candles of three prices, and fifteen-minute ones of a fourth *)
(* that may end up among them; slopes over two candles of five minutes, and *)
(* time for every list of theirs to overflow.                              *)
(***************************************************************************)
EXTENDS Signals

NewYear == 1514764800

Both == {"5min", "15min"}
BothSeg == [kind \in Both |-> IF kind = "5min" THEN 300 ELSE 900]
BothCloses == [kind \in Both |-> IF kind = "5min" THEN {1, 4, 7} ELSE {8}]

BothParams ==
  [kind \in Both |->
     IF kind = "5min"
     THEN [distance |-> 2, fkrate |-> 20, skrate |-> 12, dkrate |-> 11, fsdiff |-> 20]
     ELSE [distance |-> 1, fkrate |-> 22, skrate |-> 15, dkrate |-> 16, fsdiff |-> 20]]

EndBoth == NewYear + 25 * 60
=============================================================================
