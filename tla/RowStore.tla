------------------------------- MODULE RowStore -------------------------------
(***************************************************************************)
(* What the time-series writer promises of each database: the rows are      *)
(* settled in the order in which they were accepted, in batches, each row   *)
(* once.  A batch is stored whole or lost whole, and is not tried again.    *)
(***************************************************************************)
EXTENDS Naturals, Sequences

CONSTANTS Dbs, BatchMax

VARIABLES accepted, settled, stored

vars == <<accepted, settled, stored>>

Init == /\ accepted = [d \in Dbs |-> 0]
        /\ settled  = [d \in Dbs |-> 0]
        /\ stored   = [d \in Dbs |-> <<>>]

Accept(d) == /\ accepted' = [accepted EXCEPT ![d] = @ + 1]
             /\ UNCHANGED <<settled, stored>>

(* The n rows after the settled ones. *)
Following(d, n) == [i \in 1..n |-> settled[d] + i]

Settle(d) ==
  \E n \in 1..BatchMax :
    /\ settled[d] + n <= accepted[d]
    /\ settled' = [settled EXCEPT ![d] = @ + n]
    /\ \/ stored' = [stored EXCEPT ![d] = @ \o Following(d, n)]
       \/ UNCHANGED stored
    /\ UNCHANGED accepted

Next == \E d \in Dbs : Accept(d) \/ Settle(d)

Spec == Init /\ [][Next]_vars
=============================================================================
