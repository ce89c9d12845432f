---------------------------- MODULE PositionFeed ----------------------------
(***************************************************************************)
(* What the pipeline from the exchange to the strategy promises about each *)
(* position, whatever is delayed, lost or restarted on the way: what krang *)
(* knows is a state the position really went through, and within one run   *)
(* of krang a newer state is never replaced by an older one.               *)
(***************************************************************************)
EXTENDS Integers

CONSTANTS Symbols

VARIABLES truth,   \* how many times the position has changed at the exchange
          known    \* the change krang last learnt of, -1 for none

feedVars == <<truth, known>>

Unknown == [s \in Symbols |-> -1]

FeedInit == /\ truth = [s \in Symbols |-> 0]
            /\ known = Unknown

Change == /\ \E s \in Symbols : truth' = [truth EXCEPT ![s] = @ + 1]
          /\ UNCHANGED known

Learn == /\ \E s \in Symbols : \E v \in known[s]..truth[s] :
              known' = [known EXCEPT ![s] = v]
         /\ UNCHANGED truth

Forget == /\ known' = Unknown
          /\ UNCHANGED truth

FeedNext == Change \/ Learn \/ Forget

FeedSpec == FeedInit /\ [][FeedNext]_feedVars
=============================================================================
