--------------------------------- MODULE Tape ---------------------------------
(***************************************************************************)
(* What recording and replaying promise together, whatever fails, crashes  *)
(* or runs at the same time: the recording of a day only ever grows at its *)
(* end, and a replay plays a beginning of the days it was given, as they   *)
(* were when it started, each message once and in order.                   *)
(***************************************************************************)
EXTENDS Integers, Sequences

CONSTANTS Days

VARIABLES tape,    \* the recording of each day
          script,  \* what the current replay is to play
          played   \* what it has played

tapeVars == <<tape, script, played>>

TapeInit == /\ tape = [d \in 1..Days |-> <<>>]
            /\ script = <<>> /\ played = <<>>

Record == /\ \A d \in 1..Days :
               /\ Len(tape[d]) <= Len(tape'[d])
               /\ SubSeq(tape'[d], 1, Len(tape[d])) = tape[d]
          /\ UNCHANGED <<script, played>>

(* A list of days, joined. *)
Joined(days) ==
  LET upto[n \in 0..Len(days)] == IF n = 0 THEN <<>> ELSE upto[n - 1] \o tape[days[n]]
  IN  upto[Len(days)]

Rewind(lists) == /\ \E days \in lists : script' = Joined(days)
                 /\ played' = <<>>
                 /\ UNCHANGED tape

Play == /\ Len(played) < Len(script)
        /\ played' = Append(played, script[Len(played) + 1])
        /\ UNCHANGED <<tape, script>>

TapeNext(lists) == Record \/ Rewind(lists) \/ Play
=============================================================================
