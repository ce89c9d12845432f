------------------------------ MODULE Recording ------------------------------
(***************************************************************************)
(* Storage and replay running side by side over the same files.            *)
(***************************************************************************)
EXTENDS Replay, FiniteSets

vars == <<stgVars, replayVars>>

Init == StorageInit /\ ReplayInit

StorageStep == StorageNext /\ UNCHANGED replayVars

ReplayStep == ReplayNext /\ UNCHANGED <<clockVars, published, disk, procVars>>

Next == StorageStep \/ ReplayStep

Spec == Init /\ [][Next]_vars

(***************************************************************************)
(* Fairness.  Every goroutine that can take a step takes it; where a       *)
(* select has several channels ready it chooses one at random, so none     *)
(* that is ready again and again is passed over for ever (strong           *)
(* fairness).  Nothing is assumed of messages, of days, of interrupts, of  *)
(* crashes, or of the operator who starts the processes.                   *)
(***************************************************************************)
StorageFairness ==
  /\ WF_vars(PutRecord /\ UNCHANGED replayVars)
  /\ WF_vars(CountRecord /\ UNCHANGED replayVars)
  /\ SF_vars(TakeSignal /\ UNCHANGED replayVars)
  /\ SF_vars((TakeSwitch \/ TakeExit) /\ UNCHANGED replayVars)

ReplayFairness ==
  LET alone == UNCHANGED <<clockVars, published, disk, procVars>>
  IN  /\ WF_vars((OpenFile \/ ReadOne \/ NextFile \/ AllRead) /\ alone)
      /\ SF_vars(KrangHandles /\ alone)
      /\ WF_vars(AllDone /\ alone)

FairSpec == Spec /\ StorageFairness /\ ReplayFairness

-----------------------------------------------------------------------------
TypeOK ==
  /\ today \in 1..Days /\ midnight \in BOOLEAN /\ ticked \in BOOLEAN
  /\ published \in Nat
  /\ lock \in [1..Days -> {"free", "storage", "replay"}]
  /\ \A d \in 1..Days :
       /\ disk[d].exists \in BOOLEAN
       /\ disk[d].count \in Nat \cup {NoCount}
       /\ \A i \in DOMAIN disk[d].rec : disk[d].rec[i] \in 1..published
  /\ main \in {"down", "waiting", "switch", "exit"}
  /\ loop \in {"ready", "counting", "returned"}
  /\ interrupted \in BOOLEAN
  /\ inq \in Seq(1..published)
  /\ tradingDay \in 0..Days /\ currm \in Nat
  /\ rmain \in {"none", "waiting", "done", "interrupted"}
  /\ total \in Nat \cup {NoCount} /\ next \in Nat
  /\ reader \in {"reading", "returned"} /\ loopEnd \in BOOLEAN
  /\ Len(msgq) <= Cap

(* Every record a count covers is there, wherever storage crashed: a replay *)
(* never fails on a missing record (stg.go handleStgMsg, replay.go          *)
(* readOneFile).                                                            *)
NoHoles ==
  \A d \in 1..Days : \A i \in 0 .. disk[d].count - 1 : i \in DOMAIN disk[d].rec

(* What the counts cover was recorded in the order it arrived, within a day *)
(* and from day to day, across crashes, failed writes and restarts: no      *)
(* message twice, none after a later one (stg.go StartStorage,              *)
(* handleStgMsg, switchTradingDay).                                         *)
RecordedInOrder ==
  \A d, e \in 1..Days :
    LET a == Records(d)
        b == Records(e)
    IN  /\ \A i, j \in DOMAIN a : i < j => a[i] < a[j]
        /\ d < e => \A i \in DOMAIN a, j \in DOMAIN b : a[i] < b[j]

(* While no write fails, at most one record of a day is not counted: that   *)
(* is all a crash between the two writes can lose (stg.go handleStgMsg).    *)
OneUncounted ==
  \A d \in 1..Days :
    disk[d].exists => Cardinality(DOMAIN disk[d].rec) <= disk[d].count + 1

(* After the first minute of a day storage writes to the file of that day   *)
(* (stg/main/main.go isEndOfDay, stg.go switchTradingDay).                  *)
WritesToday ==
  main = "waiting" /\ loop # "returned" /\ ~midnight => tradingDay = today

(* When a replay that read its files to their end is declared done, what     *)
(* krang has not handled is still in the channel, in order: the closing of   *)
(* the channel overtakes messages, and skips or reorders none               *)
(* (replay/replay.go readLoop, doExit).                                     *)
OnlyTheTailIsCut ==
  rmain = "done" /\ files = <<>> => handled \o msgq = script

(* The recording only grows, and a replay plays a beginning of it.          *)
Tapes == INSTANCE Tape WITH
           tape   <- [d \in 1..Days |-> Records(d)],
           played <- handled

ImplementsTape == Tapes!TapeInit /\ [][Tapes!TapeNext(ReplayDays)]_(Tapes!tapeVars)

-----------------------------------------------------------------------------
(* An interrupted storage stops (stg/main/main.go serverLoop: "recv a break *)
(* signal, exit storage...").                                               *)
StorageStops == interrupted ~> main = "down"

(* A replay ends, however the reader returned (replay/main/main.go).        *)
ReplayEnds == rmain = "waiting" ~> rmain # "waiting"
=============================================================================
