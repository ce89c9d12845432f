------------------------------- MODULE Storage -------------------------------
(***************************************************************************)
(* The storage process (stg/stg.go, stg/main/main.go): it consumes the     *)
(* quotes and archer's replies and stores every message in the leveldb     *)
(* file of the trading day, numbered from 0, with the number of records    *)
(* under a key of its own.  The main goroutine watches the clock and the   *)
(* interrupt signal and sends commands to the loop over an unbuffered      *)
(* channel.                                                                *)
(*                                                                         *)
(* There is one exchange, as in the configuration shipped with the code.   *)
(* A message is the number of its arrival at the consumer (messages of two *)
(* topics arrive in any order).  A crash is one of the process: what was   *)
(* written stays written.                                                  *)
(***************************************************************************)
EXTENDS Integers, Sequences

CONSTANTS Days,         \* bound: the trading days are 1..Days
          MaxMessages,  \* bound: how many messages are published
          MaxStarts,    \* bound: how many times storage is started
          Failures      \* what may fail: writing a record, writing the count, a switch

ASSUME StorageAssumption ==
  /\ Days \in Nat \ {0} /\ MaxMessages \in Nat /\ MaxStarts \in Nat
  /\ Failures \subseteq {"record", "count", "switch"}

VARIABLES
  today, midnight,  \* the clock: the day, and whether its first minute still runs
  ticked,           \* whether the main goroutine's timer fired in that minute
  published,        \* how many messages the two topics have seen
  disk,             \* the files: whether there is one, its records, its count
  lock,             \* leveldb's file locks: the process that has a file open
  starts,           \* how many times storage was started
  main,             \* the main goroutine: waiting, or sending a command
  loop,             \* stgLoop: taking input, between its two writes, or returned
  interrupted,      \* a signal nobody has taken yet
  inq,              \* the messages kfc holds for stgLoop
  tradingDay, currm \* stgt.tradingDay, stgt.currm

clockVars == <<today, midnight, ticked>>
fileVars  == <<disk, lock>>
procVars  == <<starts, main, loop, interrupted, inq, tradingDay, currm>>
stgVars   == <<clockVars, published, fileVars, procVars>>

NoCount == -1

NoFile == [exists |-> FALSE, rec |-> [i \in {} |-> 0], count |-> NoCount]

(* The file with value v put under index i. *)
Put(file, i, v) ==
  [file EXCEPT !.rec = [j \in DOMAIN file.rec \cup {i} |-> IF j = i THEN v ELSE file.rec[j]]]

(* Writing a count: it may fail, and nobody looks. *)
PutCount(file, n) ==
  {[file EXCEPT !.count = n]} \cup IF "count" \in Failures THEN {file} ELSE {}

-----------------------------------------------------------------------------
StorageInit ==
  /\ today = 1 /\ midnight = FALSE /\ ticked = FALSE
  /\ published = 0
  /\ disk = [d \in 1..Days |-> NoFile]
  /\ lock = [d \in 1..Days |-> "free"]
  /\ starts = 0
  /\ main = "down" /\ loop = "returned" /\ interrupted = FALSE
  /\ inq = <<>>
  /\ tradingDay = 0 /\ currm = 0

(* A message is published; the consumer starts at the newest offset. *)
Publish ==
  /\ published < MaxMessages
  /\ published' = published + 1
  /\ inq' = IF main = "down" THEN inq ELSE Append(inq, published')
  /\ UNCHANGED <<clockVars, fileVars, starts, main, loop, interrupted, tradingDay, currm>>

NewDay ==
  /\ today < Days /\ ~midnight
  /\ today' = today + 1
  /\ midnight' = TRUE /\ ticked' = FALSE
  /\ UNCHANGED <<published, fileVars, procVars>>

(* The timer fires every second: a main goroutine that waits for it sees    *)
(* the first minute of the day.                                             *)
MinuteOver ==
  /\ midnight
  /\ main = "waiting" => ticked
  /\ midnight' = FALSE
  /\ UNCHANGED <<today, ticked, published, fileVars, procVars>>

(* Mutant: a restart forgets how many records the file has. *)
StartStorageAtZero ==
  /\ main = "down" /\ starts < MaxStarts
  /\ lock[today] = "free"
  /\ starts' = starts + 1
  /\ main' = "waiting" /\ loop' = "ready"
  /\ ticked' = FALSE
  /\ tradingDay' = today /\ currm' = 0
  /\ lock' = [lock EXCEPT ![today] = "storage"]
  /\ disk' = [disk EXCEPT ![today].exists = TRUE,
                         ![today].count = IF @ = NoCount THEN 0 ELSE @]
  /\ UNCHANGED <<today, midnight, published, interrupted, inq>>

(***************************************************************************)
(* StartStorage opens or creates the file of the day and continues at its  *)
(* count, or at 0 when it has none.                                        *)
(***************************************************************************)
StartStorage ==
  /\ main = "down" /\ starts < MaxStarts
  /\ lock[today] = "free"
  /\ starts' = starts + 1
  /\ main' = "waiting" /\ loop' = "ready"
  /\ ticked' = FALSE
  /\ tradingDay' = today
  /\ lock' = [lock EXCEPT ![today] = "storage"]
  /\ LET file == [disk[today] EXCEPT !.exists = TRUE]
     IN  IF file.count = NoCount
         THEN /\ currm' = 0
              /\ \E f \in PutCount(file, 0) : disk' = [disk EXCEPT ![today] = f]
         ELSE /\ currm' = file.count
              /\ disk' = [disk EXCEPT ![today] = file]
  /\ UNCHANGED <<today, midnight, published, interrupted, inq>>

-----------------------------------------------------------------------------
(* Mutant: the count is written before the record it counts. *)
PutRecordCountFirst ==
  /\ loop = "ready" /\ inq # <<>>
  /\ loop' = "counting"
  /\ disk' = [disk EXCEPT ![tradingDay].count = currm + 1]
  /\ UNCHANGED <<clockVars, published, lock, starts, main, interrupted, inq, tradingDay, currm>>

(* handleStgMsg, first write.  A message that cannot be written is dropped. *)
PutRecord ==
  /\ loop = "ready" /\ inq # <<>>
  /\ inq' = Tail(inq)
  /\ \/ /\ disk' = [disk EXCEPT ![tradingDay] = Put(@, currm, Head(inq))]
        /\ loop' = "counting"
     \/ /\ "record" \in Failures
        /\ UNCHANGED <<disk, loop>>
  /\ UNCHANGED <<clockVars, published, lock, starts, main, interrupted, tradingDay, currm>>

(* Mutant: only every other count is written. *)
CountRecordSometimes ==
  /\ loop = "counting"
  /\ loop' = "ready"
  /\ currm' = currm + 1
  /\ disk' = IF currm' % 2 = 1 THEN disk ELSE [disk EXCEPT ![tradingDay].count = currm']
  /\ UNCHANGED <<clockVars, published, lock, starts, main, interrupted, inq, tradingDay>>

(* handleStgMsg, second write. *)
CountRecord ==
  /\ loop = "counting"
  /\ loop' = "ready"
  /\ currm' = currm + 1
  /\ \E f \in PutCount(disk[tradingDay], currm') :
       disk' = [disk EXCEPT ![tradingDay] = f]
  /\ UNCHANGED <<clockVars, published, lock, starts, main, interrupted, inq, tradingDay>>

-----------------------------------------------------------------------------
(* Mutant: the last seconds of the old day are taken for the end of the day. *)
TimerFiresEarly ==
  /\ main = "waiting" /\ ~ticked
  /\ ticked' = TRUE
  /\ main' = IF midnight THEN "waiting" ELSE "switch"
  /\ UNCHANGED <<today, midnight, published, fileVars, starts, loop, interrupted, inq,
                 tradingDay, currm>>

(* The timer: all through the first minute of a day the loop is told to     *)
(* switch (isEndOfDay), and main waits until the loop takes the command.    *)
TimerFires ==
  /\ main = "waiting" /\ midnight
  /\ ticked' = TRUE
  /\ main' = "switch"
  /\ UNCHANGED <<today, midnight, published, fileVars, starts, loop, interrupted, inq,
                 tradingDay, currm>>

(* Mutant: the day is not compared, so every command starts the day's file again. *)
TakeSwitchAgain ==
  /\ main = "switch" /\ loop = "ready"
  /\ main' = "waiting"
  /\ tradingDay' = today /\ currm' = 0
  /\ lock' = [lock EXCEPT ![tradingDay] = "free", ![today] = "storage"]
  /\ disk' = [disk EXCEPT ![today].exists = TRUE, ![today].count = 0]
  /\ UNCHANGED <<clockVars, published, starts, loop, interrupted, inq>>

(* Mutant: a command for the day the loop is in already ends the loop. *)
TakeSwitchOnce ==
  /\ main = "switch" /\ loop = "ready"
  /\ main' = "waiting"
  /\ lock' = [lock EXCEPT ![tradingDay] = "free", ![today] = "storage"]
  /\ tradingDay' = today /\ currm' = 0
  /\ loop' = IF today <= tradingDay THEN "returned" ELSE "ready"
  /\ disk' = [disk EXCEPT ![today].exists = TRUE, ![today].count = 0]
  /\ UNCHANGED <<clockVars, published, starts, interrupted, inq>>

(***************************************************************************)
(* switchTradingDay, in the loop: nothing on the same day; else close the  *)
(* old file and start the new one.  If that fails the loop returns.        *)
(***************************************************************************)
TakeSwitch ==
  /\ main = "switch" /\ loop = "ready"
  /\ main' = "waiting"
  /\ \/ /\ today <= tradingDay
        /\ UNCHANGED <<fileVars, loop, tradingDay, currm>>
     \/ /\ today > tradingDay
        /\ tradingDay' = today /\ currm' = 0
        /\ lock' = [lock EXCEPT ![tradingDay] = "free", ![today] = "storage"]
        /\ \E f \in PutCount([disk[today] EXCEPT !.exists = TRUE], 0) :
             disk' = [disk EXCEPT ![today] = f]
        /\ UNCHANGED loop
     \/ /\ today > tradingDay /\ "switch" \in Failures
        /\ tradingDay' = today
        /\ lock' = [lock EXCEPT ![tradingDay] = "free"]
        /\ loop' = "returned"
        /\ UNCHANGED <<disk, currm>>
  /\ UNCHANGED <<clockVars, published, starts, interrupted, inq>>

Interrupt ==
  /\ main # "down" /\ ~interrupted
  /\ interrupted' = TRUE
  /\ UNCHANGED <<clockVars, published, fileVars, starts, main, loop, inq, tradingDay, currm>>

TakeSignal ==
  /\ main = "waiting" /\ interrupted
  /\ interrupted' = FALSE
  /\ main' = "exit"
  /\ UNCHANGED <<clockVars, published, fileVars, starts, loop, inq, tradingDay, currm>>

(* The process is gone, with what it held in memory and its file locks. *)
StorageGone ==
  /\ main' = "down" /\ loop' = "returned" /\ interrupted' = FALSE
  /\ inq' = <<>>
  /\ lock' = [d \in 1..Days |-> IF lock[d] = "storage" THEN "free" ELSE lock[d]]
  /\ UNCHANGED <<clockVars, published, disk, starts, tradingDay, currm>>

(* The loop takes the exit command; main waits a second and returns. *)
TakeExit == main = "exit" /\ loop = "ready" /\ StorageGone

Crash == main # "down" /\ StorageGone

StorageNext ==
  \/ Publish \/ NewDay \/ MinuteOver
  \/ StartStorage \/ PutRecord \/ CountRecord
  \/ TimerFires \/ TakeSwitch
  \/ Interrupt \/ TakeSignal \/ TakeExit \/ Crash
=============================================================================
