---------------------------- MODULE RecordingProofs ----------------------------
(***************************************************************************)
(* Proofs about the recording of quotes, for every number of days, messages, *)
(* starts and replays, every list of days replayed, and whatever write or    *)
(* switch fails.                                                            *)
(***************************************************************************)
EXTENDS Recording, FiniteSetTheorems, SequenceTheorems, WellFoundedInduction, TLAPS

-----------------------------------------------------------------------------
(* A count covers records that are there, and so does the count the loop     *)
(* will write next.                                                        *)
Covered(file, n) == \A i \in 0..n - 1 : i \in DOMAIN file.rec

DiskInv ==
  /\ today \in 1..Days
  /\ DOMAIN disk = 1..Days
  /\ \A d \in 1..Days : DOMAIN disk[d] = {"exists", "rec", "count"}
  /\ \A d \in 1..Days : disk[d].count \in Nat \cup {NoCount}
  /\ \A d \in 1..Days : Covered(disk[d], disk[d].count)
  /\ loop # "returned" =>
       /\ tradingDay \in 1..Days
       /\ currm \in Nat
       /\ Covered(disk[tradingDay], currm)
       /\ loop = "counting" => currm \in DOMAIN disk[tradingDay].rec

(* The day of the file and the clock: a main goroutine that saw the new day  *)
(* or is past its first minute has had the file switched.                  *)
ClockInv ==
  /\ today \in Nat /\ tradingDay \in Nat /\ tradingDay <= today
  /\ main = "waiting" /\ loop # "returned" /\ (ticked \/ ~midnight) => tradingDay = today

-----------------------------------------------------------------------------
LEMMA ClockInit == Init => ClockInv
  BY StorageAssumption DEF Init, StorageInit, ClockInv

LEMMA ClockNext == ClockInv /\ [Next]_vars => ClockInv'
<1> SUFFICES ASSUME ClockInv, [Next]_vars
             PROVE  ClockInv'
  OBVIOUS
<1> USE DEF ClockInv, clockVars, fileVars, procVars
<1>1. CASE StorageNext
  <2>1. CASE Publish
    BY <2>1 DEF Publish
  <2>2. CASE NewDay
    BY <2>2 DEF NewDay
  <2>3. CASE MinuteOver
    BY <2>3 DEF MinuteOver
  <2>4. CASE StartStorage
    BY <2>4 DEF StartStorage
  <2>5. CASE PutRecord
    BY <2>5 DEF PutRecord
  <2>6. CASE CountRecord
    BY <2>6 DEF CountRecord
  <2>7. CASE TimerFires
    BY <2>7 DEF TimerFires
  <2>8. CASE TakeSwitch
    BY <2>8 DEF TakeSwitch
  <2>9. CASE Interrupt
    BY <2>9 DEF Interrupt
  <2>10. CASE TakeSignal
    BY <2>10 DEF TakeSignal
  <2>11. CASE TakeExit \/ Crash
    BY <2>11 DEF TakeExit, Crash, StorageGone
  <2> QED BY <1>1, <2>1, <2>2, <2>3, <2>4, <2>5, <2>6, <2>7, <2>8, <2>9, <2>10, <2>11
          DEF StorageNext
<1>2. CASE ReplayStep
  BY <1>2 DEF ReplayStep
<1>3. CASE UNCHANGED vars
  BY <1>3 DEF vars, stgVars
<1> QED BY <1>1, <1>2, <1>3 DEF Next, StorageStep

(* After its first minute storage writes to the file of the day, whatever    *)
(* was started, interrupted or crashed before (stg/main/main.go isEndOfDay).*)
THEOREM SwitchesInTime == Spec => []WritesToday
<1>1. ClockInv => WritesToday
  BY DEF ClockInv, WritesToday
<1> QED BY <1>1, ClockInit, ClockNext, PTL DEF Spec

-----------------------------------------------------------------------------
LEMMA DiskInit == Init => DiskInv
<1> SUFFICES ASSUME Init
             PROVE  DiskInv
  OBVIOUS
<1>1. /\ today \in 1..Days /\ loop = "returned"
      /\ disk = [d \in 1..Days |-> NoFile]
  BY StorageAssumption DEF Init, StorageInit
<1>2. NoFile.count = NoCount /\ DOMAIN NoFile = {"exists", "rec", "count"}
  BY DEF NoFile
<1>3. \A d \in 1..Days : Covered(disk[d], disk[d].count)
  BY <1>1, <1>2 DEF Covered, NoCount
<1> QED BY <1>1, <1>2, <1>3 DEF DiskInv

(* Putting a record leaves what was there, and writing a count of covered    *)
(* records, or failing to, leaves every count covering its records.         *)
LEMMA PutProperties ==
  ASSUME NEW file, DOMAIN file = {"exists", "rec", "count"}, NEW i, NEW v,
         file.count \in Nat \cup {NoCount}
  PROVE  /\ DOMAIN Put(file, i, v) = {"exists", "rec", "count"}
         /\ Put(file, i, v).count = file.count
         /\ DOMAIN Put(file, i, v).rec = DOMAIN file.rec \cup {i}
  BY DEF Put

(* What PutCount may leave: the file with the count, or as it was.          *)
LEMMA PutCountProperties ==
  ASSUME NEW file, DOMAIN file = {"exists", "rec", "count"}, NEW n \in Nat,
         file.count \in Nat \cup {NoCount},
         Covered(file, file.count), Covered(file, n), NEW f \in PutCount(file, n)
  PROVE  /\ DOMAIN f = {"exists", "rec", "count"}
         /\ f.rec = file.rec
         /\ f.count \in Nat \cup {NoCount}
         /\ Covered(f, f.count)
<1>1. f = [file EXCEPT !.count = n] \/ f = file
  BY DEF PutCount
<1> QED BY <1>1 DEF Covered

(* A step that changes one file keeps the files in order when that file is. *)
FilesOK ==
  /\ DOMAIN disk = 1..Days
  /\ \A d \in 1..Days : DOMAIN disk[d] = {"exists", "rec", "count"}
  /\ \A d \in 1..Days : disk[d].count \in Nat \cup {NoCount}
  /\ \A d \in 1..Days : Covered(disk[d], disk[d].count)

LEMMA OneFile ==
  ASSUME FilesOK, NEW d \in 1..Days, NEW f, disk' = [disk EXCEPT ![d] = f],
         DOMAIN f = {"exists", "rec", "count"},
         f.count \in Nat \cup {NoCount}, Covered(f, f.count)
  PROVE  FilesOK' /\ disk'[d] = f
<1>1. DOMAIN disk' = 1..Days /\ disk'[d] = f
  BY DEF FilesOK
<1>2. \A e \in 1..Days : e # d => disk'[e] = disk[e]
  BY DEF FilesOK
<1>3. \A e \in 1..Days : /\ DOMAIN disk'[e] = {"exists", "rec", "count"}
                         /\ disk'[e].count \in Nat \cup {NoCount}
                         /\ Covered(disk'[e], disk'[e].count)
  BY <1>1, <1>2 DEF FilesOK
<1> QED BY <1>1, <1>3 DEF FilesOK

LEMMA DiskNext == DiskInv /\ [Next]_vars => DiskInv'
<1> SUFFICES ASSUME DiskInv, [Next]_vars
             PROVE  DiskInv'
  OBVIOUS
<1>0. FilesOK /\ today \in 1..Days
  BY DEF DiskInv, FilesOK
<1>a. ASSUME UNCHANGED <<disk, tradingDay, currm>>, today' \in 1..Days,
             loop' = loop \/ loop' = "returned"
      PROVE  DiskInv'
  BY <1>a DEF DiskInv
<1>1. CASE NewDay /\ UNCHANGED replayVars
  <2>1. today' \in 1..Days
    BY <1>0, <1>1, StorageAssumption DEF NewDay
  <2> QED BY <1>a, <1>1, <2>1 DEF NewDay, fileVars, procVars
<1>2. CASE StartStorage
  <2> DEFINE file == [disk[today] EXCEPT !.exists = TRUE]
  <2>1. /\ DOMAIN file = {"exists", "rec", "count"}
        /\ file.count = disk[today].count /\ file.rec = disk[today].rec
    BY <1>0 DEF FilesOK
  <2>2. /\ file.count \in Nat \cup {NoCount} /\ Covered(file, file.count)
        /\ Covered(file, 0)
    BY <1>0, <2>1 DEF FilesOK, Covered
  <2> HIDE DEF file
  <2>3. PICK f : /\ disk' = [disk EXCEPT ![today] = f]
                 /\ \/ file.count = NoCount /\ currm' = 0 /\ f \in PutCount(file, 0)
                    \/ file.count # NoCount /\ currm' = file.count /\ f = file
    BY <1>2 DEF StartStorage, file
  <2>4. /\ DOMAIN f = {"exists", "rec", "count"} /\ f.rec = file.rec
        /\ f.count \in Nat \cup {NoCount} /\ Covered(f, f.count)
    <3>1. CASE f \in PutCount(file, 0)
      BY <2>1, <2>2, <3>1, PutCountProperties
    <3>2. CASE f = file
      BY <2>1, <2>2, <3>2
    <3> QED BY <2>3, <3>1, <3>2
  <2>5. currm' \in Nat /\ Covered(f, currm')
    BY <2>2, <2>3, <2>4 DEF Covered
  <2>6. FilesOK' /\ disk'[today] = f
    BY <1>0, <2>3, <2>4, OneFile
  <2>7. tradingDay' = today /\ loop' = "ready" /\ today' = today
    BY <1>2 DEF StartStorage
  <2> QED BY <1>0, <2>5, <2>6, <2>7 DEF DiskInv, FilesOK
<1>3. CASE PutRecord
  <2>1. CASE UNCHANGED <<disk, loop>>
    BY <1>0, <1>3, <1>a, <2>1 DEF PutRecord, clockVars
  <2>2. CASE /\ disk' = [disk EXCEPT ![tradingDay] = Put(@, currm, Head(inq))]
             /\ loop' = "counting"
    <3> DEFINE file == disk[tradingDay]
               f == Put(file, currm, Head(inq))
    <3>1. /\ tradingDay \in 1..Days /\ currm \in Nat /\ Covered(file, currm)
      BY <1>3 DEF DiskInv, PutRecord
    <3>2. /\ DOMAIN file = {"exists", "rec", "count"}
          /\ file.count \in Nat \cup {NoCount} /\ Covered(file, file.count)
      BY <1>0, <3>1 DEF FilesOK
    <3> HIDE DEF file
    <3>3. /\ DOMAIN f = {"exists", "rec", "count"} /\ f.count = file.count
          /\ DOMAIN f.rec = DOMAIN file.rec \cup {currm}
      BY <3>2, PutProperties
    <3>4. disk' = [disk EXCEPT ![tradingDay] = f]
      BY <2>2 DEF file
    <3> HIDE DEF f
    <3>5. Covered(f, f.count) /\ Covered(f, currm) /\ currm \in DOMAIN f.rec
      BY <3>1, <3>2, <3>3 DEF Covered
    <3>6. FilesOK' /\ disk'[tradingDay] = f
      BY <1>0, <3>1, <3>2, <3>3, <3>4, <3>5, OneFile
    <3>7. /\ tradingDay' = tradingDay /\ currm' = currm /\ today' = today
          /\ loop' = "counting"
      BY <1>3, <2>2 DEF PutRecord, clockVars
    <3> QED BY <1>0, <3>1, <3>5, <3>6, <3>7 DEF DiskInv, FilesOK
  <2> QED BY <1>3, <2>1, <2>2 DEF PutRecord
<1>4. CASE CountRecord
  <2> DEFINE file == disk[tradingDay]
  <2>1. /\ tradingDay \in 1..Days /\ currm \in Nat /\ Covered(file, currm)
        /\ currm \in DOMAIN file.rec
    BY <1>4 DEF DiskInv, CountRecord
  <2>2. /\ DOMAIN file = {"exists", "rec", "count"}
        /\ file.count \in Nat \cup {NoCount} /\ Covered(file, file.count)
    BY <1>0, <2>1 DEF FilesOK
  <2> HIDE DEF file
  <2>3. currm + 1 \in Nat /\ Covered(file, currm + 1)
    BY <2>1 DEF Covered
  <2>4. PICK f \in PutCount(file, currm + 1) : disk' = [disk EXCEPT ![tradingDay] = f]
    BY <1>4 DEF CountRecord, file
  <2>5. /\ DOMAIN f = {"exists", "rec", "count"} /\ f.rec = file.rec
        /\ f.count \in Nat \cup {NoCount} /\ Covered(f, f.count)
    BY <2>2, <2>3, <2>4, PutCountProperties
  <2>6. FilesOK' /\ disk'[tradingDay] = f
    BY <1>0, <2>1, <2>4, <2>5, OneFile
  <2>7. /\ tradingDay' = tradingDay /\ currm' = currm + 1 /\ today' = today
        /\ loop' = "ready"
    BY <1>4 DEF CountRecord, clockVars
  <2>8. Covered(f, currm + 1)
    BY <2>3, <2>5 DEF Covered
  <2> QED BY <1>0, <2>1, <2>3, <2>6, <2>7, <2>8 DEF DiskInv, FilesOK
<1>5. CASE TakeSwitch
  <2>1. CASE UNCHANGED <<fileVars, loop, tradingDay, currm>>
    BY <1>0, <1>5, <1>a, <2>1 DEF TakeSwitch, fileVars, clockVars
  <2>2. CASE /\ tradingDay' = today /\ currm' = 0 /\ UNCHANGED loop
             /\ \E f \in PutCount([disk[today] EXCEPT !.exists = TRUE], 0) :
                  disk' = [disk EXCEPT ![today] = f]
    <3> DEFINE file == [disk[today] EXCEPT !.exists = TRUE]
    <3>1. /\ DOMAIN file = {"exists", "rec", "count"}
          /\ file.count = disk[today].count /\ file.rec = disk[today].rec
      BY <1>0 DEF FilesOK
    <3>2. /\ file.count \in Nat \cup {NoCount} /\ Covered(file, file.count)
          /\ Covered(file, 0)
      BY <1>0, <3>1 DEF FilesOK, Covered
    <3>3. PICK f \in PutCount(file, 0) : disk' = [disk EXCEPT ![today] = f]
      BY <2>2
    <3> HIDE DEF file
    <3>4. /\ DOMAIN f = {"exists", "rec", "count"}
          /\ f.count \in Nat \cup {NoCount} /\ Covered(f, f.count)
      BY <3>1, <3>2, <3>3, PutCountProperties
    <3>5. FilesOK' /\ disk'[today] = f
      BY <1>0, <3>3, <3>4, OneFile
    <3>6. loop' = "ready" /\ today' = today
      BY <1>5, <2>2 DEF TakeSwitch, clockVars
    <3>7. Covered(f, 0)
      BY DEF Covered
    <3> QED BY <1>0, <2>2, <3>5, <3>6, <3>7 DEF DiskInv, FilesOK
  <2>3. CASE loop' = "returned" /\ UNCHANGED disk
    BY <1>5, <2>3 DEF TakeSwitch, clockVars, DiskInv
  <2> QED BY <1>5, <2>1, <2>2, <2>3 DEF TakeSwitch
<1>6. CASE Publish \/ MinuteOver \/ TimerFires \/ Interrupt \/ TakeSignal \/ TakeExit \/ Crash
  BY <1>0, <1>a, <1>6
     DEF Publish, MinuteOver, TimerFires, Interrupt, TakeSignal, TakeExit, Crash,
         StorageGone, clockVars, fileVars, procVars
<1>7. CASE ReplayStep
  BY <1>0, <1>a, <1>7 DEF ReplayStep, clockVars, procVars
<1>8. CASE UNCHANGED vars
  BY <1>0, <1>a, <1>8 DEF vars, stgVars, clockVars, fileVars, procVars
<1> QED BY <1>1, <1>2, <1>3, <1>4, <1>5, <1>6, <1>7, <1>8
        DEF Next, StorageStep, StorageNext

(* Whatever storage fails to write and wherever it crashes, every record a   *)
(* count covers is there: no replay meets a missing one (stg.go              *)
(* handleStgMsg writes the record before the count).                        *)
THEOREM NothingMissing == Spec => []NoHoles
<1>1. DiskInv => NoHoles
  BY DEF DiskInv, Covered, NoHoles
<1> QED BY <1>1, DiskInit, DiskNext, PTL DEF Spec

-----------------------------------------------------------------------------
(* What storage records is in the order in which it arrived, for every      *)
(* number of days, messages and starts and whatever fails or crashes; and   *)
(* while every count is written, at most one record is not counted.         *)

-----------------------------------------------------------------------------
(* How many records of a day are to stay: those of the loop that is running, *)
(* else those that are counted.  A record behind them will be overwritten   *)
(* before it is ever counted.                                              *)
Top(d) ==
  IF d = tradingDay /\ loop # "returned"
  THEN IF loop = "counting" THEN currm + 1 ELSE currm
  ELSE disk[d].count

Valid(d) == 0 .. Top(d) - 1

Before(d, i, e, j) == d < e \/ (d = e /\ i < j)

QueueInOrder ==
  /\ published \in Nat
  /\ inq \in Seq(1..published)
  /\ \A i, j \in 1..Len(inq) : i < j => inq[i] < inq[j]

RecordsInOrder ==
  /\ \A d \in 1..Days : \A i \in Valid(d) : disk[d].rec[i] \in 1..published
  /\ \A d, e \in 1..Days : \A i \in Valid(d), j \in Valid(e) :
       Before(d, i, e, j) => disk[d].rec[i] < disk[e].rec[j]
  /\ \A d \in 1..Days : \A i \in Valid(d) : \A k \in 1..Len(inq) :
       disk[d].rec[i] < inq[k]

(* A file is not begun before its day, and the loop is not behind its count. *)
FilesInTime ==
  /\ \A d \in 1..Days : d > tradingDay => disk[d] = NoFile
  /\ loop # "returned" => disk[tradingDay].count <= currm
  /\ main = "down" => loop = "returned"
  /\ loop \in {"ready", "counting", "returned"}

OrderInv == QueueInOrder /\ RecordsInOrder /\ FilesInTime

-----------------------------------------------------------------------------
LEMMA SeqWiden ==
  ASSUME NEW S, NEW T, S \subseteq T, NEW q \in Seq(S)
  PROVE  q \in Seq(T) /\ Len(q) \in Nat
OBVIOUS

LEMMA SeqTail ==
  ASSUME NEW S, NEW q \in Seq(S), q # <<>>
  PROVE  /\ Len(q) \in Nat /\ 1 \in 1..Len(q) /\ Head(q) = q[1] /\ q[1] \in S
         /\ \A k \in 1..Len(Tail(q)) : k + 1 \in 1..Len(q) /\ 1 < k + 1 /\ Tail(q)[k] = q[k + 1]
OBVIOUS

(* The queue of a step: as it was, emptied, or without its head. *)
QueueShrinks == inq' \in {inq, <<>>} \/ (inq # <<>> /\ inq' = Tail(inq))

LEMMA QueueKept ==
  ASSUME QueueInOrder, QueueShrinks, published' = published
  PROVE  /\ QueueInOrder'
         /\ \A k \in 1..Len(inq') : \E m \in 1..Len(inq) : inq'[k] = inq[m]
<1>1. CASE inq' = inq
  BY <1>1 DEF QueueInOrder
<1>2. CASE inq' = <<>>
  BY <1>2 DEF QueueInOrder
<1>3. CASE inq # <<>> /\ inq' = Tail(inq)
  <2>1. /\ inq' \in Seq(1..published) /\ Len(inq') = Len(inq) - 1 /\ Len(inq) \in Nat
        /\ \A k \in 1..Len(inq') : inq'[k] = inq[k + 1] /\ k + 1 \in 1..Len(inq)
    BY <1>3 DEF QueueInOrder
  <2>2. \A i, j \in 1..Len(inq') : i < j => inq'[i] < inq'[j]
    <3> TAKE i, j \in 1..Len(inq')
    <3>1. i < j => i + 1 < j + 1
      OBVIOUS
    <3>2. QED
      BY <2>1, <3>1 DEF QueueInOrder
  <2>3. QED
    BY <2>1, <2>2 DEF QueueInOrder
<1>4. QED
  BY <1>1, <1>2, <1>3 DEF QueueShrinks

(* A step after which no more records are to stay than before, with what    *)
(* they held, keeps everything in order.                                   *)
LEMMA OrderKept ==
  ASSUME QueueInOrder, RecordsInOrder, QueueShrinks, published' = published,
         \A d \in 1..Days : \A i \in Valid(d)' :
           i \in Valid(d) /\ disk'[d].rec[i] = disk[d].rec[i]
  PROVE  QueueInOrder' /\ RecordsInOrder'
<1>1. /\ QueueInOrder'
      /\ \A k \in 1..Len(inq') : \E m \in 1..Len(inq) : inq'[k] = inq[m]
  BY QueueKept
<1>2. \A d \in 1..Days : \A i \in Valid(d)' : disk'[d].rec[i] \in 1..published'
  BY DEF RecordsInOrder
<1>3. \A d, e \in 1..Days : \A i \in Valid(d)', j \in Valid(e)' :
        Before(d, i, e, j) => disk'[d].rec[i] < disk'[e].rec[j]
  BY DEF RecordsInOrder
<1>4. ASSUME NEW d \in 1..Days, NEW i \in Valid(d)', NEW k \in 1..Len(inq')
      PROVE  disk'[d].rec[i] < inq'[k]
  <2>1. PICK m \in 1..Len(inq) : inq'[k] = inq[m]
    BY <1>1
  <2>2. QED
    BY <2>1 DEF RecordsInOrder
<1>5. QED
  BY <1>1, <1>2, <1>3, <1>4 DEF RecordsInOrder, Before

(* A step that leaves the files and the loop alone. *)
LEMMA LoopAlone ==
  ASSUME OrderInv, QueueShrinks, UNCHANGED <<published, disk, tradingDay, currm>>,
         loop' = loop, main' = "down" => loop = "returned"
  PROVE  OrderInv'
<1>1. \A d \in 1..Days : Valid(d)' = Valid(d)
  BY DEF Valid, Top
<1>2. QueueInOrder' /\ RecordsInOrder'
  BY <1>1, OrderKept DEF OrderInv
<1>3. FilesInTime'
  BY DEF OrderInv, FilesInTime
<1>4. QED
  BY <1>2, <1>3 DEF OrderInv

(* The loop ends: what it did not get counted is given up. *)
LEMMA LoopEnds ==
  ASSUME OrderInv, DiskInv, QueueShrinks, UNCHANGED <<published, disk>>,
         loop' = "returned", tradingDay' \in Nat, tradingDay \in Nat,
         tradingDay <= tradingDay'
  PROVE  OrderInv'
<1>1. \A d \in 1..Days : Valid(d)' \subseteq Valid(d)
  <2> TAKE d \in 1..Days
  <2>1. Top(d)' = disk[d].count /\ disk[d].count \in Int
    BY DEF Top, DiskInv, NoCount
  <2>2. Top(d) \in Int /\ disk[d].count <= Top(d)
    <3>1. CASE d = tradingDay /\ loop # "returned"
      BY <2>1, <3>1 DEF OrderInv, FilesInTime, Top, DiskInv
    <3>2. CASE ~(d = tradingDay /\ loop # "returned")
      BY <2>1, <3>2 DEF Top
    <3>3. QED
      BY <3>1, <3>2
  <2>3. QED
    BY <2>1, <2>2 DEF Valid
<1>2. QueueInOrder' /\ RecordsInOrder'
  BY <1>1, OrderKept DEF OrderInv
<1>3. \A d \in 1..Days : d > tradingDay' => d > tradingDay
  OBVIOUS
<1>4. FilesInTime'
  BY <1>3 DEF OrderInv, FilesInTime
<1>5. QED
  BY <1>2, <1>4 DEF OrderInv

-----------------------------------------------------------------------------
LEMMA OrderInit == Init => OrderInv
<1> SUFFICES ASSUME Init PROVE OrderInv
  OBVIOUS
<1>1. /\ published = 0 /\ inq = <<>> /\ loop = "returned" /\ tradingDay = 0
      /\ disk = [d \in 1..Days |-> NoFile] /\ main = "down"
  BY DEF Init, StorageInit
<1>2. \A d \in 1..Days : Valid(d) = {}
  BY <1>1 DEF Valid, Top, NoFile, NoCount
<1>3. QED
  BY <1>1, <1>2 DEF OrderInv, QueueInOrder, RecordsInOrder, FilesInTime

(* A message published now is later than all that was published before. *)
LEMMA OrderPublish == OrderInv /\ Publish => OrderInv'
<1> SUFFICES ASSUME OrderInv, Publish PROVE OrderInv'
  OBVIOUS
<1>1. /\ published' = published + 1 /\ published \in Nat
      /\ inq' = (IF main = "down" THEN inq ELSE Append(inq, published + 1))
      /\ UNCHANGED <<disk, loop, tradingDay, currm, main>>
  BY DEF Publish, OrderInv, QueueInOrder, fileVars
<1>2. \A d \in 1..Days : Valid(d)' = Valid(d)
  BY <1>1 DEF Valid, Top
<1>3. FilesInTime'
  BY <1>1 DEF OrderInv, FilesInTime
<1>4. \A d \in 1..Days : \A i \in Valid(d)' : disk'[d].rec[i] \in 1..published'
  <2>1. 1..published \subseteq 1..published'
    BY <1>1
  <2>2. QED
    BY <1>1, <1>2, <2>1 DEF OrderInv, RecordsInOrder
<1>5. \A d, e \in 1..Days : \A i \in Valid(d)', j \in Valid(e)' :
        Before(d, i, e, j) => disk'[d].rec[i] < disk'[e].rec[j]
  BY <1>1, <1>2 DEF OrderInv, RecordsInOrder
<1>6. inq \in Seq(1..published) /\ inq \in Seq(1..published') /\ Len(inq) \in Nat
  <2>1. inq \in Seq(1..published)
    BY DEF OrderInv, QueueInOrder
  <2>2. 1..published \subseteq 1..published'
    BY <1>1
  <2>3. QED
    BY <2>1, <2>2, SeqWiden
<1>7. CASE main = "down"
  BY <1>1, <1>2, <1>3, <1>4, <1>5, <1>6, <1>7 DEF OrderInv, QueueInOrder, RecordsInOrder, Before
<1>8. CASE main # "down"
  <2>1. /\ inq' = Append(inq, published') /\ Len(inq') = Len(inq) + 1
        /\ inq' \in Seq(1..published') /\ inq'[Len(inq) + 1] = published'
        /\ \A k \in 1..Len(inq) : inq'[k] = inq[k] /\ inq[k] \in 1..published
    BY <1>1, <1>6, <1>8
  <2>2. \A k \in 1..Len(inq') : k \in 1..Len(inq) \/ k = Len(inq) + 1
    BY <1>6, <2>1
  <2>3. \A i, j \in 1..Len(inq') : i < j => inq'[i] < inq'[j]
    <3> TAKE i, j \in 1..Len(inq')
    <3>1. i < j => i \in 1..Len(inq)
      BY <1>6, <2>1
    <3>2. CASE j \in 1..Len(inq)
      BY <2>1, <3>1, <3>2 DEF OrderInv, QueueInOrder
    <3>3. CASE j = Len(inq) + 1
      BY <1>1, <2>1, <3>1, <3>3
    <3>4. QED
      BY <2>2, <3>2, <3>3
  <2>4. ASSUME NEW d \in 1..Days, NEW i \in Valid(d)', NEW k \in 1..Len(inq')
        PROVE  disk'[d].rec[i] < inq'[k]
    <3>1. disk'[d].rec[i] = disk[d].rec[i] /\ i \in Valid(d) /\ disk[d].rec[i] \in 1..published
      BY <1>1, <1>2 DEF OrderInv, RecordsInOrder
    <3>2. CASE k \in 1..Len(inq)
      BY <2>1, <3>1, <3>2 DEF OrderInv, RecordsInOrder
    <3>3. CASE k = Len(inq) + 1
      BY <1>1, <2>1, <3>1, <3>3
    <3>4. QED
      BY <2>2, <3>2, <3>3
  <2>5. QED
    BY <1>1, <1>3, <1>4, <1>5, <2>1, <2>3, <2>4
       DEF OrderInv, QueueInOrder, RecordsInOrder, Before
<1>9. QED
  BY <1>7, <1>8

(* The loop begins with the file of the day and continues at its count. *)
LEMMA OrderStart == OrderInv /\ DiskInv /\ ClockInv /\ StartStorage => OrderInv'
<1> SUFFICES ASSUME OrderInv, DiskInv, ClockInv, StartStorage PROVE OrderInv'
  OBVIOUS
<1>1. /\ main = "down" /\ loop = "returned" /\ loop' = "ready" /\ main' = "waiting"
      /\ tradingDay' = today /\ today \in 1..Days /\ today \in Int
      /\ UNCHANGED <<published, inq>>
  BY DEF StartStorage, OrderInv, FilesInTime, DiskInv, ClockInv
<1> DEFINE file == [disk[today] EXCEPT !.exists = TRUE]
<1>2. /\ DOMAIN disk = 1..Days
      /\ DOMAIN disk[today] = {"exists", "rec", "count"}
      /\ disk[today].count \in Nat \cup {NoCount}
  BY <1>1 DEF DiskInv
<1>3. file.count = disk[today].count /\ file.rec = disk[today].rec
  BY <1>2
<1> HIDE DEF file
<1>4. PICK f : /\ disk' = [disk EXCEPT ![today] = f]
               /\ \/ file.count = NoCount /\ currm' = 0 /\ f \in PutCount(file, 0)
                  \/ file.count # NoCount /\ currm' = file.count /\ f = file
  BY DEF StartStorage, file
<1>5. /\ disk'[today] = f
      /\ \A d \in 1..Days : d # today => disk'[d] = disk[d]
  BY <1>1, <1>2, <1>4
<1>6. f.rec = disk[today].rec /\ f.count <= currm' /\ currm' \in Nat
      /\ (disk[today].count = currm' \/ (disk[today].count = NoCount /\ currm' = 0))
  <2>1. CASE file.count = NoCount /\ currm' = 0 /\ f \in PutCount(file, 0)
    <3>1. f = [file EXCEPT !.count = 0] \/ f = file
      BY <2>1 DEF PutCount
    <3>2. DOMAIN file = {"exists", "rec", "count"}
      BY <1>2 DEF file
    <3>3. f.rec = file.rec /\ f.count \in {0, NoCount}
      BY <2>1, <3>1, <3>2
    <3>4. QED
      BY <1>3, <2>1, <3>3 DEF NoCount
  <2>2. CASE file.count # NoCount /\ currm' = file.count /\ f = file
    BY <1>2, <1>3, <2>2
  <2>3. QED
    BY <1>4, <2>1, <2>2
<1>7. ASSUME NEW d \in 1..Days, NEW i \in Valid(d)'
      PROVE  i \in Valid(d) /\ disk'[d].rec[i] = disk[d].rec[i]
  <2>1. Top(d) = disk[d].count
    BY <1>1 DEF Top
  <2>2. CASE d = today
    <3>1. Top(d)' = currm'
      BY <1>1, <2>2 DEF Top
    <3>2. i \in 0 .. currm' - 1
      BY <3>1 DEF Valid
    <3>3. disk[today].count = currm'
      <4>1. currm' # 0
        BY <3>2
      <4>2. QED
        BY <1>6, <4>1
    <3>4. i \in Valid(d)
      BY <2>1, <2>2, <3>2, <3>3 DEF Valid
    <3>5. QED
      BY <1>5, <1>6, <2>2, <3>4
  <2>3. CASE d # today
    BY <1>1, <1>5, <2>1, <2>3 DEF Valid, Top
  <2>4. QED
    BY <2>2, <2>3
<1>8. QueueInOrder' /\ RecordsInOrder'
  BY <1>1, <1>7, OrderKept DEF OrderInv, QueueShrinks
<1>9. \A d \in 1..Days : d > today => disk'[d] = NoFile
  <2> TAKE d \in 1..Days
  <2>1. d > today => d > tradingDay /\ d # today
    BY <1>1 DEF ClockInv
  <2>2. QED
    BY <1>5, <2>1 DEF OrderInv, FilesInTime
<1>10. FilesInTime'
  BY <1>1, <1>5, <1>6, <1>9 DEF FilesInTime
<1>11. QED
  BY <1>8, <1>10 DEF OrderInv

(* The head of the queue is later than every record, and goes behind those   *)
(* of its day.                                                             *)
LEMMA OrderPut == OrderInv /\ DiskInv /\ PutRecord => OrderInv'
<1> SUFFICES ASSUME OrderInv, DiskInv, PutRecord PROVE OrderInv'
  OBVIOUS
<1>1. /\ loop = "ready" /\ inq # <<>> /\ inq' = Tail(inq)
      /\ UNCHANGED <<published, main, tradingDay, currm>>
  BY DEF PutRecord
<1>2. QueueShrinks
  BY <1>1 DEF QueueShrinks
<1>3. CASE UNCHANGED <<disk, loop>>
  BY <1>1, <1>2, <1>3, LoopAlone DEF OrderInv, FilesInTime
<1>4. CASE /\ disk' = [disk EXCEPT ![tradingDay] = Put(@, currm, Head(inq))]
           /\ loop' = "counting"
  <2> DEFINE file == disk[tradingDay]
             f == Put(file, currm, Head(inq))
  <2>1. /\ tradingDay \in 1..Days /\ currm \in Nat /\ DOMAIN disk = 1..Days
        /\ DOMAIN file = {"exists", "rec", "count"} /\ file.count \in Nat \cup {NoCount}
        /\ Covered(file, currm) /\ file.count <= currm
    BY <1>1 DEF DiskInv, OrderInv, FilesInTime
  <2>2. f.count = file.count /\ f.rec[currm] = Head(inq)
        /\ \A i \in DOMAIN file.rec : i # currm => f.rec[i] = file.rec[i]
    BY <2>1 DEF Put
  <2>3. /\ disk'[tradingDay] = f
        /\ \A d \in 1..Days : d # tradingDay => disk'[d] = disk[d]
    BY <1>4, <2>1
  <2> HIDE DEF f, file
  <2>4. /\ QueueInOrder'
        /\ inq \in Seq(1..published) /\ Len(inq) \in Nat /\ 1 \in 1..Len(inq)
        /\ Head(inq) = inq[1] /\ inq[1] \in 1..published
        /\ \A k \in 1..Len(inq') : k + 1 \in 1..Len(inq) /\ 1 < k + 1 /\ inq'[k] = inq[k + 1]
    <3>1. QueueInOrder'
      BY <1>1, <1>2, QueueKept DEF OrderInv
    <3>2. inq \in Seq(1..published)
      BY DEF OrderInv, QueueInOrder
    <3>3. QED
      BY <1>1, <3>1, <3>2, SeqTail
  <2>5. \A d \in 1..Days :
          /\ d = tradingDay => Top(d) = currm /\ Top(d)' = currm + 1
          /\ d # tradingDay => Top(d)' = Top(d)
    BY <1>1, <1>4, <2>3 DEF Top
  <2>6. ASSUME NEW d \in 1..Days, NEW i \in Valid(d)'
        PROVE  \/ d = tradingDay /\ i = currm /\ disk'[d].rec[i] = inq[1]
               \/ i \in Valid(d) /\ disk'[d].rec[i] = disk[d].rec[i]
    <3>1. CASE d # tradingDay
      BY <2>3, <2>5, <3>1 DEF Valid
    <3>2. CASE d = tradingDay
      <4>1. i \in 0 .. (currm + 1) - 1
        BY <2>5, <3>2 DEF Valid
      <4>2. i = currm \/ i \in 0 .. currm - 1
        BY <2>1, <4>1
      <4>3. CASE i = currm
        BY <2>2, <2>3, <2>4, <3>2, <4>3
      <4>4. CASE i \in 0 .. currm - 1
        <5>1. i \in DOMAIN file.rec /\ i # currm
          BY <2>1, <4>4 DEF Covered
        <5>2. QED
          BY <2>2, <2>3, <2>5, <3>2, <4>4, <5>1 DEF Valid, file
      <4>5. QED
        BY <4>2, <4>3, <4>4
    <3>3. QED
      BY <3>1, <3>2
  <2>7. \A d \in 1..Days : \A i \in Valid(d)' : disk'[d].rec[i] \in 1..published'
    BY <1>1, <2>4, <2>6 DEF OrderInv, RecordsInOrder
  <2>8. ASSUME NEW d \in 1..Days, NEW i \in Valid(d)', NEW k \in 1..Len(inq')
        PROVE  disk'[d].rec[i] < inq'[k]
    <3>1. k + 1 \in 1..Len(inq) /\ 1 < k + 1 /\ inq'[k] = inq[k + 1]
      BY <2>4
    <3>2. inq[1] < inq[k + 1]
      BY <2>4, <3>1 DEF OrderInv, QueueInOrder
    <3>3. i \in Valid(d) => disk[d].rec[i] < inq[k + 1]
      BY <3>1 DEF OrderInv, RecordsInOrder
    <3>4. QED
      BY <2>6, <3>1, <3>2, <3>3
  <2>9. \A e \in 1..Days : e > tradingDay => Valid(e)' = {}
    <3> TAKE e \in 1..Days
    <3>1. ASSUME e > tradingDay PROVE Top(e)' = -1
      <4>1. e # tradingDay /\ disk[e] = NoFile
        BY <2>1, <3>1 DEF OrderInv, FilesInTime
      <4>2. QED
        BY <1>1, <2>3, <4>1 DEF Top, NoFile, NoCount
    <3>2. QED
      BY <3>1 DEF Valid
  <2>10. ASSUME NEW d \in 1..Days, NEW e \in 1..Days, NEW i \in Valid(d)', NEW j \in Valid(e)',
                Before(d, i, e, j)
         PROVE  disk'[d].rec[i] < disk'[e].rec[j]
    <3>1. CASE d = tradingDay /\ i = currm
      <4>1. ~(e > tradingDay)
        BY <2>9, <2>10
      <4>2. e = tradingDay /\ i < j
        BY <2>1, <2>10, <3>1, <4>1 DEF Before
      <4>3. j \in 0 .. (currm + 1) - 1
        BY <2>5, <4>2 DEF Valid
      <4>4. QED
        BY <2>1, <3>1, <4>2, <4>3
    <3>2. CASE i \in Valid(d) /\ disk'[d].rec[i] = disk[d].rec[i]
      <4>1. CASE e = tradingDay /\ j = currm /\ disk'[e].rec[j] = inq[1]
        BY <2>4, <3>2, <4>1 DEF OrderInv, RecordsInOrder
      <4>2. CASE j \in Valid(e) /\ disk'[e].rec[j] = disk[e].rec[j]
        BY <2>10, <3>2, <4>2 DEF OrderInv, RecordsInOrder
      <4>3. QED
        BY <2>6, <4>1, <4>2
    <3>3. QED
      BY <2>6, <3>1, <3>2
  <2>11. RecordsInOrder'
    BY <2>7, <2>8, <2>10 DEF RecordsInOrder, Before
  <2>12. FilesInTime'
    <3>1. \A d \in 1..Days : d > tradingDay => d # tradingDay /\ disk'[d] = NoFile
      BY <2>1, <2>3 DEF OrderInv, FilesInTime
    <3>2. disk'[tradingDay].count <= currm
      BY <2>1, <2>2, <2>3
    <3>3. main # "down"
      BY <1>1 DEF OrderInv, FilesInTime
    <3>4. QED
      BY <1>1, <1>4, <3>1, <3>2, <3>3 DEF FilesInTime
  <2>13. QED
    BY <2>4, <2>11, <2>12 DEF OrderInv
<1>5. QED
  BY <1>3, <1>4 DEF PutRecord

(* Counting a record, or failing to, changes no record. *)
LEMMA OrderCount == OrderInv /\ DiskInv /\ CountRecord => OrderInv'
<1> SUFFICES ASSUME OrderInv, DiskInv, CountRecord PROVE OrderInv'
  OBVIOUS
<1>1. /\ loop = "counting" /\ loop' = "ready" /\ currm' = currm + 1
      /\ UNCHANGED <<published, inq, main, tradingDay>>
  BY DEF CountRecord
<1> DEFINE file == disk[tradingDay]
<1>2. /\ tradingDay \in 1..Days /\ currm \in Nat /\ DOMAIN disk = 1..Days
      /\ DOMAIN file = {"exists", "rec", "count"} /\ file.count \in Nat \cup {NoCount}
      /\ file.count <= currm
  BY <1>1 DEF DiskInv, OrderInv, FilesInTime
<1>3. PICK f \in PutCount(file, currm') : disk' = [disk EXCEPT ![tradingDay] = f]
  BY DEF CountRecord
<1>4. f = [file EXCEPT !.count = currm'] \/ f = file
  BY DEF PutCount
<1>5. f.rec = file.rec /\ (f.count = currm' \/ f.count = file.count)
  BY <1>2, <1>4
<1>6. f.count <= currm'
  BY <1>1, <1>2, <1>5 DEF NoCount
<1>7. /\ disk'[tradingDay] = f
      /\ \A d \in 1..Days : d # tradingDay => disk'[d] = disk[d]
  BY <1>2, <1>3
<1> HIDE DEF file
<1>8. ASSUME NEW d \in 1..Days, NEW i \in Valid(d)'
      PROVE  i \in Valid(d) /\ disk'[d].rec[i] = disk[d].rec[i]
  <2>1. Top(d)' = Top(d)
    BY <1>1, <1>7 DEF Top
  <2>2. i \in Valid(d)
    BY <2>1 DEF Valid
  <2>3. disk'[d].rec = disk[d].rec
    BY <1>5, <1>7 DEF file
  <2>4. QED
    BY <2>2, <2>3
<1>9. QueueInOrder' /\ RecordsInOrder'
  BY <1>1, <1>8, OrderKept DEF OrderInv, QueueShrinks
<1>10. \A d \in 1..Days : d > tradingDay => d # tradingDay /\ disk'[d] = NoFile
  BY <1>2, <1>7 DEF OrderInv, FilesInTime
<1>11. main # "down"
  BY <1>1 DEF OrderInv, FilesInTime
<1>12. FilesInTime'
  BY <1>1, <1>6, <1>7, <1>10, <1>11 DEF FilesInTime
<1>13. QED
  BY <1>9, <1>12 DEF OrderInv

(* The file of a new day is empty, and what was not counted in the old one   *)
(* stays so.                                                               *)
LEMMA OrderSwitch == OrderInv /\ DiskInv /\ ClockInv /\ TakeSwitch => OrderInv'
<1> SUFFICES ASSUME OrderInv, DiskInv, ClockInv, TakeSwitch PROVE OrderInv'
  OBVIOUS
<1>1. /\ main' = "waiting" /\ loop = "ready"
      /\ UNCHANGED <<published, inq, today>>
      /\ today \in 1..Days /\ today \in Nat /\ tradingDay \in Nat /\ tradingDay <= today
      /\ tradingDay \in 1..Days
  BY DEF TakeSwitch, clockVars, ClockInv, DiskInv
<1>2. QueueShrinks
  BY <1>1 DEF QueueShrinks
<1>3. CASE UNCHANGED <<fileVars, loop, tradingDay, currm>>
  BY <1>1, <1>2, <1>3, LoopAlone DEF fileVars
<1>4. CASE today > tradingDay /\ loop' = "returned" /\ tradingDay' = today /\ UNCHANGED <<disk, currm>>
  BY <1>1, <1>2, <1>4, LoopEnds
<1>5. CASE /\ today > tradingDay /\ tradingDay' = today /\ currm' = 0 /\ UNCHANGED loop
           /\ \E f \in PutCount([disk[today] EXCEPT !.exists = TRUE], 0) :
                disk' = [disk EXCEPT ![today] = f]
  <2>1. PICK f \in PutCount([disk[today] EXCEPT !.exists = TRUE], 0) :
          disk' = [disk EXCEPT ![today] = f]
    BY <1>5
  <2>2. disk[today] = NoFile /\ DOMAIN disk = 1..Days
    BY <1>1, <1>5 DEF OrderInv, FilesInTime, DiskInv
  <2>3. f.count <= 0
    <3> DEFINE file == [disk[today] EXCEPT !.exists = TRUE]
    <3>1. DOMAIN file = {"exists", "rec", "count"} /\ file.count = NoCount
      BY <2>2 DEF NoFile
    <3> HIDE DEF file
    <3>2. f = [file EXCEPT !.count = 0] \/ f = file
      BY <2>1 DEF PutCount, file
    <3>3. f.count = 0 \/ f.count = NoCount
      BY <3>1, <3>2
    <3>4. QED
      BY <3>3 DEF NoCount
  <2>4. /\ disk'[today] = f
        /\ \A d \in 1..Days : d # today => disk'[d] = disk[d]
    BY <1>1, <2>1, <2>2
  <2>5. ASSUME NEW d \in 1..Days, NEW i \in Valid(d)'
        PROVE  i \in Valid(d) /\ disk'[d].rec[i] = disk[d].rec[i]
    <3>1. d # today
      <4>1. ASSUME d = today PROVE FALSE
        <5>1. Top(d)' = 0
          BY <1>1, <1>5, <4>1 DEF Top
        <5>2. i \in 0 .. 0 - 1
          BY <2>5, <5>1 DEF Valid
        <5>3. QED
          BY <5>2
      <4>2. QED
        BY <4>1
    <3>2. Top(d)' = disk[d].count /\ disk[d].count \in Int
      BY <1>5, <2>4, <3>1 DEF Top, DiskInv, NoCount
    <3>3. Top(d) \in Int /\ disk[d].count <= Top(d)
      <4>1. CASE d = tradingDay
        BY <1>1, <3>2, <4>1 DEF OrderInv, FilesInTime, Top, DiskInv
      <4>2. CASE d # tradingDay
        BY <3>2, <4>2 DEF Top
      <4>3. QED
        BY <4>1, <4>2
    <3>4. QED
      BY <2>4, <3>1, <3>2, <3>3 DEF Valid
  <2>6. QueueInOrder' /\ RecordsInOrder'
    BY <1>1, <1>2, <2>5, OrderKept DEF OrderInv
  <2>7. \A d \in 1..Days : d > today => d > tradingDay /\ d # today
    BY <1>1
  <2>8. \A d \in 1..Days : d > today => disk'[d] = NoFile
    BY <2>4, <2>7 DEF OrderInv, FilesInTime
  <2>9. FilesInTime'
    BY <1>1, <1>5, <2>3, <2>4, <2>8 DEF FilesInTime
  <2>10. QED
    BY <2>6, <2>9 DEF OrderInv
<1>6. QED
  BY <1>3, <1>4, <1>5 DEF TakeSwitch

LEMMA OrderNext == OrderInv /\ DiskInv /\ ClockInv /\ [Next]_vars => OrderInv'
<1> SUFFICES ASSUME OrderInv, DiskInv, ClockInv, [Next]_vars PROVE OrderInv'
  OBVIOUS
<1>0. /\ main = "down" => loop = "returned"
      /\ tradingDay \in Nat /\ tradingDay <= tradingDay
  BY DEF OrderInv, FilesInTime, ClockInv
<1>1. CASE NewDay \/ MinuteOver \/ TimerFires \/ Interrupt \/ TakeSignal
  <2>1. /\ UNCHANGED <<published, disk, tradingDay, currm, inq, loop>>
        /\ main' = "down" => main = "down"
    BY <1>1 DEF NewDay, MinuteOver, TimerFires, Interrupt, TakeSignal,
                clockVars, fileVars, procVars
  <2>2. QED
    BY <1>0, <2>1, LoopAlone DEF QueueShrinks
<1>2. CASE TakeExit \/ Crash
  <2>1. /\ UNCHANGED <<published, disk, tradingDay, currm>>
        /\ loop' = "returned" /\ inq' = <<>>
    BY <1>2 DEF TakeExit, Crash, StorageGone
  <2>2. QED
    BY <1>0, <2>1, LoopEnds DEF QueueShrinks
<1>3. CASE ReplayStep
  <2>1. UNCHANGED <<published, disk, tradingDay, currm, inq, loop, main>>
    BY <1>3 DEF ReplayStep, clockVars, procVars
  <2>2. QED
    BY <1>0, <2>1, LoopAlone DEF QueueShrinks
<1>4. CASE UNCHANGED vars
  <2>1. UNCHANGED <<published, disk, tradingDay, currm, inq, loop, main>>
    BY <1>4 DEF vars, stgVars, clockVars, fileVars, procVars
  <2>2. QED
    BY <1>0, <2>1, LoopAlone DEF QueueShrinks
<1>5. QED
  BY <1>1, <1>2, <1>3, <1>4, OrderPublish, OrderStart, OrderPut, OrderCount, OrderSwitch
     DEF Next, StorageStep, StorageNext

LEMMA OrderAlways == Spec => [](OrderInv /\ DiskInv)
<1>1. Init => OrderInv /\ DiskInv /\ ClockInv
  BY OrderInit, DiskInit, ClockInit
<1>2. OrderInv /\ DiskInv /\ ClockInv /\ [Next]_vars => (OrderInv /\ DiskInv /\ ClockInv)'
  BY OrderNext, DiskNext, ClockNext
<1>3. QED
  BY <1>1, <1>2, PTL DEF Spec

(* What the counts cover was recorded in the order of its arrival, each      *)
(* message once, whatever write fails or process crashes (stg.go            *)
(* handleStgMsg, StartStorage, switchTradingDay).                           *)
THEOREM InOrder == Spec => []RecordedInOrder
<1>1. ASSUME OrderInv, DiskInv PROVE RecordedInOrder
  <2>1. ASSUME NEW d \in 1..Days, NEW i \in DOMAIN Records(d)
        PROVE  i \in Int /\ i - 1 \in Valid(d) /\ Records(d)[i] = disk[d].rec[i - 1]
    <3>1. disk[d].count \in Int /\ i \in 1..disk[d].count /\ i \in Int
      BY <1>1, <2>1 DEF Records, DiskInv, NoCount
    <3>2. i - 1 \in 0..disk[d].count - 1
      BY <3>1
    <3>3. i - 1 \in DOMAIN disk[d].rec
      BY <1>1, <3>2 DEF DiskInv, Covered
    <3>4. Top(d) \in Int /\ disk[d].count <= Top(d)
      <4>1. CASE d = tradingDay /\ loop # "returned"
        BY <1>1, <3>1, <4>1 DEF OrderInv, FilesInTime, Top, DiskInv
      <4>2. CASE ~(d = tradingDay /\ loop # "returned")
        BY <3>1, <4>2 DEF Top
      <4>3. QED
        BY <4>1, <4>2
    <3>5. i - 1 \in Valid(d)
      BY <3>1, <3>2, <3>4 DEF Valid
    <3>6. QED
      BY <3>1, <3>3, <3>5 DEF Records
  <2>2. \A d \in 1..Days : \A i, j \in DOMAIN Records(d) :
          i < j => Records(d)[i] < Records(d)[j]
    <3> TAKE d \in 1..Days
    <3> TAKE i, j \in DOMAIN Records(d)
    <3>1. i < j => i - 1 < j - 1
      BY <2>1
    <3>2. i < j => Before(d, i - 1, d, j - 1)
      BY <3>1 DEF Before
    <3>3. QED
      BY <1>1, <2>1, <3>2 DEF OrderInv, RecordsInOrder
  <2>3. \A d, e \in 1..Days : d < e =>
          \A i \in DOMAIN Records(d), j \in DOMAIN Records(e) : Records(d)[i] < Records(e)[j]
    BY <1>1, <2>1 DEF OrderInv, RecordsInOrder, Before
  <2> HIDE DEF Records
  <2>4. QED
    BY <2>2, <2>3 DEF RecordedInOrder
<1>2. QED
  BY <1>1, OrderAlways, PTL

-----------------------------------------------------------------------------
(* While every count is written, a file has its counted records and at most  *)
(* the one the loop is about to count.                                     *)
Counted(file) ==
  file.exists => file.count \in Nat /\ DOMAIN file.rec \subseteq 0..file.count

CountInv ==
  /\ \A d \in 1..Days : Counted(disk[d])
  /\ \A d \in 1..Days : ~disk[d].exists => DOMAIN disk[d].rec = {}
  /\ loop # "returned" =>
       /\ disk[tradingDay].exists
       /\ disk[tradingDay].count = currm
       /\ loop = "ready" => DOMAIN disk[tradingDay].rec \subseteq 0..currm

LEMMA CountInit == Init => CountInv
BY DEF Init, StorageInit, CountInv, Counted, NoFile

(* A step that changes one file. *)
LEMMA CountOne ==
  ASSUME CountInv, DiskInv, NEW d \in 1..Days, NEW f, disk' = [disk EXCEPT ![d] = f],
         f.exists, f.count \in Nat, DOMAIN f.rec \subseteq 0..f.count,
         tradingDay' = d, currm' = f.count
  PROVE  CountInv'
<1>1. /\ disk'[d] = f
      /\ \A e \in 1..Days : e # d => disk'[e] = disk[e]
  BY DEF DiskInv
<1>2. QED
  BY <1>1 DEF CountInv, Counted

LEMMA CountNext ==
  ASSUME "count" \notin Failures
  PROVE  CountInv /\ DiskInv /\ OrderInv /\ [Next]_vars => CountInv'
<1> SUFFICES ASSUME CountInv, DiskInv, OrderInv, [Next]_vars PROVE CountInv'
  OBVIOUS
<1>0. \A file, n : PutCount(file, n) = {[file EXCEPT !.count = n]}
  BY DEF PutCount
<1>a. ASSUME UNCHANGED <<disk, tradingDay, currm>>, loop' = loop \/ loop' = "returned"
      PROVE  CountInv'
  BY <1>a DEF CountInv
<1>b. ASSUME UNCHANGED disk, loop' = "returned"
      PROVE  CountInv'
  BY <1>b DEF CountInv
<1>c. ASSUME NEW d \in 1..Days
      PROVE  /\ DOMAIN disk[d] = {"exists", "rec", "count"}
             /\ disk[d].count \in Nat \cup {NoCount} /\ NoCount \notin Nat
             /\ Counted(disk[d]) /\ (~disk[d].exists => DOMAIN disk[d].rec = {})
             /\ Covered(disk[d], disk[d].count)
  BY DEF DiskInv, CountInv, NoCount
<1>1. CASE StartStorage
  <2> DEFINE file == [disk[today] EXCEPT !.exists = TRUE]
             new == [file EXCEPT !.count = 0]
  <2>1. today \in 1..Days /\ tradingDay' = today
    BY <1>1 DEF DiskInv, StartStorage
  <2>2. /\ DOMAIN file = {"exists", "rec", "count"} /\ file.exists
        /\ file.count = disk[today].count /\ file.rec = disk[today].rec
    BY <1>c, <2>1
  <2>3. \/ file.count = NoCount /\ currm' = 0 /\ disk' = [disk EXCEPT ![today] = new]
        \/ file.count # NoCount /\ currm' = file.count /\ disk' = [disk EXCEPT ![today] = file]
    BY <1>0, <1>1 DEF StartStorage
  <2>4. CASE file.count = NoCount /\ currm' = 0 /\ disk' = [disk EXCEPT ![today] = new]
    <3>1. DOMAIN disk[today].rec = {}
      BY <1>c, <2>1, <2>2, <2>4 DEF Counted
    <3>2. new.exists /\ new.count = 0 /\ DOMAIN new.rec = {}
      BY <2>2, <3>1
    <3> HIDE DEF new
    <3>3. new.count \in Nat /\ DOMAIN new.rec \subseteq 0..new.count /\ currm' = new.count
      BY <2>4, <3>2
    <3>4. QED
      BY <2>1, <2>4, <3>2, <3>3, CountOne
  <2>5. CASE file.count # NoCount /\ currm' = file.count /\ disk' = [disk EXCEPT ![today] = file]
    <3>1. file.count \in Nat /\ DOMAIN file.rec \subseteq 0..file.count
      BY <1>c, <2>1, <2>2, <2>5 DEF Counted
    <3> HIDE DEF file
    <3>2. QED
      BY <2>1, <2>2, <2>5, <3>1, CountOne
  <2>6. QED
    BY <2>3, <2>4, <2>5
<1>2. CASE PutRecord
  <2>1. CASE UNCHANGED <<disk, loop>>
    BY <1>2, <1>a, <2>1 DEF PutRecord
  <2>2. CASE /\ disk' = [disk EXCEPT ![tradingDay] = Put(@, currm, Head(inq))]
             /\ loop' = "counting"
    <3> DEFINE file == disk[tradingDay]
               f == Put(file, currm, Head(inq))
    <3>1. /\ tradingDay \in 1..Days /\ currm \in Nat /\ file.exists /\ file.count = currm
          /\ DOMAIN file.rec \subseteq 0..currm
          /\ DOMAIN file = {"exists", "rec", "count"}
      BY <1>2 DEF DiskInv, CountInv, PutRecord
    <3>2. f.exists = file.exists /\ f.count = file.count
          /\ DOMAIN f.rec = DOMAIN file.rec \cup {currm}
      BY <3>1 DEF Put
    <3>3. disk' = [disk EXCEPT ![tradingDay] = f]
      BY <2>2
    <3>4. UNCHANGED <<tradingDay, currm>>
      BY <1>2 DEF PutRecord
    <3> HIDE DEF f, file
    <3>5. DOMAIN f.rec \subseteq 0..f.count
      BY <3>1, <3>2
    <3>6. QED
      BY <3>1, <3>2, <3>3, <3>4, <3>5, CountOne
  <2>3. QED
    BY <1>2, <2>1, <2>2 DEF PutRecord
<1>3. CASE CountRecord
  <2> DEFINE file == disk[tradingDay]
             f == [file EXCEPT !.count = currm']
  <2>1. /\ tradingDay \in 1..Days /\ currm \in Nat /\ file.exists /\ file.count = currm
        /\ DOMAIN file = {"exists", "rec", "count"} /\ DOMAIN file.rec \subseteq 0..file.count
    BY <1>3 DEF DiskInv, CountInv, CountRecord, Counted
  <2>2. disk' = [disk EXCEPT ![tradingDay] = f] /\ currm' = currm + 1 /\ tradingDay' = tradingDay
    BY <1>0, <1>3 DEF CountRecord
  <2>3. f.exists /\ f.count = currm + 1 /\ f.rec = file.rec
    BY <2>1, <2>2
  <2> HIDE DEF f, file
  <2>4. f.count \in Nat /\ DOMAIN f.rec \subseteq 0..f.count
    BY <2>1, <2>3
  <2>5. QED
    BY <2>1, <2>2, <2>3, <2>4, CountOne
<1>4. CASE TakeSwitch
  <2>1. CASE UNCHANGED <<fileVars, loop, tradingDay, currm>>
    BY <1>a, <2>1 DEF fileVars
  <2>2. CASE loop' = "returned" /\ UNCHANGED <<disk, currm>>
    BY <1>b, <2>2
  <2>3. CASE /\ today > tradingDay /\ tradingDay' = today /\ currm' = 0
             /\ \E f \in PutCount([disk[today] EXCEPT !.exists = TRUE], 0) :
                  disk' = [disk EXCEPT ![today] = f]
    <3> DEFINE f == [[disk[today] EXCEPT !.exists = TRUE] EXCEPT !.count = 0]
    <3>1. today \in 1..Days /\ disk[today] = NoFile
      BY <2>3 DEF DiskInv, OrderInv, FilesInTime
    <3>2. disk' = [disk EXCEPT ![today] = f]
      BY <1>0, <2>3
    <3>3. f.exists /\ f.count = 0 /\ DOMAIN f.rec = {}
      BY <3>1 DEF NoFile
    <3> HIDE DEF f
    <3>4. f.count \in Nat /\ DOMAIN f.rec \subseteq 0..f.count /\ currm' = f.count
      BY <2>3, <3>3
    <3>5. QED
      BY <2>3, <3>1, <3>2, <3>3, <3>4, CountOne
  <2>4. QED
    BY <1>4, <2>1, <2>2, <2>3 DEF TakeSwitch
<1>5. CASE Publish \/ NewDay \/ MinuteOver \/ TimerFires \/ Interrupt \/ TakeSignal \/ TakeExit \/ Crash
  BY <1>a, <1>5
     DEF Publish, NewDay, MinuteOver, TimerFires, Interrupt, TakeSignal, TakeExit, Crash,
         StorageGone, clockVars, fileVars, procVars
<1>6. CASE ReplayStep
  BY <1>a, <1>6 DEF ReplayStep, procVars
<1>7. CASE UNCHANGED vars
  BY <1>a, <1>7 DEF vars, stgVars, fileVars, procVars
<1>8. QED
  BY <1>1, <1>2, <1>3, <1>4, <1>5, <1>6, <1>7 DEF Next, StorageStep, StorageNext

(* While no count fails, a crash between the two writes of a record is all    *)
(* that can leave one uncounted, and never two (stg.go handleStgMsg).        *)
THEOREM OneAtMost ==
  ASSUME "count" \notin Failures
  PROVE  Spec => []OneUncounted
<1>1. CountInv => OneUncounted
  <2> SUFFICES ASSUME CountInv, NEW d \in 1..Days, disk[d].exists
               PROVE  Cardinality(DOMAIN disk[d].rec) <= disk[d].count + 1
    BY DEF OneUncounted
  <2> DEFINE n == disk[d].count
             used == DOMAIN disk[d].rec
  <2>1. n \in Nat /\ used \subseteq 0..n
    BY DEF CountInv, Counted
  <2> HIDE DEF n, used
  <2>2. IsFiniteSet(0..n) /\ Cardinality(0..n) = n + 1
    <3>1. 0 \in Int /\ n \in Int /\ ~(0 > n) /\ (n - 0) + 1 = n + 1
      BY <2>1
    <3>2. QED
      BY <3>1, FS_Interval
  <2>3. Cardinality(used) <= n + 1
    BY <2>1, <2>2, FS_Subset
  <2>4. QED
    BY <2>3 DEF n, used
<1>2. CountInv /\ (OrderInv /\ DiskInv) /\ [Next]_vars => CountInv'
  BY CountNext
<1>3. QED
  BY <1>1, <1>2, CountInit, OrderAlways, PTL DEF Spec

-----------------------------------------------------------------------------
(* Types.                                                                  *)

ProcessTypes ==
  /\ today \in 1..Days /\ midnight \in BOOLEAN /\ ticked \in BOOLEAN
  /\ published \in Nat
  /\ lock \in [1..Days -> {"free", "storage", "replay"}]
  /\ main \in {"down", "waiting", "switch", "exit"}
  /\ loop \in {"ready", "counting", "returned"}
  /\ interrupted \in BOOLEAN
  /\ inq \in Seq(1..published)
  /\ tradingDay \in 0..Days /\ currm \in Nat

TypedFile(file, n) ==
  /\ file.exists \in BOOLEAN
  /\ file.count \in Nat \cup {NoCount}
  /\ \A i \in DOMAIN file.rec : file.rec[i] \in 1..n

FileTypes == \A d \in 1..Days : TypedFile(disk[d], published)

ReplayTypes ==
  /\ rmain \in {"none", "waiting", "done", "interrupted"}
  /\ total \in Nat \cup {NoCount} /\ next \in Nat
  /\ reader \in {"reading", "returned"} /\ loopEnd \in BOOLEAN
  /\ Len(msgq) <= Cap
  /\ files \in Seq(1..Days) /\ (total # NoCount => files # <<>>)
  /\ \E S : msgq \in Seq(S)

(* What the types rest on: proved of every behaviour above. *)
Known ==
  /\ DOMAIN disk = 1..Days
  /\ \A d \in 1..Days : DOMAIN disk[d] = {"exists", "rec", "count"}
  /\ loop # "returned" => tradingDay \in 1..Days
  /\ QueueInOrder

LEMMA TypesInit == Init => ProcessTypes /\ FileTypes /\ ReplayTypes
<1> SUFFICES ASSUME Init PROVE ProcessTypes /\ FileTypes /\ ReplayTypes
  OBVIOUS
<1>1. ProcessTypes
  <2>1. 1 \in 1..Days /\ 0 \in 0..Days /\ 0 \in Nat
    BY StorageAssumption
  <2>2. <<>> \in Seq(1..published)
    OBVIOUS
  <2>3. QED
    BY <2>1, <2>2 DEF Init, StorageInit, ProcessTypes
<1>2. FileTypes
  BY DEF Init, StorageInit, FileTypes, TypedFile, NoFile
<1>3. msgq \in Seq({}) /\ Len(msgq) = 0 /\ files \in Seq(1..Days)
  BY DEF Init, ReplayInit
<1>4. ReplayTypes
  BY <1>3, ReplayAssumption DEF Init, ReplayInit, ReplayTypes
<1>5. QED
  BY <1>1, <1>2, <1>4

LEMMA ProcessNext == ProcessTypes /\ Known /\ FileTypes /\ Known' /\ [Next]_vars => ProcessTypes'
<1> SUFFICES ASSUME ProcessTypes, Known, FileTypes, Known', [Next]_vars PROVE ProcessTypes'
  OBVIOUS
<1>0. inq' \in Seq(1..published') /\ published' \in Nat
  BY DEF Known, QueueInOrder
<1> USE <1>0 DEF ProcessTypes, clockVars, fileVars, procVars
<1>1. CASE StorageStep
  <2>1. CASE Publish
    BY <2>1 DEF Publish
  <2>2. CASE NewDay
    <3>1. today' \in 1..Days
      BY <2>2, StorageAssumption DEF NewDay
    <3>2. QED
      BY <2>2, <3>1 DEF NewDay
  <2>3. CASE MinuteOver
    BY <2>3 DEF MinuteOver
  <2>4. CASE StartStorage
    <3>1. disk[today].count \in Nat \cup {NoCount} /\ today \in 1..Days
          /\ DOMAIN disk[today] = {"exists", "rec", "count"}
      BY DEF FileTypes, TypedFile, Known
    <3>2. [disk[today] EXCEPT !.exists = TRUE].count = disk[today].count
      BY <3>1
    <3>3. currm' \in Nat
      BY <2>4, <3>1, <3>2 DEF StartStorage
    <3>4. today \in 0..Days
      BY <3>1
    <3>5. QED
      BY <2>4, <3>3, <3>4 DEF StartStorage
  <2>5. CASE PutRecord
    BY <2>5 DEF PutRecord
  <2>6. CASE CountRecord
    BY <2>6 DEF CountRecord
  <2>7. CASE TimerFires
    BY <2>7 DEF TimerFires
  <2>8. CASE TakeSwitch
    <3>1. today \in 0..Days /\ 0 \in Nat
      BY StorageAssumption
    <3>2. CASE UNCHANGED <<fileVars, loop, tradingDay, currm>>
      BY <2>8, <3>2 DEF TakeSwitch
    <3>3. CASE /\ tradingDay' = today /\ currm' = 0 /\ UNCHANGED loop
               /\ lock' = [lock EXCEPT ![tradingDay] = "free", ![today] = "storage"]
      <4>1. lock' \in [1..Days -> {"free", "storage", "replay"}]
        BY <3>3
      <4>2. QED
        BY <2>8, <3>1, <3>3, <4>1 DEF TakeSwitch
    <3>4. CASE /\ tradingDay' = today /\ loop' = "returned" /\ UNCHANGED currm
               /\ lock' = [lock EXCEPT ![tradingDay] = "free"]
      <4>1. lock' \in [1..Days -> {"free", "storage", "replay"}]
        BY <3>4
      <4>2. QED
        BY <2>8, <3>1, <3>4, <4>1 DEF TakeSwitch
    <3>5. QED
      BY <2>8, <3>2, <3>3, <3>4 DEF TakeSwitch
  <2>9. CASE Interrupt
    BY <2>9 DEF Interrupt
  <2>10. CASE TakeSignal
    BY <2>10 DEF TakeSignal
  <2>11. CASE TakeExit \/ Crash
    BY <2>11 DEF TakeExit, Crash, StorageGone
  <2>12. QED
    BY <1>1, <2>1, <2>2, <2>3, <2>4, <2>5, <2>6, <2>7, <2>8, <2>9, <2>10, <2>11
       DEF StorageStep, StorageNext
<1>2. CASE ReplayStep
  <2>1. lock' \in [1..Days -> {"free", "storage", "replay"}]
    BY <1>2 DEF ReplayStep, ReplayNext, StartReplay, OpenFile, ReadOne, NextFile, AllRead,
                KrangHandles, KrangReturns, AllDone, ReplayInterrupted, ReplayGone,
                ReaderReturns, Unlocked
  <2>2. QED
    BY <1>2, <2>1 DEF ReplayStep
<1>3. CASE UNCHANGED vars
  BY <1>3 DEF vars, stgVars
<1>4. QED
  BY <1>1, <1>2, <1>3 DEF Next

(* A step that puts a well-typed file in the place of one. *)
LEMMA TypedOne ==
  ASSUME Known, FileTypes, published' = published, NEW d \in 1..Days, NEW f,
         disk' = [disk EXCEPT ![d] = f], TypedFile(f, published)
  PROVE  FileTypes'
<1>1. \A e \in 1..Days : disk'[e] = IF e = d THEN f ELSE disk[e]
  BY DEF Known
<1>2. QED
  BY <1>1 DEF FileTypes

(* Files stay typed when a file is created, a record put or a count written. *)
LEMMA TypedChanges ==
  ASSUME NEW file, DOMAIN file = {"exists", "rec", "count"}, NEW n \in Nat, TypedFile(file, n)
  PROVE  /\ TypedFile([file EXCEPT !.exists = TRUE], n)
         /\ \A m \in Nat : TypedFile([file EXCEPT !.count = m], n)
         /\ \A i : \A v \in 1..n : TypedFile(Put(file, i, v), n)
<1>1. TypedFile([file EXCEPT !.exists = TRUE], n)
  BY DEF TypedFile
<1>2. ASSUME NEW m \in Nat PROVE TypedFile([file EXCEPT !.count = m], n)
  BY DEF TypedFile
<1>3. ASSUME NEW i, NEW v \in 1..n PROVE TypedFile(Put(file, i, v), n)
  <2>1. /\ Put(file, i, v).exists = file.exists /\ Put(file, i, v).count = file.count
        /\ DOMAIN Put(file, i, v).rec = DOMAIN file.rec \cup {i}
        /\ \A j \in DOMAIN file.rec \cup {i} :
             Put(file, i, v).rec[j] = IF j = i THEN v ELSE file.rec[j]
    BY DEF Put
  <2>2. QED
    BY <2>1 DEF TypedFile
<1>4. QED
  BY <1>1, <1>2, <1>3

LEMMA FileNext == ProcessTypes /\ FileTypes /\ Known /\ [Next]_vars => FileTypes'
<1> SUFFICES ASSUME ProcessTypes, FileTypes, Known, [Next]_vars PROVE FileTypes'
  OBVIOUS
<1>0. published \in Nat /\ currm \in Nat /\ today \in 1..Days
  BY DEF ProcessTypes
<1>a. ASSUME UNCHANGED <<disk, published>> PROVE FileTypes'
  BY <1>a DEF FileTypes
<1>b. ASSUME NEW d \in 1..Days
      PROVE  DOMAIN disk[d] = {"exists", "rec", "count"} /\ TypedFile(disk[d], published)
  BY DEF Known, FileTypes
<1>c. \A file, n : \A f \in PutCount(file, n) : f = [file EXCEPT !.count = n] \/ f = file
  BY DEF PutCount
<1>1. CASE Publish
  <2>1. published' = published + 1 /\ disk' = disk
    BY <1>1 DEF Publish, fileVars
  <2>2. 1..published \subseteq 1..published'
    BY <1>0, <2>1
  <2>3. QED
    BY <2>1, <2>2 DEF FileTypes, TypedFile
<1>2. CASE StartStorage
  <2> DEFINE file == [disk[today] EXCEPT !.exists = TRUE]
  <2>1. DOMAIN file = {"exists", "rec", "count"} /\ TypedFile(file, published)
    BY <1>0, <1>b, TypedChanges
  <2> HIDE DEF file
  <2>2. PICK f : disk' = [disk EXCEPT ![today] = f] /\ (f \in PutCount(file, 0) \/ f = file)
    BY <1>2 DEF StartStorage, file
  <2>3. f = [file EXCEPT !.count = 0] \/ f = file
    BY <1>c, <2>2
  <2>4. TypedFile(f, published)
    <3>1. TypedFile([file EXCEPT !.count = 0], published)
      BY <1>0, <2>1, TypedChanges
    <3>2. QED
      BY <2>1, <2>3, <3>1
  <2>5. published' = published
    BY <1>2 DEF StartStorage
  <2>6. QED
    BY <1>0, <2>2, <2>4, <2>5, TypedOne
<1>3. CASE PutRecord
  <2>1. UNCHANGED published
    BY <1>3 DEF PutRecord
  <2>2. CASE disk' = [disk EXCEPT ![tradingDay] = Put(@, currm, Head(inq))]
    <3>1. tradingDay \in 1..Days
      BY <1>3 DEF Known, PutRecord
    <3>2. inq # <<>> /\ inq \in Seq(1..published)
      BY <1>3 DEF PutRecord, ProcessTypes
    <3>3. Head(inq) \in 1..published
      BY <3>2, SeqTail
    <3> DEFINE f == Put(disk[tradingDay], currm, Head(inq))
    <3>4. TypedFile(f, published)
      BY <1>0, <1>b, <3>1, <3>3, TypedChanges
    <3>5. disk' = [disk EXCEPT ![tradingDay] = f]
      BY <2>2
    <3> HIDE DEF f
    <3>6. QED
      BY <2>1, <3>1, <3>4, <3>5, TypedOne
  <2>3. CASE UNCHANGED disk
    BY <1>a, <2>1, <2>3
  <2>4. QED
    BY <1>3, <2>2, <2>3 DEF PutRecord
<1>4. CASE CountRecord
  <2>1. /\ UNCHANGED published /\ currm' = currm + 1 /\ tradingDay \in 1..Days
    BY <1>4 DEF CountRecord, Known
  <2>2. PICK f \in PutCount(disk[tradingDay], currm') : disk' = [disk EXCEPT ![tradingDay] = f]
    BY <1>4 DEF CountRecord
  <2>3. currm' \in Nat
    BY <1>0, <2>1
  <2>4. f = [disk[tradingDay] EXCEPT !.count = currm'] \/ f = disk[tradingDay]
    BY <1>c
  <2>5. TypedFile(f, published)
    <3> DEFINE file == disk[tradingDay]
    <3>1. DOMAIN file = {"exists", "rec", "count"} /\ TypedFile(file, published)
      BY <1>b, <2>1
    <3> HIDE DEF file
    <3>2. TypedFile([file EXCEPT !.count = currm'], published)
      BY <1>0, <2>3, <3>1, TypedChanges
    <3>3. QED
      BY <2>4, <3>1, <3>2 DEF file
  <2>6. QED
    BY <2>1, <2>2, <2>5, TypedOne
<1>5. CASE TakeSwitch
  <2>1. UNCHANGED published
    BY <1>5 DEF TakeSwitch
  <2>2. CASE UNCHANGED disk
    BY <1>a, <2>1, <2>2
  <2>3. CASE \E f \in PutCount([disk[today] EXCEPT !.exists = TRUE], 0) :
               disk' = [disk EXCEPT ![today] = f]
    <3> DEFINE file == [disk[today] EXCEPT !.exists = TRUE]
    <3>1. DOMAIN file = {"exists", "rec", "count"} /\ TypedFile(file, published)
      BY <1>0, <1>b, TypedChanges
    <3>2. PICK f \in PutCount(file, 0) : disk' = [disk EXCEPT ![today] = f]
      BY <2>3
    <3> HIDE DEF file
    <3>3. f = [file EXCEPT !.count = 0] \/ f = file
      BY <1>c
    <3>4. TypedFile(f, published)
      <4>1. TypedFile([file EXCEPT !.count = 0], published)
        BY <1>0, <3>1, TypedChanges
      <4>2. QED
        BY <3>1, <3>3, <4>1
    <3>5. QED
      BY <1>0, <2>1, <3>2, <3>4, TypedOne
  <2>4. QED
    BY <1>5, <2>2, <2>3 DEF TakeSwitch, fileVars
<1>6. CASE NewDay \/ MinuteOver \/ TimerFires \/ Interrupt \/ TakeSignal \/ TakeExit \/ Crash
  BY <1>a, <1>6 DEF NewDay, MinuteOver, TimerFires, Interrupt, TakeSignal, TakeExit, Crash,
                    StorageGone, clockVars, fileVars, procVars
<1>7. CASE ReplayStep
  BY <1>a, <1>7 DEF ReplayStep
<1>8. CASE UNCHANGED vars
  BY <1>a, <1>8 DEF vars, stgVars, fileVars
<1>9. QED
  BY <1>1, <1>2, <1>3, <1>4, <1>5, <1>6, <1>7, <1>8 DEF Next, StorageStep, StorageNext

LEMMA SeqAdd ==
  ASSUME NEW S, NEW q \in Seq(S), NEW v
  PROVE  Append(q, v) \in Seq(S \cup {v}) /\ Len(Append(q, v)) = Len(q) + 1
<1>1. q \in Seq(S \cup {v})
  BY SeqWiden
<1>2. QED
  BY <1>1

LEMMA ReplayTyped == ReplayTypes /\ FileTypes /\ [Next]_vars => ReplayTypes'
<1> SUFFICES ASSUME ReplayTypes, FileTypes, [Next]_vars PROVE ReplayTypes'
  OBVIOUS
<1>0. PICK S : msgq \in Seq(S)
  BY DEF ReplayTypes
<1>a. ASSUME UNCHANGED <<msgq, files, total, next>>,
             rmain' \in {"none", "waiting", "done", "interrupted"},
             reader' \in {"reading", "returned"}, loopEnd' \in BOOLEAN
      PROVE  ReplayTypes'
  BY <1>a DEF ReplayTypes
<1>b. ASSUME ReaderReturns PROVE ReplayTypes'
  BY <1>b, <1>a DEF ReaderReturns, ReplayTypes
<1>1. CASE StartReplay
  <2>1. /\ msgq' = <<>> /\ files' \in ReplayDays
        /\ rmain' = "waiting" /\ reader' = "reading" /\ loopEnd' = FALSE
        /\ total' = NoCount /\ next' = 0
    BY <1>1 DEF StartReplay
  <2>2. msgq' \in Seq({}) /\ Len(msgq') = 0 /\ files' \in Seq(1..Days)
    BY <2>1, ReplayAssumption
  <2>3. Len(msgq') <= Cap /\ \E T : msgq' \in Seq(T)
    BY <2>2, ReplayAssumption
  <2>4. QED
    BY <2>1, <2>2, <2>3 DEF ReplayTypes
<1>2. CASE OpenFile
  <2>1. CASE ReaderReturns
    BY <1>b, <2>1
  <2>2. CASE ~ReaderReturns
    <3>1. /\ total' = disk[Head(files)].count /\ next' = 0
          /\ UNCHANGED <<rmain, files, reader, msgq, loopEnd>>
          /\ files # <<>>
      BY <1>2, <2>2 DEF OpenFile
    <3>2. Head(files) \in 1..Days
      BY <3>1, SeqTail DEF ReplayTypes
    <3>3. total' \in Nat \cup {NoCount}
      BY <3>1, <3>2 DEF FileTypes, TypedFile
    <3>4. QED
      BY <3>1, <3>3 DEF ReplayTypes
  <2>3. QED
    BY <2>1, <2>2
<1>3. CASE ReadOne
  <2>1. CASE ReaderReturns
    BY <1>b, <2>1
  <2>2. CASE ~ReaderReturns
    <3>1. /\ Len(msgq) < Cap
          /\ msgq' = Append(msgq, disk[Head(files)].rec[next])
          /\ next' = next + 1
          /\ UNCHANGED <<rmain, files, total, reader, loopEnd>>
      BY <1>3, <2>2 DEF ReadOne
    <3>2. /\ msgq' \in Seq(S \cup {disk[Head(files)].rec[next]})
          /\ Len(msgq') = Len(msgq) + 1 /\ Len(msgq) \in Nat
      BY <1>0, <3>1, SeqAdd
    <3>3. Len(msgq') <= Cap
      BY <3>1, <3>2, ReplayAssumption
    <3>4. next' \in Nat
      BY <3>1 DEF ReplayTypes
    <3>5. \E T : msgq' \in Seq(T)
      BY <3>2
    <3>6. QED
      BY <3>1, <3>3, <3>4, <3>5 DEF ReplayTypes
  <2>3. QED
    BY <2>1, <2>2
<1>4. CASE NextFile
  <2>1. /\ files' = Tail(files) /\ total' = NoCount /\ next = total
        /\ UNCHANGED <<rmain, next, reader, msgq, loopEnd>>
    BY <1>4 DEF NextFile
  <2>2. files # <<>> /\ files \in Seq(1..Days)
    BY <2>1 DEF ReplayTypes, NoCount
  <2>3. files' \in Seq(1..Days)
    BY <2>1, <2>2
  <2>4. QED
    BY <2>1, <2>3 DEF ReplayTypes
<1>5. CASE AllRead
  BY <1>5, <1>b DEF AllRead
<1>6. CASE KrangHandles
  <2>1. /\ msgq # <<>> /\ msgq' = Tail(msgq)
        /\ UNCHANGED <<rmain, files, total, next, reader, loopEnd>>
    BY <1>6 DEF KrangHandles
  <2>2. msgq' \in Seq(S) /\ Len(msgq') = Len(msgq) - 1 /\ Len(msgq) \in Nat
    BY <1>0, <2>1
  <2>3. Len(msgq') <= Cap
    BY <2>2, ReplayAssumption DEF ReplayTypes
  <2>4. \E T : msgq' \in Seq(T)
    BY <2>2
  <2>5. QED
    BY <2>1, <2>3, <2>4 DEF ReplayTypes
<1>7. CASE KrangReturns
  BY <1>7, <1>a DEF KrangReturns, ReplayTypes
<1>8. CASE AllDone \/ ReplayInterrupted
  BY <1>8, <1>a DEF AllDone, ReplayInterrupted, ReplayGone
<1>9. CASE UNCHANGED replayVars
  BY <1>9, <1>a DEF replayVars, ReplayTypes
<1>10. QED
  BY <1>1, <1>2, <1>3, <1>4, <1>5, <1>6, <1>7, <1>8, <1>9
     DEF Next, StorageStep, ReplayStep, ReplayNext, vars

LEMMA TypesAlways == Spec => [](ProcessTypes /\ FileTypes /\ ReplayTypes)
<1>1. OrderInv /\ DiskInv => Known
  BY DEF OrderInv, DiskInv, Known
<1>2. /\ ProcessTypes /\ FileTypes /\ ReplayTypes
      /\ (OrderInv /\ DiskInv) /\ (OrderInv /\ DiskInv)' /\ [Next]_vars
      => (ProcessTypes /\ FileTypes /\ ReplayTypes)'
  <2>1. (OrderInv /\ DiskInv)' => Known'
    BY DEF OrderInv, DiskInv, Known
  <2>2. QED
    BY <1>1, <2>1, ProcessNext, FileNext, ReplayTyped
<1>3. QED
  BY <1>2, TypesInit, OrderAlways, PTL DEF Spec

(* Every variable of storage and of a replay keeps its type, and the channel *)
(* to krang its bound (stg.go, replay.go).                                  *)
THEOREM RecordingTyped == Spec => []TypeOK
<1>1. ProcessTypes /\ FileTypes /\ ReplayTypes => TypeOK
  BY DEF ProcessTypes, FileTypes, TypedFile, ReplayTypes, TypeOK
<1>2. QED
  BY <1>1, TypesAlways, PTL

-----------------------------------------------------------------------------
(* A list of recordings, joined.  Recording, in Replay, and Joined, in Tape, *)
(* join by a recursive function; what it computes follows from the least    *)
(* length at which it would be wrong.                                       *)

LEMMA LeastNatural ==
  ASSUME NEW T, T \subseteq Nat, T # {}
  PROVE  \E x \in T : \A y \in T : ~(y < x)
<1> DEFINE R == OpToRel(<, Nat)
<1>1. IsWellFoundedOn(R, Nat)
  BY NatLessThanWellFounded
<1>2. \A x, y \in Nat : y < x => <<y, x>> \in R
  BY DEF OpToRel
<1> HIDE DEF R
<1>3. PICK x \in T : \A y \in T : ~(<<y, x>> \in R)
  BY <1>1, WFMin
<1>4. QED
  BY <1>2, <1>3

(* The equation of the joining of the first recordings of a list.           *)
JoinsUpTo(f, ss, m) ==
  f = [n \in 0..m |-> IF n = 0 THEN <<>> ELSE f[n - 1] \o ss[n]]

Flat(ss) == (CHOOSE f : JoinsUpTo(f, ss, Len(ss)))[Len(ss)]

LEMMA JoinExists ==
  ASSUME NEW ss, NEW m \in Nat
  PROVE  \E f : JoinsUpTo(f, ss, m)
<1> DEFINE Bad == {n \in Nat : ~ \E f : JoinsUpTo(f, ss, n)}
<1>1. SUFFICES ASSUME Bad # {} PROVE FALSE
  OBVIOUS
<1>2. PICK n \in Bad : \A y \in Bad : ~(y < n)
  <2>1. Bad \subseteq Nat
    OBVIOUS
  <2> HIDE DEF Bad
  <2>2. QED
    BY <1>1, <2>1, LeastNatural
<1>3. n \in Nat /\ ~ \E f : JoinsUpTo(f, ss, n)
  OBVIOUS
<1>4. CASE n = 0
  <2> DEFINE f == [i \in 0..0 |-> <<>>]
  <2>1. f = [i \in 0..0 |-> IF i = 0 THEN <<>> ELSE f[i - 1] \o ss[i]]
    OBVIOUS
  <2>2. JoinsUpTo(f, ss, n)
    BY <1>4, <2>1 DEF JoinsUpTo
  <2>3. QED
    BY <1>3, <2>2
<1>5. CASE n # 0
  <2>1. n - 1 \in Nat /\ n - 1 < n
    BY <1>3, <1>5
  <2>2. PICK f : JoinsUpTo(f, ss, n - 1)
    BY <1>2, <2>1
  <2> DEFINE g == [i \in 0..n |-> IF i = n THEN f[n - 1] \o ss[n] ELSE f[i]]
  <2>3. \A i \in 0 .. n - 1 : f[i] = IF i = 0 THEN <<>> ELSE f[i - 1] \o ss[i]
    BY <2>2 DEF JoinsUpTo
  <2>4. \A i \in 0..n : g[i] = IF i = 0 THEN <<>> ELSE g[i - 1] \o ss[i]
    <3> TAKE i \in 0..n
    <3>1. i = n \/ i \in 0 .. n - 1
      BY <1>3
    <3>2. i \in 0..n /\ i \in Int
      BY <1>3
    <3>3. i = 0 \/ (i - 1 \in 0..n /\ i - 1 # n /\ g[i - 1] = f[i - 1])
      BY <1>3, <3>2
    <3>4. CASE i = n
      BY <1>5, <3>3, <3>4
    <3>5. CASE i \in 0 .. n - 1 /\ i # n
      <4>1. g[i] = f[i]
        BY <3>5
      <4> HIDE DEF g
      <4>2. QED
        BY <2>3, <3>3, <3>5, <4>1
    <3>6. QED
      BY <3>1, <3>4, <3>5
  <2>5. g = [i \in 0..n |-> g[i]]
    OBVIOUS
  <2> HIDE DEF g
  <2>6. JoinsUpTo(g, ss, n)
    BY <2>4, <2>5 DEF JoinsUpTo
  <2>7. QED
    BY <1>3, <2>6
<1>6. QED
  BY <1>4, <1>5

LEMMA JoinSteps ==
  ASSUME NEW ss, NEW m \in Nat, NEW f, JoinsUpTo(f, ss, m)
  PROVE  f[0] = <<>> /\ \A n \in 1..m : f[n] = f[n - 1] \o ss[n]
<1>1. \A n \in 0..m : f[n] = IF n = 0 THEN <<>> ELSE f[n - 1] \o ss[n]
  BY DEF JoinsUpTo
<1>2. 0 \in 0..m /\ \A n \in 1..m : n \in 0..m /\ n # 0
  OBVIOUS
<1>3. QED
  BY <1>1, <1>2

(* The equation has one solution, so whatever list of the same recordings    *)
(* is joined, the result is the same.                                       *)
LEMMA JoinUnique ==
  ASSUME NEW m \in Nat, NEW ss, NEW tt, \A n \in 1..m : ss[n] = tt[n],
         NEW f, JoinsUpTo(f, ss, m), NEW g, JoinsUpTo(g, tt, m)
  PROVE  f[m] = g[m]
<1> DEFINE Bad == {n \in 0..m : f[n] # g[n]}
<1>1. SUFFICES ASSUME Bad # {} PROVE FALSE
  OBVIOUS
<1>2. PICK n \in Bad : \A y \in Bad : ~(y < n)
  <2>1. Bad \subseteq Nat
    OBVIOUS
  <2> HIDE DEF Bad
  <2>2. QED
    BY <1>1, <2>1, LeastNatural
<1>3. n \in 0..m /\ f[n] # g[n]
  OBVIOUS
<1>4. n # 0
  BY <1>3, JoinSteps
<1>5. n \in 1..m /\ n - 1 \in 0..m /\ n - 1 < n
  BY <1>3, <1>4
<1>6. f[n - 1] = g[n - 1]
  BY <1>2, <1>5
<1>7. f[n] = f[n - 1] \o ss[n] /\ g[n] = g[n - 1] \o tt[n]
  BY <1>5, JoinSteps
<1>8. QED
  BY <1>3, <1>5, <1>6, <1>7

(* Joining recordings of elements of a set gives such a recording.          *)
LEMMA JoinTyped ==
  ASSUME NEW S, NEW m \in Nat, NEW ss, \A n \in 1..m : ss[n] \in Seq(S),
         NEW f, JoinsUpTo(f, ss, m)
  PROVE  \A n \in 0..m : f[n] \in Seq(S)
<1> DEFINE Bad == {n \in 0..m : f[n] \notin Seq(S)}
<1>1. SUFFICES ASSUME Bad # {} PROVE FALSE
  OBVIOUS
<1>2. PICK n \in Bad : \A y \in Bad : ~(y < n)
  <2>1. Bad \subseteq Nat
    OBVIOUS
  <2> HIDE DEF Bad
  <2>2. QED
    BY <1>1, <2>1, LeastNatural
<1>3. n \in 0..m /\ f[n] \notin Seq(S)
  OBVIOUS
<1>4. f[0] \in Seq(S)
  <2>1. f[0] = <<>>
    BY JoinSteps
  <2>2. QED
    BY <2>1
<1>5. n \in 1..m /\ n - 1 \in 0..m /\ n - 1 < n
  BY <1>3, <1>4
<1>6. f[n - 1] \in Seq(S) /\ f[n] = f[n - 1] \o ss[n]
  BY <1>2, <1>5, JoinSteps
<1>7. QED
  BY <1>3, <1>5, <1>6

LEMMA FlatJoins ==
  ASSUME NEW ss, Len(ss) \in Nat
  PROVE  \E f : JoinsUpTo(f, ss, Len(ss)) /\ Flat(ss) = f[Len(ss)]
<1> DEFINE g == CHOOSE f : JoinsUpTo(f, ss, Len(ss))
<1>1. JoinsUpTo(g, ss, Len(ss))
  BY JoinExists
<1>2. Flat(ss) = g[Len(ss)]
  BY DEF Flat
<1>3. QED
  BY <1>1, <1>2

(* It does not matter in which order three sequences are joined. *)
Associative(S) == \A a, b, c \in Seq(S) : (a \o b) \o c = a \o (b \o c)

LEMMA JoinAssociative == ASSUME NEW S PROVE Associative(S)
<1>1. ASSUME NEW a \in Seq(S), NEW b \in Seq(S), NEW c \in Seq(S)
      PROVE  (a \o b) \o c = a \o (b \o c)
  BY ConcatAssociative
<1> QED BY <1>1, Zenon DEF Associative

(* The joining of a list begins with its first recording.                   *)
LEMMA FlatHead ==
  ASSUME NEW S, NEW ss \in Seq(Seq(S)), ss # <<>>
  PROVE  /\ ss[1] \in Seq(S) /\ Flat(Tail(ss)) \in Seq(S)
         /\ Flat(ss) = ss[1] \o Flat(Tail(ss))
<1> DEFINE m == Len(ss)
           tt == Tail(ss)
<1>1. /\ m \in Nat \ {0} /\ Len(tt) = m - 1 /\ \A n \in 1..m : ss[n] \in Seq(S)
      /\ \A n \in 1 .. m - 1 : tt[n] = ss[n + 1] /\ tt[n] \in Seq(S)
  OBVIOUS
<1> HIDE DEF m, tt
<1>a. Len(ss) = m /\ m \in Nat /\ m - 1 \in Nat /\ Len(tt) \in Nat
  BY <1>1 DEF m
<1>2. PICK f : JoinsUpTo(f, ss, m) /\ Flat(ss) = f[m]
  BY <1>a, FlatJoins
<1>3. PICK g : JoinsUpTo(g, tt, m - 1) /\ Flat(tt) = g[m - 1]
  BY <1>1, <1>a, FlatJoins
<1>4. \A n \in 0..m : f[n] \in Seq(S)
  BY <1>1, <1>a, <1>2, JoinTyped
<1>5. \A n \in 0 .. m - 1 : g[n] \in Seq(S)
  BY <1>1, <1>a, <1>3, JoinTyped
<1> DEFINE Bad == {n \in 1..m : f[n] # ss[1] \o g[n - 1]}
<1>6. Bad = {}
  <2>1. SUFFICES ASSUME Bad # {} PROVE FALSE
    OBVIOUS
  <2>2. PICK n \in Bad : \A y \in Bad : ~(y < n)
    <3>1. Bad \subseteq Nat
      BY <1>a
    <3> HIDE DEF Bad
    <3>2. QED
      BY <2>1, <3>1, LeastNatural
  <2>3. n \in 1..m /\ f[n] # ss[1] \o g[n - 1]
    OBVIOUS
  <2>4. f[n] = f[n - 1] \o ss[n] /\ f[0] = <<>>
    BY <1>a, <1>2, <2>3, JoinSteps
  <2>5. g[0] = <<>> /\ \A i \in 1 .. m - 1 : g[i] = g[i - 1] \o tt[i]
    BY <1>a, <1>3, JoinSteps
  <2> HIDE DEF Bad
  <2>6. CASE n = 1
    <3>1. ss[1] \in Seq(S)
      BY <1>1, <2>3, <2>6
    <3>2. n - 1 = 0
      BY <2>6
    <3>3. f[n] = <<>> \o ss[1]
      BY <2>4, <2>6, <3>2
    <3>4. <<>> \o ss[1] = ss[1] /\ ss[1] \o <<>> = ss[1]
      BY <3>1, ConcatEmptySeq
    <3>5. g[n - 1] = <<>>
      BY <2>5, <3>2
    <3>6. QED
      BY <2>3, <3>3, <3>4, <3>5
  <2>7. CASE n # 1
    <3> DEFINE k == n - 1
    <3>1. k \in 1..m /\ k < n /\ k \in 1 .. m - 1 /\ k - 1 \in 0 .. m - 1 /\ k + 1 = n
      BY <1>a, <2>3, <2>7
    <3>2. f[n] = f[k] \o ss[n]
      BY <2>4
    <3> HIDE DEF k
    <3>3. f[k] = ss[1] \o g[k - 1]
      BY <2>2, <3>1 DEF Bad
    <3>4. tt[k] = ss[n] /\ g[k] = g[k - 1] \o tt[k]
      BY <1>1, <2>5, <3>1
    <3>5. ss[1] \in Seq(S) /\ ss[n] \in Seq(S) /\ g[k - 1] \in Seq(S)
      BY <1>1, <1>5, <2>3, <3>1
    <3>6. (ss[1] \o g[k - 1]) \o ss[n] = ss[1] \o (g[k - 1] \o ss[n])
      <4>1. Associative(S)
        BY JoinAssociative
      <4>2. QED
        BY <3>5, <4>1, Zenon DEF Associative
    <3>7. f[n] = ss[1] \o g[k]
      BY <3>2, <3>3, <3>4, <3>6
    <3>8. QED
      BY <2>3, <3>7 DEF k
  <2>8. QED
    BY <2>6, <2>7
<1>7. f[m] = ss[1] \o g[m - 1]
  <2>1. m \in 1..m
    BY <1>1
  <2>2. QED
    BY <1>6, <2>1
<1>8. ss[1] \in Seq(S) /\ g[m - 1] \in Seq(S)
  BY <1>1, <1>5
<1>9. QED
  BY <1>2, <1>3, <1>7, <1>8 DEF tt

LEMMA FlatEmpty == Flat(<<>>) = <<>>
<1>1. PICK f : JoinsUpTo(f, <<>>, 0) /\ Flat(<<>>) = f[0]
  BY FlatJoins
<1>2. QED
  BY <1>1, JoinSteps

(* The records a count covers, as a sequence.                               *)
LEMMA RecordsTyped ==
  ASSUME FileTypes, NEW d \in 1..Days
  PROVE  /\ Records(d) \in Seq(Nat)
         /\ Len(Records(d)) = IF disk[d].count = NoCount THEN 0 ELSE disk[d].count
         /\ \A k \in 1..Len(Records(d)) :
              Records(d)[k] = IF k - 1 \in DOMAIN disk[d].rec THEN disk[d].rec[k - 1] ELSE 0
<1> DEFINE m == IF disk[d].count = NoCount THEN 0 ELSE disk[d].count
           v(k) == IF k - 1 \in DOMAIN disk[d].rec THEN disk[d].rec[k - 1] ELSE 0
<1>1. disk[d].count \in Nat \cup {NoCount} /\ \A k : v(k) \in Nat
  BY DEF FileTypes, TypedFile
<1>2. m \in Nat /\ 1..disk[d].count = 1..m
  BY <1>1 DEF NoCount
<1>3. Records(d) = [k \in 1..m |-> v(k)]
  BY <1>2 DEF Records
<1> HIDE DEF m, v
<1>4. Records(d) \in Seq(Nat) /\ Len(Records(d)) = m
  BY <1>1, <1>2, <1>3
<1>5. \A k \in 1..m : Records(d)[k] = v(k)
  BY <1>3
<1>6. QED
  BY <1>4, <1>5 DEF m, v

Parts(days) == [n \in 1..Len(days) |-> Records(days[n])]

LEMMA PartsShape ==
  ASSUME NEW days, Len(days) \in Nat
  PROVE  /\ Len(Parts(days)) = Len(days)
         /\ \A n \in 1..Len(days) : Parts(days)[n] = Records(days[n])
BY DEF Parts

LEMMA PartsTyped ==
  ASSUME FileTypes, NEW days \in Seq(1..Days)
  PROVE  Parts(days) \in Seq(Seq(Nat)) /\ Len(Parts(days)) = Len(days)
<1>1. \A n \in 1..Len(days) : Records(days[n]) \in Seq(Nat)
  <2>1. \A n \in 1..Len(days) : days[n] \in 1..Days
    BY ElementOfSeq
  <2>2. QED
    BY <2>1, RecordsTyped
<1>2. QED
  BY <1>1 DEF Parts

(* What is played is the joined recordings of the days ...                  *)
LEMMA RecordingFlat ==
  ASSUME NEW days, Len(days) \in Nat
  PROVE  Recording(days) = Flat(Parts(days))
<1> DEFINE m == Len(days)
           Joins(h) == h = [n \in 0..m |-> IF n = 0 THEN <<>> ELSE h[n - 1] \o Records(days[n])]
           f == CHOOSE h : Joins(h)
<1>1. Recording(days) = f[m]
  BY DEF Recording
<1>2. /\ Len(Parts(days)) = m /\ m \in Nat
      /\ \A n \in 1..m : Parts(days)[n] = Records(days[n])
  BY PartsShape
<1> HIDE DEF m
<1>3. \A h : Joins(h) <=> JoinsUpTo(h, Parts(days), m)
  <2>1. \A n \in 0..m : n = 0 \/ n \in 1..m
    BY <1>2
  <2>2. ASSUME NEW h
        PROVE  [n \in 0..m |-> IF n = 0 THEN <<>> ELSE h[n - 1] \o Records(days[n])]
               = [n \in 0..m |-> IF n = 0 THEN <<>> ELSE h[n - 1] \o Parts(days)[n]]
    BY <1>2, <2>1
  <2>3. QED
    BY <2>2 DEF JoinsUpTo
<1>4. \E h : Joins(h)
  BY <1>2, <1>3, JoinExists
<1>5. Joins(f)
  BY <1>4
<1> HIDE DEF f
<1>6. JoinsUpTo(f, Parts(days), m)
  BY <1>3, <1>5
<1>7. PICK g : JoinsUpTo(g, Parts(days), m) /\ Flat(Parts(days)) = g[m]
  BY <1>2, FlatJoins
<1>8. f[m] = g[m]
  BY <1>2, <1>6, <1>7, JoinUnique
<1>9. QED
  BY <1>1, <1>7, <1>8

(* ... on the abstract side as well.                                        *)
LEMMA JoinedFlat ==
  ASSUME NEW days \in Seq(1..Days)
  PROVE  Tapes!Joined(days) = Flat(Parts(days))
<1> DEFINE m == Len(days)
           recordings == [d \in 1..Days |-> Records(d)]
           Joins(h) == h = [n \in 0..m |-> IF n = 0 THEN <<>>
                              ELSE h[n - 1] \o recordings[days[n]]]
           f == CHOOSE h : Joins(h)
<1>1. Tapes!Joined(days) = f[m]
  BY DEF Tapes!Joined
<1>2. /\ Len(Parts(days)) = m /\ m \in Nat
      /\ \A n \in 1..m : Parts(days)[n] = Records(days[n])
  BY PartsShape
<1>a. \A n \in 1..m : days[n] \in 1..Days /\ recordings[days[n]] = Parts(days)[n]
  <2>1. \A n \in 1..m : days[n] \in 1..Days
    BY ElementOfSeq
  <2>2. \A d \in 1..Days : recordings[d] = Records(d)
    OBVIOUS
  <2>3. QED
    BY <1>2, <2>1, <2>2
<1> HIDE DEF m, recordings
<1>3. \A h : Joins(h) <=> JoinsUpTo(h, Parts(days), m)
  <2>1. \A n \in 0..m : n = 0 \/ n \in 1..m
    BY <1>2
  <2>2. ASSUME NEW h
        PROVE  [n \in 0..m |-> IF n = 0 THEN <<>>
                              ELSE h[n - 1] \o recordings[days[n]]]
               = [n \in 0..m |-> IF n = 0 THEN <<>> ELSE h[n - 1] \o Parts(days)[n]]
    BY <1>a, <2>1
  <2>3. QED
    BY <2>2 DEF JoinsUpTo
<1>4. \E h : Joins(h)
  BY <1>2, <1>3, JoinExists
<1>5. Joins(f)
  BY <1>4
<1> HIDE DEF f
<1>6. JoinsUpTo(f, Parts(days), m)
  BY <1>3, <1>5
<1>7. PICK g : JoinsUpTo(g, Parts(days), m) /\ Flat(Parts(days)) = g[m]
  BY <1>2, FlatJoins
<1>8. f[m] = g[m]
  BY <1>2, <1>6, <1>7, JoinUnique
<1>9. QED
  BY <1>1, <1>7, <1>8

(* What is left to play begins with the file being read.                    *)
LEMMA FirstPart ==
  ASSUME FileTypes, NEW days \in Seq(1..Days), days # <<>>
  PROVE  /\ Records(days[1]) \in Seq(Nat) /\ Flat(Parts(Tail(days))) \in Seq(Nat)
         /\ Flat(Parts(days)) = Records(days[1]) \o Flat(Parts(Tail(days)))
<1>1. Parts(days) \in Seq(Seq(Nat)) /\ Len(Parts(days)) = Len(days)
  BY PartsTyped
<1>2. Len(days) \in Nat \ {0} /\ Len(Tail(days)) = Len(days) - 1
      /\ Len(Tail(days)) \in Nat
      /\ \A n \in 1 .. Len(days) - 1 : Tail(days)[n] = days[n + 1]
  OBVIOUS
<1>3. Parts(days) # <<>> /\ Parts(days)[1] = Records(days[1])
  <2>1. 1 \in 1..Len(days)
    BY <1>2
  <2>2. QED
    BY <1>1, <1>2, <2>1 DEF Parts
<1>4. Tail(Parts(days)) = Parts(Tail(days))
  <2>1. Tail(days) \in Seq(1..Days)
    OBVIOUS
  <2>2. Parts(Tail(days)) \in Seq(Seq(Nat)) /\ Len(Parts(Tail(days))) = Len(days) - 1
    BY <1>2, <2>1, PartsTyped
  <2>3. /\ Tail(Parts(days)) \in Seq(Seq(Nat)) /\ Len(Tail(Parts(days))) = Len(days) - 1
        /\ \A n \in 1 .. Len(days) - 1 : Tail(Parts(days))[n] = Parts(days)[n + 1]
    BY <1>1, <1>2, <1>3
  <2>4. \A n \in 1 .. Len(days) - 1 : Parts(days)[n + 1] = Parts(Tail(days))[n]
    BY <1>2 DEF Parts
  <2>5. QED
    BY <2>2, <2>3, <2>4, SeqEqual
<1>5. QED
  BY <1>1, <1>3, <1>4, FlatHead

-----------------------------------------------------------------------------
(* Who may touch which file.  Storage has the file of its trading day, and a *)
(* reader those it has not finished; the file of a day to come does not      *)
(* exist, so that no replay holds it when storage switches to it.           *)
LockInv ==
  /\ loop # "returned" => lock[tradingDay] = "storage"
  /\ \A d \in 1..Days : lock[d] = "replay" => disk[d].exists
  /\ reader = "reading" => \A n \in 1..Len(files) : lock[files[n]] = "replay"

Sound == ProcessTypes /\ FileTypes /\ ReplayTypes /\ Known /\ FilesInTime

(* Storage leaves the files of a replay alone, and their locks.             *)
LEMMA StorageLocks ==
  ASSUME Sound, LockInv, StorageStep
  PROVE  /\ \A d \in 1..Days : /\ lock[d] = "replay" <=> lock'[d] = "replay"
                               /\ lock[d] = "replay" => disk'[d] = disk[d]
         /\ loop' # "returned" => lock'[tradingDay'] = "storage"
<1> USE DEF clockVars, fileVars, procVars
<1>0. /\ lock \in [1..Days -> {"free", "storage", "replay"}] /\ today \in 1..Days
      /\ DOMAIN disk = 1..Days
      /\ loop # "returned" => tradingDay \in 1..Days
  BY DEF Sound, ProcessTypes, Known
<1>1. CASE Publish \/ NewDay \/ MinuteOver \/ TimerFires \/ Interrupt \/ TakeSignal
  BY <1>1 DEF Publish, NewDay, MinuteOver, TimerFires, Interrupt, TakeSignal, LockInv
<1>2. CASE StartStorage
  <2>1. /\ lock[today] = "free" /\ lock' = [lock EXCEPT ![today] = "storage"]
        /\ tradingDay' = today
        /\ \E f : disk' = [disk EXCEPT ![today] = f]
    BY <1>2 DEF StartStorage
  <2>2. QED
    BY <1>0, <2>1
<1>3. CASE PutRecord \/ CountRecord
  <2>1. /\ UNCHANGED <<lock, tradingDay>> /\ loop # "returned"
        /\ disk' = disk \/ \E f : disk' = [disk EXCEPT ![tradingDay] = f]
    BY <1>3 DEF PutRecord, CountRecord
  <2>2. lock[tradingDay] = "storage"
    BY <2>1 DEF LockInv
  <2>3. QED
    BY <1>0, <2>1, <2>2
<1>4. CASE TakeSwitch
  <2>1. loop = "ready" /\ tradingDay \in 1..Days /\ lock[tradingDay] = "storage"
    BY <1>0, <1>4 DEF TakeSwitch, LockInv
  <2>2. CASE UNCHANGED <<fileVars, loop, tradingDay>>
    BY <2>1, <2>2
  <2>3. CASE /\ today > tradingDay /\ tradingDay' = today
             /\ lock' = [lock EXCEPT ![tradingDay] = "free", ![today] = "storage"]
             /\ \E f : disk' = [disk EXCEPT ![today] = f]
    <3>1. disk[today] = NoFile
      BY <1>0, <2>3 DEF Sound, FilesInTime
    <3>2. ~disk[today].exists
      BY <3>1 DEF NoFile
    <3>3. lock[today] # "replay"
      BY <1>0, <3>2 DEF LockInv
    <3>4. QED
      BY <1>0, <2>1, <2>3, <3>3
  <2>4. CASE /\ lock' = [lock EXCEPT ![tradingDay] = "free"]
             /\ loop' = "returned" /\ UNCHANGED disk
    BY <1>0, <2>1, <2>4
  <2>5. QED
    BY <1>4, <2>2, <2>3, <2>4 DEF TakeSwitch
<1>5. CASE TakeExit \/ Crash
  BY <1>0, <1>5 DEF TakeExit, Crash, StorageGone
<1>6. QED
  BY <1>1, <1>2, <1>3, <1>4, <1>5 DEF StorageStep, StorageNext

LEMMA LockInit == Init => LockInv
  BY DEF Init, StorageInit, ReplayInit, LockInv

LEMMA LockNext == Sound /\ LockInv /\ [Next]_vars => LockInv'
<1> SUFFICES ASSUME Sound, LockInv, [Next]_vars PROVE LockInv'
  OBVIOUS
<1>0. /\ lock \in [1..Days -> {"free", "storage", "replay"}]
      /\ files \in Seq(1..Days)
      /\ loop # "returned" => tradingDay \in 1..Days
  BY DEF Sound, ProcessTypes, ReplayTypes, Known
<1>f. \A n \in 1..Len(files) : files[n] \in 1..Days
  BY <1>0, ElementOfSeq
<1>1. CASE StorageStep
  <2>1. /\ \A d \in 1..Days : /\ lock[d] = "replay" <=> lock'[d] = "replay"
                              /\ lock[d] = "replay" => disk'[d] = disk[d]
        /\ loop' # "returned" => lock'[tradingDay'] = "storage"
    BY <1>1, StorageLocks
  <2>2. UNCHANGED <<files, reader>>
    BY <1>1 DEF StorageStep, replayVars
  <2>3. QED
    BY <1>f, <2>1, <2>2 DEF LockInv
<1>2. CASE ReplayStep
  <2>0. UNCHANGED <<disk, loop, tradingDay>>
    BY <1>2 DEF ReplayStep, procVars
  <2>1. CASE StartReplay
    <3>1. PICK days \in ReplayDays :
            /\ \A n \in DOMAIN days : disk[days[n]].exists /\ lock[days[n]] = "free"
            /\ files' = days
            /\ lock' = [d \in 1..Days |->
                          IF \E n \in DOMAIN days : days[n] = d THEN "replay" ELSE lock[d]]
      BY <2>1 DEF StartReplay
    <3>2. days \in Seq(1..Days)
      BY ReplayAssumption
    <3>3. \A n \in 1..Len(days) : days[n] \in 1..Days
      BY <3>2, ElementOfSeq
    <3>4. \A n \in 1..Len(files') : lock'[files'[n]] = "replay"
      BY <3>1, <3>2, <3>3
    <3>5. loop' # "returned" => lock'[tradingDay'] = "storage"
      BY <1>0, <2>0, <3>1 DEF LockInv
    <3>6. \A d \in 1..Days : lock'[d] = "replay" => disk'[d].exists
      BY <2>0, <3>1 DEF LockInv
    <3>7. QED
      BY <3>4, <3>5, <3>6 DEF LockInv
  <2>2. CASE reader' = "returned" /\ lock' = Unlocked
    BY <1>0, <2>0, <2>2 DEF LockInv, Unlocked
  <2>3. CASE UNCHANGED <<lock, reader, files>>
    BY <2>0, <2>3 DEF LockInv
  <2>4. CASE NextFile
    <3>1. files' = Tail(files) /\ UNCHANGED <<lock, reader>> /\ next = total
      BY <2>4 DEF NextFile
    <3>2. files # <<>>
      BY <3>1 DEF Sound, ReplayTypes, NoCount
    <3>3. \A n \in 1..Len(files') : n + 1 \in 1..Len(files) /\ files'[n] = files[n + 1]
      BY <1>0, <3>1, <3>2
    <3>4. QED
      BY <2>0, <3>1, <3>3 DEF LockInv
  <2>5. QED
    BY <1>2, <2>1, <2>2, <2>3, <2>4
       DEF ReplayStep, ReplayNext, OpenFile, ReadOne, AllRead, ReaderReturns, KrangHandles,
           KrangReturns, AllDone, ReplayInterrupted, ReplayGone
<1>3. CASE UNCHANGED vars
  BY <1>3 DEF vars, stgVars, fileVars, procVars, replayVars, LockInv
<1>4. QED
  BY <1>1, <1>2, <1>3 DEF Next

(* What a replay has played and queued is a beginning of its script, and     *)
(* while it reads, the rest is what is left of the file it reads and the     *)
(* files after it.                                                          *)
Queued == Len(handled) + Len(msgq)

Base == IF total = NoCount THEN Queued ELSE Queued - next

EndsWith(s, b, r) ==
  b \in Nat /\ Len(s) = b + Len(r) /\ \A k \in 1..Len(r) : s[b + k] = r[k]

PlayTypes == handled \in Seq(Nat) /\ msgq \in Seq(Nat) /\ script \in Seq(Nat)

Beginning ==
  /\ Queued <= Len(script)
  /\ \A k \in 1..Len(handled) : handled[k] = script[k]
  /\ \A k \in 1..Len(msgq) : msgq[k] = script[Len(handled) + k]

Rest ==
  reader = "reading" =>
    /\ total # NoCount => total = disk[files[1]].count /\ next <= total
    /\ EndsWith(script, Base, Flat(Parts(files)))

PlayInv ==
  /\ PlayTypes /\ Beginning /\ Rest
  /\ files = <<>> => Queued = Len(script)

LEMMA PlayInit == Init => PlayInv
<1> SUFFICES ASSUME Init PROVE PlayInv
  OBVIOUS
<1>1. /\ handled = <<>> /\ msgq = <<>> /\ script = <<>> /\ reader = "returned"
  BY DEF Init, ReplayInit
<1>2. Queued = 0 /\ Len(script) = 0
  BY <1>1 DEF Queued
<1>3. PlayTypes
  BY <1>1 DEF PlayTypes
<1>4. QED
  BY <1>1, <1>2, <1>3 DEF PlayInv, Beginning, Rest

(* The parts of files nobody touches are what they were.                    *)
LEMMA PartsKept ==
  ASSUME Sound, reader = "reading" => \A n \in 1..Len(files) : disk'[files[n]] = disk[files[n]],
         UNCHANGED files
  PROVE  reader = "reading" => Parts(files)' = Parts(files)
<1>1. \A n \in 1..Len(files) :
        disk'[files[n]] = disk[files[n]] => Records(files[n])' = Records(files[n])
  BY DEF Records
<1>2. QED
  BY <1>1 DEF Parts

(* Steps that leave the reader where it is, or end it, while krang takes     *)
(* nothing.                                                                *)
LEMMA PlayKept ==
  ASSUME Sound, PlayInv, UNCHANGED <<handled, msgq, script, files, total, next>>,
         reader' = reader \/ reader' = "returned",
         reader = "reading" => \A n \in 1..Len(files) : disk'[files[n]] = disk[files[n]]
  PROVE  PlayInv'
<1>1. /\ PlayTypes' /\ Beginning' /\ Queued' = Queued /\ Base' = Base
  BY DEF PlayInv, PlayTypes, Beginning, Queued, Base
<1>2. Rest'
  <2>1. CASE reader' = "returned"
    BY <2>1 DEF Rest
  <2>2. CASE reader' = "reading" /\ reader = "reading"
    <3>1. Parts(files)' = Parts(files)
      BY <2>2, PartsKept
    <3>2. Flat(Parts(files))' = Flat(Parts(files))
      BY <3>1 DEF Flat
    <3>3. EndsWith(script, Base, Flat(Parts(files))) /\ (total # NoCount => next <= total)
      BY <2>2 DEF PlayInv, Rest
    <3>4. EndsWith(script, Base, Flat(Parts(files)))'
      BY <1>1, <3>2, <3>3 DEF EndsWith
    <3>5. total # NoCount => total = disk'[files[1]].count
      <4>1. total # NoCount => 1 \in 1..Len(files)
        BY DEF Sound, ReplayTypes
      <4>2. QED
        BY <2>2, <4>1 DEF PlayInv, Rest
    <3>6. QED
      BY <3>3, <3>4, <3>5 DEF Rest
  <2>3. QED
    BY <2>1, <2>2 DEF Sound, ReplayTypes
<1>3. QED
  BY <1>1, <1>2 DEF PlayInv

(* The script of a new replay is what is left to play of its files.         *)
LEMMA PlayStarts == Sound /\ StartReplay /\ UNCHANGED disk => PlayInv'
<1> SUFFICES ASSUME Sound, StartReplay, UNCHANGED disk PROVE PlayInv'
  OBVIOUS
<1>1. PICK days \in ReplayDays : files' = days /\ script' = Recording(days)
  BY DEF StartReplay
<1>2. handled' = <<>> /\ msgq' = <<>> /\ total' = NoCount /\ next' = 0
  BY DEF StartReplay
<1>3. days \in Seq(1..Days)
  BY ReplayAssumption
<1>4. script' = Flat(Parts(days))
  BY <1>1, <1>3, RecordingFlat
<1>5. Parts(days) \in Seq(Seq(Nat)) /\ Len(Parts(days)) = Len(days)
  BY <1>3, PartsTyped DEF Sound
<1>6. days = <<>> => Parts(days) = <<>>
  BY <1>5
<1>7. script' \in Seq(Nat) /\ (days = <<>> => script' = <<>>)
  <2>1. CASE days = <<>>
    <3>1. script' = <<>>
      BY <1>4, <1>6, <2>1, FlatEmpty
    <3>2. QED
      BY <3>1
  <2>2. CASE days # <<>>
    <3>1. /\ Records(days[1]) \in Seq(Nat) /\ Flat(Parts(Tail(days))) \in Seq(Nat)
          /\ script' = Records(days[1]) \o Flat(Parts(Tail(days)))
      BY <1>3, <1>4, <2>2, FirstPart DEF Sound
    <3>2. QED
      BY <2>2, <3>1, ConcatProperties
  <2>3. QED
    BY <2>1, <2>2
<1>8. Queued' = 0 /\ Base' = 0 /\ PlayTypes' /\ Len(script') \in Nat
  BY <1>2, <1>7 DEF Queued, Base, PlayTypes
<1>9. Beginning'
  BY <1>2, <1>8 DEF Beginning
<1>10. Parts(files)' = Parts(days)
  BY <1>1 DEF Parts, Records
<1>11. EndsWith(script, Base, Flat(Parts(files)))'
  <2>1. Flat(Parts(files))' = script'
    BY <1>4, <1>10 DEF Flat
  <2>2. QED
    BY <1>8, <2>1 DEF EndsWith
<1>12. Rest'
  BY <1>2, <1>11 DEF Rest
<1>13. files' = <<>> => Queued' = Len(script')
  BY <1>1, <1>7, <1>8
<1>14. QED
  BY <1>8, <1>9, <1>12, <1>13 DEF PlayInv

(* The rest of the file being read is the head of what is left.             *)
LEMMA FileFirst ==
  ASSUME Sound, PlayInv, reader = "reading", total # NoCount
  PROVE  /\ files # <<>> /\ files[1] \in 1..Days /\ total \in Nat /\ next \in 0..total
         /\ total = disk[files[1]].count /\ Len(Records(files[1])) = total
         /\ Records(files[1]) \in Seq(Nat) /\ Flat(Parts(Tail(files))) \in Seq(Nat)
         /\ Flat(Parts(files)) = Records(files[1]) \o Flat(Parts(Tail(files)))
         /\ Base = Queued - next /\ EndsWith(script, Base, Flat(Parts(files)))
<1>1. files # <<>> /\ files \in Seq(1..Days) /\ total \in Nat /\ next \in Nat
  BY DEF Sound, ReplayTypes
<1>2. files[1] \in 1..Days
  <2>1. 1 \in 1..Len(files)
    BY <1>1
  <2>2. QED
    BY <1>1, <2>1, ElementOfSeq
<1>3. /\ total = disk[files[1]].count /\ next <= total
      /\ EndsWith(script, Base, Flat(Parts(files)))
  BY DEF PlayInv, Rest
<1>4. Len(Records(files[1])) = total /\ Records(files[1]) \in Seq(Nat)
  BY <1>2, <1>3, RecordsTyped DEF Sound
<1>5. /\ Flat(Parts(Tail(files))) \in Seq(Nat)
      /\ Flat(Parts(files)) = Records(files[1]) \o Flat(Parts(Tail(files)))
  BY <1>1, FirstPart DEF Sound
<1>6. QED
  BY <1>1, <1>2, <1>3, <1>4, <1>5 DEF Base

LEMMA PlayOpens ==
  ASSUME Sound, PlayInv, OpenFile, ~ReaderReturns, UNCHANGED disk
  PROVE  PlayInv'
<1>1. /\ files # <<>> /\ total = NoCount /\ total' = disk[Head(files)].count /\ next' = 0
      /\ UNCHANGED <<files, reader, msgq, handled, script>>
  BY DEF OpenFile
<1>2. files \in Seq(1..Days) /\ Head(files) = files[1] /\ 1 \in 1..Len(files)
  BY <1>1 DEF Sound, ReplayTypes
<1>3. files[1] \in 1..Days
  BY <1>2, ElementOfSeq
<1>4. total' \in Nat \cup {NoCount}
  BY <1>1, <1>2, <1>3 DEF Sound, FileTypes, TypedFile
<1>5. Queued' = Queued /\ PlayTypes' /\ Beginning'
  BY <1>1 DEF Queued, PlayTypes, Beginning, PlayInv
<1>6. Queued \in Nat
  BY DEF Queued, PlayInv, PlayTypes
<1>7. Base = Queued /\ Base' = Queued
  BY <1>1, <1>5, <1>6 DEF Base
<1>8. Flat(Parts(files))' = Flat(Parts(files))
  BY <1>1 DEF Flat, Parts, Records
<1>9. Rest'
  <2>1. reader = "reading" => EndsWith(script, Base, Flat(Parts(files)))'
    BY <1>1, <1>7, <1>8 DEF PlayInv, Rest, EndsWith
  <2>2. total' # NoCount => total' = disk'[files'[1]].count /\ next' <= total'
    BY <1>1, <1>2, <1>4
  <2>3. QED
    BY <1>1, <2>1, <2>2 DEF Rest
<1>10. QED
  BY <1>1, <1>5, <1>9 DEF PlayInv

(* The record read is the next of the script.                               *)
LEMMA PlayReads ==
  ASSUME Sound, PlayInv, ReadOne, ~ReaderReturns, UNCHANGED disk
  PROVE  PlayInv'
<1>1. /\ reader = "reading" /\ next < total /\ next \in DOMAIN disk[Head(files)].rec
      /\ msgq' = Append(msgq, disk[Head(files)].rec[next])
      /\ next' = next + 1
      /\ UNCHANGED <<files, total, reader, handled, script>>
  BY DEF ReadOne
<1>2. total # NoCount
  BY <1>1 DEF NoCount, Sound, ReplayTypes
<1>3. /\ files # <<>> /\ files[1] \in 1..Days /\ total \in Nat /\ next \in 0..total
      /\ total = disk[files[1]].count /\ Len(Records(files[1])) = total
      /\ Records(files[1]) \in Seq(Nat) /\ Flat(Parts(Tail(files))) \in Seq(Nat)
      /\ Flat(Parts(files)) = Records(files[1]) \o Flat(Parts(Tail(files)))
      /\ Base = Queued - next /\ EndsWith(script, Base, Flat(Parts(files)))
  BY <1>1, <1>2, FileFirst
<1> DEFINE v == disk[files[1]].rec[next]
           r == Flat(Parts(files))
<1>4. Head(files) = files[1]
  BY <1>3 DEF Sound, ReplayTypes
<1>5. next + 1 \in 1..total /\ (next + 1) - 1 = next
  BY <1>1, <1>3
<1>6. Records(files[1])[next + 1] = v
  <2>1. next \in DOMAIN disk[files[1]].rec
    BY <1>1, <1>4
  <2>2. \A k \in 1..total :
          Records(files[1])[k] = IF k - 1 \in DOMAIN disk[files[1]].rec
                                 THEN disk[files[1]].rec[k - 1] ELSE 0
    BY <1>3, RecordsTyped DEF Sound
  <2> DEFINE k == next + 1
  <2>3. k \in 1..total /\ k - 1 = next
    BY <1>5
  <2> HIDE DEF k
  <2>4. Records(files[1])[k] = disk[files[1]].rec[next]
    BY <2>1, <2>2, <2>3
  <2>5. QED
    BY <2>4 DEF k
<1>7. v \in Nat
  <2>1. Records(files[1])[next + 1] \in Nat
    BY <1>3, <1>5, ElementOfSeq
  <2>2. QED
    BY <1>6, <2>1
<1>8. next + 1 \in 1..Len(r) /\ r[next + 1] = v /\ Len(r) \in Nat
  BY <1>3, <1>5, <1>6, ConcatProperties
<1> HIDE DEF v, r
<1>9. PlayTypes /\ Queued \in Nat /\ Len(handled) \in Nat /\ Len(msgq) \in Nat
      /\ Queued = Len(handled) + Len(msgq) /\ Len(script) \in Nat
  BY DEF PlayInv, PlayTypes, Queued
<1>10. /\ Base \in Nat /\ Len(script) = Base + Len(r)
       /\ \A k \in 1..Len(r) : script[Base + k] = r[k]
  BY <1>3 DEF EndsWith, r
<1>11. script[Queued + 1] = v /\ Queued + 1 <= Len(script)
  <2>1. Base + (next + 1) = Queued + 1
    BY <1>3, <1>9
  <2>2. QED
    BY <1>3, <1>8, <1>9, <1>10, <2>1
<1>12. msgq' = Append(msgq, v)
  BY <1>1, <1>4 DEF v
<1>13. /\ msgq' \in Seq(Nat) /\ Len(msgq') = Len(msgq) + 1
       /\ \A k \in 1..Len(msgq') : msgq'[k] = IF k = Len(msgq) + 1 THEN v ELSE msgq[k]
  BY <1>7, <1>9, <1>12 DEF PlayTypes
<1>14. Queued' = Queued + 1 /\ PlayTypes'
  BY <1>1, <1>9, <1>13 DEF Queued, PlayTypes
<1>15. Beginning'
  <2>1. \A k \in 1..Len(msgq') : msgq'[k] = script[Len(handled) + k]
    <3> TAKE k \in 1..Len(msgq')
    <3>1. CASE k = Len(msgq) + 1
      <4>1. Len(handled) + k = Queued + 1
        BY <1>9, <3>1
      <4>2. QED
        BY <1>11, <1>13, <3>1, <4>1
    <3>2. CASE k # Len(msgq) + 1
      <4>1. k \in 1..Len(msgq)
        BY <1>9, <1>13, <3>2
      <4>2. QED
        BY <1>13, <3>2, <4>1 DEF PlayInv, Beginning
    <3>3. QED
      BY <3>1, <3>2
  <2>2. QED
    BY <1>1, <1>11, <1>14, <2>1 DEF PlayInv, Beginning
<1>16. Base' = Base
  BY <1>1, <1>2, <1>3, <1>9, <1>14 DEF Base
<1>17. Flat(Parts(files))' = r
  BY <1>1 DEF Flat, Parts, Records, r
<1>18. Rest'
  <2>1. EndsWith(script, Base, Flat(Parts(files)))'
    BY <1>1, <1>10, <1>16, <1>17 DEF EndsWith
  <2>2. total' = disk'[files'[1]].count /\ next' <= total'
    BY <1>1, <1>3, <1>5
  <2>3. QED
    BY <2>1, <2>2 DEF Rest
<1>19. QED
  BY <1>1, <1>3, <1>14, <1>15, <1>18 DEF PlayInv

(* A file is read to its end when what is left begins with the next.        *)
LEMMA PlayTurns ==
  ASSUME Sound, PlayInv, NextFile, UNCHANGED disk
  PROVE  PlayInv'
<1>1. /\ reader = "reading" /\ next = total
      /\ files' = Tail(files) /\ total' = NoCount
      /\ UNCHANGED <<next, reader, msgq, handled, script>>
  BY DEF NextFile
<1>2. total # NoCount
  BY <1>1 DEF NoCount, Sound, ReplayTypes
<1>3. /\ files # <<>> /\ files[1] \in 1..Days /\ total \in Nat /\ next \in 0..total
      /\ total = disk[files[1]].count /\ Len(Records(files[1])) = total
      /\ Records(files[1]) \in Seq(Nat) /\ Flat(Parts(Tail(files))) \in Seq(Nat)
      /\ Flat(Parts(files)) = Records(files[1]) \o Flat(Parts(Tail(files)))
      /\ Base = Queued - next /\ EndsWith(script, Base, Flat(Parts(files)))
  BY <1>1, <1>2, FileFirst
<1> DEFINE a == Records(files[1])
           b == Flat(Parts(Tail(files)))
<1>4. Queued \in Nat /\ Len(script) \in Nat
  BY DEF PlayInv, PlayTypes, Queued
<1>5. Len(a) = total /\ EndsWith(script, Queued - total, a \o b)
  BY <1>1, <1>3
<1>a. a \in Seq(Nat) /\ b \in Seq(Nat)
  BY <1>3
<1> HIDE DEF a, b
<1>6. /\ Len(a \o b) = total + Len(b) /\ Len(b) \in Nat
      /\ \A k \in 1..Len(b) : total + k \in 1 .. total + Len(b) /\ (a \o b)[total + k] = b[k]
  <2>1. Len(a \o b) = Len(a) + Len(b) /\ Len(b) \in Nat
    BY <1>a, ConcatProperties, LenProperties
  <2>2. ASSUME NEW k \in 1..Len(b)
        PROVE  total + k \in 1 .. total + Len(b) /\ (a \o b)[total + k] = b[k]
    <3>1. /\ total + k \in 1 .. Len(a) + Len(b) /\ ~(total + k <= Len(a))
          /\ (total + k) - Len(a) = k
      <4>1. k \in Nat /\ 1 <= k /\ k <= Len(b) /\ total \in Nat
        BY <1>3, <2>1
      <4>2. QED
        BY <1>5, <2>1, <4>1
    <3>2. (a \o b)[total + k] = b[(total + k) - Len(a)]
      BY <1>a, <3>1, ConcatProperties
    <3>3. QED
      BY <1>5, <3>1, <3>2
  <2>3. QED
    BY <1>5, <2>1, <2>2
<1>7. EndsWith(script, Queued, b)
  <2>1. Queued - total \in Nat /\ Len(script) = Queued - total + (total + Len(b))
    BY <1>5, <1>6 DEF EndsWith
  <2>2. ASSUME NEW k \in 1..Len(b) PROVE script[Queued + k] = b[k]
    <3>1. script[Queued - total + (total + k)] = (a \o b)[total + k]
      BY <1>5, <1>6 DEF EndsWith
    <3>2. Queued - total + (total + k) = Queued + k
      BY <1>3, <1>4
    <3>3. QED
      BY <1>6, <3>1, <3>2
  <2>3. QED
    <3>1. Len(script) = Queued + Len(b)
      BY <1>3, <1>4, <1>6, <2>1
    <3>2. QED
      BY <1>4, <2>2, <3>1 DEF EndsWith
<1>8. Queued' = Queued /\ Base' = Queued /\ PlayTypes' /\ Beginning'
  BY <1>1 DEF Queued, Base, PlayTypes, Beginning, PlayInv
<1>9. Flat(Parts(files))' = b
  BY <1>1 DEF Flat, Parts, Records, b
<1>10. Rest'
  BY <1>1, <1>7, <1>8, <1>9 DEF Rest, EndsWith
<1>11. files' = <<>> => Queued' = Len(script')
  <2>1. Tail(files) = <<>> => b = <<>>
    <3>1. Parts(<<>>) = <<>>
      <4>1. Parts(<<>>) \in Seq(Seq(Nat)) /\ Len(Parts(<<>>)) = Len(<<>>)
        <5>1. <<>> \in Seq(1..Days)
          OBVIOUS
        <5>2. QED
          BY <5>1, PartsTyped DEF Sound
      <4>2. QED
        BY <4>1
    <3>2. QED
      BY <3>1, FlatEmpty DEF b
  <2>2. b = <<>> => Len(script) = Queued
    BY <1>4, <1>7 DEF EndsWith
  <2>3. QED
    BY <1>1, <1>8, <2>1, <2>2
<1>12. QED
  BY <1>8, <1>10, <1>11 DEF PlayInv

(* krang takes the head of the channel.                                     *)
LEMMA PlayHandles ==
  ASSUME Sound, PlayInv, KrangHandles, UNCHANGED disk
  PROVE  /\ PlayInv'
         /\ Len(handled) < Len(script) /\ handled' = Append(handled, script[Len(handled) + 1])
<1>1. /\ msgq # <<>> /\ handled' = Append(handled, Head(msgq)) /\ msgq' = Tail(msgq)
      /\ UNCHANGED <<files, total, next, reader, script>>
  BY DEF KrangHandles
<1>2. handled \in Seq(Nat) /\ msgq \in Seq(Nat) /\ script \in Seq(Nat)
  BY DEF PlayInv, PlayTypes
<1>3. /\ Len(handled) \in Nat /\ Len(msgq) \in Nat \ {0} /\ Len(script) \in Nat
      /\ Head(msgq) = msgq[1] /\ msgq[1] \in Nat /\ 1 \in 1..Len(msgq)
      /\ Len(msgq') = Len(msgq) - 1 /\ msgq' \in Seq(Nat)
      /\ \A k \in 1..Len(msgq') : k + 1 \in 1..Len(msgq) /\ msgq'[k] = msgq[k + 1]
  BY <1>1, <1>2
<1>4. Head(msgq) = script[Len(handled) + 1] /\ Len(handled) < Len(script)
  BY <1>3 DEF PlayInv, Beginning, Queued
<1>5. /\ handled' \in Seq(Nat) /\ Len(handled') = Len(handled) + 1
      /\ \A k \in 1..Len(handled') :
           handled'[k] = IF k = Len(handled) + 1 THEN msgq[1] ELSE handled[k]
  <2>1. handled' = Append(handled, msgq[1])
    BY <1>1, <1>3
  <2>2. msgq[1] \in Nat
    BY <1>3
  <2>3. QED
    BY <1>2, <2>1, <2>2
<1>6. Queued' = Queued /\ Base' = Base /\ PlayTypes'
  BY <1>1, <1>2, <1>3, <1>5 DEF Queued, Base, PlayTypes
<1>7. Beginning'
  <2>1. \A k \in 1..Len(handled') : handled'[k] = script[k]
    <3> TAKE k \in 1..Len(handled')
    <3>1. k = Len(handled) + 1 \/ k \in 1..Len(handled)
      BY <1>3, <1>5
    <3>2. QED
      BY <1>3, <1>4, <1>5, <3>1 DEF PlayInv, Beginning
  <2>2. \A k \in 1..Len(msgq') : msgq'[k] = script[Len(handled') + k]
    <3> TAKE k \in 1..Len(msgq')
    <3>1. msgq'[k] = msgq[k + 1] /\ msgq[k + 1] = script[Len(handled) + (k + 1)]
      BY <1>3 DEF PlayInv, Beginning
    <3>2. Len(handled) + (k + 1) = Len(handled') + k
      BY <1>3, <1>5
    <3>3. QED
      BY <3>1, <3>2
  <2>3. QED
    BY <1>1, <1>6, <2>1, <2>2 DEF PlayInv, Beginning
<1>8. Flat(Parts(files))' = Flat(Parts(files))
  BY <1>1 DEF Flat, Parts, Records
<1>9. Rest'
  BY <1>1, <1>6, <1>8 DEF PlayInv, Rest, EndsWith
<1>10. QED
  BY <1>1, <1>4, <1>6, <1>7, <1>9 DEF PlayInv

LEMMA PlayNext == Sound /\ LockInv /\ PlayInv /\ [Next]_vars => PlayInv'
<1> SUFFICES ASSUME Sound, LockInv, PlayInv, [Next]_vars PROVE PlayInv'
  OBVIOUS
<1>0. reader \in {"reading", "returned"} /\ \A n \in 1..Len(files) : files[n] \in 1..Days
  <2>1. files \in Seq(1..Days) /\ reader \in {"reading", "returned"}
    BY DEF Sound, ReplayTypes
  <2>2. QED
    BY <2>1, ElementOfSeq
<1>1. CASE StorageStep
  <2>1. UNCHANGED <<handled, msgq, script, files, total, next, reader>>
    BY <1>1 DEF StorageStep, replayVars
  <2>2. \A d \in 1..Days : lock[d] = "replay" => disk'[d] = disk[d]
    BY <1>1, StorageLocks
  <2>3. reader = "reading" => \A n \in 1..Len(files) : disk'[files[n]] = disk[files[n]]
    BY <1>0, <2>2 DEF LockInv
  <2>4. QED
    BY <2>1, <2>3, PlayKept
<1>2. CASE ReplayStep
  <2>1. UNCHANGED disk
    BY <1>2 DEF ReplayStep
  <2>2. CASE /\ UNCHANGED <<handled, msgq, script, files, total, next>>
             /\ reader' = reader \/ reader' = "returned"
    BY <2>1, <2>2, PlayKept
  <2>3. CASE ReaderReturns
    BY <2>2, <2>3 DEF ReaderReturns
  <2>4. CASE StartReplay
    BY <2>1, <2>4, PlayStarts
  <2>5. CASE OpenFile /\ ~ReaderReturns
    BY <2>1, <2>5, PlayOpens
  <2>6. CASE ReadOne /\ ~ReaderReturns
    BY <2>1, <2>6, PlayReads
  <2>7. CASE NextFile
    BY <2>1, <2>7, PlayTurns
  <2>8. CASE KrangHandles
    BY <2>1, <2>8, PlayHandles
  <2>9. CASE KrangReturns \/ AllDone \/ ReplayInterrupted
    BY <2>2, <2>9 DEF KrangReturns, AllDone, ReplayInterrupted, ReplayGone
  <2>10. CASE AllRead
    BY <2>3, <2>10 DEF AllRead
  <2>11. QED
    BY <1>2, <2>3, <2>4, <2>5, <2>6, <2>7, <2>8, <2>9, <2>10 DEF ReplayStep, ReplayNext
<1>3. CASE UNCHANGED vars
  <2>1. UNCHANGED <<handled, msgq, script, files, total, next, reader, disk>>
    BY <1>3 DEF vars, stgVars, fileVars, replayVars
  <2>2. QED
    BY <2>1, PlayKept
<1>4. QED
  BY <1>1, <1>2, <1>3 DEF Next

(* Of two such files the second records what the first does, and more.      *)
Continues(new, old) ==
  /\ old.count <= new.count
  /\ \A i \in 0 .. old.count - 1 :
       /\ i \in DOMAIN new.rec <=> i \in DOMAIN old.rec
       /\ i \in DOMAIN old.rec => new.rec[i] = old.rec[i]

LEMMA StorageContinues ==
  ASSUME Sound, StorageStep
  PROVE  \A d \in 1..Days : Continues(disk'[d], disk[d])
<1>0. /\ today \in 1..Days /\ DOMAIN disk = 1..Days
      /\ loop # "returned" => tradingDay \in 1..Days /\ currm \in Nat
                              /\ disk[tradingDay].count <= currm
      /\ \A d \in 1..Days : disk[d].count \in Nat \cup {NoCount}
      /\ \A d \in 1..Days : DOMAIN disk[d] = {"exists", "rec", "count"}
  BY DEF Sound, ProcessTypes, Known, FilesInTime, FileTypes, TypedFile
<1>a. \A d \in 1..Days : Continues(disk[d], disk[d])
  BY <1>0 DEF Continues, NoCount
<1>b. ASSUME NEW d \in 1..Days, NEW f, disk' = [disk EXCEPT ![d] = f], Continues(f, disk[d])
      PROVE  \A e \in 1..Days : Continues(disk'[e], disk[e])
  BY <1>0, <1>a, <1>b
<1>c. \A file, n : \A f \in PutCount(file, n) : f = [file EXCEPT !.count = n] \/ f = file
  BY DEF PutCount
<1>d. ASSUME NEW file, NEW n \in Nat, NEW m \in Nat \cup {NoCount},
             DOMAIN file = {"exists", "rec", "count"}, file.count = m, m <= n
      PROVE  /\ [file EXCEPT !.count = n].rec = file.rec
             /\ Continues([file EXCEPT !.count = n], file)
  BY <1>d DEF Continues
<1>1. CASE StartStorage
  <2> DEFINE file == [disk[today] EXCEPT !.exists = TRUE]
  <2>1. /\ DOMAIN file = {"exists", "rec", "count"}
        /\ file.count = disk[today].count /\ file.rec = disk[today].rec
    BY <1>0
  <2> HIDE DEF file
  <2>2. PICK f : /\ disk' = [disk EXCEPT ![today] = f]
                 /\ \/ file.count = NoCount /\ f \in PutCount(file, 0)
                    \/ f = file
    BY <1>1 DEF StartStorage, file
  <2>3. f = file \/ (file.count = NoCount /\ f = [file EXCEPT !.count = 0])
    BY <1>c, <2>2
  <2>4. Continues(f, disk[today])
    <3>1. CASE f = file
      BY <1>0, <1>a, <2>1, <3>1 DEF Continues
    <3>2. CASE file.count = NoCount /\ f = [file EXCEPT !.count = 0]
      <4>1. f.count = 0 /\ f.rec = file.rec
        BY <2>1, <3>2
      <4>2. QED
        BY <2>1, <3>2, <4>1 DEF Continues, NoCount
    <3>3. QED
      BY <2>3, <3>1, <3>2
  <2>5. QED
    BY <1>0, <1>b, <2>2, <2>4
<1>2. CASE PutRecord
  <2>1. loop = "ready" /\ tradingDay \in 1..Days /\ currm \in Nat
        /\ disk[tradingDay].count <= currm
    BY <1>0, <1>2 DEF PutRecord
  <2>2. CASE UNCHANGED disk
    BY <1>a, <2>2
  <2>3. CASE disk' = [disk EXCEPT ![tradingDay] = Put(@, currm, Head(inq))]
    <3> DEFINE file == disk[tradingDay]
               f == Put(file, currm, Head(inq))
    <3>1. DOMAIN file = {"exists", "rec", "count"} /\ file.count \in Nat \cup {NoCount}
      BY <1>0, <2>1
    <3>2. disk' = [disk EXCEPT ![tradingDay] = f]
      BY <2>3
    <3> HIDE DEF file
    <3>3. /\ f.count = file.count /\ DOMAIN f.rec = DOMAIN file.rec \cup {currm}
          /\ \A i \in DOMAIN file.rec : i # currm => f.rec[i] = file.rec[i]
      BY <3>1 DEF Put
    <3> HIDE DEF f
    <3>4. \A i \in 0 .. file.count - 1 : i # currm
      BY <2>1, <3>1 DEF file, NoCount
    <3>5. file.count <= file.count
      BY <3>1 DEF NoCount
    <3>6. Continues(f, file)
      BY <3>3, <3>4, <3>5 DEF Continues
    <3>7. QED
      BY <1>b, <2>1, <3>2, <3>6 DEF file
  <2>4. QED
    BY <1>2, <2>2, <2>3 DEF PutRecord
<1>3. CASE CountRecord
  <2>1. tradingDay \in 1..Days /\ currm \in Nat /\ disk[tradingDay].count <= currm
    BY <1>0, <1>3 DEF CountRecord
  <2>2. PICK f \in PutCount(disk[tradingDay], currm + 1) : disk' = [disk EXCEPT ![tradingDay] = f]
    BY <1>3 DEF CountRecord
  <2>3. f = [disk[tradingDay] EXCEPT !.count = currm + 1] \/ f = disk[tradingDay]
    BY <1>c
  <2>4. Continues([disk[tradingDay] EXCEPT !.count = currm + 1], disk[tradingDay])
    <3>1. /\ currm + 1 \in Nat /\ disk[tradingDay].count \in Nat \cup {NoCount}
          /\ disk[tradingDay].count <= currm + 1
          /\ DOMAIN disk[tradingDay] = {"exists", "rec", "count"}
      BY <1>0, <2>1 DEF NoCount
    <3>2. QED
      BY <1>d, <3>1
  <2>5. QED
    BY <1>a, <1>b, <2>1, <2>2, <2>3, <2>4
<1>4. CASE TakeSwitch
  <2>1. CASE UNCHANGED disk
    BY <1>a, <2>1
  <2>2. CASE /\ today > tradingDay
             /\ \E f \in PutCount([disk[today] EXCEPT !.exists = TRUE], 0) :
                  disk' = [disk EXCEPT ![today] = f]
    <3> DEFINE file == [disk[today] EXCEPT !.exists = TRUE]
    <3>1. disk[today] = NoFile
      BY <1>0, <2>2 DEF Sound, FilesInTime
    <3>2. disk[today].count = NoCount
      BY <3>1 DEF NoFile
    <3>3. /\ DOMAIN file = {"exists", "rec", "count"}
          /\ file.count = disk[today].count /\ file.rec = disk[today].rec
      BY <1>0
    <3>4. PICK f \in PutCount(file, 0) : disk' = [disk EXCEPT ![today] = f]
      BY <2>2
    <3> HIDE DEF file
    <3>5. f = [file EXCEPT !.count = 0] \/ f = file
      BY <1>c
    <3>6. f.rec = file.rec /\ (f.count = 0 \/ f.count = NoCount)
      BY <3>2, <3>3, <3>5
    <3>7. Continues(f, disk[today])
      BY <3>2, <3>3, <3>6 DEF Continues, NoCount
    <3>8. QED
      BY <1>0, <1>b, <3>4, <3>7
  <2>3. QED
    BY <1>4, <2>1, <2>2 DEF TakeSwitch, fileVars
<1>5. CASE \/ Publish \/ NewDay \/ MinuteOver \/ TimerFires \/ Interrupt \/ TakeSignal
           \/ TakeExit \/ Crash
  BY <1>5, <1>a DEF Publish, NewDay, MinuteOver, TimerFires, Interrupt, TakeSignal, TakeExit,
                    Crash, StorageGone, fileVars
<1>6. QED
  BY <1>1, <1>2, <1>3, <1>4, <1>5 DEF StorageStep, StorageNext

LEMMA RecordsContinue ==
  ASSUME FileTypes, FileTypes', NEW d \in 1..Days, Continues(disk'[d], disk[d])
  PROVE  /\ Len(Records(d)) <= Len(Records(d)')
         /\ SubSeq(Records(d)', 1, Len(Records(d))) = Records(d)
<1> DEFINE m == IF disk[d].count = NoCount THEN 0 ELSE disk[d].count
           n == IF disk'[d].count = NoCount THEN 0 ELSE disk'[d].count
           old == Records(d)
           new == Records(d)'
           v(k) == IF k - 1 \in DOMAIN disk[d].rec THEN disk[d].rec[k - 1] ELSE 0
           w(k) == IF k - 1 \in DOMAIN disk'[d].rec THEN disk'[d].rec[k - 1] ELSE 0
<1>1. disk[d].count \in Nat \cup {NoCount} /\ disk'[d].count \in Nat \cup {NoCount}
  BY DEF FileTypes, TypedFile
<1>2. /\ m \in Nat /\ n \in Nat /\ m <= n /\ 1..disk[d].count = 1..m /\ 1..disk'[d].count = 1..n
  BY <1>1 DEF NoCount, Continues
<1>3. \A k \in 1..m : v(k) = w(k)
  <2> TAKE k \in 1..m
  <2>1. k - 1 \in 0 .. disk[d].count - 1
    BY <1>1 DEF NoCount
  <2>2. QED
    BY <2>1 DEF Continues
<1>4. old = [k \in 1..m |-> v(k)] /\ new = [k \in 1..n |-> w(k)]
  BY <1>2 DEF Records
<1>5. (\A k : v(k) \in Nat) /\ (\A k : w(k) \in Nat)
  BY DEF FileTypes, TypedFile
<1> HIDE DEF m, n, v, w, old, new
<1>6. /\ old \in Seq(Nat) /\ new \in Seq(Nat) /\ Len(old) = m /\ Len(new) = n
      /\ \A k \in 1..m : old[k] = new[k]
  BY <1>2, <1>3, <1>4, <1>5
<1>7. SubSeq(new, 1, m) = old
  <2>1. /\ SubSeq(new, 1, m) \in Seq(Nat) /\ Len(SubSeq(new, 1, m)) = m
        /\ \A k \in 1..m : SubSeq(new, 1, m)[k] = new[k]
    BY <1>2, <1>6
  <2>2. QED
    BY <1>6, <2>1, SeqEqual
<1>8. QED
  BY <1>2, <1>6, <1>7 DEF old, new

-----------------------------------------------------------------------------
LEMMA PlayAlways == Spec => [](Sound /\ LockInv /\ PlayInv)
<1>1. ProcessTypes /\ FileTypes /\ ReplayTypes /\ OrderInv /\ DiskInv => Sound
  BY DEF OrderInv, DiskInv, Known, Sound
<1>2. Spec => [](ProcessTypes /\ FileTypes /\ ReplayTypes)
  BY TypesAlways
<1>3. Init => LockInv /\ PlayInv
  BY LockInit, PlayInit
<1>4. Sound /\ LockInv /\ PlayInv /\ [Next]_vars => LockInv' /\ PlayInv'
  BY LockNext, PlayNext
<1>5. QED
  BY <1>1, <1>2, <1>3, <1>4, OrderAlways, PTL DEF Spec

(* When a replay that read its files to their end is declared done, nothing  *)
(* but the messages still in the channel is missing, for any number of       *)
(* files and whatever storage does meanwhile (replay.go readLoop, doExit).  *)
THEOREM TailCut == Spec => []OnlyTheTailIsCut
<1>1. PlayInv => OnlyTheTailIsCut
  <2> SUFFICES ASSUME PlayInv, rmain = "done", files = <<>> PROVE handled \o msgq = script
    BY DEF OnlyTheTailIsCut
  <2>1. handled \in Seq(Nat) /\ msgq \in Seq(Nat) /\ script \in Seq(Nat)
        /\ Len(handled) + Len(msgq) = Len(script)
    BY DEF PlayInv, PlayTypes, Queued
  <2>2. /\ handled \o msgq \in Seq(Nat) /\ Len(handled \o msgq) = Len(script)
        /\ \A k \in 1..Len(script) :
             (handled \o msgq)[k] = IF k <= Len(handled) THEN handled[k]
                                                       ELSE msgq[k - Len(handled)]
    BY <2>1, ConcatProperties
  <2>3. ASSUME NEW k \in 1..Len(script) PROVE (handled \o msgq)[k] = script[k]
    <3>1. CASE k <= Len(handled)
      <4>1. k \in 1..Len(handled)
        BY <2>1, <3>1
      <4>2. QED
        BY <2>2, <3>1, <4>1 DEF PlayInv, Beginning
    <3>2. CASE ~(k <= Len(handled))
      <4>1. k - Len(handled) \in 1..Len(msgq) /\ Len(handled) + (k - Len(handled)) = k
        BY <2>1, <3>2
      <4>2. QED
        BY <2>2, <3>2, <4>1 DEF PlayInv, Beginning
    <3>3. QED
      BY <3>1, <3>2
  <2>4. QED
    BY <2>1, <2>2, <2>3, SeqEqual
<1>2. QED
  BY <1>1, PlayAlways, PTL

(* The recording of a day only grows at its end, and a replay plays a        *)
(* beginning of the days it was given as they were when it started, each     *)
(* message once and in order, whatever fails, crashes or runs beside it      *)
(* (stg.go handleStgMsg, replay.go readOneFile, krang.go krangLoop).        *)
THEOREM TapeCorrect == Spec => ImplementsTape
<1>1. Init => Tapes!TapeInit
  <2> SUFFICES ASSUME Init PROVE Tapes!TapeInit
    OBVIOUS
  <2>1. script = <<>> /\ handled = <<>> /\ disk = [d \in 1..Days |-> NoFile]
    BY DEF Init, StorageInit, ReplayInit
  <2>2. ASSUME NEW d \in 1..Days PROVE Records(d) = <<>>
    <3>1. disk[d].count = NoCount
      BY <2>1 DEF NoFile
    <3>2. FileTypes
      BY TypesInit
    <3>3. Records(d) \in Seq(Nat) /\ Len(Records(d)) = 0
      BY <3>1, <3>2, RecordsTyped
    <3>4. QED
      BY <3>3
  <2>3. QED
    BY <2>1, <2>2 DEF Tapes!TapeInit
<1>2. /\ Sound /\ LockInv /\ PlayInv /\ (Sound /\ LockInv /\ PlayInv)' /\ [Next]_vars
      => [Tapes!TapeNext(ReplayDays)]_(Tapes!tapeVars)
  <2> SUFFICES ASSUME Sound, PlayInv, Sound', [Next]_vars
               PROVE  Tapes!TapeNext(ReplayDays) \/ UNCHANGED Tapes!tapeVars
    OBVIOUS
  <2> DEFINE recorded == [d \in 1..Days |-> Records(d)]
  <2>1. CASE StorageStep
    <3>1. UNCHANGED <<script, handled>>
      BY <2>1 DEF StorageStep, replayVars
    <3>2. ASSUME NEW d \in 1..Days
          PROVE  /\ Len(Records(d)) <= Len(Records(d)')
                 /\ SubSeq(Records(d)', 1, Len(Records(d))) = Records(d)
      BY <2>1, StorageContinues, RecordsContinue DEF Sound
    <3>3. Tapes!Record
      BY <3>1, <3>2 DEF Tapes!Record
    <3>4. QED
      BY <3>3 DEF Tapes!TapeNext
  <2>2. CASE ReplayStep
    <3>1. UNCHANGED disk
      BY <2>2 DEF ReplayStep
    <3>2. recorded' = recorded
      BY <3>1 DEF Records
    <3>3. CASE StartReplay
      <4>1. PICK days \in ReplayDays : script' = Recording(days) /\ handled' = <<>>
        BY <3>3 DEF StartReplay
      <4>2. days \in Seq(1..Days) /\ Len(days) \in Nat
        BY ReplayAssumption
      <4>3. script' = Tapes!Joined(days)
        BY <4>1, <4>2, RecordingFlat, JoinedFlat
      <4>4. Tapes!Rewind(ReplayDays)
        BY <3>2, <4>1, <4>3 DEF Tapes!Rewind
      <4>5. QED
        BY <4>4 DEF Tapes!TapeNext
    <3>4. CASE KrangHandles
      <4>1. Len(handled) < Len(script) /\ handled' = Append(handled, script[Len(handled) + 1])
        BY <3>1, <3>4, PlayHandles
      <4>2. UNCHANGED script
        BY <3>4 DEF KrangHandles
      <4>3. Tapes!Play
        BY <3>2, <4>1, <4>2 DEF Tapes!Play
      <4>4. QED
        BY <4>3 DEF Tapes!TapeNext
    <3>5. CASE UNCHANGED <<script, handled>>
      BY <3>2, <3>5 DEF Tapes!tapeVars
    <3>6. QED
      BY <2>2, <3>3, <3>4, <3>5
         DEF ReplayStep, ReplayNext, OpenFile, ReadOne, NextFile, AllRead, ReaderReturns,
             KrangReturns, AllDone, ReplayInterrupted, ReplayGone
  <2>3. CASE UNCHANGED vars
    <3>1. UNCHANGED <<disk, script, handled>>
      BY <2>3 DEF vars, stgVars, fileVars, replayVars
    <3>2. recorded' = recorded
      BY <3>1 DEF Records
    <3>3. QED
      BY <3>1, <3>2 DEF Tapes!tapeVars
  <2>4. QED
    BY <2>1, <2>2, <2>3 DEF Next
<1>3. QED
  BY <1>1, <1>2, PlayAlways, PTL DEF Spec, ImplementsTape
=============================================================================
