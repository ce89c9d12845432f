-------------------------------- MODULE Replay --------------------------------
(***************************************************************************)
(* The replay process (replay/replay.go, replay/main/main.go): a reader    *)
(* goroutine plays the files of the configured days into a bounded         *)
(* channel, krang's loop (krang.go krangLoop) handles what comes out, and  *)
(* the main goroutine waits.  The reader ends by closing a channel both    *)
(* of the others listen to.                                                *)
(***************************************************************************)
EXTENDS Storage

CONSTANTS ReplayDays,  \* the lists of days the configuration may name
          Cap,         \* max_ch_len
          MaxReplays   \* bound: how many replays are started

ASSUME ReplayAssumption ==
  /\ ReplayDays \subseteq Seq(1..Days)
  /\ Cap \in Nat \ {0} /\ MaxReplays \in Nat

VARIABLES
  replays,  \* how many replays were started
  rmain,    \* the main goroutine: not started, waiting, all done, or interrupted
  files,    \* the files not read to their end yet
  total,    \* the count of the file being read, NoCount before it is known
  next,     \* index of the next record of it
  reader,   \* readLoop: reading, or returned with `ch' closed
  msgq,     \* the channel to krang
  loopEnd,  \* whether krangLoop has returned
  handled,  \* ghost: what krang has handled in this replay
  script    \* ghost: what the files of this replay held when they were opened

replayVars == <<replays, rmain, files, total, next, reader, msgq, loopEnd, handled, script>>

(* The records of a day that its count covers. *)
Records(d) ==
  [k \in 1..disk[d].count |->
     IF k - 1 \in DOMAIN disk[d].rec THEN disk[d].rec[k - 1] ELSE 0]

(* The recording of a list of days. *)
Recording(days) ==
  LET upto[n \in 0..Len(days)] == IF n = 0 THEN <<>> ELSE upto[n - 1] \o Records(days[n])
  IN  upto[Len(days)]

ReplayInit ==
  /\ replays = 0 /\ rmain = "none"
  /\ files = <<>> /\ total = NoCount /\ next = 0
  /\ reader = "returned" /\ msgq = <<>> /\ loopEnd = TRUE
  /\ handled = <<>> /\ script = <<>>

Unlocked == [d \in 1..Days |-> IF lock[d] = "replay" THEN "free" ELSE lock[d]]

(* openFiles: every file must exist, and be open nowhere else. *)
StartReplay ==
  /\ rmain # "waiting" /\ replays < MaxReplays
  /\ \E days \in ReplayDays :
       /\ \A n \in DOMAIN days : disk[days[n]].exists /\ lock[days[n]] = "free"
       /\ files' = days
       /\ script' = Recording(days)
       /\ lock' = [d \in 1..Days |->
                     IF \E n \in DOMAIN days : days[n] = d THEN "replay" ELSE lock[d]]
  /\ replays' = replays + 1
  /\ rmain' = "waiting" /\ reader' = "reading" /\ loopEnd' = FALSE
  /\ total' = NoCount /\ next' = 0 /\ msgq' = <<>> /\ handled' = <<>>

(* doExit: the files are closed, then the channel. *)
ReaderReturns ==
  /\ reader' = "returned"
  /\ lock' = Unlocked
  /\ UNCHANGED <<replays, rmain, files, total, next, msgq, loopEnd, handled, script>>

(* readOneFile gets the count; without one the replay is over. *)
OpenFile ==
  /\ reader = "reading" /\ files # <<>> /\ total = NoCount
  /\ IF disk[Head(files)].count = NoCount
     THEN ReaderReturns
     ELSE /\ total' = disk[Head(files)].count /\ next' = 0
          /\ UNCHANGED <<lock, replays, rmain, files, reader, msgq, loopEnd, handled, script>>

(* Mutant: the channel holds one message too many. *)
ReadOneOverCap ==
  /\ reader = "reading" /\ next < total
  /\ Len(msgq) <= Cap
  /\ msgq' = Append(msgq, disk[Head(files)].rec[next])
  /\ next' = next + 1
  /\ UNCHANGED <<lock, replays, rmain, files, total, reader, loopEnd, handled, script>>

(* Mutant: a record that finds the channel full is dropped. *)
ReadOneOrDrop ==
  /\ reader = "reading" /\ next < total
  /\ msgq' = IF Len(msgq) < Cap THEN Append(msgq, disk[Head(files)].rec[next]) ELSE msgq
  /\ next' = next + 1
  /\ UNCHANGED <<lock, replays, rmain, files, total, reader, loopEnd, handled, script>>

(* The next record; one that is missing ends the replay. *)
ReadOne ==
  /\ reader = "reading" /\ next < total
  /\ IF next \notin DOMAIN disk[Head(files)].rec
     THEN ReaderReturns
     ELSE /\ Len(msgq) < Cap
          /\ msgq' = Append(msgq, disk[Head(files)].rec[next])
          /\ next' = next + 1
          /\ UNCHANGED <<lock, replays, rmain, files, total, reader, loopEnd, handled, script>>

NextFile ==
  /\ reader = "reading" /\ next = total
  /\ files' = Tail(files) /\ total' = NoCount
  /\ UNCHANGED <<lock, replays, rmain, next, reader, msgq, loopEnd, handled, script>>

(* Mutant: the reader returns without closing the channel. *)
AllReadUnsaid ==
  /\ reader = "reading" /\ files = <<>>
  /\ lock' = Unlocked
  /\ UNCHANGED replayVars

AllRead == reader = "reading" /\ files = <<>> /\ ReaderReturns

-----------------------------------------------------------------------------
KrangHandles ==
  /\ ~loopEnd /\ msgq # <<>>
  /\ handled' = Append(handled, Head(msgq))
  /\ msgq' = Tail(msgq)
  /\ UNCHANGED <<lock, replays, rmain, files, total, next, reader, loopEnd, script>>

(* A closed channel is always ready: krang may return with messages left. *)
KrangReturns ==
  /\ ~loopEnd /\ reader = "returned"
  /\ loopEnd' = TRUE
  /\ UNCHANGED <<lock, replays, rmain, files, total, next, reader, msgq, handled, script>>

(* main returns, and the process ends with it. *)
ReplayGone(why) ==
  /\ rmain = "waiting"
  /\ rmain' = why
  /\ reader' = "returned" /\ loopEnd' = TRUE
  /\ lock' = Unlocked
  /\ UNCHANGED <<replays, files, total, next, msgq, handled, script>>

AllDone == reader = "returned" /\ ReplayGone("done")

ReplayInterrupted == ReplayGone("interrupted")

ReplayNext ==
  \/ StartReplay \/ OpenFile \/ ReadOne \/ NextFile \/ AllRead
  \/ KrangHandles \/ KrangReturns \/ AllDone \/ ReplayInterrupted
=============================================================================
