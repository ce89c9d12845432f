------------------------------ MODULE AntWriter ------------------------------
(***************************************************************************)
(* krang/tsdb.go: quotes become rows of influxdb.  krang's goroutine        *)
(* appends rows to the buffer of a contract's database; a goroutine for     *)
(* each database, the ant, swaps the buffer for an empty one on a timer     *)
(* and posts what it took in batches.                                      *)
(*                                                                         *)
(* A row is its number among the rows accepted for its database; what is    *)
(* in it is left out.                                                      *)
(***************************************************************************)
EXTENDS Naturals, Sequences

CONSTANTS Contracts, \* the contracts quotes speak of
          Dbs,       \* the databases: the contracts krang trades
          BatchMax   \* ant_batch_num

ASSUME AntAssumption == Dbs \subseteq Contracts /\ BatchMax \in Nat \ {0}

VARIABLES exists,   \* the databases influxdb has
          ants,     \* keys of antm: the databases with a buffer and an ant
          contents, \* ant.contents: the buffer
          pendings, \* what the ant took and has not posted yet
          antAt,    \* where antLoop is
          antExit,  \* whether the exitCh of the ants were closed
          rows,     \* ghost: how many rows were accepted
          stored    \* the rows influxdb stored, in order

antVars == <<exists, ants, contents, pendings, antAt, antExit, rows, stored>>

AntInit ==
  /\ exists \in SUBSET Dbs
  /\ ants = {}
  /\ contents = [d \in Dbs |-> <<>>]
  /\ pendings = [d \in Dbs |-> <<>>]
  /\ antAt = [d \in Dbs |-> "none"]
  /\ antExit = FALSE
  /\ rows = [d \in Dbs |-> 0]
  /\ stored = [d \in Dbs |-> <<>>]

(* ShowDatabase and CreateDatabase: any request may fail, nobody notices.   *)
CreateDatabases == \E D \in SUBSET Dbs : exists' = exists \cup D

(* Check creates the databases that are missing.                            *)
Check ==
  /\ CreateDatabases
  /\ UNCHANGED <<ants, contents, pendings, antAt, antExit, rows, stored>>

StartAnts ==
  /\ ants' = Dbs
  /\ antAt' = [d \in Dbs |-> "select"]
  /\ UNCHANGED <<exists, contents, pendings, antExit, rows, stored>>

(* insertToAntm, which holds the mutex of the buffer.  Quotes of a contract  *)
(* that has no database are ignored.                                       *)
insertToAntm(d) ==
  IF d \in ants
  THEN /\ rows' = [rows EXCEPT ![d] = @ + 1]
       /\ contents' = [contents EXCEPT ![d] = Append(@, rows[d] + 1)]
       /\ UNCHANGED <<exists, ants, pendings, antAt, antExit, stored>>
  ELSE UNCHANGED antVars

(* StoreTick, StoreTrade and StoreIndex write a row; StoreKLine one when    *)
(* the candle is a new one (addKLine > 0); StoreDepth does nothing.         *)
RowsOf(kind) == CASE kind \in {"tick", "trade", "index"} -> {1}
                  [] kind = "kline" -> {0, 1}
                  [] OTHER -> {0}

Store(kind) ==
  \/ 1 \in RowsOf(kind) /\ \E c \in Contracts : insertToAntm(c)
  \/ 0 \in RowsOf(kind) /\ UNCHANGED antVars

CloseAnts ==
  /\ antExit' = TRUE
  /\ UNCHANGED <<exists, ants, contents, pendings, antAt, rows, stored>>

-----------------------------------------------------------------------------
(* Mutant: the buffer is copied and cleared in two critical sections. *)
TakeContentsLate(d) ==
  /\ antAt[d] = "select"
  /\ contents[d] # <<>>
  /\ pendings' = [pendings EXCEPT ![d] = contents[d]]
  /\ antAt' = [antAt EXCEPT ![d] = "posting"]
  /\ UNCHANGED <<exists, ants, contents, antExit, rows, stored>>

(* The timer fires: the ant swaps the buffer. *)
TakeContents(d) ==
  /\ antAt[d] = "select"
  /\ contents[d] # <<>>
  /\ pendings' = [pendings EXCEPT ![d] = contents[d]]
  /\ contents' = [contents EXCEPT ![d] = <<>>]
  /\ antAt' = [antAt EXCEPT ![d] = "posting"]
  /\ UNCHANGED <<exists, ants, antExit, rows, stored>>

BatchLen(d) == IF Len(pendings[d]) < BatchMax THEN Len(pendings[d]) ELSE BatchMax

(* What is left of pendings after the batch. *)
Rest(d) == SubSeq(pendings[d], BatchLen(d) + 1, Len(pendings[d]))

(* The next batch is posted.  It is stored, or not: a failed request is     *)
(* logged and its batch given up.                                          *)
PostBatch(d) ==
  /\ antAt[d] = "posting"
  /\ \/ /\ d \in exists
        /\ stored' = [stored EXCEPT ![d] = @ \o SubSeq(pendings[d], 1, BatchLen(d))]
     \/ UNCHANGED stored
  /\ pendings' = [pendings EXCEPT ![d] = Rest(d)]
  /\ antAt' = [antAt EXCEPT ![d] = IF Rest(d) = <<>> THEN "select" ELSE "posting"]
  /\ UNCHANGED <<exists, ants, contents, antExit, rows>>

(* The ant sees the closed channel and returns; the buffer is not posted.   *)
AntReturns(d) ==
  /\ antAt[d] = "select"
  /\ antExit
  /\ antAt' = [antAt EXCEPT ![d] = "gone"]
  /\ UNCHANGED <<exists, ants, contents, pendings, antExit, rows, stored>>

AntStep(d) == TakeContents(d) \/ PostBatch(d) \/ AntReturns(d)

-----------------------------------------------------------------------------
AntTypeOK ==
  /\ exists \subseteq Dbs /\ ants \subseteq Dbs
  /\ contents \in [Dbs -> Seq(Nat)] /\ pendings \in [Dbs -> Seq(Nat)]
  /\ antAt \in [Dbs -> {"none", "select", "posting", "gone"}]
  /\ \A d \in Dbs : antAt[d] = "posting" <=> pendings[d] # <<>>
  /\ antExit \in BOOLEAN
  /\ rows \in [Dbs -> Nat]
  /\ stored \in [Dbs -> Seq(Nat)]
=============================================================================
