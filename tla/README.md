# Chive: models, checks and proofs

Chive trades crypto-currency futures. Five Go programs talk over Kafka topics
and files:

```
 exchange --quotes--> spider --okex_quote_pub--> krang <--okex_archer_rsp-- archer <--> exchange
                                   |             | |                          ^
                                   v             | +-----okex_archer_req------+
                                  stg            +--rows--> influxdb
                                   |
                                   +--leveldb files, one per day--> replay (krang's loop in-process)
```

This directory holds TLA+ models of the parts that decide what is traded and of
the programs as processes that start, run and stop, the checks TLC makes of
small instances, and the theorems TLAPS proves for all of them. Paths below are
relative to `src/`.

## 1. The system

| component | state | operations | what makes it hard |
|---|---|---|---|
| krang: message loop, keeper, feedback (`krang/krang.go`, `keeper.go`, `feedback.go`, `trade_handler.go`, `strategy_handler.go`) | positions with a validity flag, undone orders, unanswered commands, request serials; all in memory | one message at a time: tick, four kinds of reply; start | what it knows lags behind the exchange; crash forgets everything; replies of an earlier run still arrive |
| krang process (`krang/main/main.go`, `krang/krang.go`) | where main is, krang's loop, kfc, the ants | start in five steps, each of which may fail; serve; stop in order | main stops consumer and producer that krang's loop still uses |
| strategy mavg (`strategy/fsm.go`, `strategy/mavg/*`) | state (normal, defense, shutdown), time in it, loss statistics | `Decide`, `Enter`, `CheckFeedBack` | one state machine for all contracts; limits, emergencies and orders in one tick |
| signals (`strategy/mavg/mavg_handlers.go`) | none of its own | slopes over a window of each line, six cases, a signal | windows cut separately; cases tried in order; old candles |
| candles and averages (`krang/klmem.go`, `krang/magraph.go`) | bounded lists of candles and points | add a candle, detect a crossing, slopes | candles that change while open; integer and float32 time stamps |
| archer: requests (`archer/bows/okex.go`) | the request being served | post it, publish the reply | a post may fail before or after it took effect; no reply then |
| archer process (`archer/bows/bows.go`, `archer/main/server.go`) | main, a bow per exchange, an unbuffered channel to each | hand over, post, reply, exit | main waits for a bow that posts, or has returned; the exit meets a request in progress |
| kfc (`kfc/kfc.go`) | two bounded channels, a goroutine that sends, one per partition that reads | send, receive, exit | failed sends are only logged; full channels; goroutines that miss the exit |
| spider (`spider/front/okex.go`, `utils/ws.go`, `spider/main/server.go`) | a connection with a reading and a writing goroutine per feed | subscribe, parse, publish, reconnect, exit | old and new connection overlap; refused subscriptions; candles repeated and out of order |
| stg (`stg/stg.go`, `stg/main/main.go`) | leveldb file of the day, number of records | store a message in two writes, switch day, exit | crash between the writes; commands to a loop that is gone |
| replay (`replay/replay.go`, `replay/main/main.go`) | open files, bounded channel | read, handle, finish | closing overtakes what is queued; files locked by stg |
| tsdb (`krang/tsdb.go`, `krang/quote_handler.go`) | buffer per contract behind a mutex, an ant per database | append, swap, post batches, exit | the buffer is posted outside the lock; a batch that fails; buffer dropped at exit |
| configuration, logging, generated messages | - | - | not modelled: parsing, formatting, generated code |

What makes each correct: orders leave only on a position krang has reason to
believe, and at most once; what it believes is refreshed and never goes back;
averages and slopes compare like with like; what
passes a channel is neither lost, doubled nor reordered, except that a send which
fails may lose a message or, through a retry, double it; a program that is interrupted finishes what it took and ends; a feed has
all its channels or is connected again; the recording of a day has no holes, no
duplicates and no reordering, and a replay plays it faithfully and ends.

## 2. The modules

| module | models | state and actions against the code |
|---|---|---|
| `TradeMessages` | the two topics and the requests and replies in them | `reqQ`, `rspQ`: the single partition of each topic (`README.md` creates one partition); `Package`: `FixPackage` with run, serial, body |
| `Mavg` | the strategy's decisions, as operators | `Decide`, `SideOrders`, `NextState`, `Losses`, `EnterQueries`: the handlers of `normal_state.go`, `defense_state.go`, `shutdown_state.go`, `statis.go`, `fsm.go` |
| `Krang` | what krang decides | one action per message: `OnTick`, `OnOtherTick`, `HandleReply` (four kinds), `Start`, `Crash`, `PassTime`. krang is one goroutine (`krangLoop`), so an action is a whole handler with all requests it sends |
| `Archer` | what archer and the exchange behind it do with a request | `Serve` takes a request, has the exchange act, and answers or not (`bows.go` `StartCmdLoop`, `okex.go` `Run`); the exchange (`Accept`, `Fill`, `FillResting`) is external, modelled from how archer uses it |
| `Trading` | both, side by side, and the properties | `KrangStep`, `ArcherStep`, `ExchangeStep` |
| `PositionFeed` | the abstract promise: knowledge about a position is one of its states and never goes back within a run | implemented by `Trading` with `truth` and `known` the version ghosts |
| `KLine` | candle kinds, candle memory, averages and crossings of one contract | `Notify`: `getklkind` then `addImpl` with `NewCandle`, `TryCrossPoint`; `Advance`: the exchange's clock |
| `Signals` | the handler of averages, on top of `KLine` | `Segment`, `Slope`: `magraph.go`; `Trend`, `Turn`, `noCrossPointCase`, `doTick`: the cases K1 to K6 of `mavg_handlers.go` |
| `Kfc`, `KfcProducer`, `KfcConsumer` | the two halves of the connector, as actions other modules join to theirs | `SendMessage`, `TakeToSend`, `Sent`: `syncProducerLoop`; `SendRetried`, `SendFails`: what sarama's producer, configured by its defaults (`TobeProducer`), does when an attempt fails, be the message in the topic or not; `PartitionReads`, `PartitionPuts`, `PartitionStops`: `consumerOnePartition`; `ReadMessage`; both exits in two steps, since the client is closed after the channel |
| `AntWriter` | buffers and ants | `insertToAntm` (under the lock), `TakeContents` (under the lock), `PostBatch` (outside it), `AntReturns` |
| `RowStore` | the abstract promise: rows are settled in order, in batches stored whole or lost whole | implemented by `KrangProcess` |
| `KrangProcess` | the krang program: main, krang's loop, kfc, ants | `StartProducer` to `StartKrang`: `RunServer`; `KrangTakes`, `KrangSends`, `KrangHandled`: `krangLoop`; `Interrupt` to `ExitProducer`: `serverLoop` |
| `ArcherProcess` | the archer program: main, bows, kfc | `TakeRequest`, `HandOver`, `Posted`, `Replies`, `ExitBow`; `StartExArcher`, `RunBow`: any of the exchanges may be configured, and which bow stays in its loop; a request that archer cannot read or does not know is dropped |
| `Quoter` | feeds and their connections | `Reconnect`, `Watch`: `RunImpl`; `Subscribe`, `BeatFails`: `writeLoop`; `ReadMessageOf`, `PublishQuote`, `ReadFails`: `readLoop`; the candles before a malformed one are published (`PushesMalformed`, `AfterBatch`); the exchange is external |
| `SpiderProcess` | the spider program: main, quoters, producer | `StartFeeds`, `Interrupt`, `ExitProducer` |
| `Storage` | stg: `stgLoop`, the main goroutine, the clock, the files and their locks | `PutRecord` and `CountRecord` are the two writes of `handleStgMsg`; `TimerFires`, `TakeSwitch`: the command of each second of the first minute; `TakeSignal`, `TakeExit`, `Crash` |
| `Replay` | reader goroutine, channel, krang's loop, main goroutine | `OpenFile`, `ReadOne`, `NextFile`, `AllRead`; `KrangHandles`, `KrangReturns`; `AllDone`, `ReplayInterrupted` |
| `Recording` | storage and replay over the same files, and the properties | |
| `Tape` | the abstract promise: a recording that only grows, replays that play a beginning of it | implemented by `Recording` |
| `TradingProofs` | theorems about `Trading` | |
| `KfcProducerProofs`, `KfcConsumerProofs` | lemmas about either half of kfc | |
| `KrangProcessProofs`, `ArcherProcessProofs`, `SpiderProofs` | theorems about the processes that use them | |
| `KLineProofs` | theorems about `KLine` and `Signals` | |
| `RecordingProofs` | theorems about `Recording` and its refinement of `Tape` | |
| `MCTrading`, `MCKLine`, `MCRecording`, `MCKrangProcess`, `MCArcherProcess`, `MCSpiderProcess` | the instances TLC checks | |

`Krang` and `KrangProcess` look at the same program from two sides: the first
has every decision and treats a handler as one step, the second has every
goroutine and treats a decision as a number of rows and requests. `Archer` and
`ArcherProcess` divide the work likewise. What ties them together is what the
second kind proves: requests and replies keep their order through channel and
loop, which is what the queues of `TradeMessages` assume. They assume more, that
what is delivered is delivered once, and that the code does not give: a retry may
put a request into the topic twice, and archer, which compares no serials, would
execute it twice. `RequestsInOrder` says that nothing else doubles one, and that
the second follows before any later request.

Operators whose comment starts with "Mutant" are deliberate faults; replacing
the definition they stand next to by one must make a property fail, which shows
that the property depends on that code.

Ghosts, not in the code: the version `ver` of a position and of the answers
about it, the run number in a package, `sent`, `unannounced` (`Trading`);
`kind` of a candle (`KLine`); `handled`, `script` (`Replay`); what the producer
`accepted` and sent (`out`), and the number of its failures (`KfcProducer`);
how far `handled` and `taken` got in each partition (`KrangProcess`,
`ArcherProcess`); `rows` accepted for a database (`AntWriter`); the
connection and number a quote carries (`Quoter`).

### Abstractions

* A tick carries what the handlers made of the quotes: a signal, whether
  another contract is in an emergency, and the profit rate of each side as one
  of a few classes around the limits the states compare it with. `Signals`
  models how the first of these comes about.
* Lots are small numbers; prices and money are left out, since nothing that is
  decided depends on them except through the profit rate.
* In `Trading` sending does not block and the topics are unbounded. A send that
  fails is the loss of the request or of its reply; one repeated by a retry is
  left to the process modules, as are the channels with their capacity.
* A failed attempt to send leaves the message in the topic or not, and is followed
  by another or by an error. An attempt that timed out and is written later than
  the messages sent after it is not modelled: the loop sends one at a time.
* In `KrangProcess` a message costs rows and up to `MaxSends` requests; in
  `ArcherProcess` a reply is the request it answers.
* A row is its number; a batch is stored whole or lost whole, as influxdb
  promises for a single write of points to one database.
* Time in a state advances in steps of ten minutes, up to sixty.
* `KLine` keeps an average over a common denominator, so comparison and
  subtraction are exact; float32 is modelled only for time stamps, where it
  matters: 24 bits hold a time of this century to 128 seconds. `Signals` keeps a
  slope as rise and run, and thresholds as hundredths, for the same reason.
* `Storage` has one exchange, as the shipped `build/lapf.cnf`. A crash is one of
  the process; loss of unsynced pages in a power failure is not modelled.

## 3. Runs

Every bound is a constant named in the module that uses it. `expect: violation`
runs show where the code departs from what a comment of it says.

| run | asks | bounds |
|---|---|---|
| `TradingCore` | types, versions in order, refresh; any one request may go unanswered | 1 contract, both directions, 2 orders |
| `TradingStates` | rules of orders with two contracts sharing topics, state machine and statistics, through all strategy states, emergencies and losses | 2 contracts held long, 2 orders, the normal state entered twice |
| `TradingRestart` | order of the pipeline, at most once, feedback cleared by answers of the present run, and the position feed across a restart, with orders that rest and are filled later | 2 runs of krang, 2 orders |
| `TradingRecovers` | liveness: a disabled position is enabled again although answers to orders are lost | fair, 2 orders |
| `KLineBoth` | lines aligned, slopes defined, no rise under a fast line that fell back; slopes over the same candles, buys that rise from below, signals steady within a candle | 25 minutes of 5-minute candles of three prices and 15-minute ones of a fourth, which may be mislabelled; averages of 2 and 3, lists of 3, slopes over 2 candles |
| `RecordSafety` | no holes, in order, one uncounted record at most, right file, a finished replay cut at its tail only; `Tape` is implemented by storage and a replay beside it | 2 days, 4 messages, 3 starts; records may be dropped, switches may fail; 1 replay, queue of 1 |
| `RecordEnds` | liveness: an interrupt stops storage, and a replay ends | fair, 2 messages, 2 starts; records and counts may fail, switches not |
| `KrangExits` | messages in order through all channels, requests in order with no more lost or doubled than attempts failed, a producer while krang may send, `RowStore` implemented; liveness: what was read is handled, an interrupt ends the process | fair; 2 partitions (quotes and replies), 2 messages, channels of 1, 1 failed attempt, 1 request per message, batches of 1, 2 contracts of which one has a database |
| `ArcherExits` | requests finished before the exit; liveness: main waits for ever only for a bow that returned or whose post never ends, and otherwise an interrupt ends the process | fair; 1 partition with requests for okex and bitfinex, either configured or not; 4 messages, channels of 1, 1 failed attempt |
| `SpiderQuotes` | quotes of a connection in order, none empty, all channels or none; liveness: a dead link is replaced, its goroutines end, an interrupt ends the process | fair; 1 feed, a ticker and a candle channel, 2 connections, 2 pushes, whole or with a malformed candle, 1 fault, channel of 1, 1 failed attempt |

Why the bounds are enough to be of interest: two orders let an order meet the
answer to a query asked before another, and let a command stay in the feedback
while another is answered; two runs let requests of one be answered in the
next; in six candles with averages of 2 and 3 and lists of 3 every list overflows, and
turns are bought before and after the slow line covers the window; two
days with three starts let a crash happen before, at and after a switch. A
queue of one makes every goroutine that fills it wait for the one that empties
it, with one message in its hands. Two partitions and two messages let a blocked
partition compete with one that is not; four requests in `ArcherExits` are one
each for main, the bow, the channel and the partition. Two connections let the
old reader publish after the new one began. One failed attempt is enough for a
message to be lost, doubled, or stored and reported as failed. `OneUncounted`
speaks of runs in which every count is written, so a count may fail only in
`RecordEnds`, where a replay then meets a file without one.

Deadlock is checked in the trading and candle runs. It is not in the recording
runs and in those of the three processes: there the bounds, and the end of the
process, let everything come to rest, as the real processes do when they are
stopped and nobody starts them. That they stop only where they may is what the
liveness properties of these runs say.

### Fairness

* `Trading!FairSpec`: archer serves and krang handles replies (both loops have
  no blocking condition), krang is started, and quiet ticks of every followed
  contract keep coming. Nothing is assumed of signals, losses or crashes.
* `Recording!FairSpec`: goroutines that can step do. A Go `select` picks among
  ready channels at random, so taking a signal or a command is strongly fair, and
  so is krang's taking of a replayed message; storage needs only weak fairness for
  its two writes. Nothing is assumed of messages, days, interrupts,
  crashes, or of an operator restarting a process.
* `KrangProcess!FairSpec`, `ArcherProcess!FairSpec`, `SpiderProcess!FairSpec`:
  goroutines that can step do. Where an exit competes with a message in a
  `select`, or a rendezvous needs its other side to be at the select, taking it
  is strongly fair, for the same reason. The http client of archer has no time-out
  (`archer/bows/okex.go:568`), so a post of a bow need not end, and the handing
  over of the exit is fair only while every bow is at its channel: `doExit` may
  wait for another one. The client of influxdb has none either; there a post is
  taken to be answered or to fail, and the liveness of krang rests on it. A dial that
  is tried again and again succeeds in the end (`utils/ws.go`), and the operating
  system gives up a tcp connection whose data nobody acknowledges. Nothing is
  assumed of interrupts, published messages, failed starts, or of the exchange.

### Where the code and its documentation differ

Each of these is a run that TLC must find violated:

| run | statement | what happens |
|---|---|---|
| `ActsOnStale` | `strategy/mavg/normal_state.go:80-81` "act on the newest position" | an answer to an older query makes the position valid while an order is under way |
| `KindMixed` | `strategy/mavg/mavg_handlers.go:111` "use the 5 minute candles" | "15min" contains "5min", and map order decides |

Others were met while modelling. The model follows the code in each of them;
none of them has a run:

* `strategy/mavg/normal_state.go:12` says no adding to a position, but `GetPos`
  (`krang/keeper.go:338`) invents a flat valid entry, so a tick before the first
  answer can open on top of what is held.
* `strategy/mavg/shutdown_state.go:40` says half an hour; line 45 waits 20 minutes.
* `normal_state.go:84` says that over the loss limit the defense state is
  entered; an emergency in the tick that reaches the limit leads through
  shutdown back to normal, which raises the limit.
* `strategy/mavg/mavg.go:91-92` has the feedback tell whether earlier orders were
  executed; serials start again in every run of krang, so the answer to an order
  of an earlier run takes a command of this run off it. `ClearedOnlyIfExecuted`
  therefore speaks of answers to the present run, and holds of them however often
  krang is started.
* `krang/keeper.go:180-181` says an order that is filled is removed; it is
  queried once only, when it may still rest.
* `protocol/defs.go:58` has `top2down` come from above; `magraph.go:333` reports
  a rise from equality so. `RisenIsAbove` has no counterpart for falls.
* `stg/main/main.go:69` exits on an interrupt; after a failed switch main waits
  at line 78 for a loop that has returned. `StorageStops` is checked while
  switches succeed.
* `archer/bows/okex.go:2-3` has the back end go on querying when a query fails;
  nothing asks again once the feedback is empty, so a lost answer to a query
  can leave a position disabled. `PositionRecovers` is therefore checked with
  answers to orders lost, not with answers to queries.
* `krang/magraph.go:320` says that no point in common "can only mean that they
  coincide"; time stamps kept as float32 coincide, the lines do not, and a
  crossing then has no direction.
* `replay/main/main.go:69` reports "replay is all done." while messages are left
  in the channel. `OnlyTheTailIsCut` shows that nothing else is missing.
* `strategy/mavg/mavg_handlers.go:233` describes a sell at a turn as fast line
  down, slow line up; the condition does not ask for the slow line.
* `mavg_handlers.go:79` has a sell follow a crossing from above; equal averages
  that then rise are recorded as `top2down` (`magraph.go:333`), so a sell may be
  given with the fast line above the slow one.
* `archer/bows/bows.go:145` and `:250`: with bitfinex in the configuration its
  first request blocks main for ever, since that bow returns at once, and so does
  `doExit` without any request; a post that never ends blocks either likewise.
  `HandedOver` and `InterruptEnds` of `ArcherProcess` name these two cases and
  say that there is no other.
* `kfc/kfc.go:57-61` leaves retries at sarama's default with a producer that is
  not idempotent, so that a lost acknowledgement doubles a message, and an error
  logged at line 178 does not mean that it is not in the topic.

## 4. Proofs

The theorems hold for every value of the constants that the named assumptions
allow (`KrangAssumption`, `ArcherAssumption`, `KLineAssumption` and so on; an
assumption about bounds is only that they are numbers). TLC found each formula
true on a small instance before it was proved; the inductive invariants have one
step per action.

**Trading** (`TradingProofs`), for every set of contracts
and ticks:

* `TypeCorrect`: `Spec => []TypeOK`. `TypeOK` is inductive: it contains that a
  run that has not started has numbered nothing and that unanswered commands
  carry serials of this run, which the handlers need.
* `VersionsCorrect`: `Spec => []VersionsInOrder`. What krang knows, the answers
  in flight in their order, and the exchange's position form a chain of
  versions. Inductive relative to `TypeOK`: the head of the reply queue is not
  older than what it replaces, and an answer is appended with the exchange's
  present version.
* `StaleCorrect`: `Spec => []StaleIsRefreshed`. Needs both of the above: when
  the head of the reply queue is consumed and it was the only refresh, either
  it carried the newest version or its handling asked again.
* `FeedCorrect`: `Spec => ImplementsPositionFeed`. Each step maps to `Change`,
  `Learn`, `Forget` or a stutter of `PositionFeed`; `Learn` needs
  `VersionsInOrder` for the head of the queue.
* `RepliesCorrect`, `OnceCorrect`: `RepliesInIssueOrder` and `AtMostOnce`, from
  one invariant, `IssueInv`: requests, replies and the exchange's book are each
  in issue order, the latter two behind all requests, and every serial is below
  the one krang will give next in its run. The last part is what makes a new
  request the latest of all.
* `DisciplineCorrect`: `Spec => OrderDiscipline`, an action property: steps other
  than a tick append no order, and a tick's orders come from the sides of one
  decision. It says which positions orders leave on and when one may open; it does
  not say that an order never adds to what is held (see above).
* `ClearedCorrect`: `Spec => ClearedOnlyIfExecuted`, however often krang is
  started. It rests on `IssueInv` and on `AnswersTrue`: each success in flight
  carries the stamp of an order in the exchange's book. Of answers to earlier runs
  it says nothing: they carry serials that may be those of other commands.

**kfc and the processes** (`KfcProducerProofs`, `KfcConsumerProofs`,
`KrangProcessProofs`, `ArcherProcessProofs`), for all capacities, partitions,
contracts and batches. The first two have the lemmas about either half, which
each process uses as far as it has that half.

* krang: `Inv` joins the types with `Phases`, which says for every place of main
  what the loops beside it may be doing; from it follow `TypeCorrect` and
  `ProducerCorrect`. A step is split into what it does to requests, to
  messages and to rows, so that `RequestInv` and `RowInv` are each proved against
  the moves of one part (`RequestMoves`, `AntMoves`) instead of every action. They give `RequestsCorrect`
  (requests are lost and doubled by failed attempts only: `RequestInv` counts both
  against `failures`) and `RowsCorrect`, which is about the buffer and the hands of
  the ant and is what the next one needs. `RowStoreCorrect` (`Spec => ImplementsRowStore`) maps the
  posting of a batch to `Settle` of as many rows, and everything else to `Accept`
  or a stutter. `MessagesCorrect` (`NothingLostOnTheWay`): of a partition that is
  being read, the messages in the channel have exactly the numbers after the
  last one handled up to the last one put, in order (`WayInv`); of a partition
  that is not, the channel has none.
* archer: `Phases` again, and `Holders`, which says who has a request; from both
  follow `TypeCorrect`, `RequestsCorrect`, `RepliesCorrect`. `RequestsCorrect` speaks
  of the requests main or a bow has in its hands; those in the channel and with
  the partitions stay there when archer ends. The assumption is
  that no exchange is named like the main goroutine.

**Spider** (`SpiderProofs`), for all feeds, channels, capacities, numbers of
connections, pushes and faults. `QuoterAssumption` says that no channel after
the first is the ticker, which is the order in `subContractQuote`.

* `SpiderTyped`: `TypeOK`, from `SpiderTypes`, which adds that connections a
  feed has not come to are untouched and that an exchange answers only what
  it was asked, in order.
* A step does to a connection one of a few things (`Opens`, `Turns`, `Gets`,
  `Reads`, `Hands`), and to what the broker accepted at most one (`Sends`). The
  invariants are proved against these moves (`QuoteMoves`), not once per action.
* `AllOrNone`: `AllChannelsOrNone`. A connection that is still served has been
  refused none of the answers it has read (`AnswerInv`).
* `QuotesInOrder`, `TickersPriced`: `InConnectionOrder`, `NoEmptyTicker`, from
  `QuoteInv`: pushes on a connection are numbered upwards, a batch under
  publication precedes what is still in the inbox, and what entered the channel
  precedes both. From there on `BrokerInv` takes over: queue, loop and topic come
  from what entered, in order, though the topic may repeat one after a failed
  attempt. Old and new readers of a feed overlap, so the order is one per
  connection, and no stronger one holds.

**Recording** (`RecordingProofs`), for any number of
days, messages, starts and replays:

* `SwitchesInTime`: `WritesToday`, from `ClockInv` (a main goroutine that saw the
  new day, or is past its first minute, has had the file switched).
* `NothingMissing`: `NoHoles`, from `DiskInv` (what the count on disk and
  the one in memory cover is there, and so is a record about to be counted).
* `InOrder`: `RecordedInOrder`, from `OrderInv`. Records that a count does not
  cover may be overwritten, so the invariant speaks of the numbers that are
  `Valid`, those the loop or the count will keep (`Top`); it puts what they hold
  before everything queued, and has no file of a later day.
* `OneAtMost`: `OneUncounted`, under the assumption `"count" \notin Failures`, and
  false without it.
* `RecordingTyped`: `TypeOK`, which needs `DiskInv` and `OrderInv` for what a
  replay reads.
* `TailCut`: `OnlyTheTailIsCut`, and `TapeCorrect`: `Spec => ImplementsTape`. They
  need who may touch which file (`LockInv`: storage has that of its trading day, a
  reader those it has not finished), and what a replay is doing (`PlayInv`: what
  was handled and what is queued are together a beginning of the script, and the
  rest of the script is what remains of the open file, joined with the files
  after it). The joining is a recursive function; a fact about it for all lengths
  is proved by taking the least length at which it would fail.

**Candles and signals** (`KLineProofs`), for all lengths of averages and lists, all kinds,
and all prices:

* `AlignedCorrect`, `SlopesCorrect`: from `Inv`, which says of the lists of a kind,
  read from their end, that they belong to the same candles, that candles are
  a period apart, and how the lists' lengths depend on each other.
* `TypeCorrect`: `TypeOK`. That an average is a number needs the sum of the
  closing prices to be one. The sum is a recursive function, and the prover
  has no induction for it; the proof takes the least length at which the sum
  would not be a number, and finds a smaller one.
* `RisenCorrect`: `RisenIsAbove`. A fast line that starts below the slow one and
  meets it does not end below, and one that does not start below falls below
  only by meeting it (`Meeting`, an argument about signs); the first is how a
  rise is recorded, the second why the record is replaced when it falls back.
* `SteadyCorrect`: `SteadyWithinCandle`, an action property. A candle pushed again
  leaves lines and crossings as they are, and a new one begins later than the
  last. It needs that no candle begins after the clock (`InTime`): then one that
  was too old does not become young again as time passes.
* `CandlesCorrect`: `SameCandles`. Once the slow line covers the window, the
  window of the fast line is that of the slow one moved by the difference of
  their lengths (`SameWindows`), so that all three segments begin and end at the
  same two candles (`SameSegments`).
* `BuysCorrect`: `BuysRise`, from the last and from `AllApart`: the third line is
  at each candle the distance of the other two. For turns it has the condition of
  `CandlesCorrect` (`Covered`), without which it is false: before the slow line
  reaches back to the beginning of the window, its slope begins at a later candle
  than that of the fast one, and the fast line may have been above. Without the
  condition TLC finds such a buy in the instance of `KLineBoth`.

Only proved, and in no run: `TypeOK` of the two processes and of `KLine`,
`RowsInOrder` (what `RowStoreCorrect` rests on) and `RepliesHaveProducer`.

Only model-checked: the liveness properties, and the two statements that the runs
`ActsOnStale` and `KindMixed` show to be violated.

All liveness (`PositionRecovers`, `StorageStops`, `ReplayEnds`, `InterruptEnds`,
`HandedOver`, `ReadIsHandled`, `LinkIsReplaced`, `OldOnesEnd`) stays with TLC:
the prover does not handle fairness and `ENABLED`. Every other property of a
passing run is the statement of a theorem.

## 5. Not modelled, and what could follow

* Cancelling, transferring and the query of orders by status: krang and archer
  have the code, no strategy issues them.
* Money: krang keeps it and nothing is decided on it.
* The radical state: no state leads to it.
* The bitfinex quoter: it prints what it parses and publishes nothing.
* Depth, trades and the index: spider does not subscribe to them.
  `FindCrossPoints` of `magraph.go` has no caller.
* Parsing of JSON, the byte layout of packages, configuration, logging, and
  generated code: no state of the trading system depends on how they do it.

What could follow: a composition of `Quoter` with `KLine`, which now assumes of
candles only that they may be repeated and late; the safety half of the liveness
properties, such as that a program which was interrupted never starts anything
new.
