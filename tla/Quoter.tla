-------------------------------- MODULE Quoter --------------------------------
(***************************************************************************)
(* The okex quoter of spider (spider/front/okex.go, utils/ws.go): for each  *)
(* feed (a symbol and a kind of contract) a goroutine keeps one websocket   *)
(* connection, with a reading and a writing goroutine; it closes the        *)
(* connection when either of them ends, and connects again.  It does not    *)
(* wait for the other one, which may still publish what it read.            *)
(*                                                                         *)
(* The exchange is external: it answers the requests of a connection in     *)
(* their order, pushes quotes of the channels it granted, and may break a   *)
(* connection, fall silent or send what does not parse.                    *)
(***************************************************************************)
EXTENDS KfcProducer, SequencesExt

CONSTANTS Feeds,     \* a goroutine RunImpl for each
          Channels,  \* the channels subscribed to, in the order of the requests:
                     \* the ticker, if at all, first (subContractQuote)
          MaxConns,  \* bound: connections made for a feed
          MaxPushes, \* bound: quotes pushed
          MaxFaults  \* bound: connections broken, silent or unreadable

ASSUME QuoterAssumption ==
  /\ Channels \in Seq({"ticker", "1min", "5min", "15min"}) /\ Channels # <<>>
  /\ \A i \in 2..Len(Channels) : Channels[i] # "ticker"
  /\ MaxConns \in Nat /\ MaxPushes \in Nat /\ MaxFaults \in Nat

VARIABLES runAt,   \* where RunImpl of a feed is
          cur,     \* the number of the feed's connection
          conn,    \* every connection made: both ends and what is under way
          pushes, faults

quoterVars == <<runAt, cur, conn, pushes, faults>>

Connections == Feeds \X (1..MaxConns)
Current(f) == <<f, cur[f]>>

Links == {"none", "up", "broken", "silent", "closed"}

(* `asked': the requests written; `answered': how many of them are answered. *)
(* `batch': the quotes of the message the reader is publishing.             *)
NoConn == [link |-> "none", inbox |-> <<>>, asked |-> <<>>, answered |-> 0, granted |-> {},
           reader |-> "none", getSubReply |-> FALSE, batch |-> <<>>, writer |-> "none"]

QuoterInit ==
  /\ runAt = [f \in Feeds |-> "none"]
  /\ cur = [f \in Feeds |-> 0]
  /\ conn = [c \in Connections |-> NoConn]
  /\ pushes = 0
  /\ faults = 0

StartQuoters ==
  /\ runAt' = [f \in Feeds |-> "dialing"]
  /\ UNCHANGED <<cur, conn, pushes, faults>>

-----------------------------------------------------------------------------
(* Mutant: the connection that is given up stays open. *)
WatchNoClose(f) ==
  /\ runAt[f] = "watching"
  /\ "gone" \in {conn[Current(f)].reader, conn[Current(f)].writer}
  /\ runAt' = [runAt EXCEPT ![f] = "dialing"]
  /\ UNCHANGED <<cur, conn, pushes, faults>>

(* RunImpl.  Reconnect tries until it has a connection; then both           *)
(* goroutines start.                                                       *)
Reconnect(f) ==
  /\ runAt[f] = "dialing"
  /\ cur[f] < MaxConns
  /\ runAt' = [runAt EXCEPT ![f] = "watching"]
  /\ cur' = [cur EXCEPT ![f] = @ + 1]
  /\ conn' = [conn EXCEPT ![<<f, cur[f] + 1>>] =
                [@ EXCEPT !.link = "up", !.reader = "read", !.writer = "subscribe"]]
  /\ UNCHANGED <<pushes, faults>>

(* Mutant: only the end of the writer is watched. *)
WatchWriter(f) ==
  /\ runAt[f] = "watching"
  /\ conn[Current(f)].writer = "gone"
  /\ runAt' = [runAt EXCEPT ![f] = "dialing"]
  /\ conn' = [conn EXCEPT ![Current(f)].link = "closed"]
  /\ UNCHANGED <<cur, pushes, faults>>

(* One of them has ended: the connection is closed, and all starts again.   *)
Watch(f) ==
  /\ runAt[f] = "watching"
  /\ "gone" \in {conn[Current(f)].reader, conn[Current(f)].writer}
  /\ runAt' = [runAt EXCEPT ![f] = "dialing"]
  /\ conn' = [conn EXCEPT ![Current(f)].link = "closed"]
  /\ UNCHANGED <<cur, pushes, faults>>

-----------------------------------------------------------------------------
(* Mutant: the ticker is asked for after the candles. *)
SubscribeTickerLast(c) ==
  /\ conn[c].writer = "subscribe"
  /\ conn' = [conn EXCEPT ![c].asked = Reverse(Channels), ![c].writer = "beat"]
  /\ UNCHANGED <<runAt, cur, pushes, faults>>

(* writeLoop.  The requests are written one after the other, whatever       *)
(* becomes of them ...                                                     *)
Subscribe(c) ==
  /\ conn[c].writer = "subscribe"
  /\ conn' = [conn EXCEPT ![c].asked = Channels, ![c].writer = "beat"]
  /\ UNCHANGED <<runAt, cur, pushes, faults>>

(* ... then heartbeats, the first of which to fail ends the loop.           *)
BeatFails(c) ==
  /\ conn[c].writer = "beat"
  /\ conn[c].link \in {"broken", "closed"}
  /\ conn' = [conn EXCEPT ![c].writer = "gone"]
  /\ UNCHANGED <<runAt, cur, pushes, faults>>

-----------------------------------------------------------------------------
(* The exchange.                                                           *)
Arrives(c, m) == [conn EXCEPT ![c].inbox = Append(@, m)]

Answers(c) ==
  /\ conn[c].link = "up"
  /\ conn[c].answered < Len(conn[c].asked)
  /\ LET ch == conn[c].asked[conn[c].answered + 1]
     IN  \E ok \in BOOLEAN :
           conn' = [conn EXCEPT
             ![c].answered = @ + 1,
             ![c].granted = IF ok THEN @ \cup {ch} ELSE @,
             ![c].inbox = Append(@, [type |-> IF ok THEN "granted" ELSE "refused", ch |-> ch])]
  /\ UNCHANGED <<runAt, cur, pushes, faults>>

(* A push of candles may bring several; two stand for that.                 *)
Pushes(c) ==
  /\ conn[c].link = "up"
  /\ pushes < MaxPushes
  /\ pushes' = pushes + 1
  /\ \E ch \in conn[c].granted :
       conn' = Arrives(c, [type |-> "push", ch |-> ch, n |-> pushes + 1,
                           size |-> IF ch = "ticker" THEN 1 ELSE 2, whole |-> TRUE])
  /\ UNCHANGED <<runAt, cur, faults>>

(* A push of candles one of which is malformed; `size': those before it.    *)
PushesMalformed(c) ==
  /\ conn[c].link = "up"
  /\ pushes < MaxPushes /\ faults < MaxFaults
  /\ pushes' = pushes + 1
  /\ faults' = faults + 1
  /\ \E ch \in conn[c].granted \ {"ticker"} :
       conn' = Arrives(c, [type |-> "push", ch |-> ch, n |-> pushes + 1,
                           size |-> 1, whole |-> FALSE])
  /\ UNCHANGED <<runAt, cur>>

Fault(c) ==
  /\ conn[c].link = "up"
  /\ faults < MaxFaults
  /\ faults' = faults + 1
  /\ \/ conn' = [conn EXCEPT ![c].link = "broken"]
     \/ conn' = [conn EXCEPT ![c].link = "silent"]
     \/ conn' = Arrives(c, [type |-> "garbage"])
  /\ UNCHANGED <<runAt, cur, pushes>>

(* Nobody acknowledges the heartbeats, and the system gives the connection  *)
(* up; without heartbeats it would not notice.                             *)
Unacknowledged(c) ==
  /\ conn[c].link = "silent" /\ conn[c].writer = "beat"
  /\ conn' = [conn EXCEPT ![c].link = "broken"]
  /\ UNCHANGED <<runAt, cur, pushes, faults>>

-----------------------------------------------------------------------------
(* readLoop.  A broken connection is read until there is nothing more; of a *)
(* closed one only what the websocket library has in its buffer.           *)
ReadFails(c) ==
  /\ conn[c].reader = "read"
  /\ conn[c].link = "closed" \/ (conn[c].link = "broken" /\ conn[c].inbox = <<>>)
  /\ conn' = [conn EXCEPT ![c].reader = "gone"]
  /\ UNCHANGED <<runAt, cur, pushes, faults>>

(* The quotes parsed from a message.  Of a refused ticker the fields are    *)
(* missing, and the failed conversions leave the prices zero.               *)
Quotes(c, m) ==
  LET quote(i, priced) ==
        [feed |-> c[1], conn |-> c[2], ch |-> m.ch, n |-> m.n, i |-> i, priced |-> priced]
  IN  CASE m.type = "push" -> [i \in 1..m.size |-> quote(i, TRUE)]
        [] m.type = "refused" /\ m.ch = "ticker" ->
             <<[feed |-> c[1], conn |-> c[2], ch |-> m.ch, n |-> 0, i |-> 1, priced |-> FALSE]>>
        [] OTHER -> <<>>

(* Mutant: answers to subscriptions are not looked at. *)
UnreadableNever(m, getSubReply) == m.type = "garbage"

(* What ends the loop: a message that does not parse, a refusal as the      *)
(* first answer, or candles that are none.                                 *)
Unreadable(m, getSubReply) ==
  \/ m.type = "garbage"
  \/ m.type = "refused" /\ (~getSubReply \/ m.ch # "ticker")

(* A message of candles is published up to the one that does not parse; then *)
(* the loop ends (parseNtfKLine).                                           *)
ReadMessageOf(c) ==
  /\ conn[c].reader = "read"
  /\ conn[c].inbox # <<>>
  /\ LET m == Head(conn[c].inbox)
         quotes == IF conn[c].getSubReply /\ ~Unreadable(m, TRUE) THEN Quotes(c, m) ELSE <<>>
     IN  conn' = [conn EXCEPT
           ![c].inbox = Tail(@),
           ![c].getSubReply = TRUE,
           ![c].batch = quotes,
           ![c].reader = IF Unreadable(m, conn[c].getSubReply) THEN "gone"
                         ELSE IF quotes = <<>> THEN "read"
                         ELSE IF m.type = "push" /\ ~m.whole THEN "fail" ELSE "publish"]
  /\ UNCHANGED <<runAt, cur, pushes, faults>>

(* After the last quote of a message. *)
AfterBatch(reader) == IF reader = "publish" THEN "read" ELSE "gone"

(* Mutant: the quotes of a message leave last one first. *)
PublishQuoteBackwards(c) ==
  /\ conn[c].reader \in {"publish", "fail"}
  /\ SendMessage(Last(conn[c].batch))
  /\ conn' = [conn EXCEPT ![c].batch = Front(@),
                          ![c].reader = IF Len(conn[c].batch) = 1 THEN AfterBatch(@) ELSE @]
  /\ UNCHANGED <<runAt, cur, pushes, faults>>

(* okexQuoteReply, quote by quote: the reader waits while kfc is full.      *)
PublishQuote(c) ==
  /\ conn[c].reader \in {"publish", "fail"}
  /\ SendMessage(Head(conn[c].batch))
  /\ conn' = [conn EXCEPT ![c].batch = Tail(@),
                          ![c].reader = IF Len(conn[c].batch) = 1 THEN AfterBatch(@) ELSE @]
  /\ UNCHANGED <<runAt, cur, pushes, faults>>
=============================================================================
