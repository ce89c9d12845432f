----------------------------- MODULE SpiderProofs -----------------------------
(***************************************************************************)
(* Proofs about the spider process, for every set of feeds, every list of   *)
(* channels with the ticker first, every capacity and every bound.          *)
(***************************************************************************)
EXTENDS SpiderProcess, KfcProducerProofs

Names == {Channels[i] : i \in 1..Len(Channels)}

(* What the exchange puts on a connection. *)
Packet == [type : {"granted", "refused"}, ch : Names]
          \cup [type : {"push"}, ch : Names, n : 1..MaxPushes, size : {1, 2},
               whole : BOOLEAN]
          \cup [type : {"garbage"}]

Conn == [link : Links, inbox : Seq(Packet), asked : {<<>>, Channels},
         answered : 0..Len(Channels), granted : SUBSET Names,
         reader : {"none", "read", "publish", "fail", "gone"}, getSubReply : BOOLEAN,
         batch : Seq(Quote), writer : {"none", "subscribe", "beat", "gone"}]

(* Answers are given to requests, and only what was asked for is granted.   *)
Consistent(k) ==
  /\ k.reader \in {"publish", "fail"} <=> k.batch # <<>>
  /\ k.answered <= Len(k.asked)
  /\ k.granted \subseteq {Channels[i] : i \in 1..k.answered}

ConnTypes ==
  /\ conn \in [Connections -> Conn]
  /\ \A c \in Connections : Consistent(conn[c])

FeedTypes ==
  /\ runAt \in [Feeds -> {"none", "dialing", "watching"}]
  /\ cur \in [Feeds -> 0..MaxConns]
  /\ pushes \in 0..MaxPushes /\ faults \in 0..MaxFaults
  /\ \A f \in Feeds : runAt[f] = "watching" => cur[f] >= 1
  /\ \A c \in Connections : c[2] > cur[c[1]] => conn[c] = NoConn

-----------------------------------------------------------------------------
(* What a step may do to a connection.                                      *)
Others(c) == \A d \in Connections : d # c => conn'[d] = conn[d]

Opens(c) ==
  /\ conn[c] = NoConn /\ Others(c)
  /\ conn'[c] = [NoConn EXCEPT !.link = "up", !.reader = "read", !.writer = "subscribe"]

(* The goroutines and the link change, not what is under way.               *)
Turns(c) ==
  /\ Others(c)
  /\ conn'[c].inbox = conn[c].inbox /\ conn'[c].batch = conn[c].batch
  /\ conn'[c].answered = conn[c].answered /\ conn'[c].granted = conn[c].granted
  /\ conn'[c].getSubReply = conn[c].getSubReply
  /\ conn'[c].asked \in {conn[c].asked, Channels}
  /\ \/ conn'[c].reader = conn[c].reader
     \/ conn[c].reader = "read" /\ conn'[c].reader = "gone"

Gets(c, m) ==
  /\ Others(c)
  /\ conn'[c].inbox = Append(conn[c].inbox, m) /\ conn'[c].batch = conn[c].batch
  /\ conn'[c].getSubReply = conn[c].getSubReply /\ conn'[c].asked = conn[c].asked
  /\ conn'[c].reader = conn[c].reader

GetsAnswer(c, m) ==
  /\ Gets(c, m) /\ pushes' = pushes
  /\ conn[c].asked = Channels /\ conn[c].answered < Len(Channels)
  /\ m.ch = Channels[conn[c].answered + 1]
  /\ conn'[c].answered = conn[c].answered + 1
  /\ \/ m.type = "granted" /\ conn'[c].granted = conn[c].granted \cup {m.ch}
     \/ m.type = "refused" /\ conn'[c].granted = conn[c].granted

GetsOther(c, m) ==
  /\ Gets(c, m)
  /\ conn'[c].answered = conn[c].answered /\ conn'[c].granted = conn[c].granted
  /\ \/ m.type = "garbage" /\ pushes' = pushes
     \/ m.type = "push" /\ m.ch \in conn[c].granted /\ m.n = pushes + 1 /\ pushes' = pushes + 1

(* The quotes the reader makes of the next message.                         *)
Parsed(c, m) ==
  IF conn[c].getSubReply /\ ~Unreadable(m, TRUE) THEN Quotes(c, m) ELSE <<>>

Reads(c) ==
  /\ Others(c) /\ conn[c].reader = "read" /\ conn[c].inbox # <<>>
  /\ conn'[c].inbox = Tail(conn[c].inbox)
  /\ conn'[c].getSubReply = TRUE
  /\ conn'[c].asked = conn[c].asked
  /\ conn'[c].answered = conn[c].answered /\ conn'[c].granted = conn[c].granted
  /\ conn'[c].batch = Parsed(c, Head(conn[c].inbox))
  /\ Unreadable(Head(conn[c].inbox), conn[c].getSubReply) => conn'[c].reader = "gone"

Hands(c) ==
  /\ Others(c) /\ conn[c].reader \in {"publish", "fail"} /\ conn[c].batch # <<>>
  /\ conn'[c].inbox = conn[c].inbox
  /\ conn'[c].getSubReply = conn[c].getSubReply
  /\ conn'[c].asked = conn[c].asked
  /\ conn'[c].answered = conn[c].answered /\ conn'[c].granted = conn[c].granted
  /\ conn'[c].batch = Tail(conn[c].batch)
  /\ conn'[c].reader \in {"read", "publish", "fail", "gone"}
  /\ conn[c].reader = "fail" => conn'[c].reader \in {"fail", "gone"}

-----------------------------------------------------------------------------
(* Each action makes one of these moves, and keeps the types.               *)
LEMMA ConnFields ==
  ASSUME ConnTypes, NEW c \in Connections
  PROVE  /\ conn[c] \in Conn /\ Consistent(conn[c])
         /\ conn[c].inbox \in Seq(Packet) /\ Len(conn[c].inbox) \in Nat
         /\ conn[c].batch \in Seq(Quote) /\ Len(conn[c].batch) \in Nat
         /\ conn[c].answered \in Nat /\ conn[c].granted \subseteq Names
         /\ Len(Channels) \in Nat
<1>1. conn[c] \in Conn /\ Consistent(conn[c])
  BY DEF ConnTypes
<1>2. Len(Channels) \in Nat
  BY QuoterAssumption, LenProperties
<1>3. /\ conn[c].inbox \in Seq(Packet) /\ conn[c].batch \in Seq(Quote)
      /\ conn[c].answered \in Nat /\ conn[c].granted \subseteq Names
  BY <1>1, <1>2 DEF Conn
<1> QED BY <1>1, <1>2, <1>3, LenProperties

(* One connection changes, to a state of the right type. *)
LEMMA OneChanges ==
  ASSUME ConnTypes, NEW c \in Connections, NEW k \in Conn, Consistent(k),
         conn' = [conn EXCEPT ![c] = k]
  PROVE  ConnTypes' /\ Others(c) /\ conn'[c] = k
<1>1. Others(c) /\ conn'[c] = k
  BY DEF ConnTypes, Others
<1> QED BY <1>1 DEF ConnTypes, Others

LEMMA SubscribeMove ==
  ASSUME ConnTypes, NEW c \in Connections, Subscribe(c)
  PROVE  ConnTypes' /\ Turns(c)
<1> DEFINE k == [conn[c] EXCEPT !.asked = Channels, !.writer = "beat"]
<1>1. conn' = [conn EXCEPT ![c] = k]
  BY DEF Subscribe
<1>2. conn[c] \in Conn /\ Consistent(conn[c]) /\ Len(Channels) \in Nat
  BY ConnFields
<1>3. k \in Conn /\ Consistent(k)
  <2>1. k \in Conn
    BY <1>2 DEF Conn
  <2>2. /\ k.asked = Channels /\ k.answered = conn[c].answered
        /\ k.granted = conn[c].granted /\ k.reader = conn[c].reader
        /\ k.batch = conn[c].batch /\ conn[c].answered \in 0..Len(Channels)
    BY <1>2 DEF Conn
  <2> QED BY <1>2, <2>1, <2>2 DEF Consistent
<1>4. ConnTypes' /\ Others(c) /\ conn'[c] = k
  BY <1>1, <1>3, OneChanges
<1> QED BY <1>2, <1>4 DEF Conn, Turns

(* The link or a goroutine of a connection ends. *)
LEMMA TurnMove ==
  ASSUME ConnTypes, NEW c \in Connections,
         \/ BeatFails(c) \/ Unacknowledged(c) \/ ReadFails(c)
         \/ \E l \in Links : conn' = [conn EXCEPT ![c].link = l]
  PROVE  ConnTypes' /\ Turns(c)
<1>0. conn[c] \in Conn /\ Consistent(conn[c])
  BY ConnFields
<1>1. CASE BeatFails(c)
  <2> DEFINE k == [conn[c] EXCEPT !.writer = "gone"]
  <2>1. conn' = [conn EXCEPT ![c] = k]
    BY <1>1 DEF BeatFails
  <2>2. k \in Conn /\ Consistent(k)
    BY <1>0 DEF Conn, Consistent
  <2>3. ConnTypes' /\ Others(c) /\ conn'[c] = k
    BY <2>1, <2>2, OneChanges
  <2> QED BY <1>0, <2>3 DEF Conn, Turns
<1>2. CASE ReadFails(c)
  <2> DEFINE k == [conn[c] EXCEPT !.reader = "gone"]
  <2>1. conn' = [conn EXCEPT ![c] = k] /\ conn[c].reader = "read"
    BY <1>2 DEF ReadFails
  <2>2. k \in Conn /\ Consistent(k)
    BY <1>0, <2>1 DEF Conn, Consistent
  <2>3. ConnTypes' /\ Others(c) /\ conn'[c] = k
    BY <2>1, <2>2, OneChanges
  <2> QED BY <1>0, <2>1, <2>3 DEF Conn, Turns
<1>3. ASSUME NEW l \in Links, conn' = [conn EXCEPT ![c].link = l]
      PROVE  ConnTypes' /\ Turns(c)
  <2> DEFINE k == [conn[c] EXCEPT !.link = l]
  <2>1. conn' = [conn EXCEPT ![c] = k]
    BY <1>3
  <2>2. k \in Conn /\ Consistent(k)
    BY <1>0 DEF Conn, Consistent
  <2>3. ConnTypes' /\ Others(c) /\ conn'[c] = k
    BY <2>1, <2>2, OneChanges
  <2> QED BY <1>0, <2>3 DEF Conn, Turns
<1>4. CASE Unacknowledged(c)
  BY <1>3, <1>4 DEF Unacknowledged, Links
<1> QED BY <1>1, <1>2, <1>3, <1>4

LEMMA AnswersMove ==
  ASSUME ConnTypes, NEW c \in Connections, Answers(c)
  PROVE  ConnTypes' /\ \E m \in Packet : GetsAnswer(c, m)
<1> DEFINE ch == conn[c].asked[conn[c].answered + 1]
<1>0. /\ conn[c] \in Conn /\ Consistent(conn[c]) /\ Len(Channels) \in Nat
      /\ conn[c].answered \in Nat /\ conn[c].inbox \in Seq(Packet)
      /\ conn[c].answered < Len(conn[c].asked) /\ pushes' = pushes
  BY ConnFields DEF Answers
<1>1. conn[c].asked = Channels /\ conn[c].answered + 1 \in 1..Len(Channels)
  <2>1. conn[c].asked \in {<<>>, Channels}
    BY <1>0 DEF Conn
  <2>2. conn[c].asked # <<>>
    BY <1>0, EmptySeq
  <2> QED BY <1>0, <2>1, <2>2
<1>2. ch \in Names /\ ch = Channels[conn[c].answered + 1]
  BY <1>1 DEF Names
<1>3. PICK ok \in BOOLEAN :
         conn' = [conn EXCEPT
           ![c].answered = @ + 1,
           ![c].granted = IF ok THEN @ \cup {ch} ELSE @,
           ![c].inbox = Append(@, [type |-> IF ok THEN "granted" ELSE "refused", ch |-> ch])]
  BY DEF Answers
<1> DEFINE m == [type |-> IF ok THEN "granted" ELSE "refused", ch |-> ch]
           g == IF ok THEN conn[c].granted \cup {ch} ELSE conn[c].granted
           k == [conn[c] EXCEPT !.answered = @ + 1, !.granted = g, !.inbox = Append(@, m)]
<1>4. m \in Packet /\ m.type \in {"granted", "refused"} /\ m.ch = ch
  BY <1>2 DEF Packet
<1>5. conn' = [conn EXCEPT ![c] = k]
  BY <1>3
<1>6. Append(conn[c].inbox, m) \in Seq(Packet)
  BY <1>0, <1>4, AppendProperties
<1>7. g \subseteq {Channels[i] : i \in 1..conn[c].answered + 1} /\ g \subseteq Names
  <2>1. conn[c].granted \subseteq {Channels[i] : i \in 1..conn[c].answered + 1}
    BY <1>0 DEF Consistent
  <2>2. ch \in {Channels[i] : i \in 1..conn[c].answered + 1}
    BY <1>0, <1>2
  <2>3. conn[c].granted \subseteq Names
    BY <1>0 DEF Conn
  <2> QED BY <1>2, <2>1, <2>2, <2>3
<1>8. k \in Conn
  <2>1. conn[c].answered + 1 \in 0..Len(Channels) /\ g \in SUBSET Names
    BY <1>0, <1>1, <1>7
  <2> HIDE DEF m, g
  <2> QED BY <1>0, <1>6, <2>1 DEF Conn
<1>9. Consistent(k)
  <2> HIDE DEF m, g
  <2> QED BY <1>0, <1>1, <1>7 DEF Conn, Consistent
<1>10. ConnTypes' /\ Others(c) /\ conn'[c] = k
  <2> HIDE DEF k
  <2> QED BY <1>5, <1>8, <1>9, OneChanges
<1>11. Gets(c, m)
  <2> HIDE DEF m, g
  <2> QED BY <1>0, <1>10 DEF Gets, Conn
<1>12. conn'[c].answered = conn[c].answered + 1 /\ conn'[c].granted = g
  <2> HIDE DEF m, g
  <2> QED BY <1>0, <1>10 DEF Conn
<1>13. GetsAnswer(c, m)
  BY <1>0, <1>1, <1>2, <1>4, <1>11, <1>12 DEF GetsAnswer
<1> QED BY <1>4, <1>10, <1>13

(* Anything else the exchange puts on a connection. *)
LEMMA ArrivesMove ==
  ASSUME ConnTypes, NEW c \in Connections, NEW m \in Packet, conn' = Arrives(c, m)
  PROVE  /\ ConnTypes' /\ Gets(c, m)
         /\ conn'[c].answered = conn[c].answered /\ conn'[c].granted = conn[c].granted
<1> DEFINE k == [conn[c] EXCEPT !.inbox = Append(@, m)]
<1>0. /\ conn[c] \in Conn /\ Consistent(conn[c]) /\ conn[c].inbox \in Seq(Packet)
  BY ConnFields
<1>1. conn' = [conn EXCEPT ![c] = k]
  BY DEF Arrives
<1>2. Append(conn[c].inbox, m) \in Seq(Packet)
  BY <1>0, AppendProperties
<1>3. k \in Conn /\ Consistent(k)
  BY <1>0, <1>2 DEF Conn, Consistent
<1>4. ConnTypes' /\ Others(c) /\ conn'[c] = k
  BY <1>1, <1>3, OneChanges
<1> QED BY <1>0, <1>4 DEF Gets, Conn

LEMMA PushesMove ==
  ASSUME ConnTypes, FeedTypes, NEW c \in Connections, Pushes(c)
  PROVE  ConnTypes' /\ \E m \in Packet : GetsOther(c, m)
<1>1. PICK ch \in conn[c].granted :
         conn' = Arrives(c, [type |-> "push", ch |-> ch, n |-> pushes + 1,
                             size |-> IF ch = "ticker" THEN 1 ELSE 2, whole |-> TRUE])
  BY DEF Pushes
<1> DEFINE m == [type |-> "push", ch |-> ch, n |-> pushes + 1,
                 size |-> IF ch = "ticker" THEN 1 ELSE 2, whole |-> TRUE]
<1>2. pushes + 1 \in 1..MaxPushes /\ pushes' = pushes + 1
  BY QuoterAssumption DEF Pushes, FeedTypes
<1>3. ch \in Names
  BY ConnFields
<1>4. m \in Packet /\ m.type = "push" /\ m.ch = ch /\ m.n = pushes + 1
  BY <1>2, <1>3 DEF Packet
<1> HIDE DEF m
<1>5. conn' = Arrives(c, m)
  BY <1>1 DEF m
<1>6. /\ ConnTypes' /\ Gets(c, m)
      /\ conn'[c].answered = conn[c].answered /\ conn'[c].granted = conn[c].granted
  BY <1>4, <1>5, ArrivesMove
<1> QED BY <1>2, <1>4, <1>6 DEF GetsOther

LEMMA MalformedMove ==
  ASSUME ConnTypes, FeedTypes, NEW c \in Connections, PushesMalformed(c)
  PROVE  ConnTypes' /\ \E m \in Packet : GetsOther(c, m)
<1>1. PICK ch \in conn[c].granted \ {"ticker"} :
         conn' = Arrives(c, [type |-> "push", ch |-> ch, n |-> pushes + 1,
                             size |-> 1, whole |-> FALSE])
  BY DEF PushesMalformed
<1> DEFINE m == [type |-> "push", ch |-> ch, n |-> pushes + 1, size |-> 1, whole |-> FALSE]
<1>2. pushes + 1 \in 1..MaxPushes /\ pushes' = pushes + 1
  BY QuoterAssumption DEF PushesMalformed, FeedTypes
<1>3. ch \in Names
  BY ConnFields
<1>4. m \in Packet /\ m.type = "push" /\ m.ch = ch /\ m.n = pushes + 1
  BY <1>2, <1>3 DEF Packet
<1> HIDE DEF m
<1>5. conn' = Arrives(c, m)
  BY <1>1 DEF m
<1>6. /\ ConnTypes' /\ Gets(c, m)
      /\ conn'[c].answered = conn[c].answered /\ conn'[c].granted = conn[c].granted
  BY <1>4, <1>5, ArrivesMove
<1> QED BY <1>1, <1>2, <1>4, <1>6 DEF GetsOther

LEMMA FaultMove ==
  ASSUME ConnTypes, NEW c \in Connections, Fault(c)
  PROVE  /\ ConnTypes' /\ pushes' = pushes
         /\ Turns(c) \/ \E m \in Packet : GetsOther(c, m)
<1>0. pushes' = pushes
  BY DEF Fault
<1>1. CASE \E l \in {"broken", "silent"} : conn' = [conn EXCEPT ![c].link = l]
  BY <1>0, <1>1, TurnMove DEF Links
<1>2. CASE conn' = Arrives(c, [type |-> "garbage"])
  <2> DEFINE m == [type |-> "garbage"]
  <2>1. m \in Packet /\ m.type = "garbage"
    BY DEF Packet
  <2> HIDE DEF m
  <2>2. conn' = Arrives(c, m)
    BY <1>2 DEF m
  <2>3. /\ ConnTypes' /\ Gets(c, m)
        /\ conn'[c].answered = conn[c].answered /\ conn'[c].granted = conn[c].granted
    BY <2>1, <2>2, ArrivesMove
  <2> QED BY <1>0, <2>1, <2>3 DEF GetsOther
<1> QED BY <1>1, <1>2 DEF Fault

(* The quotes of a push bear its number and are counted from 1; those of a  *)
(* refused ticker are one, without prices.                                 *)
LEMMA QuotesTyped ==
  ASSUME NEW c \in Connections, NEW m \in Packet
  PROVE  /\ Quotes(c, m) \in Seq(Quote)
         /\ \A i \in 1..Len(Quotes(c, m)) :
              /\ Quotes(c, m)[i].feed = c[1] /\ Quotes(c, m)[i].conn = c[2]
              /\ \/ /\ m.type = "push" /\ Quotes(c, m)[i].n = m.n
                    /\ Quotes(c, m)[i].i = i /\ Quotes(c, m)[i].priced
                 \/ m.type = "refused" /\ m.ch = "ticker"
<1> DEFINE quote(i, n, priced) ==
             [feed |-> c[1], conn |-> c[2], ch |-> m.ch, n |-> n, i |-> i, priced |-> priced]
<1>0. c[1] \in Feeds /\ c[2] \in 1..MaxConns
  BY DEF Connections
<1>1. CASE m.type = "push"
  <2>1. m.ch \in Names /\ m.n \in 1..MaxPushes /\ m.size \in 1..2
    BY <1>1 DEF Packet
  <2>2. Quotes(c, m) = [i \in 1..m.size |-> quote(i, m.n, TRUE)]
    BY <1>1 DEF Quotes
  <2>3. \A i \in 1..m.size : quote(i, m.n, TRUE) \in Quote
    BY <1>0, <2>1 DEF Quote, Names
  <2> DEFINE q == [i \in 1..m.size |-> quote(i, m.n, TRUE)]
  <2>4. q \in [1..m.size -> Quote] /\ m.size \in Nat
    BY <2>1, <2>3
  <2>5. \A i \in 1..m.size : /\ q[i].feed = c[1] /\ q[i].conn = c[2]
                             /\ q[i].n = m.n /\ q[i].i = i /\ q[i].priced
    OBVIOUS
  <2> HIDE DEF q
  <2>6. q \in Seq(Quote) /\ Len(q) = m.size
    BY <2>4, SeqDef
  <2>7. Quotes(c, m) = q
    BY <2>2 DEF q
  <2> QED BY <1>1, <2>5, <2>6, <2>7
<1>2. CASE m.type = "refused" /\ m.ch = "ticker"
  <2>1. m.ch \in Names
    BY <1>2 DEF Packet
  <2>2. Quotes(c, m) = <<quote(1, 0, FALSE)>>
    BY <1>2 DEF Quotes
  <2>3. quote(1, 0, FALSE) \in Quote
    BY <1>0, <2>1, QuoterAssumption DEF Quote, Names
  <2> QED BY <1>2, <2>2, <2>3
<1>3. CASE ~(m.type = "push") /\ ~(m.type = "refused" /\ m.ch = "ticker")
  <2>1. Quotes(c, m) = <<>>
    BY <1>3 DEF Quotes
  <2> QED BY <2>1, EmptySeq
<1> QED BY <1>1, <1>2, <1>3

LEMMA ReadMove ==
  ASSUME ConnTypes, NEW c \in Connections, ReadMessageOf(c)
  PROVE  ConnTypes' /\ Reads(c)
<1> DEFINE m == Head(conn[c].inbox)
           r == IF Unreadable(m, conn[c].getSubReply) THEN "gone"
                ELSE IF Parsed(c, m) = <<>> THEN "read"
                ELSE IF m.type = "push" /\ ~m.whole THEN "fail" ELSE "publish"
           k == [conn[c] EXCEPT !.inbox = Tail(conn[c].inbox), !.getSubReply = TRUE,
                                !.batch = Parsed(c, m), !.reader = r]
<1>0. /\ conn[c] \in Conn /\ Consistent(conn[c]) /\ conn[c].inbox \in Seq(Packet)
      /\ conn[c].inbox # <<>> /\ conn[c].reader = "read"
  BY ConnFields DEF ReadMessageOf
<1>1. m \in Packet /\ Tail(conn[c].inbox) \in Seq(Packet)
  BY <1>0, HeadTailProperties
<1>2. conn' = [conn EXCEPT ![c] = k]
  BY DEF ReadMessageOf, Parsed
<1> HIDE DEF m
<1>3. Parsed(c, m) \in Seq(Quote)
  BY <1>1, QuotesTyped, EmptySeq DEF Parsed
<1>4. /\ r \in {"gone", "read", "publish", "fail"}
      /\ r \in {"publish", "fail"} <=> Parsed(c, m) # <<>>
  <2>1. Unreadable(m, conn[c].getSubReply) => Parsed(c, m) = <<>>
    <3>1. CASE conn[c].getSubReply
      <4>1. conn[c].getSubReply = TRUE
        BY <1>0, <3>1 DEF Conn
      <4> QED BY <4>1 DEF Parsed
    <3>2. CASE ~conn[c].getSubReply
      BY <3>2 DEF Parsed
    <3> QED BY <3>1, <3>2
  <2> QED BY <2>1
<1> HIDE DEF r
<1>5. k \in Conn
  BY <1>0, <1>1, <1>3, <1>4 DEF Conn
<1>6. /\ k.reader = r /\ k.batch = Parsed(c, m) /\ k.inbox = Tail(conn[c].inbox)
      /\ k.answered = conn[c].answered /\ k.granted = conn[c].granted
      /\ k.asked = conn[c].asked /\ k.getSubReply = TRUE
  BY <1>0 DEF Conn
<1>7. Consistent(k)
  BY <1>0, <1>4, <1>6 DEF Consistent
<1> HIDE DEF k
<1>8. ConnTypes' /\ Others(c) /\ conn'[c] = k
  BY <1>2, <1>5, <1>7, OneChanges
<1> QED BY <1>0, <1>6, <1>8 DEF Reads, r, m

LEMMA PublishMove ==
  ASSUME ConnTypes, NEW c \in Connections, PublishQuote(c)
  PROVE  /\ ConnTypes' /\ Hands(c) /\ Head(conn[c].batch) \in Quote
         /\ SendMessage(Head(conn[c].batch))
<1> DEFINE r == IF Len(conn[c].batch) = 1 THEN AfterBatch(conn[c].reader) ELSE conn[c].reader
           k == [conn[c] EXCEPT !.batch = Tail(conn[c].batch), !.reader = r]
<1>0. /\ conn[c] \in Conn /\ Consistent(conn[c]) /\ conn[c].batch \in Seq(Quote)
      /\ conn[c].reader \in {"publish", "fail"} /\ conn[c].batch # <<>>
  BY ConnFields DEF PublishQuote, Consistent
<1>1. /\ Head(conn[c].batch) \in Quote /\ Tail(conn[c].batch) \in Seq(Quote)
      /\ Len(Tail(conn[c].batch)) = Len(conn[c].batch) - 1
      /\ Len(conn[c].batch) \in Nat
  BY <1>0, HeadTailProperties, LenProperties
<1>2. conn' = [conn EXCEPT ![c] = k] /\ SendMessage(Head(conn[c].batch))
  BY DEF PublishQuote
<1>3. /\ r \in {"read", "publish", "fail", "gone"}
      /\ conn[c].reader = "fail" => r \in {"fail", "gone"}
      /\ r \in {"publish", "fail"} <=> Tail(conn[c].batch) # <<>>
  <2>1. Tail(conn[c].batch) = <<>> <=> Len(Tail(conn[c].batch)) = 0
    BY <1>1, EmptySeq
  <2>2. Len(Tail(conn[c].batch)) = 0 <=> Len(conn[c].batch) = 1
    BY <1>1
  <2> QED BY <1>0, <2>1, <2>2 DEF AfterBatch
<1> HIDE DEF r
<1>4. k \in Conn
  BY <1>0, <1>1, <1>3 DEF Conn
<1>5. /\ k.reader = r /\ k.batch = Tail(conn[c].batch) /\ k.inbox = conn[c].inbox
      /\ k.answered = conn[c].answered /\ k.granted = conn[c].granted
      /\ k.asked = conn[c].asked /\ k.getSubReply = conn[c].getSubReply
  BY <1>0 DEF Conn
<1>6. Consistent(k)
  BY <1>0, <1>3, <1>5 DEF Consistent
<1> HIDE DEF k
<1>7. ConnTypes' /\ Others(c) /\ conn'[c] = k
  BY <1>2, <1>4, <1>6, OneChanges
<1> QED BY <1>0, <1>1, <1>2, <1>3, <1>5, <1>7 DEF Hands

LEMMA ReconnectMove ==
  ASSUME ConnTypes, FeedTypes, NEW f \in Feeds, Reconnect(f)
  PROVE  ConnTypes' /\ \E c \in Connections : c = <<f, cur[f] + 1>> /\ Opens(c)
<1> DEFINE c == <<f, cur[f] + 1>>
           k == [NoConn EXCEPT !.link = "up", !.reader = "read", !.writer = "subscribe"]
<1>1. cur[f] + 1 \in 1..MaxConns /\ cur[f] \in Nat
  BY QuoterAssumption DEF FeedTypes, Reconnect
<1>2. c \in Connections /\ c[1] = f /\ c[2] = cur[f] + 1
  BY <1>1 DEF Connections
<1>3. conn[c] = NoConn
  BY <1>1, <1>2 DEF FeedTypes
<1>4. conn' = [conn EXCEPT ![c] = k]
  BY <1>3 DEF Reconnect
<1>5. k \in Conn /\ Consistent(k)
  <2>1. Len(Channels) \in Nat /\ 0 \in 0..Len(Channels)
    BY QuoterAssumption, LenProperties
  <2>2. <<>> \in Seq(Packet) /\ <<>> \in Seq(Quote) /\ Len(<<>>) = 0
    BY EmptySeq
  <2>3. NoConn \in Conn
    BY <2>1, <2>2 DEF NoConn, Conn, Links
  <2>4. k \in Conn
    BY <2>3 DEF Conn, Links
  <2>5. NoConn.batch = <<>> /\ NoConn.asked = <<>> /\ NoConn.answered = 0 /\ NoConn.granted = {}
    BY DEF NoConn
  <2>6. k.batch = <<>> /\ k.asked = <<>> /\ k.answered = 0 /\ k.granted = {} /\ k.reader = "read"
    BY <2>3, <2>5 DEF Conn
  <2> QED BY <2>2, <2>4, <2>6 DEF Consistent
<1> HIDE DEF c
<1>6. ConnTypes' /\ Others(c) /\ conn'[c] = k
  BY <1>2, <1>4, <1>5, OneChanges
<1> QED BY <1>2, <1>3, <1>6 DEF Opens, c

LEMMA WatchMove ==
  ASSUME ConnTypes, FeedTypes, NEW f \in Feeds, Watch(f)
  PROVE  ConnTypes' /\ \E c \in Connections : c = Current(f) /\ Turns(c)
<1> DEFINE c == Current(f)
<1>1. c \in Connections
  BY QuoterAssumption DEF FeedTypes, Watch, Connections, Current
<1>2. conn' = [conn EXCEPT ![c].link = "closed"] /\ "closed" \in Links
  BY DEF Watch, Links
<1> QED BY <1>1, <1>2, TurnMove

-----------------------------------------------------------------------------
(* The inductive invariant of the types.                                    *)
SpiderTypes ==
  /\ ProducerTypeOK(Quote) /\ ConnTypes /\ FeedTypes
  /\ main \in MainStates
  /\ main = "producer" => producerLoop = "none"

(* What a step does to the quotes under way.                                *)
Sends(c) == \/ accepted' = accepted
            \/ accepted' = Append(accepted, Head(conn[c].batch))

ConnMoves(c) ==
  \/ (Opens(c) \/ Turns(c) \/ Reads(c)) /\ pushes' = pushes /\ accepted' = accepted
  \/ (\E m \in Packet : GetsAnswer(c, m) \/ GetsOther(c, m)) /\ accepted' = accepted
  \/ Hands(c) /\ pushes' = pushes /\ Sends(c)

QuoteMoves ==
  \/ conn' = conn /\ pushes' = pushes /\ accepted' = accepted
  \/ \E c \in Connections : ConnMoves(c)

(* A connection that was made is worked on, for a feed known as before. *)
LEMMA KeepsFeeds ==
  ASSUME FeedTypes, NEW c \in Connections, conn[c] # NoConn, Others(c),
         runAt' = runAt, cur' = cur, pushes' \in 0..MaxPushes, faults' \in 0..MaxFaults
  PROVE  FeedTypes'
<1>1. \A d \in Connections : d[2] > cur'[d[1]] => conn'[d] = NoConn
  BY DEF FeedTypes, Others
<1> QED BY <1>1 DEF FeedTypes

(* What the goroutines of a connection do. *)
LEMMA ConnSteps ==
  ASSUME ConnTypes, FeedTypes, NEW c \in Connections,
         WriteStep(c) \/ ReadStep(c) \/ ExchangeStep(c) \/ SystemStep(c)
  PROVE  /\ ConnTypes' /\ FeedTypes' /\ ConnMoves(c) /\ main' = main
         /\ ProducerMoves(Quote)
         /\ main = "producer" => producerLoop' = producerLoop
<1>0. /\ conn[c] # NoConn /\ runAt' = runAt /\ cur' = cur /\ main' = main
      /\ pushes' \in 0..MaxPushes /\ faults' \in 0..MaxFaults
  <2>1. /\ NoConn.link = "none" /\ NoConn.reader = "none" /\ NoConn.writer = "none"
    BY DEF NoConn
  <2>2. CASE WriteStep(c)
    BY <2>1, <2>2 DEF WriteStep, Subscribe, BeatFails, FeedTypes
  <2>3. CASE ReadStep(c)
    BY <2>1, <2>3 DEF ReadStep, ReadFails, ReadMessageOf, PublishQuote, FeedTypes
  <2>4. CASE ExchangeStep(c)
    <3>1. conn[c] # NoConn /\ runAt' = runAt /\ cur' = cur /\ main' = main
      BY <2>1, <2>4 DEF ExchangeStep, Answers, Pushes, PushesMalformed, Fault
    <3>2. pushes' \in 0..MaxPushes
      <4>1. pushes' = pushes \/ (pushes < MaxPushes /\ pushes' = pushes + 1)
        BY <2>4 DEF ExchangeStep, Answers, Pushes, PushesMalformed, Fault
      <4> QED BY <4>1, QuoterAssumption DEF FeedTypes
    <3>3. faults' \in 0..MaxFaults
      <4>1. faults' = faults \/ (faults < MaxFaults /\ faults' = faults + 1)
        BY <2>4 DEF ExchangeStep, Answers, Pushes, PushesMalformed, Fault
      <4> QED BY <4>1, QuoterAssumption DEF FeedTypes
    <3> QED BY <3>1, <3>2, <3>3
  <2>5. CASE SystemStep(c)
    BY <2>1, <2>5 DEF SystemStep, Unacknowledged, FeedTypes
  <2> QED BY <2>2, <2>3, <2>4, <2>5
<1>1. CASE UNCHANGED producerVars /\ (Subscribe(c) \/ BeatFails(c) \/ Unacknowledged(c) \/ ReadFails(c))
  <2>1. ConnTypes' /\ Turns(c)
    BY <1>1, SubscribeMove, TurnMove
  <2>2. pushes' = pushes
    BY <1>1 DEF Subscribe, BeatFails, Unacknowledged, ReadFails
  <2>3. Others(c)
    BY <2>1 DEF Turns
  <2>4. FeedTypes'
    BY <1>0, <2>3, KeepsFeeds
  <2> QED BY <1>0, <1>1, <2>1, <2>2, <2>4 DEF ConnMoves, ProducerMoves, producerVars
<1>2. CASE UNCHANGED producerVars /\ ReadMessageOf(c)
  <2>1. ConnTypes' /\ Reads(c)
    BY <1>2, ReadMove
  <2>2. pushes' = pushes
    BY <1>2 DEF ReadMessageOf
  <2>3. Others(c)
    BY <2>1 DEF Reads
  <2>4. FeedTypes'
    BY <1>0, <2>3, KeepsFeeds
  <2> QED BY <1>0, <1>2, <2>1, <2>2, <2>4 DEF ConnMoves, ProducerMoves, producerVars
<1>3. CASE UNCHANGED producerVars /\ (Answers(c) \/ Pushes(c) \/ PushesMalformed(c))
  <2>1. PICK m \in Packet : GetsAnswer(c, m) \/ GetsOther(c, m)
    BY <1>3, AnswersMove, PushesMove, MalformedMove
  <2>2. ConnTypes'
    BY <1>3, AnswersMove, PushesMove, MalformedMove
  <2>3. Others(c)
    BY <2>1 DEF GetsAnswer, GetsOther, Gets
  <2>4. FeedTypes'
    BY <1>0, <2>3, KeepsFeeds
  <2> QED BY <1>0, <1>3, <2>1, <2>2, <2>4 DEF ConnMoves, ProducerMoves, producerVars
<1>4. CASE UNCHANGED producerVars /\ Fault(c)
  <2>1. /\ ConnTypes' /\ pushes' = pushes
        /\ Turns(c) \/ \E m \in Packet : GetsOther(c, m)
    BY <1>4, FaultMove
  <2>2. Others(c)
    BY <2>1 DEF Turns, GetsOther, Gets
  <2>3. FeedTypes'
    BY <1>0, <2>2, KeepsFeeds
  <2> QED BY <1>0, <1>4, <2>1, <2>3 DEF ConnMoves, ProducerMoves, producerVars
<1>5. CASE PublishQuote(c)
  <2>1. /\ ConnTypes' /\ Hands(c) /\ Head(conn[c].batch) \in Quote
        /\ SendMessage(Head(conn[c].batch))
    BY <1>5, PublishMove
  <2>2. Others(c) /\ pushes' = pushes
    BY <1>5, <2>1 DEF Hands, PublishQuote
  <2>3. FeedTypes'
    BY <1>0, <2>2, KeepsFeeds
  <2>4. Sends(c) /\ producerLoop' = producerLoop
    BY <2>1, Zenon DEF SendMessage, Sends, producerVars
  <2> QED BY <1>0, <2>1, <2>2, <2>3, <2>4 DEF ConnMoves, ProducerMoves
<1> QED BY <1>1, <1>2, <1>3, <1>4, <1>5 DEF WriteStep, ReadStep, ExchangeStep, SystemStep

LEMMA RunSteps ==
  ASSUME ConnTypes, FeedTypes, NEW f \in Feeds, RunStep(f)
  PROVE  /\ ConnTypes' /\ FeedTypes' /\ \E c \in Connections : ConnMoves(c)
         /\ UNCHANGED <<producerVars, main>>
<1>0. UNCHANGED <<producerVars, main>> /\ accepted' = accepted
  BY DEF RunStep, producerVars
<1>1. CASE Reconnect(f)
  <2>1. ConnTypes' /\ \E c \in Connections : c = <<f, cur[f] + 1>> /\ Opens(c)
    BY <1>1, ReconnectMove
  <2>2. PICK c \in Connections : c = <<f, cur[f] + 1>> /\ Opens(c)
    BY <2>1
  <2>3. /\ cur' = [cur EXCEPT ![f] = @ + 1] /\ runAt' = [runAt EXCEPT ![f] = "watching"]
        /\ pushes' = pushes /\ faults' = faults
        /\ cur[f] < MaxConns /\ cur[f] \in 0..MaxConns
    BY <1>1 DEF Reconnect, FeedTypes
  <2>4. \A d \in Connections : d[2] > cur'[d[1]] => conn'[d] = NoConn
    <3> SUFFICES ASSUME NEW d \in Connections, d[2] > cur'[d[1]]
                 PROVE  conn'[d] = NoConn
      OBVIOUS
    <3>1. d[1] \in Feeds /\ d[2] \in 1..MaxConns
      BY DEF Connections
    <3>2. cur[d[1]] \in Nat /\ cur'[d[1]] \in Nat /\ cur'[d[1]] >= cur[d[1]]
      BY <2>3, <3>1, QuoterAssumption DEF FeedTypes
    <3>3. conn[d] = NoConn
      BY <3>1, <3>2, QuoterAssumption DEF FeedTypes
    <3>4. d # c
      BY <2>2, <2>3, QuoterAssumption DEF FeedTypes
    <3> QED BY <2>2, <3>3, <3>4 DEF Opens, Others
  <2>5. FeedTypes'
    BY <2>3, <2>4, QuoterAssumption DEF FeedTypes
  <2> QED BY <1>0, <2>1, <2>2, <2>3, <2>5 DEF ConnMoves
<1>2. CASE Watch(f)
  <2>1. ConnTypes' /\ \E c \in Connections : c = Current(f) /\ Turns(c)
    BY <1>2, WatchMove
  <2>2. PICK c \in Connections : c = Current(f) /\ Turns(c)
    BY <2>1
  <2>3. /\ cur' = cur /\ runAt' = [runAt EXCEPT ![f] = "dialing"]
        /\ pushes' = pushes /\ faults' = faults
    BY <1>2 DEF Watch
  <2>4. c[1] = f /\ c[2] = cur[f] /\ cur[f] \in Nat
    BY <2>2, QuoterAssumption DEF Current, FeedTypes
  <2>5. \A d \in Connections : d[2] > cur'[d[1]] => conn'[d] = NoConn
    BY <2>2, <2>3, <2>4 DEF FeedTypes, Turns, Others
  <2>6. FeedTypes'
    BY <2>3, <2>5 DEF FeedTypes
  <2> QED BY <1>0, <2>1, <2>2, <2>3, <2>6 DEF ConnMoves
<1> QED BY <1>1, <1>2 DEF RunStep

LEMMA InitTypes == Init => SpiderTypes
<1> SUFFICES ASSUME Init PROVE SpiderTypes
  OBVIOUS
<1>1. ProducerTypeOK(Quote) /\ producerLoop = "none" /\ main = "producer"
  BY ProducerTypeInit DEF Init, ProducerInit
<1>2. Len(Channels) \in Nat /\ 0 \in 0..Len(Channels)
  BY QuoterAssumption, LenProperties
<1>3. <<>> \in Seq(Packet) /\ <<>> \in Seq(Quote) /\ Len(<<>>) = 0
  BY EmptySeq
<1>4. NoConn \in Conn
  BY <1>2, <1>3 DEF NoConn, Conn, Links
<1>5. Consistent(NoConn)
  <2>1. /\ NoConn.batch = <<>> /\ NoConn.asked = <<>> /\ NoConn.answered = 0
        /\ NoConn.granted = {} /\ NoConn.reader = "none"
    BY DEF NoConn
  <2> QED BY <1>3, <2>1 DEF Consistent
<1>6. ConnTypes
  BY <1>4, <1>5 DEF ConnTypes, Init, QuoterInit
<1>7. FeedTypes
  BY QuoterAssumption DEF FeedTypes, Init, QuoterInit
<1> QED BY <1>1, <1>6, <1>7 DEF SpiderTypes, MainStates

LEMMA NextTypes ==
  ASSUME SpiderTypes, [Next]_vars
  PROVE  SpiderTypes' /\ QuoteMoves /\ ProducerMoves(Quote)
<1> USE DEF SpiderTypes, MainStates
<1> SUFFICES /\ ConnTypes' /\ FeedTypes' /\ QuoteMoves
             /\ ProducerMoves(Quote) /\ main' \in MainStates
             /\ main' = "producer" => producerLoop' = "none"
  BY ProducerType
<1>0. CASE \/ StartProducer \/ StartFails \/ Interrupt \/ ExitProducer
           \/ ProducerStep \/ UNCHANGED vars
  <2>0. UNCHANGED quoterVars
    BY <1>0 DEF StartProducer, StartFails, Interrupt, ExitProducer, ProducerStep, vars
  <2>1. ConnTypes' /\ FeedTypes'
    BY <2>0 DEF quoterVars, ConnTypes, FeedTypes
  <2>2. CASE UNCHANGED vars
    BY <2>0, <2>1, <2>2 DEF vars, quoterVars, producerVars, QuoteMoves, ProducerMoves
  <2>3. CASE StartProducer
    BY <2>0, <2>1, <2>3
       DEF StartProducer, TobeProducer, quoterVars, QuoteMoves, ProducerMoves
  <2>4. CASE StartFails \/ Interrupt
    BY <2>0, <2>1, <2>4
       DEF StartFails, Interrupt, quoterVars, producerVars, QuoteMoves, ProducerMoves
  <2>5. CASE ExitProducer
    BY <2>0, <2>1, <2>5
       DEF ExitProducer, ProducerTakesExit, CloseProducer, quoterVars, QuoteMoves, ProducerMoves
  <2>6. CASE ProducerStep
    BY <2>0, <2>1, <2>6
       DEF ProducerStep, TakeToSend, Sent, SendRetried, SendFails, AttemptFails, quoterVars, QuoteMoves, ProducerMoves
  <2> QED BY <1>0, <2>2, <2>3, <2>4, <2>5, <2>6
<1>1. CASE StartFeeds
  <2>1. /\ runAt' = [f \in Feeds |-> "dialing"]
        /\ UNCHANGED <<cur, conn, pushes, faults, producerVars>> /\ main' = "serve"
    BY <1>1 DEF StartFeeds, StartQuoters
  <2>2. ConnTypes' /\ FeedTypes'
    BY <2>1 DEF ConnTypes, FeedTypes
  <2> QED BY <2>1, <2>2 DEF QuoteMoves, ProducerMoves, producerVars
<1>2. ASSUME NEW f \in Feeds, RunStep(f)
      PROVE  /\ ConnTypes' /\ FeedTypes' /\ QuoteMoves
             /\ ProducerMoves(Quote) /\ main' \in MainStates
             /\ main' = "producer" => producerLoop' = "none"
  BY <1>2, RunSteps DEF QuoteMoves, ProducerMoves, producerVars
<1>3. ASSUME NEW c \in Connections,
             WriteStep(c) \/ ReadStep(c) \/ ExchangeStep(c) \/ SystemStep(c)
      PROVE  /\ ConnTypes' /\ FeedTypes' /\ QuoteMoves
             /\ ProducerMoves(Quote) /\ main' \in MainStates
             /\ main' = "producer" => producerLoop' = "none"
  BY <1>3, ConnSteps DEF QuoteMoves
<1> QED BY <1>0, <1>1, <1>2, <1>3 DEF Next

(* TypeOK says of the types what a reader of the code would ask for. *)
LEMMA TypesImply == SpiderTypes => TypeOK
  BY ConnFields DEF SpiderTypes, ConnTypes, FeedTypes, Conn, Consistent, TypeOK

(* The types of the process, of its queue and of every connection, and what  *)
(* a connection's parts say of each other (kfc/kfc.go, spider/front/okex.go). *)
THEOREM SpiderTyped == Spec => []TypeOK
<1>1. Init => SpiderTypes
  BY InitTypes
<1>2. SpiderTypes /\ [Next]_vars => SpiderTypes'
  BY NextTypes
<1>3. SpiderTypes => TypeOK
  BY TypesImply
<1> QED BY <1>1, <1>2, <1>3, PTL DEF Spec

-----------------------------------------------------------------------------
(* The answers of a connection that is read.  The ticker is asked for first, *)
(* so its answer has nothing before it but what ends the reader; a refusal   *)
(* is under way until the reader ends with it.                              *)
Serving(k) == k.reader \in {"read", "publish"}

AnswersOf(k) ==
  /\ k.answered = 0 => /\ ~k.getSubReply
                       /\ \A i \in 1..Len(k.inbox) : k.inbox[i].type = "garbage"
  /\ \A j \in 1..Len(k.inbox) :
       k.inbox[j].type \in {"granted", "refused"} /\ k.inbox[j].ch = "ticker"
         => ~k.getSubReply /\ \A i \in 1..j - 1 : k.inbox[i].type = "garbage"
  /\ \A i \in 1..k.answered :
       \/ Channels[i] \in k.granted
       \/ \E j \in 1..Len(k.inbox) : k.inbox[j].type = "refused" /\ k.inbox[j].ch = Channels[i]

AnswerInv == \A c \in Connections : Serving(conn[c]) => AnswersOf(conn[c])

LEMMA AnswersTurn ==
  ASSUME ConnTypes, NEW c \in Connections, Turns(c),
         Serving(conn[c]) => AnswersOf(conn[c]), Serving(conn'[c])
  PROVE  AnswersOf(conn'[c])
<1>1. Serving(conn[c])
  BY DEF Turns, Serving
<1> QED BY <1>1 DEF Turns, AnswersOf

LEMMA AnswersHand ==
  ASSUME ConnTypes, NEW c \in Connections, Hands(c),
         Serving(conn[c]) => AnswersOf(conn[c]), Serving(conn'[c])
  PROVE  AnswersOf(conn'[c])
<1>1. Serving(conn[c])
  BY DEF Hands, Serving
<1> QED BY <1>1 DEF Hands, AnswersOf

LEMMA AnswersOpen ==
  ASSUME NEW c \in Connections, Opens(c)
  PROVE  AnswersOf(conn'[c])
<1>1. /\ conn'[c].answered = 0 /\ conn'[c].inbox = <<>> /\ conn'[c].getSubReply = FALSE
  BY DEF Opens, NoConn
<1> QED BY <1>1, EmptySeq DEF AnswersOf

(* Something else arrives: garbage, or a push of a channel granted before. *)
LEMMA AnswersOther ==
  ASSUME ConnTypes, NEW c \in Connections, NEW m \in Packet, GetsOther(c, m), AnswersOf(conn[c])
  PROVE  AnswersOf(conn'[c])
<1> DEFINE q == conn[c].inbox
           r == conn'[c].inbox
<1>1. /\ q \in Seq(Packet) /\ Len(q) \in Nat /\ conn[c].answered \in Nat
      /\ conn[c].granted \subseteq {Channels[i] : i \in 1..conn[c].answered}
  BY ConnFields DEF Consistent
<1>2. /\ Len(r) = Len(q) + 1 /\ r[Len(q) + 1] = m
      /\ \A i \in 1..Len(q) : r[i] = q[i]
  BY <1>1, AppendProperties DEF GetsOther, Gets
<1>3. /\ conn'[c].answered = conn[c].answered /\ conn'[c].granted = conn[c].granted
      /\ conn'[c].getSubReply = conn[c].getSubReply
      /\ m.type \in {"garbage", "push"}
      /\ m.type = "push" => m.ch \in conn[c].granted
  BY DEF GetsOther, Gets
<1> HIDE DEF q, r
<1>4. conn'[c].answered = 0 => /\ ~conn'[c].getSubReply
                               /\ \A i \in 1..Len(r) : r[i].type = "garbage"
  <2> SUFFICES ASSUME conn'[c].answered = 0
               PROVE  /\ ~conn'[c].getSubReply
                      /\ \A i \in 1..Len(r) : r[i].type = "garbage"
    OBVIOUS
  <2>1. ~conn[c].getSubReply /\ \A i \in 1..Len(q) : q[i].type = "garbage"
    BY <1>3 DEF AnswersOf, q
  <2>2. m.type = "garbage"
    BY <1>1, <1>3
  <2> QED BY <1>1, <1>2, <1>3, <2>1, <2>2
<1>5. \A j \in 1..Len(r) :
        r[j].type \in {"granted", "refused"} /\ r[j].ch = "ticker"
          => ~conn'[c].getSubReply /\ \A i \in 1..j - 1 : r[i].type = "garbage"
  <2> SUFFICES ASSUME NEW j \in 1..Len(r),
                      r[j].type \in {"granted", "refused"}, r[j].ch = "ticker"
               PROVE  ~conn'[c].getSubReply /\ \A i \in 1..j - 1 : r[i].type = "garbage"
    OBVIOUS
  <2>1. j \in 1..Len(q) /\ r[j] = q[j] /\ \A i \in 1..j - 1 : r[i] = q[i]
    BY <1>1, <1>2, <1>3
  <2>2. ~conn[c].getSubReply /\ \A i \in 1..j - 1 : q[i].type = "garbage"
    BY <2>1 DEF AnswersOf, q
  <2> QED BY <1>3, <2>1, <2>2
<1>6. \A i \in 1..conn'[c].answered :
        \/ Channels[i] \in conn'[c].granted
        \/ \E j \in 1..Len(r) : r[j].type = "refused" /\ r[j].ch = Channels[i]
  <2> TAKE i \in 1..conn'[c].answered
  <2>1. \/ Channels[i] \in conn[c].granted
        \/ \E j \in 1..Len(q) : q[j].type = "refused" /\ q[j].ch = Channels[i]
    BY <1>3 DEF AnswersOf, q
  <2>2. \A j \in 1..Len(q) : j \in 1..Len(r) /\ r[j] = q[j]
    BY <1>1, <1>2
  <2> QED BY <1>3, <2>1, <2>2
<1> QED BY <1>4, <1>5, <1>6 DEF AnswersOf, r

LEMMA AnswersAnswer ==
  ASSUME ConnTypes, NEW c \in Connections, NEW m \in Packet, GetsAnswer(c, m), AnswersOf(conn[c])
  PROVE  AnswersOf(conn'[c])
<1> DEFINE q == conn[c].inbox
           r == conn'[c].inbox
           a == conn[c].answered
<1>1. q \in Seq(Packet) /\ Len(q) \in Nat /\ a \in Nat /\ Len(Channels) \in Nat
  BY ConnFields
<1>2. /\ Len(r) = Len(q) + 1 /\ r[Len(q) + 1] = m
      /\ \A i \in 1..Len(q) : r[i] = q[i]
  BY <1>1, AppendProperties DEF GetsAnswer, Gets
<1>3. /\ conn'[c].answered = a + 1 /\ a < Len(Channels) /\ m.ch = Channels[a + 1]
      /\ conn'[c].getSubReply = conn[c].getSubReply
      /\ conn[c].granted \subseteq conn'[c].granted
      /\ m.ch \in conn'[c].granted \/ m.type = "refused"
  BY DEF GetsAnswer, Gets
<1> HIDE DEF q, r, a
<1>4. \A j \in 1..Len(r) :
        r[j].type \in {"granted", "refused"} /\ r[j].ch = "ticker"
          => ~conn'[c].getSubReply /\ \A i \in 1..j - 1 : r[i].type = "garbage"
  <2> SUFFICES ASSUME NEW j \in 1..Len(r),
                      r[j].type \in {"granted", "refused"}, r[j].ch = "ticker"
               PROVE  ~conn'[c].getSubReply /\ \A i \in 1..j - 1 : r[i].type = "garbage"
    OBVIOUS
  <2>1. CASE j \in 1..Len(q)
    <3>1. r[j] = q[j] /\ \A i \in 1..j - 1 : r[i] = q[i]
      BY <1>1, <1>2, <2>1
    <3>2. ~conn[c].getSubReply /\ \A i \in 1..j - 1 : q[i].type = "garbage"
      BY <2>1, <3>1 DEF AnswersOf, q
    <3> QED BY <1>3, <3>1, <3>2
  <2>2. CASE j = Len(q) + 1
    <3>1. a + 1 \notin 2..Len(Channels)
      BY <1>2, <1>3, <2>2, QuoterAssumption
    <3>2. a = 0
      BY <1>1, <1>3, <3>1
    <3>3. ~conn[c].getSubReply /\ \A i \in 1..Len(q) : q[i].type = "garbage"
      BY <3>2 DEF AnswersOf, q, a
    <3> QED BY <1>1, <1>2, <1>3, <2>2, <3>3
  <2> QED BY <1>1, <1>2, <2>1, <2>2
<1>5. \A i \in 1..conn'[c].answered :
        \/ Channels[i] \in conn'[c].granted
        \/ \E j \in 1..Len(r) : r[j].type = "refused" /\ r[j].ch = Channels[i]
  <2> TAKE i \in 1..conn'[c].answered
  <2>1. \A j \in 1..Len(q) : j \in 1..Len(r) /\ r[j] = q[j]
    BY <1>1, <1>2
  <2>2. CASE i \in 1..a
    <3>1. \/ Channels[i] \in conn[c].granted
          \/ \E j \in 1..Len(q) : q[j].type = "refused" /\ q[j].ch = Channels[i]
      BY <2>2 DEF AnswersOf, q, a
    <3> QED BY <1>3, <2>1, <3>1
  <2>3. CASE i = a + 1
    <3>1. Len(q) + 1 \in 1..Len(r)
      BY <1>1, <1>2
    <3> QED BY <1>2, <1>3, <2>3, <3>1
  <2> QED BY <1>1, <1>3, <2>2, <2>3
<1>6. conn'[c].answered # 0
  BY <1>1, <1>3
<1> QED BY <1>4, <1>5, <1>6 DEF AnswersOf, r

(* The reader goes on only after what is no refusal of a candle channel,    *)
(* no garbage, and not as its first message the refusal of the ticker.      *)
LEMMA AnswersRead ==
  ASSUME ConnTypes, NEW c \in Connections, Reads(c), AnswersOf(conn[c]), Serving(conn'[c])
  PROVE  AnswersOf(conn'[c])
<1> DEFINE q == conn[c].inbox
           r == conn'[c].inbox
           m == Head(q)
<1>1. q \in Seq(Packet) /\ q # <<>> /\ Len(q) \in Nat \ {0} /\ conn[c].answered \in Nat
  <2>1. q \in Seq(Packet) /\ q # <<>> /\ Len(q) \in Nat
    BY ConnFields DEF Reads
  <2> QED BY <2>1, EmptySeq, ConnFields
<1>2. /\ m = q[1] /\ m \in Packet /\ Len(r) = Len(q) - 1
      /\ \A i \in 1..Len(r) : r[i] = q[i + 1]
  BY <1>1, HeadTailProperties DEF Reads
<1>3. /\ conn'[c].answered = conn[c].answered /\ conn'[c].granted = conn[c].granted
      /\ ~Unreadable(m, conn[c].getSubReply)
  BY DEF Reads, Serving
<1>4. m.type # "garbage" /\ (m.type = "refused" => conn[c].getSubReply /\ m.ch = "ticker")
  BY <1>3 DEF Unreadable
<1> HIDE DEF q, r, m
<1>5. conn[c].answered # 0
  <2>1. 1 \in 1..Len(q)
    BY <1>1
  <2> QED BY <1>2, <1>4, <2>1 DEF AnswersOf, q
<1>6. \A j \in 2..Len(q) : ~(q[j].type \in {"granted", "refused"} /\ q[j].ch = "ticker")
  <2> SUFFICES ASSUME NEW j \in 2..Len(q), q[j].type \in {"granted", "refused"}, q[j].ch = "ticker"
               PROVE  FALSE
    OBVIOUS
  <2>1. j \in 1..Len(q) /\ 1 \in 1..j - 1
    BY <1>1
  <2>2. q[1].type = "garbage"
    BY <2>1 DEF AnswersOf, q
  <2> QED BY <1>2, <1>4, <2>2
<1>7. \A j \in 1..Len(r) : ~(r[j].type \in {"granted", "refused"} /\ r[j].ch = "ticker")
  BY <1>1, <1>2, <1>6
<1>8. m.type # "refused"
  <2> SUFFICES ASSUME m.type = "refused" PROVE FALSE
    OBVIOUS
  <2>1. 1 \in 1..Len(q) /\ q[1].type \in {"granted", "refused"} /\ q[1].ch = "ticker"
    BY <1>1, <1>2, <1>4
  <2>2. ~conn[c].getSubReply
    BY <2>1 DEF AnswersOf, q
  <2> QED BY <1>4, <2>2
<1>9. \A i \in 1..conn'[c].answered :
        \/ Channels[i] \in conn'[c].granted
        \/ \E j \in 1..Len(r) : r[j].type = "refused" /\ r[j].ch = Channels[i]
  <2> SUFFICES ASSUME NEW i \in 1..conn'[c].answered, Channels[i] \notin conn'[c].granted
               PROVE  \E j \in 1..Len(r) : r[j].type = "refused" /\ r[j].ch = Channels[i]
    OBVIOUS
  <2>1. PICK j \in 1..Len(q) : q[j].type = "refused" /\ q[j].ch = Channels[i]
    BY <1>3 DEF AnswersOf, q
  <2>2. j # 1
    BY <1>2, <1>8, <2>1
  <2>3. j - 1 \in 1..Len(r) /\ r[j - 1] = q[j]
    BY <1>1, <1>2, <2>2
  <2> QED BY <2>1, <2>3
<1> QED BY <1>3, <1>5, <1>7, <1>9 DEF AnswersOf, r

LEMMA NextAnswers ==
  ASSUME SpiderTypes, AnswerInv, QuoteMoves
  PROVE  AnswerInv'
<1> SUFFICES ASSUME NEW d \in Connections, Serving(conn'[d])
             PROVE  AnswersOf(conn'[d])
  BY DEF AnswerInv
<1>0. ConnTypes /\ (Serving(conn[d]) => AnswersOf(conn[d]))
  BY DEF SpiderTypes, AnswerInv
<1>1. CASE conn' = conn
  BY <1>0, <1>1
<1>2. ASSUME NEW c \in Connections, ConnMoves(c)
      PROVE  AnswersOf(conn'[d])
  <2>1. CASE c # d
    <3>1. conn'[d] = conn[d]
      BY <1>2, <2>1
         DEF ConnMoves, Opens, Turns, Reads, GetsAnswer, GetsOther, Gets, Hands, Others
    <3> QED BY <1>0, <3>1
  <2>2. CASE c = d
    <3>1. CASE Opens(d)
      BY <3>1, AnswersOpen
    <3>2. CASE Turns(d)
      BY <1>0, <3>2, AnswersTurn
    <3>3. CASE Reads(d)
      <4>1. Serving(conn[d])
        BY <3>3 DEF Reads, Serving
      <4> QED BY <1>0, <3>3, <4>1, AnswersRead
    <3>4. ASSUME NEW m \in Packet, GetsAnswer(d, m) \/ GetsOther(d, m)
          PROVE  AnswersOf(conn'[d])
      <4>1. Serving(conn[d])
        BY <3>4 DEF GetsAnswer, GetsOther, Gets, Serving
      <4> QED BY <1>0, <3>4, <4>1, AnswersAnswer, AnswersOther
    <3>5. CASE Hands(d)
      BY <1>0, <3>5, AnswersHand
    <3> QED BY <1>2, <2>2, <3>1, <3>2, <3>3, <3>4, <3>5 DEF ConnMoves
  <2> QED BY <2>1, <2>2
<1> QED BY <1>1, <1>2 DEF QuoteMoves

LEMMA InitAnswers == Init => AnswerInv
<1> SUFFICES ASSUME Init, NEW c \in Connections PROVE ~Serving(conn[c])
  BY DEF AnswerInv
<1>1. conn[c] = NoConn
  BY DEF Init, QuoterInit
<1> QED BY <1>1 DEF NoConn, Serving

(* Once all answers were read, none of them was a refusal. *)
LEMMA AnswersImply ==
  ASSUME SpiderTypes, AnswerInv
  PROVE  AllChannelsOrNone
<1> SUFFICES ASSUME NEW c \in Connections, Serving(conn[c]),
                    conn[c].asked # <<>>, conn[c].answered = Len(conn[c].asked),
                    \A i \in 1..Len(conn[c].inbox) :
                      conn[c].inbox[i].type \in {"push", "garbage"}
             PROVE  conn[c].granted = {Channels[i] : i \in 1..Len(Channels)}
  BY DEF AllChannelsOrNone, Serving
<1>1. conn[c].asked = Channels /\ Consistent(conn[c])
  BY DEF SpiderTypes, ConnTypes, Conn
<1>2. \A i \in 1..Len(Channels) : Channels[i] \in conn[c].granted
  BY <1>1 DEF AnswerInv, AnswersOf
<1> QED BY <1>1, <1>2 DEF Consistent

(* A feed is served with all of its channels or not at all: a reader that got *)
(* past all answers was refused none (okex.go subContractQuote, readLoop).    *)
THEOREM AllOrNone == Spec => []AllChannelsOrNone
<1>1. Init => SpiderTypes /\ AnswerInv
  BY InitTypes, InitAnswers
<1>2. SpiderTypes /\ AnswerInv /\ [Next]_vars => (SpiderTypes /\ AnswerInv)'
  BY NextTypes, NextAnswers
<1>3. SpiderTypes /\ AnswerInv => AllChannelsOrNone
  BY AnswersImply
<1> QED BY <1>1, <1>2, <1>3, PTL DEF Spec

-----------------------------------------------------------------------------
(* The order of the quotes.  Those accepted of a connection precede the ones *)
(* its reader is publishing, and these the pushes it has not read.          *)
Of(c, q) == q.feed = c[1] /\ q.conn = c[2]

ConnOrder(c, k, top) ==
  /\ \A j \in 1..Len(k.inbox) : k.inbox[j].type = "push" => k.inbox[j].n <= top
  /\ \A i, j \in 1..Len(k.inbox) :
       i < j /\ k.inbox[i].type = "push" /\ k.inbox[j].type = "push"
         => k.inbox[i].n < k.inbox[j].n
  /\ \A i \in 1..Len(k.batch) :
       Of(c, k.batch[i]) /\ k.batch[i].priced /\ k.batch[i].n <= top
  /\ \A i, j \in 1..Len(k.batch) : i < j => Precedes(k.batch[i], k.batch[j])
  /\ \A i \in 1..Len(k.batch), j \in 1..Len(k.inbox) :
       k.inbox[j].type = "push" => k.batch[i].n < k.inbox[j].n

(* What is accepted precedes what is to come of the same connection. *)
AcceptedBefore(c, k, q) ==
  Of(c, q) => /\ \A j \in 1..Len(k.batch) : Precedes(q, k.batch[j])
              /\ \A j \in 1..Len(k.inbox) : k.inbox[j].type = "push" => q.n < k.inbox[j].n

AcceptedInOrder ==
  \A j \in 1..Len(accepted) : \A i \in 1..j - 1 :
    SameConnection(accepted[i], accepted[j]) => Precedes(accepted[i], accepted[j])

QuoteInv ==
  /\ \A c \in Connections : ConnOrder(c, conn[c], pushes)
  /\ \A i \in 1..Len(accepted) : accepted[i].priced /\ accepted[i].n <= pushes
  /\ \A c \in Connections, i \in 1..Len(accepted) : AcceptedBefore(c, conn[c], accepted[i])
  /\ AcceptedInOrder

(* An empty connection. *)
LEMMA OrderEmpty ==
  ASSUME NEW c, NEW k, NEW top, k.inbox = <<>>, k.batch = <<>>
  PROVE  ConnOrder(c, k, top) /\ \A q : AcceptedBefore(c, k, q)
<1>1. Len(k.inbox) = 0 /\ Len(k.batch) = 0
  BY EmptySeq
<1> QED BY <1>1 DEF ConnOrder, AcceptedBefore

(* A message that is no push arrives, or a push with a number above all. *)
LEMMA OrderGets ==
  ASSUME ConnTypes, NEW c \in Connections, NEW m \in Packet, Gets(c, m),
         pushes \in 0..MaxPushes,
         \/ m.type # "push" /\ pushes' = pushes
         \/ m.type = "push" /\ m.n = pushes + 1 /\ pushes' = pushes + 1,
         ConnOrder(c, conn[c], pushes)
  PROVE  /\ ConnOrder(c, conn'[c], pushes')
         /\ \A q \in Quote : q.n <= pushes /\ AcceptedBefore(c, conn[c], q)
                               => AcceptedBefore(c, conn'[c], q)
<1> DEFINE q == conn[c].inbox
           r == conn'[c].inbox
           b == conn[c].batch
<1>1. /\ q \in Seq(Packet) /\ Len(q) \in Nat /\ b \in Seq(Quote) /\ Len(b) \in Nat
      /\ conn'[c].batch = b /\ pushes \in Nat /\ pushes' \in Nat /\ pushes <= pushes'
  BY ConnFields, QuoterAssumption DEF Gets
<1>2. /\ Len(r) = Len(q) + 1 /\ r[Len(q) + 1] = m
      /\ \A i \in 1..Len(q) : r[i] = q[i]
  BY <1>1, AppendProperties DEF Gets
<1>3. /\ \A i \in 1..Len(b) : b[i] \in Quote /\ b[i].n \in Int
      /\ \A i \in 1..Len(q) : q[i] \in Packet /\ (q[i].type = "push" => q[i].n \in Int)
  <2>1. \A p \in Quote : p.n \in Int
    BY DEF Quote
  <2>2. \A p \in Packet : p.type = "push" => p.n \in Int
    BY DEF Packet
  <2>3. \A i \in 1..Len(b) : b[i] \in Quote
    BY <1>1, ElementOfSeq
  <2>4. \A i \in 1..Len(q) : q[i] \in Packet
    BY <1>1, ElementOfSeq
  <2> QED BY <2>1, <2>2, <2>3, <2>4
<1> HIDE DEF q, r, b
<1>4. \A j \in 1..Len(r) : r[j].type = "push" =>
         \/ j \in 1..Len(q) /\ r[j] = q[j]
         \/ j = Len(q) + 1 /\ r[j].n = pushes + 1 /\ pushes' = pushes + 1
  BY <1>1, <1>2
<1>5. /\ \A j \in 1..Len(q) : q[j].type = "push" => q[j].n <= pushes
      /\ \A i, j \in 1..Len(q) :
           i < j /\ q[i].type = "push" /\ q[j].type = "push" => q[i].n < q[j].n
      /\ \A i \in 1..Len(b) : Of(c, b[i]) /\ b[i].priced /\ b[i].n <= pushes
      /\ \A i, j \in 1..Len(b) : i < j => Precedes(b[i], b[j])
      /\ \A i \in 1..Len(b), j \in 1..Len(q) : q[j].type = "push" => b[i].n < q[j].n
  BY DEF ConnOrder, q, b
<1>6. \A j \in 1..Len(r) : r[j].type = "push" => r[j].n <= pushes'
  <2> SUFFICES ASSUME NEW j \in 1..Len(r), r[j].type = "push" PROVE r[j].n <= pushes'
    OBVIOUS
  <2>1. CASE j \in 1..Len(q) /\ r[j] = q[j]
    <3>1. q[j].n \in Int /\ q[j].n <= pushes
      BY <1>3, <1>5, <2>1
    <3> QED BY <1>1, <2>1, <3>1
  <2>2. CASE r[j].n = pushes + 1 /\ pushes' = pushes + 1
    BY <1>1, <2>2
  <2> QED BY <1>4, <2>1, <2>2
<1>7. \A i, j \in 1..Len(r) :
        i < j /\ r[i].type = "push" /\ r[j].type = "push" => r[i].n < r[j].n
  <2> SUFFICES ASSUME NEW i \in 1..Len(r), NEW j \in 1..Len(r), i < j,
                      r[i].type = "push", r[j].type = "push"
               PROVE  r[i].n < r[j].n
    OBVIOUS
  <2>1. i \in 1..Len(q) /\ r[i] = q[i] /\ q[i].n \in Int /\ q[i].n <= pushes
    BY <1>1, <1>2, <1>3, <1>5
  <2>2. CASE j \in 1..Len(q) /\ r[j] = q[j]
    BY <1>5, <2>1, <2>2
  <2>3. CASE r[j].n = pushes + 1
    BY <1>1, <2>1, <2>3
  <2> QED BY <1>4, <2>2, <2>3
<1>8. \A i \in 1..Len(b) : b[i].n <= pushes'
  BY <1>1, <1>3, <1>5
<1>9. \A i \in 1..Len(b), j \in 1..Len(r) : r[j].type = "push" => b[i].n < r[j].n
  <2> SUFFICES ASSUME NEW i \in 1..Len(b), NEW j \in 1..Len(r), r[j].type = "push"
               PROVE  b[i].n < r[j].n
    OBVIOUS
  <2>1. CASE j \in 1..Len(q) /\ r[j] = q[j]
    BY <1>5, <2>1
  <2>2. CASE r[j].n = pushes + 1
    BY <1>1, <1>3, <1>5, <2>2
  <2> QED BY <1>4, <2>1, <2>2
<1>10. ConnOrder(c, conn'[c], pushes')
  BY <1>1, <1>5, <1>6, <1>7, <1>8, <1>9 DEF ConnOrder, r
<1>11. ASSUME NEW p \in Quote, p.n <= pushes, AcceptedBefore(c, conn[c], p), Of(c, p)
       PROVE  AcceptedBefore(c, conn'[c], p)
  <2>1. p.n \in Int
    BY DEF Quote
  <2>2. /\ \A j \in 1..Len(b) : Precedes(p, b[j])
        /\ \A j \in 1..Len(q) : q[j].type = "push" => p.n < q[j].n
    BY <1>11 DEF AcceptedBefore, q, b
  <2>3. \A j \in 1..Len(r) : r[j].type = "push" => p.n < r[j].n
    BY <1>1, <1>4, <1>11, <2>1, <2>2
  <2> QED BY <1>1, <2>2, <2>3 DEF AcceptedBefore, r
<1> QED BY <1>10, <1>11 DEF AcceptedBefore

(* The reader takes the next message; a push becomes the batch. *)
LEMMA OrderReads ==
  ASSUME ConnTypes, NEW c \in Connections, Reads(c), pushes \in 0..MaxPushes,
         AnswersOf(conn[c]), ConnOrder(c, conn[c], pushes)
  PROVE  /\ ConnOrder(c, conn'[c], pushes)
         /\ \A p \in Quote : AcceptedBefore(c, conn[c], p) => AcceptedBefore(c, conn'[c], p)
<1> DEFINE q == conn[c].inbox
           r == conn'[c].inbox
           b == conn'[c].batch
           m == Head(q)
<1>1. q \in Seq(Packet) /\ q # <<>> /\ Len(q) \in Nat \ {0}
  <2>1. q \in Seq(Packet) /\ q # <<>> /\ Len(q) \in Nat
    BY ConnFields DEF Reads
  <2> QED BY <2>1, EmptySeq
<1>2. /\ m = q[1] /\ m \in Packet /\ Len(r) = Len(q) - 1
      /\ \A i \in 1..Len(r) : r[i] = q[i + 1]
  BY <1>1, HeadTailProperties DEF Reads
<1>3. /\ \A j \in 1..Len(q) : q[j].type = "push" => q[j].n \in Int /\ q[j].n <= pushes
      /\ \A i, j \in 1..Len(q) :
           i < j /\ q[i].type = "push" /\ q[j].type = "push" => q[i].n < q[j].n
  <2>1. \A p \in Packet : p.type = "push" => p.n \in Int
    BY DEF Packet
  <2>2. \A i \in 1..Len(q) : q[i] \in Packet
    BY <1>1, ElementOfSeq
  <2> QED BY <2>1, <2>2 DEF ConnOrder
<1>4. /\ \A j \in 1..Len(r) : r[j].type = "push" => r[j].n <= pushes
      /\ \A i, j \in 1..Len(r) :
           i < j /\ r[i].type = "push" /\ r[j].type = "push" => r[i].n < r[j].n
  <2> HIDE DEF q, r, m
  <2>1. \A i \in 1..Len(r) : i + 1 \in 1..Len(q) /\ i + 1 \in 2..Len(q)
    BY <1>1, <1>2
  <2>2. \A j \in 1..Len(r) : r[j].type = "push" => r[j].n <= pushes
    BY <1>2, <1>3, <2>1
  <2>3. ASSUME NEW i \in 1..Len(r), NEW j \in 1..Len(r), i < j,
               r[i].type = "push", r[j].type = "push"
        PROVE  r[i].n < r[j].n
    <3>1. i + 1 < j + 1 /\ r[i] = q[i + 1] /\ r[j] = q[j + 1]
      BY <1>2, <2>3
    <3>2. i + 1 \in 1..Len(q) /\ j + 1 \in 1..Len(q)
      BY <2>1
    <3> QED BY <1>3, <2>3, <3>1, <3>2
  <2> QED BY <2>2, <2>3
<1>5. \/ Len(b) = 0
      \/ /\ m.type = "push"
         /\ \A i \in 1..Len(b) : /\ Of(c, b[i]) /\ b[i].priced
                                 /\ b[i].n = m.n /\ b[i].i = i
  <2>1. b = Parsed(c, m)
    BY DEF Reads
  <2> HIDE DEF b, m, q, r
  <2>2. CASE conn[c].getSubReply /\ ~Unreadable(m, TRUE)
    <3>1. b = Quotes(c, m)
      BY <2>1, <2>2 DEF Parsed
    <3>2. ~(m.type = "refused" /\ m.ch = "ticker")
      <4> SUFFICES ASSUME m.type = "refused", m.ch = "ticker" PROVE FALSE
        OBVIOUS
      <4>1. 1 \in 1..Len(q)
        BY <1>1
      <4> QED BY <1>2, <2>2, <4>1 DEF AnswersOf, q
    <3>3. \A i \in 1..Len(b) :
            /\ Of(c, b[i]) /\ m.type = "push"
            /\ b[i].priced /\ b[i].n = m.n /\ b[i].i = i
      BY <1>2, <3>1, <3>2, QuotesTyped DEF Of
    <3>4. Len(b) \in Nat
      BY <1>2, <3>1, QuotesTyped, LenProperties
    <3> QED BY <3>3, <3>4
  <2>3. CASE ~(conn[c].getSubReply /\ ~Unreadable(m, TRUE))
    BY <2>1, <2>3, EmptySeq DEF Parsed
  <2> QED BY <2>2, <2>3
<1>6. m.type = "push" =>
        /\ m.n \in Int /\ m.n <= pushes
        /\ \A j \in 1..Len(r) : r[j].type = "push" => m.n < r[j].n
  <2> HIDE DEF q, r, m
  <2> SUFFICES ASSUME m.type = "push"
               PROVE  /\ m.n \in Int /\ m.n <= pushes
                      /\ \A j \in 1..Len(r) : r[j].type = "push" => m.n < r[j].n
    OBVIOUS
  <2>1. 1 \in 1..Len(q)
    BY <1>1
  <2>2. m.n \in Int /\ m.n <= pushes
    BY <1>2, <1>3, <2>1
  <2>3. ASSUME NEW j \in 1..Len(r), r[j].type = "push" PROVE m.n < r[j].n
    <3>1. j + 1 \in 1..Len(q) /\ 1 < j + 1 /\ r[j] = q[j + 1]
      BY <1>1, <1>2
    <3> QED BY <1>2, <1>3, <2>1, <2>3, <3>1
  <2> QED BY <2>2, <2>3
<1> HIDE DEF m
<1>7. ConnOrder(c, conn'[c], pushes)
  <2> HIDE DEF q, r, b
  <2>1. \A i \in 1..Len(b) : Of(c, b[i]) /\ b[i].priced /\ b[i].n <= pushes
    BY <1>5, <1>6
  <2>2. \A i, j \in 1..Len(b) : i < j => Precedes(b[i], b[j])
    BY <1>5, <1>6 DEF Precedes
  <2>3. \A i \in 1..Len(b), j \in 1..Len(r) : r[j].type = "push" => b[i].n < r[j].n
    BY <1>5, <1>6
  <2> QED BY <1>4, <2>1, <2>2, <2>3 DEF ConnOrder, r, b
<1>8. ASSUME NEW p \in Quote, AcceptedBefore(c, conn[c], p), Of(c, p)
      PROVE  AcceptedBefore(c, conn'[c], p)
  <2> HIDE DEF q, r, b
  <2>1. \A j \in 1..Len(q) : q[j].type = "push" => p.n < q[j].n
    BY <1>8 DEF AcceptedBefore, q
  <2>2. \A j \in 1..Len(r) : r[j].type = "push" => p.n < r[j].n
    BY <1>1, <1>2, <2>1
  <2>3. m.type = "push" => p.n < m.n
    <3>1. 1 \in 1..Len(q)
      BY <1>1
    <3> QED BY <1>2, <2>1, <3>1
  <2>4. \A j \in 1..Len(b) : Precedes(p, b[j])
    BY <1>5, <2>3 DEF Precedes
  <2> QED BY <2>2, <2>4 DEF AcceptedBefore, r, b
<1> QED BY <1>7, <1>8 DEF AcceptedBefore

(* The first quote of the batch leaves. *)
LEMMA OrderHands ==
  ASSUME ConnTypes, NEW c \in Connections, Hands(c), ConnOrder(c, conn[c], pushes)
  PROVE  /\ ConnOrder(c, conn'[c], pushes)
         /\ \A p \in Quote : AcceptedBefore(c, conn[c], p) => AcceptedBefore(c, conn'[c], p)
         /\ AcceptedBefore(c, conn'[c], Head(conn[c].batch))
         /\ Head(conn[c].batch) = conn[c].batch[1] /\ 1 \in 1..Len(conn[c].batch)
<1> DEFINE r == conn'[c].inbox
           a == conn[c].batch
           b == conn'[c].batch
<1>1. /\ a \in Seq(Quote) /\ a # <<>> /\ Len(a) \in Nat \ {0} /\ r = conn[c].inbox
  <2>1. a \in Seq(Quote) /\ a # <<>> /\ Len(a) \in Nat /\ r = conn[c].inbox
    BY ConnFields DEF Hands
  <2> QED BY <2>1, EmptySeq
<1>2. /\ Head(a) = a[1] /\ Len(b) = Len(a) - 1 /\ \A i \in 1..Len(b) : b[i] = a[i + 1]
  BY <1>1, HeadTailProperties DEF Hands
<1>3. 1 \in 1..Len(a)
  BY <1>1
<1>4. /\ \A j \in 1..Len(r) : r[j].type = "push" => r[j].n <= pushes
      /\ \A i, j \in 1..Len(r) :
           i < j /\ r[i].type = "push" /\ r[j].type = "push" => r[i].n < r[j].n
      /\ \A i \in 1..Len(a) : Of(c, a[i]) /\ a[i].priced /\ a[i].n <= pushes
      /\ \A i, j \in 1..Len(a) : i < j => Precedes(a[i], a[j])
      /\ \A i \in 1..Len(a), j \in 1..Len(r) : r[j].type = "push" => a[i].n < r[j].n
  BY <1>1 DEF ConnOrder
<1> HIDE DEF r, a, b
<1>5. \A i \in 1..Len(b) : i + 1 \in 1..Len(a) /\ 1 < i + 1 /\ b[i] = a[i + 1]
  BY <1>1, <1>2
<1>6. \A i, j \in 1..Len(b) : i < j => Precedes(b[i], b[j])
  <2> SUFFICES ASSUME NEW i \in 1..Len(b), NEW j \in 1..Len(b), i < j
               PROVE  Precedes(b[i], b[j])
    OBVIOUS
  <2>1. i + 1 < j + 1
    OBVIOUS
  <2> QED BY <1>4, <1>5, <2>1
<1>7. ConnOrder(c, conn'[c], pushes)
  BY <1>4, <1>5, <1>6 DEF ConnOrder, r, b
<1>8. \A p \in Quote : AcceptedBefore(c, conn[c], p) => AcceptedBefore(c, conn'[c], p)
  BY <1>1, <1>5 DEF AcceptedBefore, r, a, b
<1>9. AcceptedBefore(c, conn'[c], Head(a))
  BY <1>2, <1>3, <1>4, <1>5 DEF AcceptedBefore, r, b
<1> QED BY <1>2, <1>3, <1>7, <1>8, <1>9 DEF a

-----------------------------------------------------------------------------
LEMMA Numbers ==
  /\ \A p \in Quote : p.n \in Int /\ p.i \in Int
  /\ \A m \in Packet : m.type = "push" => m.n \in Int
<1>1. \A p \in Quote : p.n \in Int /\ p.i \in Int
  BY DEF Quote
<1>2. \A m \in Packet : m.type = "push" => m.n \in Int
  BY DEF Packet
<1> QED BY <1>1, <1>2

LEMMA OrderTop ==
  ASSUME ConnTypes, NEW c \in Connections, NEW low \in Int, NEW top \in Int, low <= top,
         ConnOrder(c, conn[c], low)
  PROVE  ConnOrder(c, conn[c], top)
<1>1. /\ \A i \in 1..Len(conn[c].batch) : conn[c].batch[i].n \in Int
      /\ \A j \in 1..Len(conn[c].inbox) :
           conn[c].inbox[j].type = "push" => conn[c].inbox[j].n \in Int
  BY ConnFields, Numbers, ElementOfSeq
<1>2. /\ \A i \in 1..Len(conn[c].batch) : conn[c].batch[i].n <= top
      /\ \A j \in 1..Len(conn[c].inbox) :
           conn[c].inbox[j].type = "push" => conn[c].inbox[j].n <= top
  BY <1>1 DEF ConnOrder
<1> QED BY <1>2 DEF ConnOrder

(* Nothing is accepted: the connection that changed decides. *)
LEMMA QuotesKept ==
  ASSUME SpiderTypes, QuoteInv, accepted' = accepted, pushes' \in Int, pushes <= pushes',
         NEW c \in Connections, Others(c),
         ConnOrder(c, conn'[c], pushes'),
         \A p \in Quote : p.n <= pushes /\ AcceptedBefore(c, conn[c], p)
                            => AcceptedBefore(c, conn'[c], p)
  PROVE  QuoteInv'
<1>0. accepted \in Seq(Quote) /\ pushes \in Int /\ ConnTypes
  BY QuoterAssumption DEF SpiderTypes, ProducerTypeOK, FeedTypes
<1>1. \A d \in Connections : ConnOrder(d, conn'[d], pushes')
  <2> TAKE d \in Connections
  <2>1. CASE d # c
    <3>1. ConnOrder(d, conn[d], pushes)
      BY DEF QuoteInv
    <3>2. ConnOrder(d, conn[d], pushes')
      BY <1>0, <3>1, OrderTop
    <3> QED BY <2>1, <3>2 DEF Others
  <2> QED BY <2>1
<1>2. \A i \in 1..Len(accepted) : accepted[i] \in Quote /\ accepted[i].n \in Int
  BY <1>0, ElementOfSeq, Numbers
<1>3. \A i \in 1..Len(accepted) : accepted[i].priced /\ accepted[i].n <= pushes'
  BY <1>0, <1>2 DEF QuoteInv
<1>4. \A d \in Connections, i \in 1..Len(accepted) : AcceptedBefore(d, conn'[d], accepted[i])
  <2> TAKE d \in Connections, i \in 1..Len(accepted)
  <2>1. accepted[i].n <= pushes /\ AcceptedBefore(d, conn[d], accepted[i])
    BY DEF QuoteInv
  <2> QED BY <1>2, <2>1 DEF Others
<1> QED BY <1>1, <1>3, <1>4 DEF QuoteInv, AcceptedInOrder

(* The first quote of a batch is accepted. *)
LEMMA QuoteAccepted ==
  ASSUME SpiderTypes, QuoteInv, NEW c \in Connections, Hands(c), pushes' = pushes,
         accepted' = Append(accepted, Head(conn[c].batch))
  PROVE  QuoteInv'
<1> DEFINE p == Head(conn[c].batch)
           n == Len(accepted)
<1>0. accepted \in Seq(Quote) /\ pushes \in Int /\ ConnTypes /\ n \in Nat /\ Others(c)
  BY QuoterAssumption, LenProperties DEF SpiderTypes, ProducerTypeOK, FeedTypes, Hands
<1>1. /\ ConnOrder(c, conn'[c], pushes)
      /\ \A q \in Quote : AcceptedBefore(c, conn[c], q) => AcceptedBefore(c, conn'[c], q)
      /\ AcceptedBefore(c, conn'[c], p)
      /\ p = conn[c].batch[1] /\ 1 \in 1..Len(conn[c].batch)
  BY <1>0, OrderHands DEF QuoteInv
<1>2. p \in Quote /\ Of(c, p) /\ p.priced /\ p.n <= pushes
  <2>1. conn[c].batch \in Seq(Quote)
    BY <1>0, ConnFields
  <2> QED BY <1>1, <2>1, ElementOfSeq DEF QuoteInv, ConnOrder
<1>3. /\ accepted' \in Seq(Quote) /\ Len(accepted') = n + 1 /\ accepted'[n + 1] = p
      /\ \A i \in 1..n : accepted'[i] = accepted[i]
  BY <1>0, <1>2, AppendProperties
<1>4. \A i \in 1..n : accepted[i] \in Quote
  BY <1>0, ElementOfSeq
<1> HIDE DEF p, n
<1>5. \A d \in Connections : ConnOrder(d, conn'[d], pushes')
  BY <1>0, <1>1 DEF QuoteInv, Others
<1>6. \A i \in 1..Len(accepted') : accepted'[i].priced /\ accepted'[i].n <= pushes'
  <2> TAKE i \in 1..Len(accepted')
  <2>1. CASE i \in 1..n
    BY <1>3, <2>1 DEF QuoteInv, n
  <2>2. CASE i = n + 1
    BY <1>2, <1>3, <2>2
  <2> QED BY <1>0, <1>3, <2>1, <2>2
<1>7. \A d \in Connections : AcceptedBefore(d, conn'[d], p)
  <2> TAKE d \in Connections
  <2>1. CASE d # c
    <3>1. c = <<c[1], c[2]>> /\ d = <<d[1], d[2]>>
      BY DEF Connections
    <3>2. ~Of(d, p)
      BY <1>2, <2>1, <3>1 DEF Of
    <3> QED BY <3>2 DEF AcceptedBefore
  <2> QED BY <1>1, <2>1
<1>8. \A d \in Connections, i \in 1..Len(accepted') : AcceptedBefore(d, conn'[d], accepted'[i])
  <2> TAKE d \in Connections, i \in 1..Len(accepted')
  <2>1. CASE i \in 1..n
    <3>1. AcceptedBefore(d, conn[d], accepted[i])
      BY <2>1 DEF QuoteInv, n
    <3> QED BY <1>0, <1>1, <1>3, <1>4, <2>1, <3>1 DEF Others
  <2>2. CASE i = n + 1
    BY <1>3, <1>7, <2>2
  <2> QED BY <1>0, <1>3, <2>1, <2>2
<1>9. AcceptedInOrder'
  <2> SUFFICES ASSUME NEW j \in 1..Len(accepted'), NEW i \in 1..j - 1,
                      SameConnection(accepted'[i], accepted'[j])
               PROVE  Precedes(accepted'[i], accepted'[j])
    BY DEF AcceptedInOrder
  <2>1. i \in 1..n /\ accepted'[i] = accepted[i]
    BY <1>0, <1>3
  <2>2. CASE j \in 1..n
    BY <1>3, <2>1, <2>2 DEF QuoteInv, AcceptedInOrder, n
  <2>3. CASE j = n + 1
    <3>1. Of(c, accepted[i])
      BY <1>2, <1>3, <2>1, <2>3 DEF Of, SameConnection
    <3>2. Precedes(accepted[i], p)
      BY <1>1, <2>1, <3>1 DEF QuoteInv, AcceptedBefore, n
    <3> QED BY <1>3, <2>1, <2>3, <3>2
  <2> QED BY <1>0, <1>3, <2>2, <2>3
<1> QED BY <1>5, <1>6, <1>8, <1>9 DEF QuoteInv

LEMMA NextQuotes ==
  ASSUME SpiderTypes, AnswerInv, QuoteInv, QuoteMoves
  PROVE  QuoteInv'
<1>0. ConnTypes /\ pushes \in 0..MaxPushes /\ pushes \in Int /\ accepted \in Seq(Quote)
  BY QuoterAssumption DEF SpiderTypes, FeedTypes, ProducerTypeOK
<1>1. CASE conn' = conn /\ pushes' = pushes /\ accepted' = accepted
  BY <1>1 DEF QuoteInv, AcceptedInOrder
<1>2. ASSUME NEW c \in Connections, ConnMoves(c)
      PROVE  QuoteInv'
  <2>0. ConnOrder(c, conn[c], pushes)
    BY DEF QuoteInv
  <2>1. CASE Opens(c) /\ pushes' = pushes /\ accepted' = accepted
    <3>1. conn'[c].inbox = <<>> /\ conn'[c].batch = <<>> /\ Others(c)
      BY <2>1 DEF Opens, NoConn
    <3>2. ConnOrder(c, conn'[c], pushes') /\ \A q : AcceptedBefore(c, conn'[c], q)
      BY <3>1, OrderEmpty
    <3> QED BY <1>0, <2>1, <3>1, <3>2, QuotesKept
  <2>2. CASE Turns(c) /\ pushes' = pushes /\ accepted' = accepted
    <3>1. ConnOrder(c, conn'[c], pushes') /\ Others(c)
      BY <2>0, <2>2 DEF Turns, ConnOrder
    <3>2. \A q \in Quote : AcceptedBefore(c, conn[c], q) => AcceptedBefore(c, conn'[c], q)
      BY <2>2 DEF Turns, AcceptedBefore
    <3> QED BY <1>0, <2>2, <3>1, <3>2, QuotesKept
  <2>3. CASE Reads(c) /\ pushes' = pushes /\ accepted' = accepted
    <3>1. AnswersOf(conn[c]) /\ Others(c)
      BY <2>3 DEF Reads, AnswerInv, Serving
    <3>2. /\ ConnOrder(c, conn'[c], pushes')
          /\ \A q \in Quote : AcceptedBefore(c, conn[c], q) => AcceptedBefore(c, conn'[c], q)
      BY <1>0, <2>0, <2>3, <3>1, OrderReads
    <3> QED BY <1>0, <2>3, <3>1, <3>2, QuotesKept
  <2>4. ASSUME NEW m \in Packet, GetsAnswer(c, m) \/ GetsOther(c, m), accepted' = accepted
        PROVE  QuoteInv'
    <3>1. /\ Gets(c, m)
          /\ \/ m.type # "push" /\ pushes' = pushes
             \/ m.type = "push" /\ m.n = pushes + 1 /\ pushes' = pushes + 1
      BY <2>4 DEF GetsAnswer, GetsOther
    <3>2. Others(c) /\ pushes' \in Int /\ pushes <= pushes'
      BY <1>0, <3>1 DEF Gets
    <3>3. /\ ConnOrder(c, conn'[c], pushes')
          /\ \A q \in Quote : q.n <= pushes /\ AcceptedBefore(c, conn[c], q)
                                => AcceptedBefore(c, conn'[c], q)
      BY <1>0, <2>0, <3>1, OrderGets
    <3> QED BY <2>4, <3>2, <3>3, QuotesKept
  <2>5. CASE Hands(c) /\ pushes' = pushes /\ accepted' = accepted
    <3>1. Others(c)
      BY <2>5 DEF Hands
    <3>2. /\ ConnOrder(c, conn'[c], pushes')
          /\ \A q \in Quote : AcceptedBefore(c, conn[c], q) => AcceptedBefore(c, conn'[c], q)
      BY <1>0, <2>0, <2>5, OrderHands
    <3> QED BY <1>0, <2>5, <3>1, <3>2, QuotesKept
  <2>6. CASE Hands(c) /\ pushes' = pushes /\ accepted' = Append(accepted, Head(conn[c].batch))
    BY <2>6, QuoteAccepted
  <2> QED BY <1>2, <2>1, <2>2, <2>3, <2>4, <2>5, <2>6 DEF ConnMoves, Sends
<1> QED BY <1>1, <1>2 DEF QuoteMoves

LEMMA InitQuotes == Init => QuoteInv
<1> SUFFICES ASSUME Init PROVE QuoteInv
  OBVIOUS
<1>1. accepted = <<>> /\ Len(accepted) = 0
  BY EmptySeq DEF Init, ProducerInit
<1>2. ASSUME NEW c \in Connections PROVE ConnOrder(c, conn[c], pushes)
  <2>1. conn[c] = NoConn
    BY DEF Init, QuoterInit
  <2>2. NoConn.inbox = <<>> /\ NoConn.batch = <<>>
    BY DEF NoConn
  <2> QED BY <2>1, <2>2, OrderEmpty
<1> QED BY <1>1, <1>2 DEF QuoteInv, AcceptedInOrder

-----------------------------------------------------------------------------
(* On the way to the broker.  What is in the topic, with the producer and in *)
(* the channel was accepted, and follows each other in this order.          *)
InOrder(p, q) == SameConnection(p, q) => ~Precedes(q, p)

Sorted(s) == \A j \in 1..Len(s) : \A i \in 1..j - 1 : InOrder(s[i], s[j])

AllBefore(s, t) == \A i \in 1..Len(s), j \in 1..Len(t) : InOrder(s[i], t[j])

Known(s) == \A i \in 1..Len(s) : \E a \in 1..Len(accepted) : s[i] = accepted[a]

BrokerInv ==
  /\ Sorted(out) /\ Sorted(producerQ)
  /\ AllBefore(out, sending) /\ AllBefore(out, producerQ) /\ AllBefore(sending, producerQ)
  /\ Known(out) /\ Known(sending) /\ Known(producerQ)

LEMMA PrecedesOneWay ==
  ASSUME NEW p \in Quote, NEW q \in Quote
  PROVE  ~Precedes(p, p) /\ ~(Precedes(p, q) /\ Precedes(q, p))
<1>1. p.n \in Int /\ p.i \in Int /\ q.n \in Int /\ q.i \in Int
  BY Numbers
<1> QED BY <1>1 DEF Precedes

LEMMA ProducerQuotes ==
  ASSUME ProducerTypeOK(Quote)
  PROVE  /\ out \in Seq(Quote) /\ sending \in Seq(Quote)
         /\ producerQ \in Seq(Quote) /\ accepted \in Seq(Quote)
         /\ Len(out) \in Nat /\ Len(sending) \in {0, 1}
         /\ Len(producerQ) \in Nat /\ Len(accepted) \in Nat
<1>1. /\ out \in Seq(Quote) /\ sending \in Seq(Quote)
      /\ producerQ \in Seq(Quote) /\ accepted \in Seq(Quote) /\ Len(sending) <= 1
  BY DEF ProducerTypeOK
<1>2. /\ Len(out) \in Nat /\ Len(sending) \in Nat
      /\ Len(producerQ) \in Nat /\ Len(accepted) \in Nat
  BY <1>1, LenProperties
<1>3. Len(sending) \in {0, 1}
  <2>1. \A n \in Nat : n <= 1 => n \in {0, 1}
    OBVIOUS
  <2> QED BY <1>1, <1>2, <2>1, Zenon
<1> QED BY <1>1, <1>2, <1>3

(* The broker gets the quote that is being sent, maybe not for the first time. *)
LEMMA BrokerGets ==
  ASSUME ProducerTypeOK(Quote), BrokerInv, sending # <<>>,
         out' = out \o sending, accepted' = accepted
  PROVE  /\ Sorted(out') /\ AllBefore(out', sending) /\ AllBefore(out', producerQ)
         /\ Known(out)'
<1>1. /\ out \in Seq(Quote) /\ sending \in Seq(Quote) /\ Len(out) \in Nat
      /\ Len(sending) = 1 /\ sending[1] \in Quote
  <2>1. /\ out \in Seq(Quote) /\ sending \in Seq(Quote) /\ Len(out) \in Nat
        /\ Len(sending) \in {0, 1}
    BY ProducerQuotes
  <2>2. Len(sending) = 1
    BY <2>1, EmptySeq
  <2> QED BY <2>1, <2>2, ElementOfSeq
<1>2. /\ Len(out') = Len(out) + 1
      /\ \A i \in 1..Len(out) : out'[i] = out[i]
      /\ out'[Len(out) + 1] = sending[1]
  <2>1. /\ Len(out') = Len(out) + Len(sending)
        /\ \A i \in 1..Len(out) + Len(sending) :
             out'[i] = IF i <= Len(out) THEN out[i] ELSE sending[i - Len(out)]
    BY <1>1, ConcatProperties
  <2> QED BY <1>1, <2>1
<1>3. \A i \in 1..Len(out') : i \in 1..Len(out) \/ i = Len(out) + 1
  BY <1>1, <1>2
<1>4. /\ \A j \in 1..Len(out) : \A i \in 1..j - 1 : InOrder(out[i], out[j])
      /\ \A i \in 1..Len(out) : InOrder(out[i], sending[1])
      /\ InOrder(sending[1], sending[1])
  <2>1. InOrder(sending[1], sending[1])
    BY <1>1, PrecedesOneWay DEF InOrder
  <2> QED BY <1>1, <2>1 DEF BrokerInv, Sorted, AllBefore
<1>5. Sorted(out')
  <2> SUFFICES ASSUME NEW j \in 1..Len(out'), NEW i \in 1..j - 1
               PROVE  InOrder(out'[i], out'[j])
    BY DEF Sorted
  <2>1. i \in 1..Len(out)
    BY <1>1, <1>2
  <2>2. CASE j \in 1..Len(out)
    BY <1>2, <1>4, <2>1, <2>2
  <2>3. CASE j = Len(out) + 1
    BY <1>2, <1>4, <2>1, <2>3
  <2> QED BY <1>3, <2>2, <2>3
<1>6. AllBefore(out', sending)
  BY <1>1, <1>2, <1>3, <1>4 DEF AllBefore
<1>7. AllBefore(out', producerQ)
  <2> SUFFICES ASSUME NEW i \in 1..Len(out'), NEW j \in 1..Len(producerQ)
               PROVE  InOrder(out'[i], producerQ[j])
    BY DEF AllBefore
  <2>1. CASE i \in 1..Len(out)
    BY <1>2, <2>1 DEF BrokerInv, AllBefore
  <2>2. CASE i = Len(out) + 1
    BY <1>1, <1>2, <2>2 DEF BrokerInv, AllBefore
  <2> QED BY <1>3, <2>1, <2>2
<1>8. \A i \in 1..Len(out') : \E a \in 1..Len(accepted) : out'[i] = accepted[a]
  <2> TAKE i \in 1..Len(out')
  <2>1. CASE i \in 1..Len(out)
    BY <1>2, <2>1 DEF BrokerInv, Known
  <2>2. CASE i = Len(out) + 1
    BY <1>1, <1>2, <2>2 DEF BrokerInv, Known
  <2> QED BY <1>3, <2>1, <2>2
<1> QED BY <1>5, <1>6, <1>7, <1>8 DEF Known

(* A quote enters the channel behind all that were accepted before. *)
LEMMA BrokerAccepts ==
  ASSUME ProducerTypeOK(Quote), BrokerInv, AcceptedInOrder', NEW m \in Quote,
         producerQ' = Append(producerQ, m), accepted' = Append(accepted, m),
         out' = out, sending' = sending
  PROVE  BrokerInv'
<1>1. /\ producerQ \in Seq(Quote) /\ accepted \in Seq(Quote)
      /\ Len(producerQ) \in Nat /\ Len(accepted) \in Nat
      /\ \A i \in 1..Len(accepted) : accepted[i] \in Quote
  BY ProducerQuotes, ElementOfSeq
<1>2. /\ Len(producerQ') = Len(producerQ) + 1 /\ producerQ'[Len(producerQ) + 1] = m
      /\ \A i \in 1..Len(producerQ) : producerQ'[i] = producerQ[i]
      /\ Len(accepted') = Len(accepted) + 1 /\ accepted'[Len(accepted) + 1] = m
      /\ \A i \in 1..Len(accepted) : accepted'[i] = accepted[i]
  BY <1>1, AppendProperties
<1>3. \A i \in 1..Len(accepted) : InOrder(accepted[i], m)
  <2> TAKE i \in 1..Len(accepted)
  <2>1. /\ Len(accepted) + 1 \in 1..Len(accepted') /\ i \in 1..(Len(accepted) + 1) - 1
    BY <1>1, <1>2
  <2>2. SameConnection(accepted'[i], accepted'[Len(accepted) + 1])
          => Precedes(accepted'[i], accepted'[Len(accepted) + 1])
    BY <2>1 DEF AcceptedInOrder
  <2>3. SameConnection(accepted[i], m) => Precedes(accepted[i], m)
    BY <1>2, <2>2
  <2> QED BY <1>1, <2>3, PrecedesOneWay DEF InOrder
<1>4. ASSUME NEW s, Known(s)
      PROVE  \A i \in 1..Len(s) : InOrder(s[i], m)
  BY <1>3, <1>4 DEF Known
<1>5. ASSUME NEW s, Known(s)
      PROVE  \A i \in 1..Len(s) : \E a \in 1..Len(accepted') : s[i] = accepted'[a]
  <2> TAKE i \in 1..Len(s)
  <2>1. PICK a \in 1..Len(accepted) : s[i] = accepted[a]
    BY <1>5 DEF Known
  <2>2. a \in 1..Len(accepted') /\ s[i] = accepted'[a]
    BY <1>1, <1>2, <2>1
  <2> QED BY <2>2
<1>6. \A i \in 1..Len(producerQ') : i \in 1..Len(producerQ) \/ i = Len(producerQ) + 1
  BY <1>1, <1>2
<1>7. ASSUME NEW s, Known(s), AllBefore(s, producerQ)
      PROVE  AllBefore(s, producerQ')
  <2> SUFFICES ASSUME NEW i \in 1..Len(s), NEW j \in 1..Len(producerQ')
               PROVE  InOrder(s[i], producerQ'[j])
    BY DEF AllBefore
  <2>1. CASE j \in 1..Len(producerQ)
    BY <1>2, <1>7, <2>1 DEF AllBefore
  <2>2. CASE j = Len(producerQ) + 1
    BY <1>2, <1>4, <1>7, <2>2
  <2> QED BY <1>6, <2>1, <2>2
<1>8. Sorted(producerQ')
  <2> SUFFICES ASSUME NEW j \in 1..Len(producerQ'), NEW i \in 1..j - 1
               PROVE  InOrder(producerQ'[i], producerQ'[j])
    BY DEF Sorted
  <2>1. i \in 1..Len(producerQ)
    BY <1>1, <1>2
  <2>2. CASE j \in 1..Len(producerQ)
    BY <1>2, <2>1, <2>2 DEF BrokerInv, Sorted
  <2>3. CASE j = Len(producerQ) + 1
    BY <1>2, <1>4, <2>1, <2>3 DEF BrokerInv
  <2> QED BY <1>6, <2>2, <2>3
<1>9. Known(out)' /\ Known(sending)'
  BY <1>5 DEF BrokerInv, Known
<1>10. Known(producerQ)'
  <2>1. \A i \in 1..Len(producerQ') : \E a \in 1..Len(accepted') : producerQ'[i] = accepted'[a]
    <3> TAKE i \in 1..Len(producerQ')
    <3>1. CASE i \in 1..Len(producerQ)
      BY <1>2, <1>5, <3>1 DEF BrokerInv
    <3>2. CASE i = Len(producerQ) + 1
      <4>1. Len(accepted) + 1 \in 1..Len(accepted')
        BY <1>1, <1>2
      <4> QED BY <1>2, <3>2, <4>1
    <3> QED BY <1>6, <3>1, <3>2
  <2> QED BY <2>1 DEF Known
<1>11. /\ Sorted(out') /\ AllBefore(out', sending')
       /\ AllBefore(out', producerQ') /\ AllBefore(sending', producerQ')
  <2>1. AllBefore(out, producerQ') /\ AllBefore(sending, producerQ')
    BY <1>7 DEF BrokerInv
  <2> QED BY <2>1 DEF BrokerInv
<1> QED BY <1>8, <1>9, <1>10, <1>11 DEF BrokerInv, Sorted, AllBefore

LEMMA BrokerTakes ==
  ASSUME ProducerTypeOK(Quote), BrokerInv, producerQ # <<>>,
         sending' = <<Head(producerQ)>>, producerQ' = Tail(producerQ),
         out' = out, accepted' = accepted
  PROVE  BrokerInv'
<1>1. /\ producerQ \in Seq(Quote) /\ Len(producerQ) \in Nat /\ Len(producerQ) # 0
  BY ProducerQuotes, EmptySeq
<1>2. /\ Len(producerQ') = Len(producerQ) - 1
      /\ \A i \in 1..Len(producerQ') : producerQ'[i] = producerQ[i + 1]
      /\ Len(sending') = 1 /\ sending'[1] = producerQ[1]
  BY <1>1, HeadTailProperties
<1>3. \A i \in 1..Len(producerQ') : i + 1 \in 1..Len(producerQ) /\ 1 \in 1..(i + 1) - 1
  BY <1>1, <1>2
<1>4. 1 \in 1..Len(producerQ) /\ \A i \in 1..Len(sending') : i = 1
  BY <1>1, <1>2
<1>5. Sorted(producerQ')
  <2> SUFFICES ASSUME NEW j \in 1..Len(producerQ'), NEW i \in 1..j - 1
               PROVE  InOrder(producerQ'[i], producerQ'[j])
    BY DEF Sorted
  <2>1. i \in 1..Len(producerQ') /\ i + 1 \in 1..(j + 1) - 1
    BY <1>1, <1>2
  <2>2. InOrder(producerQ[i + 1], producerQ[j + 1])
    BY <1>3, <2>1 DEF BrokerInv, Sorted
  <2> QED BY <1>2, <2>1, <2>2
<1>6. AllBefore(out, sending')
  BY <1>2, <1>4 DEF BrokerInv, AllBefore
<1>7. AllBefore(out, producerQ')
  BY <1>2, <1>3 DEF BrokerInv, AllBefore
<1>8. AllBefore(sending', producerQ')
  <2> SUFFICES ASSUME NEW j \in 1..Len(producerQ')
               PROVE  InOrder(producerQ[1], producerQ'[j])
    BY <1>2, <1>4 DEF AllBefore
  <2> QED BY <1>2, <1>3 DEF BrokerInv, Sorted
<1>9. Known(out)' /\ Known(sending)' /\ Known(producerQ)'
  BY <1>2, <1>3, <1>4 DEF BrokerInv, Known
<1> QED BY <1>5, <1>6, <1>7, <1>8, <1>9 DEF BrokerInv, Sorted, AllBefore

LEMMA NextBroker ==
  ASSUME ProducerTypeOK(Quote), BrokerInv, AcceptedInOrder', ProducerMoves(Quote)
  PROVE  BrokerInv'
<1>1. CASE UNCHANGED <<producerQ, sending, out, accepted>>
  BY <1>1 DEF BrokerInv, Sorted, AllBefore, Known
<1>2. ASSUME NEW m \in Quote, SendMessage(m), producerAlive
      PROVE  BrokerInv'
  <2>1. /\ producerQ' = Append(producerQ, m) /\ accepted' = Append(accepted, m)
        /\ out' = out /\ sending' = sending
    BY <1>2, Zenon DEF SendMessage
  <2> QED BY <2>1, BrokerAccepts
<1>3. CASE TakeToSend
  BY <1>3, BrokerTakes DEF TakeToSend
<1>4. CASE Sent \/ SendRetried \/ SendFails
  <2>1. /\ sending # <<>> /\ out' \in {out, out \o sending} /\ sending' \in {<<>>, sending}
        /\ UNCHANGED <<producerQ, accepted>>
    BY <1>4 DEF Sent, SendRetried, SendFails, AttemptFails, ProducerTypeOK
  <2>2. /\ Sorted(out') /\ AllBefore(out', sending) /\ AllBefore(out', producerQ)
        /\ Known(out)'
    <3>1. CASE out' = out
      BY <2>1, <3>1 DEF BrokerInv, Known
    <3>2. CASE out' = out \o sending
      BY <2>1, <3>2, BrokerGets
    <3> QED BY <2>1, <3>1, <3>2
  <2>3. /\ AllBefore(out', sending') /\ AllBefore(sending', producerQ) /\ Known(sending)'
    <3>1. CASE sending' = sending
      BY <2>1, <2>2, <3>1 DEF BrokerInv, Known
    <3>2. CASE sending' = <<>>
      <4>1. Len(sending') = 0
        BY <3>2, EmptySeq
      <4> QED BY <4>1 DEF AllBefore, Known
    <3> QED BY <2>1, <3>1, <3>2
  <2> QED BY <2>1, <2>2, <2>3 DEF BrokerInv, Sorted, AllBefore, Known
<1> QED
  BY <1>1, <1>2, <1>3, <1>4
     DEF ProducerMoves, SendMessage, TobeProducer, ProducerTakesExit, CloseProducer, producerVars

LEMMA InitBroker == Init => BrokerInv
<1> SUFFICES ASSUME Init PROVE BrokerInv
  OBVIOUS
<1>1. Len(out) = 0 /\ Len(sending) = 0 /\ Len(producerQ) = 0
  BY EmptySeq DEF Init, ProducerInit
<1> QED BY <1>1 DEF BrokerInv, Sorted, AllBefore, Known

LEMMA BrokerImplies ==
  ASSUME AcceptedInOrder, BrokerInv
  PROVE  InConnectionOrder
  BY DEF AcceptedInOrder, BrokerInv, Sorted, InOrder, InConnectionOrder

SpiderInv == SpiderTypes /\ AnswerInv /\ QuoteInv /\ BrokerInv

LEMMA InitSpider == Init => SpiderInv
  BY InitTypes, InitAnswers, InitQuotes, InitBroker DEF SpiderInv

LEMMA NextSpider == SpiderInv /\ [Next]_vars => SpiderInv'
<1> SUFFICES ASSUME SpiderInv, [Next]_vars
             PROVE  SpiderInv'
  OBVIOUS
<1>1. SpiderTypes' /\ QuoteMoves /\ ProducerMoves(Quote) /\ ProducerTypeOK(Quote)
  BY NextTypes DEF SpiderInv, SpiderTypes
<1>2. AnswerInv' /\ QuoteInv'
  BY <1>1, NextAnswers, NextQuotes DEF SpiderInv
<1>3. BrokerInv'
  BY <1>1, <1>2, NextBroker DEF SpiderInv, QuoteInv
<1> QED BY <1>1, <1>2, <1>3 DEF SpiderInv

(* The quotes of one connection enter the channel in the order of its pushes, *)
(* candle by candle and none twice, and the topic never has one of them behind *)
(* a later one, though maybe more than once (okex.go RunImpl, readLoop,       *)
(* parseNtfKLine; kfc.go syncProducerLoop).  The quotes of two connections are *)
(* not compared.                                                             *)
THEOREM QuotesInOrder == Spec => []InConnectionOrder
<1>1. SpiderInv => InConnectionOrder
  BY BrokerImplies DEF SpiderInv, QuoteInv
<1> QED BY InitSpider, NextSpider, <1>1, PTL DEF Spec

(* No quote without prices is published (okex.go readLoop, parseNtfTicker).  *)
THEOREM TickersPriced == Spec => []NoEmptyTicker
<1>1. SpiderInv => NoEmptyTicker
  BY DEF SpiderInv, QuoteInv, NoEmptyTicker
<1> QED BY InitSpider, NextSpider, <1>1, PTL DEF Spec
=============================================================================
