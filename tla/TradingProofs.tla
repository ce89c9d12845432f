---------------------------- MODULE TradingProofs ----------------------------
(***************************************************************************)
(* Proofs about Trading, for every set of contracts and every bound.       *)
(***************************************************************************)
EXTENDS Trading, FiniteSetTheorems, SequenceTheorems, TLAPS

-----------------------------------------------------------------------------
(* A function on 1..n is a sequence of length n. *)
LEMMA FunctionIsSeq ==
  ASSUME NEW S, NEW n \in Nat, NEW f \in [1..n -> S]
  PROVE  f \in Seq(S) /\ Len(f) = n /\ DOMAIN f = 1..n
  BY SeqDef

(* The number of unanswered commands is a number. *)
LEMMA FeedbackCount ==
  ASSUME NEW n \in Nat, NEW D, D \subseteq 1..n
  PROVE  Cardinality(D) \in Nat /\ IsFiniteSet(D)
<1>1. IsFiniteSet(1..n)
  BY FS_Interval
<1>2. IsFiniteSet(D)
  BY <1>1, FS_Subset
<1>3. Cardinality(D) \in Nat
  BY <1>2, FS_CardinalityType
<1> QED BY <1>2, <1>3

(* queryAllPos is a non-empty burst of requests. *)
LEMMA QueryAllPosType ==
  /\ queryAllPos \in Seq(ReqBody)
  /\ Len(queryAllPos) = Len(Follows) + 1
  /\ Len(Follows) \in Nat
  /\ \A i \in 1..Len(queryAllPos) : queryAllPos[i].tid # "SetOrder"
<1>1. Len(Follows) \in Nat /\ \A i \in 1..Len(Follows) : Follows[i] \in Symbols
  BY FollowsAssumption, ElementOfSeq, LenProperties
<1>2. \A i \in 1..Len(Follows) + 1 :
        /\ queryAllPos[i] \in ReqBody
        /\ queryAllPos[i].tid # "SetOrder"
  BY <1>1 DEF queryAllPos, ReqBody, ReqQryMoney, ReqQryPos
<1>3. queryAllPos \in [1..Len(Follows) + 1 -> ReqBody]
  BY <1>1, <1>2 DEF queryAllPos
<1> QED BY <1>1, <1>2, <1>3, FunctionIsSeq

(* Every followed contract is asked for. *)
LEMMA QueryAllPosCovers ==
  \A s \in Symbols : \E i \in 1..Len(queryAllPos) :
    queryAllPos[i] = [tid |-> "QryPos", sym |-> s]
<1> TAKE s \in Symbols
<1>1. PICK i \in 1..Len(Follows) : Follows[i] = s
  BY FollowsAssumption
<1>2. Len(Follows) \in Nat /\ Len(queryAllPos) = Len(Follows) + 1
  BY QueryAllPosType
<1>3. i + 1 \in 1..Len(queryAllPos)
  BY <1>2
<1>4. queryAllPos[i + 1] = [tid |-> "QryPos", sym |-> s]
  BY <1>1, <1>2 DEF queryAllPos
<1> QED BY <1>3, <1>4

LEMMA CheckQueriesType ==
  ASSUME TypeOK
  PROVE  CheckQueries \in Seq(ReqBody)
<1> DEFINE k == Len(queryAllPos)
           c == Cardinality(DOMAIN feedback)
<1>1. c \in Nat /\ k \in Nat \ {0}
  BY FeedbackCount, QueryAllPosType DEF TypeOK
<1>2. c * k \in Nat
  BY <1>1
<1>3. ASSUME NEW i \in 1..c * k
      PROVE  queryAllPos[((i - 1) % k) + 1] \in ReqBody
  <2>1. ((i - 1) % k) + 1 \in 1..k
    BY <1>1, <1>2
  <2> QED BY <2>1, QueryAllPosType, ElementOfSeq
<1>4. CheckQueries \in [1..c * k -> ReqBody]
  BY <1>3 DEF CheckQueries
<1> QED BY <1>2, <1>4, FunctionIsSeq

(* What Decide sends are orders for the contract of the tick. *)
LEMMA DecideType ==
  ASSUME NEW st, NEW over, NEW avai \in Lots, NEW t \in Tick
  PROVE  /\ Decide(st, over, avai, t) \in Seq(ReqBody)
         /\ \A i \in 1..Len(Decide(st, over, avai, t)) :
              /\ Decide(st, over, avai, t)[i].tid = "SetOrder"
              /\ Decide(st, over, avai, t)[i].sym = t.sym
         /\ Losses(Decide(st, over, avai, t), t) \in Nat
<1> DEFINE L == SideOrders(st, over, avai, t, "long")
           R == SideOrders(st, over, avai, t, "short")
           IsOrder(o) == o \in ReqBody /\ o.tid = "SetOrder" /\ o.sym = t.sym
<1>1. ASSUME NEW side \in Sides
      PROVE  /\ SideOrders(st, over, avai, t, side) \in Seq(ReqBody)
             /\ \A i \in 1..Len(SideOrders(st, over, avai, t, side)) :
                  IsOrder(SideOrders(st, over, avai, t, side)[i])
  <2> DEFINE O == Order(t, side, TRUE, t.vol)
             C == Order(t, side, FALSE, avai[side])
  <2>1. avai[side] \in Nat /\ t.vol \in Nat /\ t.sym \in Symbols
    BY DEF Lots, Tick
  <2>2. IsOrder(O) /\ IsOrder(C)
    BY <2>1 DEF Order, ReqBody, ReqSetOrder
  <2>3. SideOrders(st, over, avai, t, side) \in {<<>>, <<O>>, <<C>>}
    BY DEF SideOrders
  <2>4. CASE SideOrders(st, over, avai, t, side) = <<>>
    BY <2>4
  <2>5. ASSUME NEW Y, IsOrder(Y), SideOrders(st, over, avai, t, side) = <<Y>>
        PROVE  /\ SideOrders(st, over, avai, t, side) \in Seq(ReqBody)
               /\ \A i \in 1..Len(SideOrders(st, over, avai, t, side)) :
                    IsOrder(SideOrders(st, over, avai, t, side)[i])
    BY <2>5
  <2> QED BY <2>2, <2>3, <2>4, <2>5
<1>2. "long" \in Sides /\ "short" \in Sides
  BY DEF Sides
<1>3. L \in Seq(ReqBody) /\ \A i \in 1..Len(L) : IsOrder(L[i])
  BY <1>1, <1>2
<1>4. R \in Seq(ReqBody) /\ \A i \in 1..Len(R) : IsOrder(R[i])
  BY <1>1, <1>2
<1>5. /\ L \o R \in Seq(ReqBody)
      /\ Len(L \o R) = Len(L) + Len(R)
      /\ \A i \in 1 .. Len(L) + Len(R) :
           (L \o R)[i] = IF i <= Len(L) THEN L[i] ELSE R[i - Len(L)]
  BY <1>3, <1>4, ConcatProperties
<1>6. Len(L) \in Nat /\ Len(R) \in Nat
  BY <1>3, <1>4
<1>7. \A i \in 1..Len(L \o R) : IsOrder((L \o R)[i])
  <2> TAKE i \in 1..Len(L \o R)
  <2>1. CASE i <= Len(L)
    BY <2>1, <1>3, <1>5, <1>6
  <2>2. CASE ~(i <= Len(L))
    <3>1. i - Len(L) \in 1..Len(R)
      BY <2>2, <1>5, <1>6
    <3> QED BY <3>1, <2>2, <1>4, <1>5, <1>6
  <2> QED BY <2>1, <2>2
<1>8. Losses(L \o R, t) \in Nat
  BY DEF Losses
<1> QED BY <1>5, <1>7, <1>8 DEF Decide

LEMMA EnterQueriesType ==
  ASSUME NEW old, NEW new
  PROVE  /\ EnterQueries(old, new) \in Seq(ReqBody)
  BY QueryAllPosType, EmptySeq DEF EnterQueries

(* Sending appends the bodies in order, numbered from the seed on. *)
LEMMA SendAppends ==
  ASSUME TypeOK, NEW bodies \in Seq(ReqBody), Send(bodies)
  PROVE  /\ reqQ' \in Seq(Package(ReqBody))
         /\ Len(reqQ') = Len(reqQ) + Len(bodies)
         /\ \A i \in 1..Len(reqQ) : reqQ'[i] = reqQ[i]
         /\ \A i \in 1..Len(bodies) : reqQ'[Len(reqQ) + i].body = bodies[i]
         /\ reqSeed' \in Nat /\ reqSeed' = reqSeed + Len(bodies)
<1>1. Len(bodies) \in Nat /\ \A i \in 1..Len(bodies) : bodies[i] \in ReqBody
  BY ElementOfSeq, LenProperties
<1>2. Packages(bodies) \in [1..Len(bodies) -> Package(ReqBody)]
  BY <1>1 DEF Packages, Package, TypeOK
<1>3. Packages(bodies) \in Seq(Package(ReqBody)) /\ Len(Packages(bodies)) = Len(bodies)
  BY <1>1, <1>2, FunctionIsSeq
<1>4. \A i \in 1..Len(bodies) : Packages(bodies)[i].body = bodies[i]
  BY DEF Packages
<1>5. reqQ \in Seq(Package(ReqBody)) /\ Len(reqQ) \in Nat /\ reqSeed \in Nat
  BY LenProperties DEF TypeOK
<1>6. /\ reqQ' \in Seq(Package(ReqBody))
      /\ Len(reqQ') = Len(reqQ) + Len(bodies)
      /\ \A i \in 1 .. Len(reqQ) + Len(bodies) :
           reqQ'[i] = IF i <= Len(reqQ) THEN reqQ[i] ELSE Packages(bodies)[i - Len(reqQ)]
  <2> DEFINE P == Packages(bodies)
  <2>1. P \in Seq(Package(ReqBody)) /\ Len(P) = Len(bodies) /\ reqQ' = reqQ \o P
    BY <1>3 DEF Send
  <2> HIDE DEF P
  <2>2. /\ reqQ \o P \in Seq(Package(ReqBody))
        /\ Len(reqQ \o P) = Len(reqQ) + Len(P)
        /\ \A i \in 1 .. Len(reqQ) + Len(P) :
             (reqQ \o P)[i] = IF i <= Len(reqQ) THEN reqQ[i] ELSE P[i - Len(reqQ)]
    BY <2>1, <1>5, ConcatProperties
  <2> QED BY <2>1, <2>2 DEF P
<1>7. ASSUME NEW i \in 1..Len(bodies)
      PROVE  reqQ'[Len(reqQ) + i].body = bodies[i]
  <2>1. Len(reqQ) + i \in 1 .. Len(reqQ) + Len(bodies) /\ ~(Len(reqQ) + i <= Len(reqQ))
        /\ (Len(reqQ) + i) - Len(reqQ) = i
    BY <1>1, <1>5
  <2>2. reqQ'[Len(reqQ) + i] = Packages(bodies)[i]
    BY <2>1, <1>6
  <2> QED BY <2>2, <1>4
<1>8. \A i \in 1..Len(reqQ) : reqQ'[i] = reqQ[i]
  BY <1>1, <1>5, <1>6
<1> QED BY <1>1, <1>5, <1>6, <1>7, <1>8 DEF Send

(* Taking the head of a queue. *)
LEMMA PopQueue ==
  ASSUME NEW S, NEW q \in Seq(S), q # <<>>
  PROVE  /\ Head(q) \in S /\ Head(q) = q[1] /\ 1 \in DOMAIN q
         /\ Tail(q) \in Seq(S)
         /\ Len(q) \in Nat \ {0} /\ Len(Tail(q)) = Len(q) - 1
         /\ DOMAIN q = 1..Len(q) /\ DOMAIN Tail(q) = 1..Len(q) - 1
         /\ \A i \in 1..Len(q) - 1 : Tail(q)[i] = q[i + 1]
  BY HeadTailProperties, LenProperties, EmptySeq

(* Publishing at the end of a queue. *)
LEMMA PushQueue ==
  ASSUME NEW S, NEW q \in Seq(S), NEW e \in S
  PROVE  /\ Append(q, e) \in Seq(S)
         /\ Len(q) \in Nat /\ Len(Append(q, e)) = Len(q) + 1
         /\ DOMAIN q = 1..Len(q) /\ DOMAIN Append(q, e) = 1..Len(q) + 1
         /\ Append(q, e)[Len(q) + 1] = e
         /\ \A i \in 1..Len(q) : Append(q, e)[i] = q[i]
  BY AppendProperties, LenProperties

(* Every request is of one of four kinds, every reply too. *)
LEMMA BodyOfKind ==
  /\ \A b \in ReqBody :
       /\ b.tid \in {"QryMoney", "QryPos", "SetOrder", "QryOrders"}
       /\ b.tid = "QryPos" => b.sym \in Symbols
       /\ b.tid = "SetOrder" => b.sym \in Symbols /\ b.side \in Sides
                                /\ b.open \in BOOLEAN /\ b.vol \in Nat
       /\ b.tid = "QryOrders" => b.id \in Nat
  /\ \A b \in RspBody :
       /\ b.tid \in {"QryMoney", "QryPos", "SetOrder", "QryOrders"}
       /\ b.tid = "QryPos" => b.sym \in Symbols /\ b.avai \in Lots /\ b.ver \in Nat
       /\ b.tid = "SetOrder" => b.sym \in Symbols /\ b.ok \in BOOLEAN /\ b.id \in Nat
       /\ b.tid = "QryOrders" => b.id \in Nat /\ b.undone \in BOOLEAN
  BY DEF ReqBody, ReqQryMoney, ReqQryPos, ReqSetOrder, ReqQryOrder,
         RspBody, RspQryMoney, RspQryPos, RspSetOrder, RspQryOrder

(* A position read by GetPos or written by HandlePos is a position. *)
LEMMA PosType ==
  ASSUME TypeOK
  PROVE  /\ \A s \in Symbols : GetPos(s) \in Pos /\ GetPos(s).ver = pos[s].ver
         /\ \A p \in Pos : \A b \in RspBody :
              b.tid = "QryPos" => HandlePos(p, b) \in Pos /\ HandlePos(p, b).ver = b.ver
<1>1. \A s \in Symbols : GetPos(s) \in Pos /\ GetPos(s).ver = pos[s].ver
  BY DEF TypeOK, GetPos, Pos
<1>2. ASSUME NEW p \in Pos, NEW b \in RspBody, b.tid = "QryPos"
      PROVE  HandlePos(p, b) \in Pos /\ HandlePos(p, b).ver = b.ver
  <2>1. b.avai \in Lots /\ b.ver \in Nat
    BY <1>2, BodyOfKind
  <2> QED BY <2>1 DEF HandlePos, Pos
<1> QED BY <1>1, <1>2

LEMMA NoPosType == NoPos \in Pos
  BY DEF NoPos, Pos, NoLots, Lots

(* What the exchange makes of an order leaves it with a position again. *)
LEMMA HoldingType ==
  ASSUME NEW h \in Holding, NEW side \in Sides, NEW open \in BOOLEAN,
         NEW vol \in Nat, NEW filled \in BOOLEAN,
         NEW o, o.side = side, o.open = open, o.vol = vol
  PROVE  /\ open \/ vol <= h.avai[side] => Accept(h, o, filled) \in Holding
         /\ Fill(h, o) \in Holding
         /\ Fill(h, o).ver = h.ver + 1
         /\ Accept(h, o, filled).ver \in {h.ver, h.ver + 1}
<1>1. /\ h.held \in [Sides -> Int] /\ h.avai \in [Sides -> Nat] /\ h.ver \in Nat
      /\ h = [held |-> h.held, avai |-> h.avai, ver |-> h.ver]
  BY DEF Holding, Lots
<1>2. /\ [h.held EXCEPT ![side] = @ + vol] \in [Sides -> Int]
      /\ [h.held EXCEPT ![side] = @ - vol] \in [Sides -> Int]
      /\ [h.avai EXCEPT ![side] = @ + vol] \in [Sides -> Nat]
  BY <1>1
<1>3. vol <= h.avai[side] => [h.avai EXCEPT ![side] = @ - vol] \in [Sides -> Nat]
  BY <1>1
<1>4. open \/ vol <= h.avai[side] => Accept(h, o, filled) \in Holding
  BY <1>1, <1>2, <1>3 DEF Accept, Holding, Lots
<1>5. CASE open
  BY <1>1, <1>2, <1>4, <1>5 DEF Accept, Fill, Holding, Lots
<1>6. CASE ~open
  BY <1>1, <1>2, <1>4, <1>6 DEF Accept, Fill, Holding, Lots
<1> QED BY <1>5, <1>6

-----------------------------------------------------------------------------
(* Type correctness, one lemma per action of krang. *)

(* Each unanswered command was numbered in this run and checked less than  *)
(* three times; counting a check leaves the survivors below three.         *)
LEMMA FeedbackType ==
  ASSUME TypeOK
  PROVE  /\ \A n \in DOMAIN feedback : n \in 1..reqSeed /\ feedback[n] \in 0..2
         /\ \A n \in Unexpired : n \in 1..reqSeed /\ feedback[n] + 1 \in 0..2
<1>1. \A n \in DOMAIN feedback : n \in 1..reqSeed /\ feedback[n] \in 0..FB_MAX_CHECKTIMES - 1
  BY DEF TypeOK
<1>2. FB_MAX_CHECKTIMES = 3
  BY DEF FB_MAX_CHECKTIMES
<1>3. \A n \in Unexpired : n \in DOMAIN feedback /\ feedback[n] + 1 < 3
  BY <1>2 DEF Unexpired
<1> QED BY <1>1, <1>2, <1>3

(* The bodies a tick sends, and what becomes of the state. *)
LEMMA OnTickType ==
  ASSUME TypeOK, NEW t \in Ticks, OnTick(t), UNCHANGED archerVars
  PROVE  TypeOK'
<1> DEFINE p      == GetPos(t.sym)
           orders == IF p.IsValid THEN Decide(fsm, IsOverLossLimit, p.avai, t) ELSE <<>>
           next   == NextState(fsm, IsOverLossLimit, since, t)
           enter  == EnterQueries(fsm, next)
           first  == reqSeed + Len(CheckQueries) + 1
           serials == first .. first + Len(orders) - 1
           bodies == CheckQueries \o orders \o enter
<1>1. t \in Tick /\ t.sym \in Symbols
  BY KrangAssumption DEF Tick
<1>2. p \in Pos
  BY <1>1, PosType
<1>3. orders \in Seq(ReqBody) /\ Losses(orders, t) \in Nat
  <2>1. p.avai \in Lots
    BY <1>2 DEF Pos
  <2>2. CASE p.IsValid
    BY <2>1, <2>2, <1>1, DecideType
  <2>3. CASE ~p.IsValid
    BY <2>3 DEF Losses
  <2> QED BY <2>2, <2>3
<1>4. enter \in Seq(ReqBody)
  BY EnterQueriesType
<1>5. CheckQueries \in Seq(ReqBody)
  BY CheckQueriesType
<1>6. next \in States
  BY Zenon DEF NextState, States, TypeOK
<1> HIDE DEF p, orders, next, enter
<1>7. /\ bodies \in Seq(ReqBody)
      /\ Len(bodies) = Len(CheckQueries) + Len(orders) + Len(enter)
      /\ Len(CheckQueries) \in Nat /\ Len(orders) \in Nat /\ Len(enter) \in Nat
  BY <1>3, <1>4, <1>5, ConcatProperties, LenProperties
<1>8. Send(bodies)
  BY DEF OnTick, p, orders, next, enter
<1> HIDE DEF bodies
<1>9. reqQ' \in Seq(Package(ReqBody)) /\ reqSeed' \in Nat
      /\ reqSeed' = reqSeed + Len(bodies)
  BY <1>7, <1>8, SendAppends
<1>10. DOMAIN feedback' = Unexpired \cup serials
       /\ feedback' = [n \in Unexpired \cup serials |->
                          IF n \in Unexpired THEN feedback[n] + 1 ELSE 0]
  BY DEF OnTick, p, orders
<1>11. DOMAIN feedback' \subseteq 1..reqSeed'
  <2>1. reqSeed \in Nat
    BY DEF TypeOK
  <2>2. serials \subseteq 1..reqSeed'
    BY <2>1, <1>7, <1>9
  <2>3. Unexpired \subseteq 1..reqSeed'
    BY <2>1, <1>7, <1>9, FeedbackType
  <2> QED BY <2>2, <2>3, <1>10
<1>12. feedback' \in [DOMAIN feedback' -> 0..FB_MAX_CHECKTIMES - 1]
  BY <1>10, FeedbackType DEF FB_MAX_CHECKTIMES
<1>13. pos' \in [Symbols -> Pos]
  <2>1. pos' = [pos EXCEPT ![t.sym] = [p EXCEPT !.IsValid = p.IsValid /\ orders = <<>>]]
    BY DEF OnTick, p, orders
  <2>2. [p EXCEPT !.IsValid = p.IsValid /\ orders = <<>>] \in Pos
    BY <1>2 DEF Pos
  <2> QED BY <2>1, <2>2 DEF TypeOK
<1>14. fsm' \in States
  BY <1>6 DEF OnTick, next
<1>15. since' \in {10 * k : k \in 0..6}
  BY DEF OnTick, TypeOK
<1>16. lossTimes' \in Nat /\ lossLimit' \in Nat /\ sent' \in Nat
  <2>1. lossTimes' = lossTimes + Losses(orders, t) /\ sent' = sent + Len(orders)
        /\ lossLimit' \in {lossLimit, lossLimit + LossStep}
    BY DEF OnTick, p, orders
  <2>2. lossTimes \in Nat /\ lossLimit \in Nat /\ sent \in Nat /\ LossStep \in Nat
    BY LossStepAssumption DEF TypeOK
  <2>3. lossTimes' \in Nat /\ sent' \in Nat
    BY <2>1, <2>2, <1>3, <1>7
  <2>4. lossLimit' \in Nat
    BY <2>1, <2>2
  <2> QED BY <2>3, <2>4
<1>17. UNCHANGED <<run, up, undone, rspQ, archerVars>> /\ up
  BY DEF OnTick
<1> QED
  BY <1>9, <1>11, <1>12, <1>13, <1>14, <1>15, <1>16, <1>17 DEF TypeOK, archerVars

LEMMA OnOtherTickType ==
  ASSUME TypeOK, OnOtherTick, UNCHANGED archerVars
  PROVE  TypeOK'
<1>1. CheckQueries \in Seq(ReqBody) /\ Send(CheckQueries)
  BY CheckQueriesType DEF OnOtherTick
<1>2. reqQ' \in Seq(Package(ReqBody)) /\ reqSeed' \in Nat
      /\ reqSeed' = reqSeed + Len(CheckQueries) /\ Len(CheckQueries) \in Nat
  BY <1>1, SendAppends, LenProperties
<1>3. /\ feedback' \in [DOMAIN feedback' -> 0..FB_MAX_CHECKTIMES - 1]
      /\ DOMAIN feedback' \subseteq 1..reqSeed'
  <2>1. DOMAIN feedback' = Unexpired /\ feedback' = [n \in Unexpired |-> feedback[n] + 1]
    BY DEF OnOtherTick
  <2>2. feedback' \in [DOMAIN feedback' -> 0..FB_MAX_CHECKTIMES - 1]
    BY <2>1, FeedbackType DEF FB_MAX_CHECKTIMES
  <2>3. reqSeed \in Nat
    BY DEF TypeOK
  <2>4. DOMAIN feedback' \subseteq 1..reqSeed'
    BY <1>2, <2>1, <2>3, FeedbackType
  <2> QED BY <2>2, <2>4
<1>4. UNCHANGED <<run, up, pos, undone, mavgVars, sent, rspQ>> /\ up
  BY DEF OnOtherTick
<1> QED BY <1>2, <1>3, <1>4 DEF TypeOK, archerVars, mavgVars

(* What Receive takes off the reply topic. *)
LEMMA ReceiveType ==
  ASSUME TypeOK, NEW tid, Receive(tid)
  PROVE  /\ rspQ' \in Seq(Package(RspBody))
         /\ Head(rspQ) \in Package(RspBody) /\ Head(rspQ).body \in RspBody
         /\ Head(rspQ).body.tid = tid
         /\ up /\ UNCHANGED <<run, up, sent>>
<1>1. rspQ \in Seq(Package(RspBody)) /\ rspQ # <<>> /\ rspQ' = Tail(rspQ)
      /\ Head(rspQ).body.tid = tid /\ up /\ UNCHANGED <<run, up, sent>>
  BY DEF Receive, TypeOK
<1>2. Head(rspQ) \in Package(RspBody) /\ Tail(rspQ) \in Seq(Package(RspBody))
  BY <1>1, PopQueue
<1>3. Head(rspQ).body \in RspBody
  BY <1>2 DEF Package
<1> QED BY <1>1, <1>2, <1>3

LEMMA rspQryMoneyInfoType ==
  ASSUME TypeOK, rspQryMoneyInfo, UNCHANGED archerVars
  PROVE  TypeOK'
<1>1. Receive("QryMoney") /\ UNCHANGED <<reqSeed, keeperVars, mavgVars, reqQ>>
  BY DEF rspQryMoneyInfo
<1> QED BY <1>1, ReceiveType DEF TypeOK, keeperVars, mavgVars, archerVars

LEMMA rspQryPosInfoType ==
  ASSUME TypeOK, rspQryPosInfo, UNCHANGED archerVars
  PROVE  TypeOK'
<1> DEFINE b == Head(rspQ).body
<1>1. Receive("QryPos") /\ UNCHANGED <<reqSeed, undone, feedback, mavgVars, reqQ>>
      /\ pos' = [pos EXCEPT ![b.sym] = HandlePos(@, b)]
  BY DEF rspQryPosInfo
<1>2. b \in RspBody /\ b.tid = "QryPos" /\ rspQ' \in Seq(Package(RspBody))
      /\ up /\ UNCHANGED <<run, up, sent>>
  BY <1>1, ReceiveType
<1>3. b.sym \in Symbols
  BY <1>2, BodyOfKind
<1> HIDE DEF b
<1>4. pos' \in [Symbols -> Pos]
  BY <1>1, <1>2, <1>3, PosType DEF TypeOK
<1> QED BY <1>1, <1>2, <1>4 DEF TypeOK, mavgVars, archerVars

(* The requests that follow the answer to an order. *)
LEMMA FollowUp ==
  ASSUME NEW b \in RspBody, b.tid = "SetOrder"
  PROVE  LET bodies == <<[tid |-> "QryMoney"], [tid |-> "QryPos", sym |-> b.sym]>>
                       \o IF b.ok THEN <<[tid |-> "QryOrders", id |-> b.id]>> ELSE <<>>
         IN  /\ bodies \in Seq(ReqBody)
             /\ Len(bodies) \in 2..3
             /\ bodies[2] = [tid |-> "QryPos", sym |-> b.sym]
<1>1. b.sym \in Symbols /\ b.id \in Nat
  BY BodyOfKind
<1>2. /\ [tid |-> "QryMoney"] \in ReqBody
      /\ [tid |-> "QryPos", sym |-> b.sym] \in ReqBody
      /\ [tid |-> "QryOrders", id |-> b.id] \in ReqBody
  BY <1>1 DEF ReqBody, ReqQryMoney, ReqQryPos, ReqQryOrder
<1>3. CASE b.ok
  BY <1>2, <1>3
<1>4. CASE ~b.ok
  BY <1>2, <1>4
<1> QED BY <1>3, <1>4

LEMMA rspSetOrderType ==
  ASSUME TypeOK, rspSetOrder, UNCHANGED archerVars
  PROVE  TypeOK'
<1> DEFINE b == Head(rspQ).body
           bodies == <<[tid |-> "QryMoney"], [tid |-> "QryPos", sym |-> b.sym]>>
                     \o IF b.ok THEN <<[tid |-> "QryOrders", id |-> b.id]>> ELSE <<>>
<1>1. /\ Receive("SetOrder") /\ UNCHANGED <<pos, undone, mavgVars>>
      /\ Send(bodies)
      /\ feedback' = [n \in DOMAIN feedback \ (IF b.ok THEN {Head(rspQ).serial} ELSE {})
                        |-> feedback[n]]
  BY DEF rspSetOrder
<1>2. b \in RspBody /\ b.tid = "SetOrder" /\ rspQ' \in Seq(Package(RspBody))
      /\ up /\ UNCHANGED <<run, up, sent>>
  BY <1>1, ReceiveType
<1>3. bodies \in Seq(ReqBody) /\ Len(bodies) \in 2..3
  BY <1>2, FollowUp
<1> HIDE DEF b, bodies
<1>4. reqQ' \in Seq(Package(ReqBody)) /\ reqSeed' \in Nat
      /\ reqSeed' = reqSeed + Len(bodies)
  BY <1>1, <1>3, SendAppends
<1>5. /\ feedback' \in [DOMAIN feedback' -> 0..FB_MAX_CHECKTIMES - 1]
      /\ DOMAIN feedback' \subseteq 1..reqSeed'
  BY <1>1, <1>3, <1>4 DEF TypeOK
<1> QED BY <1>1, <1>2, <1>4, <1>5 DEF TypeOK, mavgVars, archerVars

LEMMA rspQryOrdersType ==
  ASSUME TypeOK, rspQryOrders, UNCHANGED archerVars
  PROVE  TypeOK'
<1>1. Receive("QryOrders") /\ UNCHANGED <<reqSeed, pos, feedback, mavgVars, reqQ>>
  BY DEF rspQryOrders
<1>2. undone' \subseteq undone \cup {Head(rspQ).body.id}
  BY DEF rspQryOrders
<1>3. Head(rspQ).body.id \in Nat
  BY <1>1, ReceiveType, BodyOfKind
<1> QED BY <1>1, <1>2, <1>3, ReceiveType DEF TypeOK, mavgVars, archerVars

LEMMA PassTimeType ==
  ASSUME TypeOK, PassTime, UNCHANGED archerVars
  PROVE  TypeOK'
<1>1. since' \in {10 * k : k \in 0..6}
  BY DEF PassTime, TypeOK, DefenseTime
<1> QED BY <1>1 DEF PassTime, TypeOK, keeperVars, queueVars, archerVars

LEMMA StartType ==
  ASSUME TypeOK, Start, UNCHANGED archerVars
  PROVE  /\ TypeOK'
         /\ Len(reqQ') = Len(reqQ) + Len(queryAllPos)
         /\ \A i \in 1..Len(queryAllPos) : reqQ'[Len(reqQ) + i].body = queryAllPos[i]
<1> DEFINE P == [i \in 1..Len(queryAllPos) |->
                   [run |-> run + 1, serial |-> i, body |-> queryAllPos[i]]]
<1>1. Len(queryAllPos) \in Nat /\ \A i \in 1..Len(queryAllPos) : queryAllPos[i] \in ReqBody
  BY QueryAllPosType, ElementOfSeq, LenProperties
<1>2. P \in [1..Len(queryAllPos) -> Package(ReqBody)]
  BY <1>1 DEF Package, TypeOK
<1>3. \A i \in 1..Len(queryAllPos) : P[i].body = queryAllPos[i]
  OBVIOUS
<1>4. reqQ' = reqQ \o P
  BY DEF Start
<1> HIDE DEF P
<1>5. P \in Seq(Package(ReqBody)) /\ Len(P) = Len(queryAllPos)
  BY <1>1, <1>2, FunctionIsSeq
<1>6. reqQ \in Seq(Package(ReqBody)) /\ Len(reqQ) \in Nat
  BY LenProperties DEF TypeOK
<1>7. /\ reqQ' \in Seq(Package(ReqBody))
      /\ Len(reqQ') = Len(reqQ) + Len(P)
      /\ \A i \in 1 .. Len(reqQ) + Len(P) :
           reqQ'[i] = IF i <= Len(reqQ) THEN reqQ[i] ELSE P[i - Len(reqQ)]
  BY <1>4, <1>5, <1>6, ConcatProperties
<1>8. ASSUME NEW i \in 1..Len(queryAllPos)
      PROVE  reqQ'[Len(reqQ) + i].body = queryAllPos[i]
  <2>1. Len(reqQ) + i \in 1 .. Len(reqQ) + Len(P) /\ ~(Len(reqQ) + i <= Len(reqQ))
        /\ (Len(reqQ) + i) - Len(reqQ) = i
    BY <1>1, <1>5, <1>6
  <2> QED BY <2>1, <1>3, <1>7
<1>9. /\ ~up /\ up' = TRUE /\ run' \in Nat /\ reqSeed' \in Nat
      /\ UNCHANGED <<keeperVars, mavgVars, sent, rspQ>>
  BY <1>1 DEF Start, TypeOK
<1>10. DOMAIN feedback = {}
  <2>1. reqSeed = 0
    BY <1>9 DEF TypeOK
  <2>2. \A n \in DOMAIN feedback : n \in 1..0
    BY <2>1, FeedbackType
  <2> QED BY <2>2
<1> QED BY <1>5, <1>7, <1>8, <1>9, <1>10 DEF TypeOK, keeperVars, mavgVars, archerVars

LEMMA CrashType ==
  ASSUME TypeOK, Crash, UNCHANGED archerVars
  PROVE  TypeOK'
<1>1. pos' \in [Symbols -> Pos]
  BY NoPosType DEF Crash
<1>2. DOMAIN feedback' = {} /\ feedback' \in [DOMAIN feedback' -> 0..FB_MAX_CHECKTIMES - 1]
  BY DEF Crash, NoFeedback
<1>3. since' \in {10 * k : k \in 0..6} /\ lossLimit' \in Nat /\ rspQ' \in Seq(Package(RspBody))
  BY LossStepAssumption, EmptySeq DEF Crash
<1>4. /\ up' = FALSE /\ reqSeed' = 0 /\ undone' = {} /\ fsm' = "normal" /\ lossTimes' = 0
      /\ UNCHANGED <<run, sent, reqQ>>
  BY DEF Crash
<1> QED BY <1>1, <1>2, <1>3, <1>4 DEF TypeOK, archerVars, States

-----------------------------------------------------------------------------
(* Type correctness, one lemma per action of archer and of the exchange. *)

(* What archer takes off the request topic. *)
LEMMA TakeType ==
  ASSUME TypeOK, NEW tid, Take(tid)
  PROVE  /\ reqQ' \in Seq(Package(ReqBody))
         /\ Head(reqQ) \in Package(ReqBody) /\ Head(reqQ).body \in ReqBody
         /\ Head(reqQ).body.tid = tid
<1>1. reqQ \in Seq(Package(ReqBody)) /\ reqQ # <<>> /\ reqQ' = Tail(reqQ)
      /\ Head(reqQ).body.tid = tid
  BY DEF Take, TypeOK
<1>2. Head(reqQ) \in Package(ReqBody) /\ Tail(reqQ) \in Seq(Package(ReqBody))
  BY <1>1, PopQueue
<1>3. Head(reqQ).body \in ReqBody
  BY <1>2 DEF Package
<1> QED BY <1>1, <1>2, <1>3

(* What archer publishes, when it publishes anything. *)
LEMMA AnswerType ==
  ASSUME TypeOK, Head(reqQ) \in Package(ReqBody), NEW body \in RspBody, NEW listening,
         NEW tid, Answer(body, listening) \/ NoAnswer(tid)
  PROVE  rspQ' \in Seq(Package(RspBody)) /\ lost' \in Nat
<1>1. Reply(Head(reqQ), body) \in Package(RspBody)
  BY DEF Reply, Package
<1>2. rspQ \in Seq(Package(RspBody)) /\ lost \in Nat
  BY DEF TypeOK
<1>3. Append(rspQ, Reply(Head(reqQ), body)) \in Seq(Package(RspBody))
  BY <1>1, <1>2, PushQueue
<1>4. rspQ' \in {rspQ, Append(rspQ, Reply(Head(reqQ), body))} /\ lost' \in {lost, lost + 1}
  BY DEF Answer, NoAnswer
<1> QED BY <1>2, <1>3, <1>4

LEMMA qryMoneyInfoType ==
  ASSUME TypeOK, NEW listening, qryMoneyInfo(listening), UNCHANGED krangVars
  PROVE  TypeOK'
<1>1. Take("QryMoney") /\ UNCHANGED <<holding, book, unannounced>>
      /\ (Answer([tid |-> "QryMoney"], listening) \/ NoAnswer("QryMoney"))
  BY DEF qryMoneyInfo
<1>2. [tid |-> "QryMoney"] \in RspBody
  BY DEF RspBody, RspQryMoney
<1>3. rspQ' \in Seq(Package(RspBody)) /\ lost' \in Nat /\ reqQ' \in Seq(Package(ReqBody))
  BY <1>1, <1>2, TakeType, AnswerType
<1> QED BY <1>1, <1>3 DEF TypeOK, krangVars, keeperVars, mavgVars

LEMMA qryHoldDetailType ==
  ASSUME TypeOK, NEW listening, qryHoldDetail(listening), UNCHANGED krangVars
  PROVE  TypeOK'
<1> DEFINE s == Head(reqQ).body.sym
           b == [tid |-> "QryPos", sym |-> s, avai |-> holding[s].avai,
                 ver |-> holding[s].ver]
<1>1. Take("QryPos") /\ UNCHANGED <<holding, book>>
      /\ (Answer(b, listening) \/ NoAnswer("QryPos"))
      /\ unannounced' \subseteq unannounced \cup {s}
  BY DEF qryHoldDetail
<1>2. s \in Symbols
  BY <1>1, TakeType, BodyOfKind
<1>3. b \in RspBody
  BY <1>2 DEF TypeOK, Holding, RspBody, RspQryPos
<1> HIDE DEF b, s
<1>4. rspQ' \in Seq(Package(RspBody)) /\ lost' \in Nat /\ reqQ' \in Seq(Package(ReqBody))
  BY <1>1, <1>3, TakeType, AnswerType
<1>5. unannounced' \subseteq Symbols
  BY <1>1, <1>2 DEF TypeOK
<1> QED BY <1>1, <1>4, <1>5 DEF TypeOK, krangVars, keeperVars, mavgVars

(* The effect of a verdict on the exchange. *)
LEMMA VerdictType ==
  ASSUME TypeOK, NEW o \in ReqBody, o.tid = "SetOrder", NEW v \in Verdicts(o)
  PROVE  /\ v.accepted \in BOOLEAN /\ v.filled \in BOOLEAN
         /\ v.accepted => Accept(holding[o.sym], o, v.filled) \in Holding
<1>1. /\ o.sym \in Symbols /\ o.side \in Sides /\ o.open \in BOOLEAN /\ o.vol \in Nat
  BY BodyOfKind
<1>2. holding[o.sym] \in Holding
  BY <1>1 DEF TypeOK
<1>3. v.accepted \in BOOLEAN /\ v.filled \in BOOLEAN
      /\ (v.accepted => o.open \/ o.vol <= holding[o.sym].avai[o.side])
  <2>1. v = Rejected \/ v = [accepted |-> TRUE, filled |-> TRUE]
        \/ v = [accepted |-> TRUE, filled |-> FALSE]
    BY DEF Verdicts
  <2>2. v # Rejected => o.open \/ o.vol <= holding[o.sym].avai[o.side]
    BY Zenon DEF Verdicts
  <2>3. Rejected.accepted = FALSE /\ Rejected.filled = FALSE
    BY DEF Rejected
  <2>4. v.accepted \in BOOLEAN /\ v.filled \in BOOLEAN
    <3>1. CASE v = Rejected
      BY <3>1, <2>3
    <3>2. CASE v = [accepted |-> TRUE, filled |-> TRUE]
      BY <3>2
    <3>3. CASE v = [accepted |-> TRUE, filled |-> FALSE]
      BY <3>3
    <3> QED BY <2>1, <3>1, <3>2, <3>3
  <2>5. v.accepted => v # Rejected
    BY <2>3
  <2> QED BY <2>2, <2>4, <2>5
<1> QED BY <1>1, <1>2, <1>3, HoldingType

LEMMA setOrderType ==
  ASSUME TypeOK, NEW listening, setOrder(listening), UNCHANGED krangVars
  PROVE  TypeOK'
<1> DEFINE req == Head(reqQ)
           o   == req.body
<1>1. Take("SetOrder")
  BY DEF setOrder
<1>2. req \in Package(ReqBody) /\ o \in ReqBody /\ o.tid = "SetOrder"
      /\ reqQ' \in Seq(Package(ReqBody))
  BY <1>1, TakeType
<1>3. /\ o.sym \in Symbols /\ o.side \in Sides /\ o.open \in BOOLEAN /\ o.vol \in Nat
      /\ req.run \in Nat /\ req.serial \in Nat
  BY <1>2, BodyOfKind DEF Package
<1>4. PICK v \in Verdicts(o) :
        /\ holding' = IF v.accepted
                      THEN [holding EXCEPT ![o.sym] = Accept(@, o, v.filled)]
                      ELSE holding
        /\ book' = IF v.accepted
                   THEN Append(book, [run |-> req.run, serial |-> req.serial,
                                      sym |-> o.sym, side |-> o.side, open |-> o.open,
                                      vol |-> o.vol, filled |-> v.filled])
                   ELSE book
        /\ \/ Answer([tid |-> "SetOrder", sym |-> o.sym, ok |-> v.accepted,
                       id |-> IF v.accepted THEN Len(book) + 1 ELSE 0], listening)
           \/ NoAnswer("SetOrder")
        /\ unannounced' \subseteq unannounced \cup {o.sym}
  BY DEF setOrder
<1>5. /\ v.accepted \in BOOLEAN /\ v.filled \in BOOLEAN
      /\ v.accepted => Accept(holding[o.sym], o, v.filled) \in Holding
  BY <1>2, VerdictType
<1>6. book \in Seq(BookEntry) /\ Len(book) \in Nat
  BY LenProperties DEF TypeOK
<1> DEFINE b == [tid |-> "SetOrder", sym |-> o.sym, ok |-> v.accepted,
                 id |-> IF v.accepted THEN Len(book) + 1 ELSE 0]
           e == [run |-> req.run, serial |-> req.serial,
                 sym |-> o.sym, side |-> o.side, open |-> o.open,
                 vol |-> o.vol, filled |-> v.filled]
<1>7. b \in RspBody
  BY <1>3, <1>5, <1>6 DEF RspBody, RspSetOrder
<1>8. e \in BookEntry
  BY <1>3, <1>5 DEF BookEntry
<1>9. book' \in Seq(BookEntry)
  <2>1. Append(book, e) \in Seq(BookEntry)
    BY <1>6, <1>8, PushQueue
  <2> QED BY <2>1, <1>4, <1>6
<1>10. rspQ' \in Seq(Package(RspBody)) /\ lost' \in Nat
  BY <1>2, <1>4, <1>7, AnswerType
<1> HIDE DEF b, e, o, req
<1>11. holding' \in [Symbols -> Holding]
  BY <1>3, <1>4, <1>5 DEF TypeOK
<1>12. unannounced' \subseteq Symbols
  BY <1>3, <1>4 DEF TypeOK
<1> QED BY <1>2, <1>9, <1>10, <1>11, <1>12 DEF TypeOK, krangVars, keeperVars, mavgVars

LEMMA qryOrdersByIdType ==
  ASSUME TypeOK, NEW listening, qryOrdersById(listening), UNCHANGED krangVars
  PROVE  TypeOK'
<1> DEFINE id == Head(reqQ).body.id
           b  == [tid |-> "QryOrders", id |-> id, undone |-> ~book[id].filled]
<1>1. Take("QryOrders") /\ UNCHANGED <<holding, book, unannounced>>
      /\ (Answer(b, listening) \/ NoAnswer("QryOrders"))
  BY DEF qryOrdersById
<1>2. id \in Nat
  BY <1>1, TakeType, BodyOfKind
<1>3. b \in RspBody
  BY <1>2 DEF RspBody, RspQryOrder
<1> HIDE DEF b, id
<1>4. rspQ' \in Seq(Package(RspBody)) /\ lost' \in Nat /\ reqQ' \in Seq(Package(ReqBody))
  BY <1>1, <1>3, TakeType, AnswerType
<1> QED BY <1>1, <1>4 DEF TypeOK, krangVars, keeperVars, mavgVars

LEMMA FillRestingType ==
  ASSUME TypeOK, FillResting, UNCHANGED krangVars
  PROVE  TypeOK'
<1>1. PICK id \in DOMAIN book :
        /\ holding' = [holding EXCEPT ![book[id].sym] = Fill(@, book[id])]
        /\ unannounced' = unannounced \cup {book[id].sym}
        /\ book' = [book EXCEPT ![id].filled = TRUE]
        /\ UNCHANGED <<lost, queueVars>>
  BY DEF FillResting
<1>2. book \in Seq(BookEntry) /\ Len(book) \in Nat /\ DOMAIN book = 1..Len(book)
  BY LenProperties DEF TypeOK
<1>3. book[id] \in BookEntry
  BY <1>2, ElementOfSeq
<1> DEFINE o == book[id]
<1>4. /\ o.sym \in Symbols /\ o.side \in Sides /\ o.open \in BOOLEAN /\ o.vol \in Nat
  BY <1>3 DEF BookEntry
<1>5. holding[o.sym] \in Holding
  BY <1>4 DEF TypeOK
<1>6. Fill(holding[o.sym], o) \in Holding
  BY <1>4, <1>5, HoldingType
<1>7. book' \in Seq(BookEntry)
  <2>1. [o EXCEPT !.filled = TRUE] \in BookEntry
    BY <1>3 DEF BookEntry
  <2>2. book' = [book EXCEPT ![id] = [o EXCEPT !.filled = TRUE]]
    BY <1>1
  <2> QED BY <2>1, <2>2, <1>2, ExceptSeq
<1>8. holding' \in [Symbols -> Holding]
  BY <1>1, <1>4, <1>6 DEF TypeOK
<1>9. unannounced' \subseteq Symbols
  BY <1>1, <1>4 DEF TypeOK
<1> QED BY <1>1, <1>7, <1>8, <1>9 DEF TypeOK, krangVars, keeperVars, mavgVars, queueVars

-----------------------------------------------------------------------------
(* A step is one of these, or leaves everything alone. *)
LEMMA StepCases ==
  [Next]_vars =>
         \/ UNCHANGED archerVars /\ \/ \E t \in Ticks : OnTick(t)
                                    \/ OnOtherTick
                                    \/ rspQryMoneyInfo
                                    \/ rspQryPosInfo
                                    \/ rspSetOrder
                                    \/ rspQryOrders
                                    \/ PassTime
                                    \/ Start
                                    \/ Crash
         \/ UNCHANGED krangVars /\ \/ qryMoneyInfo(up)
                                   \/ qryHoldDetail(up)
                                   \/ setOrder(up)
                                   \/ qryOrdersById(up)
                                   \/ FillResting
         \/ UNCHANGED vars
  BY DEF Next, KrangStep, KrangNext, HandleReply, ArcherStep, Serve, ExchangeStep

LEMMA InitType == Init => TypeOK
<1> SUFFICES ASSUME Init PROVE TypeOK
  OBVIOUS
<1>1. pos \in [Symbols -> Pos]
  BY NoPosType DEF Init, KrangInit
<1>2. DOMAIN feedback = {} /\ feedback \in [DOMAIN feedback -> 0..FB_MAX_CHECKTIMES - 1]
  BY DEF Init, KrangInit, NoFeedback
<1>3. holding \in [Symbols -> Holding]
  <2>1. \A l \in InitialLots : [held |-> l, avai |-> l, ver |-> 0] \in Holding
    <3> TAKE l \in InitialLots
    <3>1. l \in [Sides -> Nat]
      BY ArcherAssumption DEF Lots
    <3>2. l \in [Sides -> Int]
      BY <3>1
    <3> QED BY <3>1, <3>2 DEF Holding, Lots
  <2> QED BY <2>1 DEF Init, ArcherInit
<1>4. reqQ \in Seq(Package(ReqBody)) /\ rspQ \in Seq(Package(RspBody)) /\ book \in Seq(BookEntry)
  BY EmptySeq DEF Init, ArcherInit
<1>5. since \in {10 * k : k \in 0..6} /\ lossLimit \in Nat
  BY LossStepAssumption DEF Init, KrangInit
<1> QED
  BY <1>1, <1>2, <1>3, <1>4, <1>5 DEF Init, KrangInit, ArcherInit, TypeOK, States

LEMMA NextType == TypeOK /\ [Next]_vars => TypeOK'
<1> SUFFICES ASSUME TypeOK, [Next]_vars PROVE TypeOK'
  OBVIOUS
<1>1. CASE UNCHANGED archerVars /\ \E t \in Ticks : OnTick(t)
  BY <1>1, OnTickType
<1>2. CASE UNCHANGED archerVars /\ OnOtherTick
  BY <1>2, OnOtherTickType
<1>3. CASE UNCHANGED archerVars /\ rspQryMoneyInfo
  BY <1>3, rspQryMoneyInfoType
<1>4. CASE UNCHANGED archerVars /\ rspQryPosInfo
  BY <1>4, rspQryPosInfoType
<1>5. CASE UNCHANGED archerVars /\ rspSetOrder
  BY <1>5, rspSetOrderType
<1>6. CASE UNCHANGED archerVars /\ rspQryOrders
  BY <1>6, rspQryOrdersType
<1>7. CASE UNCHANGED archerVars /\ PassTime
  BY <1>7, PassTimeType
<1>8. CASE UNCHANGED archerVars /\ Start
  BY <1>8, StartType
<1>9. CASE UNCHANGED archerVars /\ Crash
  BY <1>9, CrashType
<1>10. CASE UNCHANGED krangVars /\ qryMoneyInfo(up)
  BY <1>10, qryMoneyInfoType
<1>11. CASE UNCHANGED krangVars /\ qryHoldDetail(up)
  BY <1>11, qryHoldDetailType
<1>12. CASE UNCHANGED krangVars /\ setOrder(up)
  BY <1>12, setOrderType
<1>13. CASE UNCHANGED krangVars /\ qryOrdersById(up)
  BY <1>13, qryOrdersByIdType
<1>14. CASE UNCHANGED krangVars /\ FillResting
  BY <1>14, FillRestingType
<1>15. CASE UNCHANGED vars
  <2>1. UNCHANGED <<krangVars, archerVars, reqQ, rspQ>>
    BY <1>15 DEF vars, queueVars
  <2>2. UNCHANGED <<run, up, reqSeed, pos, undone, feedback, fsm, since, lossTimes,
                    lossLimit, sent>>
    BY <2>1 DEF krangVars, keeperVars, mavgVars
  <2>3. UNCHANGED <<holding, book, lost, unannounced>>
    BY <2>1 DEF archerVars
  <2>4. UNCHANGED <<reqQ, rspQ>>
    BY <2>1
  <2>5. DOMAIN feedback' = DOMAIN feedback
    BY <2>2
  <2> QED BY <2>2, <2>3, <2>4, <2>5 DEF TypeOK
<1>16. CASE UNCHANGED archerVars /\ \/ \E t \in Ticks : OnTick(t)
                                    \/ OnOtherTick
                                    \/ rspQryMoneyInfo
                                    \/ rspQryPosInfo
                                    \/ rspSetOrder
                                    \/ rspQryOrders
                                    \/ PassTime
                                    \/ Start
                                    \/ Crash
  BY <1>16, <1>1, <1>2, <1>3, <1>4, <1>5, <1>6, <1>7, <1>8, <1>9
<1>17. CASE UNCHANGED krangVars /\ \/ qryMoneyInfo(up)
                                   \/ qryHoldDetail(up)
                                   \/ setOrder(up)
                                   \/ qryOrdersById(up)
                                   \/ FillResting
  BY <1>17, <1>10, <1>11, <1>12, <1>13, <1>14
<1> QED BY <1>15, <1>16, <1>17, StepCases

(* The type invariant holds for every set of contracts, every follow list   *)
(* and every bound: in particular every unanswered command carries a serial *)
(* of the current run and was checked less than three times (feedback.go).  *)
THEOREM TypeCorrect == Spec => []TypeOK
<1>1. Init => TypeOK
  BY InitType
<1>2. TypeOK /\ [Next]_vars => TypeOK'
  BY NextType
<1> QED BY <1>1, <1>2, PTL DEF Spec

-----------------------------------------------------------------------------
(***************************************************************************)
(* What each step does to the versions: the reply topic loses its head, or *)
(* gains one reply at its end, or stays; krang's version of a contract     *)
(* moves only when an answer about it is handled; the exchange's version   *)
(* of one contract grows by one, or none does.                             *)
(***************************************************************************)
SameKnown == \A s \in Symbols : pos'[s].ver = pos[s].ver
SameTruth == \A s \in Symbols : holding'[s].ver = holding[s].ver

(* The versions as numbers. *)
LEMMA VersionType ==
  ASSUME TypeOK
  PROVE  /\ \A s \in Symbols : pos[s].ver \in Nat \cup {-1} /\ holding[s].ver \in Nat
         /\ rspQ \in Seq(Package(RspBody)) /\ Len(rspQ) \in Nat
         /\ DOMAIN rspQ = 1..Len(rspQ)
         /\ \A i \in DOMAIN rspQ : rspQ[i].body \in RspBody
         /\ \A i \in DOMAIN rspQ : rspQ[i].body.tid = "QryPos" =>
              rspQ[i].body.sym \in Symbols /\ rspQ[i].body.ver \in Nat
<1>1. \A s \in Symbols : pos[s].ver \in Nat \cup {-1} /\ holding[s].ver \in Nat
  BY DEF TypeOK, Pos, Holding
<1>2. rspQ \in Seq(Package(RspBody)) /\ Len(rspQ) \in Nat /\ DOMAIN rspQ = 1..Len(rspQ)
  BY LenProperties DEF TypeOK
<1>3. \A i \in DOMAIN rspQ : rspQ[i].body \in RspBody
  <2> TAKE i \in DOMAIN rspQ
  <2>1. rspQ[i] \in Package(RspBody)
    BY <1>2, ElementOfSeq
  <2> QED BY <2>1 DEF Package
<1> QED BY <1>1, <1>2, <1>3, BodyOfKind

(* A tick sends a sequence of requests. *)
LEMMA OnTickSends ==
  ASSUME TypeOK, NEW t \in Ticks, OnTick(t)
  PROVE  \E bodies \in Seq(ReqBody) : Send(bodies)
<1> DEFINE p      == GetPos(t.sym)
           orders == IF p.IsValid THEN Decide(fsm, IsOverLossLimit, p.avai, t) ELSE <<>>
           enter  == EnterQueries(fsm, NextState(fsm, IsOverLossLimit, since, t))
           bodies == CheckQueries \o orders \o enter
<1>1. t \in Tick /\ t.sym \in Symbols
  BY KrangAssumption DEF Tick
<1>2. p.avai \in Lots
  BY <1>1, PosType DEF Pos
<1>3. orders \in Seq(ReqBody)
  <2>1. CASE p.IsValid
    BY <2>1, <1>1, <1>2, DecideType
  <2>2. CASE ~p.IsValid
    BY <2>2
  <2> QED BY <2>1, <2>2
<1>4. enter \in Seq(ReqBody) /\ CheckQueries \in Seq(ReqBody)
  BY EnterQueriesType, CheckQueriesType
<1>5. Send(bodies)
  BY DEF OnTick
<1> HIDE DEF orders, enter
<1>6. bodies \in Seq(ReqBody)
  BY <1>3, <1>4, ConcatProperties
<1> HIDE DEF bodies
<1> QED BY <1>5, <1>6

LEMMA OnTickVersions ==
  ASSUME TypeOK, NEW t \in Ticks, OnTick(t)
  PROVE  SameKnown /\ rspQ' = rspQ
<1>1. t.sym \in Symbols
  BY KrangAssumption DEF Tick
<1> DEFINE p == GetPos(t.sym)
<1>2. PICK v \in BOOLEAN : pos' = [pos EXCEPT ![t.sym] = [p EXCEPT !.IsValid = v]]
  BY DEF OnTick
<1>3. p \in Pos /\ p.ver = pos[t.sym].ver
  BY <1>1, PosType
<1> HIDE DEF p
<1>4. [p EXCEPT !.IsValid = v].ver = p.ver
  BY <1>3 DEF Pos
<1> QED BY <1>1, <1>2, <1>3, <1>4 DEF SameKnown, TypeOK, OnTick

LEMMA rspQryPosInfoVersions ==
  ASSUME TypeOK, rspQryPosInfo
  PROVE  LET b == Head(rspQ).body
         IN  /\ b \in RspBody /\ b.tid = "QryPos" /\ b.sym \in Symbols
             /\ rspQ # <<>> /\ rspQ' = Tail(rspQ)
             /\ pos'[b.sym].ver = b.ver
             /\ \A s \in Symbols \ {b.sym} : pos'[s].ver = pos[s].ver
<1> DEFINE b == Head(rspQ).body
<1>1. Receive("QryPos") /\ pos' = [pos EXCEPT ![b.sym] = HandlePos(@, b)]
  BY DEF rspQryPosInfo
<1>2. b \in RspBody /\ b.tid = "QryPos" /\ rspQ # <<>> /\ rspQ' = Tail(rspQ)
  BY <1>1, ReceiveType DEF Receive
<1>3. b.sym \in Symbols
  BY <1>2, BodyOfKind
<1> HIDE DEF b
<1>4. pos \in [Symbols -> Pos]
  BY DEF TypeOK
<1>5. HandlePos(pos[b.sym], b).ver = b.ver
  BY <1>2, <1>3, <1>4, PosType
<1> QED BY <1>1, <1>2, <1>3, <1>4, <1>5 DEF b

(* What an answer of archer adds to the reply topic. *)
LEMMA AnswerAppends ==
  ASSUME NEW body, NEW listening, NEW tid, Answer(body, listening) \/ NoAnswer(tid)
  PROVE  \/ rspQ' = rspQ
         \/ listening /\ rspQ' = Append(rspQ, Reply(Head(reqQ), body))
  BY DEF Answer, NoAnswer

(* A reply archer may publish when the request at the head of its topic is *)
(* served: if it is about a position it tells the newest version.          *)
Published(e) == /\ e \in Package(RspBody)
                /\ e.body.tid = Head(reqQ).body.tid
                /\ e.body.tid = "QryPos" => e.body.ver = holding[e.body.sym].ver

LEMMA ReplyPublished ==
  ASSUME TypeOK, Head(reqQ) \in Package(ReqBody), NEW body \in RspBody,
         body.tid = Head(reqQ).body.tid,
         body.tid = "QryPos" => body.ver = holding[body.sym].ver
  PROVE  Published(Reply(Head(reqQ), body)) /\ Reply(Head(reqQ), body).body = body
  BY DEF Published, Reply, Package

LEMMA qryMoneyInfoVersions ==
  ASSUME TypeOK, NEW listening, qryMoneyInfo(listening)
  PROVE  SameTruth /\ (rspQ' = rspQ \/ \E e : Published(e) /\ rspQ' = Append(rspQ, e))
<1> DEFINE b == [tid |-> "QryMoney"]
<1>1. Take("QryMoney") /\ holding' = holding
      /\ (Answer(b, listening) \/ NoAnswer("QryMoney"))
  BY DEF qryMoneyInfo
<1>2. b \in RspBody /\ b.tid = "QryMoney"
  BY DEF RspBody, RspQryMoney
<1>3. Head(reqQ) \in Package(ReqBody) /\ Head(reqQ).body.tid = "QryMoney"
  BY <1>1, TakeType
<1> HIDE DEF b
<1>4. Published(Reply(Head(reqQ), b))
  BY <1>2, <1>3, ReplyPublished
<1> QED BY <1>1, <1>4, AnswerAppends DEF SameTruth

LEMMA qryOrdersByIdVersions ==
  ASSUME TypeOK, NEW listening, qryOrdersById(listening)
  PROVE  SameTruth /\ (rspQ' = rspQ \/ \E e : Published(e) /\ rspQ' = Append(rspQ, e))
<1> DEFINE id == Head(reqQ).body.id
           b  == [tid |-> "QryOrders", id |-> id, undone |-> ~book[id].filled]
<1>1. Take("QryOrders") /\ holding' = holding
      /\ (Answer(b, listening) \/ NoAnswer("QryOrders"))
  BY DEF qryOrdersById
<1>2. id \in Nat /\ Head(reqQ) \in Package(ReqBody) /\ Head(reqQ).body.tid = "QryOrders"
  BY <1>1, TakeType, BodyOfKind
<1>3. b \in RspBody /\ b.tid = "QryOrders"
  BY <1>2 DEF RspBody, RspQryOrder
<1> HIDE DEF b
<1>4. Published(Reply(Head(reqQ), b))
  BY <1>2, <1>3, ReplyPublished
<1> QED BY <1>1, <1>4, AnswerAppends DEF SameTruth

(* A position query that is served drops out of the request topic: either  *)
(* its contract counts as unannounced, or the newest version is published. *)
LEMMA qryHoldDetailVersions ==
  ASSUME TypeOK, NEW listening, qryHoldDetail(listening)
  PROVE  LET s == Head(reqQ).body.sym
         IN  /\ holding' = holding /\ s \in Symbols
             /\ \A r \in Symbols \ {s} : r \in unannounced => r \in unannounced'
             /\ \/ /\ listening
                   /\ \E e : /\ Published(e) /\ rspQ' = Append(rspQ, e)
                            /\ e.body.tid = "QryPos" /\ e.body.sym = s
                \/ /\ rspQ' = rspQ
                   /\ listening => s \in unannounced'
<1> DEFINE s == Head(reqQ).body.sym
           b == [tid |-> "QryPos", sym |-> s, avai |-> holding[s].avai,
                 ver |-> holding[s].ver]
<1>1. Take("QryPos") /\ holding' = holding
  BY DEF qryHoldDetail
<1>2. \/ Answer(b, listening)
         /\ unannounced' = IF listening THEN unannounced \ {s} ELSE unannounced
      \/ NoAnswer("QryPos") /\ unannounced' = unannounced \cup {s}
  BY DEF qryHoldDetail
<1>3. s \in Symbols /\ Head(reqQ) \in Package(ReqBody) /\ Head(reqQ).body.tid = "QryPos"
  BY <1>1, TakeType, BodyOfKind
<1>4. b \in RspBody /\ b.tid = "QryPos" /\ b.sym = s /\ b.ver = holding[b.sym].ver
  BY <1>3 DEF TypeOK, Holding, RspBody, RspQryPos
<1> HIDE DEF b, s
<1>5. Published(Reply(Head(reqQ), b)) /\ Reply(Head(reqQ), b).body = b
  BY <1>3, <1>4, ReplyPublished
<1> DEFINE E == Reply(Head(reqQ), b)
<1>6. CASE listening /\ Answer(b, listening) /\ unannounced' = unannounced \ {s}
  <2>1. rspQ' = Append(rspQ, E)
    BY <1>6 DEF Answer
  <2>2. Published(E) /\ E.body.tid = "QryPos" /\ E.body.sym = s
    BY <1>4, <1>5
  <2> HIDE DEF E
  <2>3. \E e : Published(e) /\ rspQ' = Append(rspQ, e) /\ e.body.tid = "QryPos" /\ e.body.sym = s
    BY <2>1, <2>2
  <2>4. \A r \in Symbols \ {s} : r \in unannounced => r \in unannounced'
    BY <1>6
  <2> QED BY <1>1, <1>3, <1>6, <2>3, <2>4 DEF s
<1>7. CASE ~listening /\ Answer(b, listening) /\ unannounced' = unannounced
  BY <1>1, <1>3, <1>7 DEF Answer, s
<1>8. CASE NoAnswer("QryPos") /\ unannounced' = unannounced \cup {s}
  BY <1>1, <1>3, <1>8 DEF NoAnswer, s
<1> QED BY <1>2, <1>6, <1>7, <1>8

(* The exchange moves on in contract s at most, and whatever was             *)
(* unannounced stays so.                                                     *)
Moves(s) == /\ s \in Symbols
            /\ \A r \in Symbols \ {s} : holding'[r].ver = holding[r].ver
            /\ holding'[s].ver \in {holding[s].ver, holding[s].ver + 1}
            /\ unannounced \subseteq unannounced'

(* An order that is served moves its contract; if it did, its answer is      *)
(* published or the contract counts as unannounced.                          *)
LEMMA setOrderVersions ==
  ASSUME TypeOK, NEW listening, setOrder(listening)
  PROVE  LET s == Head(reqQ).body.sym
         IN  /\ Moves(s)
             /\ \/ \E e : /\ Published(e) /\ rspQ' = Append(rspQ, e)
                         /\ e.body.tid = "SetOrder" /\ e.body.sym = s
                \/ /\ rspQ' = rspQ
                   /\ holding'[s].ver = holding[s].ver \/ s \in unannounced'
<1> DEFINE req == Head(reqQ)
           o   == req.body
<1>1. req \in Package(ReqBody) /\ o \in ReqBody /\ o.tid = "SetOrder"
  BY TakeType DEF setOrder
<1>2. /\ o.sym \in Symbols /\ o.side \in Sides /\ o.open \in BOOLEAN /\ o.vol \in Nat
  BY <1>1, BodyOfKind
<1> DEFINE B(v) == [tid |-> "SetOrder", sym |-> o.sym, ok |-> v.accepted,
                    id |-> IF v.accepted THEN Len(book) + 1 ELSE 0]
<1>3. PICK v \in Verdicts(o) :
        /\ holding' = IF v.accepted
                      THEN [holding EXCEPT ![o.sym] = Accept(@, o, v.filled)]
                      ELSE holding
        /\ \/ /\ Answer(B(v), listening)
              /\ unannounced' = IF v.accepted /\ ~listening
                                THEN unannounced \cup {o.sym} ELSE unannounced
           \/ /\ NoAnswer("SetOrder")
              /\ unannounced' = IF v.accepted
                                THEN unannounced \cup {o.sym} ELSE unannounced
  BY DEF setOrder
<1>4. v.accepted \in BOOLEAN /\ v.filled \in BOOLEAN
  BY <1>1, VerdictType
<1>5. holding \in [Symbols -> Holding] /\ Len(book) \in Nat
  BY LenProperties DEF TypeOK
<1> DEFINE b == B(v)
           E == Reply(req, b)
<1>6. b \in RspBody /\ b.tid = "SetOrder" /\ b.sym = o.sym
  BY <1>2, <1>4, <1>5 DEF RspBody, RspSetOrder
<1>7. \/ /\ Answer(b, listening)
         /\ unannounced' = IF v.accepted /\ ~listening
                           THEN unannounced \cup {o.sym} ELSE unannounced
      \/ /\ NoAnswer("SetOrder")
         /\ unannounced' = IF v.accepted
                           THEN unannounced \cup {o.sym} ELSE unannounced
  BY <1>3
<1> HIDE DEF b, B, o
<1>8. Published(Reply(Head(reqQ), b)) /\ Reply(Head(reqQ), b).body = b
  BY <1>1, <1>6, ReplyPublished DEF o
<1>9. Accept(holding[o.sym], o, v.filled).ver \in {holding[o.sym].ver, holding[o.sym].ver + 1}
  BY <1>2, <1>4, <1>5, HoldingType
<1>10. Moves(o.sym)
  BY <1>2, <1>3, <1>5, <1>7, <1>9 DEF Moves
<1> HIDE DEF req
<1>11. ~v.accepted => holding'[o.sym].ver = holding[o.sym].ver
  BY <1>3
<1>12. CASE listening /\ Answer(b, listening)
  <2>1. rspQ' = Append(rspQ, E)
    BY <1>12 DEF Answer, req
  <2>2. Published(E) /\ E.body.tid = "SetOrder" /\ E.body.sym = o.sym
    BY <1>6, <1>8 DEF req
  <2> HIDE DEF E
  <2>3. \E e : Published(e) /\ rspQ' = Append(rspQ, e) /\ e.body.tid = "SetOrder" /\ e.body.sym = o.sym
    BY <2>1, <2>2
  <2> QED BY <1>10, <2>3 DEF o, req
<1>13. CASE ~listening /\ Answer(b, listening)
  <2>1. rspQ' = rspQ
    BY <1>13 DEF Answer
  <2>2. holding'[o.sym].ver = holding[o.sym].ver \/ o.sym \in unannounced'
    BY <1>7, <1>11, <1>13
  <2> QED BY <2>1, <2>2, <1>10 DEF o, req
<1>14. CASE NoAnswer("SetOrder") /\ unannounced' = IF v.accepted
                                     THEN unannounced \cup {o.sym} ELSE unannounced
  <2>1. rspQ' = rspQ
    BY <1>14 DEF NoAnswer
  <2>2. holding'[o.sym].ver = holding[o.sym].ver \/ o.sym \in unannounced'
    BY <1>11, <1>14
  <2> QED BY <2>1, <2>2, <1>10 DEF o, req
<1> QED BY <1>7, <1>12, <1>13, <1>14

LEMMA FillRestingVersions ==
  ASSUME TypeOK, FillResting
  PROVE  \E s \in Symbols : Moves(s) /\ s \in unannounced' /\ rspQ' = rspQ /\ reqQ' = reqQ
<1>1. PICK id \in DOMAIN book :
        /\ holding' = [holding EXCEPT ![book[id].sym] = Fill(@, book[id])]
        /\ unannounced' = unannounced \cup {book[id].sym}
        /\ UNCHANGED <<lost, queueVars>>
  BY DEF FillResting
<1> DEFINE o == book[id]
<1>2. o \in BookEntry
  BY <1>1, ElementOfSeq DEF TypeOK
<1>3. /\ o.sym \in Symbols /\ o.side \in Sides /\ o.open \in BOOLEAN /\ o.vol \in Nat
  BY <1>2 DEF BookEntry
<1> HIDE DEF o
<1>4. holding \in [Symbols -> Holding]
  BY DEF TypeOK
<1>5. Fill(holding[o.sym], o).ver = holding[o.sym].ver + 1
  BY <1>3, <1>4, HoldingType
<1>6. Moves(o.sym)
  BY <1>1, <1>3, <1>4, <1>5 DEF Moves, o
<1>7. o.sym \in unannounced' /\ rspQ' = rspQ /\ reqQ' = reqQ
  BY <1>1 DEF o, queueVars
<1> QED BY <1>3, <1>6, <1>7

-----------------------------------------------------------------------------
(* VersionsInOrder is inductive. *)

(* ... when the reply topic stays and the exchange moves on, *)
LEMMA VersionsStay ==
  ASSUME TypeOK, TypeOK', VersionsInOrder, rspQ' = rspQ, SameKnown,
         \A s \in Symbols : holding[s].ver <= holding'[s].ver
  PROVE  VersionsInOrder'
<1>1. \A s \in Symbols : pos[s].ver \in Int /\ holding[s].ver \in Int /\ holding'[s].ver \in Int
  <2>1. \A s \in Symbols : holding'[s].ver \in Int
    BY DEF TypeOK, Holding
  <2> QED BY <2>1, VersionType
<1> SUFFICES ASSUME NEW s \in Symbols
             PROVE  /\ pos'[s].ver <= holding'[s].ver
                    /\ \A i \in DOMAIN rspQ : PosAnswer(i, s) =>
                         pos'[s].ver <= rspQ[i].body.ver /\ rspQ[i].body.ver <= holding'[s].ver
                    /\ \A i, j \in DOMAIN rspQ : PosAnswer(i, s) /\ PosAnswer(j, s) /\ i < j =>
                         rspQ[i].body.ver <= rspQ[j].body.ver
  BY DEF VersionsInOrder, PosAnswer
<1> QED BY <1>1, VersionType DEF VersionsInOrder, SameKnown, PosAnswer

(* ... when a reply is published, *)
LEMMA VersionsPush ==
  ASSUME TypeOK, TypeOK', VersionsInOrder, SameKnown,
         NEW e, Published(e), rspQ' = Append(rspQ, e),
         \A s \in Symbols : holding[s].ver <= holding'[s].ver
  PROVE  VersionsInOrder'
<1> DEFINE n == Len(rspQ)
<1>1. \A s \in Symbols : pos[s].ver \in Int /\ holding[s].ver \in Int /\ holding'[s].ver \in Int
  <2>1. \A s \in Symbols : holding'[s].ver \in Int
    BY DEF TypeOK, Holding
  <2> QED BY <2>1, VersionType
<1>2. /\ n \in Nat /\ DOMAIN rspQ = 1..n /\ DOMAIN rspQ' = 1..n + 1
      /\ rspQ'[n + 1] = e /\ \A i \in 1..n : rspQ'[i] = rspQ[i]
  BY PushQueue, VersionType DEF Published
<1>3. \A i \in 1..n : rspQ[i].body.tid = "QryPos" =>
        rspQ[i].body.ver \in Int
  BY <1>2, VersionType
<1>4. e.body.tid = "QryPos" => e.body.ver = holding[e.body.sym].ver
  BY DEF Published
<1> HIDE DEF n
<1> SUFFICES ASSUME NEW s \in Symbols
             PROVE  /\ pos'[s].ver <= holding'[s].ver
                    /\ \A i \in 1..n + 1 : PosAnswer(i, s)' =>
                         pos'[s].ver <= rspQ'[i].body.ver /\ rspQ'[i].body.ver <= holding'[s].ver
                    /\ \A i, j \in 1..n + 1 : PosAnswer(i, s)' /\ PosAnswer(j, s)' /\ i < j =>
                         rspQ'[i].body.ver <= rspQ'[j].body.ver
  BY <1>2 DEF VersionsInOrder
<1>5. pos'[s].ver = pos[s].ver /\ holding[s].ver <= holding'[s].ver
  BY DEF SameKnown
<1>6. pos'[s].ver <= holding'[s].ver
  BY <1>1, <1>5 DEF VersionsInOrder
<1>7. ASSUME NEW i \in 1..n + 1, PosAnswer(i, s)'
      PROVE  pos'[s].ver <= rspQ'[i].body.ver /\ rspQ'[i].body.ver <= holding[s].ver
  <2>1. CASE i \in 1..n
    BY <2>1, <1>1, <1>2, <1>3, <1>5, <1>7 DEF VersionsInOrder, PosAnswer
  <2>2. CASE i = n + 1
    BY <2>2, <1>1, <1>2, <1>4, <1>5, <1>7 DEF VersionsInOrder, PosAnswer
  <2> QED BY <2>1, <2>2, <1>2
<1>8. ASSUME NEW i \in 1..n + 1, NEW j \in 1..n + 1, PosAnswer(i, s)', PosAnswer(j, s)', i < j
      PROVE  rspQ'[i].body.ver <= rspQ'[j].body.ver
  <2>1. i \in 1..n
    BY <1>2, <1>8
  <2>2. CASE j \in 1..n
    BY <2>1, <2>2, <1>2, <1>8 DEF VersionsInOrder, PosAnswer
  <2>3. CASE j = n + 1
    <3>1. rspQ'[j].body.ver = holding[s].ver
      BY <2>3, <1>2, <1>4, <1>8 DEF PosAnswer
    <3> QED BY <3>1, <1>7, <1>8
  <2> QED BY <2>2, <2>3, <1>2
<1>9. ASSUME NEW i \in 1..n + 1, PosAnswer(i, s)'
      PROVE  pos'[s].ver <= rspQ'[i].body.ver /\ rspQ'[i].body.ver <= holding'[s].ver
  <2>1. rspQ'[i].body.ver \in Int
    BY <1>1, <1>2, <1>3, <1>4, <1>9 DEF PosAnswer
  <2>2. holding[s].ver \in Int /\ holding'[s].ver \in Int
    BY <1>1
  <2>3. pos'[s].ver <= rspQ'[i].body.ver /\ rspQ'[i].body.ver <= holding[s].ver
    BY <1>7, <1>9
  <2>4. holding[s].ver <= holding'[s].ver
    BY <1>5
  <2>5. \A a, b, c \in Int : a <= b /\ b <= c => a <= c
    OBVIOUS
  <2> QED BY <2>1, <2>2, <2>3, <2>4, <2>5
<1> QED BY <1>6, <1>8, <1>9

(* ... and when krang handles a reply, which tells it a version of b.sym. *)
LEMMA VersionsPop ==
  ASSUME TypeOK, VersionsInOrder, rspQ # <<>>, rspQ' = Tail(rspQ), holding' = holding,
         \A s \in Symbols :
           pos'[s].ver = IF PosAnswer(1, s) THEN rspQ[1].body.ver ELSE pos[s].ver
  PROVE  VersionsInOrder'
<1> DEFINE n == Len(rspQ)
<1>1. \A s \in Symbols : pos[s].ver \in Int /\ holding[s].ver \in Int
  BY VersionType
<1>2. /\ n \in Nat \ {0} /\ DOMAIN rspQ = 1..n /\ DOMAIN rspQ' = 1..n - 1
      /\ \A i \in 1..n - 1 : rspQ'[i] = rspQ[i + 1] /\ i + 1 \in 1..n /\ 1 < i + 1
  <2>1. n \in Nat \ {0} /\ DOMAIN rspQ = 1..n /\ DOMAIN rspQ' = 1..n - 1
        /\ \A i \in 1..n - 1 : rspQ'[i] = rspQ[i + 1]
    BY PopQueue, VersionType
  <2> QED BY <2>1
<1> HIDE DEF n
<1> SUFFICES ASSUME NEW s \in Symbols
             PROVE  /\ pos'[s].ver <= holding[s].ver
                    /\ \A i \in 1..n - 1 : PosAnswer(i, s)' =>
                         pos'[s].ver <= rspQ'[i].body.ver /\ rspQ'[i].body.ver <= holding[s].ver
                    /\ \A i, j \in 1..n - 1 : PosAnswer(i, s)' /\ PosAnswer(j, s)' /\ i < j =>
                         rspQ'[i].body.ver <= rspQ'[j].body.ver
  BY <1>2 DEF VersionsInOrder
<1>3. \A i \in 1..n - 1 : PosAnswer(i, s)' => PosAnswer(i + 1, s)
  BY <1>2 DEF PosAnswer
<1>4. 1 \in 1..n
  BY <1>2
<1>5. pos'[s].ver <= holding[s].ver
  BY <1>2, <1>4 DEF VersionsInOrder
<1>6. ASSUME NEW i \in 1..n - 1, PosAnswer(i, s)'
      PROVE  pos'[s].ver <= rspQ'[i].body.ver /\ rspQ'[i].body.ver <= holding[s].ver
  BY <1>2, <1>3, <1>4, <1>6 DEF VersionsInOrder
<1>7. ASSUME NEW i \in 1..n - 1, NEW j \in 1..n - 1, PosAnswer(i, s)', PosAnswer(j, s)', i < j
      PROVE  rspQ'[i].body.ver <= rspQ'[j].body.ver
  <2>1. i + 1 < j + 1
    BY <1>2, <1>7
  <2> QED BY <2>1, <1>2, <1>3, <1>7 DEF VersionsInOrder
<1> QED BY <1>5, <1>6, <1>7

(* A reply that is not about a position. *)
LEMMA ReceiveVersions ==
  ASSUME TypeOK, VersionsInOrder, NEW tid, tid # "QryPos", Receive(tid),
         pos' = pos, UNCHANGED archerVars
  PROVE  VersionsInOrder'
<1>1. rspQ # <<>> /\ rspQ' = Tail(rspQ) /\ Head(rspQ).body.tid = tid
  BY DEF Receive
<1>2. Head(rspQ) = rspQ[1]
  BY <1>1, PopQueue, VersionType
<1>3. \A s \in Symbols : ~PosAnswer(1, s)
  BY <1>1, <1>2 DEF PosAnswer
<1>4. holding' = holding
  BY DEF archerVars
<1> QED BY <1>1, <1>3, <1>4, VersionsPop

LEMMA MovesUp ==
  ASSUME TypeOK, NEW s, Moves(s)
  PROVE  \A r \in Symbols : holding[r].ver <= holding'[r].ver
<1>1. \A r \in Symbols : holding[r].ver \in Nat
  BY VersionType
<1> QED BY <1>1 DEF Moves

LEMMA SameTruthUp ==
  ASSUME TypeOK, SameTruth
  PROVE  \A r \in Symbols : holding[r].ver <= holding'[r].ver
<1>1. \A r \in Symbols : holding[r].ver \in Nat
  BY VersionType
<1> QED BY <1>1 DEF SameTruth

LEMMA NextVersions ==
  TypeOK /\ TypeOK' /\ VersionsInOrder /\ [Next]_vars => VersionsInOrder'
<1> SUFFICES ASSUME TypeOK, TypeOK', VersionsInOrder, [Next]_vars PROVE VersionsInOrder'
  OBVIOUS
<1>1. ASSUME SameKnown, SameTruth, rspQ' = rspQ PROVE VersionsInOrder'
  BY <1>1, SameTruthUp, VersionsStay
<1>2. ASSUME UNCHANGED krangVars PROVE SameKnown
  BY <1>2 DEF SameKnown, krangVars, keeperVars
<1>3. ASSUME UNCHANGED archerVars PROVE SameTruth
  BY <1>3 DEF SameTruth, archerVars
<1>4. CASE UNCHANGED archerVars /\ \E t \in Ticks : OnTick(t)
  BY <1>1, <1>3, <1>4, OnTickVersions
<1>5. CASE UNCHANGED archerVars /\ (OnOtherTick \/ PassTime \/ Start)
  <2>1. SameKnown /\ rspQ' = rspQ
    BY <1>5 DEF OnOtherTick, PassTime, Start, SameKnown, keeperVars, queueVars
  <2> QED BY <2>1, <1>1, <1>3, <1>5
<1>6. CASE UNCHANGED archerVars /\ rspQryMoneyInfo
  BY <1>6, ReceiveVersions DEF rspQryMoneyInfo, keeperVars
<1>7. CASE UNCHANGED archerVars /\ rspSetOrder
  BY <1>7, ReceiveVersions DEF rspSetOrder
<1>8. CASE UNCHANGED archerVars /\ rspQryOrders
  BY <1>8, ReceiveVersions DEF rspQryOrders
<1>9. CASE UNCHANGED archerVars /\ rspQryPosInfo
  <2> DEFINE b == Head(rspQ).body
  <2>1. /\ b.tid = "QryPos" /\ rspQ # <<>> /\ rspQ' = Tail(rspQ)
        /\ pos'[b.sym].ver = b.ver
        /\ \A s \in Symbols \ {b.sym} : pos'[s].ver = pos[s].ver
    BY <1>9, rspQryPosInfoVersions
  <2>2. rspQ[1] = Head(rspQ)
    BY <2>1, PopQueue, VersionType
  <2> HIDE DEF b
  <2>3. \A s \in Symbols : PosAnswer(1, s) <=> s = b.sym
    BY <2>1, <2>2 DEF PosAnswer, b
  <2>4. \A s \in Symbols :
          pos'[s].ver = IF PosAnswer(1, s) THEN rspQ[1].body.ver ELSE pos[s].ver
    BY <2>1, <2>2, <2>3 DEF b
  <2>5. holding' = holding
    BY <1>9 DEF archerVars
  <2> QED BY <2>1, <2>4, <2>5, VersionsPop
<1>10. CASE UNCHANGED archerVars /\ Crash
  <2>1. DOMAIN rspQ' = {} /\ \A s \in Symbols : pos'[s].ver = -1 /\ holding'[s].ver = holding[s].ver
    BY <1>10 DEF Crash, NoPos, archerVars
  <2>2. \A s \in Symbols : holding[s].ver \in Nat
    BY VersionType
  <2>3. \A s \in Symbols : pos'[s].ver <= holding'[s].ver
    BY <2>1, <2>2
  <2> QED BY <2>1, <2>3 DEF VersionsInOrder
<1>11. ASSUME UNCHANGED krangVars, SameTruth,
              rspQ' = rspQ \/ \E e : Published(e) /\ rspQ' = Append(rspQ, e)
       PROVE  VersionsInOrder'
  BY <1>1, <1>2, <1>11, SameTruthUp, VersionsPush
<1>12. CASE UNCHANGED krangVars /\ qryMoneyInfo(up)
  BY <1>11, <1>12, qryMoneyInfoVersions
<1>13. CASE UNCHANGED krangVars /\ qryOrdersById(up)
  BY <1>11, <1>13, qryOrdersByIdVersions
<1>14. CASE UNCHANGED krangVars /\ qryHoldDetail(up)
  <2>1. SameTruth /\ (rspQ' = rspQ \/ \E e : Published(e) /\ rspQ' = Append(rspQ, e))
    BY <1>14, qryHoldDetailVersions DEF SameTruth
  <2> QED BY <2>1, <1>11, <1>14
<1>15. CASE UNCHANGED krangVars /\ setOrder(up)
  <2>1. PICK s : Moves(s) /\ (rspQ' = rspQ \/ \E e : Published(e) /\ rspQ' = Append(rspQ, e))
    BY <1>15, setOrderVersions
  <2>2. \A r \in Symbols : holding[r].ver <= holding'[r].ver
    BY <2>1, MovesUp
  <2> QED BY <2>1, <2>2, <1>2, <1>15, VersionsStay, VersionsPush
<1>16. CASE UNCHANGED krangVars /\ FillResting
  <2>1. PICK s \in Symbols : Moves(s) /\ rspQ' = rspQ
    BY <1>16, FillRestingVersions
  <2>2. \A r \in Symbols : holding[r].ver <= holding'[r].ver
    BY <2>1, MovesUp
  <2> QED BY <2>1, <2>2, <1>2, <1>16, VersionsStay
<1>17. CASE UNCHANGED vars
  <2>1. UNCHANGED krangVars /\ UNCHANGED archerVars /\ rspQ' = rspQ
    BY <1>17 DEF vars, queueVars
  <2> QED BY <2>1, <1>1, <1>2, <1>3
<1> QED
  BY <1>4, <1>5, <1>6, <1>7, <1>8, <1>9, <1>10, <1>12, <1>13, <1>14, <1>15, <1>16,
     <1>17, StepCases

LEMMA InitVersions == Init => VersionsInOrder
<1> SUFFICES ASSUME Init PROVE VersionsInOrder
  OBVIOUS
<1>1. \A s \in Symbols : pos[s].ver = -1
  BY DEF Init, KrangInit, NoPos
<1>2. \A s \in Symbols : holding[s].ver \in Nat
  BY InitType, VersionType
<1>3. DOMAIN rspQ = {}
  BY DEF Init
<1>4. \A s \in Symbols : pos[s].ver <= holding[s].ver
  <2> TAKE s \in Symbols
  <2>1. pos[s].ver = -1
    BY <1>1
  <2>2. holding[s].ver \in Nat
    BY <1>2
  <2>3. \A n \in Nat : -1 <= n
    OBVIOUS
  <2> QED BY <2>1, <2>2, <2>3
<1> QED BY <1>3, <1>4, Zenon DEF VersionsInOrder

(* Whatever is delayed, lost or restarted, the answers about a position     *)
(* reach krang in the order of the changes they describe, and none is newer *)
(* than the exchange (kfc.go one partition, krang.go krangLoop).            *)
THEOREM VersionsCorrect == Spec => []VersionsInOrder
<1>1. Init => TypeOK /\ VersionsInOrder
  BY InitType, InitVersions
<1>2. TypeOK /\ VersionsInOrder /\ [Next]_vars => TypeOK' /\ VersionsInOrder'
  BY NextType, NextVersions
<1> QED BY <1>1, <1>2, PTL DEF Spec

-----------------------------------------------------------------------------
(* What is in flight about a contract stays in flight, or takes effect. *)

LEMMA QuerySent ==
  ASSUME TypeOK, NEW bodies \in Seq(ReqBody), Send(bodies), NEW s
  PROVE  /\ QueryInFlight(s) => QueryInFlight(s)'
         /\ \A i \in 1..Len(bodies) :
              bodies[i] = [tid |-> "QryPos", sym |-> s] => QueryInFlight(s)'
<1>1. /\ reqQ \in Seq(Package(ReqBody)) /\ DOMAIN reqQ = 1..Len(reqQ) /\ Len(reqQ) \in Nat
      /\ Len(bodies) \in Nat
  BY LenProperties DEF TypeOK
<1>2. /\ Len(reqQ') = Len(reqQ) + Len(bodies) /\ DOMAIN reqQ' = 1..Len(reqQ')
      /\ \A i \in 1..Len(reqQ) : reqQ'[i] = reqQ[i]
      /\ \A i \in 1..Len(bodies) : reqQ'[Len(reqQ) + i].body = bodies[i]
  BY SendAppends, LenProperties
<1>3. QueryInFlight(s) => QueryInFlight(s)'
  BY <1>1, <1>2 DEF QueryInFlight
<1>4. ASSUME NEW i \in 1..Len(bodies), bodies[i] = [tid |-> "QryPos", sym |-> s]
      PROVE  QueryInFlight(s)'
  <2>1. Len(reqQ) + i \in DOMAIN reqQ'
    BY <1>1, <1>2
  <2>2. reqQ'[Len(reqQ) + i].body = [tid |-> "QryPos", sym |-> s]
    BY <1>2, <1>4
  <2> QED BY <2>1, <2>2 DEF QueryInFlight
<1> QED BY <1>3, <1>4

LEMMA QueryWaits ==
  ASSUME TypeOK, NEW tid, Take(tid), NEW s, QueryInFlight(s)
  PROVE  QueryInFlight(s)' \/ (tid = "QryPos" /\ Head(reqQ).body.sym = s)
<1>1. reqQ \in Seq(Package(ReqBody)) /\ reqQ # <<>> /\ reqQ' = Tail(reqQ)
      /\ Head(reqQ).body.tid = tid
  BY DEF Take, TypeOK
<1>2. /\ Head(reqQ) = reqQ[1] /\ Len(reqQ) \in Nat /\ DOMAIN reqQ = 1..Len(reqQ)
      /\ DOMAIN reqQ' = 1..Len(reqQ) - 1
      /\ \A i \in 1..Len(reqQ) - 1 : reqQ'[i] = reqQ[i + 1]
  BY <1>1, PopQueue
<1>3. PICK i \in DOMAIN reqQ : reqQ[i].body.tid = "QryPos" /\ reqQ[i].body.sym = s
  BY DEF QueryInFlight
<1>4. CASE i = 1
  BY <1>1, <1>2, <1>3, <1>4
<1>5. CASE i # 1
  <2>1. i - 1 \in DOMAIN reqQ' /\ reqQ'[i - 1] = reqQ[i]
    BY <1>2, <1>5
  <2> QED BY <2>1, <1>3 DEF QueryInFlight
<1> QED BY <1>4, <1>5

LEMMA ReplyWaits ==
  ASSUME TypeOK, rspQ # <<>>, rspQ' = Tail(rspQ), NEW s, holding' = holding
  PROVE  /\ OrderReplyInFlight(s) =>
              \/ OrderReplyInFlight(s)'
              \/ Head(rspQ).body.tid = "SetOrder" /\ Head(rspQ).body.sym = s
         /\ NewestInFlight(s) =>
              \/ NewestInFlight(s)'
              \/ PosAnswer(1, s) /\ rspQ[1].body.ver = holding[s].ver
<1>1. /\ Head(rspQ) = rspQ[1] /\ Len(rspQ) \in Nat /\ DOMAIN rspQ = 1..Len(rspQ)
      /\ DOMAIN rspQ' = 1..Len(rspQ) - 1
      /\ \A i \in 1..Len(rspQ) - 1 : rspQ'[i] = rspQ[i + 1]
  BY PopQueue, VersionType
<1>2. \A i \in DOMAIN rspQ : i = 1 \/ (i - 1 \in DOMAIN rspQ' /\ rspQ'[i - 1] = rspQ[i])
  BY <1>1
<1>3. OrderReplyInFlight(s) =>
        \/ OrderReplyInFlight(s)'
        \/ Head(rspQ).body.tid = "SetOrder" /\ Head(rspQ).body.sym = s
  BY <1>1, <1>2 DEF OrderReplyInFlight
<1>4. ASSUME NewestInFlight(s)
      PROVE  \/ NewestInFlight(s)'
             \/ PosAnswer(1, s) /\ rspQ[1].body.ver = holding[s].ver
  <2>1. PICK i \in DOMAIN rspQ : PosAnswer(i, s) /\ rspQ[i].body.ver = holding[s].ver
    BY <1>4 DEF NewestInFlight
  <2>2. CASE i = 1
    BY <2>1, <2>2
  <2>3. CASE i # 1
    <3>1. i - 1 \in DOMAIN rspQ' /\ rspQ'[i - 1] = rspQ[i]
      BY <2>3, <1>2
    <3> QED BY <3>1, <2>1 DEF NewestInFlight, PosAnswer
  <2> QED BY <2>2, <2>3
<1> QED BY <1>3, <1>4

LEMMA ReplyPublishedKeeps ==
  ASSUME TypeOK, NEW s, rspQ' = rspQ \/ \E e : Published(e) /\ rspQ' = Append(rspQ, e)
  PROVE  /\ OrderReplyInFlight(s) => OrderReplyInFlight(s)'
         /\ NewestInFlight(s) /\ holding'[s].ver = holding[s].ver => NewestInFlight(s)'
<1>1. \A i \in DOMAIN rspQ : i \in DOMAIN rspQ' /\ rspQ'[i] = rspQ[i]
  <2>1. CASE rspQ' = rspQ
    BY <2>1
  <2>2. ASSUME NEW e, Published(e), rspQ' = Append(rspQ, e)
        PROVE  \A i \in DOMAIN rspQ : i \in DOMAIN rspQ' /\ rspQ'[i] = rspQ[i]
    <3>1. e \in Package(RspBody)
      BY <2>2 DEF Published
    <3>2. rspQ \in Seq(Package(RspBody)) /\ DOMAIN rspQ = 1..Len(rspQ)
      BY VersionType
    <3>3. /\ Len(rspQ) \in Nat /\ DOMAIN Append(rspQ, e) = 1..Len(rspQ) + 1
          /\ \A i \in 1..Len(rspQ) : Append(rspQ, e)[i] = rspQ[i]
      BY <3>1, <3>2, PushQueue
    <3>4. \A i \in DOMAIN rspQ : i \in DOMAIN Append(rspQ, e) /\ Append(rspQ, e)[i] = rspQ[i]
      BY <3>2, <3>3
    <3> QED BY <2>2, <3>4
  <2> QED BY <2>1, <2>2
<1>2. OrderReplyInFlight(s) => OrderReplyInFlight(s)'
  BY <1>1 DEF OrderReplyInFlight
<1>3. NewestInFlight(s) /\ holding'[s].ver = holding[s].ver => NewestInFlight(s)'
  BY <1>1 DEF NewestInFlight, PosAnswer
<1> QED BY <1>2, <1>3

(* The reply just published is in flight. *)
LEMMA JustPublished ==
  ASSUME TypeOK, NEW e, Published(e), rspQ' = Append(rspQ, e)
  PROVE  /\ e.body.tid = "SetOrder" => OrderReplyInFlight(e.body.sym)'
         /\ e.body.tid = "QryPos" /\ holding' = holding => NewestInFlight(e.body.sym)'
<1>1. Len(rspQ) + 1 \in DOMAIN rspQ' /\ rspQ'[Len(rspQ) + 1] = e
  <2>1. e \in Package(RspBody)
    BY DEF Published
  <2> QED BY <2>1, PushQueue, VersionType
<1>2. e.body.tid = "SetOrder" => OrderReplyInFlight(e.body.sym)'
  BY <1>1 DEF OrderReplyInFlight
<1>3. e.body.tid = "QryPos" /\ holding' = holding => NewestInFlight(e.body.sym)'
  BY <1>1 DEF NewestInFlight, PosAnswer, Published
<1> QED BY <1>2, <1>3

(* krang sends requests and handles no reply. *)
LEMMA RefreshSend ==
  ASSUME TypeOK, StaleIsRefreshed, up, SameKnown, UNCHANGED archerVars, rspQ' = rspQ,
         \A s \in Symbols : QueryInFlight(s) => QueryInFlight(s)'
  PROVE  StaleIsRefreshed'
<1>1. holding' = holding /\ unannounced' = unannounced
  BY DEF archerVars
<1> SUFFICES ASSUME NEW s \in Symbols, pos'[s].ver # holding'[s].ver PROVE Refreshing(s)'
  BY DEF StaleIsRefreshed
<1>2. Refreshing(s)
  BY <1>1 DEF StaleIsRefreshed, SameKnown
<1>3. (OrderReplyInFlight(s) => OrderReplyInFlight(s)') /\ (NewestInFlight(s) => NewestInFlight(s)')
  BY <1>1 DEF OrderReplyInFlight, NewestInFlight, PosAnswer
<1> QED BY <1>1, <1>2, <1>3 DEF Refreshing

(* krang handles a reply; `s' is the contract it is about, if any. *)
LEMMA RefreshReceive ==
  ASSUME TypeOK, VersionsInOrder, StaleIsRefreshed, NEW tid, Receive(tid),
         UNCHANGED archerVars,
         \A s \in Symbols :
           /\ QueryInFlight(s) => QueryInFlight(s)'
           /\ PosAnswer(1, s) => pos'[s].ver = rspQ[1].body.ver
           /\ ~PosAnswer(1, s) => pos'[s].ver = pos[s].ver
           /\ tid = "SetOrder" /\ Head(rspQ).body.sym = s => QueryInFlight(s)'
  PROVE  StaleIsRefreshed'
<1>1. holding' = holding /\ unannounced' = unannounced
  BY DEF archerVars
<1>2. rspQ # <<>> /\ rspQ' = Tail(rspQ) /\ Head(rspQ).body.tid = tid /\ up
  BY DEF Receive
<1>3. Head(rspQ) = rspQ[1] /\ 1 \in DOMAIN rspQ
  BY <1>2, PopQueue, VersionType
<1> SUFFICES ASSUME NEW s \in Symbols, pos'[s].ver # holding'[s].ver PROVE Refreshing(s)'
  BY DEF StaleIsRefreshed
<1>4. pos[s].ver # holding[s].ver
  <2>1. CASE ~PosAnswer(1, s)
    BY <2>1, <1>1
  <2>2. CASE PosAnswer(1, s)
    <3>1. pos[s].ver <= rspQ[1].body.ver /\ rspQ[1].body.ver <= holding[s].ver
      BY <2>2, <1>3 DEF VersionsInOrder
    <3>2. rspQ[1].body.ver # holding[s].ver
      BY <2>2, <1>1
    <3>3. pos[s].ver \in Int /\ rspQ[1].body.ver \in Int /\ holding[s].ver \in Int
      BY <2>2, <1>3, VersionType DEF PosAnswer
    <3>4. \A a, b, c \in Int : a <= b /\ b <= c /\ b # c => a # c
      OBVIOUS
    <3> QED BY <3>1, <3>2, <3>3, <3>4
  <2> QED BY <2>1, <2>2
<1>5. Refreshing(s)
  BY <1>2, <1>4 DEF StaleIsRefreshed
<1>6. OrderReplyInFlight(s) => OrderReplyInFlight(s)' \/ QueryInFlight(s)'
  BY <1>1, <1>2, ReplyWaits
<1>7. NewestInFlight(s) => NewestInFlight(s)'
  BY <1>1, <1>2, ReplyWaits
<1> QED BY <1>1, <1>5, <1>6, <1>7 DEF Refreshing

(* archer serves a request that is not a position query, or the exchange   *)
(* fills an order: only a contract that moves needs a new sign.            *)
LEMMA RefreshServe ==
  ASSUME TypeOK, StaleIsRefreshed, UNCHANGED krangVars,
         rspQ' = rspQ \/ \E e : Published(e) /\ rspQ' = Append(rspQ, e),
         unannounced \subseteq unannounced',
         \A s \in Symbols :
           /\ QueryInFlight(s) => QueryInFlight(s)'
           /\ \/ holding'[s].ver = holding[s].ver
              \/ s \in unannounced'
              \/ OrderReplyInFlight(s)'
  PROVE  StaleIsRefreshed'
<1>1. up' = up /\ pos' = pos
  BY DEF krangVars, keeperVars
<1> SUFFICES ASSUME up, NEW s \in Symbols, pos'[s].ver # holding'[s].ver PROVE Refreshing(s)'
  BY <1>1 DEF StaleIsRefreshed
<1>2. CASE holding'[s].ver = holding[s].ver
  <2>1. Refreshing(s)
    BY <1>1, <1>2 DEF StaleIsRefreshed
  <2>2. /\ OrderReplyInFlight(s) => OrderReplyInFlight(s)'
        /\ NewestInFlight(s) => NewestInFlight(s)'
    BY <1>2, ReplyPublishedKeeps
  <2> QED BY <2>1, <2>2 DEF Refreshing
<1>3. CASE s \in unannounced' \/ OrderReplyInFlight(s)'
  BY <1>3 DEF Refreshing
<1> QED BY <1>2, <1>3

LEMMA NextRefreshed ==
  TypeOK /\ VersionsInOrder /\ StaleIsRefreshed /\ [Next]_vars => StaleIsRefreshed'
<1> SUFFICES ASSUME TypeOK, VersionsInOrder, StaleIsRefreshed, [Next]_vars
             PROVE  StaleIsRefreshed'
  OBVIOUS
<1>1. CASE UNCHANGED archerVars /\ \E t \in Ticks : OnTick(t)
  <2>1. PICK t \in Ticks : OnTick(t)
    BY <1>1
  <2>2. PICK bodies \in Seq(ReqBody) : Send(bodies)
    BY <2>1, OnTickSends
  <2>3. up
    BY <2>1 DEF OnTick
  <2> QED BY <1>1, <2>1, <2>2, <2>3, QuerySent, OnTickVersions, RefreshSend
<1>2. CASE UNCHANGED archerVars /\ OnOtherTick
  <2>1. CheckQueries \in Seq(ReqBody) /\ Send(CheckQueries) /\ up /\ rspQ' = rspQ /\ SameKnown
    BY <1>2, CheckQueriesType DEF OnOtherTick, SameKnown
  <2> QED BY <1>2, <2>1, QuerySent, RefreshSend
<1>3. ASSUME UNCHANGED archerVars, NEW tid, Receive(tid), tid \notin {"QryPos", "SetOrder"},
             pos' = pos, reqQ' = reqQ
      PROVE  StaleIsRefreshed'
  <2>1. Head(rspQ) = rspQ[1] /\ Head(rspQ).body.tid = tid
    BY <1>3, PopQueue, VersionType DEF Receive
  <2>2. \A s \in Symbols : ~PosAnswer(1, s)
    BY <1>3, <2>1 DEF PosAnswer
  <2>3. \A s \in Symbols : QueryInFlight(s) => QueryInFlight(s)'
    BY <1>3 DEF QueryInFlight
  <2> QED BY <1>3, <2>2, <2>3, RefreshReceive
<1>4. CASE UNCHANGED archerVars /\ rspQryMoneyInfo
  BY <1>3, <1>4 DEF rspQryMoneyInfo, keeperVars
<1>5. CASE UNCHANGED archerVars /\ rspQryOrders
  BY <1>3, <1>5 DEF rspQryOrders
<1>6. CASE UNCHANGED archerVars /\ rspQryPosInfo
  <2> DEFINE b == Head(rspQ).body
  <2>1. /\ b.tid = "QryPos" /\ rspQ # <<>>
        /\ pos'[b.sym].ver = b.ver
        /\ \A s \in Symbols \ {b.sym} : pos'[s].ver = pos[s].ver
    BY <1>6, rspQryPosInfoVersions
  <2>2. rspQ[1] = Head(rspQ)
    BY <2>1, PopQueue, VersionType
  <2>3. Receive("QryPos") /\ reqQ' = reqQ
    BY <1>6 DEF rspQryPosInfo
  <2> HIDE DEF b
  <2>4. \A s \in Symbols : PosAnswer(1, s) <=> s = b.sym
    BY <2>1, <2>2 DEF PosAnswer, b
  <2>5. \A s \in Symbols :
          /\ PosAnswer(1, s) => pos'[s].ver = rspQ[1].body.ver
          /\ ~PosAnswer(1, s) => pos'[s].ver = pos[s].ver
    BY <2>1, <2>2, <2>4 DEF b
  <2>6. \A s \in Symbols : QueryInFlight(s) => QueryInFlight(s)'
    BY <2>3 DEF QueryInFlight
  <2> QED BY <1>6, <2>3, <2>5, <2>6, RefreshReceive
<1>7. CASE UNCHANGED archerVars /\ rspSetOrder
  <2> DEFINE b == Head(rspQ).body
             bodies == <<[tid |-> "QryMoney"], [tid |-> "QryPos", sym |-> b.sym]>>
                       \o IF b.ok THEN <<[tid |-> "QryOrders", id |-> b.id]>> ELSE <<>>
  <2>1. Receive("SetOrder") /\ Send(bodies) /\ pos' = pos
    BY <1>7 DEF rspSetOrder
  <2>2. b \in RspBody /\ b.tid = "SetOrder"
    BY <2>1, ReceiveType
  <2>3. bodies \in Seq(ReqBody) /\ 2 \in 1..Len(bodies)
        /\ bodies[2] = [tid |-> "QryPos", sym |-> b.sym]
    BY <2>2, FollowUp
  <2>4. rspQ[1] = Head(rspQ)
    BY <2>1, PopQueue, VersionType DEF Receive
  <2>5. \A s \in Symbols : ~PosAnswer(1, s)
    BY <2>2, <2>4 DEF PosAnswer
  <2> HIDE DEF bodies
  <2>6. \A s \in Symbols : /\ QueryInFlight(s) => QueryInFlight(s)'
                           /\ b.sym = s => QueryInFlight(s)'
    BY <2>1, <2>3, QuerySent
  <2> QED BY <1>7, <2>1, <2>5, <2>6, RefreshReceive
<1>8. CASE UNCHANGED archerVars /\ PassTime
  <2>1. up /\ rspQ' = rspQ /\ reqQ' = reqQ /\ SameKnown
    BY <1>8 DEF PassTime, queueVars, keeperVars, SameKnown
  <2>2. \A s \in Symbols : QueryInFlight(s) => QueryInFlight(s)'
    BY <2>1 DEF QueryInFlight
  <2> QED BY <1>8, <2>1, <2>2, RefreshSend
<1>9. CASE UNCHANGED archerVars /\ Start
  <2>1. ASSUME NEW s \in Symbols PROVE QueryInFlight(s)'
    <3>1. PICK i \in 1..Len(queryAllPos) : queryAllPos[i] = [tid |-> "QryPos", sym |-> s]
      BY QueryAllPosCovers
    <3>2. /\ Len(reqQ') = Len(reqQ) + Len(queryAllPos)
          /\ reqQ'[Len(reqQ) + i].body = queryAllPos[i]
          /\ reqQ' \in Seq(Package(ReqBody))
      BY <1>9, StartType DEF TypeOK
    <3>3. Len(reqQ) \in Nat /\ Len(queryAllPos) \in Nat /\ DOMAIN reqQ' = 1..Len(reqQ')
      BY <3>2, QueryAllPosType, LenProperties DEF TypeOK
    <3>4. Len(reqQ) + i \in DOMAIN reqQ'
      BY <3>2, <3>3
    <3> QED BY <3>1, <3>2, <3>4 DEF QueryInFlight
  <2> QED BY <2>1 DEF StaleIsRefreshed, Refreshing
<1>10. CASE UNCHANGED archerVars /\ Crash
  BY <1>10 DEF Crash, StaleIsRefreshed
<1>11. ASSUME UNCHANGED krangVars, NEW tid, Take(tid), tid # "QryPos",
              rspQ' = rspQ \/ \E e : Published(e) /\ rspQ' = Append(rspQ, e),
              SameTruth, unannounced' = unannounced
       PROVE  StaleIsRefreshed'
  BY <1>11, QueryWaits, RefreshServe DEF SameTruth
<1>12. CASE UNCHANGED krangVars /\ qryMoneyInfo(up)
  <2>1. Take("QryMoney") /\ unannounced' = unannounced
    BY <1>12 DEF qryMoneyInfo
  <2> QED BY <1>11, <1>12, <2>1, qryMoneyInfoVersions
<1>13. CASE UNCHANGED krangVars /\ qryOrdersById(up)
  <2>1. Take("QryOrders") /\ unannounced' = unannounced
    BY <1>13 DEF qryOrdersById
  <2> QED BY <1>11, <1>13, <2>1, qryOrdersByIdVersions
<1>14. CASE UNCHANGED krangVars /\ qryHoldDetail(up)
  <2>0. PICK r : r = Head(reqQ).body.sym
    OBVIOUS
  <2>1. /\ holding' = holding /\ r \in Symbols
        /\ \A s \in Symbols \ {r} : s \in unannounced => s \in unannounced'
        /\ \/ /\ up
              /\ \E e : /\ Published(e) /\ rspQ' = Append(rspQ, e)
                       /\ e.body.tid = "QryPos" /\ e.body.sym = r
           \/ /\ rspQ' = rspQ
              /\ up => r \in unannounced'
    BY <2>0, <1>14, qryHoldDetailVersions
  <2>2. Take("QryPos")
    BY <1>14 DEF qryHoldDetail
  <2>3. up' = up /\ pos' = pos
    BY <1>14 DEF krangVars, keeperVars
  <2>4. ASSUME up PROVE Refreshing(r)'
    <3>1. ASSUME NEW e, Published(e), rspQ' = Append(rspQ, e),
                 e.body.tid = "QryPos", e.body.sym = r
          PROVE  NewestInFlight(r)'
      <4>1. NewestInFlight(e.body.sym)'
        BY <3>1, <2>1, JustPublished
      <4> QED BY <4>1, <3>1
    <3>2. NewestInFlight(r)' \/ r \in unannounced'
      BY <2>1, <2>4, <3>1
    <3> QED BY <3>2 DEF Refreshing
  <2>5. ASSUME NEW s \in Symbols \ {r}, Refreshing(s) PROVE Refreshing(s)'
    <3>1. QueryInFlight(s) => QueryInFlight(s)'
      BY <2>0, <2>2, QueryWaits
    <3>2. rspQ' = rspQ \/ \E e : Published(e) /\ rspQ' = Append(rspQ, e)
      BY <2>1
    <3>3. /\ OrderReplyInFlight(s) => OrderReplyInFlight(s)'
          /\ NewestInFlight(s) => NewestInFlight(s)'
      BY <2>1, <3>2, ReplyPublishedKeeps
    <3> QED BY <2>1, <2>5, <3>1, <3>3 DEF Refreshing
  <2> SUFFICES ASSUME up, NEW s \in Symbols, pos'[s].ver # holding'[s].ver
               PROVE  Refreshing(s)'
    BY <2>3 DEF StaleIsRefreshed
  <2>6. Refreshing(s)
    BY <2>1, <2>3 DEF StaleIsRefreshed
  <2> QED BY <2>4, <2>5, <2>6
<1>15. CASE UNCHANGED krangVars /\ setOrder(up)
  <2>0. PICK r : r = Head(reqQ).body.sym
    OBVIOUS
  <2>1. /\ Moves(r)
        /\ \/ \E e : /\ Published(e) /\ rspQ' = Append(rspQ, e)
                    /\ e.body.tid = "SetOrder" /\ e.body.sym = r
           \/ /\ rspQ' = rspQ
              /\ holding'[r].ver = holding[r].ver \/ r \in unannounced'
    BY <2>0, <1>15, setOrderVersions
  <2>2. Take("SetOrder")
    BY <1>15 DEF setOrder
  <2>3. \/ holding'[r].ver = holding[r].ver
        \/ r \in unannounced'
        \/ OrderReplyInFlight(r)'
    <3>1. ASSUME NEW e, Published(e), rspQ' = Append(rspQ, e),
                 e.body.tid = "SetOrder", e.body.sym = r
          PROVE  OrderReplyInFlight(r)'
      <4>1. OrderReplyInFlight(e.body.sym)'
        BY <3>1, JustPublished
      <4> QED BY <4>1, <3>1
    <3> QED BY <2>1, <3>1
  <2>4. \A s \in Symbols : \/ holding'[s].ver = holding[s].ver
                           \/ s \in unannounced'
                           \/ OrderReplyInFlight(s)'
    <3> TAKE s \in Symbols
    <3>1. CASE s = r
      BY <2>3, <3>1
    <3>2. CASE s # r
      BY <2>1, <3>2 DEF Moves
    <3> QED BY <3>1, <3>2
  <2>5. rspQ' = rspQ \/ \E e : Published(e) /\ rspQ' = Append(rspQ, e)
    BY <2>1
  <2>6. unannounced \subseteq unannounced'
    BY <2>1 DEF Moves
  <2>7. \A s \in Symbols : QueryInFlight(s) => QueryInFlight(s)'
    BY <2>2, QueryWaits
  <2> QED BY <1>15, <2>4, <2>5, <2>6, <2>7, RefreshServe
<1>16. CASE UNCHANGED krangVars /\ FillResting
  <2>1. PICK r \in Symbols : Moves(r) /\ r \in unannounced' /\ rspQ' = rspQ /\ reqQ' = reqQ
    BY <1>16, FillRestingVersions
  <2>2. unannounced \subseteq unannounced'
        /\ \A s \in Symbols : holding'[s].ver = holding[s].ver \/ s \in unannounced'
    BY <2>1 DEF Moves
  <2>3. \A s \in Symbols : QueryInFlight(s) => QueryInFlight(s)'
    BY <2>1 DEF QueryInFlight
  <2> QED BY <1>16, <2>1, <2>2, <2>3, RefreshServe
<1>17. CASE UNCHANGED vars
  <2>1. UNCHANGED krangVars /\ rspQ' = rspQ /\ reqQ' = reqQ /\ holding' = holding
        /\ unannounced' = unannounced
    BY <1>17 DEF vars, queueVars, archerVars
  <2>2. \A s \in Symbols : QueryInFlight(s) => QueryInFlight(s)'
    BY <2>1 DEF QueryInFlight
  <2> QED BY <2>1, <2>2, RefreshServe
<1> QED
  BY <1>1, <1>2, <1>4, <1>5, <1>6, <1>7, <1>8, <1>9, <1>10, <1>12, <1>13, <1>14, <1>15,
     <1>16, <1>17, StepCases

(* Nobody acts on an outdated position without an update on its way: either *)
(* krang knows what the exchange holds, or something in flight will tell    *)
(* it, or the change was one that nothing announces (a request that went    *)
(* unanswered, a resting order that was filled).  The invariant leans on    *)
(* the order of the answers: were an older answer to overtake a newer one,  *)
(* handling it would leave krang out of date with nothing in flight.        *)
THEOREM StaleCorrect == Spec => []StaleIsRefreshed
<1>1. Init => TypeOK /\ VersionsInOrder /\ StaleIsRefreshed
  BY InitType, InitVersions DEF Init, KrangInit, StaleIsRefreshed
<1>2. TypeOK /\ VersionsInOrder /\ StaleIsRefreshed /\ [Next]_vars
        => TypeOK' /\ VersionsInOrder' /\ StaleIsRefreshed'
  BY NextType, NextVersions, NextRefreshed
<1> QED BY <1>1, <1>2, PTL DEF Spec

-----------------------------------------------------------------------------
(* The refinement of PositionFeed: steps that leave every version alone     *)
(* stutter, an order or a fill is a Change, an answer about a position is a *)
(* Learn, and a crash is a Forget.                                          *)

LEMMA FeedStutters ==
  ASSUME SameKnown, SameTruth
  PROVE  UNCHANGED Feed!feedVars
<1>1. [s \in Symbols |-> holding'[s].ver] = [s \in Symbols |-> holding[s].ver]
  BY DEF SameTruth
<1>2. [s \in Symbols |-> pos'[s].ver] = [s \in Symbols |-> pos[s].ver]
  BY DEF SameKnown
<1> QED BY <1>1, <1>2 DEF Feed!feedVars

LEMMA FeedChanges ==
  ASSUME SameKnown, NEW s, Moves(s)
  PROVE  [Feed!FeedNext]_(Feed!feedVars)
<1>1. [r \in Symbols |-> pos'[r].ver] = [r \in Symbols |-> pos[r].ver]
  BY DEF SameKnown
<1>2. CASE holding'[s].ver = holding[s].ver
  <2>1. SameTruth
    BY <1>2 DEF Moves, SameTruth
  <2> QED BY <2>1, FeedStutters
<1>3. CASE holding'[s].ver = holding[s].ver + 1
  <2> DEFINE T == [r \in Symbols |-> holding[r].ver]
  <2>1. s \in Symbols /\ \A r \in Symbols \ {s} : holding'[r].ver = holding[r].ver
    BY DEF Moves
  <2>2. [r \in Symbols |-> holding'[r].ver] = [T EXCEPT ![s] = @ + 1]
    BY <1>3, <2>1
  <2>3. Feed!Change
    BY <1>1, <2>1, <2>2 DEF Feed!Change
  <2> QED BY <2>3 DEF Feed!FeedNext
<1> QED BY <1>2, <1>3 DEF Moves

LEMMA NextFeeds ==
  TypeOK /\ VersionsInOrder /\ [Next]_vars => [Feed!FeedNext]_(Feed!feedVars)
<1> SUFFICES ASSUME TypeOK, VersionsInOrder, [Next]_vars
             PROVE  [Feed!FeedNext]_(Feed!feedVars)
  OBVIOUS
<1>1. ASSUME SameKnown, SameTruth PROVE [Feed!FeedNext]_(Feed!feedVars)
  BY <1>1, FeedStutters
<1>2. ASSUME UNCHANGED krangVars PROVE SameKnown
  BY <1>2 DEF SameKnown, krangVars, keeperVars
<1>3. ASSUME UNCHANGED archerVars PROVE SameTruth
  BY <1>3 DEF SameTruth, archerVars
<1>4. CASE UNCHANGED archerVars /\ \E t \in Ticks : OnTick(t)
  BY <1>1, <1>3, <1>4, OnTickVersions
<1>5. CASE UNCHANGED archerVars /\ (OnOtherTick \/ PassTime \/ Start \/ rspQryMoneyInfo
                                     \/ rspSetOrder \/ rspQryOrders)
  <2>1. pos' = pos
    BY <1>5 DEF OnOtherTick, PassTime, Start, rspQryMoneyInfo, rspSetOrder, rspQryOrders,
                keeperVars
  <2> QED BY <2>1, <1>1, <1>3, <1>5 DEF SameKnown
<1>6. CASE UNCHANGED archerVars /\ rspQryPosInfo
  <2>0. PICK b : b = Head(rspQ).body
    OBVIOUS
  <2>1. /\ b.tid = "QryPos" /\ b.sym \in Symbols /\ rspQ # <<>>
        /\ pos'[b.sym].ver = b.ver
        /\ \A s \in Symbols \ {b.sym} : pos'[s].ver = pos[s].ver
    BY <2>0, <1>6, rspQryPosInfoVersions
  <2>2. rspQ[1].body = b /\ 1 \in DOMAIN rspQ
    BY <2>0, <2>1, PopQueue, VersionType
  <2>3. /\ pos[b.sym].ver <= b.ver /\ b.ver <= holding[b.sym].ver
        /\ pos[b.sym].ver \in Int /\ b.ver \in Int /\ holding[b.sym].ver \in Int
    <3>1. PosAnswer(1, b.sym)
      BY <2>1, <2>2 DEF PosAnswer
    <3>2. pos[b.sym].ver \in Int /\ b.ver \in Int /\ holding[b.sym].ver \in Int
      BY <2>1, <2>2, VersionType
    <3> QED BY <2>1, <2>2, <3>1, <3>2 DEF VersionsInOrder
  <2> DEFINE K == [r \in Symbols |-> pos[r].ver]
             T == [r \in Symbols |-> holding[r].ver]
  <2>4. [r \in Symbols |-> pos'[r].ver] = [K EXCEPT ![b.sym] = b.ver]
    BY <2>1
  <2>5. b.ver \in K[b.sym]..T[b.sym]
    BY <2>1, <2>3
  <2>6. [r \in Symbols |-> holding'[r].ver] = T
    BY <1>6 DEF archerVars
  <2>7. Feed!Learn
    BY <2>1, <2>4, <2>5, <2>6 DEF Feed!Learn
  <2> QED BY <2>7 DEF Feed!FeedNext
<1>7. CASE UNCHANGED archerVars /\ Crash
  <2>1. [r \in Symbols |-> pos'[r].ver] = [r \in Symbols |-> -1]
    BY <1>7 DEF Crash, NoPos
  <2>2. [r \in Symbols |-> holding'[r].ver] = [r \in Symbols |-> holding[r].ver]
    BY <1>7 DEF archerVars
  <2>3. Feed!Forget
    BY <2>1, <2>2 DEF Feed!Forget, Feed!Unknown
  <2> QED BY <2>3 DEF Feed!FeedNext
<1>8. CASE UNCHANGED krangVars /\ (qryMoneyInfo(up) \/ qryOrdersById(up) \/ qryHoldDetail(up))
  <2>1. SameTruth
    BY <1>8 DEF qryMoneyInfo, qryOrdersById, qryHoldDetail, SameTruth
  <2> QED BY <2>1, <1>1, <1>2, <1>8
<1>9. CASE UNCHANGED krangVars /\ setOrder(up)
  BY <1>2, <1>9, setOrderVersions, FeedChanges
<1>10. CASE UNCHANGED krangVars /\ FillResting
  BY <1>2, <1>10, FillRestingVersions, FeedChanges
<1>11. CASE UNCHANGED vars
  BY <1>1, <1>2, <1>3, <1>11 DEF vars
<1> QED
  BY <1>4, <1>5, <1>6, <1>7, <1>8, <1>9, <1>10, <1>11, StepCases

LEMMA InitFeeds == Init => Feed!FeedInit
<1> SUFFICES ASSUME Init PROVE Feed!FeedInit
  OBVIOUS
<1>1. [s \in Symbols |-> holding[s].ver] = [s \in Symbols |-> 0]
  <2>1. \A s \in Symbols : holding[s].ver = 0
    BY DEF Init, ArcherInit
  <2> QED BY <2>1
<1>2. [s \in Symbols |-> pos[s].ver] = [s \in Symbols |-> -1]
  BY DEF Init, KrangInit, NoPos
<1> QED BY <1>1, <1>2 DEF Feed!FeedInit, Feed!Unknown

(* The whole pipeline, with every delay, lost answer and restart, implements *)
(* the abstract feed: what krang knows of a position is a state the position *)
(* went through, and it never goes back within a run (kfc.go one partition   *)
(* per topic, archer/bows/okex.go Run, keeper.go HandlePos).                 *)
THEOREM FeedCorrect == Spec => ImplementsPositionFeed
<1>1. Init => TypeOK /\ VersionsInOrder /\ Feed!FeedInit
  BY InitType, InitVersions, InitFeeds
<1>2. TypeOK /\ VersionsInOrder /\ [Next]_vars
        => TypeOK' /\ VersionsInOrder' /\ [Feed!FeedNext]_(Feed!feedVars)
  BY NextType, NextVersions, NextFeeds
<1> QED BY <1>1, <1>2, PTL DEF Spec, ImplementsPositionFeed, Feed!FeedSpec

-----------------------------------------------------------------------------
(* Requests, replies and executed orders keep the order krang issued them   *)
(* in, for every set of contracts and every bound.                         *)

(* A package krang has issued: of an earlier run, or numbered in this one.  *)
Issued(p) == \/ p.run < run
             \/ p.run = run /\ (up => p.serial <= reqSeed)

AllIssued(q) == \A i \in DOMAIN q : Issued(q[i])

Behind(q, r) == \A i \in DOMAIN q, j \in DOMAIN r : Before(q[i], r[j])

SameStamp(p, q) == p.run = q.run /\ p.serial = q.serial

(* The inductive invariant: a request krang is about to number comes after  *)
(* everything that was ever issued.                                        *)
IssueInv == /\ InOrder(reqQ) /\ InOrder(rspQ) /\ InOrder(book)
            /\ Behind(rspQ, reqQ) /\ Behind(book, reqQ)
            /\ AllIssued(reqQ) /\ AllIssued(rspQ) /\ AllIssued(book)

-----------------------------------------------------------------------------
(* Taking the head of a queue that is in order. *)
LEMMA PopOrder ==
  ASSUME NEW S, NEW q \in Seq(S), q # <<>>, InOrder(q)
  PROVE  /\ InOrder(Tail(q))
         /\ \A i \in DOMAIN Tail(q) : Before(Head(q), Tail(q)[i])
         /\ \A i \in DOMAIN Tail(q) : i + 1 \in DOMAIN q /\ Tail(q)[i] = q[i + 1]
<1>1. /\ Head(q) = q[1] /\ 1 \in DOMAIN q
      /\ \A i \in DOMAIN Tail(q) : /\ i \in Nat \ {0} /\ i + 1 \in DOMAIN q
                                   /\ Tail(q)[i] = q[i + 1]
  BY PopQueue
<1>2. \A i \in DOMAIN Tail(q) : Before(Head(q), Tail(q)[i])
  BY <1>1 DEF InOrder
<1>3. ASSUME NEW i \in DOMAIN Tail(q), NEW j \in DOMAIN Tail(q), i < j
      PROVE  Before(Tail(q)[i], Tail(q)[j])
  <2>1. i + 1 < j + 1
    BY <1>1, <1>3
  <2> QED BY <2>1, <1>1 DEF InOrder
<1> QED BY <1>1, <1>2, <1>3 DEF InOrder

(* Publishing behind everything else in the queue keeps it in order. *)
LEMMA PushOrder ==
  ASSUME NEW S, NEW q \in Seq(S), NEW e \in S, InOrder(q),
         \A i \in DOMAIN q : Before(q[i], e)
  PROVE  /\ InOrder(Append(q, e))
         /\ \A i \in DOMAIN Append(q, e) :
              Append(q, e)[i] = e \/ (i \in DOMAIN q /\ Append(q, e)[i] = q[i])
<1> DEFINE n == Len(q)
           u == Append(q, e)
<1>1. /\ n \in Nat /\ DOMAIN q = 1..n /\ DOMAIN u = 1..n + 1
      /\ u[n + 1] = e /\ \A i \in 1..n : u[i] = q[i]
  BY PushQueue
<1> HIDE DEF u, n
<1>2. \A i \in DOMAIN u : i = n + 1 \/ i \in 1..n
  BY <1>1
<1>3. ASSUME NEW i \in DOMAIN u, NEW j \in DOMAIN u, i < j PROVE Before(u[i], u[j])
  <2>1. i \in 1..n /\ u[i] = q[i]
    BY <1>1, <1>3
  <2>2. CASE j = n + 1
    BY <2>1, <2>2, <1>1
  <2>3. CASE j \in 1..n
    BY <2>1, <2>3, <1>1, <1>3 DEF InOrder
  <2> QED BY <2>2, <2>3, <1>2
<1> QED BY <1>1, <1>2, <1>3 DEF InOrder, u

(* What the serving of the head of r makes of q, which is behind r. *)
LEMMA ServeOrder ==
  ASSUME NEW S, NEW T, NEW q \in Seq(S), NEW r \in Seq(T), r # <<>>,
         InOrder(q), InOrder(r), Behind(q, r), AllIssued(q), AllIssued(r),
         NEW u, u = q \/ \E e \in S : SameStamp(e, Head(r)) /\ u = Append(q, e)
  PROVE  InOrder(u) /\ Behind(u, Tail(r)) /\ AllIssued(u)
<1>1. /\ Head(r) = r[1] /\ 1 \in DOMAIN r
  BY PopQueue
<1>2. /\ \A i \in DOMAIN Tail(r) : Before(Head(r), Tail(r)[i])
      /\ \A i \in DOMAIN Tail(r) : i + 1 \in DOMAIN r /\ Tail(r)[i] = r[i + 1]
  BY PopOrder
<1>3. Behind(q, Tail(r))
  BY <1>2 DEF Behind
<1>4. CASE u = q
  BY <1>3, <1>4
<1>5. CASE \E e \in S : SameStamp(e, Head(r)) /\ u = Append(q, e)
  <2>1. PICK e \in S : SameStamp(e, Head(r)) /\ u = Append(q, e)
    BY <1>5
  <2>2. \A i \in DOMAIN q : Before(q[i], e)
    BY <1>1, <2>1 DEF Behind, Before, SameStamp
  <2>3. /\ InOrder(u)
        /\ \A i \in DOMAIN u : u[i] = e \/ (i \in DOMAIN q /\ u[i] = q[i])
    BY <2>1, <2>2, PushOrder
  <2>4. \A i \in DOMAIN Tail(r) : Before(e, Tail(r)[i])
    BY <1>2, <2>1 DEF Before, SameStamp
  <2>5. Issued(e)
    BY <1>1, <2>1 DEF AllIssued, Issued, SameStamp
  <2> QED BY <2>3, <2>4, <2>5, <1>3 DEF Behind, AllIssued
<1> QED BY <1>4, <1>5

-----------------------------------------------------------------------------
(* Archer serves a request: reply and order carry the request's stamp. *)
LEMMA OrderServe ==
  ASSUME TypeOK, IssueInv, UNCHANGED krangVars, reqQ # <<>>, reqQ' = Tail(reqQ),
         \/ rspQ' = rspQ
         \/ \E e \in Package(RspBody) : SameStamp(e, Head(reqQ)) /\ rspQ' = Append(rspQ, e),
         \/ book' = book
         \/ \E e \in BookEntry : SameStamp(e, Head(reqQ)) /\ book' = Append(book, e)
  PROVE  IssueInv'
<1>1. reqQ \in Seq(Package(ReqBody)) /\ rspQ \in Seq(Package(RspBody)) /\ book \in Seq(BookEntry)
  BY DEF TypeOK
<1>2. InOrder(rspQ') /\ Behind(rspQ', Tail(reqQ)) /\ AllIssued(rspQ')
  BY <1>1, ServeOrder DEF IssueInv
<1>3. InOrder(book') /\ Behind(book', Tail(reqQ)) /\ AllIssued(book')
  BY <1>1, ServeOrder DEF IssueInv
<1>4. InOrder(Tail(reqQ)) /\ AllIssued(Tail(reqQ))
  BY <1>1, PopOrder DEF IssueInv, AllIssued
<1>5. run' = run /\ up' = up /\ reqSeed' = reqSeed
  BY DEF krangVars
<1> QED BY <1>2, <1>3, <1>4, <1>5 DEF IssueInv, InOrder, Behind, AllIssued, Issued

(* krang numbers n requests from b on, in this run or as a new one. *)
Numbers(n, b) ==
  /\ up' /\ reqSeed' = b + n
  /\ \/ up /\ run' = run /\ b = reqSeed
     \/ run' = run + 1 /\ b = 0
  /\ Len(reqQ') = Len(reqQ) + n
  /\ \A i \in 1..Len(reqQ) : reqQ'[i] = reqQ[i]
  /\ \A i \in 1..n : /\ reqQ'[Len(reqQ) + i].run = run'
                     /\ reqQ'[Len(reqQ) + i].serial = b + i

(* A package that has been issued once the step is done. *)
StillIssued(p) == \/ p.run < run'
                  \/ p.run = run' /\ (up' => p.serial <= reqSeed')

(* What was issued is before what is numbered now, and remains issued. *)
LEMMA NumberedLater ==
  ASSUME TypeOK, NEW n \in Nat, NEW b \in Nat, Numbers(n, b),
         NEW p, p.run \in Nat, p.serial \in Nat, Issued(p)
  PROVE  /\ StillIssued(p)
         /\ \A i \in 1..n : Before(p, reqQ'[Len(reqQ) + i])
<1>1. run \in Nat /\ reqSeed \in Nat
  BY DEF TypeOK
<1>2. up' /\ reqSeed' = b + n /\ ((up /\ run' = run /\ b = reqSeed) \/ (run' = run + 1 /\ b = 0))
  BY DEF Numbers
<1>3. p.run < run \/ (p.run = run /\ (up => p.serial <= reqSeed))
  BY DEF Issued
<1>4. p.run < run' \/ (p.run = run' /\ p.serial <= b)
  BY <1>1, <1>2, <1>3
<1>5. StillIssued(p)
  <2>1. p.run < run' \/ (p.run = run' /\ p.serial <= reqSeed')
    BY <1>2, <1>4
  <2> QED BY <2>1 DEF StillIssued
<1>6. ASSUME NEW i \in 1..n PROVE Before(p, reqQ'[Len(reqQ) + i])
  <2>1. reqQ'[Len(reqQ) + i].run = run' /\ reqQ'[Len(reqQ) + i].serial = b + i
    BY DEF Numbers
  <2>2. p.run < run' \/ (p.run = run' /\ p.serial < b + i)
    BY <1>4
  <2> QED BY <2>1, <2>2 DEF Before
<1> QED BY <1>5, <1>6

(* krang sends, having taken a reply off its topic or not. *)
LEMMA OrderSend ==
  ASSUME TypeOK, TypeOK', IssueInv, NEW n \in Nat, NEW b \in Nat, Numbers(n, b),
         book' = book, rspQ' = rspQ \/ (rspQ # <<>> /\ rspQ' = Tail(rspQ))
  PROVE  IssueInv'
<1> DEFINE k == Len(reqQ)
<1>1. /\ reqQ \in Seq(Package(ReqBody)) /\ k \in Nat /\ DOMAIN reqQ = 1..k
      /\ reqQ' \in Seq(Package(ReqBody)) /\ DOMAIN reqQ' = 1..k + n
      /\ rspQ \in Seq(Package(RspBody)) /\ book \in Seq(BookEntry)
  BY LenProperties DEF TypeOK, Numbers
<1>2. /\ \A i \in DOMAIN reqQ : reqQ[i].run \in Nat /\ reqQ[i].serial \in Nat
      /\ \A i \in DOMAIN rspQ : rspQ[i].run \in Nat /\ rspQ[i].serial \in Nat
      /\ \A i \in DOMAIN book : book[i].run \in Nat /\ book[i].serial \in Nat
  <2>1. /\ \A i \in DOMAIN reqQ : reqQ[i] \in Package(ReqBody)
        /\ \A i \in DOMAIN rspQ : rspQ[i] \in Package(RspBody)
        /\ \A i \in DOMAIN book : book[i] \in BookEntry
    BY <1>1, ElementOfSeq, LenProperties
  <2> QED BY <2>1 DEF Package, BookEntry
<1>3. \A i \in 1..k : reqQ'[i] = reqQ[i]
  BY DEF Numbers
<1>4. \A j \in 1..k + n : j \in 1..k \/ \E i \in 1..n : j = k + i
  <2> TAKE j \in 1..k + n
  <2>1. CASE j <= k
    BY <2>1, <1>1
  <2>2. CASE ~(j <= k)
    <3>1. j - k \in 1..n /\ j = k + (j - k)
      BY <2>2, <1>1
    <3> QED BY <3>1
  <2> QED BY <2>1, <2>2
<1>5. /\ \A i \in DOMAIN reqQ :
           StillIssued(reqQ[i]) /\ \A j \in 1..n : Before(reqQ[i], reqQ'[k + j])
      /\ \A i \in DOMAIN rspQ :
           StillIssued(rspQ[i]) /\ \A j \in 1..n : Before(rspQ[i], reqQ'[k + j])
      /\ \A i \in DOMAIN book :
           StillIssued(book[i]) /\ \A j \in 1..n : Before(book[i], reqQ'[k + j])
  BY <1>2, NumberedLater DEF IssueInv, AllIssued
<1>6. \A i \in 1..n : StillIssued(reqQ'[k + i])
  <2> TAKE i \in 1..n
  <2>1. reqQ'[k + i].run = run' /\ reqQ'[k + i].serial = b + i /\ reqSeed' = b + n
    BY DEF Numbers
  <2>2. b + i <= b + n
    OBVIOUS
  <2> QED BY <2>1, <2>2 DEF StillIssued
<1>7. AllIssued(reqQ)' /\ AllIssued(book)'
  <2>1. \A j \in DOMAIN reqQ' : StillIssued(reqQ'[j])
    BY <1>1, <1>3, <1>4, <1>5, <1>6
  <2> QED BY <2>1, <1>5 DEF AllIssued, Issued, StillIssued
<1>8. InOrder(reqQ)'
  <2> SUFFICES ASSUME NEW i \in 1..k + n, NEW j \in 1..k + n, i < j
               PROVE  Before(reqQ'[i], reqQ'[j])
    BY <1>1 DEF InOrder
  <2>1. CASE j \in 1..k
    <3>1. i \in 1..k
      BY <2>1, <1>1
    <3> QED BY <3>1, <2>1, <1>1, <1>3 DEF IssueInv, InOrder
  <2>2. CASE i \in 1..k /\ \E m \in 1..n : j = k + m
    BY <2>2, <1>1, <1>3, <1>5
  <2>3. ASSUME NEW l \in 1..n, NEW m \in 1..n, i = k + l, j = k + m
        PROVE  Before(reqQ'[i], reqQ'[j])
    <3>1. l < m /\ b + l < b + m
      BY <2>3, <1>1
    <3>2. /\ reqQ'[i].run = run' /\ reqQ'[i].serial = b + l
          /\ reqQ'[j].run = run' /\ reqQ'[j].serial = b + m
      BY <2>3 DEF Numbers
    <3> QED BY <3>1, <3>2 DEF Before
  <2> QED BY <2>1, <2>2, <2>3, <1>4
<1>9. Behind(book, reqQ)' /\ InOrder(book)'
  <2>1. \A i \in DOMAIN book, j \in 1..k + n : Before(book[i], reqQ'[j])
    BY <1>1, <1>3, <1>4, <1>5 DEF IssueInv, Behind
  <2> QED BY <2>1, <1>1 DEF IssueInv, Behind, InOrder
<1>10. \A i \in DOMAIN rspQ, j \in 1..k + n : Before(rspQ[i], reqQ'[j])
  BY <1>1, <1>3, <1>4, <1>5 DEF IssueInv, Behind
<1>11. InOrder(rspQ') /\ \A i \in DOMAIN rspQ' : \E j \in DOMAIN rspQ : rspQ'[i] = rspQ[j]
  <2>1. CASE rspQ' = rspQ
    BY <2>1 DEF IssueInv
  <2>2. CASE rspQ # <<>> /\ rspQ' = Tail(rspQ)
    BY <2>2, <1>1, PopOrder DEF IssueInv
  <2> QED BY <2>1, <2>2
<1>12. (InOrder(rspQ) /\ Behind(rspQ, reqQ) /\ AllIssued(rspQ))'
  <2>1. \A i \in DOMAIN rspQ' : StillIssued(rspQ'[i])
    BY <1>5, <1>11
  <2>2. \A i \in DOMAIN rspQ', j \in DOMAIN reqQ' : Before(rspQ'[i], reqQ'[j])
    BY <1>1, <1>10, <1>11
  <2> QED BY <2>1, <2>2, <1>11 DEF AllIssued, Issued, StillIssued, Behind, InOrder
<1> QED BY <1>7, <1>8, <1>9, <1>12 DEF IssueInv

(* What is at the end of a queue after n packages were put there. *)
LEMMA ConcatAt ==
  ASSUME NEW S, NEW q \in Seq(S), NEW n \in Nat, NEW P \in [1..n -> S]
  PROVE  /\ Len(q \o P) = Len(q) + n
         /\ \A i \in 1..Len(q) : (q \o P)[i] = q[i]
         /\ \A i \in 1..n : (q \o P)[Len(q) + i] = P[i]
<1>1. P \in Seq(S) /\ Len(P) = n /\ Len(q) \in Nat
  BY FunctionIsSeq, LenProperties
<1>2. /\ Len(q \o P) = Len(q) + Len(P)
      /\ \A i \in 1 .. Len(q) + Len(P) :
           (q \o P)[i] = IF i <= Len(q) THEN q[i] ELSE P[i - Len(q)]
  BY <1>1, ConcatProperties
<1>3. ASSUME NEW i \in 1..n PROVE (q \o P)[Len(q) + i] = P[i]
  <2>1. Len(q) + i \in 1 .. Len(q) + Len(P) /\ ~(Len(q) + i <= Len(q))
        /\ (Len(q) + i) - Len(q) = i
    BY <1>1
  <2> QED BY <2>1, <1>2
<1> QED BY <1>1, <1>2, <1>3

LEMMA SendNumbers ==
  ASSUME TypeOK, up, up' = up, run' = run, NEW bodies \in Seq(ReqBody), Send(bodies)
  PROVE  Len(bodies) \in Nat /\ Numbers(Len(bodies), reqSeed)
<1> DEFINE n == Len(bodies)
           P == [i \in 1..n |-> [run |-> run, serial |-> reqSeed + i, body |-> bodies[i]]]
<1>1. n \in Nat /\ \A i \in 1..n : bodies[i] \in ReqBody
  BY ElementOfSeq, LenProperties
<1>2. P \in [1..n -> Package(ReqBody)] /\ reqQ \in Seq(Package(ReqBody))
  BY <1>1 DEF Package, TypeOK
<1>3. reqQ' = reqQ \o P /\ reqSeed' = reqSeed + n
  BY DEF Send, Packages
<1>4. \A i \in 1..n : P[i].run = run /\ P[i].serial = reqSeed + i
  OBVIOUS
<1> HIDE DEF P
<1>5. /\ Len(reqQ \o P) = Len(reqQ) + n
      /\ \A i \in 1..Len(reqQ) : (reqQ \o P)[i] = reqQ[i]
      /\ \A i \in 1..n : (reqQ \o P)[Len(reqQ) + i] = P[i]
  BY <1>1, <1>2, ConcatAt
<1>6. /\ Len(reqQ') = Len(reqQ) + n
      /\ \A i \in 1..Len(reqQ) : reqQ'[i] = reqQ[i]
      /\ \A i \in 1..n : reqQ'[Len(reqQ) + i].run = run'
                         /\ reqQ'[Len(reqQ) + i].serial = reqSeed + i
  BY <1>3, <1>4, <1>5
<1> QED BY <1>1, <1>3, <1>6 DEF Numbers

LEMMA StartNumbers ==
  ASSUME TypeOK, Start
  PROVE  Len(queryAllPos) \in Nat /\ Numbers(Len(queryAllPos), 0)
<1> DEFINE n == Len(queryAllPos)
           P == [i \in 1..n |-> [run |-> run + 1, serial |-> i, body |-> queryAllPos[i]]]
<1>1. n \in Nat /\ \A i \in 1..n : queryAllPos[i] \in ReqBody
  BY QueryAllPosType, ElementOfSeq, LenProperties
<1>2. P \in [1..n -> Package(ReqBody)] /\ reqQ \in Seq(Package(ReqBody))
  BY <1>1 DEF Package, TypeOK
<1>3. reqQ' = reqQ \o P /\ reqSeed' = 0 + n /\ up' = TRUE /\ run' = run + 1
  BY <1>1 DEF Start
<1>4. \A i \in 1..n : P[i].run = run + 1 /\ P[i].serial = 0 + i
  OBVIOUS
<1> HIDE DEF P
<1>5. /\ Len(reqQ \o P) = Len(reqQ) + n
      /\ \A i \in 1..Len(reqQ) : (reqQ \o P)[i] = reqQ[i]
      /\ \A i \in 1..n : (reqQ \o P)[Len(reqQ) + i] = P[i]
  BY <1>1, <1>2, ConcatAt
<1>6. /\ Len(reqQ') = Len(reqQ) + n
      /\ \A i \in 1..Len(reqQ) : reqQ'[i] = reqQ[i]
      /\ \A i \in 1..n : reqQ'[Len(reqQ) + i].run = run'
                         /\ reqQ'[Len(reqQ) + i].serial = 0 + i
  BY <1>3, <1>4, <1>5
<1> QED BY <1>1, <1>3, <1>6 DEF Numbers

(* krang takes a reply and sends nothing. *)
LEMMA OrderReceive ==
  ASSUME TypeOK, IssueInv, NEW tid, Receive(tid), reqSeed' = reqSeed, reqQ' = reqQ,
         book' = book
  PROVE  IssueInv'
<1>1. rspQ \in Seq(Package(RspBody)) /\ rspQ # <<>> /\ rspQ' = Tail(rspQ)
      /\ run' = run /\ up' = up
  BY DEF Receive, TypeOK
<1>2. InOrder(Tail(rspQ)) /\ \A i \in DOMAIN Tail(rspQ) : \E j \in DOMAIN rspQ : Tail(rspQ)[i] = rspQ[j]
  BY <1>1, PopOrder DEF IssueInv
<1>3. Behind(Tail(rspQ), reqQ) /\ AllIssued(Tail(rspQ))
  BY <1>2 DEF IssueInv, Behind, AllIssued
<1> QED BY <1>1, <1>2, <1>3 DEF IssueInv, InOrder, Behind, AllIssued, Issued

(* A krang that is gone numbers nothing until it starts as a new run. *)
LEMMA OrderCrash ==
  ASSUME TypeOK, IssueInv, Crash, book' = book
  PROVE  IssueInv'
<1>1. up' = FALSE /\ run' = run /\ reqQ' = reqQ /\ rspQ' = <<>>
  BY DEF Crash
<1>2. DOMAIN rspQ' = {}
  BY <1>1
<1> QED BY <1>1, <1>2 DEF IssueInv, InOrder, Behind, AllIssued, Issued

(* An order that rested keeps its stamp when it is filled. *)
LEMMA OrderFill ==
  ASSUME TypeOK, IssueInv, FillResting, UNCHANGED krangVars
  PROVE  IssueInv'
<1>1. PICK id \in DOMAIN book : /\ book' = [book EXCEPT ![id].filled = TRUE]
                                /\ UNCHANGED queueVars
  BY DEF FillResting
<1>2. book \in Seq(BookEntry) /\ DOMAIN book' = DOMAIN book
  BY <1>1 DEF TypeOK
<1>3. \A i \in DOMAIN book : book[i] \in BookEntry
  BY <1>2, ElementOfSeq, LenProperties
<1>4. \A i \in DOMAIN book : SameStamp(book'[i], book[i])
  <2> TAKE i \in DOMAIN book
  <2>1. CASE i = id
    <3>1. book'[i] = [book[i] EXCEPT !.filled = TRUE]
      BY <1>1, <2>1
    <3> QED BY <3>1, <1>3 DEF SameStamp, BookEntry
  <2>2. CASE i # id
    BY <1>1, <2>2 DEF SameStamp
  <2> QED BY <2>1, <2>2
<1>5. InOrder(book') /\ Behind(book', reqQ) /\ AllIssued(book')
  BY <1>2, <1>4 DEF IssueInv, InOrder, Behind, AllIssued, Issued, Before, SameStamp
<1> QED BY <1>1, <1>5 DEF IssueInv, InOrder, Behind, AllIssued, Issued, queueVars, krangVars

-----------------------------------------------------------------------------
(* A reply carries the stamp of the request that is served. *)
LEMMA AnswerStamped ==
  ASSUME TypeOK, Head(reqQ) \in Package(ReqBody), NEW body \in RspBody, NEW listening,
         NEW tid, Answer(body, listening) \/ NoAnswer(tid)
  PROVE  \/ rspQ' = rspQ
         \/ \E e \in Package(RspBody) : SameStamp(e, Head(reqQ)) /\ rspQ' = Append(rspQ, e)
<1>1. /\ Reply(Head(reqQ), body) \in Package(RspBody)
      /\ SameStamp(Reply(Head(reqQ), body), Head(reqQ))
  BY DEF Reply, Package, SameStamp
<1>2. rspQ' = rspQ \/ rspQ' = Append(rspQ, Reply(Head(reqQ), body))
  BY DEF Answer, NoAnswer
<1> QED BY <1>1, <1>2

LEMMA qryMoneyInfoOrder ==
  ASSUME TypeOK, IssueInv, qryMoneyInfo(up), UNCHANGED krangVars
  PROVE  IssueInv'
<1>1. Take("QryMoney") /\ book' = book
      /\ (Answer([tid |-> "QryMoney"], up) \/ NoAnswer("QryMoney"))
  BY DEF qryMoneyInfo
<1>2. [tid |-> "QryMoney"] \in RspBody
  BY DEF RspBody, RspQryMoney
<1>3. \/ rspQ' = rspQ
      \/ \E e \in Package(RspBody) : SameStamp(e, Head(reqQ)) /\ rspQ' = Append(rspQ, e)
  BY <1>1, <1>2, TakeType, AnswerStamped
<1> QED BY <1>1, <1>3, OrderServe DEF Take

LEMMA qryHoldDetailOrder ==
  ASSUME TypeOK, IssueInv, qryHoldDetail(up), UNCHANGED krangVars
  PROVE  IssueInv'
<1> DEFINE s == Head(reqQ).body.sym
           b == [tid |-> "QryPos", sym |-> s, avai |-> holding[s].avai,
                 ver |-> holding[s].ver]
<1>1. Take("QryPos") /\ book' = book /\ (Answer(b, up) \/ NoAnswer("QryPos"))
  BY DEF qryHoldDetail
<1>2. s \in Symbols
  BY <1>1, TakeType, BodyOfKind
<1>3. b \in RspBody
  BY <1>2 DEF TypeOK, Holding, RspBody, RspQryPos
<1> HIDE DEF b, s
<1>4. \/ rspQ' = rspQ
      \/ \E e \in Package(RspBody) : SameStamp(e, Head(reqQ)) /\ rspQ' = Append(rspQ, e)
  BY <1>1, <1>3, TakeType, AnswerStamped
<1> QED BY <1>1, <1>4, OrderServe DEF Take

LEMMA setOrderOrder ==
  ASSUME TypeOK, IssueInv, setOrder(up), UNCHANGED krangVars
  PROVE  IssueInv'
<1> DEFINE req == Head(reqQ)
           o   == req.body
<1>1. Take("SetOrder")
  BY DEF setOrder
<1>2. req \in Package(ReqBody) /\ o \in ReqBody /\ o.tid = "SetOrder"
  BY <1>1, TakeType
<1>3. /\ o.sym \in Symbols /\ o.side \in Sides /\ o.open \in BOOLEAN /\ o.vol \in Nat
      /\ req.run \in Nat /\ req.serial \in Nat
  BY <1>2, BodyOfKind DEF Package
<1>4. PICK v \in Verdicts(o) :
        /\ book' = IF v.accepted
                   THEN Append(book, [run |-> req.run, serial |-> req.serial,
                                      sym |-> o.sym, side |-> o.side, open |-> o.open,
                                      vol |-> o.vol, filled |-> v.filled])
                   ELSE book
        /\ \/ Answer([tid |-> "SetOrder", sym |-> o.sym, ok |-> v.accepted,
                       id |-> IF v.accepted THEN Len(book) + 1 ELSE 0], up)
           \/ NoAnswer("SetOrder")
  BY DEF setOrder
<1>5. v.accepted \in BOOLEAN /\ v.filled \in BOOLEAN
  BY <1>2, VerdictType
<1>6. Len(book) \in Nat
  BY LenProperties DEF TypeOK
<1> DEFINE b == [tid |-> "SetOrder", sym |-> o.sym, ok |-> v.accepted,
                 id |-> IF v.accepted THEN Len(book) + 1 ELSE 0]
           e == [run |-> req.run, serial |-> req.serial,
                 sym |-> o.sym, side |-> o.side, open |-> o.open,
                 vol |-> o.vol, filled |-> v.filled]
<1>7. b \in RspBody
  BY <1>3, <1>5, <1>6 DEF RspBody, RspSetOrder
<1>8. e \in BookEntry /\ SameStamp(e, req)
  BY <1>3, <1>5 DEF BookEntry, SameStamp
<1>9. book' = book \/ book' = Append(book, e)
  BY <1>4
<1> HIDE DEF b, e, o
<1>10. \/ rspQ' = rspQ
       \/ \E r \in Package(RspBody) : SameStamp(r, Head(reqQ)) /\ rspQ' = Append(rspQ, r)
  BY <1>2, <1>4, <1>7, AnswerStamped DEF b
<1>11. \/ book' = book
       \/ \E r \in BookEntry : SameStamp(r, Head(reqQ)) /\ book' = Append(book, r)
  BY <1>8, <1>9
<1> HIDE DEF req
<1> QED BY <1>1, <1>10, <1>11, OrderServe DEF Take

LEMMA qryOrdersByIdOrder ==
  ASSUME TypeOK, IssueInv, qryOrdersById(up), UNCHANGED krangVars
  PROVE  IssueInv'
<1> DEFINE id == Head(reqQ).body.id
           b  == [tid |-> "QryOrders", id |-> id, undone |-> ~book[id].filled]
<1>1. Take("QryOrders") /\ book' = book /\ (Answer(b, up) \/ NoAnswer("QryOrders"))
  BY DEF qryOrdersById
<1>2. id \in Nat
  BY <1>1, TakeType, BodyOfKind
<1>3. b \in RspBody
  BY <1>2 DEF RspBody, RspQryOrder
<1> HIDE DEF b, id
<1>4. \/ rspQ' = rspQ
      \/ \E e \in Package(RspBody) : SameStamp(e, Head(reqQ)) /\ rspQ' = Append(rspQ, e)
  BY <1>1, <1>3, TakeType, AnswerStamped
<1> QED BY <1>1, <1>4, OrderServe DEF Take

-----------------------------------------------------------------------------
(* The answer to an order makes krang send, off the reply it took. *)
LEMMA rspSetOrderOrder ==
  ASSUME TypeOK, TypeOK', IssueInv, rspSetOrder, UNCHANGED archerVars
  PROVE  IssueInv'
<1> DEFINE b == Head(rspQ).body
           bodies == <<[tid |-> "QryMoney"], [tid |-> "QryPos", sym |-> b.sym]>>
                     \o IF b.ok THEN <<[tid |-> "QryOrders", id |-> b.id]>> ELSE <<>>
<1>1. Receive("SetOrder") /\ Send(bodies)
  BY DEF rspSetOrder
<1>2. /\ b \in RspBody /\ b.tid = "SetOrder" /\ up /\ up' = up /\ run' = run
      /\ rspQ # <<>> /\ rspQ' = Tail(rspQ) /\ book' = book
  BY <1>1, ReceiveType DEF Receive, archerVars
<1>3. bodies \in Seq(ReqBody)
  BY <1>2, FollowUp
<1> HIDE DEF bodies, b
<1>4. Len(bodies) \in Nat /\ Numbers(Len(bodies), reqSeed)
  BY <1>1, <1>2, <1>3, SendNumbers
<1>5. reqSeed \in Nat
  BY DEF TypeOK
<1> QED BY <1>2, <1>4, <1>5, OrderSend

(* A tick only sends. *)
LEMMA TickOrder ==
  ASSUME TypeOK, TypeOK', IssueInv, UNCHANGED archerVars,
         (\E t \in Ticks : OnTick(t)) \/ OnOtherTick
  PROVE  IssueInv'
<1>1. up /\ up' = up /\ run' = run /\ rspQ' = rspQ /\ book' = book /\ reqSeed \in Nat
  BY DEF OnTick, OnOtherTick, archerVars, TypeOK
<1>2. \E bodies \in Seq(ReqBody) : Send(bodies)
  BY OnTickSends, CheckQueriesType DEF OnOtherTick
<1>3. PICK bodies \in Seq(ReqBody) : Send(bodies)
  BY <1>2
<1>4. Len(bodies) \in Nat /\ Numbers(Len(bodies), reqSeed)
  BY <1>1, <1>3, SendNumbers
<1> QED BY <1>1, <1>4, OrderSend

LEMMA InitIssued == Init => IssueInv
<1> SUFFICES ASSUME Init PROVE IssueInv
  OBVIOUS
<1>1. reqQ = <<>> /\ rspQ = <<>> /\ book = <<>>
  BY DEF Init, ArcherInit
<1> QED BY <1>1 DEF IssueInv, InOrder, Behind, AllIssued

LEMMA NextIssued == TypeOK /\ TypeOK' /\ IssueInv /\ [Next]_vars => IssueInv'
<1> SUFFICES ASSUME TypeOK, TypeOK', IssueInv, [Next]_vars PROVE IssueInv'
  OBVIOUS
<1> DEFINE Aside == UNCHANGED archerVars
<1>1. CASE Aside /\ ((\E t \in Ticks : OnTick(t)) \/ OnOtherTick)
  BY <1>1, TickOrder
<1>2. CASE Aside /\ rspQryMoneyInfo
  BY <1>2, OrderReceive DEF rspQryMoneyInfo, archerVars
<1>3. CASE Aside /\ rspQryPosInfo
  BY <1>3, OrderReceive DEF rspQryPosInfo, archerVars
<1>4. CASE Aside /\ rspSetOrder
  BY <1>4, rspSetOrderOrder
<1>5. CASE Aside /\ rspQryOrders
  BY <1>5, OrderReceive DEF rspQryOrders, archerVars
<1>6. ASSUME UNCHANGED <<run, up, reqSeed, reqQ, rspQ, book>> PROVE IssueInv'
  BY <1>6 DEF IssueInv, InOrder, Behind, AllIssued, Issued
<1>7. CASE Aside /\ PassTime
  BY <1>6, <1>7 DEF PassTime, archerVars, queueVars
<1>8. CASE Aside /\ Start
  <2>1. Len(queryAllPos) \in Nat /\ Numbers(Len(queryAllPos), 0)
    BY <1>8, StartNumbers
  <2>2. rspQ' = rspQ /\ book' = book
    BY <1>8 DEF Start, archerVars
  <2> QED BY <2>1, <2>2, OrderSend
<1>9. CASE Aside /\ Crash
  BY <1>9, OrderCrash DEF archerVars
<1>10. CASE UNCHANGED krangVars /\ qryMoneyInfo(up)
  BY <1>10, qryMoneyInfoOrder
<1>11. CASE UNCHANGED krangVars /\ qryHoldDetail(up)
  BY <1>11, qryHoldDetailOrder
<1>12. CASE UNCHANGED krangVars /\ setOrder(up)
  BY <1>12, setOrderOrder
<1>13. CASE UNCHANGED krangVars /\ qryOrdersById(up)
  BY <1>13, qryOrdersByIdOrder
<1>14. CASE UNCHANGED krangVars /\ FillResting
  BY <1>14, OrderFill
<1>15. CASE UNCHANGED vars
  BY <1>6, <1>15 DEF vars, krangVars, queueVars, archerVars
<1> QED BY <1>1, <1>2, <1>3, <1>4, <1>5, <1>7, <1>8, <1>9, <1>10, <1>11, <1>12, <1>13,
           <1>14, <1>15, StepCases

(* What was ever issued is before what is issued next. *)
LEMMA IssueCorrect == Spec => []IssueInv
<1>1. Init => TypeOK /\ IssueInv
  BY InitType, InitIssued
<1>2. TypeOK /\ IssueInv /\ [Next]_vars => TypeOK' /\ IssueInv'
  BY NextType, NextIssued
<1> QED BY <1>1, <1>2, PTL DEF Spec

-----------------------------------------------------------------------------
(* Requests and replies stay in the order krang issued the requests, over    *)
(* crashes, restarts and lost answers (krang.go incReqSeed, bows.go          *)
(* StartCmdLoop).                                                           *)
THEOREM RepliesCorrect == Spec => []RepliesInIssueOrder
<1>1. IssueInv => RepliesInIssueOrder
  BY DEF IssueInv, Behind, RepliesInIssueOrder
<1> QED BY <1>1, IssueCorrect, PTL

(* The orders that took effect are strictly in the order krang issued them,  *)
(* so that none took effect twice, and all of them were issued before every  *)
(* request that is still to be taken by archer (okex.go setOrder).           *)
THEOREM OnceCorrect == Spec => []AtMostOnce
<1>1. IssueInv => AtMostOnce
  BY DEF IssueInv, Behind, AtMostOnce
<1> QED BY <1>1, IssueCorrect, PTL

-----------------------------------------------------------------------------
(* The orders of a step: what OrderDiscipline says of them. *)
Disciplined ==
  \A i \in NewOrders :
    LET o == reqQ'[i].body
    IN  /\ pos[o.sym].present => pos[o.sym].IsValid
        /\ ~pos'[o.sym].IsValid
        /\ o.open => fsm = "normal" /\ lossTimes < lossLimit
        /\ \A j \in NewOrders \ {i} : reqQ'[j].body.side # o.side

(* Where the elements of two sequences are after they were joined. *)
LEMMA TwoParts ==
  ASSUME NEW S, NEW C \in Seq(S), NEW D \in Seq(S)
  PROVE  /\ C \o D \in Seq(S)
         /\ \A i \in 1..Len(C \o D) :
              \/ i \in 1..Len(C) /\ (C \o D)[i] = C[i]
              \/ \E m \in 1..Len(D) : i = Len(C) + m /\ (C \o D)[i] = D[m]
         /\ Len(C \o D) = Len(C) + Len(D)
<1>1. Len(C) \in Nat /\ Len(D) \in Nat
  BY LenProperties
<1>2. /\ C \o D \in Seq(S) /\ Len(C \o D) = Len(C) + Len(D)
      /\ \A i \in 1 .. Len(C) + Len(D) :
           (C \o D)[i] = IF i <= Len(C) THEN C[i] ELSE D[i - Len(C)]
  BY ConcatProperties
<1>3. ASSUME NEW i \in 1..Len(C \o D), ~(i <= Len(C))
      PROVE  \E m \in 1..Len(D) : i = Len(C) + m /\ (C \o D)[i] = D[m]
  <2>1. i - Len(C) \in 1..Len(D) /\ i = Len(C) + (i - Len(C))
    BY <1>1, <1>2, <1>3
  <2>2. (C \o D)[i] = D[i - Len(C)]
    BY <1>2, <1>3
  <2> QED BY <2>1, <2>2
<1>4. \A i \in 1..Len(C \o D) : i <= Len(C) => i \in 1..Len(C) /\ (C \o D)[i] = C[i]
  BY <1>1, <1>2
<1> QED BY <1>2, <1>3, <1>4

(* At most one order for each side, and only the normal state opens. *)
LEMMA SideOrdersOne ==
  ASSUME NEW st, NEW over \in BOOLEAN, NEW avai \in Lots, NEW t \in Tick, NEW side \in Sides
  PROVE  LET d == SideOrders(st, over, avai, t, side)
         IN  /\ d \in Seq(ReqBody) /\ Len(d) \in 0..1
             /\ \A i \in 1..Len(d) : /\ d[i].side = side
                                     /\ d[i].open => st = "normal" /\ ~over
<1> DEFINE O == Order(t, side, TRUE, t.vol)
           C == Order(t, side, FALSE, avai[side])
           d == SideOrders(st, over, avai, t, side)
           opens == st = "normal" /\ ~over /\ NormalOpens(avai, t, side)
<1>1. avai[side] \in Nat /\ t.vol \in Nat /\ t.sym \in Symbols
  BY DEF Lots, Tick
<1>2. /\ O \in ReqBody /\ O.side = side /\ O.open = TRUE
      /\ C \in ReqBody /\ C.side = side /\ C.open = FALSE
  BY <1>1 DEF Order, ReqBody, ReqSetOrder
<1>3. d \in {<<>>, <<C>>} \/ (opens /\ d = <<O>>)
  BY DEF SideOrders
<1> HIDE DEF O, C, d
<1>4. CASE d = <<>>
  BY <1>4 DEF d
<1>5. CASE d = <<C>>
  BY <1>2, <1>5 DEF d
<1>6. CASE opens /\ d = <<O>>
  BY <1>2, <1>6 DEF d
<1> QED BY <1>3, <1>4, <1>5, <1>6

LEMMA DecideOrders ==
  ASSUME NEW st, NEW over \in BOOLEAN, NEW avai \in Lots, NEW t \in Tick
  PROVE  LET d == Decide(st, over, avai, t)
         IN  /\ \A i \in 1..Len(d) : d[i].open => st = "normal" /\ ~over
             /\ \A i, j \in 1..Len(d) : i # j => d[i].side # d[j].side
<1> DEFINE S(side) == SideOrders(st, over, avai, t, side)
           L == S("long")
           R == S("short")
           d == L \o R
<1>0. "long" \in Sides /\ "short" \in Sides
  BY DEF Sides
<1>8. ASSUME NEW side \in Sides
      PROVE  /\ S(side) \in Seq(ReqBody) /\ Len(S(side)) \in 0..1
             /\ \A i \in 1..Len(S(side)) : S(side)[i].side = side
             /\ \A i \in 1..Len(S(side)) : S(side)[i].open => st = "normal" /\ ~over
  BY SideOrdersOne
<1> HIDE DEF S
<1>1. /\ L \in Seq(ReqBody) /\ Len(L) \in 0..1
      /\ \A i \in 1..Len(L) : L[i].side = "long"
      /\ \A i \in 1..Len(L) : L[i].open => st = "normal" /\ ~over
  BY <1>0, <1>8
<1>2. /\ R \in Seq(ReqBody) /\ Len(R) \in 0..1
      /\ \A i \in 1..Len(R) : R[i].side = "short"
      /\ \A i \in 1..Len(R) : R[i].open => st = "normal" /\ ~over
  BY <1>0, <1>8
<1> HIDE DEF L, R
<1>3. \A i \in 1..Len(d) : \/ i \in 1..Len(L) /\ d[i] = L[i]
                           \/ \E m \in 1..Len(R) : i = Len(L) + m /\ d[i] = R[m]
  BY <1>1, <1>2, TwoParts
<1> HIDE DEF d
<1>4. \A i \in 1..Len(d) : \/ i = 1 /\ d[i].side = "long"
                           \/ i = Len(L) + 1 /\ d[i].side = "short"
  <2>1. \A m \in 1..Len(L) : m = 1
    BY <1>1
  <2>2. \A m \in 1..Len(R) : m = 1
    BY <1>2
  <2> QED BY <2>1, <2>2, <1>1, <1>2, <1>3
<1>5. \A i \in 1..Len(d) : d[i].open => st = "normal" /\ ~over
  BY <1>1, <1>2, <1>3
<1>6. \A i, j \in 1..Len(d) : i # j => d[i].side # d[j].side
  BY <1>4
<1>7. Decide(st, over, avai, t) = d
  BY DEF Decide, d, L, R, S
<1> QED BY <1>5, <1>6, <1>7

(* No query is an order. *)
LEMMA CheckQueriesAsk ==
  ASSUME TypeOK
  PROVE  \A i \in 1..Len(CheckQueries) : CheckQueries[i].tid # "SetOrder"
<1> DEFINE k == Len(queryAllPos)
           c == Cardinality(DOMAIN feedback)
<1>1. c \in Nat /\ k \in Nat \ {0}
  BY FeedbackCount, QueryAllPosType DEF TypeOK
<1>2. c * k \in Nat
  BY <1>1
<1>3. /\ DOMAIN CheckQueries = 1..c * k
      /\ \A i \in 1..c * k : CheckQueries[i] = queryAllPos[((i - 1) % k) + 1]
  BY DEF CheckQueries
<1>4. 1..Len(CheckQueries) = 1..c * k
  BY <1>3, CheckQueriesType, LenProperties
<1>5. ASSUME NEW i \in 1..c * k PROVE CheckQueries[i].tid # "SetOrder"
  <2>1. ((i - 1) % k) + 1 \in 1..k
    BY <1>1, <1>2
  <2> QED BY <2>1, <1>3, QueryAllPosType
<1> QED BY <1>4, <1>5

LEMMA EnterQueriesAsk ==
  ASSUME NEW old, NEW new
  PROVE  \A i \in 1..Len(EnterQueries(old, new)) : EnterQueries(old, new)[i].tid # "SetOrder"
<1>1. CASE EnterQueries(old, new) = queryAllPos
  BY <1>1, QueryAllPosType
<1>2. CASE EnterQueries(old, new) = <<>>
  BY <1>2
<1> QED BY <1>1, <1>2 DEF EnterQueries

(* An element of three parts joined is one of a part; where, for the second. *)
OfThree(C, D, E) ==
  \A i \in 1..Len(C \o D \o E) :
    \/ \E m \in 1..Len(C) : (C \o D \o E)[i] = C[m]
    \/ \E m \in 1..Len(D) : i = Len(C) + m /\ (C \o D \o E)[i] = D[m]
    \/ \E m \in 1..Len(E) : (C \o D \o E)[i] = E[m]

(* Where the elements of three sequences are after they were joined. *)
LEMMA ThreeParts ==
  ASSUME NEW S, NEW C \in Seq(S), NEW D \in Seq(S), NEW E \in Seq(S)
  PROVE  /\ C \o D \o E \in Seq(S)
         /\ OfThree(C, D, E)
<1>1. /\ C \o D \in Seq(S)
      /\ \A i \in 1..Len(C \o D) :
           \/ i \in 1..Len(C) /\ (C \o D)[i] = C[i]
           \/ \E m \in 1..Len(D) : i = Len(C) + m /\ (C \o D)[i] = D[m]
  BY TwoParts
<1>2. ASSUME NEW B \in Seq(S)
      PROVE  /\ B \o E \in Seq(S)
             /\ \A i \in 1..Len(B \o E) :
                  \/ i \in 1..Len(B) /\ (B \o E)[i] = B[i]
                  \/ \E m \in 1..Len(E) : (B \o E)[i] = E[m]
  BY TwoParts
<1>3. /\ C \o D \o E \in Seq(S)
      /\ \A i \in 1..Len(C \o D \o E) :
           \/ i \in 1..Len(C \o D) /\ (C \o D \o E)[i] = (C \o D)[i]
           \/ \E m \in 1..Len(E) : (C \o D \o E)[i] = E[m]
  BY <1>1, <1>2
<1> QED BY <1>1, <1>3, Zenon DEF OfThree

(* Of three parts of which only the middle one has orders, its orders are   *)
(* all there are.                                                           *)
LEMMA OrdersInTheMiddle ==
  ASSUME NEW C \in Seq(ReqBody), NEW D \in Seq(ReqBody), NEW E \in Seq(ReqBody),
         \A m \in 1..Len(C) : C[m].tid # "SetOrder",
         \A m \in 1..Len(E) : E[m].tid # "SetOrder",
         NEW i \in 1..Len(C \o D \o E), (C \o D \o E)[i].tid = "SetOrder"
  PROVE  \E m \in 1..Len(D) : i = Len(C) + m /\ (C \o D \o E)[i] = D[m]
<1>1. OfThree(C, D, E)
  BY ThreeParts
<1> DEFINE b == (C \o D \o E)[i]
<1>0. \/ \E m \in 1..Len(C) : b = C[m]
      \/ \E m \in 1..Len(D) : i = Len(C) + m /\ b = D[m]
      \/ \E m \in 1..Len(E) : b = E[m]
  BY <1>1, Zenon DEF OfThree
<1>2. b.tid = "SetOrder"
  OBVIOUS
<1> HIDE DEF b
<1>3. (~\E m \in 1..Len(C) : b = C[m]) /\ (~\E m \in 1..Len(E) : b = E[m])
  BY <1>2, Zenon
<1>4. \E m \in 1..Len(D) : i = Len(C) + m /\ b = D[m]
  BY <1>0, <1>3, Zenon
<1> QED BY <1>4, Zenon DEF b

(* The new orders are among the bodies sent in the step. *)
LEMMA NewOrdersSent ==
  ASSUME TypeOK, NEW bodies \in Seq(ReqBody), Send(bodies), NEW i \in NewOrders
  PROVE  \E m \in 1..Len(bodies) : /\ i = Len(reqQ) + m
                                   /\ reqQ'[i].body = bodies[m]
                                   /\ bodies[m].tid = "SetOrder"
<1>1. /\ Len(reqQ') = Len(reqQ) + Len(bodies) /\ Len(reqQ) \in Nat /\ Len(bodies) \in Nat
      /\ \A j \in 1..Len(bodies) : reqQ'[Len(reqQ) + j].body = bodies[j]
  BY SendAppends, LenProperties DEF TypeOK
<1>2. i \in Len(reqQ) + 1 .. Len(reqQ) + Len(bodies) /\ reqQ'[i].body.tid = "SetOrder"
  BY <1>1 DEF NewOrders
<1>3. i - Len(reqQ) \in 1..Len(bodies) /\ i = Len(reqQ) + (i - Len(reqQ))
  BY <1>1, <1>2
<1>4. reqQ'[i].body = bodies[i - Len(reqQ)]
  BY <1>1, <1>3
<1> QED BY <1>2, <1>3, <1>4

(* A tick sends the orders Decide makes, on a valid position it disables. *)
LEMMA OnTickDisciplined ==
  ASSUME TypeOK, NEW t \in Ticks, OnTick(t)
  PROVE  Disciplined
<1> DEFINE p      == GetPos(t.sym)
           orders == IF p.IsValid THEN Decide(fsm, IsOverLossLimit, p.avai, t) ELSE <<>>
           enter  == EnterQueries(fsm, NextState(fsm, IsOverLossLimit, since, t))
           bodies == CheckQueries \o orders \o enter
<1>1. t \in Tick /\ t.sym \in Symbols
  BY KrangAssumption DEF Tick
<1>2. p \in Pos /\ p.avai \in Lots /\ (pos[t.sym].present => p = pos[t.sym])
  BY <1>1, PosType DEF Pos, GetPos
<1>3. lossTimes \in Int /\ lossLimit \in Int /\ IsOverLossLimit \in BOOLEAN
  BY DEF TypeOK, IsOverLossLimit
<1>4. ~IsOverLossLimit => lossTimes < lossLimit
  BY <1>3 DEF IsOverLossLimit
<1>5. /\ orders \in Seq(ReqBody)
      /\ \A i \in 1..Len(orders) : orders[i].sym = t.sym
      /\ \A i \in 1..Len(orders) : orders[i].open => fsm = "normal" /\ ~IsOverLossLimit
      /\ \A i, j \in 1..Len(orders) : i # j => orders[i].side # orders[j].side
      /\ orders # <<>> => p.IsValid
  <2>1. CASE p.IsValid
    BY <2>1, <1>1, <1>2, <1>3, DecideType, DecideOrders
  <2>2. CASE ~p.IsValid
    BY <2>2
  <2> QED BY <2>1, <2>2
<1>6. /\ enter \in Seq(ReqBody) /\ CheckQueries \in Seq(ReqBody)
      /\ \A i \in 1..Len(enter) : enter[i].tid # "SetOrder"
      /\ \A i \in 1..Len(CheckQueries) : CheckQueries[i].tid # "SetOrder"
  BY EnterQueriesType, CheckQueriesType, EnterQueriesAsk, CheckQueriesAsk
<1>7. Send(bodies)
  BY DEF OnTick
<1>8. pos' = [pos EXCEPT ![t.sym] = [p EXCEPT !.IsValid = p.IsValid /\ orders = <<>>]]
  BY DEF OnTick
<1>9. orders # <<>> => ~pos'[t.sym].IsValid
  <2>1. pos'[t.sym].IsValid = (p.IsValid /\ orders = <<>>)
    BY <1>1, <1>2, <1>8 DEF TypeOK, Pos
  <2> QED BY <2>1, Zenon
<1> HIDE DEF orders, enter, p
<1>10. bodies \in Seq(ReqBody)
  BY <1>5, <1>6, ThreeParts
<1>11. \A i \in 1..Len(bodies) :
         bodies[i].tid = "SetOrder" =>
           \E m \in 1..Len(orders) : i = Len(CheckQueries) + m /\ bodies[i] = orders[m]
  BY <1>5, <1>6, OrdersInTheMiddle, Zenon
<1> HIDE DEF bodies
<1>12. ASSUME NEW i \in NewOrders
       PROVE  \E m \in 1..Len(orders) : /\ i = Len(reqQ) + Len(CheckQueries) + m
                                        /\ reqQ'[i].body = orders[m]
  <2>1. PICK l \in 1..Len(bodies) : /\ i = Len(reqQ) + l /\ reqQ'[i].body = bodies[l]
                                    /\ bodies[l].tid = "SetOrder"
    BY <1>7, <1>10, NewOrdersSent
  <2>2. PICK m \in 1..Len(orders) : l = Len(CheckQueries) + m /\ bodies[l] = orders[m]
    BY <2>1, <1>11
  <2>3. Len(reqQ) \in Int /\ Len(CheckQueries) \in Int /\ m \in Int
    BY <1>6, LenProperties DEF TypeOK
  <2>4. i = Len(reqQ) + Len(CheckQueries) + m
    BY <2>1, <2>2, <2>3
  <2> QED BY <2>1, <2>2, <2>4
<1> SUFFICES ASSUME NEW i \in NewOrders
             PROVE  LET o == reqQ'[i].body
                    IN  /\ pos[o.sym].present => pos[o.sym].IsValid
                        /\ ~pos'[o.sym].IsValid
                        /\ o.open => fsm = "normal" /\ lossTimes < lossLimit
                        /\ \A j \in NewOrders \ {i} : reqQ'[j].body.side # o.side
  BY DEF Disciplined
<1>13. PICK m \in 1..Len(orders) : /\ i = Len(reqQ) + Len(CheckQueries) + m
                                   /\ reqQ'[i].body = orders[m]
  BY <1>12
<1>14. orders # <<>>
  BY <1>13
<1>15. ASSUME NEW j \in NewOrders \ {i} PROVE reqQ'[j].body.side # orders[m].side
  <2>1. PICK l \in 1..Len(orders) : /\ j = Len(reqQ) + Len(CheckQueries) + l
                                    /\ reqQ'[j].body = orders[l]
    BY <1>12
  <2>2. l # m
    BY <2>1, <1>13
  <2> QED BY <2>1, <2>2, <1>5
<1> QED BY <1>2, <1>4, <1>5, <1>9, <1>13, <1>14, <1>15

(* A step that sends no order, or takes a request away, has no new orders. *)
LEMMA AskingDisciplined ==
  ASSUME TypeOK, NEW bodies \in Seq(ReqBody), Send(bodies),
         \A i \in 1..Len(bodies) : bodies[i].tid # "SetOrder"
  PROVE  Disciplined
<1>1. NewOrders = {}
  BY NewOrdersSent
<1> QED BY <1>1 DEF Disciplined

LEMMA NoneSentDisciplined ==
  ASSUME TypeOK, reqQ' = reqQ \/ (reqQ # <<>> /\ reqQ' = Tail(reqQ))
  PROVE  Disciplined
<1>1. reqQ \in Seq(Package(ReqBody)) /\ Len(reqQ) \in Nat
  BY LenProperties DEF TypeOK
<1>2. Len(reqQ') \in Nat /\ Len(reqQ') <= Len(reqQ)
  <2>1. CASE reqQ' = reqQ
    BY <1>1, <2>1
  <2>2. CASE reqQ # <<>> /\ reqQ' = Tail(reqQ)
    BY <1>1, <2>2, PopQueue
  <2> QED BY <2>1, <2>2
<1>3. NewOrders = {}
  BY <1>1, <1>2 DEF NewOrders
<1> QED BY <1>3 DEF Disciplined

LEMMA NextDisciplined == TypeOK /\ [Next]_vars => [Disciplined]_vars
<1> SUFFICES ASSUME TypeOK, [Next]_vars, vars' # vars PROVE Disciplined
  OBVIOUS
<1> DEFINE Aside == UNCHANGED archerVars
<1>1. CASE \E t \in Ticks : OnTick(t)
  BY <1>1, OnTickDisciplined
<1>2. CASE OnOtherTick
  BY <1>2, CheckQueriesType, CheckQueriesAsk, AskingDisciplined DEF OnOtherTick
<1>3. CASE rspQryMoneyInfo \/ rspQryPosInfo \/ rspQryOrders \/ PassTime \/ Crash
  BY <1>3, NoneSentDisciplined
     DEF rspQryMoneyInfo, rspQryPosInfo, rspQryOrders, PassTime, Crash, queueVars
<1>4. CASE rspSetOrder
  <2> DEFINE b == Head(rspQ).body
             bodies == <<[tid |-> "QryMoney"], [tid |-> "QryPos", sym |-> b.sym]>>
                       \o IF b.ok THEN <<[tid |-> "QryOrders", id |-> b.id]>> ELSE <<>>
  <2>1. Receive("SetOrder") /\ Send(bodies)
    BY <1>4 DEF rspSetOrder
  <2>2. b \in RspBody /\ b.tid = "SetOrder"
    BY <2>1, ReceiveType
  <2>3. bodies \in Seq(ReqBody)
    BY <2>2, FollowUp
  <2>4. \A i \in 1..Len(bodies) : bodies[i].tid # "SetOrder"
    <3>1. CASE b.ok
      BY <3>1
    <3>2. CASE ~b.ok
      BY <3>2
    <3> QED BY <3>1, <3>2
  <2> HIDE DEF bodies
  <2> QED BY <2>1, <2>3, <2>4, AskingDisciplined
<1>5. CASE Aside /\ Start
  <2>1. /\ Len(reqQ') = Len(reqQ) + Len(queryAllPos)
        /\ \A i \in 1..Len(queryAllPos) : reqQ'[Len(reqQ) + i].body = queryAllPos[i]
    BY <1>5, StartType
  <2>2. Len(reqQ) \in Nat /\ Len(queryAllPos) \in Nat
    BY QueryAllPosType, LenProperties DEF TypeOK
  <2>3. ASSUME NEW i \in Len(reqQ) + 1 .. Len(reqQ') PROVE reqQ'[i].body.tid # "SetOrder"
    <3>1. i - Len(reqQ) \in 1..Len(queryAllPos) /\ i = Len(reqQ) + (i - Len(reqQ))
      BY <2>1, <2>2
    <3>2. reqQ'[i].body = queryAllPos[i - Len(reqQ)]
      BY <2>1, <3>1
    <3> QED BY <3>1, <3>2, QueryAllPosType
  <2>4. NewOrders = {}
    BY <2>3 DEF NewOrders
  <2> QED BY <2>4 DEF Disciplined
<1>6. CASE qryMoneyInfo(up) \/ qryHoldDetail(up) \/ setOrder(up) \/ qryOrdersById(up)
  <2>1. reqQ # <<>> /\ reqQ' = Tail(reqQ)
    BY <1>6 DEF qryMoneyInfo, qryHoldDetail, setOrder, qryOrdersById, Take
  <2> QED BY <2>1, NoneSentDisciplined
<1>7. CASE FillResting
  BY <1>7, NoneSentDisciplined DEF FillResting, queueVars
<1> QED BY <1>1, <1>2, <1>3, <1>4, <1>5, <1>6, <1>7, StepCases

(* Orders leave only on a position that waits for no update (one krang has  *)
(* never heard of included) and leave it waiting, at most one per side;     *)
(* those that open leave only in the normal state and below the loss limit  *)
(* (normal_state.go Decide, defense_state.go, mavg_archer.go).              *)
THEOREM DisciplineCorrect == Spec => OrderDiscipline
<1>1. Init => TypeOK
  BY InitType
<1>2. TypeOK /\ [Next]_vars => TypeOK'
  BY NextType
<1>3. TypeOK /\ [Next]_vars => [Disciplined]_vars
  BY NextDisciplined
<1> QED BY <1>1, <1>2, <1>3, PTL DEF Spec, OrderDiscipline, Disciplined

-----------------------------------------------------------------------------
(* Answers that clear a command.                                           *)

OkAnswer(p) == p.body.tid = "SetOrder" /\ p.body.ok

(* A success is reported of an order that was executed, under its stamp. *)
AnswersTrue ==
  \A i \in DOMAIN rspQ :
    OkAnswer(rspQ[i]) => \E j \in DOMAIN book : SameStamp(book[j], rspQ[i])

LEMMA InitAnswersTrue == Init => AnswersTrue
<1> SUFFICES ASSUME Init PROVE AnswersTrue
  OBVIOUS
<1>1. DOMAIN rspQ = {}
  BY DEF Init, KrangInit
<1> QED BY <1>1 DEF AnswersTrue

(* krang takes the head of its topic, and executed orders stay. *)
LEMMA OwnPop ==
  ASSUME TypeOK, AnswersTrue, book' = book, rspQ # <<>>, rspQ' = Tail(rspQ)
  PROVE  AnswersTrue'
<1>1. \A i \in DOMAIN Tail(rspQ) : \E k \in DOMAIN rspQ : Tail(rspQ)[i] = rspQ[k]
  <2>1. rspQ \in Seq(Package(RspBody))
    BY DEF TypeOK
  <2>2. /\ DOMAIN rspQ = 1..Len(rspQ) /\ DOMAIN Tail(rspQ) = 1..Len(rspQ) - 1
        /\ Len(rspQ) \in Nat
        /\ \A i \in 1..Len(rspQ) - 1 : Tail(rspQ)[i] = rspQ[i + 1]
    BY <2>1, PopQueue
  <2>3. \A i \in 1..Len(rspQ) - 1 : i + 1 \in 1..Len(rspQ)
    BY <2>2
  <2> QED BY <2>2, <2>3
<1> QED BY <1>1 DEF AnswersTrue

(* archer answers the head of its topic; a success goes with an execution. *)
LEMMA OwnServe ==
  ASSUME TypeOK, AnswersTrue, reqQ # <<>>,
         \/ rspQ' = rspQ
         \/ \E e \in Package(RspBody) :
              /\ SameStamp(e, Head(reqQ)) /\ rspQ' = Append(rspQ, e)
              /\ OkAnswer(e) => \E b \in BookEntry : SameStamp(b, Head(reqQ)) /\ book' = Append(book, b),
         book' = book \/ \E b \in BookEntry : book' = Append(book, b)
  PROVE  AnswersTrue'
<1>1. rspQ \in Seq(Package(RspBody)) /\ book \in Seq(BookEntry)
  BY DEF TypeOK
<1>2. \A j \in DOMAIN book : j \in DOMAIN book' /\ book'[j] = book[j]
  <2>1. ASSUME NEW b \in BookEntry, book' = Append(book, b)
        PROVE  \A j \in DOMAIN book : j \in DOMAIN book' /\ book'[j] = book[j]
    <3>1. /\ Len(book) \in Nat
          /\ DOMAIN book = 1..Len(book) /\ DOMAIN Append(book, b) = 1..Len(book) + 1
          /\ \A i \in 1..Len(book) : Append(book, b)[i] = book[i]
      BY <1>1, PushQueue
    <3>2. \A n \in Nat : \A i \in 1..n : i \in 1..n + 1
      OBVIOUS
    <3> QED BY <2>1, <3>1, <3>2, Zenon
  <2> QED BY <2>1
<1>3. ASSUME NEW p, \E j \in DOMAIN book : SameStamp(book[j], p)
      PROVE  \E j \in DOMAIN book' : SameStamp(book'[j], p)
  BY <1>2, <1>3
<1>4. CASE rspQ' = rspQ
  BY <1>3, <1>4 DEF AnswersTrue
<1>5. ASSUME NEW e \in Package(RspBody), SameStamp(e, Head(reqQ)), rspQ' = Append(rspQ, e),
             OkAnswer(e) => \E b \in BookEntry : SameStamp(b, Head(reqQ)) /\ book' = Append(book, b)
      PROVE  AnswersTrue'
  <2>1. /\ Len(rspQ) \in Nat
        /\ DOMAIN rspQ = 1..Len(rspQ) /\ DOMAIN rspQ' = 1..Len(rspQ) + 1
        /\ rspQ'[Len(rspQ) + 1] = e
        /\ \A i \in 1..Len(rspQ) : rspQ'[i] = rspQ[i]
    BY <1>1, <1>5, PushQueue
  <2>2. ASSUME OkAnswer(e) PROVE \E j \in DOMAIN book' : SameStamp(book'[j], e)
    <3>1. PICK b \in BookEntry : SameStamp(b, Head(reqQ)) /\ book' = Append(book, b)
      BY <1>5, <2>2
    <3>2. Len(book) + 1 \in DOMAIN book' /\ book'[Len(book) + 1] = b
      <4>1. /\ Len(book) \in Nat /\ DOMAIN Append(book, b) = 1..Len(book) + 1
            /\ Append(book, b)[Len(book) + 1] = b
        BY <1>1, PushQueue
      <4> QED BY <3>1, <4>1
    <3>3. SameStamp(b, e)
      BY <1>5, <3>1 DEF SameStamp
    <3> QED BY <3>2, <3>3
  <2>3. ASSUME NEW i \in DOMAIN rspQ', OkAnswer(rspQ'[i])
        PROVE  \E j \in DOMAIN book' : SameStamp(book'[j], rspQ'[i])
    <3>1. i = Len(rspQ) + 1 \/ i \in 1..Len(rspQ)
      BY <2>1
    <3>2. CASE i = Len(rspQ) + 1
      BY <2>1, <2>2, <2>3, <3>2
    <3>3. CASE i \in 1..Len(rspQ)
      BY <1>3, <2>1, <2>3, <3>3 DEF AnswersTrue
    <3> QED BY <3>1, <3>2, <3>3
  <2> QED BY <2>3 DEF AnswersTrue
<1> QED BY <1>4, <1>5

(* An order that rested keeps its stamp when it is filled. *)
LEMMA OwnFill ==
  ASSUME TypeOK, AnswersTrue, FillResting
  PROVE  AnswersTrue'
<1>1. PICK id \in DOMAIN book : /\ book' = [book EXCEPT ![id].filled = TRUE]
                                /\ UNCHANGED queueVars
  BY DEF FillResting
<1>2. book \in Seq(BookEntry) /\ DOMAIN book' = DOMAIN book
  BY <1>1 DEF TypeOK
<1>3. \A i \in DOMAIN book : book[i] \in BookEntry
  BY <1>2, ElementOfSeq, LenProperties
<1>4. \A i \in DOMAIN book : SameStamp(book'[i], book[i])
  <2> TAKE i \in DOMAIN book
  <2>1. CASE i = id
    <3>1. book'[i] = [book[i] EXCEPT !.filled = TRUE]
      BY <1>1, <2>1
    <3> QED BY <3>1, <1>3 DEF SameStamp, BookEntry
  <2>2. CASE i # id
    BY <1>1, <2>2 DEF SameStamp
  <2> QED BY <2>1, <2>2
<1> QED BY <1>1, <1>2, <1>4 DEF AnswersTrue, SameStamp, queueVars

LEMMA setOrderOwn ==
  ASSUME TypeOK, AnswersTrue, setOrder(up)
  PROVE  AnswersTrue'
<1> DEFINE req == Head(reqQ)
           o   == req.body
<1>1. Take("SetOrder")
  BY DEF setOrder
<1>2. req \in Package(ReqBody) /\ o \in ReqBody /\ o.tid = "SetOrder"
  BY <1>1, TakeType
<1>3. /\ o.sym \in Symbols /\ o.side \in Sides /\ o.open \in BOOLEAN /\ o.vol \in Nat
      /\ req.run \in Nat /\ req.serial \in Nat
  BY <1>2, BodyOfKind DEF Package
<1>4. PICK v \in Verdicts(o) :
        /\ book' = IF v.accepted
                   THEN Append(book, [run |-> req.run, serial |-> req.serial,
                                      sym |-> o.sym, side |-> o.side, open |-> o.open,
                                      vol |-> o.vol, filled |-> v.filled])
                   ELSE book
        /\ \/ Answer([tid |-> "SetOrder", sym |-> o.sym, ok |-> v.accepted,
                       id |-> IF v.accepted THEN Len(book) + 1 ELSE 0], up)
           \/ NoAnswer("SetOrder")
  BY DEF setOrder
<1>5. v.accepted \in BOOLEAN /\ v.filled \in BOOLEAN
  BY <1>2, VerdictType
<1>6. Len(book) \in Nat
  BY LenProperties DEF TypeOK
<1> DEFINE b == [tid |-> "SetOrder", sym |-> o.sym, ok |-> v.accepted,
                 id |-> IF v.accepted THEN Len(book) + 1 ELSE 0]
           e == [run |-> req.run, serial |-> req.serial,
                 sym |-> o.sym, side |-> o.side, open |-> o.open,
                 vol |-> o.vol, filled |-> v.filled]
           r == Reply(req, b)
<1>7. b \in RspBody /\ b.ok = v.accepted
  BY <1>3, <1>5, <1>6 DEF RspBody, RspSetOrder
<1>8. e \in BookEntry /\ SameStamp(e, req)
  BY <1>3, <1>5 DEF BookEntry, SameStamp
<1>9. book' = IF v.accepted THEN Append(book, e) ELSE book
  BY <1>4
<1>10. Answer(b, up) \/ NoAnswer("SetOrder")
  BY <1>4
<1> HIDE DEF b, e, o
<1>11. r \in Package(RspBody) /\ SameStamp(r, req) /\ (OkAnswer(r) => v.accepted)
  BY <1>3, <1>7 DEF Reply, Package, SameStamp, OkAnswer
<1>12. rspQ' = rspQ \/ rspQ' = Append(rspQ, r)
  BY <1>10 DEF Answer, NoAnswer
<1> HIDE DEF r, req
<1>13. \/ rspQ' = rspQ
       \/ \E a \in Package(RspBody) :
            /\ SameStamp(a, Head(reqQ)) /\ rspQ' = Append(rspQ, a)
            /\ OkAnswer(a) => \E f \in BookEntry : SameStamp(f, Head(reqQ)) /\ book' = Append(book, f)
  BY <1>8, <1>9, <1>11, <1>12 DEF req
<1>14. book' = book \/ \E f \in BookEntry : book' = Append(book, f)
  BY <1>8, <1>9
<1>15. reqQ # <<>>
  BY <1>1 DEF Take
<1> QED BY <1>13, <1>14, <1>15, OwnServe

(* Whatever is no success, or no news, leaves the answers true. *)
LEMMA OtherAnswerOwn ==
  ASSUME TypeOK, AnswersTrue, NEW tid, tid # "SetOrder", Take(tid),
         NEW body \in RspBody, body.tid = tid, book' = book,
         Answer(body, up) \/ NoAnswer(tid)
  PROVE  AnswersTrue'
<1> DEFINE r == Reply(Head(reqQ), body)
<1>1. r \in Package(RspBody) /\ SameStamp(r, Head(reqQ)) /\ ~OkAnswer(r)
  BY TakeType DEF Reply, Package, SameStamp, OkAnswer
<1>2. rspQ' = rspQ \/ rspQ' = Append(rspQ, r)
  BY DEF Answer, NoAnswer
<1> HIDE DEF r
<1>3. reqQ # <<>>
  BY DEF Take
<1> QED BY <1>1, <1>2, <1>3, OwnServe

LEMMA NextAnswersTrue == TypeOK /\ AnswersTrue /\ [Next]_vars => AnswersTrue'
<1> SUFFICES ASSUME TypeOK, AnswersTrue, [Next]_vars PROVE AnswersTrue'
  OBVIOUS
<1> DEFINE Aside == UNCHANGED archerVars
<1>1. ASSUME UNCHANGED <<rspQ, book>> PROVE AnswersTrue'
  BY <1>1 DEF AnswersTrue
<1>2. CASE Aside /\ ((\E t \in Ticks : OnTick(t)) \/ OnOtherTick \/ PassTime \/ Start)
  BY <1>1, <1>2 DEF OnTick, OnOtherTick, PassTime, Start, archerVars, queueVars
<1>3. CASE Aside /\ (rspQryMoneyInfo \/ rspQryPosInfo \/ rspSetOrder \/ rspQryOrders)
  BY <1>3, OwnPop DEF rspQryMoneyInfo, rspQryPosInfo, rspSetOrder, rspQryOrders, Receive,
     archerVars
<1>4. CASE Aside /\ Crash
  BY <1>4 DEF Crash, AnswersTrue
<1>5. CASE qryMoneyInfo(up)
  <2>1. [tid |-> "QryMoney"] \in RspBody
    BY DEF RspBody, RspQryMoney
  <2> QED BY <1>5, <2>1, OtherAnswerOwn DEF qryMoneyInfo
<1>6. CASE qryHoldDetail(up)
  <2> DEFINE s == Head(reqQ).body.sym
             b == [tid |-> "QryPos", sym |-> s, avai |-> holding[s].avai,
                   ver |-> holding[s].ver]
  <2>1. Take("QryPos") /\ book' = book /\ (Answer(b, up) \/ NoAnswer("QryPos"))
    BY <1>6 DEF qryHoldDetail
  <2>2. s \in Symbols
    BY <2>1, TakeType, BodyOfKind
  <2>3. b \in RspBody /\ b.tid = "QryPos"
    BY <2>2 DEF TypeOK, Holding, RspBody, RspQryPos
  <2> HIDE DEF b, s
  <2> QED BY <2>1, <2>3, OtherAnswerOwn
<1>7. CASE setOrder(up)
  BY <1>7, setOrderOwn
<1>8. CASE qryOrdersById(up)
  <2> DEFINE id == Head(reqQ).body.id
             b  == [tid |-> "QryOrders", id |-> id, undone |-> ~book[id].filled]
  <2>1. Take("QryOrders") /\ book' = book /\ (Answer(b, up) \/ NoAnswer("QryOrders"))
    BY <1>8 DEF qryOrdersById
  <2>2. id \in Nat
    BY <2>1, TakeType, BodyOfKind
  <2>3. b \in RspBody /\ b.tid = "QryOrders"
    BY <2>2 DEF RspBody, RspQryOrder
  <2> HIDE DEF b, id
  <2> QED BY <2>1, <2>3, OtherAnswerOwn
<1>9. CASE FillResting
  BY <1>9, OwnFill
<1>10. CASE UNCHANGED vars
  BY <1>1, <1>10 DEF vars, archerVars, queueVars
<1> QED BY <1>2, <1>3, <1>4, <1>5, <1>6, <1>7, <1>8, <1>9, <1>10, StepCases

(* What an answer of the present run takes off the pending feedback. *)
ClearedHere ==
  \A n \in DOMAIN feedback \ DOMAIN feedback' :
    \E i \in DOMAIN book : book[i].run = run /\ book[i].serial = n

LEMMA rspSetOrderClears ==
  ASSUME TypeOK, AnswersTrue, rspSetOrder, Head(rspQ).run = run
  PROVE  ClearedHere
<1> SUFFICES ASSUME NEW n \in DOMAIN feedback \ DOMAIN feedback'
             PROVE  \E i \in DOMAIN book : book[i].run = run /\ book[i].serial = n
  BY DEF ClearedHere
<1>1. Receive("SetOrder")
  BY DEF rspSetOrder
<1>2. rspQ \in Seq(Package(RspBody)) /\ rspQ # <<>> /\ Head(rspQ).body.tid = "SetOrder"
  BY <1>1 DEF Receive, TypeOK
<1>3. Head(rspQ) = rspQ[1] /\ 1 \in DOMAIN rspQ
  BY <1>2, PopQueue
<1>4. DOMAIN feedback' =
        DOMAIN feedback \ (IF Head(rspQ).body.ok THEN {Head(rspQ).serial} ELSE {})
  BY DEF rspSetOrder
<1>5. Head(rspQ).body.ok /\ n = Head(rspQ).serial
  BY <1>4
<1>6. OkAnswer(rspQ[1])
  BY <1>2, <1>3, <1>5 DEF OkAnswer
<1>7. PICK j \in DOMAIN book : SameStamp(book[j], rspQ[1])
  BY <1>3, <1>6 DEF AnswersTrue
<1> QED BY <1>3, <1>5, <1>7 DEF SameStamp

(* However often krang is started, an answer to an order of its present run  *)
(* takes a command off the pending feedback only if the exchange executed    *)
(* that command (trade_handler.go rspSetOrder, okex.go setOrder).  An answer *)
(* to an order of an earlier run may carry the serial of another command, and *)
(* takes that one off.                                                      *)
THEOREM ClearedCorrect == Spec => ClearedOnlyIfExecuted
<1>1. Init => TypeOK /\ AnswersTrue
  BY InitType, InitAnswersTrue
<1>2. TypeOK /\ AnswersTrue /\ [Next]_vars => (TypeOK /\ AnswersTrue)'
  BY NextType, NextAnswersTrue
<1>3. TypeOK /\ AnswersTrue =>
        (rspSetOrder /\ Head(rspQ).run = run =>
           \A n \in DOMAIN feedback \ DOMAIN feedback' :
             \E i \in DOMAIN book : book[i].run = run /\ book[i].serial = n)
  BY rspSetOrderClears DEF ClearedHere
<1> QED BY <1>1, <1>2, <1>3, PTL DEF Spec, ClearedOnlyIfExecuted
=============================================================================
