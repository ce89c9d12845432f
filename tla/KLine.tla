-------------------------------- MODULE KLine --------------------------------
(***************************************************************************)
(* From the candles an exchange pushes to the two moving averages and the  *)
(* crossing the strategy's signals are computed from: the spider that      *)
(* labels a candle with its kind (spider/front/okex.go), krang's candle    *)
(* memory (krang/klmem.go) and its moving-average lines                    *)
(* (krang/magraph.go), for one contract.                                   *)
(*                                                                         *)
(* Times are seconds, prices small integers.  An average is kept over the  *)
(* common denominator Fast * Slow of the two lines, so that comparing and  *)
(* subtracting averages is exact; what float32 does to a time stamp is     *)
(* modelled where the code stores one in a float32.                        *)
(***************************************************************************)
EXTENDS Integers, Sequences

CONSTANTS Kinds,      \* the kinds of candle subscribed to
          Seg,        \* seconds between two candles of a kind
          Fast, Slow, \* lengths of the two averages (7 and 30 in the code)
          MaxLen,     \* max_rbf_len = max_maline_len
          Closes,     \* the closing prices the exchange may report, by kind
          Start,      \* when the model starts, a boundary of every kind
          Step,       \* how far the exchange's clock moves at a time
          End         \* bound: when the model's clock stops

ASSUME KLineAssumption ==
  /\ Kinds \subseteq {"1min", "5min", "15min"}
  /\ Seg \in [Kinds -> Nat \ {0}]
  /\ Fast \in Nat \ {0} /\ Slow \in Nat /\ MaxLen \in Nat
  /\ Fast < Slow /\ Slow <= MaxLen
  /\ Closes \in [Kinds -> SUBSET Nat]
  /\ Start \in Nat /\ End \in Nat /\ Step \in Nat \ {0}

VARIABLES now,   \* the exchange's clock
          rbf    \* klmem.m: per kind, the candles and the lines drawn from them

vars == <<now, rbf>>

(* `kind' is a ghost: the subscription the candle was pushed on. *)
klst == [ts : Nat, close : UNION {Closes[kind] : kind \in Kinds}, kind : Kinds]

Point == [ts : Nat, val : Nat]

Directions == {"absent", "none", "down2top", "top2down"}

(* `fcs' is the direction of the last crossing found. *)
Rbf == [kl : Seq(klst), ma7 : Seq(Point), ma30 : Seq(Point), diff : Seq(Point),
        fcs : Directions]

newrbf == [kl |-> <<>>, ma7 |-> <<>>, ma30 |-> <<>>, diff |-> <<>>, fcs |-> "absent"]

-----------------------------------------------------------------------------
(* Every list drops its oldest element when it grows too long. *)
PushBack(l, e) == IF Len(l) < MaxLen THEN Append(l, e) ELSE Append(Tail(l), e)

Back(l) == l[Len(l)]

(* The sum of the last n closing prices. *)
sumRangeKList(kl, n) ==
  LET sum[i \in 0..n] == IF i = 0 THEN 0 ELSE sum[i - 1] + kl[Len(kl) - i + 1].close
  IN  sum[n]

(***************************************************************************)
(* The crossing of segments (a, b) and (c, d).                             *)
(***************************************************************************)
vectorProduct(p, q, r, s) ==
  (q.ts - p.ts) * (s.val - r.val) - (s.ts - r.ts) * (q.val - p.val)

Intersects(a, b, c, d) ==
  /\ vectorProduct(a, c, a, d) * vectorProduct(b, c, b, d) <= 0
  /\ vectorProduct(c, a, c, b) * vectorProduct(d, a, d, b) <= 0

(* A time stamp of this century as a float32: 24 bits hold it to 128 s. *)
Float32(t) ==
  LET low == t % 128
  IN  IF low < 64 \/ (low = 64 /\ (t \div 128) % 2 = 0) THEN t - low ELSE t - low + 128

(* The determinant intersectPoint divides by; zero makes it give up. *)
Determinant(a, b, c, d) ==
  (Float32(b.ts) - Float32(a.ts)) * (d.val - c.val)
  - (Float32(d.ts) - Float32(c.ts)) * (b.val - a.val)

(* Mutant: the two directions are mixed up. *)
DirectionSwapped(a, b, c, d) ==
  IF Determinant(a, b, c, d) = 0 THEN "none"
  ELSE IF a.val < c.val THEN "top2down" ELSE "down2top"

Direction(a, b, c, d) ==
  IF Determinant(a, b, c, d) = 0 THEN "none"
  ELSE IF a.val < c.val THEN "down2top" ELSE "top2down"

(* Only the last two points of each line are looked at. *)
TryCrossPoint(ma7, ma30, fcs) ==
  LET a == ma7[Len(ma7) - 1]
      b == Back(ma7)
      c == ma30[Len(ma30) - 1]
      d == Back(ma30)
  IN  IF Len(ma7) >= 2 /\ Len(ma30) >= 2 /\ Intersects(a, b, c, d)
      THEN Direction(a, b, c, d) ELSE fcs

(* Mutant: the slow line waits for one candle more than the difference. *)
NewCandleSlowLate(r, k) ==
  LET kl    == PushBack(r.kl, k)
      sum7  == Slow * sumRangeKList(kl, Fast)
      ma7   == IF Len(kl) >= Fast THEN PushBack(r.ma7, [ts |-> k.ts, val |-> sum7])
               ELSE r.ma7
  IN  IF Len(kl) < Slow
      THEN [r EXCEPT !.kl = kl, !.ma7 = ma7]
      ELSE LET ma30 == IF Len(kl) > Slow
                       THEN PushBack(r.ma30, [ts |-> k.ts, val |-> Fast * sumRangeKList(kl, Slow)])
                       ELSE r.ma30
           IN  [r EXCEPT !.kl = kl, !.ma7 = ma7, !.ma30 = ma30,
                         !.diff = PushBack(@, [ts |-> k.ts, val |-> 0])]

(***************************************************************************)
(* A candle that starts a new period is stored, and each average that has  *)
(* enough candles gets a point from the closes known so far.               *)
(***************************************************************************)
NewCandle(r, k) ==
  LET kl    == PushBack(r.kl, k)
      sum7  == Slow * sumRangeKList(kl, Fast)
      sum30 == Fast * sumRangeKList(kl, Slow)
      delta == IF sum7 < sum30 THEN sum30 - sum7 ELSE sum7 - sum30
      ma7   == IF Len(kl) >= Fast THEN PushBack(r.ma7, [ts |-> k.ts, val |-> sum7])
               ELSE r.ma7
  IN  IF Len(kl) < Slow
      THEN [r EXCEPT !.kl = kl, !.ma7 = ma7]
      ELSE LET ma30 == PushBack(r.ma30, [ts |-> k.ts, val |-> sum30])
           IN  [kl   |-> kl,
                ma7  |-> ma7,
                ma30 |-> ma30,
                diff |-> PushBack(r.diff, [ts |-> k.ts, val |-> delta]),
                fcs  |-> TryCrossPoint(ma7, ma30, r.fcs)]

(* Mutant: an older candle is not thrown away. *)
addImplKeepsOld(r, seg, k) ==
  IF r.kl # <<>> /\ k.ts - Back(r.kl).ts < seg
  THEN [r EXCEPT !.kl[Len(r.kl)] = k]
  ELSE NewCandle(r, k)

(* Mutant: a candle of the same period draws the averages again. *)
addImplRedraws(r, seg, k) ==
  IF r.kl # <<>> /\ k.ts < Back(r.kl).ts THEN r ELSE NewCandle(r, k)

(***************************************************************************)
(* addImpl: an older candle is thrown away, one of the same period         *)
(* replaces the last one without touching the averages.                    *)
(***************************************************************************)
addImpl(r, seg, k) ==
  LET diff == k.ts - Back(r.kl).ts
  IN  IF r.kl # <<>> /\ diff < 0 THEN r
      ELSE IF r.kl # <<>> /\ diff < seg
      THEN [r EXCEPT !.kl[Len(r.kl)] = k]
      ELSE NewCandle(r, k)

(***************************************************************************)
(* The kinds whose name the channel of a subscription contains.  The map   *)
(* of names is visited in an arbitrary order and the first match is taken; *)
(* "15min" contains "5min".                                                *)
(***************************************************************************)
getklkind(kind) == IF kind = "15min" THEN {"5min", "15min"} \cap Kinds ELSE {kind}

-----------------------------------------------------------------------------
Init ==
  /\ now = Start
  /\ rbf = [kind \in Kinds |-> newrbf]

(* The candle of a kind that is open, and the one before: what is pushed    *)
(* while it changes, and again after a reconnection.                        *)
Periods(kind) ==
  LET open == now - ((now - Start) % Seg[kind])
  IN  {open, open - Seg[kind]} \cap Start..now

Notify(kind) ==
  /\ \E ts \in Periods(kind), close \in Closes[kind], as \in getklkind(kind) :
       rbf' = [rbf EXCEPT ![as] =
                 addImpl(@, Seg[as], [ts |-> ts, close |-> close, kind |-> kind])]
  /\ UNCHANGED now

Advance ==
  /\ now < End
  /\ now' = now + Step
  /\ UNCHANGED rbf

Next == (\E kind \in Kinds : Notify(kind)) \/ Advance

Spec == Init /\ [][Next]_vars

-----------------------------------------------------------------------------
TypeOK ==
  /\ now \in Nat
  /\ rbf \in [Kinds -> Rbf]
  /\ \A kind \in Kinds :
       LET r == rbf[kind]
       IN  /\ Len(r.kl) <= MaxLen /\ Len(r.ma7) <= MaxLen
           /\ Len(r.ma30) <= MaxLen /\ Len(r.diff) <= MaxLen

Lines(r) == {r.ma7, r.ma30, r.diff}

(* Any two points of a line are at least one period apart, whatever repeats *)
(* and old candles the exchange pushes: the slope between two points never  *)
(* divides by zero periods (magraph.go slopeFactor, klmem.go addImpl).      *)
SlopesDefined ==
  \A kind \in Kinds : \A l \in Lines(rbf[kind]) : \A i, j \in DOMAIN l :
    i < j => (l[j].ts - l[i].ts) \div Seg[kind] >= 1

(* The n-th last points of the two averages and of their difference belong  *)
(* to the same candle: crossing and difference compare like with like       *)
(* (magraph.go TryCrossPoint reads the last two of each).                   *)
LinesAligned ==
  \A kind \in Kinds :
    LET r == rbf[kind]
    IN  /\ Len(r.diff) = Len(r.ma30) /\ Len(r.ma30) <= Len(r.ma7)
        /\ \A n \in 0 .. Len(r.ma30) - 1 :
             /\ r.ma30[Len(r.ma30) - n].ts = r.ma7[Len(r.ma7) - n].ts
             /\ r.diff[Len(r.diff) - n].ts = r.ma7[Len(r.ma7) - n].ts

(* As long as the last crossing is one from below, the fast line is not     *)
(* below the slow one: a buy signal that asks for such a crossing is never  *)
(* given under a fast line that fell back (mavg_handlers.go doTick).        *)
RisenIsAbove ==
  \A kind \in Kinds :
    rbf[kind].fcs = "down2top" => Back(rbf[kind].ma7).val >= Back(rbf[kind].ma30).val

-----------------------------------------------------------------------------
(* A statement of the code's own comments that the code does not keep.      *)

(* mavg_handlers.go: the handler "uses the 5 minute candles": the line of   *)
(* that kind holds no others.                                               *)
FiveMinutesOnly ==
  "5min" \in Kinds =>
    \A i \in DOMAIN rbf["5min"].kl : rbf["5min"].kl[i].kind = "5min"
=============================================================================
