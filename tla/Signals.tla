------------------------------- MODULE Signals -------------------------------
(***************************************************************************)
(* What the strategy's handler of a tick reads from the candles of a kind   *)
(* (strategy/mavg/mavg_handlers.go macdHandler, krang/magraph.go): the      *)
(* slopes of the two averages and of their difference over the last few     *)
(* candles, the last crossing, and the signal they make.                   *)
(*                                                                         *)
(* Thresholds are hundredths of a price per candle.  A slope is kept as the *)
(* rise over the common denominator of the averages and the candles it took.*)
(***************************************************************************)
EXTENDS KLine

CONSTANT klParams  \* per kind: the candles a slope is computed over, and thresholds

ASSUME SignalsAssumption ==
  \A kind \in Kinds :
    /\ klParams[kind].distance \in Nat \ {0}
    /\ {klParams[kind].fkrate, klParams[kind].skrate,
        klParams[kind].dkrate, klParams[kind].fsdiff} \subseteq Nat

getKlParam(kind) == klParams[kind]

GetLastKLTimeStamp(r) == IF r.kl = <<>> THEN 0 ELSE Back(r.kl).ts

(* Where a line has points in the time from tsStart to tsEnd. *)
Within(l, tsStart, tsEnd) == {i \in 1..Len(l) : tsStart <= l[i].ts /\ l[i].ts <= tsEnd}

FirstOf(w) == CHOOSE i \in w : \A j \in w : i <= j
LastOf(w)  == CHOOSE i \in w : \A j \in w : j <= i

(* The points of a line at the two ends of a window.  A segment needs two,  *)
(* and a value of zero at either end counts as none: the difference of two  *)
(* averages that touch has no slope.                                       *)
HeadAndTail(l, w) ==
  IF /\ w # {} /\ FirstOf(w) # LastOf(w)
     /\ l[FirstOf(w)].val > 0 /\ l[LastOf(w)].val > 0
  THEN <<l[FirstOf(w)], l[LastOf(w)]>>
  ELSE <<>>

(* Mutant: the head of the segment may lie before the window. *)
SegmentFromFront(l, tsStart, tsEnd) == HeadAndTail(l, Within(l, 0, tsEnd))

Segment(l, tsStart, tsEnd) == HeadAndTail(l, Within(l, tsStart, tsEnd))

slopeFactor(seg, s) ==
  IF s = <<>> THEN [rise |-> 0, run |-> 1]
  ELSE [rise |-> s[2].val - s[1].val, run |-> (s[2].ts - s[1].ts) \div seg]

(* The window of a kind's slopes. *)
LastSegment(kind, r, l) ==
  LET tsn == GetLastKLTimeStamp(r)
  IN  Segment(l, tsn - getKlParam(kind).distance * Seg[kind], tsn)

Slope(kind, r, l) == slopeFactor(Seg[kind], LastSegment(kind, r, l))

(* How a slope or a difference compares with a threshold in hundredths. *)
AtLeast(s, rate) == 100 * s.rise >= rate * Fast * Slow * s.run
Above(s, rate)   == 100 * s.rise > rate * Fast * Slow * s.run
AtMost(s, rate)  == ~Above(s, rate)
Below(s, rate)   == ~AtLeast(s, rate)

GetLastDiff(r) == IF r.diff = <<>> THEN 0 ELSE Back(r.diff).val

-----------------------------------------------------------------------------
(***************************************************************************)
(* The cases K1 to K6 of the code's log, in the order it tries them; c      *)
(* holds the thresholds, the three slopes, the last crossing and whether    *)
(* the averages are far enough apart.                                      *)
(***************************************************************************)
Up(c)   == AtLeast(c.ma7Slope, c.kp.fkrate) /\ Above(c.ma30Slope, c.kp.skrate)
Down(c) == AtMost(c.ma7Slope, -c.kp.fkrate) /\ Below(c.ma30Slope, -c.kp.skrate)

noCrossPointCase(c) ==
  {k \in {5, 6} : /\ Above(c.diffSlope, c.kp.dkrate)
                  /\ IF k = 5 THEN Up(c) ELSE Down(c)}

Trend(c) ==
  {k \in {1, 2} : /\ c.apart
                  /\ IF k = 1 THEN Up(c) /\ c.fcs = "down2top"
                              ELSE Down(c) /\ c.fcs = "top2down"}

FastUpSlowDown(c) == Above(c.ma7Slope, c.kp.fkrate) /\ AtMost(c.ma30Slope, -c.kp.skrate)

(* Mutant: the averages need not come closer. *)
TurnAnyDistance(c) ==
  {k \in {3, 4} : IF k = 3 THEN Below(c.ma7Slope, -c.kp.fkrate) ELSE FastUpSlowDown(c)}

Turn(c) ==
  {k \in {3, 4} : /\ Below(c.diffSlope, -c.kp.dkrate)
                  /\ IF k = 3 THEN Below(c.ma7Slope, -c.kp.fkrate)
                              ELSE FastUpSlowDown(c)}

Reading(kind, r) ==
  [kp |-> getKlParam(kind), ma7Slope |-> Slope(kind, r, r.ma7),
   ma30Slope |-> Slope(kind, r, r.ma30), diffSlope |-> Slope(kind, r, r.diff),
   apart |-> 100 * GetLastDiff(r) >= getKlParam(kind).fsdiff * Fast * Slow,
   fcs |-> r.fcs]

(* The cases that fit; none while a slope or the difference is zero.        *)
Cases(kind, r) ==
  LET c == Reading(kind, r)
  IN  IF 0 \in {c.ma7Slope.rise, c.ma30Slope.rise, GetLastDiff(r)} THEN {}
      ELSE IF r.fcs = "absent" THEN noCrossPointCase(c)
      ELSE Trend(c) \cup Turn(c)

Buys  == {1, 4, 5}
Sells == {2, 3, 6}

(* The signal a tick leads to.  Without candles there is none, and with old *)
(* ones, or with a tick that is older, something is wrong.                  *)
doTick(kind, r, tick) ==
  LET tsn  == GetLastKLTimeStamp(r)
      fits == Cases(kind, r)
  IN  IF tsn = 0 THEN "none"
      ELSE IF tick - tsn > 2 * Seg[kind] \/ tick - tsn < -Seg[kind] THEN "emergency"
      ELSE IF fits = {} THEN "none"
      ELSE IF fits \cap Buys # {} THEN "buy"
      ELSE "sell"

-----------------------------------------------------------------------------
CaseFits(kind, k) == k \in Cases(kind, rbf[kind])

(* The slow line reaches back to the beginning of the window. *)
Covered(kind, r) ==
  /\ r.ma30 # <<>>
  /\ r.ma30[1].ts <= GetLastKLTimeStamp(r) - getKlParam(kind).distance * Seg[kind]

(* The three slopes of a signal are taken over the same candles, once the   *)
(* slow line is long enough (magraph.go segment: each line cuts its own     *)
(* window).                                                                *)
SameCandles ==
  \A kind \in Kinds :
    LET r == rbf[kind]
        times(l) == LET s == LastSegment(kind, r, l) IN [i \in DOMAIN s |-> s[i].ts]
    IN  Covered(kind, r) /\ Cases(kind, r) # {}
          => /\ times(r.ma7) = times(r.ma30)
             /\ times(r.diff) \in {<<>>, times(r.ma30)}

(* A buy along the trend has the fast line above the slow one.  A buy at a  *)
(* turn had it below when the slopes began, once the slow line reaches back *)
(* to the beginning of the window.  Before that nothing is promised of a    *)
(* turn: the fast line's slope may begin earlier, where it was above        *)
(* (mavg_handlers.go, the comments on doTick).                             *)
BuysRise ==
  \A kind \in Kinds :
    LET r == rbf[kind]
        s7 == LastSegment(kind, r, r.ma7)
        s30 == LastSegment(kind, r, r.ma30)
    IN  /\ CaseFits(kind, 1) => Back(r.ma7).val > Back(r.ma30).val
        /\ CaseFits(kind, 4) /\ Covered(kind, r) => s7[1].val < s30[1].val

(* A candle that changes while it is open, or is pushed again, does not      *)
(* change the signal: it moves with a new candle only, or when the candles   *)
(* become too old (klmem.go addImpl, which redraws no line).                 *)
SteadyWithinCandle ==
  [][\A kind \in Kinds :
       \/ rbf'[kind] = rbf[kind] /\ now' = now
       \/ GetLastKLTimeStamp(rbf'[kind]) # GetLastKLTimeStamp(rbf[kind])
       \/ doTick(kind, rbf'[kind], now') \in {doTick(kind, rbf[kind], now), "emergency"}]_vars
=============================================================================
