----------------------------- MODULE KLineProofs -----------------------------
(***************************************************************************)
(* For every set of kinds, every period, every length of the two averages  *)
(* and of the lists: the lines drawn from the candles stay aligned, no two  *)
(* of their points are closer than a period, everything keeps its type, a   *)
(* rise has the fast line above, and the signals made of the lines compare  *)
(* like with like.  Lists are read from their end, where PushBack adds and  *)
(* the code compares.  That the sum of closes is a number needs that its    *)
(* recursive function exists: there is no least length for which it would   *)
(* not.                                                                    *)
(***************************************************************************)
EXTENDS Signals, TLAPS, WellFoundedInduction

IsList(l) == \E S : l \in Seq(S)

(* The n-th point before the last one. *)
FromEnd(l, n) == l[Len(l) - n]

Steps(l) == 0 .. Len(l) - 1

Spaced(l, seg) ==
  /\ \A n \in Steps(l) : FromEnd(l, n).ts \in Int
  /\ \A m, n \in Steps(l) : m < n => FromEnd(l, m).ts - FromEnd(l, n).ts >= seg

Line(l, seg) == IsList(l) /\ Len(l) <= MaxLen /\ Spaced(l, seg)

(* A line has no point after the newest candle. *)
Drawn(l, kl) == Len(l) > 0 => Len(kl) > 0 /\ FromEnd(l, 0).ts <= FromEnd(kl, 0).ts

Aligned(l, m) == \A n \in Steps(l) : FromEnd(l, n).ts = FromEnd(m, n).ts

(* What holds of the candles and lines of one kind. *)
Sound(r, seg) ==
  /\ r = [kl |-> r.kl, ma7 |-> r.ma7, ma30 |-> r.ma30, diff |-> r.diff, fcs |-> r.fcs]
  /\ Line(r.kl, seg) /\ Line(r.ma7, seg) /\ Line(r.ma30, seg) /\ Line(r.diff, seg)
  /\ Drawn(r.ma7, r.kl) /\ Drawn(r.ma30, r.kl) /\ Drawn(r.diff, r.kl)
  /\ Len(r.diff) = Len(r.ma30) /\ Len(r.ma30) <= Len(r.ma7)
  /\ Len(r.ma30) > 0 => Len(r.kl) >= Slow
  /\ Aligned(r.ma30, r.ma7) /\ Aligned(r.diff, r.ma7)

Inv ==
  /\ now \in Nat
  /\ DOMAIN rbf = Kinds
  /\ rbf = [kind \in Kinds |-> rbf[kind]]
  /\ \A kind \in Kinds : Sound(rbf[kind], Seg[kind])

-----------------------------------------------------------------------------
(* Lists.                                                                  *)

(* An element more leaves a list a list. *)
LEMMA ListAppend ==
  ASSUME NEW l, IsList(l), NEW e
  PROVE  /\ IsList(Append(l, e))
         /\ Len(l) \in Nat
         /\ Len(Append(l, e)) = Len(l) + 1
         /\ Append(l, e)[Len(l) + 1] = e
         /\ \A i \in 1 .. Len(l) : Append(l, e)[i] = l[i]
<1>1. PICK S : l \in Seq(S)
  BY DEF IsList
<1>2. l \in Seq(S \cup {e})
  BY <1>1
<1>3. Append(l, e) \in Seq(S \cup {e})
  BY <1>2
<1>4. QED
  BY <1>1, <1>2, <1>3 DEF IsList

LEMMA ListTail ==
  ASSUME NEW l, IsList(l), Len(l) > 0
  PROVE  /\ IsList(Tail(l))
         /\ Len(l) \in Nat
         /\ Len(Tail(l)) = Len(l) - 1
         /\ \A i \in 1 .. Len(l) - 1 : Tail(l)[i] = l[i + 1]
<1>1. PICK S : l \in Seq(S)
  BY DEF IsList
<1>2. l # <<>>
  BY <1>1
<1>3. Tail(l) \in Seq(S)
  BY <1>1, <1>2
<1>4. QED
  BY <1>1, <1>2, <1>3 DEF IsList

(* What PushBack does, seen from the end of the list (klmem.go addImpl and  *)
(* magraph.go, which drop the front beyond the limit).                      *)
LEMMA PushBackShape ==
  ASSUME NEW l, IsList(l), Len(l) <= MaxLen, NEW e
  PROVE  /\ IsList(PushBack(l, e))
         /\ Len(l) \in Nat
         /\ Len(PushBack(l, e)) = IF Len(l) < MaxLen THEN Len(l) + 1 ELSE MaxLen
         /\ FromEnd(PushBack(l, e), 0) = e
         /\ \A n \in Steps(PushBack(l, e)) :
              n > 0 => n - 1 \in Steps(l) /\ FromEnd(PushBack(l, e), n) = FromEnd(l, n - 1)
<1>0. /\ MaxLen \in Nat /\ MaxLen > 0
      /\ Len(l) \in Nat
  BY KLineAssumption, ListAppend
<1>1. CASE Len(l) < MaxLen
  <2>1. PushBack(l, e) = Append(l, e)
    BY <1>1 DEF PushBack
  <2>2. QED
    BY <1>0, <1>1, <2>1, ListAppend DEF FromEnd, Steps
<1>2. CASE ~(Len(l) < MaxLen)
  <2>1. PushBack(l, e) = Append(Tail(l), e) /\ Len(l) = MaxLen
    BY <1>0, <1>2 DEF PushBack
  <2>2. /\ IsList(Tail(l))
        /\ Len(Tail(l)) = MaxLen - 1
        /\ \A i \in 1 .. MaxLen - 1 : Tail(l)[i] = l[i + 1]
    BY <1>0, <2>1, ListTail
  <2>3. /\ IsList(PushBack(l, e))
        /\ Len(PushBack(l, e)) = MaxLen
        /\ PushBack(l, e)[MaxLen] = e
        /\ \A i \in 1 .. MaxLen - 1 : PushBack(l, e)[i] = l[i + 1]
    BY <1>0, <2>1, <2>2, ListAppend
  <2>4. ASSUME NEW n \in Steps(PushBack(l, e)), n > 0
        PROVE  n - 1 \in Steps(l) /\ FromEnd(PushBack(l, e), n) = FromEnd(l, n - 1)
    <3>1. n \in Int /\ MaxLen - n \in 1 .. MaxLen - 1 /\ n - 1 \in 0 .. MaxLen - 1
          /\ (MaxLen - n) + 1 = MaxLen - (n - 1)
      BY <1>0, <2>3, <2>4 DEF Steps
    <3>2. QED
      BY <1>0, <2>1, <2>3, <3>1 DEF FromEnd, Steps
  <2>5. FromEnd(PushBack(l, e), 0) = e
    BY <1>0, <2>3 DEF FromEnd
  <2>6. QED
    BY <1>0, <1>2, <2>3, <2>4, <2>5
<1>3. QED
  BY <1>1, <1>2

(* A point a period after the last one may be added to a line. *)
LEMMA PushLine ==
  ASSUME NEW seg \in Nat, NEW l, Line(l, seg), NEW e, e.ts \in Int,
         Len(l) > 0 => e.ts - FromEnd(l, 0).ts >= seg
  PROVE  Line(PushBack(l, e), seg)
<1> DEFINE p == PushBack(l, e)
<1>1. /\ IsList(p)
      /\ Len(l) \in Nat
      /\ Len(p) = IF Len(l) < MaxLen THEN Len(l) + 1 ELSE MaxLen
      /\ FromEnd(p, 0) = e
      /\ \A n \in Steps(p) : n > 0 => n - 1 \in Steps(l) /\ FromEnd(p, n) = FromEnd(l, n - 1)
  BY PushBackShape DEF Line
<1>2. /\ \A n \in Steps(l) : FromEnd(l, n).ts \in Int
      /\ \A m, n \in Steps(l) : m < n => FromEnd(l, m).ts - FromEnd(l, n).ts >= seg
  BY DEF Line, Spaced
<1>3. MaxLen \in Nat /\ Len(p) \in Nat /\ Len(p) <= MaxLen
  BY <1>1, KLineAssumption
<1> HIDE DEF p
<1>4. \A n \in Steps(p) : FromEnd(p, n).ts \in Int
  <2> TAKE n \in Steps(p)
  <2>1. n = 0 \/ n > 0
    BY <1>3 DEF Steps
  <2>2. QED
    BY <1>1, <1>2, <2>1
<1>5. ASSUME NEW m \in Steps(p), NEW n \in Steps(p), m < n
      PROVE  FromEnd(p, m).ts - FromEnd(p, n).ts >= seg
  <2>1. m \in Nat /\ n \in Nat /\ n > 0
    BY <1>3, <1>5 DEF Steps
  <2>2. n - 1 \in Steps(l) /\ FromEnd(p, n) = FromEnd(l, n - 1)
    BY <1>1, <2>1
  <2>3. Len(l) > 0 /\ 0 \in Steps(l)
    BY <1>1, <2>1, <2>2 DEF Steps
  <2>4. CASE m = 0
    <3>1. e.ts - FromEnd(l, 0).ts >= seg /\ FromEnd(l, 0).ts \in Int /\ FromEnd(l, n - 1).ts \in Int
      BY <1>2, <2>2, <2>3
    <3>2. n - 1 = 0 \/ FromEnd(l, 0).ts - FromEnd(l, n - 1).ts >= seg
      BY <1>2, <2>1, <2>2, <2>3
    <3>3. e.ts - FromEnd(l, n - 1).ts >= seg
      BY <3>1, <3>2
    <3>4. QED
      BY <1>1, <2>2, <2>4, <3>3
  <2>5. CASE m > 0
    <3>1. m - 1 \in Steps(l) /\ FromEnd(p, m) = FromEnd(l, m - 1)
      BY <1>1, <2>5
    <3>2. m - 1 < n - 1
      BY <1>5, <2>1
    <3>3. QED
      BY <1>2, <2>2, <3>1, <3>2
  <2>6. QED
    BY <2>1, <2>4, <2>5
<1>6. QED
  BY <1>1, <1>3, <1>4, <1>5 DEF Line, Spaced, p

(* Points for the same candle keep two lines aligned. *)
LEMMA PushAligned ==
  ASSUME NEW l, NEW m, IsList(l), IsList(m), Len(l) <= MaxLen, Len(m) <= MaxLen,
         Len(l) <= Len(m), Aligned(l, m), NEW e, NEW f, e.ts = f.ts
  PROVE  Aligned(PushBack(l, e), PushBack(m, f)) /\ Len(PushBack(l, e)) <= Len(PushBack(m, f))
<1> DEFINE p == PushBack(l, e)
           q == PushBack(m, f)
<1>1. /\ Len(l) \in Nat
      /\ Len(p) = IF Len(l) < MaxLen THEN Len(l) + 1 ELSE MaxLen
      /\ FromEnd(p, 0) = e
      /\ \A n \in Steps(p) : n > 0 => n - 1 \in Steps(l) /\ FromEnd(p, n) = FromEnd(l, n - 1)
  BY PushBackShape
<1>2. /\ Len(m) \in Nat
      /\ Len(q) = IF Len(m) < MaxLen THEN Len(m) + 1 ELSE MaxLen
      /\ FromEnd(q, 0) = f
      /\ \A n \in Steps(q) : n > 0 => n - 1 \in Steps(m) /\ FromEnd(q, n) = FromEnd(m, n - 1)
  BY PushBackShape
<1> HIDE DEF p, q
<1>3. MaxLen \in Nat /\ Len(p) \in Nat /\ Len(q) \in Nat /\ Len(p) <= Len(q)
  BY <1>1, <1>2, KLineAssumption
<1>4. ASSUME NEW n \in Steps(p)
      PROVE  FromEnd(p, n).ts = FromEnd(q, n).ts
  <2>1. n \in Steps(q) /\ (n = 0 \/ n > 0)
    BY <1>3 DEF Steps
  <2>2. CASE n = 0
    BY <1>1, <1>2, <2>2
  <2>3. CASE n > 0
    BY <1>1, <1>2, <2>1, <2>3 DEF Aligned
  <2>4. QED
    BY <2>1, <2>2, <2>3
<1>5. QED
  BY <1>3, <1>4 DEF Aligned, p, q

-----------------------------------------------------------------------------
(* Handlers.                                                               *)

(* A candle later than what is stored by a period. *)
Later(r, seg, k) == Len(r.kl) > 0 => k.ts - FromEnd(r.kl, 0).ts >= seg

(* A line that has no point after the newest candle takes one for a candle  *)
(* a period later, and then ends at that candle.                           *)
LEMMA LineGrows ==
  ASSUME NEW seg \in Nat, NEW kl, Line(kl, seg), NEW l, Line(l, seg), Drawn(l, kl),
         NEW k, k.ts \in Int, Len(kl) > 0 => k.ts - FromEnd(kl, 0).ts >= seg,
         NEW p, p.ts = k.ts
  PROVE  Line(PushBack(l, p), seg) /\ Drawn(PushBack(l, p), PushBack(kl, k))
<1>1. Len(l) \in Nat /\ Len(kl) \in Nat
  BY ListAppend DEF Line
<1>2. ASSUME Len(l) > 0 PROVE p.ts - FromEnd(l, 0).ts >= seg
  <2>1. Len(kl) > 0 /\ FromEnd(l, 0).ts <= FromEnd(kl, 0).ts
    BY <1>2 DEF Drawn
  <2>2. FromEnd(l, 0).ts \in Int /\ FromEnd(kl, 0).ts \in Int
    BY <1>1, <1>2, <2>1 DEF Line, Spaced, Steps
  <2>3. QED
    BY <2>1, <2>2
<1>3. Line(PushBack(l, p), seg)
  BY <1>2, PushLine
<1>4. FromEnd(PushBack(l, p), 0) = p /\ FromEnd(PushBack(kl, k), 0) = k
      /\ Len(PushBack(kl, k)) = IF Len(kl) < MaxLen THEN Len(kl) + 1 ELSE MaxLen
  BY PushBackShape DEF Line
<1>5. Len(PushBack(kl, k)) > 0
  BY <1>1, <1>4, KLineAssumption
<1>6. QED
  BY <1>3, <1>4, <1>5 DEF Drawn

(* A line that is left alone stays behind a newer candle. *)
LEMMA LineKept ==
  ASSUME NEW seg \in Nat, NEW kl, Line(kl, seg), NEW l, Line(l, seg), Drawn(l, kl),
         NEW k, k.ts \in Int, Len(kl) > 0 => k.ts - FromEnd(kl, 0).ts >= seg
  PROVE  Drawn(l, PushBack(kl, k))
<1>1. Len(l) \in Nat /\ Len(kl) \in Nat
  BY ListAppend DEF Line
<1>2. FromEnd(PushBack(kl, k), 0) = k
      /\ Len(PushBack(kl, k)) = IF Len(kl) < MaxLen THEN Len(kl) + 1 ELSE MaxLen
  BY PushBackShape DEF Line
<1>3. ASSUME Len(l) > 0 PROVE FromEnd(l, 0).ts <= k.ts
  <2>1. Len(kl) > 0 /\ FromEnd(l, 0).ts <= FromEnd(kl, 0).ts
    BY <1>3 DEF Drawn
  <2>2. FromEnd(l, 0).ts \in Int /\ FromEnd(kl, 0).ts \in Int
    BY <1>1, <1>3, <2>1 DEF Line, Spaced, Steps
  <2>3. QED
    BY <2>1, <2>2
<1>4. QED
  BY <1>1, <1>2, <1>3, KLineAssumption DEF Drawn

(* A candle of a new period leaves candles and lines sound. *)
LEMMA NewCandleSound ==
  ASSUME NEW seg \in Nat, NEW r, Sound(r, seg), NEW k, k.ts \in Int, Later(r, seg, k)
  PROVE  Sound(NewCandle(r, k), seg)
<1> DEFINE kl == PushBack(r.kl, k)
           sum7 == Slow * sumRangeKList(kl, Fast)
           sum30 == Fast * sumRangeKList(kl, Slow)
           delta == IF sum7 < sum30 THEN sum30 - sum7 ELSE sum7 - sum30
           p7 == [ts |-> k.ts, val |-> sum7]
           p30 == [ts |-> k.ts, val |-> sum30]
           pd == [ts |-> k.ts, val |-> delta]
           ma7 == IF Len(kl) >= Fast THEN PushBack(r.ma7, p7) ELSE r.ma7
           ma30 == PushBack(r.ma30, p30)
           diff == PushBack(r.diff, pd)
           fcs == TryCrossPoint(ma7, ma30, r.fcs)
<1>1. p7.ts = k.ts /\ p30.ts = k.ts /\ pd.ts = k.ts
  OBVIOUS
<1>2. NewCandle(r, k) =
        IF Len(kl) < Slow THEN [r EXCEPT !.kl = kl, !.ma7 = ma7]
        ELSE [kl |-> kl, ma7 |-> ma7, ma30 |-> ma30, diff |-> diff, fcs |-> fcs]
  BY DEF NewCandle
<1>3. /\ Len(r.kl) \in Nat /\ Len(r.ma7) \in Nat /\ Len(r.ma30) \in Nat /\ Len(r.diff) \in Nat
  BY ListAppend DEF Sound, Line
<1>4. /\ Len(kl) = IF Len(r.kl) < MaxLen THEN Len(r.kl) + 1 ELSE MaxLen
      /\ Len(PushBack(r.ma7, p7)) = IF Len(r.ma7) < MaxLen THEN Len(r.ma7) + 1 ELSE MaxLen
      /\ Len(ma30) = IF Len(r.ma30) < MaxLen THEN Len(r.ma30) + 1 ELSE MaxLen
      /\ Len(diff) = IF Len(r.diff) < MaxLen THEN Len(r.diff) + 1 ELSE MaxLen
  BY PushBackShape DEF Sound, Line
<1> HIDE DEF sum7, sum30, delta, p7, p30, pd, fcs
<1>5. Len(r.kl) > 0 => k.ts - FromEnd(r.kl, 0).ts >= seg
  BY DEF Later
<1>6. Line(kl, seg)
  BY <1>5, PushLine DEF Sound
<1>7. /\ Line(PushBack(r.ma7, p7), seg) /\ Drawn(PushBack(r.ma7, p7), kl)
      /\ Line(ma30, seg) /\ Drawn(ma30, kl)
      /\ Line(diff, seg) /\ Drawn(diff, kl)
  BY <1>1, <1>5, LineGrows DEF Sound
<1>8. Drawn(r.ma7, kl) /\ Drawn(r.ma30, kl) /\ Drawn(r.diff, kl)
  BY <1>5, LineKept DEF Sound
<1>9. Line(ma7, seg) /\ Drawn(ma7, kl)
  BY <1>7, <1>8 DEF Sound
<1>10. /\ IsList(r.ma7) /\ IsList(r.ma30) /\ IsList(r.diff)
       /\ Len(r.ma7) <= MaxLen /\ Len(r.ma30) <= MaxLen /\ Len(r.diff) <= MaxLen
       /\ Len(r.diff) = Len(r.ma30) /\ Len(r.ma30) <= Len(r.ma7)
       /\ Aligned(r.ma30, r.ma7) /\ Aligned(r.diff, r.ma7)
       /\ (Len(r.ma30) > 0 => Len(r.kl) >= Slow)
       /\ r = [kl |-> r.kl, ma7 |-> r.ma7, ma30 |-> r.ma30, diff |-> r.diff, fcs |-> r.fcs]
  BY DEF Sound, Line
<1>11. CASE Len(kl) < Slow
  <2>1. Len(r.ma30) = 0 /\ Len(r.diff) = 0
    BY <1>3, <1>4, <1>10, <1>11, KLineAssumption
  <2>2. Aligned(r.ma30, ma7) /\ Aligned(r.diff, ma7)
    BY <2>1 DEF Aligned, Steps
  <2>3. Len(r.ma30) <= Len(ma7)
    BY <1>3, <1>4, <2>1, KLineAssumption
  <2>4. NewCandle(r, k) = [r EXCEPT !.kl = kl, !.ma7 = ma7]
    BY <1>2, <1>11
  <2> HIDE DEF kl, ma7
  <2>5. NewCandle(r, k) = [kl |-> kl, ma7 |-> ma7, ma30 |-> r.ma30, diff |-> r.diff, fcs |-> r.fcs]
    BY <1>10, <2>4
  <2>6. QED
    BY <1>6, <1>8, <1>9, <1>10, <2>1, <2>2, <2>3, <2>5 DEF Sound
<1>12. CASE ~(Len(kl) < Slow)
  <2>1. Len(kl) \in Nat /\ Len(kl) >= Slow /\ Len(kl) >= Fast
    BY <1>3, <1>4, <1>12, KLineAssumption
  <2>2. ma7 = PushBack(r.ma7, p7)
    BY <2>1
  <2>3. Len(diff) = Len(ma30)
    BY <1>3, <1>4, <1>10
  <2>4. Aligned(ma30, ma7) /\ Len(ma30) <= Len(ma7)
    BY <1>1, <1>10, <2>2, PushAligned
  <2>5. Aligned(diff, ma7)
    BY <1>1, <1>10, <2>2, PushAligned
  <2>6. NewCandle(r, k) = [kl |-> kl, ma7 |-> ma7, ma30 |-> ma30, diff |-> diff, fcs |-> fcs]
    BY <1>2, <1>12
  <2> HIDE DEF kl, ma7, ma30, diff
  <2>7. QED
    BY <1>6, <1>7, <1>9, <2>1, <2>3, <2>4, <2>5, <2>6 DEF Sound
<1>13. QED
  BY <1>11, <1>12

(* A candle of the same period in the place of the last one. *)
LEMMA ReplaceLast ==
  ASSUME NEW seg \in Nat, NEW l, Line(l, seg), Len(l) > 0, NEW k, k.ts \in Int,
         k.ts >= FromEnd(l, 0).ts
  PROVE  /\ Line([l EXCEPT ![Len(l)] = k], seg)
         /\ Len([l EXCEPT ![Len(l)] = k]) = Len(l)
         /\ FromEnd([l EXCEPT ![Len(l)] = k], 0) = k
<1> DEFINE p == [l EXCEPT ![Len(l)] = k]
<1>1. PICK S : l \in Seq(S)
  BY DEF Line, IsList
<1>2. l \in Seq(S \cup {k}) /\ Len(l) \in Nat
  BY <1>1
<1>3. p \in Seq(S \cup {k}) /\ Len(p) = Len(l) /\ p[Len(l)] = k
      /\ \A i \in 1 .. Len(l) - 1 : p[i] = l[i]
  BY <1>2
<1>4. /\ \A n \in Steps(l) : FromEnd(l, n).ts \in Int
      /\ \A m, n \in Steps(l) : m < n => FromEnd(l, m).ts - FromEnd(l, n).ts >= seg
      /\ Len(l) <= MaxLen
  BY DEF Line, Spaced
<1> HIDE DEF p
<1>5. FromEnd(p, 0) = k
  BY <1>2, <1>3 DEF FromEnd
<1>6. ASSUME NEW n \in Steps(p), n > 0 PROVE n \in Steps(l) /\ FromEnd(p, n) = FromEnd(l, n)
  <2>1. n \in Int /\ Len(l) - n \in 1 .. Len(l) - 1
    BY <1>2, <1>3, <1>6 DEF Steps
  <2>2. QED
    BY <1>3, <1>6, <2>1 DEF FromEnd, Steps
<1>7. \A n \in Steps(p) : FromEnd(p, n).ts \in Int
  <2> TAKE n \in Steps(p)
  <2>1. n = 0 \/ n > 0
    BY <1>2, <1>3 DEF Steps
  <2>2. QED
    BY <1>4, <1>5, <1>6, <2>1
<1>8. ASSUME NEW m \in Steps(p), NEW n \in Steps(p), m < n
      PROVE  FromEnd(p, m).ts - FromEnd(p, n).ts >= seg
  <2>1. m \in Nat /\ n \in Nat /\ n > 0 /\ 0 \in Steps(l)
    BY <1>2, <1>3, <1>8 DEF Steps
  <2>2. n \in Steps(l) /\ FromEnd(p, n) = FromEnd(l, n)
    BY <1>6, <2>1
  <2>3. CASE m = 0
    <3>1. FromEnd(l, 0).ts - FromEnd(l, n).ts >= seg
          /\ FromEnd(l, 0).ts \in Int /\ FromEnd(l, n).ts \in Int
      BY <1>4, <2>1, <2>2
    <3>2. k.ts - FromEnd(l, n).ts >= seg
      BY <3>1
    <3>3. QED
      BY <1>5, <2>2, <2>3, <3>2
  <2>4. CASE m > 0
    BY <1>4, <1>6, <1>8, <2>2, <2>4
  <2>5. QED
    BY <2>1, <2>3, <2>4
<1>9. QED
  BY <1>3, <1>4, <1>5, <1>7, <1>8 DEF Line, Spaced, IsList, p

(* Every candle, whatever its time, leaves candles and lines sound. *)
LEMMA AddSound ==
  ASSUME NEW seg \in Nat, NEW r, Sound(r, seg), NEW k, k.ts \in Int
  PROVE  Sound(addImpl(r, seg, k), seg)
<1>1. Len(r.kl) \in Nat /\ (r.kl # <<>> <=> Len(r.kl) > 0)
  <2>1. PICK S : r.kl \in Seq(S)
    BY DEF Sound, Line, IsList
  <2>2. QED
    BY <2>1
<1>2. Back(r.kl) = FromEnd(r.kl, 0)
  BY <1>1 DEF Back, FromEnd
<1>3. Len(r.kl) > 0 => FromEnd(r.kl, 0).ts \in Int
  BY <1>1 DEF Sound, Line, Spaced, Steps
<1> DEFINE diff == k.ts - Back(r.kl).ts
<1>4. addImpl(r, seg, k) =
        IF r.kl # <<>> /\ diff < 0 THEN r
        ELSE IF r.kl # <<>> /\ diff < seg THEN [r EXCEPT !.kl[Len(r.kl)] = k]
        ELSE NewCandle(r, k)
  BY DEF addImpl
<1>5. CASE r.kl # <<>> /\ diff < 0
  BY <1>4, <1>5
<1>6. CASE ~(r.kl # <<>> /\ diff < 0) /\ (r.kl # <<>> /\ diff < seg)
  <2> DEFINE kl == [r.kl EXCEPT ![Len(r.kl)] = k]
  <2>1. Len(r.kl) > 0 /\ FromEnd(r.kl, 0).ts \in Int /\ k.ts >= FromEnd(r.kl, 0).ts
    BY <1>1, <1>2, <1>3, <1>6
  <2>2. Line(kl, seg) /\ Len(kl) = Len(r.kl) /\ FromEnd(kl, 0) = k
    BY <2>1, ReplaceLast DEF Sound
  <2>3. addImpl(r, seg, k) = [r EXCEPT !.kl = kl]
    BY <1>4, <1>6
  <2> HIDE DEF kl
  <2>4. addImpl(r, seg, k) =
          [kl |-> kl, ma7 |-> r.ma7, ma30 |-> r.ma30, diff |-> r.diff, fcs |-> r.fcs]
    BY <2>3 DEF Sound
  <2>5. ASSUME NEW l, Line(l, seg), Drawn(l, r.kl) PROVE Drawn(l, kl)
    <3>1. Len(l) > 0 => FromEnd(l, 0).ts \in Int
      BY ListAppend, <2>5 DEF Line, Spaced, Steps
    <3>2. QED
      BY <2>1, <2>2, <2>5, <3>1 DEF Drawn
  <2>6. Drawn(r.ma7, kl) /\ Drawn(r.ma30, kl) /\ Drawn(r.diff, kl)
    BY <2>5 DEF Sound
  <2>7. QED
    BY <2>2, <2>4, <2>6 DEF Sound
<1>7. CASE ~(r.kl # <<>> /\ diff < 0) /\ ~(r.kl # <<>> /\ diff < seg)
  <2>1. Later(r, seg, k)
    BY <1>1, <1>2, <1>3, <1>7 DEF Later
  <2>2. QED
    BY <1>4, <1>7, <2>1, NewCandleSound
<1>8. QED
  BY <1>5, <1>6, <1>7

-----------------------------------------------------------------------------
(* The specification.                                                      *)

LEMMA InvInit == Init => Inv
<1> SUFFICES ASSUME Init PROVE Inv
  OBVIOUS
<1>1. now \in Nat /\ rbf = [kind \in Kinds |-> newrbf]
  BY KLineAssumption DEF Init
<1>2. IsList(<<>>) /\ Len(<<>>) = 0
  <2>1. <<>> \in Seq({})
    OBVIOUS
  <2>2. QED
    BY <2>1 DEF IsList
<1>3. \A seg : Line(<<>>, seg) /\ Drawn(<<>>, <<>>) /\ Aligned(<<>>, <<>>)
  BY <1>2, KLineAssumption DEF Line, Spaced, Drawn, Aligned, Steps
<1>4. \A seg : Sound(newrbf, seg)
  BY <1>2, <1>3 DEF Sound, newrbf
<1>5. QED
  BY <1>1, <1>4 DEF Inv

LEMMA InvNext == Inv /\ [Next]_vars => Inv'
<1> SUFFICES ASSUME Inv, [Next]_vars PROVE Inv'
  OBVIOUS
<1>1. ASSUME NEW kind \in Kinds, Notify(kind) PROVE Inv'
  <2>1. PICK ts \in Periods(kind), close \in Closes[kind], as \in getklkind(kind) :
          rbf' = [rbf EXCEPT ![as] =
                    addImpl(@, Seg[as], [ts |-> ts, close |-> close, kind |-> kind])]
    BY <1>1 DEF Notify
  <2>2. ts \in Int
    <3>1. ts \in Start .. now
      BY DEF Periods
    <3>2. QED
      BY <3>1, KLineAssumption DEF Inv
  <2>3. as \in Kinds /\ now' = now
    BY <1>1 DEF getklkind, Notify
  <2>4. Seg[as] \in Nat /\ Sound(rbf[as], Seg[as])
    BY <2>3, KLineAssumption DEF Inv
  <2> DEFINE k == [ts |-> ts, close |-> close, kind |-> kind]
  <2>5. k.ts \in Int
    BY <2>2
  <2> HIDE DEF k
  <2>6. Sound(addImpl(rbf[as], Seg[as], k), Seg[as])
    BY <2>4, <2>5, AddSound
  <2>7. rbf' = [rbf EXCEPT ![as] = addImpl(rbf[as], Seg[as], k)]
    BY <2>1 DEF k
  <2>8. \A other \in Kinds : rbf'[other] =
          IF other = as THEN addImpl(rbf[as], Seg[as], k) ELSE rbf[other]
    BY <2>3, <2>7 DEF Inv
  <2>9. DOMAIN rbf' = Kinds /\ rbf' = [other \in Kinds |-> rbf'[other]]
    BY <2>3, <2>7 DEF Inv
  <2>10. QED
    BY <2>3, <2>6, <2>8, <2>9 DEF Inv
<1>2. CASE Advance
  BY <1>2, KLineAssumption DEF Advance, Inv
<1>3. CASE UNCHANGED vars
  BY <1>3 DEF vars, Inv
<1>4. QED
  BY <1>1, <1>2, <1>3 DEF Next

LEMMA InvAligned == Inv => LinesAligned
<1> SUFFICES ASSUME Inv PROVE LinesAligned
  OBVIOUS
<1>1. ASSUME NEW kind \in Kinds
      PROVE  /\ Len(rbf[kind].diff) = Len(rbf[kind].ma30)
             /\ Len(rbf[kind].ma30) <= Len(rbf[kind].ma7)
             /\ Aligned(rbf[kind].ma30, rbf[kind].ma7)
             /\ Aligned(rbf[kind].diff, rbf[kind].ma7)
  BY DEF Inv, Sound
<1>2. QED
  BY <1>1 DEF LinesAligned, Aligned, FromEnd, Steps

(* A difference of a period or more is at least one period long. *)
LEMMA WholePeriods ==
  ASSUME NEW seg \in Nat, seg > 0, NEW d \in Int, d >= seg
  PROVE  d \div seg >= 1
<1>1. d \div seg \in Int /\ d % seg \in 0 .. seg - 1 /\ d = (seg * (d \div seg)) + (d % seg)
  OBVIOUS
<1> DEFINE q == d \div seg
<1> HIDE DEF q
<1>2. q \in Int /\ seg * q > 0
  BY <1>1 DEF q
<1>3. q >= 1
  BY <1>2
<1>4. QED
  BY <1>3 DEF q

LEMMA InvSlopes == Inv => SlopesDefined
<1> SUFFICES ASSUME Inv, NEW kind \in Kinds, NEW l \in Lines(rbf[kind]),
                    NEW i \in DOMAIN l, NEW j \in DOMAIN l, i < j
             PROVE  (l[j].ts - l[i].ts) \div Seg[kind] >= 1
  BY DEF SlopesDefined
<1>1. Line(l, Seg[kind]) /\ Seg[kind] \in Nat /\ Seg[kind] > 0
  BY KLineAssumption DEF Inv, Sound, Lines
<1>2. Len(l) \in Nat /\ DOMAIN l = 1 .. Len(l)
  <2>1. PICK S : l \in Seq(S)
    BY <1>1 DEF Line, IsList
  <2>2. QED
    BY <2>1
<1> DEFINE m == Len(l) - j
           n == Len(l) - i
<1>3. m \in Steps(l) /\ n \in Steps(l) /\ m < n /\ Len(l) - m = j /\ Len(l) - n = i
  BY <1>2 DEF Steps
<1> HIDE DEF m, n
<1>4. /\ FromEnd(l, m).ts \in Int /\ FromEnd(l, n).ts \in Int
      /\ FromEnd(l, m).ts - FromEnd(l, n).ts >= Seg[kind]
  BY <1>1, <1>3 DEF Line, Spaced
<1>5. FromEnd(l, m) = l[j] /\ FromEnd(l, n) = l[i]
  BY <1>3 DEF FromEnd
<1>6. l[j].ts - l[i].ts \in Int /\ l[j].ts - l[i].ts >= Seg[kind]
  BY <1>4, <1>5
<1>7. QED
  BY <1>1, <1>6, WholePeriods

LEMMA InvAlways == Spec => []Inv
<1>1. QED
  BY InvInit, InvNext, PTL DEF Spec

(* The lines a crossing and a difference are computed from belong to the    *)
(* same candles, for every length of averages and lists (magraph.go).       *)
THEOREM AlignedCorrect == Spec => []LinesAligned
<1>1. QED
  BY InvAlways, InvAligned, PTL

(* No slope divides by zero periods, whatever candles are pushed and in     *)
(* which order (klmem.go addImpl, magraph.go slopeFactor).                  *)
THEOREM SlopesCorrect == Spec => []SlopesDefined
<1>1. QED
  BY InvAlways, InvSlopes, PTL

-----------------------------------------------------------------------------
(* Sums of closes.                                                         *)

(* A set of natural numbers has a least one. *)
LEMMA LeastNatural ==
  ASSUME NEW T, T \subseteq Nat, T # {}
  PROVE  \E x \in T : \A y \in T : ~(y < x)
<1> DEFINE R == OpToRel(<, Nat)
<1>1. IsWellFoundedOn(R, Nat)
  BY NatLessThanWellFounded
<1>2. \A x, y \in Nat : y < x => <<y, x>> \in R
  BY DEF OpToRel
<1> HIDE DEF R
<1>3. PICK x \in T : \A y \in T : ~(<<y, x>> \in R)
  BY <1>1, WFMin
<1>4. QED
  BY <1>2, <1>3

(* The equation by which sumRangeKList defines its function. *)
IsSum(f, kl, n) ==
  f = [i \in 0..n |-> IF i = 0 THEN 0 ELSE f[i - 1] + kl[Len(kl) - i + 1].close]

(* The equation has a solution. *)
LEMMA SumExists ==
  ASSUME NEW kl, NEW n \in Nat
  PROVE  \E f : IsSum(f, kl, n)
<1> DEFINE Bad == {m \in Nat : ~ \E f : IsSum(f, kl, m)}
<1>1. SUFFICES ASSUME Bad # {} PROVE FALSE
  OBVIOUS
<1>2. PICK m \in Bad : \A y \in Bad : ~(y < m)
  <2>1. Bad \subseteq Nat
    OBVIOUS
  <2> HIDE DEF Bad
  <2>2. QED
    BY <1>1, <2>1, LeastNatural
<1>3. m \in Nat /\ ~ \E f : IsSum(f, kl, m)
  OBVIOUS
<1>4. CASE m = 0
  <2> DEFINE f == [i \in 0..0 |-> 0]
  <2>1. f = [i \in 0..0 |-> IF i = 0 THEN 0 ELSE f[i - 1] + kl[Len(kl) - i + 1].close]
    OBVIOUS
  <2>2. IsSum(f, kl, m)
    BY <1>4, <2>1 DEF IsSum
  <2>3. QED
    BY <1>3, <2>2
<1>5. CASE m # 0
  <2>1. m - 1 \in Nat /\ m - 1 < m
    BY <1>3, <1>5
  <2>2. PICK f : IsSum(f, kl, m - 1)
    BY <1>2, <2>1
  <2> DEFINE g == [i \in 0..m |-> IF i = m THEN f[m - 1] + kl[Len(kl) - m + 1].close ELSE f[i]]
  <2>3. \A i \in 0 .. m - 1 : f[i] = IF i = 0 THEN 0 ELSE f[i - 1] + kl[Len(kl) - i + 1].close
    BY <2>2 DEF IsSum
  <2>4. \A i \in 0..m : g[i] = IF i = 0 THEN 0 ELSE g[i - 1] + kl[Len(kl) - i + 1].close
    <3> TAKE i \in 0..m
    <3>1. i = m \/ i \in 0 .. m - 1
      BY <1>3
    <3>2. i \in 0..m /\ i \in Int
      BY <1>3
    <3>3. i = 0 \/ (i - 1 \in 0..m /\ i - 1 # m /\ g[i - 1] = f[i - 1])
      BY <1>3, <3>2
    <3>4. CASE i = m
      BY <1>5, <3>3, <3>4
    <3>5. CASE i \in 0 .. m - 1 /\ i # m
      <4>1. g[i] = f[i]
        BY <3>5
      <4> HIDE DEF g
      <4>2. QED
        BY <2>3, <3>3, <3>5, <4>1
    <3>6. QED
      BY <3>1, <3>4, <3>5
  <2>5. g = [i \in 0..m |-> g[i]]
    OBVIOUS
  <2> HIDE DEF g
  <2>6. IsSum(g, kl, m)
    BY <2>4, <2>5 DEF IsSum
  <2>7. QED
    BY <1>3, <2>6
<1>6. QED
  BY <1>4, <1>5

(* The sum of the last n closes is a number (magraph.go sumRangeKList). *)
LEMMA SumTyped ==
  ASSUME NEW kl, NEW n \in Nat, \A i \in 1..n : kl[Len(kl) - i + 1].close \in Nat
  PROVE  sumRangeKList(kl, n) \in Nat
<1> DEFINE sum == CHOOSE f : IsSum(f, kl, n)
<1>1. IsSum(sum, kl, n)
  BY SumExists
<1>2. sumRangeKList(kl, n) = sum[n]
  BY DEF sumRangeKList, IsSum
<1> HIDE DEF sum
<1>3. \A i \in 0..n : sum[i] = IF i = 0 THEN 0 ELSE sum[i - 1] + kl[Len(kl) - i + 1].close
  BY <1>1 DEF IsSum
<1> DEFINE Bad == {m \in 0..n : sum[m] \notin Nat}
<1>4. SUFFICES ASSUME Bad # {} PROVE FALSE
  BY <1>2
<1>5. PICK m \in Bad : \A y \in Bad : ~(y < m)
  <2>1. Bad \subseteq Nat
    OBVIOUS
  <2> HIDE DEF Bad
  <2>2. QED
    BY <1>4, <2>1, LeastNatural
<1>6. m \in 0..n /\ sum[m] \notin Nat
  OBVIOUS
<1>7. m # 0
  BY <1>3, <1>6
<1>8. m - 1 \in 0..n /\ m - 1 < m /\ m \in 1..n
  BY <1>6, <1>7
<1>9. sum[m - 1] \in Nat
  BY <1>5, <1>8
<1>10. sum[m] = sum[m - 1] + kl[Len(kl) - m + 1].close
  BY <1>3, <1>6, <1>7
<1>11. QED
  BY <1>6, <1>8, <1>9, <1>10

-----------------------------------------------------------------------------
(* Types.                                                                  *)

(* PushBack keeps the type of a list and its bound. *)
LEMMA PushBackTyped ==
  ASSUME NEW S, NEW l \in Seq(S), Len(l) <= MaxLen, NEW e \in S
  PROVE  /\ PushBack(l, e) \in Seq(S)
         /\ Len(PushBack(l, e)) <= MaxLen
         /\ Len(PushBack(l, e)) \in Nat
<1>1. CASE Len(l) < MaxLen
  BY <1>1, KLineAssumption DEF PushBack
<1>2. CASE ~(Len(l) < MaxLen)
  <2>1. Len(l) = MaxLen /\ l # <<>> /\ MaxLen \in Nat
    BY <1>2, KLineAssumption
  <2>2. Tail(l) \in Seq(S) /\ Len(Tail(l)) = MaxLen - 1
    BY <2>1
  <2>3. PushBack(l, e) = Append(Tail(l), e)
    BY <1>2 DEF PushBack
  <2>4. QED
    BY <2>1, <2>2, <2>3
<1>3. QED
  BY <1>1, <1>2

(* The bounds of the lists of one kind. *)
Bounded(r) ==
  /\ Len(r.kl) <= MaxLen /\ Len(r.ma7) <= MaxLen
  /\ Len(r.ma30) <= MaxLen /\ Len(r.diff) <= MaxLen

LEMMA CloseTyped == ASSUME NEW k \in klst PROVE k.close \in Nat /\ k.ts \in Nat
<1>1. PICK kind \in Kinds : k.close \in Closes[kind]
  BY DEF klst
<1>2. Closes[kind] \subseteq Nat
  BY KLineAssumption
<1>3. QED
  BY <1>1, <1>2 DEF klst

(* An average is a number once there are candles enough. *)
LEMMA AverageTyped ==
  ASSUME NEW kl \in Seq(klst), NEW n \in Nat, Len(kl) >= n, NEW factor \in Nat
  PROVE  factor * sumRangeKList(kl, n) \in Nat
<1>1. \A i \in 1..n : Len(kl) - i + 1 \in 1 .. Len(kl)
  OBVIOUS
<1>2. \A i \in 1..n : kl[Len(kl) - i + 1] \in klst
  BY <1>1
<1>3. \A i \in 1..n : kl[Len(kl) - i + 1].close \in Nat
  BY <1>2, CloseTyped
<1>4. sumRangeKList(kl, n) \in Nat
  BY <1>3, SumTyped
<1> DEFINE s == sumRangeKList(kl, n)
<1> HIDE DEF s
<1>5. s \in Nat
  BY <1>4 DEF s
<1>6. factor * s \in Nat
  BY <1>5
<1>7. QED
  BY <1>6 DEF s

LEMMA CrossTyped ==
  ASSUME NEW ma7, NEW ma30, NEW fcs \in Directions
  PROVE  TryCrossPoint(ma7, ma30, fcs) \in Directions
BY DEF TryCrossPoint, Direction, Directions

(* A new candle keeps types and bounds. *)
LEMMA NewCandleTyped ==
  ASSUME NEW r \in Rbf, Bounded(r), NEW k \in klst
  PROVE  NewCandle(r, k) \in Rbf /\ Bounded(NewCandle(r, k))
<1> DEFINE kl == PushBack(r.kl, k)
           sum7 == Slow * sumRangeKList(kl, Fast)
           sum30 == Fast * sumRangeKList(kl, Slow)
           delta == IF sum7 < sum30 THEN sum30 - sum7 ELSE sum7 - sum30
           p7 == [ts |-> k.ts, val |-> sum7]
           p30 == [ts |-> k.ts, val |-> sum30]
           pd == [ts |-> k.ts, val |-> delta]
           ma7 == IF Len(kl) >= Fast THEN PushBack(r.ma7, p7) ELSE r.ma7
           ma30 == PushBack(r.ma30, p30)
           diff == PushBack(r.diff, pd)
           fcs == TryCrossPoint(ma7, ma30, r.fcs)
<1>1. NewCandle(r, k) =
        IF Len(kl) < Slow THEN [r EXCEPT !.kl = kl, !.ma7 = ma7]
        ELSE [kl |-> kl, ma7 |-> ma7, ma30 |-> ma30, diff |-> diff, fcs |-> fcs]
  BY DEF NewCandle
<1>2. /\ r.kl \in Seq(klst) /\ r.ma7 \in Seq(Point) /\ r.ma30 \in Seq(Point)
      /\ r.diff \in Seq(Point) /\ r.fcs \in Directions
      /\ Len(r.kl) <= MaxLen /\ Len(r.ma7) <= MaxLen
      /\ Len(r.ma30) <= MaxLen /\ Len(r.diff) <= MaxLen
  BY DEF Rbf, Bounded
<1>3. kl \in Seq(klst) /\ Len(kl) <= MaxLen /\ Len(kl) \in Nat
  BY <1>2, PushBackTyped
<1>4. fcs \in Directions
  BY <1>2, CrossTyped
<1>5. k.ts \in Nat
  BY CloseTyped
<1>6. Len(kl) >= Fast => sum7 \in Nat
  BY <1>3, AverageTyped, KLineAssumption
<1>7. Len(kl) >= Slow => sum30 \in Nat
  BY <1>3, AverageTyped, KLineAssumption
<1>8. Len(kl) >= Slow => Len(kl) >= Fast
  BY <1>3, KLineAssumption
<1> HIDE DEF kl, sum7, sum30, fcs
<1>9. Len(kl) >= Fast => p7 \in Point
  BY <1>5, <1>6 DEF Point
<1>10. Len(kl) >= Slow => p30 \in Point /\ pd \in Point
  <2>1. SUFFICES ASSUME Len(kl) >= Slow PROVE p30 \in Point /\ pd \in Point
    OBVIOUS
  <2>2. sum7 \in Nat /\ sum30 \in Nat
    BY <1>6, <1>7, <1>8, <2>1
  <2>3. delta \in Nat
    BY <2>2
  <2> HIDE DEF delta
  <2>4. QED
    BY <1>5, <2>2, <2>3 DEF Point
<1> HIDE DEF p7, p30, pd
<1>11. ma7 \in Seq(Point) /\ Len(ma7) <= MaxLen
  <2>1. CASE Len(kl) >= Fast
    BY <1>2, <1>9, <2>1, PushBackTyped
  <2>2. CASE ~(Len(kl) >= Fast)
    BY <1>2, <2>2
  <2>3. QED
    BY <2>1, <2>2
<1>12. Len(kl) >= Slow => /\ ma30 \in Seq(Point) /\ Len(ma30) <= MaxLen
                         /\ diff \in Seq(Point) /\ Len(diff) <= MaxLen
  BY <1>2, <1>10, PushBackTyped
<1> HIDE DEF ma7, ma30, diff
<1>13. CASE Len(kl) < Slow
  BY <1>1, <1>2, <1>3, <1>11, <1>13 DEF Rbf, Bounded
<1>14. CASE ~(Len(kl) < Slow)
  <2>1. Len(kl) >= Slow
    BY <1>3, <1>14, KLineAssumption
  <2>2. NewCandle(r, k) = [kl |-> kl, ma7 |-> ma7, ma30 |-> ma30, diff |-> diff, fcs |-> fcs]
    BY <1>1, <1>14
  <2>3. QED
    BY <1>3, <1>4, <1>11, <1>12, <2>1, <2>2 DEF Rbf, Bounded
<1>15. QED
  BY <1>13, <1>14

(* So does every candle, whatever its time. *)
LEMMA AddTyped ==
  ASSUME NEW seg \in Nat, NEW r \in Rbf, Bounded(r), NEW k \in klst
  PROVE  addImpl(r, seg, k) \in Rbf /\ Bounded(addImpl(r, seg, k))
<1> DEFINE diff == k.ts - Back(r.kl).ts
<1>1. addImpl(r, seg, k) =
        IF r.kl # <<>> /\ diff < 0 THEN r
        ELSE IF r.kl # <<>> /\ diff < seg THEN [r EXCEPT !.kl[Len(r.kl)] = k]
        ELSE NewCandle(r, k)
  BY DEF addImpl
<1> HIDE DEF diff
<1>2. CASE r.kl # <<>> /\ diff < 0
  BY <1>1, <1>2
<1>3. CASE ~(r.kl # <<>> /\ diff < 0) /\ (r.kl # <<>> /\ diff < seg)
  <2> DEFINE kl == [r.kl EXCEPT ![Len(r.kl)] = k]
  <2>1. r.kl \in Seq(klst)
    BY DEF Rbf
  <2>2. Len(r.kl) \in 1 .. Len(r.kl)
    BY <1>3, <2>1
  <2>3. kl \in Seq(klst) /\ Len(kl) = Len(r.kl)
    <3>1. ASSUME NEW l \in Seq(klst), NEW i \in 1 .. Len(l)
          PROVE  [l EXCEPT ![i] = k] \in Seq(klst) /\ Len([l EXCEPT ![i] = k]) = Len(l)
      BY <3>1
    <3>2. QED
      BY <2>1, <2>2, <3>1
  <2>4. addImpl(r, seg, k) = [r EXCEPT !.kl = kl]
    BY <1>1, <1>3
  <2> HIDE DEF kl
  <2>5. QED
    BY <2>3, <2>4 DEF Rbf, Bounded
<1>4. CASE ~(r.kl # <<>> /\ diff < 0) /\ ~(r.kl # <<>> /\ diff < seg)
  BY <1>1, <1>4, NewCandleTyped
<1>5. QED
  BY <1>2, <1>3, <1>4

LEMMA TypeInit == Init => TypeOK
<1> SUFFICES ASSUME Init PROVE TypeOK
  OBVIOUS
<1>1. newrbf \in Rbf
  BY DEF newrbf, Rbf, Directions
<1>2. Len(newrbf.kl) = 0 /\ Len(newrbf.ma7) = 0 /\ Len(newrbf.ma30) = 0 /\ Len(newrbf.diff) = 0
  BY DEF newrbf
<1>3. QED
  BY <1>1, <1>2, KLineAssumption DEF Init, TypeOK

LEMMA TypeNext == TypeOK /\ [Next]_vars => TypeOK'
<1> SUFFICES ASSUME TypeOK, [Next]_vars PROVE TypeOK'
  OBVIOUS
<1>1. ASSUME NEW kind \in Kinds, Notify(kind) PROVE TypeOK'
  <2>1. PICK ts \in Periods(kind), close \in Closes[kind], as \in getklkind(kind) :
          rbf' = [rbf EXCEPT ![as] =
                    addImpl(@, Seg[as], [ts |-> ts, close |-> close, kind |-> kind])]
    BY <1>1 DEF Notify
  <2>2. ts \in Nat
    <3>1. ts \in Start .. now
      BY DEF Periods
    <3>2. QED
      BY <3>1, KLineAssumption DEF TypeOK
  <2>3. as \in Kinds /\ now' = now /\ Seg[as] \in Nat
    BY <1>1, KLineAssumption DEF getklkind, Notify
  <2> DEFINE k == [ts |-> ts, close |-> close, kind |-> kind]
  <2>4. k \in klst
    BY <2>2 DEF klst
  <2>5. rbf[as] \in Rbf /\ Bounded(rbf[as])
    BY <2>3 DEF TypeOK, Bounded
  <2> HIDE DEF k
  <2>6. addImpl(rbf[as], Seg[as], k) \in Rbf /\ Bounded(addImpl(rbf[as], Seg[as], k))
    BY <2>3, <2>4, <2>5, AddTyped
  <2>7. rbf' = [rbf EXCEPT ![as] = addImpl(rbf[as], Seg[as], k)]
    BY <2>1 DEF k
  <2>8. rbf' \in [Kinds -> Rbf]
    BY <2>3, <2>6, <2>7 DEF TypeOK
  <2>9. \A other \in Kinds : Bounded(rbf'[other])
    BY <2>3, <2>6, <2>7 DEF TypeOK, Bounded
  <2>10. QED
    BY <2>3, <2>8, <2>9 DEF TypeOK, Bounded
<1>2. CASE Advance
  BY <1>2, KLineAssumption DEF Advance, TypeOK
<1>3. CASE UNCHANGED vars
  BY <1>3 DEF vars, TypeOK
<1>4. QED
  BY <1>1, <1>2, <1>3 DEF Next

(* Candles, averages and directions keep their types, and no list grows     *)
(* past its limit (klmem.go addImpl, magraph.go).                           *)
THEOREM TypeCorrect == Spec => []TypeOK
<1>1. QED
  BY TypeInit, TypeNext, PTL DEF Spec

-----------------------------------------------------------------------------
(* Crossings.                                                              *)

LEMMA Signs ==
  ASSUME NEW x \in Int, NEW y \in Int
  PROVE  /\ (x > 0 /\ y > 0 => x * y > 0)
         /\ (x > 0 /\ y <= 0 => x * y <= 0)
         /\ x * y \in Int
OBVIOUS

(* What the two products of Intersects come to over the same two candles. *)
LEMMA SameCandlesProducts ==
  ASSUME NEW t \in Int, NEW x \in Int, NEW y \in Int, NEW z \in Int
  PROVE  /\ 0 * z - t * x = -(t * x)
         /\ (-t) * y - 0 * z = -(t * y)
         /\ 0 * z - t * (-x) = t * x
         /\ (-t) * (-y) - 0 * z = t * y
<1>1. t * x \in Int /\ t * y \in Int
  OBVIOUS
<1>2. 0 * z = 0 /\ (-t) * y = -(t * y) /\ t * (-x) = -(t * x) /\ (-t) * (-y) = t * y
  OBVIOUS
<1>3. QED
  BY <1>1, <1>2

(* Two segments over the same two candles meet only if the upper one does   *)
(* not stay above: x and y are how far the second one is above the first    *)
(* at its beginning and at its end.                                        *)
LEMMA Meeting ==
  ASSUME NEW a \in Point, NEW b \in Point, NEW c \in Point, NEW d \in Point,
         a.ts = c.ts, b.ts = d.ts, b.ts > a.ts
  PROVE  /\ (Intersects(a, b, c, d) /\ c.val > a.val => b.val >= d.val)
         /\ (~Intersects(a, b, c, d) /\ a.val >= c.val => b.val >= d.val)
<1> DEFINE t == b.ts - a.ts
           x == c.val - a.val
           y == d.val - b.val
<1>1. /\ a.ts \in Int /\ b.ts \in Int /\ c.ts \in Int /\ d.ts \in Int
      /\ a.val \in Int /\ b.val \in Int /\ c.val \in Int /\ d.val \in Int
  BY DEF Point
<1>2. t \in Int /\ t > 0 /\ x \in Int /\ y \in Int
  BY <1>1
<1>3. /\ c.ts - a.ts = 0 /\ d.ts - a.ts = t /\ c.ts - b.ts = -t /\ d.ts - b.ts = 0
      /\ a.ts - c.ts = 0 /\ b.ts - c.ts = t /\ a.ts - d.ts = -t /\ b.ts - d.ts = 0
      /\ a.val - c.val = -x /\ b.val - d.val = -y
      /\ d.val - a.val \in Int /\ c.val - b.val \in Int
      /\ b.val - c.val \in Int /\ a.val - d.val \in Int
  BY <1>1
<1>4. /\ (c.val > a.val <=> x > 0) /\ (a.val >= c.val <=> x <= 0)
      /\ (b.val >= d.val <=> ~(y > 0))
  BY <1>1
<1>5. /\ vectorProduct(a, c, a, d) = (c.ts - a.ts) * (d.val - a.val) - (d.ts - a.ts) * x
      /\ vectorProduct(b, c, b, d) = (c.ts - b.ts) * y - (d.ts - b.ts) * (c.val - b.val)
      /\ vectorProduct(c, a, c, b) = (a.ts - c.ts) * (b.val - c.val) - (b.ts - c.ts) * (a.val - c.val)
      /\ vectorProduct(d, a, d, b) = (a.ts - d.ts) * (b.val - d.val) - (b.ts - d.ts) * (a.val - d.val)
  BY Zenon DEF vectorProduct
<1> HIDE DEF t, x, y
<1>6. /\ vectorProduct(a, c, a, d) = 0 * (d.val - a.val) - t * x
      /\ vectorProduct(b, c, b, d) = (-t) * y - 0 * (c.val - b.val)
      /\ vectorProduct(c, a, c, b) = 0 * (b.val - c.val) - t * (-x)
      /\ vectorProduct(d, a, d, b) = (-t) * (-y) - 0 * (a.val - d.val)
  BY <1>3, <1>5, Zenon
<1> DEFINE u == t * x
           v == t * y
<1>7. /\ vectorProduct(a, c, a, d) = -u /\ vectorProduct(b, c, b, d) = -v
      /\ vectorProduct(c, a, c, b) = u /\ vectorProduct(d, a, d, b) = v
  <2>1. ASSUME NEW z \in Int
        PROVE  /\ 0 * z - t * x = -(t * x)
               /\ (-t) * y - 0 * z = -(t * y)
               /\ 0 * z - t * (-x) = t * x
               /\ (-t) * (-y) - 0 * z = t * y
    BY <1>2, SameCandlesProducts
  <2>2. 0 * (d.val - a.val) - t * x = -(t * x)
    BY <1>3, <2>1, Zenon
  <2>3. (-t) * y - 0 * (c.val - b.val) = -(t * y)
    BY <1>3, <2>1, Zenon
  <2>4. 0 * (b.val - c.val) - t * (-x) = t * x
    BY <1>3, <2>1, Zenon
  <2>5. (-t) * (-y) - 0 * (a.val - d.val) = t * y
    BY <1>3, <2>1, Zenon
  <2>6. QED
    BY <1>6, <2>2, <2>3, <2>4, <2>5, Zenon
<1>8. u \in Int /\ v \in Int
  BY <1>2, Signs
<1>9. (x > 0 => u > 0) /\ (x <= 0 => u <= 0) /\ (y > 0 => v > 0)
  BY <1>2, Signs
<1> HIDE DEF u, v
<1>10. (-u) * (-v) = u * v
  BY <1>8
<1>11. Intersects(a, b, c, d) <=> u * v <= 0
  BY <1>7, <1>10, Zenon DEF Intersects
<1>12. /\ (u > 0 /\ v > 0 => u * v > 0)
       /\ (v > 0 /\ u <= 0 => u * v <= 0)
       /\ u * v \in Int
  <2>1. u * v = v * u
    BY <1>8
  <2>2. QED
    BY <1>8, <2>1, Signs
<1>13. QED
  BY <1>2, <1>4, <1>9, <1>11, <1>12

(* While the last crossing is one from below there is a slow line. *)
Risen(r) ==
  r.fcs = "down2top" =>
    Len(r.ma30) > 0 /\ FromEnd(r.ma7, 0).val >= FromEnd(r.ma30, 0).val

(* A new candle leaves the fast line above, or records that it is not.      *)
LEMMA NewCandleRisen ==
  ASSUME NEW seg \in Nat, seg > 0, NEW r \in Rbf, Bounded(r), Sound(r, seg), Risen(r),
         NEW k \in klst, Later(r, seg, k)
  PROVE  Risen(NewCandle(r, k))
<1> DEFINE kl == PushBack(r.kl, k)
           sum7 == Slow * sumRangeKList(kl, Fast)
           sum30 == Fast * sumRangeKList(kl, Slow)
           delta == IF sum7 < sum30 THEN sum30 - sum7 ELSE sum7 - sum30
           p7 == [ts |-> k.ts, val |-> sum7]
           p30 == [ts |-> k.ts, val |-> sum30]
           pd == [ts |-> k.ts, val |-> delta]
           ma7 == IF Len(kl) >= Fast THEN PushBack(r.ma7, p7) ELSE r.ma7
           ma30 == PushBack(r.ma30, p30)
           diff == PushBack(r.diff, pd)
           fcs == TryCrossPoint(ma7, ma30, r.fcs)
<1>1. NewCandle(r, k) =
        IF Len(kl) < Slow THEN [r EXCEPT !.kl = kl, !.ma7 = ma7]
        ELSE [kl |-> kl, ma7 |-> ma7, ma30 |-> ma30, diff |-> diff, fcs |-> fcs]
  BY DEF NewCandle
<1>2. /\ r.kl \in Seq(klst) /\ r.ma7 \in Seq(Point) /\ r.ma30 \in Seq(Point)
      /\ Len(r.kl) <= MaxLen /\ Len(r.ma7) <= MaxLen /\ Len(r.ma30) <= MaxLen
      /\ Len(r.ma30) <= Len(r.ma7) /\ (Len(r.ma30) > 0 => Len(r.kl) >= Slow)
      /\ Aligned(r.ma30, r.ma7)
  BY DEF Rbf, Bounded, Sound
<1>3. kl \in Seq(klst) /\ Len(kl) \in Nat
      /\ Len(kl) = IF Len(r.kl) < MaxLen THEN Len(r.kl) + 1 ELSE MaxLen
  BY <1>2, PushBackTyped, PushBackShape DEF Sound, Line
<1>4. k.ts \in Nat
  BY CloseTyped
<1>5. MaxLen \in Nat /\ Slow \in Nat /\ Fast \in Nat /\ Fast < Slow /\ Slow <= MaxLen /\ MaxLen >= 2
  BY KLineAssumption
<1>6. CASE Len(kl) < Slow
  <2>1. Len(r.ma30) = 0
    BY <1>2, <1>3, <1>5, <1>6
  <2>2. r.fcs # "down2top"
    BY <2>1 DEF Risen
  <2>3. NewCandle(r, k).fcs = r.fcs
    <3> HIDE DEF kl, ma7
    <3>1. NewCandle(r, k) = [r EXCEPT !.kl = kl, !.ma7 = ma7]
      BY <1>1, <1>6
    <3>2. QED
      BY <3>1 DEF Rbf
  <2>4. QED
    BY <2>2, <2>3 DEF Risen
<1>7. CASE ~(Len(kl) < Slow)
  <2>1. Len(kl) >= Slow /\ Len(kl) >= Fast
    BY <1>3, <1>5, <1>7
  <2>2. sum7 \in Nat /\ sum30 \in Nat
    BY <1>3, <1>5, <2>1, AverageTyped
  <2>3. ma7 = PushBack(r.ma7, p7)
    BY <2>1
  <2> HIDE DEF kl, sum7, sum30
  <2>4. p7 \in Point /\ p30 \in Point /\ p7.ts = k.ts /\ p30.ts = k.ts
    BY <1>4, <2>2 DEF Point
  <2> HIDE DEF p7, p30
  <2>5. /\ ma7 \in Seq(Point) /\ Len(ma7) <= MaxLen
        /\ ma30 \in Seq(Point) /\ Len(ma30) <= MaxLen
    BY <1>2, <2>3, <2>4, PushBackTyped
  <2>6. /\ Len(r.ma7) \in Nat /\ Len(r.ma30) \in Nat
        /\ Len(ma7) = IF Len(r.ma7) < MaxLen THEN Len(r.ma7) + 1 ELSE MaxLen
        /\ Len(ma30) = IF Len(r.ma30) < MaxLen THEN Len(r.ma30) + 1 ELSE MaxLen
        /\ FromEnd(ma7, 0) = p7 /\ FromEnd(ma30, 0) = p30
        /\ \A n \in Steps(ma7) : n > 0 => FromEnd(ma7, n) = FromEnd(r.ma7, n - 1)
        /\ \A n \in Steps(ma30) : n > 0 => FromEnd(ma30, n) = FromEnd(r.ma30, n - 1)
    BY <2>3, PushBackShape DEF Sound, Line
  <2> HIDE DEF ma7, ma30
  <2>7. NewCandle(r, k).fcs = fcs /\ NewCandle(r, k).ma7 = ma7 /\ NewCandle(r, k).ma30 = ma30
    BY <1>1, <1>7
  <2>8. Len(ma7) >= 1 /\ Len(ma30) >= 1
    BY <1>5, <2>6
  <2>9. CASE Len(r.ma30) = 0
    <3>1. Len(ma30) = 1
      BY <1>5, <2>6, <2>9
    <3>2. fcs = r.fcs
      BY <3>1 DEF TryCrossPoint
    <3>3. r.fcs # "down2top"
      BY <2>9 DEF Risen
    <3>4. QED
      BY <2>7, <3>2, <3>3 DEF Risen
  <2>10. CASE Len(r.ma30) > 0
    <3> DEFINE a == ma7[Len(ma7) - 1]
               b == Back(ma7)
               c == ma30[Len(ma30) - 1]
               d == Back(ma30)
    <3>1. Len(ma7) >= 2 /\ Len(ma30) >= 2 /\ Len(r.ma7) > 0
      BY <1>2, <1>5, <2>6, <2>10
    <3>2. a = FromEnd(ma7, 1) /\ c = FromEnd(ma30, 1) /\ b = p7 /\ d = p30
      <4>1. Len(ma7) - 0 = Len(ma7) /\ Len(ma30) - 0 = Len(ma30)
        BY <2>5
      <4>2. QED
        BY <2>6, <4>1 DEF FromEnd, Back
    <3>3. a = FromEnd(r.ma7, 0) /\ c = FromEnd(r.ma30, 0)
      <4>1. 1 \in Steps(ma7) /\ 1 \in Steps(ma30) /\ 1 - 1 = 0
        BY <2>5, <3>1 DEF Steps
      <4>2. QED
        BY <2>6, <3>2, <4>1
    <3>4. a \in Point /\ c \in Point
      BY <2>5, <3>1
    <3>5. a.ts = c.ts
      BY <1>2, <2>6, <2>10, <3>3 DEF Aligned, Steps
    <3>6. b.ts > a.ts
      <4>1. Len(r.kl) > 0 /\ FromEnd(r.ma7, 0).ts <= FromEnd(r.kl, 0).ts
        BY <3>1 DEF Sound, Drawn
      <4>2. k.ts - FromEnd(r.kl, 0).ts >= seg
        BY <4>1 DEF Later
      <4>3. FromEnd(r.kl, 0).ts \in Int /\ a.ts \in Int
        <5>1. 0 \in Steps(r.kl)
          BY <1>2, <4>1 DEF Steps
        <5>2. FromEnd(r.kl, 0).ts \in Int
          BY <5>1 DEF Sound, Line, Spaced
        <5>3. QED
          BY <3>4, <5>2 DEF Point
      <4> HIDE DEF a
      <4>4. k.ts > a.ts
        BY <1>4, <3>3, <4>1, <4>2, <4>3
      <4>5. QED
        BY <2>4, <3>2, <4>4
    <3>7. fcs = IF Intersects(a, b, c, d) THEN Direction(a, b, c, d) ELSE r.fcs
      BY <3>1 DEF TryCrossPoint
    <3> HIDE DEF a, b, c, d, fcs
    <3>8. /\ (Intersects(a, b, c, d) /\ c.val > a.val => b.val >= d.val)
          /\ (~Intersects(a, b, c, d) /\ a.val >= c.val => b.val >= d.val)
      BY <2>4, <3>2, <3>4, <3>5, <3>6, Meeting
    <3>9. a.val \in Int /\ c.val \in Int
      BY <3>4 DEF Point
    <3>10. ASSUME fcs = "down2top" PROVE b.val >= d.val
      <4>1. CASE Intersects(a, b, c, d)
        <5>1. a.val < c.val
          BY <3>7, <3>10, <4>1 DEF Direction
        <5>2. QED
          BY <3>8, <3>9, <4>1, <5>1
      <4>2. CASE ~Intersects(a, b, c, d)
        <5>1. r.fcs = "down2top"
          BY <3>7, <3>10, <4>2
        <5>2. a.val >= c.val
          BY <3>3, <5>1 DEF Risen
        <5>3. QED
          BY <3>8, <4>2, <5>2
      <4>3. QED
        BY <4>1, <4>2
    <3>11. QED
      BY <2>6, <2>7, <2>8, <3>2, <3>10 DEF Risen
  <2>11. QED
    BY <2>6, <2>9, <2>10
<1>8. QED
  BY <1>6, <1>7

(* So does every candle. *)
LEMMA AddRisen ==
  ASSUME NEW seg \in Nat, seg > 0, NEW r \in Rbf, Bounded(r), Sound(r, seg), Risen(r),
         NEW k \in klst
  PROVE  Risen(addImpl(r, seg, k))
<1> DEFINE diff == k.ts - Back(r.kl).ts
<1>1. addImpl(r, seg, k) =
        IF r.kl # <<>> /\ diff < 0 THEN r
        ELSE IF r.kl # <<>> /\ diff < seg THEN [r EXCEPT !.kl[Len(r.kl)] = k]
        ELSE NewCandle(r, k)
  BY DEF addImpl
<1>2. CASE r.kl # <<>> /\ diff < 0
  BY <1>1, <1>2
<1>3. CASE ~(r.kl # <<>> /\ diff < 0) /\ (r.kl # <<>> /\ diff < seg)
  <2> DEFINE kl == [r.kl EXCEPT ![Len(r.kl)] = k]
  <2>1. addImpl(r, seg, k) = [r EXCEPT !.kl = kl]
    BY <1>1, <1>3
  <2> HIDE DEF kl
  <2>2. QED
    BY <2>1 DEF Risen, Rbf
<1>4. CASE ~(r.kl # <<>> /\ diff < 0) /\ ~(r.kl # <<>> /\ diff < seg)
  <2>1. r.kl \in Seq(klst) /\ k.ts \in Nat
    BY CloseTyped DEF Rbf
  <2>2. Back(r.kl) = FromEnd(r.kl, 0)
    BY <2>1 DEF Back, FromEnd
  <2>3. Len(r.kl) > 0 => FromEnd(r.kl, 0).ts \in Int
    BY <2>1 DEF Sound, Line, Spaced, Steps
  <2>4. Later(r, seg, k)
    BY <1>4, <2>1, <2>2, <2>3 DEF Later
  <2>5. QED
    BY <1>1, <1>4, <2>4, NewCandleRisen
<1>5. QED
  BY <1>2, <1>3, <1>4

AllRisen == \A kind \in Kinds : Risen(rbf[kind])

LEMMA SegPositive == \A kind \in Kinds : Seg[kind] \in Nat /\ Seg[kind] > 0
BY KLineAssumption

LEMMA RisenInit == Init => AllRisen
BY DEF Init, AllRisen, Risen, newrbf

LEMMA RisenNext == TypeOK /\ Inv /\ AllRisen /\ [Next]_vars => AllRisen'
<1> SUFFICES ASSUME TypeOK, Inv, AllRisen, [Next]_vars PROVE AllRisen'
  OBVIOUS
<1>1. ASSUME NEW kind \in Kinds, Notify(kind) PROVE AllRisen'
  <2>1. PICK ts \in Periods(kind), close \in Closes[kind], as \in getklkind(kind) :
          rbf' = [rbf EXCEPT ![as] =
                    addImpl(@, Seg[as], [ts |-> ts, close |-> close, kind |-> kind])]
    BY <1>1 DEF Notify
  <2>2. ts \in Nat
    <3>1. ts \in Start .. now
      BY DEF Periods
    <3>2. QED
      BY <3>1, KLineAssumption DEF TypeOK
  <2>3. as \in Kinds
    BY <1>1, <2>1 DEF getklkind
  <2>4. Seg[as] \in Nat /\ Seg[as] > 0
    BY <2>3, SegPositive, Zenon
  <2> DEFINE k == [ts |-> ts, close |-> close, kind |-> kind]
  <2>5. k \in klst
    BY <2>2 DEF klst
  <2>6. /\ rbf[as] \in Rbf /\ Bounded(rbf[as]) /\ Sound(rbf[as], Seg[as]) /\ Risen(rbf[as])
    BY <2>3 DEF TypeOK, Bounded, Inv, AllRisen
  <2> HIDE DEF k
  <2>7. Risen(addImpl(rbf[as], Seg[as], k))
    BY <2>4, <2>5, <2>6, AddRisen
  <2>8. \A other \in Kinds : rbf'[other] =
          IF other = as THEN addImpl(rbf[as], Seg[as], k) ELSE rbf[other]
    BY <2>1, <2>3 DEF TypeOK, k
  <2>9. QED
    BY <2>7, <2>8 DEF AllRisen
<1>2. CASE Advance
  BY <1>2 DEF Advance, AllRisen
<1>3. CASE UNCHANGED vars
  BY <1>3 DEF vars, AllRisen
<1>4. QED
  BY <1>1, <1>2, <1>3 DEF Next

LEMMA RisenAbove == TypeOK /\ AllRisen => RisenIsAbove
<1> SUFFICES ASSUME TypeOK, AllRisen, NEW kind \in Kinds, rbf[kind].fcs = "down2top"
             PROVE  Back(rbf[kind].ma7).val >= Back(rbf[kind].ma30).val
  BY DEF RisenIsAbove
<1>1. rbf[kind].ma7 \in Seq(Point) /\ rbf[kind].ma30 \in Seq(Point)
  BY DEF TypeOK, Rbf
<1>2. Back(rbf[kind].ma7) = FromEnd(rbf[kind].ma7, 0)
      /\ Back(rbf[kind].ma30) = FromEnd(rbf[kind].ma30, 0)
  BY <1>1 DEF Back, FromEnd
<1>3. QED
  BY <1>2 DEF AllRisen, Risen

(* As long as the last crossing is one from below the fast line is not      *)
(* below the slow one (magraph.go TryCrossPoint), although a crossing can   *)
(* be overlooked when the time stamps coincide.                             *)
THEOREM RisenCorrect == Spec => []RisenIsAbove
<1>1. Spec => []AllRisen
  BY RisenInit, RisenNext, TypeCorrect, InvAlways, PTL DEF Spec
<1>2. QED
  BY <1>1, TypeCorrect, RisenAbove, PTL

-----------------------------------------------------------------------------
(* Signals.                                                                *)

(* No candle is stored before it begins. *)
InTime == \A kind \in Kinds : Len(rbf[kind].kl) > 0 => Back(rbf[kind].kl).ts <= now

(* What a signal is made of besides the time of the last candle. *)
LEMMA CasesSame ==
  ASSUME NEW kind, NEW r, NEW s, GetLastKLTimeStamp(r) = GetLastKLTimeStamp(s),
         r.ma7 = s.ma7, r.ma30 = s.ma30, r.diff = s.diff, r.fcs = s.fcs
  PROVE  Cases(kind, r) = Cases(kind, s)
<1>1. ASSUME NEW l PROVE Slope(kind, r, l) = Slope(kind, s, l)
  BY DEF Slope, LastSegment
<1>2. GetLastDiff(r) = GetLastDiff(s)
  BY DEF GetLastDiff
<1>3. Reading(kind, r) = Reading(kind, s)
  BY <1>1, <1>2 DEF Reading
<1>4. QED
  BY <1>2, <1>3 DEF Cases

LEMMA TickSame ==
  ASSUME NEW kind, NEW r, NEW s, NEW tick, GetLastKLTimeStamp(r) = GetLastKLTimeStamp(s),
         r.ma7 = s.ma7, r.ma30 = s.ma30, r.diff = s.diff, r.fcs = s.fcs
  PROVE  doTick(kind, r, tick) = doTick(kind, s, tick)
<1>1. Cases(kind, r) = Cases(kind, s)
  BY CasesSame
<1>2. QED
  BY <1>1 DEF doTick

(* What a candle leaves in the place of the last one. *)
LEMMA AddLast ==
  ASSUME NEW seg \in Nat, seg > 0, NEW r \in Rbf, Bounded(r), NEW k \in klst
  PROVE  LET s == addImpl(r, seg, k)
         IN  \/ s = r
             \/ /\ Len(r.kl) > 0 /\ s.kl # <<>> /\ Back(s.kl) = k /\ Len(s.kl) > 0
                /\ s.ma7 = r.ma7 /\ s.ma30 = r.ma30 /\ s.diff = r.diff /\ s.fcs = r.fcs
             \/ /\ Len(s.kl) > 0 /\ s.kl # <<>> /\ Back(s.kl) = k
                /\ Len(r.kl) = 0 \/ k.ts - Back(r.kl).ts >= seg
<1> DEFINE diff == k.ts - Back(r.kl).ts
           kl == [r.kl EXCEPT ![Len(r.kl)] = k]
           s == addImpl(r, seg, k)
<1>1. s = IF r.kl # <<>> /\ diff < 0 THEN r
          ELSE IF r.kl # <<>> /\ diff < seg THEN [r EXCEPT !.kl = kl]
          ELSE NewCandle(r, k)
  BY DEF addImpl
<1>2. r.kl \in Seq(klst) /\ Len(r.kl) <= MaxLen /\ Len(r.kl) \in Nat
      /\ (r.kl # <<>> => Back(r.kl) \in klst)
  BY DEF Rbf, Bounded, Back
<1>3. k.ts \in Int /\ (r.kl # <<>> => diff \in Int)
  BY <1>2, CloseTyped
<1> HIDE DEF diff
<1>4. CASE r.kl # <<>> /\ diff < 0
  BY <1>1, <1>4
<1>5. CASE r.kl # <<>> /\ ~(diff < 0) /\ diff < seg
  <2>1. kl \in Seq(klst) /\ Len(kl) = Len(r.kl) /\ Back(kl) = k /\ Len(kl) > 0 /\ kl # <<>>
    BY <1>2, <1>5 DEF Back
  <2> HIDE DEF kl
  <2>2. s = [r EXCEPT !.kl = kl]
    BY <1>1, <1>5
  <2>3. s.kl = kl /\ s.ma7 = r.ma7 /\ s.ma30 = r.ma30 /\ s.diff = r.diff /\ s.fcs = r.fcs
    BY <2>2 DEF Rbf
  <2>4. QED
    BY <1>2, <2>1, <2>3
<1>6. CASE ~(r.kl # <<>> /\ diff < 0) /\ ~(r.kl # <<>> /\ diff < seg)
  <2>1. s = NewCandle(r, k)
    BY <1>1, <1>6
  <2>2. Len(r.kl) = 0 \/ k.ts - Back(r.kl).ts >= seg
    BY <1>2, <1>3, <1>6 DEF diff
  <2>3. s.kl = PushBack(r.kl, k)
    <3> DEFINE p == PushBack(r.kl, k)
               q == IF Len(p) >= Fast THEN PushBack(r.ma7, [ts |-> k.ts, val |-> Slow * sumRangeKList(p, Fast)])
                    ELSE r.ma7
    <3>1. CASE Len(p) < Slow
      <4>1. s = [r EXCEPT !.kl = p, !.ma7 = q]
        BY <2>1, <3>1 DEF NewCandle
      <4> HIDE DEF p, q
      <4>2. s.kl = p
        BY <4>1 DEF Rbf
      <4>3. QED
        BY <4>2 DEF p
    <3>2. CASE ~(Len(p) < Slow)
      BY <2>1, <3>2 DEF NewCandle
    <3>3. QED
      BY <3>1, <3>2
  <2>4. PushBack(r.kl, k) \in Seq(klst) /\ Len(PushBack(r.kl, k)) > 0
        /\ FromEnd(PushBack(r.kl, k), 0) = k
    <3>1. IsList(r.kl)
      BY <1>2 DEF IsList
    <3>2. QED
      BY <1>2, <3>1, PushBackTyped, PushBackShape, KLineAssumption
  <2>5. Back(s.kl) = k
    BY <2>3, <2>4 DEF Back, FromEnd
  <2>6. QED
    BY <2>2, <2>3, <2>4, <2>5
<1>7. QED
  BY <1>4, <1>5, <1>6

LEMMA InTimeInit == Init => InTime
BY DEF Init, InTime, newrbf

(* What a notification brings and where it goes. *)
LEMMA NotifyShape ==
  ASSUME TypeOK, NEW kind \in Kinds, Notify(kind)
  PROVE  /\ now' = now
         /\ \E as \in Kinds, k \in klst :
              /\ k.ts \in Nat /\ k.ts <= now /\ Seg[as] \in Nat /\ Seg[as] > 0
              /\ rbf' = [rbf EXCEPT ![as] = addImpl(rbf[as], Seg[as], k)]
<1>1. PICK ts \in Periods(kind), close \in Closes[kind], as \in getklkind(kind) :
        rbf' = [rbf EXCEPT ![as] =
                  addImpl(@, Seg[as], [ts |-> ts, close |-> close, kind |-> kind])]
  BY DEF Notify
<1>2. ts \in Nat /\ ts <= now
  <2>1. ts \in Start .. now
    BY DEF Periods
  <2>2. QED
    BY <2>1, KLineAssumption DEF TypeOK
<1>3. as \in Kinds
  BY <1>1 DEF getklkind
<1> DEFINE k == [ts |-> ts, close |-> close, kind |-> kind]
<1>4. k \in klst /\ k.ts = ts
  BY <1>2 DEF klst
<1>5. rbf' = [rbf EXCEPT ![as] = addImpl(rbf[as], Seg[as], k)]
  BY <1>1
<1> HIDE DEF k
<1>6. Seg[as] \in Nat /\ Seg[as] > 0
  BY <1>3, SegPositive, Zenon
<1>7. now' = now
  BY DEF Notify
<1>8. QED
  BY <1>2, <1>3, <1>4, <1>5, <1>6, <1>7

LEMMA InTimeNext == TypeOK /\ InTime /\ [Next]_vars => InTime'
<1> SUFFICES ASSUME TypeOK, InTime, [Next]_vars PROVE InTime'
  OBVIOUS
<1>1. ASSUME NEW kind \in Kinds, Notify(kind) PROVE InTime'
  <2>1. PICK as \in Kinds, k \in klst :
          /\ k.ts \in Nat /\ k.ts <= now /\ Seg[as] \in Nat /\ Seg[as] > 0
          /\ rbf' = [rbf EXCEPT ![as] = addImpl(rbf[as], Seg[as], k)]
    BY <1>1, NotifyShape
  <2>2. now' = now
    BY <1>1, NotifyShape
  <2> DEFINE s == addImpl(rbf[as], Seg[as], k)
  <2>3. rbf[as] \in Rbf /\ Bounded(rbf[as])
    BY DEF TypeOK, Bounded
  <2>4. s = rbf[as] \/ (Len(s.kl) > 0 /\ Back(s.kl) = k)
    BY <2>1, <2>3, AddLast
  <2> HIDE DEF s
  <2>5. rbf' = [rbf EXCEPT ![as] = s]
    BY <2>1 DEF s
  <2>6. \A other \in Kinds : rbf'[other] = IF other = as THEN s ELSE rbf[other]
    BY <2>5 DEF TypeOK
  <2>7. QED
    BY <2>1, <2>2, <2>4, <2>6 DEF InTime
<1>2. CASE Advance
  <2>1. now' >= now
    BY <1>2, KLineAssumption DEF Advance, TypeOK
  <2>2. rbf' = rbf
    BY <1>2 DEF Advance
  <2>3. ASSUME NEW kind \in Kinds, Len(rbf[kind].kl) > 0 PROVE Back(rbf[kind].kl).ts <= now'
    <3>1. rbf[kind].kl \in Seq(klst)
      BY DEF TypeOK, Rbf
    <3>2. Back(rbf[kind].kl) \in klst
      BY <3>1, <2>3 DEF Back
    <3>3. Back(rbf[kind].kl).ts \in Nat
      BY <3>2, CloseTyped
    <3>4. Back(rbf[kind].kl).ts <= now
      BY <2>3 DEF InTime
    <3>5. now \in Nat /\ now' \in Nat
      BY <1>2, KLineAssumption DEF Advance, TypeOK
    <3>6. QED
      BY <2>1, <3>3, <3>4, <3>5
  <2>4. QED
    BY <2>2, <2>3 DEF InTime
<1>3. CASE UNCHANGED vars
  BY <1>3 DEF vars, InTime
<1>4. QED
  BY <1>1, <1>2, <1>3 DEF Next

(* The statement of SteadyWithinCandle about one step. *)
Steady ==
  \A kind \in Kinds :
    GetLastKLTimeStamp(rbf'[kind]) = GetLastKLTimeStamp(rbf[kind])
      => doTick(kind, rbf'[kind], now') \in
           {doTick(kind, rbf[kind], now), "emergency"}

LEMMA SteadyStep == TypeOK /\ InTime /\ [Next]_vars => Steady
<1> SUFFICES ASSUME TypeOK, InTime, [Next]_vars, NEW kind \in Kinds,
                    GetLastKLTimeStamp(rbf'[kind]) = GetLastKLTimeStamp(rbf[kind])
             PROVE  doTick(kind, rbf'[kind], now') \in {doTick(kind, rbf[kind], now), "emergency"}
  BY DEF Steady
<1>0. /\ rbf[kind] \in Rbf /\ Bounded(rbf[kind]) /\ now \in Nat
      /\ rbf[kind].kl \in Seq(klst)
  BY DEF TypeOK, Bounded, Rbf
<1>1. ASSUME NEW pushed \in Kinds, Notify(pushed)
      PROVE  doTick(kind, rbf'[kind], now') = doTick(kind, rbf[kind], now)
  <2>1. PICK as \in Kinds, k \in klst :
          /\ k.ts \in Nat /\ k.ts <= now /\ Seg[as] \in Nat /\ Seg[as] > 0
          /\ rbf' = [rbf EXCEPT ![as] = addImpl(rbf[as], Seg[as], k)]
    BY <1>1, NotifyShape
  <2>2. now' = now
    BY <1>1, NotifyShape
  <2> DEFINE r == rbf[kind]
             s == addImpl(rbf[as], Seg[as], k)
  <2>3. CASE kind # as
    BY <2>1, <2>2, <2>3 DEF TypeOK
  <2>4. CASE kind = as
    <3>1. rbf'[kind] = s
      BY <2>1, <2>4 DEF TypeOK
    <3>2. \/ s = r
          \/ /\ Len(r.kl) > 0 /\ s.kl # <<>> /\ Back(s.kl) = k /\ Len(s.kl) > 0
             /\ s.ma7 = r.ma7 /\ s.ma30 = r.ma30 /\ s.diff = r.diff /\ s.fcs = r.fcs
          \/ /\ Len(s.kl) > 0 /\ s.kl # <<>> /\ Back(s.kl) = k
             /\ Len(r.kl) = 0 \/ k.ts - Back(r.kl).ts >= Seg[as]
      BY <1>0, <2>1, <2>4, AddLast
    <3>3. GetLastKLTimeStamp(s) = GetLastKLTimeStamp(r)
      BY <3>1
    <3> HIDE DEF s
    <3>4. CASE s = r
      BY <2>2, <3>1, <3>4
    <3>5. CASE s.ma7 = r.ma7 /\ s.ma30 = r.ma30 /\ s.diff = r.diff /\ s.fcs = r.fcs
      BY <2>2, <3>1, <3>3, <3>5, TickSame
    <3>6. CASE /\ Len(s.kl) > 0 /\ s.kl # <<>> /\ Back(s.kl) = k
               /\ Len(r.kl) = 0 \/ k.ts - Back(r.kl).ts >= Seg[as]
      <4>1. GetLastKLTimeStamp(s) = k.ts
        BY <3>6 DEF GetLastKLTimeStamp
      <4>2. CASE Len(r.kl) = 0
        <5>1. GetLastKLTimeStamp(r) = 0
          BY <1>0, <4>2 DEF GetLastKLTimeStamp
        <5>2. doTick(kind, s, now) = "none" /\ doTick(kind, r, now) = "none"
          BY <3>3, <5>1 DEF doTick
        <5>3. QED
          BY <2>2, <3>1, <5>2
      <4>3. CASE Len(r.kl) > 0 /\ k.ts - Back(r.kl).ts >= Seg[as]
        <5>1. GetLastKLTimeStamp(r) = Back(r.kl).ts
          BY <1>0, <4>3 DEF GetLastKLTimeStamp
        <5>2. k.ts = Back(r.kl).ts
          BY <3>3, <4>1, <5>1
        <5>3. k.ts - k.ts >= Seg[as]
          BY <4>3, <5>2
        <5>4. k.ts \in Nat /\ Seg[as] \in Nat /\ Seg[as] > 0
          BY <2>1
        <5>5. \A x, y \in Nat : y > 0 => ~(x - x >= y)
          OBVIOUS
        <5>6. QED
          BY <5>3, <5>4, <5>5, Zenon
      <4>4. Len(r.kl) = 0 \/ Len(r.kl) > 0
        BY <1>0
      <4>5. QED
        BY <3>6, <4>2, <4>3, <4>4
    <3>7. QED
      BY <3>2, <3>4, <3>5, <3>6
  <2>5. QED
    BY <2>3, <2>4
<1>2. CASE Advance
  <2>1. rbf' = rbf /\ now' \in Nat /\ now' >= now
    BY <1>2, KLineAssumption DEF Advance, TypeOK
  <2> DEFINE r == rbf[kind]
             tsn == GetLastKLTimeStamp(r)
             seg == Seg[kind]
             late(t) == t - tsn > 2 * seg \/ t - tsn < -seg
             rest == IF Cases(kind, r) = {} THEN "none"
                     ELSE IF Cases(kind, r) \cap Buys # {} THEN "buy" ELSE "sell"
  <2>2. \A t : doTick(kind, r, t) =
                 IF tsn = 0 THEN "none" ELSE IF late(t) THEN "emergency" ELSE rest
    BY DEF doTick
  <2>3. tsn = 0 \/ (tsn \in Nat /\ tsn <= now)
    <3>1. CASE r.kl = <<>>
      BY <3>1 DEF GetLastKLTimeStamp
    <3>2. CASE r.kl # <<>>
      <4>1. Len(r.kl) > 0 /\ Back(r.kl) \in klst
        BY <1>0, <3>2 DEF Back
      <4>2. Back(r.kl).ts \in Nat
        BY <4>1, CloseTyped
      <4>3. tsn = Back(r.kl).ts
        BY <3>2 DEF GetLastKLTimeStamp
      <4>4. QED
        BY <4>1, <4>2, <4>3 DEF InTime
    <3>3. QED
      BY <3>1, <3>2
  <2>4. seg \in Nat
    BY SegPositive
  <2> HIDE DEF tsn, seg, rest
  <2>5. CASE tsn = 0
    BY <2>1, <2>2, <2>5
  <2>6. CASE tsn # 0
    <3>1. late(now) => late(now')
      BY <1>0, <2>1, <2>3, <2>4, <2>6
    <3> HIDE DEF late
    <3>2. QED
      BY <2>1, <2>2, <2>6, <3>1
  <2>7. QED
    BY <2>5, <2>6
<1>3. CASE UNCHANGED vars
  BY <1>3 DEF vars
<1>4. QED
  BY <1>1, <1>2, <1>3 DEF Next

(* A candle that changes while it is open leaves the signal alone, for all  *)
(* kinds, lengths and thresholds (klmem.go addImpl, mavg_handlers.go        *)
(* doTick): no candle begins in the future, so that one that became too old *)
(* stays too old.                                                           *)
THEOREM SteadyCorrect == Spec => SteadyWithinCandle
<1>1. Spec => []InTime
  BY InTimeInit, InTimeNext, TypeCorrect, PTL DEF Spec
<1>2. Steady => \A kind \in Kinds :
                  \/ rbf'[kind] = rbf[kind] /\ now' = now
                  \/ GetLastKLTimeStamp(rbf'[kind]) # GetLastKLTimeStamp(rbf[kind])
                  \/ doTick(kind, rbf'[kind], now') \in
                       {doTick(kind, rbf[kind], now), "emergency"}
  BY DEF Steady
<1>3. QED
  BY <1>1, <1>2, TypeCorrect, SteadyStep, PTL DEF Spec, SteadyWithinCandle

-----------------------------------------------------------------------------
(* The difference of the averages.                                         *)

Apart(x, y) == IF x < y THEN y - x ELSE x - y

(* Every point of the third line is the difference of the other two. *)
DiffIs(r) ==
  \A n \in Steps(r.diff) :
    FromEnd(r.diff, n).val = Apart(FromEnd(r.ma7, n).val, FromEnd(r.ma30, n).val)

LEMMA NewCandleApart ==
  ASSUME NEW seg \in Nat, seg > 0, NEW r \in Rbf, Bounded(r), Sound(r, seg), DiffIs(r),
         NEW k \in klst, Later(r, seg, k)
  PROVE  DiffIs(NewCandle(r, k))
<1> DEFINE kl == PushBack(r.kl, k)
           sum7 == Slow * sumRangeKList(kl, Fast)
           sum30 == Fast * sumRangeKList(kl, Slow)
           delta == IF sum7 < sum30 THEN sum30 - sum7 ELSE sum7 - sum30
           p7 == [ts |-> k.ts, val |-> sum7]
           p30 == [ts |-> k.ts, val |-> sum30]
           pd == [ts |-> k.ts, val |-> delta]
           ma7 == IF Len(kl) >= Fast THEN PushBack(r.ma7, p7) ELSE r.ma7
           ma30 == PushBack(r.ma30, p30)
           diff == PushBack(r.diff, pd)
           fcs == TryCrossPoint(ma7, ma30, r.fcs)
<1>1. NewCandle(r, k) =
        IF Len(kl) < Slow THEN [r EXCEPT !.kl = kl, !.ma7 = ma7]
        ELSE [kl |-> kl, ma7 |-> ma7, ma30 |-> ma30, diff |-> diff, fcs |-> fcs]
  BY DEF NewCandle
<1>2. /\ IsList(r.kl) /\ IsList(r.ma7) /\ IsList(r.ma30) /\ IsList(r.diff)
      /\ Len(r.kl) <= MaxLen /\ Len(r.ma7) <= MaxLen /\ Len(r.ma30) <= MaxLen
      /\ Len(r.diff) <= MaxLen
      /\ Len(r.diff) = Len(r.ma30) /\ Len(r.ma30) <= Len(r.ma7)
      /\ (Len(r.ma30) > 0 => Len(r.kl) >= Slow)
  BY DEF Sound, Line
<1>3. Len(kl) \in Nat /\ Len(r.kl) \in Nat
      /\ Len(kl) = IF Len(r.kl) < MaxLen THEN Len(r.kl) + 1 ELSE MaxLen
  BY <1>2, PushBackShape, KLineAssumption
<1>4. MaxLen \in Nat /\ Slow \in Nat /\ Fast \in Nat /\ Fast < Slow /\ Slow <= MaxLen
  BY KLineAssumption
<1>5. Len(r.ma7) \in Nat /\ Len(r.ma30) \in Nat /\ Len(r.diff) \in Nat
  BY <1>2, ListAppend
<1>6. CASE Len(kl) < Slow
  <2>1. Len(r.diff) = 0
    BY <1>2, <1>3, <1>4, <1>5, <1>6
  <2>2. NewCandle(r, k).diff = r.diff
    <3> HIDE DEF kl, ma7
    <3>1. NewCandle(r, k) = [r EXCEPT !.kl = kl, !.ma7 = ma7]
      BY <1>1, <1>6
    <3>2. QED
      BY <3>1 DEF Rbf
  <2>3. QED
    BY <2>1, <2>2 DEF DiffIs, Steps
<1>7. CASE ~(Len(kl) < Slow)
  <2>1. ma7 = PushBack(r.ma7, p7)
    BY <1>3, <1>4, <1>7
  <2>2. p7.val = sum7 /\ p30.val = sum30 /\ pd.val = Apart(sum7, sum30)
    BY DEF Apart
  <2> HIDE DEF kl, sum7, sum30, delta, p7, p30, pd
  <2>3. /\ Len(ma7) = IF Len(r.ma7) < MaxLen THEN Len(r.ma7) + 1 ELSE MaxLen
        /\ FromEnd(ma7, 0) = p7
        /\ \A n \in Steps(ma7) :
             n > 0 => n - 1 \in Steps(r.ma7) /\ FromEnd(ma7, n) = FromEnd(r.ma7, n - 1)
    BY <1>2, <2>1, PushBackShape
  <2>4. /\ Len(ma30) = IF Len(r.ma30) < MaxLen THEN Len(r.ma30) + 1 ELSE MaxLen
        /\ FromEnd(ma30, 0) = p30
        /\ \A n \in Steps(ma30) :
             n > 0 => n - 1 \in Steps(r.ma30) /\ FromEnd(ma30, n) = FromEnd(r.ma30, n - 1)
    BY <1>2, PushBackShape
  <2>5. /\ Len(diff) = IF Len(r.diff) < MaxLen THEN Len(r.diff) + 1 ELSE MaxLen
        /\ FromEnd(diff, 0) = pd
        /\ \A n \in Steps(diff) :
             n > 0 => n - 1 \in Steps(r.diff) /\ FromEnd(diff, n) = FromEnd(r.diff, n - 1)
    BY <1>2, PushBackShape
  <2> HIDE DEF ma7, ma30, diff, fcs
  <2>6. /\ NewCandle(r, k).ma7 = ma7 /\ NewCandle(r, k).ma30 = ma30
        /\ NewCandle(r, k).diff = diff
    BY <1>1, <1>7
  <2>7. Steps(diff) \subseteq Steps(ma30) /\ Steps(diff) \subseteq Steps(ma7)
        /\ Steps(diff) \subseteq Nat
    BY <1>2, <1>4, <1>5, <2>3, <2>4, <2>5 DEF Steps
  <2>8. ASSUME NEW n \in Steps(diff)
        PROVE  FromEnd(diff, n).val = Apart(FromEnd(ma7, n).val, FromEnd(ma30, n).val)
    <3>1. CASE n = 0
      BY <2>2, <2>3, <2>4, <2>5, <3>1
    <3>2. CASE n > 0
      BY <2>3, <2>4, <2>5, <2>7, <3>2 DEF DiffIs
    <3>3. n = 0 \/ n > 0
      BY <2>7
    <3>4. QED
      BY <3>1, <3>2, <3>3
  <2>9. QED
    BY <2>6, <2>8 DEF DiffIs
<1>8. QED
  BY <1>6, <1>7

LEMMA AddApart ==
  ASSUME NEW seg \in Nat, seg > 0, NEW r \in Rbf, Bounded(r), Sound(r, seg), DiffIs(r),
         NEW k \in klst
  PROVE  DiffIs(addImpl(r, seg, k))
<1> DEFINE diff == k.ts - Back(r.kl).ts
<1>1. addImpl(r, seg, k) =
        IF r.kl # <<>> /\ diff < 0 THEN r
        ELSE IF r.kl # <<>> /\ diff < seg THEN [r EXCEPT !.kl[Len(r.kl)] = k]
        ELSE NewCandle(r, k)
  BY DEF addImpl
<1>2. CASE r.kl # <<>> /\ diff < 0
  BY <1>1, <1>2
<1>3. CASE ~(r.kl # <<>> /\ diff < 0) /\ (r.kl # <<>> /\ diff < seg)
  <2> DEFINE kl == [r.kl EXCEPT ![Len(r.kl)] = k]
  <2>1. addImpl(r, seg, k) = [r EXCEPT !.kl = kl]
    BY <1>1, <1>3
  <2> HIDE DEF kl
  <2>2. /\ addImpl(r, seg, k).ma7 = r.ma7 /\ addImpl(r, seg, k).ma30 = r.ma30
        /\ addImpl(r, seg, k).diff = r.diff
    BY <2>1 DEF Rbf
  <2>3. QED
    BY <2>2 DEF DiffIs
<1>4. CASE ~(r.kl # <<>> /\ diff < 0) /\ ~(r.kl # <<>> /\ diff < seg)
  <2>1. r.kl \in Seq(klst) /\ k.ts \in Nat
    BY CloseTyped DEF Rbf
  <2>2. Back(r.kl) = FromEnd(r.kl, 0)
    BY <2>1 DEF Back, FromEnd
  <2>3. Len(r.kl) > 0 => FromEnd(r.kl, 0).ts \in Int
    BY <2>1 DEF Sound, Line, Spaced, Steps
  <2>4. Later(r, seg, k)
    BY <1>4, <2>1, <2>2, <2>3 DEF Later
  <2>5. QED
    BY <1>1, <1>4, <2>4, NewCandleApart
<1>5. QED
  BY <1>2, <1>3, <1>4

AllApart == \A kind \in Kinds : DiffIs(rbf[kind])

LEMMA ApartInit == Init => AllApart
BY DEF Init, AllApart, DiffIs, newrbf, Steps

LEMMA ApartNext == TypeOK /\ Inv /\ AllApart /\ [Next]_vars => AllApart'
<1> SUFFICES ASSUME TypeOK, Inv, AllApart, [Next]_vars PROVE AllApart'
  OBVIOUS
<1>1. ASSUME NEW kind \in Kinds, Notify(kind) PROVE AllApart'
  <2>1. PICK as \in Kinds, k \in klst :
          /\ k.ts \in Nat /\ k.ts <= now /\ Seg[as] \in Nat /\ Seg[as] > 0
          /\ rbf' = [rbf EXCEPT ![as] = addImpl(rbf[as], Seg[as], k)]
    BY <1>1, NotifyShape
  <2>2. /\ rbf[as] \in Rbf /\ Bounded(rbf[as]) /\ Sound(rbf[as], Seg[as]) /\ DiffIs(rbf[as])
    BY DEF TypeOK, Bounded, Inv, AllApart
  <2>3. DiffIs(addImpl(rbf[as], Seg[as], k))
    BY <2>1, <2>2, AddApart
  <2>4. \A other \in Kinds : rbf'[other] =
          IF other = as THEN addImpl(rbf[as], Seg[as], k) ELSE rbf[other]
    BY <2>1 DEF TypeOK
  <2>5. QED
    BY <2>3, <2>4 DEF AllApart
<1>2. CASE Advance
  BY <1>2 DEF Advance, AllApart
<1>3. CASE UNCHANGED vars
  BY <1>3 DEF vars, AllApart
<1>4. QED
  BY <1>1, <1>2, <1>3 DEF Next

-----------------------------------------------------------------------------
(* Windows.                                                                *)

(* A window that is not empty has a first and a last index. *)
LEMMA EndsOfWindow ==
  ASSUME NEW n \in Nat, NEW w, w \subseteq 1 .. n, w # {}
  PROVE  /\ FirstOf(w) \in w /\ \A j \in w : FirstOf(w) <= j
         /\ LastOf(w) \in w /\ \A j \in w : j <= LastOf(w)
<1>1. \E i \in w : \A j \in w : i <= j
  <2>1. w \subseteq Nat
    OBVIOUS
  <2>2. PICK x \in w : \A y \in w : ~(y < x)
    BY <2>1, LeastNatural
  <2>3. \A y \in w : x <= y
    BY <2>1, <2>2
  <2>4. QED
    BY <2>3
<1>2. \E i \in w : \A j \in w : j <= i
  <2> DEFINE T == {n - i : i \in w}
  <2>0. \A i \in w : i \in Nat /\ n - i \in Nat
    <3>1. \A i \in 1 .. n : i \in Nat /\ n - i \in Nat
      OBVIOUS
    <3>2. QED
      BY <3>1
  <2>1. T \subseteq Nat /\ T # {}
    BY <2>0
  <2> HIDE DEF T
  <2>2. PICK x \in T : \A y \in T : ~(y < x)
    BY <2>1, LeastNatural
  <2>3. PICK i \in w : x = n - i
    BY <2>2 DEF T
  <2>4. \A j \in w : ~(n - j < n - i)
    BY <2>2, <2>3 DEF T
  <2>5. \A j \in w : j <= i
    BY <2>0, <2>4
  <2>6. QED
    BY <2>5
<1>3. QED
  BY <1>1, <1>2 DEF FirstOf, LastOf

(* The ends of a window that is moved. *)
LEMMA MovedWindow ==
  ASSUME NEW n \in Nat, NEW w, w \subseteq 1 .. n, w # {}, NEW o \in Nat,
         NEW v, v = {i + o : i \in w}
  PROVE  FirstOf(v) = FirstOf(w) + o /\ LastOf(v) = LastOf(w) + o
<1>0. \A i \in w : i \in Int /\ i + o \in 1 .. (n + o)
  <2>1. \A i \in 1 .. n : i \in Int /\ i + o \in 1 .. (n + o)
    OBVIOUS
  <2>2. QED
    BY <2>1
<1>1. v \subseteq 1 .. (n + o) /\ v # {} /\ n + o \in Nat
  <2>1. v \subseteq 1 .. (n + o)
    BY <1>0, Zenon
  <2>2. v # {}
    OBVIOUS
  <2>3. n + o \in Nat
    OBVIOUS
  <2>4. QED
    BY <2>1, <2>2, <2>3
<1>2. /\ FirstOf(w) \in w /\ \A j \in w : FirstOf(w) <= j
      /\ LastOf(w) \in w /\ \A j \in w : j <= LastOf(w)
  BY EndsOfWindow
<1>3. /\ FirstOf(v) \in v /\ \A j \in v : FirstOf(v) <= j
      /\ LastOf(v) \in v /\ \A j \in v : j <= LastOf(v)
  BY <1>1, EndsOfWindow
<1>4. PICK f \in w : FirstOf(v) = f + o
  BY <1>3
<1>5. PICK t \in w : LastOf(v) = t + o
  BY <1>3
<1>6. FirstOf(w) + o \in v /\ LastOf(w) + o \in v
  BY <1>2
<1>7. /\ f + o <= FirstOf(w) + o /\ FirstOf(w) <= f
      /\ LastOf(w) + o <= t + o /\ t <= LastOf(w)
  BY <1>2, <1>3, <1>4, <1>5, <1>6
<1>8. f \in Int /\ t \in Int /\ FirstOf(w) \in Int /\ LastOf(w) \in Int
  BY <1>0, <1>2, Zenon
<1>9. f = FirstOf(w) /\ t = LastOf(w)
  BY <1>7, <1>8
<1>10. QED
  BY <1>4, <1>5, <1>9

(* The windows of the three lines, once the slow one covers the time from   *)
(* a: the fast one has as many points in it, only further back in its list. *)
LEMMA SameWindows ==
  ASSUME NEW seg \in Nat, seg > 0, NEW r \in Rbf, Sound(r, seg),
         NEW a \in Int, NEW z \in Int, Len(r.ma30) > 0, r.ma30[1].ts <= a
  PROVE  LET o == Len(r.ma7) - Len(r.ma30)
         IN  /\ o \in Nat
             /\ Within(r.ma7, a, z) = {i + o : i \in Within(r.ma30, a, z)}
             /\ Within(r.diff, a, z) = Within(r.ma30, a, z)
             /\ \A i \in 1 .. Len(r.ma30) :
                  /\ r.ma7[i + o].ts = r.ma30[i].ts
                  /\ r.diff[i].ts = r.ma30[i].ts
<1> DEFINE o == Len(r.ma7) - Len(r.ma30)
<1>1. /\ r.ma7 \in Seq(Point) /\ r.ma30 \in Seq(Point) /\ r.diff \in Seq(Point)
      /\ Len(r.ma7) \in Nat /\ Len(r.ma30) \in Nat /\ Len(r.diff) \in Nat
  BY DEF Rbf
<1>2. /\ Len(r.diff) = Len(r.ma30) /\ Len(r.ma30) <= Len(r.ma7)
      /\ Aligned(r.ma30, r.ma7) /\ Aligned(r.diff, r.ma7)
      /\ Spaced(r.ma7, seg)
  BY DEF Sound, Line
<1>3. o \in Nat
  BY <1>1, <1>2
<1>4. ASSUME NEW i \in 1 .. Len(r.ma30)
      PROVE  r.ma7[i + o].ts = r.ma30[i].ts /\ r.diff[i].ts = r.ma30[i].ts
  <2> DEFINE n == Len(r.ma30) - i
  <2>1. n \in Steps(r.ma30) /\ n \in Steps(r.diff) /\ Len(r.ma30) - n = i /\ Len(r.ma7) - n = i + o
    BY <1>1, <1>2 DEF Steps
  <2> HIDE DEF n
  <2>2. /\ FromEnd(r.ma30, n).ts = FromEnd(r.ma7, n).ts
        /\ FromEnd(r.diff, n).ts = FromEnd(r.ma7, n).ts
    BY <1>2, <2>1 DEF Aligned
  <2> HIDE DEF o
  <2>3. r.ma30[i].ts = r.ma7[i + o].ts /\ r.diff[i].ts = r.ma7[i + o].ts
    BY <1>2, <2>1, <2>2 DEF FromEnd
  <2>4. QED
    BY <2>3
<1>5. ASSUME NEW j \in 1 .. o PROVE r.ma7[j].ts < a
  <2> DEFINE n == Len(r.ma7) - j
             m == Len(r.ma30) - 1
  <2>1. /\ n \in Steps(r.ma7) /\ m \in Steps(r.ma7) /\ m < n
        /\ Len(r.ma7) - n = j /\ Len(r.ma7) - m = 1 + o /\ 1 \in 1 .. Len(r.ma30)
    BY <1>1, <1>2, <1>3 DEF Steps
  <2> HIDE DEF n, m
  <2>2. FromEnd(r.ma7, m).ts - FromEnd(r.ma7, n).ts >= seg
        /\ FromEnd(r.ma7, m).ts \in Int /\ FromEnd(r.ma7, n).ts \in Int
    BY <1>2, <2>1 DEF Spaced
  <2> HIDE DEF o
  <2>3. r.ma7[1 + o].ts - r.ma7[j].ts >= seg /\ r.ma7[1 + o].ts \in Int /\ r.ma7[j].ts \in Int
    BY <2>1, <2>2 DEF FromEnd
  <2>4. r.ma7[1 + o].ts = r.ma30[1].ts
    BY <1>4, <2>1
  <2>5. QED
    BY <2>3, <2>4
<1>6. Within(r.diff, a, z) = Within(r.ma30, a, z)
  BY <1>2, <1>4 DEF Within
<1>7. \A x, y, d \in Nat : x = y + d =>
        /\ \A j \in 1 .. x : j \in 1 .. d \/ j - d \in 1 .. y
        /\ \A i \in 1 .. y : i + d \in 1 .. x
  OBVIOUS
<1>8. /\ \A j \in 1 .. Len(r.ma7) : j \in 1 .. o \/ j - o \in 1 .. Len(r.ma30)
      /\ \A i \in 1 .. Len(r.ma30) : i + o \in 1 .. Len(r.ma7)
  <2>1. Len(r.ma7) = Len(r.ma30) + o
    BY <1>1
  <2> HIDE DEF o
  <2>2. QED
    BY <1>1, <1>3, <1>7, <2>1, Zenon
<1>9. \A j \in 1 .. Len(r.ma7) : r.ma7[j].ts \in Int /\ j \in Int /\ (j - o) + o = j
  <2>1. \A j \in 1 .. Len(r.ma7) : r.ma7[j] \in Point
    BY <1>1
  <2>2. QED
    BY <1>3, <2>1 DEF Point
<1>10. Within(r.ma7, a, z) = {i + o : i \in Within(r.ma30, a, z)}
  <2> HIDE DEF o
  <2>1. ASSUME NEW j \in Within(r.ma7, a, z)
        PROVE  \E i \in Within(r.ma30, a, z) : j = i + o
    <3>1. j \in 1 .. Len(r.ma7) /\ a <= r.ma7[j].ts /\ r.ma7[j].ts <= z
      BY DEF Within
    <3>2. r.ma7[j].ts \in Int /\ (j - o) + o = j
      BY <1>9, <3>1
    <3>3. j \notin 1 .. o
      BY <1>5, <3>1, <3>2
    <3>4. j - o \in 1 .. Len(r.ma30)
      BY <1>8, <3>1, <3>3
    <3>5. r.ma7[j].ts = r.ma30[j - o].ts
      BY <1>4, <3>2, <3>4
    <3>6. j - o \in Within(r.ma30, a, z)
      BY <3>1, <3>4, <3>5 DEF Within
    <3>7. QED
      BY <3>2, <3>6
  <2>2. ASSUME NEW i \in Within(r.ma30, a, z)
        PROVE  i + o \in Within(r.ma7, a, z)
    <3>1. i \in 1 .. Len(r.ma30) /\ a <= r.ma30[i].ts /\ r.ma30[i].ts <= z
      BY DEF Within
    <3>2. r.ma7[i + o].ts = r.ma30[i].ts
      BY <1>4, <3>1
    <3>3. QED
      BY <1>8, <3>1, <3>2 DEF Within
  <2>3. QED
    BY <2>1, <2>2
<1>11. QED
  BY <1>3, <1>4, <1>6, <1>10

(* The segments of a signal, once the slow line covers the window: all three *)
(* are cut at the same two candles.                                         *)
LEMMA SameSegments ==
  ASSUME NEW kind \in Kinds, NEW r \in Rbf, Sound(r, Seg[kind]), Covered(kind, r),
         LastSegment(kind, r, r.ma7) # <<>>, LastSegment(kind, r, r.ma30) # <<>>
  PROVE  \E f, t \in 1 .. Len(r.ma30), g, u \in 1 .. Len(r.ma7) :
           /\ f < t
           /\ Len(r.ma30) - f = Len(r.ma7) - g /\ Len(r.ma30) - t = Len(r.ma7) - u
           /\ r.ma7[g].ts = r.ma30[f].ts /\ r.ma7[u].ts = r.ma30[t].ts
           /\ r.diff[f].ts = r.ma30[f].ts /\ r.diff[t].ts = r.ma30[t].ts
           /\ LastSegment(kind, r, r.ma7) = <<r.ma7[g], r.ma7[u]>>
           /\ LastSegment(kind, r, r.ma30) = <<r.ma30[f], r.ma30[t]>>
           /\ LastSegment(kind, r, r.diff) \in {<<>>, <<r.diff[f], r.diff[t]>>}
<1> DEFINE z == GetLastKLTimeStamp(r)
           a == z - getKlParam(kind).distance * Seg[kind]
           w == Within(r.ma30, a, z)
           v == Within(r.ma7, a, z)
           o == Len(r.ma7) - Len(r.ma30)
           f == FirstOf(w)
           t == LastOf(w)
<1>1. Seg[kind] \in Nat /\ Seg[kind] > 0
  BY SegPositive
<1>2. r.ma30 \in Seq(Point) /\ Len(r.ma30) \in Nat /\ Len(r.ma30) > 0 /\ r.ma30[1].ts <= a
  BY DEF Rbf, Covered
<1>3. z \in Int
  <2>1. CASE r.kl = <<>>
    BY <2>1 DEF GetLastKLTimeStamp
  <2>2. CASE r.kl # <<>>
    <3>1. r.kl \in Seq(klst)
      BY DEF Rbf
    <3>2. Back(r.kl) \in klst
      BY <2>2, <3>1 DEF Back
    <3>3. Back(r.kl).ts \in Nat
      BY <3>2, CloseTyped
    <3>4. QED
      BY <2>2, <3>3 DEF GetLastKLTimeStamp
  <2>3. QED
    BY <2>1, <2>2
<1>4. a \in Int
  <2>1. getKlParam(kind).distance \in Nat
    BY SignalsAssumption DEF getKlParam
  <2> DEFINE d == getKlParam(kind).distance
  <2> HIDE DEF d, z
  <2>2. d * Seg[kind] \in Int
    BY <1>1, <2>1 DEF d
  <2>3. z - d * Seg[kind] \in Int
    BY <1>3, <2>2
  <2>4. QED
    BY <2>3 DEF d
<1>5. /\ LastSegment(kind, r, r.ma7) = HeadAndTail(r.ma7, v)
      /\ LastSegment(kind, r, r.ma30) = HeadAndTail(r.ma30, w)
      /\ LastSegment(kind, r, r.diff) = HeadAndTail(r.diff, Within(r.diff, a, z))
  BY DEF LastSegment, Segment
<1> HIDE DEF z, a
<1>6. /\ o \in Nat
      /\ v = {i + o : i \in w}
      /\ Within(r.diff, a, z) = w
      /\ \A i \in 1 .. Len(r.ma30) :
           /\ r.ma7[i + o].ts = r.ma30[i].ts
           /\ r.diff[i].ts = r.ma30[i].ts
  BY <1>1, <1>2, <1>3, <1>4, SameWindows
<1>7. w \subseteq 1 .. Len(r.ma30)
  BY DEF Within
<1>8. Len(r.ma7) \in Nat /\ Len(r.ma7) = Len(r.ma30) + o
  BY <1>2 DEF Rbf
<1> HIDE DEF w, v, o
<1>9. w # {} /\ FirstOf(w) # LastOf(w)
  BY <1>5 DEF HeadAndTail
<1>10. f \in w /\ t \in w /\ (\A j \in w : f <= j)
  BY <1>2, <1>7, <1>9, EndsOfWindow
<1>11. FirstOf(v) = f + o /\ LastOf(v) = t + o
  BY <1>2, <1>6, <1>7, <1>9, MovedWindow
<1>12. LastSegment(kind, r, r.ma7) = <<r.ma7[f + o], r.ma7[t + o]>>
  BY <1>5, <1>11 DEF HeadAndTail
<1>13. LastSegment(kind, r, r.ma30) = <<r.ma30[f], r.ma30[t]>>
  BY <1>5 DEF HeadAndTail
<1>14. LastSegment(kind, r, r.diff) \in {<<>>, <<r.diff[f], r.diff[t]>>}
  BY <1>5, <1>6 DEF HeadAndTail
<1>15. f # t
  BY <1>9
<1> HIDE DEF f, t
<1>16. f \in 1 .. Len(r.ma30) /\ t \in 1 .. Len(r.ma30) /\ f <= t
  BY <1>7, <1>10
<1>17. f < t /\ f \in Int /\ t \in Int
  BY <1>15, <1>16
<1>18. f + o \in 1 .. Len(r.ma7) /\ t + o \in 1 .. Len(r.ma7)
       /\ Len(r.ma30) - f = Len(r.ma7) - (f + o) /\ Len(r.ma30) - t = Len(r.ma7) - (t + o)
  BY <1>2, <1>6, <1>8, <1>16
<1>19. /\ r.ma7[f + o].ts = r.ma30[f].ts /\ r.ma7[t + o].ts = r.ma30[t].ts
       /\ r.diff[f].ts = r.ma30[f].ts /\ r.diff[t].ts = r.ma30[t].ts
  BY <1>6, <1>16
<1> DEFINE g == f + o
           u == t + o
<1>20. /\ g \in 1 .. Len(r.ma7) /\ u \in 1 .. Len(r.ma7)
       /\ Len(r.ma30) - f = Len(r.ma7) - g /\ Len(r.ma30) - t = Len(r.ma7) - u
       /\ r.ma7[g].ts = r.ma30[f].ts /\ r.ma7[u].ts = r.ma30[t].ts
       /\ LastSegment(kind, r, r.ma7) = <<r.ma7[g], r.ma7[u]>>
  BY <1>12, <1>18, <1>19
<1> HIDE DEF g, u
<1>21. QED
  BY <1>13, <1>14, <1>16, <1>17, <1>19, <1>20, Zenon

(* A signal needs a slope of both averages. *)
LEMMA CasesNeedSegments ==
  ASSUME NEW kind, NEW r, Cases(kind, r) # {}
  PROVE  /\ LastSegment(kind, r, r.ma7) # <<>> /\ LastSegment(kind, r, r.ma30) # <<>>
         /\ GetLastDiff(r) # 0
<1>1. /\ Reading(kind, r).ma7Slope = Slope(kind, r, r.ma7)
      /\ Reading(kind, r).ma30Slope = Slope(kind, r, r.ma30)
  BY DEF Reading
<1>2. /\ Slope(kind, r, r.ma7).rise # 0 /\ Slope(kind, r, r.ma30).rise # 0
      /\ GetLastDiff(r) # 0
  BY <1>1 DEF Cases
<1>3. \A l : LastSegment(kind, r, l) = <<>> => Slope(kind, r, l).rise = 0
  BY DEF Slope, slopeFactor
<1>4. QED
  BY <1>2, <1>3

LEMMA SameCandlesHold == TypeOK /\ Inv => SameCandles
<1> SUFFICES ASSUME TypeOK, Inv, NEW kind \in Kinds, Covered(kind, rbf[kind]),
                    Cases(kind, rbf[kind]) # {}
             PROVE  LET r == rbf[kind]
                        times(l) == LET s == LastSegment(kind, r, l)
                                    IN  [i \in DOMAIN s |-> s[i].ts]
                    IN  /\ times(r.ma7) = times(r.ma30)
                        /\ times(r.diff) \in {<<>>, times(r.ma30)}
  BY DEF SameCandles
<1> DEFINE r == rbf[kind]
           times(l) == LET s == LastSegment(kind, r, l) IN [i \in DOMAIN s |-> s[i].ts]
<1>1. r \in Rbf /\ Sound(r, Seg[kind])
  BY DEF TypeOK, Inv
<1>2. LastSegment(kind, r, r.ma7) # <<>> /\ LastSegment(kind, r, r.ma30) # <<>>
  BY CasesNeedSegments
<1>3. PICK f, t \in 1 .. Len(r.ma30), g, u \in 1 .. Len(r.ma7) :
        /\ r.ma7[g].ts = r.ma30[f].ts /\ r.ma7[u].ts = r.ma30[t].ts
        /\ r.diff[f].ts = r.ma30[f].ts /\ r.diff[t].ts = r.ma30[t].ts
        /\ LastSegment(kind, r, r.ma7) = <<r.ma7[g], r.ma7[u]>>
        /\ LastSegment(kind, r, r.ma30) = <<r.ma30[f], r.ma30[t]>>
        /\ LastSegment(kind, r, r.diff) \in {<<>>, <<r.diff[f], r.diff[t]>>}
  <2> HIDE DEF r
  <2>1. Covered(kind, r)
    BY DEF r
  <2>2. QED
    BY <1>1, <1>2, <2>1, SameSegments, Zenon
<1>4. ASSUME NEW l, NEW x, NEW y, LastSegment(kind, r, l) = <<x, y>>
      PROVE  times(l) = <<x.ts, y.ts>>
  <2>1. times(l) = [i \in DOMAIN <<x, y>> |-> <<x, y>>[i].ts]
    BY <1>4
  <2>2. [i \in DOMAIN <<x, y>> |-> <<x, y>>[i].ts] = <<x.ts, y.ts>>
    OBVIOUS
  <2>3. QED
    BY <2>1, <2>2
<1>5. ASSUME NEW l, LastSegment(kind, r, l) = <<>> PROVE times(l) = <<>>
  <2>1. times(l) = [i \in DOMAIN <<>> |-> <<>>[i].ts]
    BY <1>5
  <2>2. [i \in DOMAIN <<>> |-> <<>>[i].ts] = <<>>
    OBVIOUS
  <2>3. QED
    BY <2>1, <2>2
<1> HIDE DEF times
<1>6. times(r.ma7) = <<r.ma7[g].ts, r.ma7[u].ts>> /\ times(r.ma30) = <<r.ma30[f].ts, r.ma30[t].ts>>
  BY <1>3, <1>4
<1>7. times(r.diff) \in {<<>>, <<r.diff[f].ts, r.diff[t].ts>>}
  BY <1>3, <1>4, <1>5
<1>8. times(r.ma7) = times(r.ma30) /\ times(r.diff) \in {<<>>, times(r.ma30)}
  BY <1>3, <1>6, <1>7
<1>9. QED
  BY <1>8 DEF times

(* Once the slow line reaches back to the beginning of the window, the       *)
(* slopes a signal is made of begin and end at the same candles (magraph.go  *)
(* segment, which cuts each line on its own).                               *)
THEOREM CandlesCorrect == Spec => []SameCandles
<1>1. QED
  BY TypeCorrect, InvAlways, SameCandlesHold, PTL

-----------------------------------------------------------------------------
(* Buys.                                                                   *)

LEMMA NotPositive ==
  ASSUME NEW x \in Int, x <= 0, NEW y \in Nat
  PROVE  x * y \in Int /\ x * y <= 0
OBVIOUS

LEMMA NotNegative ==
  ASSUME NEW x \in Nat, NEW y \in Nat
  PROVE  x * y \in Nat
OBVIOUS

(* What comparing a slope with a threshold says of its sign. *)
LEMMA SlopeSigns ==
  ASSUME NEW s, s.rise \in Int, s.run \in Nat, NEW rate \in Nat
  PROVE  /\ Above(s, rate) => s.rise > 0
         /\ AtMost(s, -rate) => s.rise <= 0
         /\ Below(s, -rate) => s.rise < 0
<1> DEFINE up == rate * Fast * Slow * s.run
           down == (-rate) * Fast * Slow * s.run
<1>1. Fast \in Nat /\ Slow \in Nat
  BY KLineAssumption
<1>2. up \in Nat
  <2>1. rate * Fast \in Nat
    BY <1>1
  <2>2. rate * Fast * Slow \in Nat
    BY <1>1, <2>1, NotNegative
  <2>3. QED
    BY <2>2, NotNegative
<1>3. down \in Int /\ down <= 0
  <2>1. -rate \in Int /\ -rate <= 0
    OBVIOUS
  <2>2. (-rate) * Fast \in Int /\ (-rate) * Fast <= 0
    BY <1>1, <2>1, NotPositive
  <2>3. (-rate) * Fast * Slow \in Int /\ (-rate) * Fast * Slow <= 0
    BY <1>1, <2>2, NotPositive
  <2>4. QED
    BY <2>3, NotPositive
<1>4. /\ (Above(s, rate) <=> 100 * s.rise > up)
      /\ (AtMost(s, -rate) <=> ~(100 * s.rise > down))
      /\ (Below(s, -rate) <=> ~(100 * s.rise >= down))
  BY DEF Above, AtMost, Below, AtLeast
<1> HIDE DEF up, down
<1>5. QED
  BY <1>2, <1>3, <1>4

(* Two lines, x above or below y, that part company upwards and come closer *)
(* all the same: x began below.                                            *)
LEMMA FromBelow ==
  ASSUME NEW x \in Int, NEW y \in Int, NEW p \in Int, NEW q \in Int,
         p > x, q <= y, Apart(p, q) < Apart(x, y)
  PROVE  x < y
BY DEF Apart

LEMMA FirstCase ==
  ASSUME NEW kind \in Kinds, NEW r \in Rbf, Sound(r, Seg[kind]), Risen(r), DiffIs(r),
         1 \in Cases(kind, r)
  PROVE  Back(r.ma7).val > Back(r.ma30).val
<1> DEFINE c == Reading(kind, r)
<1>1. c.fcs = r.fcs
  BY DEF Reading
<1>2. GetLastDiff(r) # 0
  BY CasesNeedSegments
<1>3. 1 \in noCrossPointCase(c) \cup Trend(c) \cup Turn(c)
  BY DEF Cases
<1> HIDE DEF c
<1>4. c.fcs = "down2top"
  BY <1>3 DEF noCrossPointCase, Trend, Turn
<1>5. Len(r.ma30) > 0 /\ FromEnd(r.ma7, 0).val >= FromEnd(r.ma30, 0).val
  BY <1>1, <1>4 DEF Risen
<1>6. /\ r.ma7 \in Seq(Point) /\ r.ma30 \in Seq(Point) /\ r.diff \in Seq(Point)
      /\ Len(r.diff) = Len(r.ma30) /\ Len(r.ma30) <= Len(r.ma7)
  BY DEF Rbf, Sound
<1>7. /\ Back(r.ma7) = FromEnd(r.ma7, 0) /\ Back(r.ma30) = FromEnd(r.ma30, 0)
      /\ Back(r.diff) = FromEnd(r.diff, 0)
  BY <1>6 DEF Back, FromEnd
<1>8. FromEnd(r.diff, 0).val # 0
  BY <1>2, <1>7 DEF GetLastDiff
<1>9. 0 \in Steps(r.diff)
  BY <1>5, <1>6 DEF Steps
<1>10. FromEnd(r.diff, 0).val = Apart(FromEnd(r.ma7, 0).val, FromEnd(r.ma30, 0).val)
  BY <1>9 DEF DiffIs
<1>11. FromEnd(r.ma7, 0) \in Point /\ FromEnd(r.ma30, 0) \in Point
  <2>1. r.ma7[Len(r.ma7)] \in Point /\ r.ma30[Len(r.ma30)] \in Point
    BY <1>5, <1>6
  <2>2. QED
    BY <1>7, <2>1 DEF Back
<1>12. FromEnd(r.ma7, 0).val \in Int /\ FromEnd(r.ma30, 0).val \in Int
  BY <1>11 DEF Point
<1> DEFINE x == FromEnd(r.ma7, 0).val
           y == FromEnd(r.ma30, 0).val
<1>13. x \in Int /\ y \in Int /\ x >= y /\ Apart(x, y) # 0
  BY <1>5, <1>8, <1>10, <1>12
<1> HIDE DEF x, y
<1>14. x > y
  BY <1>13 DEF Apart
<1>15. QED
  BY <1>7, <1>14 DEF x, y

LEMMA FourthCase ==
  ASSUME NEW kind \in Kinds, NEW r \in Rbf, Sound(r, Seg[kind]), DiffIs(r),
         Covered(kind, r), 4 \in Cases(kind, r)
  PROVE  LastSegment(kind, r, r.ma7)[1].val < LastSegment(kind, r, r.ma30)[1].val
<1> DEFINE c == Reading(kind, r)
           kp == getKlParam(kind)
<1>1. /\ c.kp = kp /\ c.fcs = r.fcs
      /\ c.ma7Slope = Slope(kind, r, r.ma7) /\ c.ma30Slope = Slope(kind, r, r.ma30)
      /\ c.diffSlope = Slope(kind, r, r.diff)
  BY DEF Reading
<1>2. 4 \in noCrossPointCase(c) \cup Trend(c) \cup Turn(c)
  BY DEF Cases
<1> HIDE DEF c, kp
<1>3. Below(c.diffSlope, -c.kp.dkrate) /\ FastUpSlowDown(c)
  BY <1>2 DEF noCrossPointCase, Trend, Turn
<1>4. /\ Above(Slope(kind, r, r.ma7), kp.fkrate)
      /\ AtMost(Slope(kind, r, r.ma30), -kp.skrate)
      /\ Below(Slope(kind, r, r.diff), -kp.dkrate)
  BY <1>1, <1>3, Zenon DEF FastUpSlowDown
<1>5. kp.fkrate \in Nat /\ kp.skrate \in Nat /\ kp.dkrate \in Nat
  BY SignalsAssumption DEF kp, getKlParam
<1>6. LastSegment(kind, r, r.ma7) # <<>> /\ LastSegment(kind, r, r.ma30) # <<>>
  BY CasesNeedSegments
<1>7. PICK f, t \in 1 .. Len(r.ma30), g, u \in 1 .. Len(r.ma7) :
        /\ f < t
        /\ Len(r.ma30) - f = Len(r.ma7) - g /\ Len(r.ma30) - t = Len(r.ma7) - u
        /\ r.ma7[g].ts = r.ma30[f].ts /\ r.ma7[u].ts = r.ma30[t].ts
        /\ r.diff[f].ts = r.ma30[f].ts /\ r.diff[t].ts = r.ma30[t].ts
        /\ LastSegment(kind, r, r.ma7) = <<r.ma7[g], r.ma7[u]>>
        /\ LastSegment(kind, r, r.ma30) = <<r.ma30[f], r.ma30[t]>>
        /\ LastSegment(kind, r, r.diff) \in {<<>>, <<r.diff[f], r.diff[t]>>}
  BY <1>6, SameSegments, Zenon
<1>8. /\ r.ma7 \in Seq(Point) /\ r.ma30 \in Seq(Point) /\ r.diff \in Seq(Point)
      /\ Len(r.ma30) \in Nat /\ Len(r.ma7) \in Nat
      /\ Len(r.diff) = Len(r.ma30) /\ Spaced(r.ma30, Seg[kind])
  BY DEF Rbf, Sound, Line
<1>9. /\ r.ma30[f] \in Point /\ r.ma30[t] \in Point /\ r.diff[f] \in Point /\ r.diff[t] \in Point
      /\ r.ma7[g] \in Point /\ r.ma7[u] \in Point
  BY <1>8
<1>10. /\ r.ma30[f].val \in Int /\ r.ma30[t].val \in Int /\ r.diff[f].val \in Int
       /\ r.diff[t].val \in Int /\ r.ma7[g].val \in Int /\ r.ma7[u].val \in Int
       /\ r.ma30[f].ts \in Int /\ r.ma30[t].ts \in Int
  <2>1. \A e \in Point : e.val \in Int /\ e.ts \in Int
    BY DEF Point
  <2>2. QED
    BY <1>9, <2>1, Zenon
<1>11. /\ r.diff[f].val = Apart(r.ma7[g].val, r.ma30[f].val)
       /\ r.diff[t].val = Apart(r.ma7[u].val, r.ma30[t].val)
  <2>1. ASSUME NEW i \in 1 .. Len(r.ma30), NEW j \in 1 .. Len(r.ma7),
               Len(r.ma30) - i = Len(r.ma7) - j
        PROVE  r.diff[i].val = Apart(r.ma7[j].val, r.ma30[i].val)
    <3> DEFINE n == Len(r.ma30) - i
    <3>1. n \in Steps(r.diff) /\ Len(r.diff) - n = i /\ Len(r.ma30) - n = i /\ Len(r.ma7) - n = j
      BY <1>8, <2>1 DEF Steps
    <3> HIDE DEF n
    <3>2. FromEnd(r.diff, n).val = Apart(FromEnd(r.ma7, n).val, FromEnd(r.ma30, n).val)
      BY <3>1 DEF DiffIs
    <3>3. QED
      BY <3>1, <3>2, Zenon DEF FromEnd
  <2>2. QED
    BY <1>7, <2>1, Zenon
<1>12. (r.ma30[t].ts - r.ma30[f].ts) \div Seg[kind] \in Nat
  <2> DEFINE m == Len(r.ma30) - f
             n == Len(r.ma30) - t
  <2>1. /\ m \in Steps(r.ma30) /\ n \in Steps(r.ma30) /\ n < m
        /\ Len(r.ma30) - m = f /\ Len(r.ma30) - n = t
    BY <1>7, <1>8 DEF Steps
  <2> HIDE DEF m, n
  <2>2. FromEnd(r.ma30, n).ts - FromEnd(r.ma30, m).ts >= Seg[kind]
    BY <1>8, <2>1 DEF Spaced
  <2>3. r.ma30[t].ts - r.ma30[f].ts >= Seg[kind]
    BY <2>1, <2>2, Zenon DEF FromEnd
  <2> DEFINE d == r.ma30[t].ts - r.ma30[f].ts
             seg == Seg[kind]
  <2>4. seg \in Nat /\ seg > 0
    BY SegPositive, Zenon
  <2>5. d \in Int /\ d >= seg
    <3>1. \A i, j \in Int : i - j \in Int
      OBVIOUS
    <3>2. QED
      BY <1>10, <2>3, <3>1, Zenon
  <2> HIDE DEF d, seg
  <2>6. d \div seg >= 1
    BY <2>4, <2>5, WholePeriods
  <2>7. d \div seg \in Int
    BY <2>4, <2>5
  <2>8. d \div seg \in Nat
    BY <2>6, <2>7
  <2>9. QED
    BY <2>8 DEF d, seg
<1> DEFINE run == (r.ma30[t].ts - r.ma30[f].ts) \div Seg[kind]
<1>13. \A l, x, y : LastSegment(kind, r, l) = <<x, y>> =>
         Slope(kind, r, l) = [rise |-> y.val - x.val, run |-> (y.ts - x.ts) \div Seg[kind]]
  BY DEF Slope, slopeFactor
<1>14. Slope(kind, r, r.ma7) = [rise |-> r.ma7[u].val - r.ma7[g].val, run |-> run]
  BY <1>7, <1>13
<1>15. Slope(kind, r, r.ma30) = [rise |-> r.ma30[t].val - r.ma30[f].val, run |-> run]
  BY <1>7, <1>13
<1>16. \/ Slope(kind, r, r.diff) = [rise |-> 0, run |-> 1]
       \/ Slope(kind, r, r.diff) = [rise |-> r.diff[t].val - r.diff[f].val, run |-> run]
  <2>1. CASE LastSegment(kind, r, r.diff) = <<>>
    BY <2>1 DEF Slope, slopeFactor
  <2>2. CASE LastSegment(kind, r, r.diff) = <<r.diff[f], r.diff[t]>>
    <3>1. r.diff[t].ts - r.diff[f].ts = r.ma30[t].ts - r.ma30[f].ts
      BY <1>7, Zenon
    <3>2. Slope(kind, r, r.diff) =
            [rise |-> r.diff[t].val - r.diff[f].val,
             run |-> (r.diff[t].ts - r.diff[f].ts) \div Seg[kind]]
      BY <1>13, <2>2, Zenon
    <3>3. QED
      BY <3>1, <3>2, Zenon
  <2>3. QED
    BY <1>7, <2>1, <2>2
<1> DEFINE x == r.ma7[g].val
           p == r.ma7[u].val
           y == r.ma30[f].val
           q == r.ma30[t].val
<1>17. x \in Int /\ p \in Int /\ y \in Int /\ q \in Int /\ run \in Nat
  BY <1>10, <1>12
<1>18. /\ Slope(kind, r, r.ma7) = [rise |-> p - x, run |-> run]
       /\ Slope(kind, r, r.ma30) = [rise |-> q - y, run |-> run]
       /\ \/ Slope(kind, r, r.diff) = [rise |-> 0, run |-> 1]
          \/ Slope(kind, r, r.diff) = [rise |-> Apart(p, q) - Apart(x, y), run |-> run]
  BY <1>11, <1>14, <1>15, <1>16
<1>19. LastSegment(kind, r, r.ma7)[1].val = x /\ LastSegment(kind, r, r.ma30)[1].val = y
  BY <1>7
<1> HIDE DEF x, p, y, q, run
<1>20. Apart(p, q) \in Int /\ Apart(x, y) \in Int
  BY <1>17 DEF Apart
<1>21. p - x > 0
  <2>1. p - x \in Int
    BY <1>17
  <2>2. QED
    <3> DEFINE s == Slope(kind, r, r.ma7)
    <3>1. s.rise = p - x /\ s.run = run
      BY <1>18
    <3> HIDE DEF s
    <3>2. Above(s, kp.fkrate) => s.rise > 0
      BY <1>5, <1>17, <2>1, <3>1, SlopeSigns
    <3>3. QED
      BY <1>4, <3>1, <3>2 DEF s
<1>22. q - y <= 0
  <2>1. q - y \in Int
    BY <1>17
  <2>2. QED
    <3> DEFINE s == Slope(kind, r, r.ma30)
    <3>1. s.rise = q - y /\ s.run = run
      BY <1>18
    <3> HIDE DEF s
    <3>2. AtMost(s, -kp.skrate) => s.rise <= 0
      BY <1>5, <1>17, <2>1, <3>1, SlopeSigns
    <3>3. QED
      BY <1>4, <3>1, <3>2 DEF s
<1>23. Apart(p, q) - Apart(x, y) < 0
  <2>1. Apart(p, q) - Apart(x, y) \in Int
    BY <1>20
  <2>2. CASE Slope(kind, r, r.diff) = [rise |-> 0, run |-> 1]
    <3> DEFINE s == Slope(kind, r, r.diff)
    <3>1. s.rise = 0 /\ s.run = 1
      BY <2>2
    <3> HIDE DEF s
    <3>2. Below(s, -kp.dkrate) => s.rise < 0
      BY <1>5, <3>1, SlopeSigns
    <3>3. QED
      BY <1>4, <3>1, <3>2 DEF s
  <2>3. CASE Slope(kind, r, r.diff) = [rise |-> Apart(p, q) - Apart(x, y), run |-> run]
    <3> DEFINE s == Slope(kind, r, r.diff)
    <3>1. s.rise = Apart(p, q) - Apart(x, y) /\ s.run = run
      BY <2>3
    <3> HIDE DEF s
    <3>2. Below(s, -kp.dkrate) => s.rise < 0
      BY <1>5, <1>17, <2>1, <3>1, SlopeSigns
    <3>3. QED
      BY <1>4, <3>1, <3>2 DEF s
  <2>4. QED
    BY <1>18, <2>2, <2>3
<1>24. p > x /\ q <= y /\ Apart(p, q) < Apart(x, y)
  BY <1>17, <1>20, <1>21, <1>22, <1>23
<1>25. x < y
  BY <1>17, <1>24, FromBelow
<1>26. QED
  BY <1>19, <1>25

LEMMA BuysRiseHolds == TypeOK /\ Inv /\ AllRisen /\ AllApart => BuysRise
<1> SUFFICES ASSUME TypeOK, Inv, AllRisen, AllApart, NEW kind \in Kinds
             PROVE  /\ CaseFits(kind, 1) =>
                         Back(rbf[kind].ma7).val > Back(rbf[kind].ma30).val
                    /\ CaseFits(kind, 4) /\ Covered(kind, rbf[kind]) =>
                         LastSegment(kind, rbf[kind], rbf[kind].ma7)[1].val
                           < LastSegment(kind, rbf[kind], rbf[kind].ma30)[1].val
  BY DEF BuysRise
<1>1. /\ rbf[kind] \in Rbf /\ Sound(rbf[kind], Seg[kind])
      /\ Risen(rbf[kind]) /\ DiffIs(rbf[kind])
  BY DEF TypeOK, Inv, AllRisen, AllApart
<1>2. QED
  BY <1>1, FirstCase, FourthCase DEF CaseFits

(* A buy along the trend has the fast line above the slow one; a buy at a   *)
(* turn had it below when the slopes began, provided the slow line reaches  *)
(* back to the beginning of the window; for all lengths, thresholds and     *)
(* prices (mavg_handlers.go, the cases of doTick).  The third line is the   *)
(* distance of the other two, point by point.                              *)
THEOREM BuysCorrect == Spec => []BuysRise
<1>1. Spec => []AllRisen
  BY RisenInit, RisenNext, TypeCorrect, InvAlways, PTL DEF Spec
<1>2. Spec => []AllApart
  BY ApartInit, ApartNext, TypeCorrect, InvAlways, PTL DEF Spec
<1>3. QED
  BY <1>1, <1>2, TypeCorrect, InvAlways, BuysRiseHolds, PTL
=============================================================================
