--------------------------- MODULE CurveRunProofs ---------------------------
(***************************************************************************)
(* Proofs about load curves and the executor that follows them, for every *)
(* curve, every set of VUs that spin, every number of worker threads and  *)
(* every bound on time and records:                                       *)
(*                                                                         *)
(*   the curve     the stage look-up and the targets (CurveSweep)         *)
(*   the handles   the executor's list is the list of the running VUs     *)
(*   the accounts  the drain's counters, per stage and overall, hold      *)
(*                 every record that was sent                             *)
(***************************************************************************)
EXTENDS CurveRun, CurveSweep, SumProofs, SequenceTheorems, FiniteSetTheorems, TLAPS

-----------------------------------------------------------------------------
(* The curve *)

\* A curve and the ends of its stages: each ends its duration after the one
\* before it.
LEMMA EndOfSteps ==
    ASSUME NEW c \in Seq(Stage)
    PROVE  /\ Len(c) \in Nat /\ DOMAIN c = 1..Len(c)
           /\ \A i \in 1..Len(c) : c[i] \in Stage
           /\ EndOf(c, 0) = 0
           /\ \A i \in 0..Len(c) : EndOf(c, i) \in Nat
           /\ \A i \in 1..Len(c) : EndOf(c, i) = EndOf(c, i - 1) + c[i].duration
<1>1. Len(c) \in Nat /\ DOMAIN c = 1..Len(c) /\ c \in [1..Len(c) -> Stage]
    BY LenProperties
<1> DEFINE d == Durations(c)
<1>2. \A i \in 1..Len(c) : d[i] = c[i].duration /\ d[i] \in Nat
    BY <1>1 DEF Durations, Stage
<1> HIDE DEF d
<1>3. EndOf(c, 0) = 0
    BY SumPrefixEmpty DEF EndOf
<1>4. ASSUME NEW i \in 0..Len(c) PROVE EndOf(c, i) \in Nat
  <2>1. IsFiniteSet(1..i) /\ NatValued(d, 1..i)
    BY <1>1, <1>2, FS_Interval DEF NatValued
  <2> QED BY <2>1, SumNat DEF EndOf, d
<1>5. ASSUME NEW i \in 1..Len(c) PROVE EndOf(c, i) = EndOf(c, i - 1) + c[i].duration
  <2>1. PICK n \in Nat : n = i - 1 /\ n + 1 = i
    BY <1>1
  <2>2. IntValued(d, 1..(n + 1))
    BY <1>1, <1>2, <2>1 DEF IntValued
  <2>3. SumFunctionOnSet(d, 1..(n + 1)) = SumFunctionOnSet(d, 1..n) + d[n + 1]
    BY <2>2, SumPrefix
  <2> QED BY <1>2, <2>1, <2>3 DEF EndOf, d
<1> QED BY <1>1, <1>3, <1>4, <1>5

\* A later stage does not end earlier.
LEMMA EndOfMonotone ==
    ASSUME NEW c \in Seq(Stage)
    PROVE  \A i, j \in 0..Len(c) : i <= j => EndOf(c, i) <= EndOf(c, j)
<1>1. /\ Len(c) \in Nat
      /\ \A i \in 1..Len(c) : c[i] \in Stage
      /\ \A i \in 0..Len(c) : EndOf(c, i) \in Nat
      /\ \A i \in 1..Len(c) : EndOf(c, i) = EndOf(c, i - 1) + c[i].duration
    BY EndOfSteps
<1> SUFFICES ASSUME NEW i \in 0..Len(c)
             PROVE  \A j \in 0..Len(c) : i <= j => EndOf(c, i) <= EndOf(c, j)
    OBVIOUS
<1> DEFINE P == {k \in Nat : i + k <= Len(c) => EndOf(c, i) <= EndOf(c, i + k)}
<1>2. 0 \in P
    BY <1>1
<1>3. ASSUME NEW k \in Nat, k \in P PROVE k + 1 \in P
  <2> SUFFICES ASSUME i + (k + 1) <= Len(c) PROVE EndOf(c, i) <= EndOf(c, i + (k + 1))
    OBVIOUS
  <2>1. i + (k + 1) \in 1..Len(c) /\ (i + (k + 1)) - 1 = i + k /\ i + k \in 0..Len(c)
    BY <1>1
  <2>2. c[i + (k + 1)].duration \in Nat
    BY <1>1, <2>1 DEF Stage
  <2>3. EndOf(c, i + (k + 1)) = EndOf(c, i + k) + c[i + (k + 1)].duration
    BY <1>1, <2>1
  <2>4. EndOf(c, i) <= EndOf(c, i + k) /\ EndOf(c, i + k) \in Nat /\ EndOf(c, i) \in Nat
    BY <1>1, <1>3, <2>1
  <2> QED BY <2>2, <2>3, <2>4
<1> HIDE DEF P
<1>4. Nat \subseteq P
    BY <1>2, <1>3, NatBySteps
<1> SUFFICES ASSUME NEW j \in 0..Len(c), i <= j PROVE EndOf(c, i) <= EndOf(c, j)
    OBVIOUS
<1>5. j - i \in Nat /\ i + (j - i) = j /\ j <= Len(c)
    BY <1>1
<1> QED BY <1>4, <1>5 DEF P

\* While the curve runs, the first stage that is not over is the one that has
\* begun and not ended; the stage look-up is that one, or else the last.
LEMMA FirstPending ==
    ASSUME NEW c \in Seq(Stage), c # <<>>, NEW t \in Nat
    PROVE  /\ Pending(c, t) \in SUBSET (1..Len(c))
           /\ StageIndexAt(c, t) \in 1..Len(c)
           /\ (Pending(c, t) = {}) <=> (TotalDuration(c) <= t)
           /\ t < TotalDuration(c) =>
                /\ StageIndexAt(c, t) = Min(Pending(c, t))
                /\ EndOf(c, StageIndexAt(c, t) - 1) <= t
                /\ t < EndOf(c, StageIndexAt(c, t))
<1>1. /\ Len(c) \in Nat /\ DOMAIN c = 1..Len(c)
      /\ EndOf(c, 0) = 0
      /\ \A i \in 0..Len(c) : EndOf(c, i) \in Nat
    BY EndOfSteps
<1>2. Len(c) \in 1..Len(c)
    BY <1>1, EmptySeq
<1>3. Pending(c, t) = {i \in 1..Len(c) : t < EndOf(c, i)}
    BY <1>1 DEF Pending, NotOver
<1>4. ASSUME Pending(c, t) = {} PROVE TotalDuration(c) <= t
    BY <1>1, <1>2, <1>3, <1>4 DEF TotalDuration
<1>5. ASSUME TotalDuration(c) <= t PROVE Pending(c, t) = {}
  <2> SUFFICES ASSUME NEW i \in 1..Len(c), t < EndOf(c, i) PROVE FALSE
    BY <1>3
  <2>1. EndOf(c, i) <= EndOf(c, Len(c)) /\ EndOf(c, i) \in Nat /\ EndOf(c, Len(c)) \in Nat
    BY <1>1, EndOfMonotone
  <2> QED BY <1>5, <2>1 DEF TotalDuration
<1>6. ASSUME Pending(c, t) # {}
      PROVE  /\ Min(Pending(c, t)) \in 1..Len(c)
             /\ EndOf(c, Min(Pending(c, t)) - 1) <= t
             /\ t < EndOf(c, Min(Pending(c, t)))
  <2> DEFINE P == Pending(c, t)
             m == Min(P)
  <2>1. P \in SUBSET Nat
    BY <1>3
  <2>2. m \in P /\ \A y \in P : m <= y
    BY <1>6, <2>1, MinExists
  <2> HIDE DEF m
  <2>3. m \in 1..Len(c) /\ t < EndOf(c, m)
    BY <1>3, <2>2
  <2>4. EndOf(c, m - 1) <= t
    <3>1. CASE m = 1
        BY <1>1, <3>1
    <3>2. CASE m # 1
      <4>1. m - 1 \in 1..Len(c) /\ ~(m <= m - 1)
        BY <1>1, <2>3, <3>2
      <4>2. m - 1 \notin P
        BY <2>2, <4>1
      <4>3. EndOf(c, m - 1) \in Nat
        BY <1>1, <4>1
      <4> QED BY <1>3, <4>1, <4>2, <4>3
    <3> QED BY <3>1, <3>2
  <2> QED BY <2>3, <2>4 DEF m
<1>7. Pending(c, t) \in SUBSET (1..Len(c))
    BY <1>3
<1>8. ASSUME t < TotalDuration(c) PROVE Pending(c, t) # {}
  <2>1. TotalDuration(c) \in Nat
    BY <1>1, <1>2 DEF TotalDuration
  <2> QED BY <1>4, <1>8, <2>1
<1> QED BY <1>1, <1>2, <1>4, <1>5, <1>6, <1>7, <1>8 DEF StageIndexAt

\* Only one stage has begun and not ended.
LEMMA OneStageOwns ==
    ASSUME NEW c \in Seq(Stage), NEW t \in Nat, NEW i \in 1..Len(c), NEW j \in 1..Len(c),
           EndOf(c, i - 1) <= t, t < EndOf(c, i), EndOf(c, j - 1) <= t, t < EndOf(c, j)
    PROVE  i = j
<1>1. /\ Len(c) \in Nat
      /\ \A k \in 0..Len(c) : EndOf(c, k) \in Nat
      /\ \A k, l \in 0..Len(c) : k <= l => EndOf(c, k) <= EndOf(c, l)
    BY EndOfSteps, EndOfMonotone
<1>2. i - 1 \in 0..Len(c) /\ j - 1 \in 0..Len(c) /\ i \in 0..Len(c) /\ j \in 0..Len(c)
    BY <1>1
<1>3. ASSUME i <= j - 1 PROVE FALSE
    BY <1>1, <1>2, <1>3
<1>4. ASSUME j <= i - 1 PROVE FALSE
    BY <1>1, <1>2, <1>4
<1> QED BY <1>1, <1>2, <1>3, <1>4

\* What a quotient is.
LEMMA DivBounds ==
    ASSUME NEW n \in Nat, NEW w \in Nat \ {0}
    PROVE  n \div w \in Nat /\ w * (n \div w) <= n /\ n < w * (n \div w) + w
<1>1. n \div w \in Nat
    OBVIOUS
<1>2. w * (n \div w) <= n
    OBVIOUS
<1>3. n < w * (n \div w) + w
    OBVIOUS
<1> QED BY <1>1, <1>2, <1>3

\* A larger factor makes a larger product.
LEMMA TimesMonotone ==
    ASSUME NEW a \in Int, NEW b \in Int, NEW d \in Nat, a <= b
    PROVE  a * d <= b * d /\ a * d \in Int /\ b * d \in Int
    OBVIOUS

\* Rounding to the nearest integer moves a fraction by at most a half, and not
\* beyond a bound that is an integer itself.
LEMMA RoundedNearest ==
    ASSUME NEW e \in Nat, NEW d \in Nat \ {0}
    PROVE  /\ (2 * e + d) \div (2 * d) \in Nat
           /\ 2 * (((2 * e + d) \div (2 * d)) * d - e) <= d
           /\ 2 * (e - ((2 * e + d) \div (2 * d)) * d) <= d
           /\ \A m \in Nat : e <= m * d => (2 * e + d) \div (2 * d) <= m
<1> DEFINE n == 2 * e + d
           w == 2 * d
           q == n \div w
<1>1. n \in Nat /\ w \in Nat \ {0}
    OBVIOUS
<1>d. n = 2 * e + d /\ w = 2 * d /\ q = (2 * e + d) \div (2 * d)
    OBVIOUS
<1> HIDE DEF n, w
<1>2. q \in Nat /\ w * q <= n /\ n < w * q + w
    BY <1>1, DivBounds
<1> HIDE DEF q
<1> DEFINE p == q * d
<1>3. w * q = 2 * p /\ p \in Nat
    BY <1>d, <1>2
<1> HIDE DEF p
<1>4. 2 * (p - e) <= d /\ 2 * (e - p) <= d
    BY <1>d, <1>2, <1>3
<1>5. ASSUME NEW m \in Nat, e <= m * d, m < q PROVE FALSE
  <2>1. (m + 1) * d <= q * d
    BY <1>2, <1>5, TimesMonotone
  <2>2. (m + 1) * d = m * d + d /\ m * d \in Nat
    OBVIOUS
  <2> DEFINE r == m * d
  <2> HIDE DEF r
  <2>3. r \in Nat /\ e <= r /\ r + d <= p
    BY <1>5, <2>1, <2>2 DEF r, p
  <2> QED BY <1>d, <1>2, <1>3, <2>3
<1>6. ASSUME NEW m \in Nat, e <= m * d PROVE q <= m
    BY <1>2, <1>5, <1>6
<1>7. \A m \in Nat : e <= m * d => q <= m
    BY <1>6
<1> QED BY <1>d, <1>2, <1>4, <1>7 DEF p

\* The straight line from one target to the next lies between the two.
LEMMA LineBetween ==
    ASSUME NEW a \in Nat, NEW b \in Nat, NEW d \in Nat \ {0}, NEW x \in 0..d,
           NEW m \in Nat, a <= m, b <= m
    PROVE  a * (d - x) + b * x \in Nat /\ a * (d - x) + b * x <= m * d
<1>1. d - x \in Nat /\ x \in Nat
    OBVIOUS
<1>2. a * (d - x) <= m * (d - x) /\ b * x <= m * x
    BY <1>1, TimesMonotone
<1>3. a * (d - x) \in Nat /\ b * x \in Nat /\ m * (d - x) \in Nat /\ m * x \in Nat
    BY <1>1
<1>4. m * (d - x) + m * x = m * d
    BY <1>1
<1> QED BY <1>2, <1>3, <1>4

\* The highest target is one of the targets, and none is higher.
LEMMA PeakIsHighest ==
    ASSUME NEW c \in Seq(Stage), Valid(c)
    PROVE  Peak(c) \in Nat /\ \A i \in 1..Len(c) : c[i].target <= Peak(c)
<1>1. Len(c) \in Nat /\ DOMAIN c = 1..Len(c) /\ \A i \in 1..Len(c) : c[i] \in Stage
    BY EndOfSteps
<1>2. 1 \in 1..Len(c)
    BY <1>1, EmptySeq DEF Valid
<1> DEFINE T == {c[i].target : i \in DOMAIN c}
           B == {m \in Nat : \A t \in T : t <= m}
<1>3. T \in SUBSET Nat /\ T # {}
    BY <1>1, <1>2 DEF Stage
<1>4. MaxVus \in B
    BY <1>1, LimitsAssumption DEF Valid
<1>5. Min(B) \in B /\ \A y \in B : Min(B) <= y
    BY <1>4, MinExists
<1>6. Min(B) \in T
  <2> SUFFICES ASSUME Min(B) \notin T PROVE FALSE
    OBVIOUS
  <2> DEFINE m == Min(B)
  <2>1. m \in Nat /\ \A t \in T : t <= m /\ t # m /\ t \in Nat
    BY <1>3, <1>5
  <2>2. \A y \in Nat : (\A t \in T : t <= y) => m <= y
    BY <1>5
  <2> HIDE DEF m, B, T
  <2>3. PICK t \in T : t \in Nat /\ t <= m /\ t # m
    BY <1>3, <2>1
  <2>4. m - 1 \in Nat /\ ~(m <= m - 1)
    BY <2>1, <2>3
  <2>5. \A u \in T : u <= m - 1
    BY <2>1
  <2> QED BY <2>2, <2>4, <2>5
<1>7. \E x \in T : \A y \in T : x >= y
    BY <1>3, <1>5, <1>6
<1>8. Peak(c) \in T /\ \A y \in T : Peak(c) >= y
    BY <1>7 DEF Peak, Max
<1>9. \A i \in 1..Len(c) : c[i].target \in T
    BY <1>1
<1> QED BY <1>3, <1>8, <1>9

\* While the curve runs, in the stage that owns the instant.
LEMMA TargetInStage ==
    ASSUME NEW c \in Seq(Stage), Valid(c), NEW t \in Nat, t < TotalDuration(c)
    PROVE  LET i == StageIndexAt(c, t)
               from == PreviousTarget(c, i)
               x == t - EndOf(c, i - 1)
               d == c[i].duration
           IN  /\ i \in 1..Len(c) /\ d \in Nat \ {0} /\ x \in 0..d /\ c[i].target \in Nat
               /\ from \in Nat /\ from <= Peak(c)
               /\ TargetVusAt(c, t) = IF RampOf(c[i]) = "step" THEN c[i].target
                                      ELSE Interpolate(from, c[i].target, x, d)
<1> DEFINE i == StageIndexAt(c, t)
           x == t - EndOf(c, i - 1)
<1>1. /\ Len(c) \in Nat /\ \A k \in 1..Len(c) : c[k] \in Stage
      /\ \A k \in 0..Len(c) : EndOf(c, k) \in Nat
      /\ \A k \in 1..Len(c) : EndOf(c, k) = EndOf(c, k - 1) + c[k].duration
    BY EndOfSteps
<1>2. c # <<>>
    BY DEF Valid
<1>3. i \in 1..Len(c) /\ i = Min(Pending(c, t)) /\ EndOf(c, i - 1) <= t /\ t < EndOf(c, i)
    BY <1>2, FirstPending
<1>n. Pending(c, t) # {}
  <2>1. TotalDuration(c) \in Nat
    BY <1>1 DEF TotalDuration
  <2>2. ~(TotalDuration(c) <= t)
    BY <2>1
  <2>3. Pending(c, t) = {} <=> TotalDuration(c) <= t
    BY <1>2, FirstPending, Zenon
  <2> QED BY <2>2, <2>3, Zenon
<1>4. TargetVusAt(c, t) = IF RampOf(c[i]) = "step" THEN c[i].target
                          ELSE Interpolate(PreviousTarget(c, i), c[i].target, x, c[i].duration)
  <2> HIDE DEF i
  <2> QED BY <1>3, <1>n DEF TargetVusAt
<1> HIDE DEF i
<1>5. c[i].duration \in Nat /\ c[i].target \in Nat
    BY <1>1, <1>3 DEF Stage
<1>6. EndOf(c, i - 1) \in Nat /\ EndOf(c, i) = EndOf(c, i - 1) + c[i].duration
    BY <1>1, <1>3
<1>7. c[i].duration # 0 /\ x \in 0..c[i].duration
    BY <1>3, <1>5, <1>6
<1>8. PreviousTarget(c, i) \in Nat /\ PreviousTarget(c, i) <= Peak(c)
  <2>1. CASE i = 1
    BY <2>1, PeakIsHighest DEF PreviousTarget
  <2>2. CASE i # 1
    <3>1. i - 1 \in 1..Len(c)
        BY <1>3, <2>2
    <3> QED BY <1>1, <2>2, <3>1, PeakIsHighest DEF PreviousTarget, Stage
  <2> QED BY <2>1, <2>2
<1> QED BY <1>3, <1>4, <1>5, <1>7, <1>8 DEF i

\* At any instant the curve asks for between no VU and the highest target.
LEMMA TargetInRange ==
    ASSUME NEW c \in Seq(Stage), Valid(c), NEW t \in Nat
    PROVE  TargetVusAt(c, t) \in 0..Peak(c)
<1>1. Peak(c) \in Nat
    BY PeakIsHighest
<1>2. CASE Pending(c, t) = {}
    BY <1>1, <1>2 DEF TargetVusAt
<1>3. CASE Pending(c, t) # {}
  <2> DEFINE i == StageIndexAt(c, t)
             from == PreviousTarget(c, i)
             to == c[i].target
             x == t - EndOf(c, i - 1)
             d == c[i].duration
             e == from * (d - x) + to * x
  <2>1. t < TotalDuration(c)
    <3>1. TotalDuration(c) \in Nat /\ c # <<>>
        BY EndOfSteps DEF TotalDuration, Valid
    <3>2. Pending(c, t) = {} <=> TotalDuration(c) <= t
        BY <3>1, FirstPending, Zenon
    <3>3. ~(TotalDuration(c) <= t)
        BY <1>3, <3>2, Zenon
    <3> QED BY <3>1, <3>3
  <2>2. /\ i \in 1..Len(c) /\ d \in Nat \ {0} /\ x \in 0..d /\ to \in Nat
        /\ from \in Nat /\ from <= Peak(c)
        /\ TargetVusAt(c, t) = IF RampOf(c[i]) = "step" THEN to ELSE Interpolate(from, to, x, d)
    BY <2>1, TargetInStage
  <2>3. to <= Peak(c)
    BY <2>2, PeakIsHighest
  <2> HIDE DEF i, from, to, x, d
  <2>4. e \in Nat /\ e <= Peak(c) * d
    BY <1>1, <2>2, <2>3, LineBetween
  <2> HIDE DEF e
  <2>5. (2 * e + d) \div (2 * d) \in 0..Peak(c)
    BY <1>1, <2>2, <2>4, RoundedNearest
  <2>6. Interpolate(from, to, x, d) = (2 * e + d) \div (2 * d)
    BY DEF Interpolate, e
  <2> QED BY <1>1, <2>2, <2>3, <2>5, <2>6
<1> QED BY <1>2, <1>3
-----------------------------------------------------------------------------
(* A sweep over the curve *)

SweepInv ==
    /\ curve \in Seq(Stage) /\ Valid(curve)
    /\ elapsed \in Nat

\* The curve that is swept is a valid one.
LEMMA SweepInvCorrect == SweepSpec => []SweepInv
<1>1. SweepInit => SweepInv
    BY SweepAssumption DEF SweepInit, SweepInv
<1>2. SweepInv /\ [Sweep]_<<curve, elapsed>> => SweepInv'
    BY DEF SweepInv, Sweep
<1> QED BY <1>1, <1>2, PTL DEF SweepSpec

\* At every instant of every valid curve the look-up gives the one stage that
\* has begun and not ended.
\* About: stage_index_at with zero-length stages and at stage boundaries.
THEOREM InstantsHaveOneStage == SweepSpec => []StageOwnsInstant
<1>1. SweepInv => StageOwnsInstant
  <2> SUFFICES ASSUME SweepInv, elapsed < TotalDuration(curve)
               PROVE  /\ EndOf(curve, Current) - curve[Current].duration <= elapsed
                      /\ elapsed < EndOf(curve, Current)
    BY DEF StageOwnsInstant
  <2>1. curve \in Seq(Stage) /\ curve # <<>> /\ elapsed \in Nat
    BY DEF SweepInv, Valid
  <2>2. /\ Current \in 1..Len(curve) /\ EndOf(curve, Current - 1) <= elapsed
        /\ elapsed < EndOf(curve, Current)
    BY <2>1, FirstPending DEF Current
  <2>3. /\ EndOf(curve, Current) = EndOf(curve, Current - 1) + curve[Current].duration
        /\ Len(curve) \in Nat /\ EndOf(curve, Current - 1) \in Nat
        /\ curve[Current].duration \in Nat
    <3>1. Len(curve) \in Nat
        BY <2>1, EndOfSteps
    <3>2. Current \in 1..Len(curve) /\ Current - 1 \in 0..Len(curve)
        BY <2>2, <3>1
    <3> QED BY <2>1, <3>1, <3>2, EndOfSteps DEF Stage
  <2> QED BY <2>2, <2>3
<1> QED BY <1>1, SweepInvCorrect, PTL

\* On every valid curve a ramp is off the straight line by at most a half of a
\* VU, and a step has its target, in the stage the look-up gives.
\* About: the interpolation in target_vus_at against stage_index_at.
THEOREM RampsAreStraight == SweepSpec => []RampIsLinear
<1>1. SweepInv => RampIsLinear
  <2> SUFFICES ASSUME SweepInv, elapsed < TotalDuration(curve)
               PROVE  LET d == curve[Current].duration
                          x == elapsed - EndOf(curve, Current - 1)
                          exact == (From * (d - x)) + (To * x)
                      IN  IF RampOf(curve[Current]) = "linear"
                            THEN /\ 2 * (Target * d - exact) <= d
                                 /\ 2 * (exact - Target * d) <= d
                            ELSE Target = To
    BY DEF RampIsLinear
  <2> DEFINE d == curve[Current].duration
             x == elapsed - EndOf(curve, Current - 1)
             e == (From * (d - x)) + (To * x)
  <2>1. curve \in Seq(Stage) /\ Valid(curve) /\ elapsed \in Nat
    BY DEF SweepInv
  <2>2. /\ Current \in 1..Len(curve) /\ d \in Nat \ {0} /\ x \in 0..d /\ To \in Nat
        /\ From \in Nat /\ From <= Peak(curve)
        /\ Target = IF RampOf(curve[Current]) = "step" THEN To ELSE Interpolate(From, To, x, d)
    BY <2>1, TargetInStage DEF Current, From, To, Target, PreviousTarget
  <2>3. RampOf(curve[Current]) \in {"linear", "step"}
    <3>1. curve[Current] \in Stage
        BY <2>1, <2>2, EndOfSteps
    <3> QED BY <3>1 DEF Stage, RampOf, Ramps
  <2>4. To <= Peak(curve) /\ Peak(curve) \in Nat
    BY <2>1, <2>2, PeakIsHighest DEF To
  <2> HIDE DEF d, x
  <2>5. e \in Nat
    BY <2>2, <2>4, LineBetween
  <2> HIDE DEF e
  <2>6. /\ 2 * (((2 * e + d) \div (2 * d)) * d - e) <= d
        /\ 2 * (e - ((2 * e + d) \div (2 * d)) * d) <= d
    BY <2>2, <2>5, RoundedNearest
  <2>7. Interpolate(From, To, x, d) = (2 * e + d) \div (2 * d)
    BY DEF Interpolate, e
  <2>8. IF RampOf(curve[Current]) = "linear"
          THEN /\ 2 * (Target * d - e) <= d
               /\ 2 * (e - Target * d) <= d
          ELSE Target = To
    BY <2>2, <2>3, <2>6, <2>7
  <2> QED BY <2>8 DEF d, x, e
<1> QED BY <1>1, SweepInvCorrect, PTL

-----------------------------------------------------------------------------
(* The handles *)

\* The curve of the run: how long it lasts and what it asks for.
LEMMA CurveFacts ==
    /\ EndOfTime \in Nat /\ Peak(Stages) \in Nat
    /\ \A t \in 0..EndOfTime : TargetVusAt(Stages, t) \in 0..Peak(Stages)
<1>1. Stages \in Seq(Stage) /\ Valid(Stages) /\ Slack \in Nat
    BY CurveAssumption
<1>2. EndOfTime \in Nat
    BY <1>1, EndOfSteps DEF EndOfTime, TotalDuration
<1> QED BY <1>1, <1>2, TargetInRange, PeakIsHighest

VUState == {"ready", "inflight", "spinning", "exited"}

Typed ==
    /\ now \in 0..EndOfTime
    /\ vu \in Seq(VUState)
    /\ token \in Seq(BOOLEAN) /\ Len(token) = Len(vu)
    /\ handles \in Seq(Nat) /\ excess \in Seq(Nat)
    /\ \A i \in DOMAIN handles : handles[i] \in 1..Len(vu)
    /\ \A i \in DOMAIN excess : excess[i] \in 1..Len(vu)

\* Nobody is listed twice.
Distinct == \A i, j \in DOMAIN handles : handles[i] = handles[j] => i = j

\* A listed VU has not been told to stop, and stops only when its records are
\* not wanted any more.
Running ==
    \A i \in DOMAIN handles :
        ~token[handles[i]] /\ (vu[handles[i]] = "exited" => drain = "panicked")

\* A VU that is alive is listed, or on the list of those being awaited.
Accounted ==
    \A v \in 1..Len(vu) : vu[v] # "exited" =>
        \/ \E i \in DOMAIN handles : handles[i] = v
        \/ \E i \in DOMAIN excess : excess[i] = v

\* The list of the awaited is empty in the loop, the other one after it.
Phases ==
    /\ co = "loop" => excess = <<>>
    /\ co \in {"closing", "draining", "returned"} => handles = <<>>
    /\ co \in {"draining", "returned"} => excess = <<>>

IInv == Typed /\ Distinct /\ Running /\ Accounted /\ Phases

\* No VU, no handle, no record.
LEMMA IInvInit == Init => IInv
<1> SUFFICES ASSUME Init PROVE IInv
    OBVIOUS
<1>1. \A S : <<>> \in Seq(S)
    BY EmptySeq
<1>2. Len(<<>>) = 0 /\ DOMAIN <<>> = {}
    BY EmptySeq
<1> QED
    BY <1>1, <1>2, CurveFacts DEF Init, IInv, Typed, Distinct, Running, Accounted, Phases

-----------------------------------------------------------------------------
(* The three things that happen to the list *)

\* A concatenation has the old elements first, and the new ones behind them.
LEMMA Concatenated ==
    ASSUME NEW S, NEW s \in Seq(S), NEW t \in Seq(S)
    PROVE  /\ s \o t \in Seq(S) /\ Len(s \o t) = Len(s) + Len(t)
           /\ DOMAIN (s \o t) = 1..(Len(s) + Len(t))
           /\ \A i \in 1..Len(s) : (s \o t)[i] = s[i]
<1>1. Len(s) \in Nat /\ Len(t) \in Nat
    BY LenProperties
<1>2. /\ s \o t \in Seq(S) /\ Len(s \o t) = Len(s) + Len(t)
      /\ \A i \in 1..(Len(s) + Len(t)) :
            (s \o t)[i] = IF i <= Len(s) THEN s[i] ELSE t[i - Len(s)]
    BY ConcatProperties
<1>3. DOMAIN (s \o t) = 1..(Len(s) + Len(t))
    BY <1>2, LenProperties
<1>4. ASSUME NEW i \in 1..Len(s) PROVE (s \o t)[i] = s[i]
  <2>1. i \in 1..(Len(s) + Len(t)) /\ i <= Len(s)
    BY <1>1
  <2> QED BY <1>2, <2>1
<1> QED BY <1>2, <1>3, <1>4

\* The second part of a concatenation.
LEMMA ConcatenatedNew ==
    ASSUME NEW S, NEW s \in Seq(S), NEW t \in Seq(S)
    PROVE  \A k \in 1..Len(t) : (s \o t)[Len(s) + k] = t[k]
<1>1. Len(s) \in Nat /\ Len(t) \in Nat
    BY LenProperties
<1>2. \A i \in 1..(Len(s) + Len(t)) :
          (s \o t)[i] = IF i <= Len(s) THEN s[i] ELSE t[i - Len(s)]
    BY ConcatProperties
<1> SUFFICES ASSUME NEW k \in 1..Len(t) PROVE (s \o t)[Len(s) + k] = t[k]
    OBVIOUS
<1>3. /\ Len(s) + k \in 1..(Len(s) + Len(t)) /\ ~(Len(s) + k <= Len(s))
      /\ (Len(s) + k) - Len(s) = k
    BY <1>1
<1> QED BY <1>2, <1>3

\* New VUs have numbers nobody had before, and tokens of their own.
LEMMA Spawned ==
    ASSUME IInv, co = "loop", NEW n \in Nat, SpawnVUs(n), drain' = drain, now' = now
    PROVE  IInv' /\ Len(handles') = Len(handles) + n
<1> DEFINE N == Len(vu)
           H == Len(handles)
<1>1. /\ N \in Nat /\ H \in Nat /\ DOMAIN handles = 1..H
      /\ vu \in Seq(VUState) /\ token \in Seq(BOOLEAN) /\ Len(token) = N
      /\ handles \in Seq(Nat)
    BY LenProperties DEF IInv, Typed
<1> HIDE DEF N, H
<1>2. /\ [i \in 1..n |-> "ready"] \in Seq(VUState) /\ Len([i \in 1..n |-> "ready"]) = n
    <2>1. [i \in 1..n |-> "ready"] \in Seq(VUState)
        BY SeqDef DEF VUState
    <2> QED BY <2>1, LenProperties
<1>3. /\ [i \in 1..n |-> FALSE] \in Seq(BOOLEAN) /\ Len([i \in 1..n |-> FALSE]) = n
    <2>1. [i \in 1..n |-> FALSE] \in Seq(BOOLEAN)
        BY SeqDef
    <2> QED BY <2>1, LenProperties
<1>4. /\ [i \in 1..n |-> N + i] \in Seq(Nat) /\ Len([i \in 1..n |-> N + i]) = n
    <2>1. [i \in 1..n |-> N + i] \in Seq(Nat)
        BY <1>1, SeqDef
    <2> QED BY <2>1, LenProperties
<1>5. /\ vu' \in Seq(VUState) /\ Len(vu') = N + n
      /\ \A v \in 1..N : vu'[v] = vu[v]
      /\ \A k \in 1..n : vu'[N + k] = "ready"
  <2> DEFINE more == [i \in 1..n |-> "ready"]
  <2>1. \A k \in 1..n : more[k] = "ready"
    OBVIOUS
  <2>2. more \in Seq(VUState) /\ Len(more) = n /\ vu' = vu \o more
    BY <1>2 DEF SpawnVUs
  <2> HIDE DEF more
  <2>s. vu \in Seq(VUState) /\ more \in Seq(VUState)
    BY <1>1, <2>2
  <2>3. vu \o more \in Seq(VUState) /\ Len(vu \o more) = Len(vu) + Len(more)
    BY <2>s, Concatenated, Zenon
  <2>old. \A i \in 1..Len(vu) : (vu \o more)[i] = vu[i]
    BY <2>s, Concatenated, Zenon
  <2>new. \A k \in 1..Len(more) : (vu \o more)[Len(vu) + k] = more[k]
    BY <2>s, ConcatenatedNew, Zenon
  <2> QED BY <2>1, <2>2, <2>3, <2>old, <2>new DEF N
<1>6. /\ token' \in Seq(BOOLEAN) /\ Len(token') = N + n
      /\ \A v \in 1..N : token'[v] = token[v]
      /\ \A k \in 1..n : token'[N + k] = FALSE
  <2> DEFINE more == [i \in 1..n |-> FALSE]
  <2>1. \A k \in 1..n : more[k] = FALSE
    OBVIOUS
  <2>2. more \in Seq(BOOLEAN) /\ Len(more) = n /\ token' = token \o more
    BY <1>3 DEF SpawnVUs
  <2> HIDE DEF more
  <2>s. token \in Seq(BOOLEAN) /\ more \in Seq(BOOLEAN)
    BY <1>1, <2>2
  <2>3. token \o more \in Seq(BOOLEAN) /\ Len(token \o more) = Len(token) + Len(more)
    BY <2>s, Concatenated, Zenon
  <2>old. \A i \in 1..Len(token) : (token \o more)[i] = token[i]
    BY <2>s, Concatenated, Zenon
  <2>new. \A k \in 1..Len(more) : (token \o more)[Len(token) + k] = more[k]
    BY <2>s, ConcatenatedNew, Zenon
  <2>4. Len(token) = N
    BY <1>1
  <2> QED BY <2>1, <2>2, <2>3, <2>old, <2>new, <2>4, Zenon
<1>7. /\ handles' \in Seq(Nat) /\ Len(handles') = H + n /\ DOMAIN handles' = 1..(H + n)
      /\ \A i \in 1..H : handles'[i] = handles[i]
      /\ \A k \in 1..n : handles'[H + k] = N + k
  <2> DEFINE more == [i \in 1..n |-> N + i]
  <2>1. \A k \in 1..n : more[k] = N + k
    OBVIOUS
  <2>2. more \in Seq(Nat) /\ Len(more) = n /\ handles' = handles \o more
    BY <1>4 DEF SpawnVUs, N
  <2> HIDE DEF more
  <2>s. handles \in Seq(Nat) /\ more \in Seq(Nat)
    BY <1>1, <2>2
  <2>3. handles \o more \in Seq(Nat) /\ Len(handles \o more) = Len(handles) + Len(more)
    BY <2>s, Concatenated, Zenon
  <2>d. DOMAIN (handles \o more) = 1..(Len(handles) + Len(more))
    BY <2>s, Concatenated, Zenon
  <2>old. \A i \in 1..Len(handles) : (handles \o more)[i] = handles[i]
    BY <2>s, Concatenated, Zenon
  <2>new. \A k \in 1..Len(more) : (handles \o more)[Len(handles) + k] = more[k]
    BY <2>s, ConcatenatedNew, Zenon
  <2> QED BY <2>1, <2>2, <2>3, <2>d, <2>old, <2>new DEF H
<1>8. \A i \in 1..H : handles[i] \in 1..N
    BY <1>1 DEF IInv, Typed, N
<1>9. excess' = excess /\ co' = co /\ excess = <<>>
    BY DEF SpawnVUs, IInv, Phases
\* A position of the new list is an old one or the k-th behind it.
<1>10. ASSUME NEW i \in 1..(H + n), i \notin 1..H PROVE \E k \in 1..n : i = H + k
  <2>1. i - H \in 1..n /\ i = H + (i - H)
    BY <1>1, <1>10
  <2> QED BY <2>1
<1>11. Typed'
  <2>1. ASSUME NEW i \in 1..(H + n) PROVE handles'[i] \in 1..(N + n)
    <3>1. CASE i \in 1..H
        BY <1>1, <1>7, <1>8, <3>1
    <3>2. CASE i \notin 1..H
      <4>1. PICK k \in 1..n : i = H + k
        BY <1>10, <3>2
      <4>2. handles'[i] = N + k
        BY <1>7, <4>1
      <4>3. N + k \in 1..(N + n)
        BY <1>1
      <4> QED BY <4>2, <4>3
    <3> QED BY <3>1, <3>2
  <2>2. excess \in Seq(Nat) /\ \A i \in DOMAIN excess : excess[i] \in 1..(N + n)
    BY <1>1, <1>9 DEF IInv, Typed, N
  <2> QED BY <1>5, <1>6, <1>7, <1>9, <2>1, <2>2 DEF IInv, Typed
<1>12. Distinct'
  <2>1. ASSUME NEW i \in 1..H, NEW j \in 1..H, handles[i] = handles[j] PROVE i = j
    BY <1>1, <2>1 DEF IInv, Distinct
  <2>2. ASSUME NEW i \in 1..(H + n), NEW j \in 1..(H + n), handles'[i] = handles'[j]
        PROVE  i = j
    <3>1. CASE i \in 1..H /\ j \in 1..H
        BY <1>7, <2>1, <2>2, <3>1
    <3>2. CASE i \in 1..H /\ j \notin 1..H
      <4>1. PICK k \in 1..n : j = H + k
        BY <1>10, <3>2
      <4>2. handles'[j] = N + k /\ handles'[i] = handles[i] /\ handles[i] \in 1..N
        BY <1>7, <1>8, <3>2, <4>1
      <4>3. N + k \in 1..N
        BY <2>2, <4>2
      <4> QED BY <1>1, <4>3
    <3>3. CASE i \notin 1..H /\ j \in 1..H
      <4>1. PICK k \in 1..n : i = H + k
        BY <1>10, <3>3
      <4>2. handles'[i] = N + k /\ handles'[j] = handles[j] /\ handles[j] \in 1..N
        BY <1>7, <1>8, <3>3, <4>1
      <4>3. N + k \in 1..N
        BY <2>2, <4>2
      <4> QED BY <1>1, <4>3
    <3>4. CASE i \notin 1..H /\ j \notin 1..H
      <4>1. PICK k \in 1..n : i = H + k
        BY <1>10, <3>4
      <4>2. PICK l \in 1..n : j = H + l
        BY <1>10, <3>4
      <4>3. N + k = N + l
        BY <1>7, <2>2, <4>1, <4>2
      <4> QED BY <1>1, <4>1, <4>2, <4>3
    <3> QED BY <3>1, <3>2, <3>3, <3>4
  <2> QED BY <1>7, <2>2 DEF Distinct
<1>13. Running'
  <2>1. ASSUME NEW i \in 1..H
        PROVE  ~token'[handles'[i]] /\ (vu'[handles'[i]] = "exited" => drain' = "panicked")
    <3>1. ~token[handles[i]] /\ (vu[handles[i]] = "exited" => drain = "panicked")
        BY <1>1 DEF IInv, Running
    <3>2. /\ token'[handles'[i]] = token[handles[i]] /\ vu'[handles'[i]] = vu[handles[i]]
        BY <1>5, <1>6, <1>7, <1>8
    <3> QED BY <3>1, <3>2
  <2>2. ASSUME NEW k \in 1..n
        PROVE  /\ ~token'[handles'[H + k]]
               /\ vu'[handles'[H + k]] = "exited" => drain' = "panicked"
    BY <1>5, <1>6, <1>7
  <2> QED BY <1>7, <1>10, <2>1, <2>2 DEF Running
<1>14. Accounted'
  <2>1. ASSUME NEW v \in 1..N, vu[v] # "exited"
        PROVE  \E i \in 1..(H + n) : handles'[i] = v
    <3>1. \E i \in 1..H : handles[i] = v
        BY <1>1, <1>9, <2>1, EmptySeq DEF IInv, Accounted, N
    <3> QED BY <1>1, <1>7, <3>1
  <2>2. ASSUME NEW k \in 1..n PROVE \E i \in 1..(H + n) : handles'[i] = N + k
    <3>1. H + k \in 1..(H + n)
        BY <1>1
    <3> QED BY <1>7, <3>1
  <2>3. ASSUME NEW v \in 1..(N + n), v \notin 1..N PROVE \E k \in 1..n : v = N + k
    <3>1. v - N \in 1..n /\ v = N + (v - N)
        BY <1>1, <2>3
    <3> QED BY <3>1
  <2>4. ASSUME NEW v \in 1..(N + n), vu'[v] # "exited"
        PROVE  \E i \in 1..(H + n) : handles'[i] = v
    <3>1. CASE v \in 1..N
        BY <1>5, <2>1, <2>4, <3>1
    <3>2. CASE v \notin 1..N
        BY <2>2, <2>3, <3>2
    <3> QED BY <3>1, <3>2
  <2> QED BY <1>5, <1>7, <2>4 DEF Accounted
<1>15. Phases'
    BY <1>9 DEF Phases
<1> QED BY <1>7, <1>11, <1>12, <1>13, <1>14, <1>15 DEF IInv, H

\* Cancelling a list of VUs sets their tokens and no others.
LEMMA Cancelled ==
    ASSUME Typed, NEW list, CancelTokens(list)
    PROVE  /\ token' \in Seq(BOOLEAN) /\ Len(token') = Len(vu)
           /\ \A v \in 1..Len(vu) :
                (\A i \in DOMAIN list : list[i] # v) /\ ~token[v] => ~token'[v]
<1> DEFINE new == [v \in 1..Len(vu) |-> token[v] \/ \E i \in DOMAIN list : list[i] = v]
<1>1. Len(vu) \in Nat /\ DOMAIN token = 1..Len(vu)
    BY LenProperties DEF Typed
<1>2. token' = new
    BY <1>1 DEF CancelTokens
<1>3. new \in [1..Len(vu) -> BOOLEAN]
    OBVIOUS
<1>4. new \in Seq(BOOLEAN)
    BY <1>1, <1>3, SeqDef
<1>5. Len(new) = Len(vu)
    BY <1>1, <1>3, <1>4, LenProperties
<1>6. ASSUME NEW v \in 1..Len(vu), \A i \in DOMAIN list : list[i] # v, ~token[v]
      PROVE  ~token'[v]
    BY <1>2, <1>6
<1> QED BY <1>2, <1>4, <1>5, <1>6

\* The VUs that are retired leave the tail of the list for the awaited ones.
LEMMA Retired ==
    ASSUME IInv, NEW n \in 1..Len(handles), RetireVUs(n), drain' = drain, now' = now
    PROVE  /\ IInv' /\ Len(handles') + Len(excess') = Len(handles) + Len(excess)
<1> DEFINE N == Len(vu)
           H == Len(handles)
           K == H - n
           E == Len(excess)
           gone == SubSeq(handles, H - n + 1, H)
<1>1. /\ N \in Nat /\ H \in Nat /\ DOMAIN handles = 1..H /\ E \in Nat /\ DOMAIN excess = 1..E
      /\ handles \in Seq(Nat) /\ excess \in Seq(Nat)
    BY LenProperties DEF IInv, Typed
<1>2. \A i \in 1..H : handles[i] \in Nat /\ handles[i] \in 1..N
  <2>1. \A i \in 1..H : handles[i] \in 1..N
    BY <1>1 DEF IInv, Typed
  <2> QED BY <1>1, <2>1
<1>3. K \in Nat /\ K <= H /\ n \in Nat /\ n = H - K
    BY <1>1
<1>4. /\ gone \in Seq(Nat) /\ Len(gone) = n /\ DOMAIN gone = 1..n
      /\ \A k \in 1..n : gone[k] = handles[K + k]
  <2>1. \A i \in (H - n + 1)..H : handles[i] \in Nat
    BY <1>1, <1>2, <1>3
  <2>2. /\ gone \in Seq(Nat) /\ Len(gone) = IF H - n + 1 <= H THEN H - (H - n + 1) + 1 ELSE 0
        /\ \A i \in 1..(H - (H - n + 1) + 1) : gone[i] = handles[(H - n + 1) + i - 1]
    BY <1>1, <1>3, <2>1, SubSeqProperties
  <2>3. H - n + 1 <= H /\ H - (H - n + 1) + 1 = n
        /\ \A k \in 1..n : (H - n + 1) + k - 1 = K + k
    BY <1>1, <1>3
  <2>4. Len(gone) = n /\ \A k \in 1..n : gone[k] = handles[K + k]
    BY <2>2, <2>3
  <2> QED BY <2>2, <2>4, LenProperties
<1>5. /\ handles' \in Seq(Nat) /\ Len(handles') = K /\ DOMAIN handles' = 1..K
      /\ \A i \in 1..K : handles'[i] = handles[i]
  <2>1. \A i \in 1..K : handles[i] \in Nat
    BY <1>1, <1>2, <1>3
  <2>2. /\ SubSeq(handles, 1, K) \in Seq(Nat)
        /\ Len(SubSeq(handles, 1, K)) = IF 1 <= K THEN K - 1 + 1 ELSE 0
        /\ \A i \in 1..(K - 1 + 1) : SubSeq(handles, 1, K)[i] = handles[1 + i - 1]
    BY <1>3, <2>1, SubSeqProperties
  <2>3. handles' = SubSeq(handles, 1, K)
    BY DEF RetireVUs
  <2>4. (IF 1 <= K THEN K - 1 + 1 ELSE 0) = K /\ K - 1 + 1 = K /\ \A i \in 1..K : 1 + i - 1 = i
    BY <1>3
  <2>5. Len(handles') = K /\ \A i \in 1..K : handles'[i] = handles[i]
    BY <2>2, <2>3, <2>4
  <2> QED BY <2>2, <2>3, <2>5, LenProperties
<1>6. /\ excess' = excess \o gone /\ vu' = vu /\ co' = "retiring" /\ CancelTokens(gone)
    BY DEF RetireVUs, RetireState, CancelledOf
<1> HIDE DEF gone, K, H, N, E
<1>7. /\ excess' \in Seq(Nat) /\ Len(excess') = E + n /\ DOMAIN excess' = 1..(E + n)
      /\ \A i \in 1..E : excess'[i] = excess[i]
      /\ \A k \in 1..n : excess'[E + k] = gone[k]
  <2>s. excess \in Seq(Nat) /\ gone \in Seq(Nat)
    BY <1>1, <1>4
  <2>1. /\ excess \o gone \in Seq(Nat) /\ Len(excess \o gone) = Len(excess) + Len(gone)
    BY <2>s, Concatenated, Zenon
  <2>2. DOMAIN (excess \o gone) = 1..(Len(excess) + Len(gone))
    BY <2>s, Concatenated, Zenon
  <2>3. \A i \in 1..Len(excess) : (excess \o gone)[i] = excess[i]
    BY <2>s, Concatenated, Zenon
  <2>4. \A k \in 1..Len(gone) : (excess \o gone)[Len(excess) + k] = gone[k]
    BY <2>s, ConcatenatedNew, Zenon
  <2> QED BY <1>4, <1>6, <2>1, <2>2, <2>3, <2>4 DEF E
<1>8. /\ token' \in Seq(BOOLEAN) /\ Len(token') = N
      /\ \A v \in 1..N : (\A i \in DOMAIN gone : gone[i] # v) /\ ~token[v] => ~token'[v]
    BY <1>6, Cancelled DEF IInv, N
<1>9. \A i \in 1..K : i \in 1..H
    BY <1>1, <1>3
<1>10. \A k \in 1..n : K + k \in 1..H /\ K + k \notin 1..K
    BY <1>1, <1>3
<1>11. Typed'
  <2>1. \A i \in 1..K : handles'[i] \in 1..N
    BY <1>2, <1>5, <1>9
  <2>2. ASSUME NEW i \in 1..(E + n) PROVE excess'[i] \in 1..N
    <3>1. CASE i \in 1..E
        BY <1>1, <1>7, <3>1 DEF IInv, Typed, N
    <3>2. CASE i \notin 1..E
      <4>1. i - E \in 1..n /\ E + (i - E) = i
        BY <1>1, <1>3, <3>2
      <4>2. excess'[i] = handles[K + (i - E)]
        BY <1>4, <1>7, <4>1
      <4> QED BY <1>2, <1>10, <4>1, <4>2
    <3> QED BY <3>1, <3>2
  <2> QED BY <1>5, <1>6, <1>7, <1>8, <2>1, <2>2 DEF IInv, Typed, N
<1>12. Distinct'
    BY <1>1, <1>5, <1>9 DEF IInv, Distinct
<1>13. Running'
  <2> SUFFICES ASSUME NEW i \in 1..K
               PROVE  ~token'[handles[i]] /\ (vu[handles[i]] = "exited" => drain = "panicked")
    BY <1>5, <1>6 DEF Running
  <2>1. ~token[handles[i]] /\ (vu[handles[i]] = "exited" => drain = "panicked")
    BY <1>1, <1>9 DEF IInv, Running
  <2>2. \A k \in 1..n : gone[k] # handles[i]
    BY <1>1, <1>4, <1>9, <1>10 DEF IInv, Distinct
  <2>3. handles[i] \in 1..N /\ \A k \in DOMAIN gone : gone[k] # handles[i]
    BY <1>2, <1>4, <1>9, <2>2
  <2>4. ~token'[handles[i]]
    BY <1>8, <2>1, <2>3
  <2> QED BY <2>1, <2>4
<1>14. Accounted'
  <2> SUFFICES ASSUME NEW v \in 1..N, vu[v] # "exited"
               PROVE  \/ \E i \in 1..K : handles'[i] = v
                      \/ \E i \in 1..(E + n) : excess'[i] = v
    BY <1>5, <1>6, <1>7 DEF Accounted, N
  <2>1. \/ \E i \in 1..H : handles[i] = v
        \/ \E i \in 1..E : excess[i] = v
    BY <1>1 DEF IInv, Accounted, N
  <2>2. ASSUME NEW i \in 1..H, handles[i] = v, i \notin 1..K
        PROVE  \E j \in 1..(E + n) : excess'[j] = v
    <3>1. i - K \in 1..n /\ K + (i - K) = i
        BY <1>1, <1>3, <2>2
    <3>2. E + (i - K) \in 1..(E + n)
        BY <1>1, <1>3, <3>1
    <3>3. excess'[E + (i - K)] = v
        BY <1>4, <1>7, <2>2, <3>1
    <3> QED BY <3>2, <3>3
  <2>3. ASSUME NEW i \in 1..E, excess[i] = v
        PROVE  \E j \in 1..(E + n) : excess'[j] = v
    <3>1. i \in 1..(E + n)
        BY <1>1, <1>3
    <3> QED BY <1>7, <2>3, <3>1
  <2> QED BY <1>5, <2>1, <2>2, <2>3
<1>15. Phases'
    BY <1>6 DEF Phases
<1>16. K + (E + n) = H + E
    BY <1>1, <1>3
<1> QED BY <1>5, <1>7, <1>11, <1>12, <1>13, <1>14, <1>15, <1>16 DEF IInv, H, E

\* Leaving the loop: the list becomes the list of those being awaited.
LEMMA LoopLeft ==
    ASSUME IInv, co = "loop", Close, drain' = drain, now' = now
    PROVE  IInv' /\ Len(handles') + Len(excess') = Len(handles) + Len(excess)
<1>1. /\ handles' = <<>> /\ excess' = handles /\ vu' = vu /\ co' = "closing"
      /\ CancelTokens(handles) /\ excess = <<>>
    BY DEF Close, IInv, Phases
<1>2. token' \in Seq(BOOLEAN) /\ Len(token') = Len(vu)
    BY <1>1, Cancelled DEF IInv
<1>3. handles' \in Seq(Nat) /\ Len(handles') = 0 /\ DOMAIN handles' = {} /\ Len(excess) = 0
      /\ DOMAIN excess = {}
    BY <1>1, EmptySeq
<1>4. Typed'
    BY <1>1, <1>2, <1>3 DEF IInv, Typed
<1>5. Distinct' /\ Running'
    BY <1>3 DEF Distinct, Running
<1>6. Accounted'
    BY <1>1, <1>3 DEF IInv, Accounted
<1>7. Phases'
    BY <1>1 DEF Phases
<1>8. Len(handles) \in Nat
    BY LenProperties DEF IInv, Typed
<1>9. Len(handles') + Len(excess') = Len(handles) + Len(excess)
    BY <1>1, <1>3, <1>8
<1> QED BY <1>4, <1>5, <1>6, <1>7, <1>9 DEF IInv

-----------------------------------------------------------------------------
(* The steps that leave the list alone *)

\* Nothing of the VUs changes, and a drain that has died stays dead.
LEMMA Quiet ==
    ASSUME IInv, UNCHANGED pool, now' \in 0..EndOfTime,
           drain = "panicked" => drain' = "panicked", Phases'
    PROVE  IInv'
<1>1. vu' = vu /\ token' = token /\ handles' = handles /\ excess' = excess
    BY DEF pool
<1> QED BY <1>1 DEF IInv, Typed, Distinct, Running, Accounted

\* One VU moves on.  It ends only if it was told to, or if nobody listens.
LEMMA Moved ==
    ASSUME IInv, NEW v \in DOMAIN vu, NEW s \in VUState, vu[v] # "exited",
           vu' = [vu EXCEPT ![v] = s], s = "exited" => token[v] \/ drain = "panicked",
           UNCHANGED <<now, token, handles, excess, drain, co>>
    PROVE  IInv'
<1>1. vu \in Seq(VUState) /\ Len(vu) \in Nat /\ DOMAIN vu = 1..Len(vu)
    BY LenProperties DEF IInv, Typed
<1>2. vu' \in Seq(VUState) /\ Len(vu') = Len(vu)
    BY <1>1, ExceptSeq
<1>3. Typed'
    BY <1>2 DEF IInv, Typed
<1>4. Distinct' /\ Phases'
    BY DEF IInv, Distinct, Phases
<1>5. Running'
  <2> SUFFICES ASSUME NEW i \in DOMAIN handles
               PROVE  ~token[handles[i]] /\ (vu'[handles[i]] = "exited" => drain = "panicked")
    BY DEF Running
  <2>1. /\ ~token[handles[i]] /\ (vu[handles[i]] = "exited" => drain = "panicked")
        /\ handles[i] \in DOMAIN vu
    BY <1>1 DEF IInv, Typed, Running
  <2>2. CASE handles[i] = v
    BY <2>1, <2>2
  <2>3. CASE handles[i] # v
    BY <2>1, <2>3
  <2> QED BY <2>1, <2>2, <2>3
<1>6. Accounted'
  <2> SUFFICES ASSUME NEW w \in 1..Len(vu), vu'[w] # "exited"
               PROVE  \/ \E i \in DOMAIN handles : handles[i] = w
                      \/ \E i \in DOMAIN excess : excess[i] = w
    BY <1>2 DEF Accounted
  <2>1. vu[w] # "exited"
    BY <1>1
  <2> QED BY <2>1 DEF IInv, Accounted
<1> QED BY <1>3, <1>4, <1>5, <1>6 DEF IInv

\* The VU at the head of the list of the awaited has ended.
LEMMA Joined ==
    ASSUME IInv, JoinVU
    PROVE  IInv' /\ Len(handles') = Len(handles) /\ Len(excess') <= Len(excess)
<1>1. /\ excess # <<>> /\ vu[Head(excess)] = "exited" /\ excess' = Tail(excess)
      /\ UNCHANGED <<now, vu, token, handles, drain, co>>
      /\ co \in {"retiring", "closing"}
    BY DEF JoinVU, env, main, sink
<1>2. /\ excess \in Seq(Nat) /\ Len(excess) \in Nat /\ DOMAIN excess = 1..Len(excess)
    BY LenProperties DEF IInv, Typed
<1>3. /\ excess' \in Seq(Nat) /\ Len(excess') = Len(excess) - 1
      /\ \A i \in 1..Len(excess') : excess'[i] = excess[i + 1]
    BY <1>1, <1>2, HeadTailProperties
<1>4. DOMAIN excess' = 1..Len(excess') /\ Len(excess') \in Nat
    BY <1>3, LenProperties
<1>5. \A i \in 1..Len(excess') : i + 1 \in 1..Len(excess)
    BY <1>2, <1>3, <1>4
<1>6. Typed'
  <2>1. \A i \in DOMAIN excess' : excess'[i] \in 1..Len(vu)
    BY <1>2, <1>3, <1>4, <1>5 DEF IInv, Typed
  <2> QED BY <1>1, <1>3, <2>1 DEF IInv, Typed
<1>7. Distinct' /\ Running' /\ Phases'
    BY <1>1 DEF IInv, Distinct, Running, Phases
<1>8. Accounted'
  <2>1. ASSUME NEW i \in 1..Len(excess), vu[excess[i]] # "exited"
        PROVE  \E j \in 1..Len(excess') : excess'[j] = excess[i]
    <3>1. i # 1
        BY <1>1, <1>2, <2>1
    <3>2. i - 1 \in 1..Len(excess') /\ (i - 1) + 1 = i
        BY <1>2, <1>3, <3>1
    <3> QED BY <1>3, <3>2
  <2> SUFFICES ASSUME NEW v \in 1..Len(vu), vu[v] # "exited"
               PROVE  \/ \E i \in DOMAIN handles : handles[i] = v
                      \/ \E i \in DOMAIN excess' : excess'[i] = v
    BY <1>1 DEF Accounted
  <2>2. \/ \E i \in DOMAIN handles : handles[i] = v
        \/ \E i \in DOMAIN excess : excess[i] = v
    BY DEF IInv, Accounted
  <2> QED BY <1>2, <1>4, <2>1, <2>2
<1> QED BY <1>1, <1>2, <1>3, <1>6, <1>7, <1>8 DEF IInv

-----------------------------------------------------------------------------
(* All steps *)

\* Never more VUs on the two lists than the highest target.
Bounded == Len(handles) + Len(excess) <= Peak(Stages)

\* Every step keeps the invariant, and with it the bound.
LEMMA IInvNext ==
    ASSUME IInv, [Next]_vars
    PROVE  IInv' /\ (Bounded => Bounded')
<1> DEFINE Goal == IInv' /\ (Bounded => Bounded')
<1>a. Len(handles) \in Nat /\ Len(excess) \in Nat /\ Peak(Stages) \in Nat /\ EndOfTime \in Nat
    BY LenProperties, CurveFacts DEF IInv, Typed
<1>b. now \in 0..EndOfTime
    BY DEF IInv, Typed
<1>s. ASSUME UNCHANGED pool, IInv' PROVE Goal
    BY <1>s DEF pool, Bounded
<1>1. ASSUME Tick PROVE Goal
  <2> DEFINE target == TargetVusAt(Stages, now)
             current == Len(handles)
  <2>1. target \in 0..Peak(Stages)
    BY <1>b, CurveFacts
  <2>2. /\ co = "loop" /\ drain' = drain /\ now' = now
        /\ \/ Close
           \/ target > current /\ SpawnVUs(target - current)
           \/ target < current /\ RetireVUs(current - target)
           \/ target = current /\ UNCHANGED <<vu, token, handles, excess, co>>
    BY <1>1 DEF Tick, sink
  <2>3. excess = <<>> /\ Len(excess) = 0
    BY <2>2, EmptySeq DEF IInv, Phases
  <2>4. CASE Close
    BY <2>2, <2>4, LoopLeft DEF Bounded
  <2>5. CASE target > current /\ SpawnVUs(target - current)
    <3>1. target - current \in Nat
        BY <1>a, <2>1, <2>5
    <3>2. IInv' /\ Len(handles') = Len(handles) + (target - current)
        BY <2>2, <2>5, <3>1, Spawned
    <3>3. excess' = excess
        BY <2>5 DEF SpawnVUs
    <3>4. Len(handles') + Len(excess') <= Peak(Stages)
        BY <1>a, <2>1, <2>3, <3>2, <3>3
    <3> QED BY <3>2, <3>4 DEF Bounded
  <2>6. CASE target < current /\ RetireVUs(current - target)
    <3>1. current - target \in 1..Len(handles)
        BY <1>a, <2>1, <2>6
    <3> QED BY <2>2, <2>6, <3>1, Retired DEF Bounded
  <2>7. CASE UNCHANGED <<vu, token, handles, excess, co>>
    <3>1. UNCHANGED pool /\ Phases'
        BY <2>7 DEF pool, IInv, Phases
    <3>2. IInv'
        BY <1>b, <2>2, <3>1, Quiet
    <3> QED BY <1>s, <3>1, <3>2
  <2> QED BY <2>2, <2>4, <2>5, <2>6, <2>7
<1>2. ASSUME ParentCancelled PROVE Goal
    BY <1>2, LoopLeft DEF ParentCancelled, env, sink, Bounded
<1>3. ASSUME JoinVU PROVE Goal
  <2>1. IInv' /\ Len(handles') = Len(handles) /\ Len(excess') <= Len(excess)
    BY <1>3, Joined
  <2>2. Len(excess') \in Nat
    BY <2>1, LenProperties DEF IInv, Typed
  <2>3. Len(handles') + Len(excess') <= Len(handles) + Len(excess)
    BY <1>a, <2>1, <2>2
  <2>4. Len(handles') + Len(excess') \in Nat
    BY <1>a, <2>1, <2>2
  <2> QED BY <1>a, <2>1, <2>3, <2>4 DEF Bounded
<1>4. ASSUME ResumeLoop \/ DropSender \/ JoinDrain PROVE Goal
  <2>1. UNCHANGED pool /\ now' = now /\ drain' = drain
    BY <1>4 DEF ResumeLoop, DropSender, JoinDrain, env, sink
  <2>2. Phases'
    BY <1>4, <2>1 DEF ResumeLoop, DropSender, JoinDrain, IInv, Phases, pool
  <2> QED BY <1>b, <1>s, <2>1, <2>2, Quiet
<1>5. ASSUME DrainStep PROVE Goal
  <2>1. UNCHANGED pool /\ now' = now /\ co' = co /\ (drain = "panicked" => drain' = "panicked")
    BY <1>5 DEF DrainStep, Receive, DrainEnds, DrainPanics, env, main
  <2>2. Phases'
    BY <2>1 DEF IInv, Phases, pool
  <2> QED BY <1>b, <1>s, <2>1, <2>2, Quiet
<1>6. ASSUME TimePasses \/ CtrlC \/ CancelParent \/ Finished \/ UNCHANGED vars PROVE Goal
  <2>1. UNCHANGED pool /\ co' = co /\ drain' = drain
    BY <1>6 DEF TimePasses, CtrlC, CancelParent, Finished, vars, main, sink
  <2>2. now' \in 0..EndOfTime
    BY <1>6, <1>a, <1>b DEF TimePasses, CtrlC, CancelParent, Finished, vars, env
  <2>3. Phases'
    BY <2>1 DEF IInv, Phases, pool
  <2> QED BY <1>s, <2>1, <2>2, <2>3, Quiet
<1>7. ASSUME NEW v \in DOMAIN vu, Skip(v) PROVE Goal
  <2>1. UNCHANGED pool /\ now' = now /\ co' = co /\ drain' = drain
    BY <1>7 DEF Skip, env, sink, main
  <2>2. Phases'
    BY <2>1 DEF IInv, Phases, pool
  <2> QED BY <1>b, <1>s, <2>1, <2>2, Quiet
<1>8. ASSUME NEW v \in DOMAIN vu, Dispatch(v) \/ Spin(v) \/ ExitVU(v) \/ Answer(v) PROVE Goal
  <2>1. UNCHANGED <<now, token, handles, excess, drain, co>> /\ vu[v] # "exited"
    BY <1>8 DEF Dispatch, Spin, ExitVU, Answer, Complete, CancelPoints, env, sink, main
  <2>2. \E s \in VUState : /\ vu' = [vu EXCEPT ![v] = s]
                           /\ s = "exited" => token[v] \/ drain = "panicked"
    BY <1>8 DEF Dispatch, Spin, ExitVU, Answer, Complete, SendFails, VUState
  <2>3. IInv'
    BY <2>1, <2>2, Moved
  <2> QED BY <2>1, <2>3 DEF Bounded
<1> QED
  BY <1>1, <1>2, <1>3, <1>4, <1>5, <1>6, <1>7, <1>8 DEF Next, CoordinatorStep

-----------------------------------------------------------------------------
(* What the invariant says of the list *)

\* A list without repetitions has as many members as places.
LEMMA ListedCount ==
    ASSUME NEW list \in Seq(Nat)
    PROVE  /\ IsFiniteSet(Listed(list)) /\ Cardinality(Listed(list)) <= Len(list)
           /\ (\A i, j \in DOMAIN list : list[i] = list[j] => i = j)
                => Cardinality(Listed(list)) = Len(list)
<1> DEFINE D == 1..Len(list)
<1>1. Len(list) \in Nat /\ DOMAIN list = D /\ list \in [D -> Nat]
    BY LenProperties
<1>2. IsFiniteSet(D) /\ Cardinality(D) = Len(list)
  <2>1. /\ IsFiniteSet(1..Len(list))
        /\ Cardinality(1..Len(list)) = IF 1 > Len(list) THEN 0 ELSE Len(list) - 1 + 1
    BY <1>1, FS_Interval
  <2> QED BY <1>1, <2>1
<1>3. list \in Surjection(D, Listed(list))
    BY <1>1 DEF Surjection, Listed
<1> HIDE DEF D
<1>4. /\ IsFiniteSet(Listed(list)) /\ Cardinality(Listed(list)) <= Cardinality(D)
      /\ Cardinality(Listed(list)) = Cardinality(D) <=> list \in Injection(D, Listed(list))
    BY <1>2, <1>3, FS_Surjection, Zenon
<1>5. ASSUME \A i, j \in DOMAIN list : list[i] = list[j] => i = j
      PROVE  list \in Injection(D, Listed(list))
    BY <1>1, <1>3, <1>5 DEF Injection, IsInjective, Surjection
<1> QED BY <1>2, <1>4, <1>5

\* The listed handles are those of the VUs that run.
LEMMA IInvListed == IInv => ListedAreLive
<1> SUFFICES ASSUME IInv PROVE ListedAreLive
    OBVIOUS
<1>1. /\ handles \in Seq(Nat) /\ excess \in Seq(Nat) /\ DOMAIN vu = 1..Len(vu)
    BY LenProperties DEF IInv, Typed
<1>2. \A v \in Listed(handles) : ~token[v] /\ (vu[v] = "exited" => drain = "panicked")
    BY DEF IInv, Running, Listed
<1>3. Live \subseteq Listed(handles) \cup Listed(excess)
    BY <1>1 DEF IInv, Accounted, Live, VUNumbers, Listed
<1>4. Cardinality(Listed(handles)) = Len(handles)
    BY <1>1, ListedCount DEF IInv, Distinct
<1>5. ASSUME co \in {"draining", "returned"} PROVE Live = {}
  <2>1. handles = <<>> /\ excess = <<>>
    BY <1>5 DEF IInv, Phases
  <2>2. Listed(handles) = {} /\ Listed(excess) = {}
    BY <2>1, EmptySeq DEF Listed
  <2> QED BY <1>3, <2>2
<1> QED BY <1>2, <1>3, <1>4, <1>5 DEF ListedAreLive

\* Alive are the listed VUs and those told to stop: never more than the peak.
LEMMA IInvPeak == IInv /\ Bounded => LiveWithinPeak
<1> SUFFICES ASSUME IInv, Bounded PROVE LiveWithinPeak
    OBVIOUS
<1> DEFINE A == Listed(handles)
           B == Listed(excess)
<1>1. handles \in Seq(Nat) /\ excess \in Seq(Nat) /\ Len(handles) \in Nat /\ Len(excess) \in Nat
    BY LenProperties DEF IInv, Typed
<1>2. /\ IsFiniteSet(A) /\ Cardinality(A) <= Len(handles)
      /\ IsFiniteSet(B) /\ Cardinality(B) <= Len(excess)
    BY <1>1, ListedCount
<1>3. Live \subseteq A \cup B
    BY IInvListed DEF ListedAreLive
<1> HIDE DEF A, B
<1>4. /\ IsFiniteSet(A \cup B)
      /\ Cardinality(A \cup B) = Cardinality(A) + Cardinality(B) - Cardinality(A \cap B)
    BY <1>2, FS_Union, Zenon
<1>5. IsFiniteSet(A \cap B)
    BY <1>2, FS_Intersection, Zenon
<1>6. IsFiniteSet(Live) /\ Cardinality(Live) <= Cardinality(A \cup B)
    BY <1>3, <1>4, FS_Subset, Zenon
<1>7. /\ Cardinality(A) \in Nat /\ Cardinality(B) \in Nat /\ Cardinality(A \cap B) \in Nat
      /\ Cardinality(Live) \in Nat
    BY <1>2, <1>5, <1>6, FS_CardinalityType
<1> QED
    BY <1>1, <1>2, <1>4, <1>6, <1>7, CurveFacts DEF Bounded, LiveWithinPeak

-----------------------------------------------------------------------------
\* The executor may take the length of vu_handles for the number of running
\* VUs: a listed VU runs and has not been told to stop, a running VU that is
\* not listed is being awaited, nobody is listed twice, and when the executor
\* goes on to drain the records no VU is left.
\* About: spawn, scale-down at the tail of the list, the two exits of the loop.
THEOREM HandlesAreTheRunningVUs == Spec => []ListedAreLive
<1>1. Init => IInv
    BY IInvInit
<1>2. IInv /\ [Next]_vars => IInv'
    BY IInvNext
<1>3. IInv => ListedAreLive
    BY IInvListed
<1> QED BY <1>1, <1>2, <1>3, PTL DEF Spec

\* Whatever the curve does, there are never more VUs alive than its highest
\* target: those that are retired have ended before the next ones are spawned.
\* About: the awaited scale-down, and Ctrl-C or the end in the midst of it.
THEOREM NeverAboveThePeak == Spec => []LiveWithinPeak
<1>1. Init => IInv /\ Bounded
  <2>1. Init => Len(handles) = 0 /\ Len(excess) = 0
    BY EmptySeq DEF Init
  <2> QED BY <2>1, IInvInit, CurveFacts DEF Bounded
<1>2. (IInv /\ Bounded) /\ [Next]_vars => (IInv /\ Bounded)'
    BY IInvNext
<1>3. IInv /\ Bounded => LiveWithinPeak
    BY IInvPeak
<1> QED BY <1>1, <1>2, <1>3, PTL DEF Spec

-----------------------------------------------------------------------------
(* The accounts *)

Record == [outcome : Outcomes, done : 0..EndOfTime]

\* What a stage counts.
Fields == {"total", "failed", "sampled"}

\* The records of one stage.
Of(i) == {r \in Record : StageOf(r) = i}

AccountTypes ==
    /\ clock \in 0..now /\ due \in 0..(clock + 1)
    /\ pressed \in BOOLEAN /\ cancelled \in BOOLEAN
    /\ chan \in Seq(Record)
    /\ txHeld \in BOOLEAN
    /\ drain \in {"recv", "done", "panicked"}
    /\ co \in {"loop", "retiring", "closing", "draining", "returned"}
    /\ acc \in [all : Stats, stage : [StageNumbers -> StageStats]]
    /\ answered \in [StageNumbers -> Nat]

\* A record that was sent is counted, or on its way.
PerStage ==
    drain # "panicked" => \A i \in StageNumbers :
        acc.stage[i].total + Cardinality(Places(chan, Of(i))) = answered[i]

\* Whatever is counted is counted twice: for its stage and overall.
Overall ==
    \A f \in Fields : acc.all[f] = SumFunction([i \in StageNumbers |-> acc.stage[i][f]])

\* The order of the end: the sender is dropped once the loop is left, the drain
\* ends after the last sender, the report is made after the drain.
EndInOrder ==
    /\ txHeld <=> co \in {"loop", "retiring", "closing"}
    /\ drain = "done" => chan = <<>> /\ Closed
    /\ result.kind = "stats" => co = "returned" /\ drain = "done" /\ result.acc = acc

AInv == AccountTypes /\ PerStage /\ Overall /\ EndInOrder

\* The stage of an instant is a stage of the curve, and the look-up finds the
\* one to which a record of the present instant belongs.
LEMMA StageFound ==
    ASSUME now \in 0..EndOfTime
    PROVE  /\ \A r \in Record : StageOf(r) \in StageNumbers
           /\ StageNow = StageIndexAt(Stages, now)
<1>1. Stages \in Seq(Stage) /\ Stages # <<>> /\ EndOfTime \in Nat /\ now \in Nat
    BY CurveAssumption, CurveFacts DEF Valid
<1>2. /\ StageNumbers = 1..Len(Stages) /\ Len(Stages) \in Nat
      /\ \A i \in 0..Len(Stages) : EndOf(Stages, i) \in Nat
      /\ \A i \in 1..Len(Stages) : EndOf(Stages, i) = EndOf(Stages, i - 1) + Stages[i].duration
      /\ \A i \in 1..Len(Stages) : Stages[i].duration \in Nat
    BY <1>1, EndOfSteps DEF StageNumbers, Stage
<1>3. \A r \in Record : StageOf(r) \in StageNumbers
  <2> SUFFICES ASSUME NEW r \in Record PROVE StageOf(r) \in StageNumbers
    OBVIOUS
  <2>1. r.done \in Nat
    BY <1>1 DEF Record
  <2> QED BY <1>1, <1>2, <2>1, FirstPending DEF StageOf
<1>4. \A i \in StageNumbers :
          EndOf(Stages, i) - Stages[i].duration = EndOf(Stages, i - 1)
  <2> SUFFICES ASSUME NEW i \in 1..Len(Stages)
               PROVE  EndOf(Stages, i) - Stages[i].duration = EndOf(Stages, i - 1)
    BY <1>2
  <2>1. i - 1 \in 0..Len(Stages)
    BY <1>2
  <2> QED BY <1>2, <2>1
<1>5. TotalDuration(Stages) \in Nat
    BY <1>2 DEF TotalDuration
<1>6. CASE CurveOver
  <2>1. Pending(Stages, now) = {} <=> TotalDuration(Stages) <= now
    BY <1>1, FirstPending
  <2>2. Pending(Stages, now) = {}
    BY <1>1, <1>5, <1>6, <2>1 DEF CurveOver
  <2> QED BY <1>3, <1>6, <2>2 DEF StageNow, StageIndexAt
<1>7. CASE ~CurveOver
  <2> DEFINE k == StageIndexAt(Stages, now)
             Owns(i) == EndOf(Stages, i) - Stages[i].duration <= now /\ now < EndOf(Stages, i)
             m == CHOOSE i \in StageNumbers : Owns(i)
  <2>1. now < TotalDuration(Stages)
    BY <1>1, <1>5, <1>7 DEF CurveOver
  <2>2. k \in StageNumbers /\ EndOf(Stages, k - 1) <= now /\ now < EndOf(Stages, k)
    BY <1>1, <1>2, <2>1, FirstPending
  <2>3. Owns(k)
    BY <1>4, <2>2
  <2>4. m \in StageNumbers /\ Owns(m)
    BY <2>2, <2>3
  <2>5. EndOf(Stages, m - 1) <= now /\ now < EndOf(Stages, m)
    BY <1>4, <2>4
  <2>6. StageNow = m
    BY <1>7 DEF StageNow
  <2> HIDE DEF m, k
  <2>7. m = k
    BY <1>1, <1>2, <2>2, <2>4, <2>5, OneStageOwns
  <2> QED BY <1>3, <2>6, <2>7 DEF k
<1> QED BY <1>6, <1>7

\* A record counts in one counter set as every other does.
LEMMA RecordCounts ==
    ASSUME NEW s \in Stats, NEW o \in Outcomes
    PROVE  RecordRequest(s, o) \in Stats
BY DEF Stats, RecordRequest, Outcomes

LEMMA RecordInStageCounts ==
    ASSUME NEW s \in StageStats, NEW o \in Outcomes
    PROVE  /\ RecordInStage(s, o) \in StageStats
           /\ RecordInStage(s, o).total = s.total + 1
BY DEF StageStats, RecordInStage, Outcomes

\* It adds the same to the stage as to the run.
LEMMA RecordAdds ==
    ASSUME NEW s \in StageStats, NEW t \in Stats, NEW o \in Outcomes, NEW f \in Fields
    PROVE  /\ s[f] \in Nat /\ t[f] \in Nat
           /\ RecordInStage(s, o)[f] \in Nat /\ RecordRequest(t, o)[f] \in Nat
           /\ RecordInStage(s, o)[f] - s[f] = RecordRequest(t, o)[f] - t[f]
<1>1. CASE f = "total"
    BY <1>1 DEF Stats, StageStats, RecordRequest, RecordInStage
<1>2. CASE f = "failed"
    BY <1>2 DEF Stats, StageStats, RecordRequest, RecordInStage
<1>3. CASE f = "sampled"
    BY <1>3 DEF Stats, StageStats, RecordRequest, RecordInStage
<1> QED BY <1>1, <1>2, <1>3 DEF Fields

\* Nothing about the records changes but the time at which they are looked at.
LEMMA AccountsQuiet ==
    ASSUME AInv, AccountTypes', EndInOrder', UNCHANGED <<chan, acc, answered, drain>>
    PROVE  AInv'
<1>1. PerStage'
    BY DEF AInv, PerStage
<1>2. Overall'
    BY DEF AInv, Overall
<1> QED BY <1>1, <1>2 DEF AInv

\* A record is sent: it is one more of its stage, and on its way.
LEMMA AccountsSend ==
    ASSUME AInv, now \in 0..EndOfTime, NEW o \in Outcomes, Send(o), UNCHANGED <<acc, drain, now>>
    PROVE  /\ PerStage' /\ Overall'
           /\ chan' \in Seq(Record) /\ answered' \in [StageNumbers -> Nat]
<1> DEFINE r == [outcome |-> o, done |-> now]
           k == StageIndexAt(Stages, now)
<1>1. chan \in Seq(Record) /\ answered \in [StageNumbers -> Nat]
    BY DEF AInv, AccountTypes
<1>2. r \in Record /\ r.done = now
    BY DEF Record
<1>3. StageOf(r) = k /\ k \in StageNumbers /\ StageNow = k
    BY <1>2, StageFound DEF StageOf
<1> HIDE DEF k, r
<1>4. chan' = Append(chan, r) /\ answered' = [answered EXCEPT ![k] = @ + 1] /\ drain # "panicked"
    BY <1>3 DEF Send, r
<1>5. chan' \in Seq(Record)
    BY <1>1, <1>2, <1>4, AppendProperties
<1>6. answered' \in [StageNumbers -> Nat]
    BY <1>1, <1>3, <1>4
<1>7. Overall'
    BY DEF AInv, Overall
<1>8. PerStage'
  <2> SUFFICES ASSUME NEW i \in StageNumbers
               PROVE  acc.stage[i].total + Cardinality(Places(chan', Of(i))) = answered'[i]
    BY DEF PerStage, Of
  <2>1. acc.stage[i].total + Cardinality(Places(chan, Of(i))) = answered[i]
    BY <1>4 DEF AInv, PerStage
  <2>2. Cardinality(Places(chan', Of(i)))
            = Cardinality(Places(chan, Of(i))) + (IF r \in Of(i) THEN 1 ELSE 0)
    BY <1>1, <1>2, <1>4, PlacesAppend
  <2>3. r \in Of(i) <=> i = k
    BY <1>2, <1>3 DEF Of
  <2>4. Cardinality(Places(chan, Of(i))) \in Nat
    BY <1>1, PlacesFinite
  <2>5. acc.stage[i].total \in Nat
    BY DEF AInv, AccountTypes, StageStats
  <2>6. answered'[i] = answered[i] + (IF i = k THEN 1 ELSE 0)
    BY <1>1, <1>3, <1>4
  <2> QED BY <2>1, <2>2, <2>3, <2>4, <2>5, <2>6
<1> QED BY <1>5, <1>6, <1>7, <1>8

\* The drain takes the record at the head of the queue into account.
LEMMA AccountsReceive ==
    ASSUME AInv, now \in 0..EndOfTime, Receive
    PROVE  /\ PerStage' /\ Overall'
           /\ chan' \in Seq(Record) /\ acc' \in [all : Stats, stage : [StageNumbers -> StageStats]]
<1> DEFINE r == Head(chan)
           k == StageOf(r)
           o == r.outcome
<1>1. chan \in Seq(Record) /\ answered \in [StageNumbers -> Nat] /\ chan # <<>>
    BY DEF AInv, AccountTypes, Receive
<1>2. r \in Record /\ chan' \in Seq(Record) /\ chan' = Tail(chan)
    BY <1>1, HeadTailProperties DEF Receive
<1>3. k \in StageNumbers /\ o \in Outcomes
    BY <1>2, StageFound DEF Record
<1>4. /\ acc' = [all |-> RecordRequest(acc.all, o),
                 stage |-> [acc.stage EXCEPT ![k] = RecordInStage(@, o)]]
      /\ answered' = answered /\ drain' = drain /\ drain # "panicked"
    BY DEF Receive
<1>5. acc \in [all : Stats, stage : [StageNumbers -> StageStats]]
    BY DEF AInv, AccountTypes
<1> HIDE DEF o, k, r
<1>6. /\ acc'.all = RecordRequest(acc.all, o)
      /\ acc'.stage = [acc.stage EXCEPT ![k] = RecordInStage(acc.stage[k], o)]
    BY <1>4
<1>s. acc.all \in Stats /\ acc.stage \in [StageNumbers -> StageStats]
    BY <1>5
<1>7. RecordRequest(acc.all, o) \in Stats /\ RecordInStage(acc.stage[k], o) \in StageStats
      /\ RecordInStage(acc.stage[k], o).total = acc.stage[k].total + 1
    BY <1>3, <1>s, RecordCounts, RecordInStageCounts
<1>8. acc'.stage \in [StageNumbers -> StageStats]
    BY <1>6, <1>7, <1>s
<1>9. acc' \in [all : Stats, stage : [StageNumbers -> StageStats]]
  <2>1. acc' = [all |-> acc'.all, stage |-> acc'.stage]
    BY <1>4
  <2> QED BY <1>6, <1>7, <1>8, <2>1
<1>10. PerStage'
  <2> SUFFICES ASSUME NEW i \in StageNumbers
               PROVE  acc'.stage[i].total + Cardinality(Places(chan', Of(i))) = answered[i]
    BY <1>4 DEF PerStage, Of, StageOf
  <2>1. acc.stage[i].total + Cardinality(Places(chan, Of(i))) = answered[i]
    BY <1>4 DEF AInv, PerStage
  <2>2. Cardinality(Places(chan, Of(i)))
            = Cardinality(Places(chan', Of(i))) + (IF r \in Of(i) THEN 1 ELSE 0)
    BY <1>1, <1>2, PlacesTail DEF r
  <2>3. r \in Of(i) <=> i = k
    BY <1>2 DEF Of, k
  <2>4. Cardinality(Places(chan', Of(i))) \in Nat
    BY <1>2, PlacesFinite
  <2>5. acc.stage[i].total \in Nat
    BY <1>s DEF StageStats
  <2>6. acc'.stage[i].total = acc.stage[i].total + (IF i = k THEN 1 ELSE 0)
    <3>1. CASE i = k
        BY <1>3, <1>6, <1>7, <1>s, <3>1
    <3>2. CASE i # k
        BY <1>3, <1>6, <1>s, <2>5, <3>2
    <3> QED BY <3>1, <3>2
  <2> QED BY <2>1, <2>2, <2>3, <2>4, <2>5, <2>6
<1>11. Overall'
  <2> SUFFICES ASSUME NEW f \in Fields
               PROVE  acc'.all[f] = SumFunction([i \in StageNumbers |-> acc'.stage[i][f]])
    BY DEF Overall
  <2> DEFINE g == [i \in StageNumbers |-> acc.stage[i][f]]
             h == [i \in StageNumbers |-> acc'.stage[i][f]]
  <2>1. acc.all[f] = SumFunctionOnSet(g, StageNumbers)
    BY DEF AInv, Overall, SumFunction
  <2>2. \A i \in StageNumbers : acc.stage[i] \in StageStats /\ acc'.stage[i] \in StageStats
    BY <1>8, <1>s
  <2>3. \A i \in StageNumbers : acc.stage[i][f] \in Int /\ acc'.stage[i][f] \in Int
    BY <1>3, <2>2 DEF StageStats, Fields
  <2>4. \A i \in StageNumbers : i # k => acc'.stage[i] = acc.stage[i]
    BY <1>6, <1>s
  <2>5. acc'.stage[k] = RecordInStage(acc.stage[k], o)
    BY <1>3, <1>6, <1>s
  <2>6. h[k] - g[k] = acc'.all[f] - acc.all[f] /\ acc.all[f] \in Int /\ acc'.all[f] \in Int
    <3>1. /\ RecordInStage(acc.stage[k], o)[f] - acc.stage[k][f]
                = RecordRequest(acc.all, o)[f] - acc.all[f]
          /\ acc.all[f] \in Int /\ RecordRequest(acc.all, o)[f] \in Int
        BY <1>3, <1>7, <1>s, <2>2, RecordAdds
    <3> QED BY <1>3, <1>6, <2>5, <3>1
  <2>7. /\ IntValued(g, StageNumbers) /\ IntValued(h, StageNumbers)
        /\ \A i \in StageNumbers : i # k => h[i] = g[i]
    BY <2>3, <2>4 DEF IntValued
  <2>8. IsFiniteSet(StageNumbers)
    <3>1. StageNumbers = 1..Len(Stages) /\ Len(Stages) \in Nat
        BY CurveAssumption, LenProperties DEF StageNumbers
    <3> QED BY <3>1, FS_Interval
  <2>h. SumFunction(h) = SumFunctionOnSet(h, StageNumbers)
    BY DEF SumFunction
  <2>9. g[k] \in Int /\ h[k] \in Int
    BY <1>3, <2>7 DEF IntValued
  <2> HIDE DEF g, h
  <2>10. SumFunctionOnSet(h, StageNumbers) = SumFunctionOnSet(g, StageNumbers) - g[k] + h[k]
    BY <1>3, <2>7, <2>8, SumBump
  <2>11. SumFunctionOnSet(h, StageNumbers) = acc'.all[f]
    BY <2>1, <2>6, <2>9, <2>10
  <2> QED BY <2>h, <2>11 DEF h
<1> QED BY <1>2, <1>9, <1>10, <1>11

\* The end stays in order while the executor does nothing about it: once the
\* drain is done there is nobody left to do anything.
LEMMA EndKept ==
    ASSUME EndInOrder, UNCHANGED <<txHeld, co, drain, result>>,
           drain # "done" \/ UNCHANGED <<chan, vu, acc>>
    PROVE  EndInOrder'
BY DEF EndInOrder, Closed

\* When the drain is done no VU is left, and the loop is over.
LEMMA NobodyLeft ==
    ASSUME EndInOrder, drain = "done"
    PROVE  (\A v \in DOMAIN vu : vu[v] = "exited") /\ co \notin {"loop", "retiring", "closing"}
BY DEF EndInOrder, Closed

\* Nothing is counted yet.
LEMMA AInvInit == Init => AInv
<1> SUFFICES ASSUME Init PROVE AInv
    OBVIOUS
<1>1. chan = <<>> /\ chan \in Seq(Record)
    BY EmptySeq DEF Init
<1>2. EmptyStats \in Stats /\ EmptyStageStats \in StageStats
    BY DEF EmptyStats, Stats, EmptyStageStats, StageStats
<1>3. acc \in [all : Stats, stage : [StageNumbers -> StageStats]]
    BY <1>2 DEF Init, EmptyAcc
<1>4. AccountTypes
  <2>1. answered \in [StageNumbers -> Nat]
    BY DEF Init
  <2>2. clock \in 0..now /\ due \in 0..(clock + 1)
    BY DEF Init
  <2> QED BY <1>1, <1>3, <2>1, <2>2 DEF Init, AccountTypes
<1>5. PerStage
  <2> SUFFICES ASSUME NEW i \in StageNumbers
               PROVE  acc.stage[i].total + Cardinality(Places(chan, Of(i))) = answered[i]
    BY DEF PerStage
  <2>1. Cardinality(Places(chan, Of(i))) = 0
    BY <1>1, PlacesOfNone
  <2>2. acc.stage[i].total = 0 /\ answered[i] = 0
    BY DEF Init, EmptyAcc, EmptyStageStats
  <2> QED BY <2>1, <2>2
<1>6. Overall
  <2> SUFFICES ASSUME NEW f \in Fields
               PROVE  acc.all[f] = SumFunction([i \in StageNumbers |-> acc.stage[i][f]])
    BY DEF Overall
  <2> DEFINE g == [i \in StageNumbers |-> acc.stage[i][f]]
  <2>1. acc.all[f] = 0 /\ \A i \in StageNumbers : g[i] = 0
    BY DEF Init, EmptyAcc, EmptyStats, EmptyStageStats, Fields
  <2>2. IsFiniteSet(StageNumbers)
    <3>1. StageNumbers = 1..Len(Stages) /\ Len(Stages) \in Nat
        BY CurveAssumption, LenProperties DEF StageNumbers
    <3> QED BY <3>1, FS_Interval
  <2>3. SumFunction(g) = SumFunctionOnSet(g, StageNumbers)
    BY DEF SumFunction
  <2> HIDE DEF g
  <2>4. SumFunctionOnSet(g, StageNumbers) = 0
    BY <2>1, <2>2, SumZero
  <2> QED BY <2>1, <2>3, <2>4 DEF g
<1>7. EndInOrder
    BY DEF Init, EndInOrder
<1> QED BY <1>4, <1>5, <1>6, <1>7 DEF AInv

\* The accounts are right after every step.
LEMMA AInvNext ==
    ASSUME IInv, AInv, [Next]_vars
    PROVE  AInv'
<1>0. /\ now \in 0..EndOfTime /\ EndOfTime \in Nat
      /\ AccountTypes /\ PerStage /\ Overall /\ EndInOrder
    BY CurveFacts DEF IInv, Typed, AInv
<1>1. ASSUME Tick PROVE AInv'
  <2>1. /\ UNCHANGED <<now, pressed, cancelled, chan, acc, answered, drain, txHeld, result>>
        /\ co = "loop" /\ co' \in {"loop", "retiring", "closing"}
    BY <1>1 DEF Tick, queue, sink, Close, SpawnVUs, RetireVUs, RetireState
  <2>2. clock' \in 0..now /\ due' \in 0..(clock' + 1)
    BY <1>0, <1>1 DEF Tick, AccountTypes
  <2>3. AccountTypes'
    BY <1>0, <2>1, <2>2 DEF AccountTypes
  <2>4. EndInOrder'
    BY <1>0, <2>1 DEF EndInOrder, Closed
  <2> QED BY <2>1, <2>3, <2>4, AccountsQuiet
<1>2. ASSUME ParentCancelled PROVE AInv'
  <2>1. /\ UNCHANGED <<now, clock, due, pressed, cancelled, chan, acc, answered, drain, txHeld, result>>
        /\ co = "loop" /\ co' \in {"loop", "retiring", "closing"}
    BY <1>2 DEF ParentCancelled, env, queue, sink, Close
  <2>2. AccountTypes'
    BY <1>0, <2>1 DEF AccountTypes
  <2>3. EndInOrder'
    BY <1>0, <2>1 DEF EndInOrder, Closed
  <2> QED BY <2>1, <2>2, <2>3, AccountsQuiet
<1>3. ASSUME JoinVU \/ ResumeLoop \/ DropSender \/ JoinDrain PROVE AInv'
  <2>1. UNCHANGED <<now, clock, due, pressed, cancelled, vu, chan, acc, answered, drain>>
    BY <1>3 DEF JoinVU, ResumeLoop, DropSender, JoinDrain, env, pool, queue, sink, main
  <2>2. /\ txHeld' \in BOOLEAN
        /\ co' \in {"loop", "retiring", "closing", "draining", "returned"}
    BY <1>0, <1>3 DEF JoinVU, ResumeLoop, DropSender, JoinDrain, main, AccountTypes
  <2>3. AccountTypes'
    BY <1>0, <2>1, <2>2 DEF AccountTypes
  <2>4. ASSUME JoinVU PROVE EndInOrder'
    BY <1>0, <2>1, <2>4, EndKept DEF JoinVU, main
  <2>5. ASSUME ResumeLoop PROVE EndInOrder'
    BY <1>0, <2>1, <2>5 DEF ResumeLoop, EndInOrder, Closed
  <2>6. ASSUME DropSender PROVE EndInOrder'
    BY <1>0, <2>1, <2>6 DEF DropSender, EndInOrder, Closed
  <2>7. ASSUME JoinDrain PROVE EndInOrder'
    BY <1>0, <2>1, <2>7 DEF JoinDrain, EndInOrder, Closed
  <2>8. EndInOrder'
    BY <1>3, <2>4, <2>5, <2>6, <2>7
  <2> QED BY <2>1, <2>3, <2>8, AccountsQuiet
<1>4. ASSUME Receive PROVE AInv'
  <2>1. /\ UNCHANGED <<now, clock, due, pressed, cancelled, vu, answered, drain, txHeld, co, result>>
        /\ drain = "recv"
    BY <1>4 DEF Receive, env, pool, main
  <2>2. PerStage' /\ Overall' /\ chan' \in Seq(Record)
        /\ acc' \in [all : Stats, stage : [StageNumbers -> StageStats]]
    BY <1>0, <1>4, AccountsReceive
  <2>3. AccountTypes'
    BY <1>0, <2>1, <2>2 DEF AccountTypes
  <2>4. EndInOrder'
    BY <1>0, <2>1, EndKept
  <2> QED BY <2>2, <2>3, <2>4 DEF AInv
<1>5. ASSUME DrainEnds PROVE AInv'
  <2>1. /\ UNCHANGED <<now, clock, due, pressed, cancelled, vu, chan, acc, answered, txHeld, co, result>>
        /\ drain = "recv" /\ drain' = "done" /\ chan = <<>> /\ Closed
    BY <1>5 DEF DrainEnds, env, pool, queue, main
  <2>2. AccountTypes'
    BY <1>0, <2>1 DEF AccountTypes
  <2>3. PerStage' /\ Overall'
    BY <1>0, <2>1 DEF PerStage, Overall
  <2>4. EndInOrder'
    BY <1>0, <2>1 DEF EndInOrder, Closed
  <2> QED BY <2>2, <2>3, <2>4 DEF AInv
<1>6. ASSUME DrainPanics PROVE AInv'
  <2>1. /\ UNCHANGED <<now, clock, due, pressed, cancelled, vu, acc, answered, txHeld, co, result>>
        /\ drain = "recv" /\ drain' = "panicked" /\ chan' = <<>>
    BY <1>6 DEF DrainPanics, env, pool, main
  <2>c. chan' \in Seq(Record)
    BY <2>1, EmptySeq
  <2>2. AccountTypes'
    BY <1>0, <2>1, <2>c DEF AccountTypes
  <2>3. PerStage' /\ Overall'
    BY <1>0, <2>1 DEF PerStage, Overall
  <2>4. EndInOrder'
    BY <1>0, <2>1 DEF EndInOrder
  <2> QED BY <2>2, <2>3, <2>4 DEF AInv
<1>7. ASSUME TimePasses \/ CtrlC \/ CancelParent \/ Finished \/ UNCHANGED vars PROVE AInv'
  <2>1. UNCHANGED <<vu, due, chan, acc, answered, drain, txHeld, co, result>>
    BY <1>7 DEF TimePasses, CtrlC, CancelParent, Finished, vars, pool, queue, sink, main
  <2>2. /\ pressed' \in BOOLEAN /\ cancelled' \in BOOLEAN
        /\ clock' \in 0..now' /\ due' \in 0..(clock' + 1)
    <3>1. CASE TimePasses
      <4>1. /\ now' = now + 1 /\ clock' = (IF Free THEN now' ELSE clock)
            /\ pressed' = pressed /\ cancelled' = cancelled
        BY <3>1 DEF TimePasses
      <4> QED BY <1>0, <2>1, <4>1 DEF AccountTypes
    <3>2. CASE CtrlC \/ CancelParent \/ Finished \/ UNCHANGED vars
      <4>1. UNCHANGED <<now, clock>> /\ pressed' \in {pressed, TRUE} /\ cancelled' \in {cancelled, TRUE}
        BY <3>2 DEF CtrlC, CancelParent, Finished, vars, env
      <4> QED BY <1>0, <2>1, <4>1 DEF AccountTypes
    <3> QED BY <1>7, <3>1, <3>2
  <2>3. AccountTypes'
    BY <1>0, <2>1, <2>2 DEF AccountTypes
  <2>4. EndInOrder'
    BY <1>0, <2>1, EndKept
  <2> QED BY <2>1, <2>3, <2>4, AccountsQuiet
<1>8. ASSUME NEW v \in DOMAIN vu, Dispatch(v) \/ Spin(v) \/ ExitVU(v) PROVE AInv'
  <2>1. /\ UNCHANGED <<now, clock, due, pressed, cancelled, chan, acc, answered, drain, txHeld, co, result>>
        /\ vu[v] # "exited"
    BY <1>8 DEF Dispatch, Spin, ExitVU, CancelPoints, env, queue, sink, main
  <2>2. drain # "done"
    BY <1>0, <2>1, NobodyLeft
  <2>3. AccountTypes'
    BY <1>0, <2>1 DEF AccountTypes
  <2>4. EndInOrder'
    BY <1>0, <2>1, <2>2, EndKept
  <2> QED BY <2>1, <2>3, <2>4, AccountsQuiet
<1>9. ASSUME NEW v \in DOMAIN vu, Skip(v) \/ Answer(v) PROVE AInv'
  <2>1. /\ UNCHANGED <<now, clock, due, pressed, cancelled, acc, drain, txHeld, co, result>>
        /\ vu[v] # "exited"
    BY <1>9 DEF Skip, Answer, Complete, env, sink, main
  <2>2. drain # "done"
    BY <1>0, <2>1, NobodyLeft
  <2>3. EndInOrder'
    BY <1>0, <2>1, <2>2, EndKept
  <2>4. (\E o \in Outcomes : Send(o)) \/ SendFails
    BY <1>9 DEF Skip, Answer, Complete, Outcomes
  <2>5. CASE \E o \in Outcomes : Send(o)
    <3>1. PICK o \in Outcomes : Send(o)
        BY <2>5
    <3>2. /\ PerStage' /\ Overall'
          /\ chan' \in Seq(Record) /\ answered' \in [StageNumbers -> Nat]
        BY <1>0, <2>1, <3>1, AccountsSend
    <3>3. AccountTypes'
        BY <1>0, <2>1, <3>2 DEF AccountTypes
    <3> QED BY <2>3, <3>2, <3>3 DEF AInv
  <2>6. CASE SendFails
    <3>1. UNCHANGED <<chan, answered>>
        BY <2>6 DEF SendFails
    <3>2. AccountTypes'
        BY <1>0, <2>1, <3>1 DEF AccountTypes
    <3> QED BY <2>1, <2>3, <3>1, <3>2, AccountsQuiet
  <2> QED BY <2>4, <2>5, <2>6
<1> QED
  BY <1>1, <1>2, <1>3, <1>4, <1>5, <1>6, <1>7, <1>8, <1>9 DEF Next, CoordinatorStep, DrainStep

\* Both invariants hold in every run of a curve.
LEMMA CurveInvariant == Spec => [](IInv /\ AInv)
<1>1. Init => IInv /\ AInv
    BY IInvInit, AInvInit
<1>2. (IInv /\ AInv) /\ [Next]_vars => (IInv /\ AInv)'
    BY IInvNext, AInvNext
<1> QED BY <1>1, <1>2, PTL DEF Spec

\* The state has the shape the code's types and locks give it.
THEOREM CurveTypes == Spec => []TypeOK
<1>1. IInv /\ AInv => TypeOK
  <2> SUFFICES ASSUME IInv, AInv PROVE TypeOK
    OBVIOUS
  <2>1. DOMAIN vu = 1..Len(vu)
    BY LenProperties DEF IInv, Typed
  <2>2. ASSUME NEW s \in Seq(Nat), \A i \in DOMAIN s : s[i] \in 1..Len(vu)
        PROVE  s \in Seq(1..Len(vu))
    <3>1. DOMAIN s = 1..Len(s) /\ Len(s) \in Nat /\ s \in [1..Len(s) -> Nat]
        BY LenProperties
    <3>2. s \in [1..Len(s) -> 1..Len(vu)]
        BY <2>2, <3>1
    <3> QED BY <3>1, <3>2, SeqDef
  <2>3. handles \in Seq(VUNumbers) /\ excess \in Seq(VUNumbers)
    BY <2>1, <2>2 DEF IInv, Typed, VUNumbers
  <2> QED BY <2>3 DEF IInv, Typed, AInv, AccountTypes, TypeOK, VUState, Record
<1> QED BY <1>1, CurveInvariant, PTL

\* Every record is counted for the stage in which its request was completed,
\* and every count of the stages is a count of the run.
\* About: completed_at and stage_index_at in the drain task.
THEOREM RecordsCountForTheirStage == Spec => []StagesAccount
<1>1. IInv /\ AInv => StagesAccount
  <2> SUFFICES ASSUME IInv, AInv PROVE StagesAccount
    OBVIOUS
  <2>1. ASSUME NEW i \in StageNumbers
        PROVE  {n \in DOMAIN chan : StageOf(chan[n]) = i} = Places(chan, Of(i))
    <3>1. \A n \in DOMAIN chan : chan[n] \in Record
        BY LenProperties, ElementOfSeq DEF AInv, AccountTypes
    <3> QED BY <3>1 DEF Places, Of
  <2>2. ASSUME drain # "panicked", NEW i \in StageNumbers
        PROVE  acc.stage[i].total
                   + Cardinality({n \in DOMAIN chan : StageOf(chan[n]) = i}) = answered[i]
    BY <2>1, <2>2 DEF AInv, PerStage
  <2> QED BY <2>2 DEF StagesAccount, AInv, Overall, Fields
<1> QED BY <1>1, CurveInvariant, PTL

\* A report holds every record that was ever sent: the drain ends after the
\* last sender is gone, and the report is made after the drain has ended.
\* About: the order cancel, join, drop sender, join drain.
THEOREM NothingMissingInReport == Spec => []ReportComplete
<1>1. IInv /\ AInv => ReportComplete
  <2> SUFFICES ASSUME IInv, AInv, result.kind = "stats"
               PROVE  /\ drain # "panicked" /\ chan = <<>>
                      /\ result.acc.all.total = SumFunction(answered)
    BY DEF ReportComplete
  <2>1. drain = "done" /\ chan = <<>> /\ result.acc = acc
    BY DEF AInv, EndInOrder
  <2> DEFINE g == [i \in StageNumbers |-> acc.stage[i]["total"]]
  <2>2. /\ acc.all.total = SumFunctionOnSet(g, StageNumbers)
        /\ SumFunction(answered) = SumFunctionOnSet(answered, StageNumbers)
    BY DEF AInv, Overall, Fields, SumFunction, AccountTypes
  <2>3. ASSUME NEW i \in StageNumbers PROVE g[i] = answered[i] /\ g[i] \in Int
    <3>1. acc.stage[i].total + Cardinality(Places(chan, Of(i))) = answered[i]
        BY <2>1 DEF AInv, PerStage
    <3>2. Cardinality(Places(chan, Of(i))) = 0
        BY <2>1, PlacesOfNone
    <3>3. acc.stage[i].total \in Nat
        BY DEF AInv, AccountTypes, StageStats
    <3> QED BY <3>1, <3>2, <3>3
  <2>4. IsFiniteSet(StageNumbers)
    <3>1. StageNumbers = 1..Len(Stages) /\ Len(Stages) \in Nat
        BY CurveAssumption, LenProperties DEF StageNumbers
    <3> QED BY <3>1, FS_Interval
  <2> HIDE DEF g
  <2>5. SumFunctionOnSet(g, StageNumbers) = SumFunctionOnSet(answered, StageNumbers)
    BY <2>3, <2>4, SumEqual DEF IntValued
  <2> QED BY <2>1, <2>2, <2>5
<1> QED BY <1>1, CurveInvariant, PTL
=============================================================================
