------------------------- MODULE AlertPolicy_proofs -------------------------
(***************************************************************************)
(* Lemmas on evaluateTrend and on storing what it makes, for any stats,    *)
(* count and thresholds.                                                   *)
(***************************************************************************)
EXTENDS AlertPolicy, TLAPS

\* The outcome of an evaluation is an outcome: counters stay natural numbers.
LEMMA EvaluateType ==
    ASSUME NEW old \in Stats, NEW x \in Nat, NEW breached \in BOOLEAN,
           NEW mute \in BOOLEAN, NEW at \in Nat
    PROVE  Evaluate(old, x, breached, mute, at) \in Outcomes
<1> DEFINE b == Update(old, x)
           normal == IsNormal(b, x)
           ruling == Ruling(old, normal, breached, mute, at)
<1>1. b.count \in Nat /\ b.sum \in Nat /\ b.sumsq \in Nat
  BY DEF Update, Stats
<1>2. normal \in BOOLEAN
  BY DEF IsNormal, NormalZScore, NormalPercentage
<1>3. ruling \in Rulings
  BY DEF Ruling, Rulings
<1>4. LastAlert(old, normal) \in Nat
  BY DEF LastAlert, Stats, Never
<1>5. LastAlertMuted(old, normal) \in BOOLEAN
  BY DEF LastAlertMuted, Stats
<1>6. NormalRun(old, normal, breached) \in Nat
  BY <1>2 DEF NormalRun, Stats
<1> HIDE DEF b, normal, ruling
<1>7. (ruling = "mute") \in BOOLEAN
  OBVIOUS
<1>8. QED
  BY <1>1, <1>2, <1>3, <1>4, <1>5, <1>6, <1>7
     DEF Evaluate, Outcomes, Stats, b, normal, ruling

\* What an outcome e makes of the stats it was ruled against.
Follows(e, old, breached, mute, at) ==
    /\ e.normal \in BOOLEAN /\ e.ruling \in Rulings
    /\ e.ruling = Ruling(old, e.normal, breached, mute, at)
    /\ e.muted = mute /\ e.at = at
    /\ e.stats.lastAlert =
         IF Recorded(e.ruling) THEN at ELSE LastAlert(old, e.normal)
    /\ e.stats.lastAlertMuted =
         IF Recorded(e.ruling) THEN e.ruling = "mute"
         ELSE LastAlertMuted(old, e.normal)
    /\ e.stats.consecutiveNormal =
         IF breached THEN 0 ELSE NormalRun(old, e.normal, breached)
    /\ e.stats.version = old.version
    /\ e.stats.count = old.count + 1

\* An evaluation follows from the stats read and names its two locals.
LEMMA EvaluateFields ==
    ASSUME NEW old \in Stats, NEW x \in Nat, NEW breached \in BOOLEAN,
           NEW mute \in BOOLEAN, NEW at \in Nat
    PROVE  Follows(Evaluate(old, x, breached, mute, at), old, breached, mute, at)
<1>1. Evaluate(old, x, breached, mute, at) \in Outcomes
  BY EvaluateType
<1>2. QED
  BY <1>1 DEF Evaluate, Outcomes, Update, Follows

\* The stats st are old and one count x more; the version is left to SaveStats.
Adds(st, old, x) ==
    /\ st.version = old.version
    /\ st.count = old.count + 1
    /\ st.sum = old.sum + x
    /\ st.sumsq = old.sumsq + x * x

\* An evaluation adds its count to the baseline it read, whatever the ruling.
LEMMA EvaluateAdds ==
    ASSUME NEW old \in Stats, NEW x \in Nat, NEW breached \in BOOLEAN,
           NEW mute \in BOOLEAN, NEW at \in Nat
    PROVE  Adds(Evaluate(old, x, breached, mute, at).stats, old, x)
  BY DEF Evaluate, Update, Adds

\* Storing moves the version and nothing else.
LEMMA StoredFields ==
    ASSUME NEW st \in Stats
    PROVE  /\ Stored(st) \in Stats
           /\ Stored(st).version = st.version + 1
           /\ Stored(st).count = st.count
           /\ Stored(st).sum = st.sum
           /\ Stored(st).sumsq = st.sumsq
           /\ Stored(st).lastAlert = st.lastAlert
           /\ Stored(st).lastAlertMuted = st.lastAlertMuted
           /\ Stored(st).consecutiveNormal = st.consecutiveNormal
  BY DEF Stored, Stats

\* A breach decision is a Boolean.
LEMMA VerdictType ==
    ASSUME NEW old \in Stats, NEW x \in Nat
    PROVE  Verdicts(old, x) \subseteq BOOLEAN
<1>1. WarmBreach(old, x) \in BOOLEAN
  BY DEF WarmBreach, ZScoreBreach
<1>2. QED
  BY <1>1 DEF Verdicts

-----------------------------------------------------------------------------
(* The arithmetic of StatTracker *)

\* A baseline's numbers.
IsBaseline(b) == b.count \in Nat /\ b.sum \in Nat /\ b.sumsq \in Nat

\* Welford's step, multiplied out: with n counts before x, mean m = sum / n and
\* M2 = Spread / n, StatTracker.Update moves the mean to m + (x - m) / (n + 1)
\* and adds (x - m) * (x - new mean) to M2. The sums the model keeps are those
\* numbers without rounding.
THEOREM WelfordStep ==
    ASSUME NEW b, IsBaseline(b), NEW x \in Nat
    PROVE  /\ b.count * Deviation(Update(b, x), x) = b.count * Deviation(b, x)
           /\ b.count * Spread(Update(b, x))
                = (b.count + 1) * Spread(b) + Deviation(b, x) * Deviation(b, x)
<1>1. \A n, s, q, y \in Nat :
         n * ((n + 1) * (q + y * y) - (s + y) * (s + y))
           = (n + 1) * (n * q - s * s) + (n * y - s) * (n * y - s)
  OBVIOUS
<1>2. \A n, s, y \in Nat : n * ((n + 1) * y - (s + y)) = n * (n * y - s)
  OBVIOUS
<1>3. /\ Update(b, x).count = b.count + 1
      /\ Update(b, x).sum = b.sum + x
      /\ Update(b, x).sumsq = b.sumsq + x * x
  BY DEF Update
<1>4. /\ Deviation(b, x) = b.count * x - b.sum
      /\ Spread(b) = b.count * b.sumsq - b.sum * b.sum
      /\ Deviation(Update(b, x), x) = (b.count + 1) * x - (b.sum + x)
      /\ Spread(Update(b, x))
           = (b.count + 1) * (b.sumsq + x * x) - (b.sum + x) * (b.sum + x)
  BY <1>3 DEF Deviation, Spread
<1>5. b.count \in Nat /\ b.sum \in Nat /\ b.sumsq \in Nat
  BY DEF IsBaseline
<1>6. b.count * Deviation(Update(b, x), x) = b.count * Deviation(b, x)
  BY <1>2, <1>4, <1>5
<1>7. b.count * Spread(Update(b, x))
        = (b.count + 1) * Spread(b) + Deviation(b, x) * Deviation(b, x)
  BY ONLY <1>1, <1>4, <1>5, x \in Nat
<1>8. QED
  BY <1>6, <1>7

\* No variance is negative: the square root of StdDev always has a value.
LEMMA SpreadStep ==
    ASSUME NEW b, IsBaseline(b), Spread(b) >= 0, NEW x \in Nat
    PROVE  /\ Spread(Update(b, x)) >= 0
           /\ b.count > 0 => (Spread(Update(b, x)) = 0
                                <=> Spread(b) = 0 /\ Deviation(b, x) = 0)
<1> DEFINE n == b.count
           v == Spread(b)
           w == Spread(Update(b, x))
           d == Deviation(b, x)
<1>1. n \in Nat /\ v \in Int /\ w \in Int /\ d \in Int
  BY DEF Spread, Update, Deviation, IsBaseline
<1>2. n * w = (n + 1) * v + d * d
  BY WelfordStep
<1>3. CASE n = 0
  <2>1. b.sum = 0
    <3>1. v = 0 - b.sum * b.sum
      BY <1>3 DEF Spread, IsBaseline
    <3>2. \A s \in Nat : 0 - s * s >= 0 => s = 0
      OBVIOUS
    <3>3. QED
      BY <3>1, <3>2 DEF IsBaseline
  <2>2. w = b.sumsq
    <3>1. \A q, y \in Nat : (0 + 1) * (q + y * y) - (0 + y) * (0 + y) = q
      OBVIOUS
    <3>2. QED
      BY <1>3, <2>1, <3>1 DEF Spread, Update, IsBaseline
  <2>3. QED
    BY <1>3, <2>2 DEF IsBaseline
<1> HIDE DEF n, v, w, d
<1>4. CASE n > 0
  <2>1. \A i \in Int : i * i >= 0 /\ (i * i = 0 <=> i = 0)
    OBVIOUS
  <2>2. d * d >= 0 /\ (d * d = 0 <=> d = 0) /\ d * d \in Int
    BY <1>1, <2>1
  <2>3. v >= 0
    BY DEF v
  <2>4. (n + 1) * v >= 0 /\ ((n + 1) * v = 0 <=> v = 0) /\ (n + 1) * v \in Int
    <3>1. \A m, i \in Nat : (m + 1) * i >= 0 /\ ((m + 1) * i = 0 <=> i = 0)
      OBVIOUS
    <3>2. QED
      BY <1>1, <2>3, <3>1
  <2>5. n * w >= 0 /\ (n * w = 0 <=> v = 0 /\ d = 0)
    BY <1>2, <2>2, <2>4
  <2>6. \A m, i \in Int : m > 0 => (m * i >= 0 => i >= 0) /\ (m * i = 0 <=> i = 0)
    OBVIOUS
  <2>7. w >= 0 /\ (w = 0 <=> v = 0 /\ d = 0)
    BY <1>1, <1>4, <2>5, <2>6
  <2>8. QED
    BY <2>7 DEF n, v, w, d
<1>5. QED
  BY <1>1, <1>3, <1>4 DEF n

\* A greater count is no less of a breach, by either method.
LEMMA BreachIsMonotone ==
    ASSUME NEW b, IsBaseline(b), NEW x \in Nat, NEW y \in Nat, x <= y,
           NEW total \in Nat, NEW k \in Nat
    PROVE  /\ WarmBreach(b, x) => WarmBreach(b, y)
           /\ PercentageBreach(total, k, x) => PercentageBreach(total, k, y)
<1>1. \A m, u, v \in Nat : u <= v => m * u <= m * v
  OBVIOUS
<1>2. ASSUME WarmBreach(b, x)
      PROVE  WarmBreach(b, y)
  <2> DEFINE den == Sensitivity.den
             d == Deviation(b, x) * den
             e == Deviation(b, y) * den
             limit == Sensitivity.num * Sensitivity.num * Spread(b)
  <2>1. den \in Nat /\ d \in Int /\ e \in Int /\ limit \in Int
    BY MathAssumption DEF Fraction, Deviation, Spread, IsBaseline
  <2>2. Deviation(b, x) <= Deviation(b, y) /\ Deviation(b, x) \in Int /\ Deviation(b, y) \in Int
    BY <1>1 DEF Deviation, IsBaseline
  <2>3. \A i, j \in Int, m \in Nat : i <= j => i * m <= j * m
    OBVIOUS
  <2>4. d <= e
    BY <2>1, <2>2, <2>3
  <2>5. Spread(b) # 0 /\ d > 0 /\ d * d > limit /\ b.count >= WarmUp
    BY <1>2 DEF WarmBreach, ZScoreBreach
  <2> HIDE DEF d, e, limit, den
  <2>6. \A i, j \in Int : i > 0 /\ i <= j => i * i <= j * j /\ j > 0
    OBVIOUS
  <2>7. e > 0 /\ d * d <= e * e /\ d * d \in Int /\ e * e \in Int
    BY <2>1, <2>4, <2>5, <2>6
  <2>8. e > 0 /\ e * e > limit
    BY <2>1, <2>5, <2>7
  <2>9. QED
    BY <2>5, <2>8 DEF WarmBreach, ZScoreBreach, d, e, limit, den
<1>3. ASSUME PercentageBreach(total, k, x)
      PROVE  PercentageBreach(total, k, y)
  <2> DEFINE den == Threshold.den
             d == (k * x - total) * den
             e == (k * y - total) * den
             limit == Threshold.num * total
  <2>1. den \in Nat /\ d \in Int /\ e \in Int /\ limit \in Int
    BY MathAssumption DEF Fraction
  <2>2. k * x - total <= k * y - total /\ k * x - total \in Int /\ k * y - total \in Int
    BY <1>1
  <2>3. \A i, j \in Int, m \in Nat : i <= j => i * m <= j * m
    OBVIOUS
  <2>4. d <= e
    BY <2>1, <2>2, <2>3
  <2>5. total > 0 /\ d > limit
    BY <1>3 DEF PercentageBreach
  <2> HIDE DEF d, e, limit, den
  <2>6. e > limit
    BY <2>1, <2>4, <2>5
  <2>7. QED
    BY <2>5, <2>6 DEF PercentageBreach, e, limit, den
<1>4. QED
  BY <1>2, <1>3
=============================================================================
