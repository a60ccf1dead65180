------------------------------ MODULE TrendMath ------------------------------
(***************************************************************************)
(* The arithmetic of trend detection: internal/trend and the two places of *)
(* evaluateTrend that use it.                                              *)
(*                                                                         *)
(* A baseline is what the code keeps of a series, Count, Mean and M2, held *)
(* here without rounding as the number of counts, their sum and the sum of *)
(* their squares:  Mean = sum / count  and                                 *)
(* M2 / Count = (count * sumsq - sum^2) / count^2.  Every comparison of    *)
(* the code is one between integers once it is multiplied out; floating    *)
(* point rounding is the one thing abstracted.                             *)
(***************************************************************************)
EXTENDS Integers

CONSTANTS
    Method,       \* PHIELD_TREND_METHOD: "percentage_delta" or "z_score"
    WarmUp,       \* PHIELD_WARMUP_COUNT
    Sensitivity,  \* PHIELD_SENSITIVITY as a fraction [num, den]
    Threshold     \* PHIELD_ALERT_THRESHOLD as a fraction [num, den]

Fraction == [num : Nat, den : Nat \ {0}]

ASSUME MathAssumption ==
    /\ Method \in {"percentage_delta", "z_score"}
    /\ WarmUp \in Nat
    /\ Sensitivity \in Fraction
    /\ Threshold \in Fraction

-----------------------------------------------------------------------------
(* StatTracker *)

\* A tracker that has seen nothing.
NoBaseline == [count |-> 0, sum |-> 0, sumsq |-> 0]

\* StatTracker.Update: one more value.
Update(b, x) == [count |-> b.count + 1,
                 sum   |-> b.sum + x,
                 sumsq |-> b.sumsq + x * x]

\* count * (x - mean): the sign and size of a value's distance to the mean.
Deviation(b, x) == b.count * x - b.sum

\* count^2 * variance; zero below two values, as Variance returns.
Spread(b) == b.count * b.sumsq - b.sum * b.sum

-----------------------------------------------------------------------------
(* CalculateBreach *)

\* calculateZScoreBreach: the value lies more than Sensitivity standard
\* deviations above the mean; a series that never varied has no breach.
ZScoreBreach(b, x) ==
    LET d == Deviation(b, x) * Sensitivity.den
    IN  /\ Spread(b) # 0
        /\ d > 0
        /\ d * d > Sensitivity.num * Sensitivity.num * Spread(b)

\* calculatePercentageDelta: the value exceeds the average total / n by more
\* than the fraction Threshold; no breach against an average of zero.
PercentageBreach(total, n, x) ==
    /\ total > 0
    /\ (n * x - total) * Threshold.den > Threshold.num * total

\* The z-score branch of evaluateTrend: nothing is judged during warm-up, and
\* the value is compared with the baseline that does not hold it yet.
WarmBreach(b, x) == b.count >= WarmUp /\ ZScoreBreach(b, x)

-----------------------------------------------------------------------------
(* The "back to normal" test of evaluateTrend, on the baseline that already *)
(* holds the value.                                                         *)

\* ZScore(x) < 1.
NormalZScore(b, x) ==
    \/ Spread(b) = 0
    \/ Deviation(b, x) <= 0
    \/ Deviation(b, x) * Deviation(b, x) < Spread(b)

\* (x - mean) / mean < alertThreshold / 2, for a mean above zero.
NormalPercentage(b, x) ==
    /\ b.sum > 0
    /\ 2 * Threshold.den * Deviation(b, x) < Threshold.num * b.sum

IsNormal(b, x) ==
    IF Method = "z_score" THEN NormalZScore(b, x) ELSE NormalPercentage(b, x)
=============================================================================
