----------------------------- MODULE AlertPolicy -----------------------------
(***************************************************************************)
(* evaluateTrend of internal/api/api.go, the part that follows the breach  *)
(* decision: what one count does to the stored stats of its series, and    *)
(* what is to be reported once they are stored.                            *)
(***************************************************************************)
EXTENDS TrendMath

CONSTANT Cooldown   \* PHIELD_COOLDOWN_MINUTES, in ticks of the clock

ASSUME CooldownAssumption == Cooldown \in Nat

\* A moment is a positive number; 0 is Go's zero time.Time.
Never == 0

\* models.Stats.
Stats == [count : Nat, sum : Nat, sumsq : Nat,
          lastAlert : Nat, lastAlertMuted : BOOLEAN,
          consecutiveNormal : Nat, version : Nat]

\* models.Stats{}: what GetStats returns for a series that has no stats.
ZeroStats == [count |-> 0, sum |-> 0, sumsq |-> 0,
              lastAlert |-> Never, lastAlertMuted |-> FALSE,
              consecutiveNormal |-> 0, version |-> 0]

\* How a count is ruled: "none" is no breach; the others are trendOutcome's
\* suppression of a breach.
Rulings == {"none", "cooldown", "mute", "announce"}

\* The ruling writes a breach record, or reaches the notifier.
Recorded(ruling)  == ruling \in {"mute", "announce"}
Announced(ruling) == ruling = "announce"

\* A trendOutcome.
Outcomes == [stats : Stats, ruling : Rulings, normal : BOOLEAN,
             muted : BOOLEAN, at : Nat]

-----------------------------------------------------------------------------
\* This many consecutive normal counts forget the last alert.
QuietRun == 3

\* Defect: an ordinary count only wears the run down.
NormalRunDecaying(old, normal, breached) ==
    CASE normal             -> old.consecutiveNormal + 1
      [] ~normal /\ breached -> old.consecutiveNormal
      [] OTHER              -> old.consecutiveNormal - 1

\* consecutiveNormal as it stands when the reset is decided.
NormalRun(old, normal, breached) ==
    CASE normal             -> old.consecutiveNormal + 1
      [] ~normal /\ breached -> old.consecutiveNormal
      [] OTHER              -> 0

\* Defect: one normal count too few ends the cooldown.
ResetsEarly(old, normal) == normal /\ old.consecutiveNormal + 2 >= QuietRun

Resets(old, normal) == normal /\ old.consecutiveNormal + 1 >= QuietRun

\* The alert that began the cooldown, as the reset leaves it.
LastAlert(old, normal) == IF Resets(old, normal) THEN Never ELSE old.lastAlert

LastAlertMuted(old, normal) == ~Resets(old, normal) /\ old.lastAlertMuted

\* Defect: a cooldown that nobody was told of silences like any other.
InSilentCooldown(old, normal, muted, at) ==
    /\ LastAlert(old, normal) # Never
    /\ at - LastAlert(old, normal) < Cooldown

\* A breach at moment `at` falls into the cooldown, unless the cooldown was
\* begun by a muted breach and the context is muted no more.
InCooldown(old, normal, muted, at) ==
    /\ LastAlert(old, normal) # Never
    /\ at - LastAlert(old, normal) < Cooldown
    /\ ~(LastAlertMuted(old, normal) /\ ~muted)

Ruling(old, normal, breached, muted, at) ==
    CASE ~breached -> "none"
      [] breached /\ InCooldown(old, normal, muted, at) -> "cooldown"
      [] breached /\ ~InCooldown(old, normal, muted, at) /\ muted -> "mute"
      [] OTHER -> "announce"

\* evaluateTrend, given the stats read, the count, the breach decision, the
\* mute state and the moment. The version read is carried along.
Evaluate(old, x, breached, muted, at) ==
    LET b      == Update(old, x)
        normal == IsNormal(b, x)
        ruling == Ruling(old, normal, breached, muted, at)
    IN [stats |->
          [count |-> b.count, sum |-> b.sum, sumsq |-> b.sumsq,
           lastAlert |-> IF Recorded(ruling) THEN at ELSE LastAlert(old, normal),
           lastAlertMuted |-> IF Recorded(ruling) THEN ruling = "mute"
                              ELSE LastAlertMuted(old, normal),
           consecutiveNormal |-> IF breached THEN 0
                                 ELSE NormalRun(old, normal, breached),
           version |-> old.version],
        ruling |-> ruling, normal |-> normal, muted |-> muted, at |-> at]

\* The breach decisions evaluateTrend can reach from the stats it read. Under
\* z_score they decide it; under percentage_delta the average of another
\* collection does.
Verdicts(old, x) ==
    IF Method = "z_score" THEN {WarmBreach(old, x)} ELSE BOOLEAN

\* Defect: the version stays.
StoredUnversioned(stats) == stats

\* What SaveStats stores when it accepts: the version moves on by one.
Stored(stats) == [stats EXCEPT !.version = @ + 1]
=============================================================================
