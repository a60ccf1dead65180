------------------------------- MODULE Baseline -------------------------------
(***************************************************************************)
(* What trend analysis promises of each series, whatever the instances,    *)
(* locks, retries and failures behind it: counts are absorbed one at a     *)
(* time, each at most once, each ruled against exactly the stats that the  *)
(* counts before it left.  Module Ingest is shown to implement this.       *)
(*                                                                         *)
(* log[s] is a history variable: the landings of series s, in order.       *)
(***************************************************************************)
EXTENDS AlertPolicy, FiniteSets, FiniteSetsExt, Sequences

CONSTANTS
    Job,       \* the analyses to make, one for each count of each request
    Series,    \* the series they belong to
    SeriesOf,  \* [Job -> Series]
    CountOf,   \* [Job -> Nat]
    Moment,    \* the moments at which a count can be ruled
    Seed       \* the stats every series starts from, stored by earlier traffic

\* A seed has a past of counts but none of alerts.
ASSUME BaselineAssumption ==
    /\ SeriesOf \in [Job -> Series]
    /\ CountOf \in [Job -> Nat]
    /\ Moment \subseteq Nat \ {Never}
    /\ Seed \in Stats
    /\ Seed.lastAlert = Never
    /\ Seed.lastAlertMuted = FALSE
    /\ Seed.consecutiveNormal = 0
    /\ Seed.count = Seed.version

VARIABLES
    stats,  \* [Series -> Stats], the collection pii_stats
    log     \* [Series -> Seq(Landing)]

vars == <<stats, log>>

Landing == [job : Job, ruling : Rulings, normal : BOOLEAN, muted : BOOLEAN,
            at : Nat]

\* The entry of the log for an outcome that was stored.
Landed(j, e) == [job |-> j, ruling |-> e.ruling, normal |-> e.normal,
                 muted |-> e.muted, at |-> e.at]

\* The last moment at which a count of the series was ruled.
LastMoment(lg) == IF lg = <<>> THEN Never ELSE lg[Len(lg)].at

\* A job whose outcome has been stored.
HasLanded(j) ==
    LET lg == log[SeriesOf[j]] IN \E k \in DOMAIN lg : lg[k].job = j

-----------------------------------------------------------------------------
Init ==
    /\ stats = [s \in Series |-> Seed]
    /\ log = [s \in Series |-> <<>>]

\* A count is absorbed by its series.
Absorb(j, breached, muted, at) ==
    LET s == SeriesOf[j]
        e == Evaluate(stats[s], CountOf[j], breached, muted, at)
    IN  /\ at >= LastMoment(log[s])
        /\ stats' = [stats EXCEPT ![s] = Stored(e.stats)]
        /\ log' = [log EXCEPT ![s] = Append(@, Landed(j, e))]

Next ==
    \E j \in Job :
        /\ ~HasLanded(j)
        /\ \E breached \in Verdicts(stats[SeriesOf[j]], CountOf[j]),
              muted \in BOOLEAN, at \in Moment :
                Absorb(j, breached, muted, at)

Spec == Init /\ [][Next]_vars

-----------------------------------------------------------------------------
(* Properties *)

TypeOK ==
    /\ stats \in [Series -> Stats]
    /\ log \in [Series -> Seq(Landing)]

\* Counts m - 2, m - 1 and m of the log were all ordinary: normal, and the two
\* before m no breach. This is the run of normal counts that ends a cooldown.
QuietAt(lg, m) ==
    /\ m - 2 \in DOMAIN lg
    /\ \A i \in (m - 2)..m : lg[i].normal
    /\ \A i \in (m - 2)..(m - 1) : lg[i].ruling = "none"

\* Such a run was completed after entry j, up to entry k.
QuietBetween(lg, j, k) == \E m \in (j + 1)..k : QuietAt(lg, m)

\* A cooldown throttles a sustained breach: two breaches of one series that
\* are both recorded lie a whole cooldown apart, unless the series was quiet
\* in between, or the first was muted and the second is the first alert after
\* the mute. (evaluateTrend, the cooldown and its two exceptions.)
RecordsAreSpaced ==
    \A s \in Series : \A k \in DOMAIN log[s] : \A j \in 1..(k - 1) :
        /\ Recorded(log[s][j].ruling)
        /\ Recorded(log[s][k].ruling)
        => \/ log[s][k].at - log[s][j].at >= Cooldown
           \/ QuietBetween(log[s], j, k)
           \/ log[s][j].ruling = "mute" /\ log[s][k].ruling = "announce"

\* A breach is silenced by a cooldown only because of an earlier one of the
\* series that was recorded less than a cooldown ago, with no quiet run since;
\* and if the context is not muted, that earlier one was announced, so a mute
\* never silences an alert that comes after it.
SilenceHasCause ==
    \A s \in Series : \A k \in DOMAIN log[s] :
        log[s][k].ruling = "cooldown" =>
            \E j \in 1..(k - 1) :
                /\ Recorded(log[s][j].ruling)
                /\ log[s][k].at - log[s][j].at < Cooldown
                /\ ~QuietBetween(log[s], j, k)
                /\ log[s][k].muted \/ log[s][j].ruling = "announce"

\* The stored baseline is exactly what the landed counts make of the seed: as
\* many, each from a job of its own, and the same sums; and the version counts
\* the landings. (SaveStats and Update: no count lost, none absorbed twice.)
BaselineIsItsCounts ==
    \A s \in Series :
        LET lg == log[s]
            jobs == {lg[k].job : k \in DOMAIN lg}
            total(f(_)) == MapThenSumSet(f, jobs)
        IN  /\ Cardinality(jobs) = Len(lg)
            /\ stats[s].version = Seed.version + Len(lg)
            /\ stats[s].count = Seed.count + Len(lg)
            /\ stats[s].sum = Seed.sum + total(LAMBDA j : CountOf[j])
            /\ stats[s].sumsq = Seed.sumsq + total(LAMBDA j : CountOf[j] * CountOf[j])

\* Under z_score a count is ruled a breach just when it lies outside the seed
\* and the counts that landed before it, no others and itself not among them:
\* the verdict a replay of those counts gives, whatever retries and instances
\* the order came about by. (evaluateTrend; and RunReplay, whose tracker "is
\* read before this point is added to it".)
VerdictsAreOfThePast ==
    Method = "z_score" =>
        \A s \in Series : \A k \in DOMAIN log[s] :
            LET lg == log[s]
                past == {lg[i].job : i \in 1..(k - 1)}
                total(f(_)) == MapThenSumSet(f, past)
                b == [count |-> Seed.count + Cardinality(past),
                      sum   |-> Seed.sum + total(LAMBDA j : CountOf[j]),
                      sumsq |-> Seed.sumsq + total(LAMBDA j : CountOf[j] * CountOf[j])]
            IN  lg[k].ruling # "none" <=> WarmBreach(b, CountOf[lg[k].job])
=============================================================================
