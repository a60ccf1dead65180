----------------------------- MODULE MCBaseline -----------------------------
(***************************************************************************)
(* One series and five counts, small and large; under percentage_delta every *)
(* breach decision is tried, so the run covers those of z_score as well.   *)
(***************************************************************************)
EXTENDS Baseline, TLC

CONSTANTS LowJobs, HighJobs, s1

MCJob == LowJobs \cup HighJobs
MCSeries == {s1}
MCSeriesOf == [j \in MCJob |-> s1]
MCCountOf == [j \in MCJob |-> IF j \in LowJobs THEN 1 ELSE 9]
MCMoment == 1..3
MCSeed == ZeroStats
MCHalf == [num |-> 1, den |-> 2]

\* Jobs of the same count are interchangeable.
MCSymmetry == Permutations(LowJobs) \cup Permutations(HighJobs)
=============================================================================
