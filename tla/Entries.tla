------------------------------- MODULE Entries -------------------------------
(***************************************************************************)
(* The collection pii_counts as its readers see it: the stored entries in  *)
(* the order GetEntries streams them, by ascending timestamp.              *)
(***************************************************************************)
EXTENDS Integers, FiniteSets, FiniteSetsExt, Sequences

CONSTANTS
    PIIType,
    Origin,      \* where counts come from: [organization, context, source]
    Zone         \* the UTC offsets timestamps are written in

\* models.PIIEntry. A timestamp is a number of minutes; the zone it was
\* written in shows only when it is formatted. The counts are a map that
\* passed Validate: some types, finitely many, none negative.
IsEntry(e) ==
    /\ e.timestamp \in Nat /\ e.zone \in Zone /\ e.origin \in Origin
    /\ DOMAIN e.counts \in (SUBSET PIIType) \ {{}}
    /\ IsFiniteSet(DOMAIN e.counts)
    /\ \A t \in DOMAIN e.counts : e.counts[t] \in Nat

\* entries, in the order of the stream.
IsStream(s) ==
    /\ DOMAIN s = 1..Len(s) /\ Len(s) \in Nat
    /\ \A k \in DOMAIN s : IsEntry(s[k])
    /\ \A j, k \in DOMAIN s : j < k => s[j].timestamp <= s[k].timestamp

VARIABLE stored   \* the stored entries, an IsStream

Index == DOMAIN stored
TypesIn(k) == DOMAIN stored[k].counts
TimeOf(k) == stored[k].timestamp

\* $gte and $lte of GetEntries.
InRange(k, start, end) == start <= TimeOf(k) /\ TimeOf(k) <= end

\* The counts that make up one series: organization, context, source, type.
Series == Origin \X PIIType
SeriesOf(k, t) == <<stored[k].origin, t>>

\* The entries of S with a count for the series.
Bearing(S, s) == {k \in S : s[2] \in TypesIn(k) /\ SeriesOf(k, s[2]) = s}

\* The sum of the counts of type t in the entries S of the stream h.
SumIn(h, S, t) == MapThenSumSet(LAMBDA k : h[k].counts[t], S)

\* ... and of their squares.
SquaresIn(h, S, t) == MapThenSumSet(LAMBDA k : h[k].counts[t] * h[k].counts[t], S)

SumOf(S, t) == SumIn(stored, S, t)
SumOfSquares(S, t) == SquaresIn(stored, S, t)
=============================================================================
