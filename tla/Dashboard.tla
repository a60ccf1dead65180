------------------------------ MODULE Dashboard ------------------------------
(***************************************************************************)
(* What the endpoints of internal/dashboard/dashboard.go make of the       *)
(* entries of their window.  Each reads the window for itself; how the     *)
(* stream may fail before it is whole is EntryStream's subject.            *)
(***************************************************************************)
EXTENDS Entries

CONSTANTS
    Now,       \* time.Now at the call
    Queries    \* the values of ?hours= there may be; no number at all is 0

ASSUME DashboardAssumption == Now \in Nat /\ Queries \subseteq Int

\* getWindowHours.
WindowHours(q) == IF q <= 0 THEN 24 ELSE IF q > 168 THEN 168 ELSE q

Shown(q) == {k \in Index : InRange(k, Now - 60 * WindowHours(q), Now)}

\* The shown entries with a count of type t.
ShownWith(q, t) == {k \in Shown(q) : t \in TypesIn(k)}

\* A type is in a map of the answer once it is in an entry, be it with a zero.
ShownTypes(q) == UNION {TypesIn(k) : k \in Shown(q)}

-----------------------------------------------------------------------------
(* /entities *)

Totals(q) == [t \in ShownTypes(q) |-> SumOf(ShownWith(q, t), t)]

BucketSize(q) ==
    LET h == WindowHours(q) IN IF h <= 6 THEN 15 ELSE IF h <= 24 THEN 60 ELSE 240

\* Truncate and Format: the start of the bucket, written in the entry's zone.
Bucket(q, k) == [start |-> TimeOf(k) - (TimeOf(k) % BucketSize(q)),
                 zone  |-> stored[k].zone]

\* Defect: the count of an entry takes the place of those before it.
TimelineLast(q) ==
    [t \in ShownTypes(q) |->
        {[time  |-> Bucket(q, k),
          count |-> stored[CHOOSE h \in ShownWith(q, t) :
                        /\ Bucket(q, h) = Bucket(q, k)
                        /\ \A j \in ShownWith(q, t) :
                              Bucket(q, j) = Bucket(q, k) => j <= h].counts[t]] :
            k \in ShownWith(q, t)}]

Timeline(q) ==
    [t \in ShownTypes(q) |->
        {[time  |-> Bucket(q, k),
          count |-> SumOf({h \in ShownWith(q, t) : Bucket(q, h) = Bucket(q, k)}, t)] :
            k \in ShownWith(q, t)}]

-----------------------------------------------------------------------------
(* /flows and /summary *)

FlowOf(k) == <<stored[k].origin.source, stored[k].origin.context>>

Flows(q) ==
    [f \in {FlowOf(k) : k \in Shown(q)} |->
        LET S     == {k \in Shown(q) : FlowOf(k) = f}
            types == [t \in UNION {TypesIn(k) : k \in S} |->
                         SumOf({k \in S : t \in TypesIn(k)}, t)]
        IN  [types |-> types,
             total |-> MapThenSumSet(LAMBDA t : types[t], DOMAIN types)]]

Summary(q) ==
    [total_entries   |-> Cardinality(Shown(q)),
     unique_sources  |-> Cardinality({stored[k].origin.source : k \in Shown(q)}),
     unique_types    |-> Cardinality(ShownTypes(q)),
     unique_contexts |-> Cardinality({stored[k].origin.context : k \in Shown(q)})]

-----------------------------------------------------------------------------
(* /trends *)

\* What GetAllStats returns once every stored count is absorbed.
AllStats == UNION {{SeriesOf(k, t) : t \in TypesIn(k)} : k \in Index}

BaselineMean(s) == [num |-> SumOf(Bearing(Index, s), s[2]),
                    den |-> Cardinality(Bearing(Index, s))]

\* Defect: the contexts of a source are one.
RecentOfSource(q, s) ==
    {k \in ShownWith(q, s[2]) : FlowOf(k)[1] = s[1].source}

\* recentCounts[key]: the key has no organization.
Recent(q, s) ==
    {k \in ShownWith(q, s[2]) : FlowOf(k) = <<s[1].source, s[1].context>>}

\* Zero if nothing is recent.
RecentMean(q, s) ==
    IF Recent(q, s) = {} THEN [num |-> 0, den |-> 1]
    ELSE [num |-> SumOf(Recent(q, s), s[2]), den |-> Cardinality(Recent(q, s))]

\* deviation_pct / 100; zero for a baseline of zero.
Deviation(q, s) ==
    LET b == BaselineMean(s)
        r == RecentMean(q, s)
    IN  IF b.num > 0
        THEN [num |-> r.num * b.den - b.num * r.den, den |-> b.num * r.den]
        ELSE [num |-> 0, den |-> 1]

-----------------------------------------------------------------------------
(* Properties *)

AddUp(S) == MapThenSumSet(LAMBDA p : p.count, S)

\* The endpoints of one window tell of the same counts: the points of a type's
\* line, however the window chooses its buckets and in whatever zones entries
\* were written, and the shares of the flows, add up to its total; the summary
\* counts the types, sources and contexts the others list. (handleSummary,
\* handleEntities, handleFlows.)
ViewsAgree ==
    \A q \in Queries :
        LET flows == Flows(q)
            with(t) == {f \in DOMAIN flows : t \in DOMAIN flows[f].types}
        IN  /\ \A t \in ShownTypes(q) :
                  /\ AddUp(Timeline(q)[t]) = Totals(q)[t]
                  /\ MapThenSumSet(LAMBDA f : flows[f].types[t], with(t)) = Totals(q)[t]
            /\ MapThenSumSet(LAMBDA f : flows[f].total, DOMAIN flows)
                  = MapThenSumSet(LAMBDA t : Totals(q)[t], DOMAIN Totals(q))
            /\ Summary(q).unique_types = Cardinality(DOMAIN Totals(q))
            /\ Summary(q).unique_sources = Cardinality({f[1] : f \in DOMAIN flows})
            /\ Summary(q).unique_contexts = Cardinality({f[2] : f \in DOMAIN flows})

\* The series of one source, context and type: those of its organizations.
Pool(s) ==
    {p \in AllStats : /\ p[1].source = s[1].source
                      /\ p[1].context = s[1].context
                      /\ p[2] = s[2]}

PoolSum(s)  == MapThenSumSet(LAMBDA p : BaselineMean(p).num, Pool(s))
PoolSize(s) == MapThenSumSet(LAMBDA p : BaselineMean(p).den, Pool(s))

\* "The recent mean for each source/context/PII type combination": once the
\* whole history of a combination is in the window, its recent mean is that of
\* the baselines of all its organizations together. Alone, a series then does
\* not deviate; where organizations share source and context, each deviates
\* from the mixture. (docs/docs/dashboard.md:45; handleTrends.)
RecentIsPooled ==
    \A q \in Queries : \A s \in AllStats :
        (\A p \in Pool(s) : Bearing(Index, p) \subseteq Shown(q)) =>
            /\ RecentMean(q, s) = [num |-> PoolSum(s), den |-> PoolSize(s)]
            /\ Pool(s) = {s} => Deviation(q, s).num = 0
=============================================================================
