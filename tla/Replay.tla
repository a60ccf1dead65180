-------------------------------- MODULE Replay --------------------------------
(***************************************************************************)
(* POST /replay: handleReplay's checks and the simulation of RunReplay in  *)
(* internal/api/api.go.  The scan takes one entry after the other, and of  *)
(* an entry one PII type after the other, in any order: Go ranges over a   *)
(* map.  How the stream may fail or be cut short is EntryStream's subject; *)
(* here it delivers the range and ends.                                    *)
(***************************************************************************)
EXTENDS Entries

CONSTANTS
    WarmUp,      \* PHIELD_WARMUP_COUNT
    Test,        \* the test_threshold of a request that states one
    Window,      \* PHIELD_WINDOW_SIZE, in minutes
    MaxWindow,   \* PHIELD_MAX_REPLAY_HOURS, in minutes; 0 is no limit
    MaxDetails,  \* PHIELD_MAX_REPLAY_BREACH_DETAILS; 0 is no limit
    Histories,   \* the entries there may be
    Requests     \* the requests there may be

\* test_threshold stands in for sensitivity and threshold alike, whichever the
\* method is.
Trend == INSTANCE TrendMath
    WITH Method <- "z_score", Sensitivity <- Test, Threshold <- Test

\* A missing number of a JSON body is zero, and so is a missing time.
Zero == [num |-> 0, den |-> 1]

\* models.ReplayRequest.
ReplayRequest == [start_time : Nat, end_time : Nat,
                  test_threshold : {Zero, Test}, pii_types : SUBSET PIIType]

ASSUME ReplayAssumption ==
    /\ WarmUp \in Nat /\ Window \in Nat
    /\ MaxWindow \in Nat /\ MaxDetails \in Nat
    /\ Test \in [num : Nat \ {0}, den : Nat \ {0}]
    /\ \A h \in Histories : IsStream(h)
    /\ Requests \subseteq ReplayRequest

VARIABLES
    method,     \* trendMethod, fixed when the process starts
    request,
    phase,      \* where the handler is
    received,   \* the entries received from the stream
    current,    \* the entry being ranged over
    todo,       \* its PII types still to come
    trackers,   \* [Series -> StatTracker]
    history,    \* [Series -> the entries kept as simEntry]
    points,     \* total_points_processed
    virtual,    \* virtual_breaches_detected
    details,    \* breach_details: [at, type, total, n], the average total / n
    truncated,  \* breach_details_truncated
    found       \* history: the breaches in the order of their detection

response == <<points, virtual, details, truncated>>
vars == <<stored, method, request, phase, received, current, todo, trackers,
          history, response, found>>

Init ==
    /\ stored \in Histories
    /\ method \in {"z_score", "percentage_delta"}
    /\ request \in Requests
    /\ phase = "called"
    /\ received = {}
    /\ current = 0
    /\ todo = {}
    /\ trackers = [s \in Series |-> Trend!NoBaseline]
    /\ history = [s \in Series |-> {}]
    /\ points = 0 /\ virtual = 0 /\ details = <<>> /\ truncated = FALSE
    /\ found = <<>>

\* handleReplay answers 400: a time is missing, the range is inverted or too
\* wide, or there is nothing to test.
Refused(r) ==
    \/ r.start_time = 0 \/ r.end_time = 0
    \/ r.end_time < r.start_time
    \/ MaxWindow > 0 /\ r.end_time - r.start_time > MaxWindow
    \/ r.test_threshold.num = 0

Answer400 ==
    /\ phase = "called"
    /\ Refused(request)
    /\ phase' = "refused"
    /\ UNCHANGED <<stored, method, request, received, current, todo, trackers,
                   history, response, found>>

GetEntries ==
    /\ phase = "called"
    /\ ~Refused(request)
    /\ phase' = "scanning"
    /\ UNCHANGED <<stored, method, request, received, current, todo, trackers,
                   history, response, found>>

\* What GetEntries is asked for, and streams in order.
Scan == {k \in Index : InRange(k, request.start_time, request.end_time)}

\* Defect: the types of the request are looked up in the entry.
ReceiveRequested(k) ==
    /\ phase = "scanning" /\ todo = {}
    /\ k \in Scan \ received
    /\ \A j \in Scan \ received : k <= j
    /\ received' = received \cup {k}
    /\ current' = k
    /\ todo' = IF request.pii_types = {} THEN TypesIn(k) ELSE request.pii_types
    /\ points' = points + 1
    /\ UNCHANGED <<stored, method, request, phase, trackers, history, virtual,
                   details, truncated, found>>

Receive(k) ==
    /\ phase = "scanning" /\ todo = {}
    /\ k \in Scan \ received
    /\ \A j \in Scan \ received : k <= j
    /\ received' = received \cup {k}
    /\ current' = k
    /\ todo' = TypesIn(k)
    /\ points' = points + 1
    /\ UNCHANGED <<stored, method, request, phase, trackers, history, virtual,
                   details, truncated, found>>

\* No pii_types means all of them.
Selected(t) == request.pii_types = {} \/ t \in request.pii_types

Skip(t) ==
    /\ t \in todo
    /\ ~Selected(t)
    /\ todo' = todo \ {t}
    /\ UNCHANGED <<stored, method, request, phase, received, current, trackers,
                   history, response, found>>

\* Defect: an entry at the limit is still appended.
ReportLate(t, breached, total, n) ==
    IF ~breached THEN UNCHANGED <<virtual, details, truncated, found>>
    ELSE /\ virtual' = virtual + 1
         /\ found' = Append(found, <<current, t>>)
         /\ IF MaxDetails > 0 /\ Len(details) > MaxDetails
            THEN truncated' = TRUE /\ UNCHANGED details
            ELSE /\ details' = Append(details, [at |-> current, type |-> t,
                                                total |-> total, n |-> n])
                 /\ UNCHANGED truncated

\* A breach is counted, and returned in full while there is room.
Report(t, breached, total, n) ==
    IF ~breached THEN UNCHANGED <<virtual, details, truncated, found>>
    ELSE /\ virtual' = virtual + 1
         /\ found' = Append(found, <<current, t>>)
         /\ IF MaxDetails > 0 /\ Len(details) >= MaxDetails
            THEN truncated' = TRUE /\ UNCHANGED details
            ELSE /\ details' = Append(details, [at |-> current, type |-> t,
                                                total |-> total, n |-> n])
                 /\ UNCHANGED truncated

\* Defect: the point joins its own baseline before it is judged.
JudgeZScoreAfter(t) ==
    LET s == SeriesOf(current, t)
        x == stored[current].counts[t]
        b == Trend!Update(trackers[s], x)
    IN  /\ method = "z_score"
        /\ t \in todo /\ Selected(t)
        /\ Report(t, Trend!WarmBreach(b, x), b.sum, b.count)
        /\ trackers' = [trackers EXCEPT ![s] = b]
        /\ todo' = todo \ {t}
        /\ UNCHANGED <<stored, method, request, phase, received, current, history,
                       points>>

\* The tracker is read before this point is added to it.
JudgeZScore(t) ==
    LET s == SeriesOf(current, t)
        x == stored[current].counts[t]
        b == trackers[s]
    IN  /\ method = "z_score"
        /\ t \in todo /\ Selected(t)
        /\ Report(t, Trend!WarmBreach(b, x), b.sum, b.count)
        /\ trackers' = [trackers EXCEPT ![s] = Trend!Update(b, x)]
        /\ todo' = todo \ {t}
        /\ UNCHANGED <<stored, method, request, phase, received, current, history,
                       points>>

\* Defect: an entry at the edge of the window is lost.
KeptStrictly(s) == {h \in history[s] : TimeOf(h) > TimeOf(current) - Window}

\* filteredHistory: what is kept of the series for a point at current's time.
Kept(s) == {h \in history[s] : TimeOf(h) >= TimeOf(current) - Window}

JudgePercentage(t) ==
    LET s     == SeriesOf(current, t)
        total == SumOf(Kept(s), t)
        n     == Cardinality(Kept(s))
        x     == stored[current].counts[t]
    IN  /\ method = "percentage_delta"
        /\ t \in todo /\ Selected(t)
        /\ Report(t, n > 0 /\ Trend!PercentageBreach(total, n, x), total, n)
        /\ history' = [history EXCEPT ![s] = Kept(s) \cup {current}]
        /\ todo' = todo \ {t}
        /\ UNCHANGED <<stored, method, request, phase, received, current, trackers,
                       points>>

\* The entries are closed: 200.
Answer200 ==
    /\ phase = "scanning" /\ todo = {}
    /\ Scan \subseteq received
    /\ phase' = "answered"
    /\ UNCHANGED <<stored, method, request, received, current, todo, trackers,
                   history, response, found>>

Answered == phase \in {"refused", "answered"}

\* The end of the model.
Stop == Answered /\ UNCHANGED vars

Next ==
    \/ Answer400 \/ GetEntries \/ Answer200 \/ Stop
    \/ \E k \in Index : Receive(k)
    \/ \E t \in PIIType : Skip(t) \/ JudgeZScore(t) \/ JudgePercentage(t)

Spec == Init /\ [][Next]_vars

-----------------------------------------------------------------------------
(* Properties *)

Detail == [at : Nat, type : PIIType, total : Nat, n : Nat]

TypeOK ==
    /\ stored \in Histories
    /\ method \in {"z_score", "percentage_delta"}
    /\ request \in Requests
    /\ phase \in {"called", "refused", "scanning", "answered"}
    /\ received \subseteq Scan
    /\ current \in Nat
    /\ todo \subseteq PIIType
    /\ todo # {} => current \in received /\ todo \subseteq TypesIn(current)
    /\ trackers \in [Series -> [count : Nat, sum : Nat, sumsq : Nat]]
    /\ history \in [Series -> SUBSET received]
    /\ points \in Nat /\ virtual \in Nat
    /\ details \in Seq(Detail)
    /\ truncated \in BOOLEAN
    /\ found \in Seq(Nat \X PIIType)

\* The entries of the range that come before k in the stream and count t for
\* k's series: what a live process had seen of the series, had it begun with
\* the range.
Earlier(k, t) == {h \in Bearing(Scan, SeriesOf(k, t)) : h < k}

\* ... and of those the ones in k's window.
Lookback(k, t) == {h \in Earlier(k, t) : TimeOf(h) >= TimeOf(k) - Window}

\* The history of a series is cut down at every point of it; what is left is
\* still all that the next point's window holds, whatever was skipped and in
\* whatever order the types of an entry are taken. (RunReplay.)
WindowsAreExact ==
    method = "percentage_delta" =>
        \A t \in todo : Selected(t) =>
            Kept(SeriesOf(current, t)) = Lookback(current, t)

\* The stats of a series that has absorbed the entries S, as live analysis
\* keeps them.
BaselineOf(S, t) == [count |-> Cardinality(S), sum |-> SumOf(S, t),
                     sumsq |-> SumOfSquares(S, t)]

IsBreach(k, t) ==
    LET x == stored[k].counts[t]
    IN  IF method = "z_score"
        THEN Trend!WarmBreach(BaselineOf(Earlier(k, t), t), x)
        ELSE /\ Lookback(k, t) # {}
             /\ Trend!PercentageBreach(SumOf(Lookback(k, t), t),
                                       Cardinality(Lookback(k, t)), x)

\* An answer holds exactly the breaches of the range: each selected count,
\* judged against all the earlier ones of its series, whatever else the
\* request selects. Under z_score that is the live verdict. (RunReplay.)
ReplayFindsAll ==
    phase = "answered" =>
        /\ points = Cardinality(Scan)
        /\ {found[i] : i \in DOMAIN found} =
              {p \in Scan \X PIIType :
                  p[2] \in TypesIn(p[1]) /\ Selected(p[2]) /\ IsBreach(p[1], p[2])}
        /\ \A i, j \in DOMAIN found : found[i] = found[j] => i = j

\* "A short list is not mistaken for a complete one": the total counts every
\* breach, the details are the first of them up to the limit, and the flag is
\* raised just when some are missing. (ReplayResponse, RunReplay.)
DetailsAreTheFirst ==
    /\ virtual = Len(found)
    /\ MaxDetails > 0 => Len(details) <= MaxDetails
    /\ Len(details) <= Len(found)
    /\ \A i \in DOMAIN details : <<details[i].at, details[i].type>> = found[i]
    /\ truncated <=> Len(details) < Len(found)
    /\ truncated => Len(details) = MaxDetails

=============================================================================
