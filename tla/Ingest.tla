-------------------------------- MODULE Ingest --------------------------------
(***************************************************************************)
(* ProcessIngest, analyzeTrend and reportTrend of internal/api/api.go, run *)
(* concurrently by the HTTP handlers and Kafka consumers of several        *)
(* instances over one MongoDB.  With one instance, MaxFaults = 0 and no    *)
(* Http request it is also the in-memory deployment.                       *)
(*                                                                         *)
(* Every storage call is one atomic action, every failure of one another;  *)
(* between two of them any other request, instance, or the clock may move. *)
(***************************************************************************)
EXTENDS AlertPolicy, FiniteSets, FiniteSetsExt, Sequences

CONSTANTS
    Instance,     \* the Phield processes
    Request,      \* ingest requests and Kafka messages
    At,           \* [Request -> Instance]: the process that gets each
    Http,         \* the requests whose client can go away and cancel them
    Payload,      \* [Request -> models.IngestRequest]
    Unstorable,   \* PII type names that are blank, hold a '.' or begin with '$'
    Slot, SlotOf, \* seriesLocks: [Series -> Slot] is the hash of lockSeries
    Window,       \* PHIELD_WINDOW_SIZE, in ticks
    MuteLengths,  \* the lengths a mute can be asked for, in ticks
    Seed,         \* the stats stored before
    MaxAttempts,  \* maxStatsAttempts (8 in the code)
    None          \* no lock holder

CONSTANTS         \* bounds
    MaxTime,      \* the clock stops here
    MaxFaults     \* storage failures, cancellations and crashes together

ASSUME IngestAssumption ==
    /\ At \in [Request -> Instance]
    /\ Http \subseteq Request
    /\ \A r \in Request :
        /\ Payload[r].timestamp \in Nat
        /\ \A t \in DOMAIN Payload[r].counts : Payload[r].counts[t] \in Int
    /\ Window \in Nat
    /\ MuteLengths \subseteq Nat
    /\ Seed \in Stats
    /\ MaxAttempts \in Nat \ {0}
    /\ MaxTime \in Nat \ {0}
    /\ MaxFaults \in Nat
    /\ None \notin Request

TypesOf(r) == DOMAIN Payload[r].counts
PIITypes == UNION {TypesOf(r) : r \in Request}

\* IngestRequest.Validate.
Valid(p) ==
    /\ p.source # ""
    /\ DOMAIN p.counts # {}
    /\ DOMAIN p.counts \cap Unstorable = {}
    /\ \A t \in DOMAIN p.counts : p.counts[t] >= 0

\* An analysis: one PII type of one valid request.
Job == UNION {{r} \X TypesOf(r) : r \in {q \in Request : Valid(Payload[q])}}

\* organization defaults to "default"; context has no default.
Organization(p) == IF p.organization = "" THEN "default" ELSE p.organization

\* A mute covers an organization and context.
MuteKey(r) == <<Organization(Payload[r]), Payload[r].context>>
MuteKeys == {MuteKey(r) : r \in Request}

\* The counts that share a baseline: source, organization, context, type.
Key(j) == <<Payload[j[1]].source, MuteKey(j[1])[1], MuteKey(j[1])[2], j[2]>>
Series == {Key(j) : j \in Job}
SeriesOf == [j \in Job |-> Key(j)]
CountOf == [j \in Job |-> Payload[j[1]].counts[j[2]]]

ASSUME SlotAssumption == SlotOf \in [Series -> Slot]

\* The moments of the bounded clock.
Moments == 1..MaxTime

VARIABLES
    now,        \* time.Now(), one clock for all
    mutes,      \* [MuteKeys -> Nat]: the collection mutes, expires_at
    entries,    \* the collection pii_counts: set of [req, at]
    stats,      \* [Series -> Stats]: the collection pii_stats
    breaches,   \* [Job -> Nat]: the collection breaches, writes of each
    sent,       \* [Job -> Nat]: notifications delivered
    late,       \* SaveStats calls the server may yet perform though their
                \* caller has stopped waiting for them
    lock,       \* [Instance \X Slot -> Request or None]: seriesLocks
    pc,         \* [Request -> where the request is]
    todo,       \* the PII types still to be ranged over
    type,       \* piiType of the analysis under way
    muted,      \* analyzeTrend's muted
    attempt,    \* analyzeTrend's attempt
    read,       \* evaluateTrend's stats, as read
    outcome,    \* analyzeTrend's outcome
    cancelled,  \* requests whose context is cancelled
    faults,     \* faults so far
    log,        \* history: [Series -> Seq(Landing)], see Baseline
    gaveUp      \* history: jobs dropped after MaxAttempts

shared == <<mutes, entries, stats, breaches, sent, late, log, gaveUp>>
local  == <<pc, todo, type, muted, attempt, read, outcome>>
vars   == <<now, shared, lock, local, cancelled, faults>>

\* What each series is promised; stats and log stand for themselves.
Promise == INSTANCE Baseline WITH Moment <- Moments

-----------------------------------------------------------------------------
Waiting == {"ingest", "next", "lock"}
Holding == {"read", "evaluate", "write", "record", "notify"}
Underway == {"next", "lock"} \cup Holding
Finished == {"accepted", "failed", "rejected", "crashed"}

\* The analysis under way, its series and the lock it needs.
This(r) == <<r, type[r]>>
ThisSeries(r) == SeriesOf[This(r)]
ThisLock(r) == <<At[r], SlotOf[ThisSeries(r)]>>

ZeroOutcome == [stats |-> ZeroStats, ruling |-> "none", normal |-> FALSE,
                muted |-> FALSE, at |-> Never]

Init ==
    /\ now = 1
    /\ mutes = [k \in MuteKeys |-> Never]
    /\ entries = {}
    /\ stats = [s \in Series |-> Seed]
    /\ breaches = [j \in Job |-> 0]
    /\ sent = [j \in Job |-> 0]
    /\ late = {}
    /\ lock = [l \in Instance \X Slot |-> None]
    /\ pc = [r \in Request |-> "ingest"]
    /\ todo = [r \in Request |-> {}]
    /\ type = [r \in Request |-> None]
    /\ muted = [r \in Request |-> FALSE]
    /\ attempt = [r \in Request |-> 1]
    /\ read = [r \in Request |-> ZeroStats]
    /\ outcome = [r \in Request |-> ZeroOutcome]
    /\ cancelled = [r \in Request |-> FALSE]
    /\ faults = 0
    /\ log = [s \in Series |-> <<>>]
    /\ gaveUp = {}

Goto(r, l) == pc' = [pc EXCEPT ![r] = l]

\* A storage or notifier call of r can be answered only while its context
\* lives, and fails for certain once it is cancelled; another failure is one
\* of the bounded faults.
CanSucceed(r) == ~cancelled[r]
Fails(r) ==
    /\ cancelled[r] \/ faults < MaxFaults
    /\ faults' = IF cancelled[r] THEN faults ELSE faults + 1

\* analyzeTrend returns: the deferred unlock, the locals go, and the loop of
\* ProcessIngest moves to the next type or ends.
Return(r) ==
    /\ lock' = [lock EXCEPT ![ThisLock(r)] = None]
    /\ read' = [read EXCEPT ![r] = ZeroStats]
    /\ outcome' = [outcome EXCEPT ![r] = ZeroOutcome]
    /\ attempt' = [attempt EXCEPT ![r] = 1]
    /\ muted' = [muted EXCEPT ![r] = FALSE]
    /\ type' = [type EXCEPT ![r] = None]
    /\ Goto(r, IF todo[r] = {} THEN "accepted" ELSE "next")
    /\ UNCHANGED todo

-----------------------------------------------------------------------------
(* ProcessIngest *)

\* Validate refuses the request: 400, nothing is stored.
Reject(r) ==
    /\ pc[r] = "ingest"
    /\ ~Valid(Payload[r])
    /\ Goto(r, "rejected")
    /\ UNCHANGED <<now, shared, lock, todo, type, muted, attempt, read, outcome,
                   cancelled, faults>>

\* The entry ProcessIngest builds: an absent timestamp becomes now.
Entry(r) == [req |-> r,
             at  |-> IF Payload[r].timestamp = Never THEN now
                     ELSE Payload[r].timestamp]

Save(r) ==
    /\ pc[r] = "ingest"
    /\ Valid(Payload[r])
    /\ CanSucceed(r)
    /\ entries' = entries \cup {Entry(r)}
    /\ todo' = [todo EXCEPT ![r] = TypesOf(r)]
    /\ Goto(r, "next")
    /\ UNCHANGED <<now, mutes, stats, breaches, sent, late, log, gaveUp, lock,
                   type, muted, attempt, read, outcome, cancelled, faults>>

\* The insert fails for the caller, whether or not it was performed: 500.
SaveFails(r) ==
    /\ pc[r] = "ingest"
    /\ Valid(Payload[r])
    /\ Fails(r)
    /\ \E e \in SUBSET {Entry(r)} : entries' = entries \cup e
    /\ Goto(r, "failed")
    /\ UNCHANGED <<now, mutes, stats, breaches, sent, late, log, gaveUp, lock,
                   todo, type, muted, attempt, read, outcome, cancelled>>

-----------------------------------------------------------------------------
(* analyzeTrend *)

MuteStands(k) == now < mutes[k]

\* Take any remaining PII type; IsMuted, asked once and before the lock.
\* A failure counts as not muted.
CheckMute(r) ==
    /\ pc[r] = "next"
    /\ \E t \in todo[r] :
        /\ type' = [type EXCEPT ![r] = t]
        /\ todo' = [todo EXCEPT ![r] = @ \ {t}]
    /\ \/ /\ CanSucceed(r)
          /\ muted' = [muted EXCEPT ![r] = MuteStands(MuteKey(r))]
          /\ UNCHANGED faults
       \/ /\ Fails(r)
          /\ muted' = [muted EXCEPT ![r] = FALSE]
    /\ Goto(r, "lock")
    /\ UNCHANGED <<now, shared, lock, attempt, read, outcome, cancelled>>

\* Defect: the lock is taken though another request holds it.
AcquireHeldLock(r) ==
    /\ pc[r] = "lock"
    /\ lock' = [lock EXCEPT ![ThisLock(r)] = r]
    /\ Goto(r, "read")
    /\ UNCHANGED <<now, shared, todo, type, muted, attempt, read, outcome,
                   cancelled, faults>>

AcquireLock(r) ==
    /\ pc[r] = "lock"
    /\ lock[ThisLock(r)] = None
    /\ lock' = [lock EXCEPT ![ThisLock(r)] = r]
    /\ Goto(r, "read")
    /\ UNCHANGED <<now, shared, todo, type, muted, attempt, read, outcome,
                   cancelled, faults>>

GetStats(r) ==
    /\ pc[r] = "read"
    /\ CanSucceed(r)
    /\ read' = [read EXCEPT ![r] = stats[ThisSeries(r)]]
    /\ Goto(r, "evaluate")
    /\ UNCHANGED <<now, shared, lock, todo, type, muted, attempt, outcome,
                   cancelled, faults>>

\* Defect: the early return of a failed read does not unlock.
GetStatsFailsHolding(r) ==
    /\ pc[r] = "read"
    /\ Fails(r)
    /\ Goto(r, IF todo[r] = {} THEN "accepted" ELSE "next")
    /\ UNCHANGED <<now, shared, lock, todo, type, muted, attempt, read, outcome,
                   cancelled>>

\* Without the baseline there is nothing to analyze against: the count is left
\* out of it.
GetStatsFails(r) ==
    /\ pc[r] = "read"
    /\ Fails(r)
    /\ Return(r)
    /\ UNCHANGED <<now, shared, cancelled>>

\* GetAverage: the entries of the series' source, organization and context
\* inside the window, this request's own among them; one without the type
\* counts as zero.
InWindow(r) ==
    {e \in entries :
        /\ Payload[e.req].source = Payload[r].source
        /\ MuteKey(e.req) = MuteKey(r)
        /\ e.at >= now - Window}

WindowTotal(r) ==
    LET t == type[r]
        count(e) == IF t \in TypesOf(e.req) THEN Payload[e.req].counts[t] ELSE 0
    IN  MapThenSumSet(count, InWindow(r))

\* Defect: the tracker is updated before the decision.
BreachedAfter(r) ==
    IF Method = "z_score"
    THEN WarmBreach(Update(read[r], CountOf[This(r)]), CountOf[This(r)])
    ELSE PercentageBreach(WindowTotal(r), Cardinality(InWindow(r)),
                          CountOf[This(r)])

\* The breach decision of evaluateTrend.
Breached(r) ==
    IF Method = "z_score"
    THEN WarmBreach(read[r], CountOf[This(r)])
    ELSE PercentageBreach(WindowTotal(r), Cardinality(InWindow(r)),
                          CountOf[This(r)])

\* The rest of evaluateTrend, given that decision.
Conclude(r, breached) ==
    /\ outcome' = [outcome EXCEPT ![r] =
            Evaluate(read[r], CountOf[This(r)], breached, muted[r], now)]
    /\ Goto(r, "write")
    /\ UNCHANGED <<now, shared, lock, todo, type, muted, attempt, read, cancelled>>

EvaluateTrend(r) ==
    /\ pc[r] = "evaluate"
    /\ Method = "percentage_delta" => CanSucceed(r)
    /\ Conclude(r, Breached(r))
    /\ UNCHANGED faults

\* GetAverage fails: no detection for this count, but the baseline learns it.
GetAverageFails(r) ==
    /\ pc[r] = "evaluate"
    /\ Method = "percentage_delta"
    /\ Fails(r)
    /\ Conclude(r, FALSE)

\* Defects: the write is not versioned; or its filter matches only documents
\* that were never updated.
AcceptsBlindly(j, e) == TRUE
AcceptsUnversioned(j, e) == stats[SeriesOf[j]].version = 0 /\ e.stats.version = 0

\* SaveStats, performed by the server for the job j and outcome e: accepted
\* when the stored version is the one that was read.
Accepts(j, e) == stats[SeriesOf[j]].version = e.stats.version

Store(j, e) ==
    /\ stats' = [stats EXCEPT ![SeriesOf[j]] = Stored(e.stats)]
    /\ log' = [log EXCEPT ![SeriesOf[j]] = Append(@, Promise!Landed(j, e))]

\* The write lands, and only then is reportTrend called: it is done at once
\* unless there is a breach to record.
SaveStats(r) ==
    /\ pc[r] = "write"
    /\ CanSucceed(r)
    /\ Accepts(This(r), outcome[r])
    /\ Store(This(r), outcome[r])
    /\ IF Recorded(outcome[r].ruling)
       THEN /\ Goto(r, "record")
            /\ UNCHANGED <<lock, todo, type, muted, attempt, read, outcome>>
       ELSE Return(r)
    /\ UNCHANGED <<now, mutes, entries, breaches, sent, late, gaveUp, cancelled,
                   faults>>

\* Defect: a conflict is taken for an error like any other.
ConflictNotRetried(r) ==
    /\ pc[r] = "write"
    /\ CanSucceed(r)
    /\ ~Accepts(This(r), outcome[r])
    /\ attempt[r] < MaxAttempts
    /\ Return(r)
    /\ UNCHANGED <<now, shared, cancelled, faults>>

\* Defect: the attempts are not bounded.
ConflictForever(r) ==
    /\ pc[r] = "write"
    /\ CanSucceed(r)
    /\ ~Accepts(This(r), outcome[r])
    /\ attempt' = [attempt EXCEPT ![r] = @ + 1]
    /\ Goto(r, "read")
    /\ UNCHANGED <<now, shared, lock, todo, type, muted, read, outcome,
                   cancelled, faults>>

\* ErrStatsConflict: back off and analyze again...
Conflict(r) ==
    /\ pc[r] = "write"
    /\ CanSucceed(r)
    /\ ~Accepts(This(r), outcome[r])
    /\ attempt[r] < MaxAttempts
    /\ attempt' = [attempt EXCEPT ![r] = @ + 1]
    /\ Goto(r, "read")
    /\ UNCHANGED <<now, shared, lock, todo, type, muted, read, outcome,
                   cancelled, faults>>

\* ... but not for ever: the count is dropped from the baseline.
GiveUp(r) ==
    /\ pc[r] = "write"
    /\ CanSucceed(r)
    /\ ~Accepts(This(r), outcome[r])
    /\ attempt[r] >= MaxAttempts
    /\ gaveUp' = gaveUp \cup {This(r)}
    /\ Return(r)
    /\ UNCHANGED <<now, mutes, entries, stats, breaches, sent, late, log,
                   cancelled, faults>>

\* Defect: the breach is reported although its write failed.
SaveStatsFailsReporting(r) ==
    /\ pc[r] = "write"
    /\ Fails(r)
    /\ late' = late \cup {[job |-> This(r), outcome |-> outcome[r]]}
    /\ IF Recorded(outcome[r].ruling)
       THEN /\ Goto(r, "record")
            /\ UNCHANGED <<lock, todo, type, muted, attempt, read, outcome>>
       ELSE Return(r)
    /\ UNCHANGED <<now, mutes, entries, stats, breaches, sent, log, gaveUp,
                   cancelled>>

\* Another error of SaveStats: nothing is reported, though the server may
\* have performed the write, or perform it later.
SaveStatsFails(r) ==
    /\ pc[r] = "write"
    /\ Fails(r)
    /\ late' = late \cup {[job |-> This(r), outcome |-> outcome[r]]}
    /\ Return(r)
    /\ UNCHANGED <<now, mutes, entries, stats, breaches, sent, log, gaveUp,
                   cancelled>>

\* The server performs a write nobody waits for.
LandLate ==
    /\ \E w \in late : Accepts(w.job, w.outcome) /\ Store(w.job, w.outcome)
    /\ UNCHANGED <<now, mutes, entries, breaches, sent, late, gaveUp, lock,
                   local, cancelled, faults>>

-----------------------------------------------------------------------------
(* reportTrend *)

\* Defects: every recorded breach is notified; or none is.
AfterRecordNotifying(r) ==
    /\ Goto(r, "notify")
    /\ UNCHANGED <<lock, todo, type, muted, attempt, read, outcome>>
AfterRecordSilent(r) == Return(r)

\* After the record: a muted breach is done, another goes to the notifier.
AfterRecord(r) ==
    IF Announced(outcome[r].ruling)
    THEN /\ Goto(r, "notify")
         /\ UNCHANGED <<lock, todo, type, muted, attempt, read, outcome>>
    ELSE Return(r)

SaveBreach(r) ==
    /\ pc[r] = "record"
    /\ CanSucceed(r)
    /\ breaches' = [breaches EXCEPT ![This(r)] = @ + 1]
    /\ AfterRecord(r)
    /\ UNCHANGED <<now, mutes, entries, stats, sent, late, log, gaveUp,
                   cancelled, faults>>

\* A failure is logged only; the insert may have been performed.
SaveBreachFails(r) ==
    /\ pc[r] = "record"
    /\ Fails(r)
    /\ \E n \in {0, 1} : breaches' = [breaches EXCEPT ![This(r)] = @ + n]
    /\ AfterRecord(r)
    /\ UNCHANGED <<now, mutes, entries, stats, sent, late, log, gaveUp,
                   cancelled>>

\* Defect: no unlock after a notification.
NotifyHolding(r) ==
    /\ pc[r] = "notify"
    /\ CanSucceed(r)
    /\ sent' = [sent EXCEPT ![This(r)] = @ + 1]
    /\ Goto(r, IF todo[r] = {} THEN "accepted" ELSE "next")
    /\ UNCHANGED <<now, mutes, entries, stats, breaches, late, log, gaveUp, lock,
                   todo, type, muted, attempt, read, outcome, cancelled, faults>>

Notify(r) ==
    /\ pc[r] = "notify"
    /\ CanSucceed(r)
    /\ sent' = [sent EXCEPT ![This(r)] = @ + 1]
    /\ Return(r)
    /\ UNCHANGED <<now, mutes, entries, stats, breaches, late, log, gaveUp,
                   cancelled, faults>>

NotifyFails(r) ==
    /\ pc[r] = "notify"
    /\ Fails(r)
    /\ \E n \in {0, 1} : sent' = [sent EXCEPT ![This(r)] = @ + n]
    /\ Return(r)
    /\ UNCHANGED <<now, mutes, entries, stats, breaches, late, log, gaveUp,
                   cancelled>>

-----------------------------------------------------------------------------
(* The environment *)

\* POST /mute, handleMute and SaveMute: the last mute replaces an earlier one,
\* longer or shorter. A context is required.
Mute(k, n) ==
    /\ k[2] # ""
    /\ n > 0
    /\ mutes' = [mutes EXCEPT ![k] = now + n]
    /\ UNCHANGED <<now, entries, stats, breaches, sent, late, log, gaveUp, lock,
                   local, cancelled, faults>>

\* The client of an HTTP request disconnects: its context is cancelled.
Cancel(r) ==
    /\ r \in Http
    /\ pc[r] \in Underway
    /\ ~cancelled[r]
    /\ faults < MaxFaults
    /\ cancelled' = [cancelled EXCEPT ![r] = TRUE]
    /\ faults' = faults + 1
    /\ UNCHANGED <<now, shared, lock, local>>

\* A process dies and a new one takes its place: its requests and locks are
\* gone, the database keeps what it has, and a write that was on its way may
\* still be performed.
Crash(i) ==
    LET dead == {r \in Request : At[r] = i /\ pc[r] \in Underway}
    IN  /\ dead # {}
        /\ faults < MaxFaults
        /\ faults' = faults + 1
        /\ late' = late \cup {[job |-> This(r), outcome |-> outcome[r]] :
                              r \in {d \in dead : pc[d] = "write"}}
        /\ lock' = [l \in Instance \X Slot |-> IF l[1] = i THEN None ELSE lock[l]]
        /\ pc' = [r \in Request |-> IF r \in dead THEN "crashed" ELSE pc[r]]
        /\ read' = [r \in Request |-> IF r \in dead THEN ZeroStats ELSE read[r]]
        /\ outcome' = [r \in Request |->
                          IF r \in dead THEN ZeroOutcome ELSE outcome[r]]
        /\ UNCHANGED <<now, mutes, entries, stats, breaches, sent, log, gaveUp,
                       todo, type, muted, attempt, cancelled>>

Tick ==
    /\ now < MaxTime
    /\ now' = now + 1
    /\ UNCHANGED <<shared, lock, local, cancelled, faults>>

\* Every request is answered and the clock has run out: the end of the model.
Quiesce ==
    /\ \A r \in Request : pc[r] \in Finished
    /\ now = MaxTime
    /\ UNCHANGED vars

-----------------------------------------------------------------------------
Step(r) ==
    \/ Save(r) \/ SaveFails(r)
    \/ CheckMute(r) \/ AcquireLock(r)
    \/ GetStats(r) \/ GetStatsFails(r)
    \/ EvaluateTrend(r) \/ GetAverageFails(r)
    \/ SaveStats(r) \/ Conflict(r) \/ GiveUp(r) \/ SaveStatsFails(r)
    \/ SaveBreach(r) \/ SaveBreachFails(r)
    \/ Notify(r) \/ NotifyFails(r)

Next ==
    \/ \E r \in Request : Reject(r) \/ Step(r) \/ Cancel(r)
    \/ \E i \in Instance : Crash(i)
    \/ \E k \in MuteKeys, n \in MuteLengths : Mute(k, n)
    \/ LandLate
    \/ Tick
    \/ Quiesce

Spec == Init /\ [][Next]_vars

\* A goroutine that can move does: its calls return or fail, and sync.Mutex
\* hands an unlocked lock to a waiter.
FairSpec == Spec /\ \A r \in Request : WF_pc(Step(r))

-----------------------------------------------------------------------------
(* Properties *)

Writes == [job : Job, outcome : Outcomes]

TypeOK ==
    /\ now \in Moments
    /\ mutes \in [MuteKeys -> Nat]
    /\ entries \subseteq [req : Request, at : Nat]
    /\ stats \in [Series -> Stats]
    /\ breaches \in [Job -> Nat] /\ sent \in [Job -> Nat]
    /\ late \subseteq Writes
    /\ lock \in [Instance \X Slot -> Request \cup {None}]
    /\ pc \in [Request -> Waiting \cup Holding \cup Finished]
    /\ todo \in [Request -> SUBSET PIITypes]
    /\ type \in [Request -> PIITypes \cup {None}]
    /\ \A r \in Request :
        /\ {r} \X todo[r] \subseteq Job
        /\ type[r] # None => This(r) \in Job
        /\ pc[r] \in Holding \cup {"lock"} => This(r) \in Job
    /\ muted \in [Request -> BOOLEAN]
    /\ attempt \in [Request -> 1..MaxAttempts]
    /\ read \in [Request -> Stats]
    /\ outcome \in [Request -> Outcomes]
    /\ cancelled \in [Request -> BOOLEAN]
    /\ faults \in 0..MaxFaults
    /\ log \in [Series -> Seq(Promise!Landing)]
    /\ gaveUp \subseteq Job

\* Whatever instances, retries and failures do, each series sees one count
\* after the other, each ruled against the stats the one before it left, none
\* twice, at moments that never go back. (analyzeTrend over SaveStats.)
ImplementsPromise == Promise!Spec

\* Each verdict is that of the counts landed before, and of those alone.
\* (evaluateTrend.)
VerdictsAreOfThePast == Promise!VerdictsAreOfThePast

\* A lock is held only by a request of its instance that is in the midst of
\* analyzing a series of that lock: every way out of analyzeTrend, a failed
\* call or a lost process among them, lets it go. (lockSeries, defer unlock.)
LocksAreReleased ==
    /\ \A l \in Instance \X Slot : lock[l] # None =>
        pc[lock[l]] \in Holding /\ ThisLock(lock[l]) = l
    /\ \A r \in Request : pc[r] \in Holding => lock[ThisLock(r)] = r

\* The ruling under which a job landed.
LandedAs(j, ruling) ==
    \E k \in DOMAIN log[SeriesOf[j]] :
        log[SeriesOf[j]][k].job = j /\ log[SeriesOf[j]][k].ruling = ruling

\* "Reporting waits until the write lands so a retry cannot alert twice": a
\* breach is recorded and notified at most once, only when its outcome is
\* stored, and only as that outcome was ruled. (analyzeTrend, reportTrend.)
ReportsFollowLandings ==
    \A j \in Job :
        /\ breaches[j] <= 1 /\ sent[j] <= 1
        /\ breaches[j] = 1 => LandedAs(j, "mute") \/ LandedAs(j, "announce")
        /\ sent[j] = 1 => LandedAs(j, "announce")

\* Landings of a series that did not hold the lock of r's instance: those of
\* other instances and the writes nobody waited for.
Foreign(r, s) ==
    {k \in DOMAIN log[s] : LET j == log[s][k].job IN
        \/ At[j[1]] # At[r]
        \/ \E w \in late : w.job = j}

\* Each failed attempt of a count is owed to a different such landing, so the
\* lock leaves retries to the other instances alone, and a count is given up
\* only after MaxAttempts of them. (lockSeries, maxStatsAttempts.)
ConflictsAreForeign ==
    /\ \A r \in Request : pc[r] \in Holding =>
        Cardinality(Foreign(r, ThisSeries(r))) >= attempt[r] - 1
    /\ \A j \in gaveUp : Cardinality(Foreign(j[1], SeriesOf[j])) >= MaxAttempts

\* While nothing fails, an accepted request has every count in its baseline,
\* save those given up; and a count given up never lands. (ProcessIngest.)
AcceptedCountsLand ==
    /\ \A j \in Job :
        pc[j[1]] = "accepted" /\ faults = 0 => Promise!HasLanded(j) \/ j \in gaveUp
    /\ \A j \in gaveUp : ~Promise!HasLanded(j)

\* A request that is received is answered: no wait for a lock, a retry or a
\* late answer is for ever. (ProcessIngest; deferred unlock of analyzeTrend.)
RequestsFinish ==
    \A r \in Request : pc[r] \in Underway ~> pc[r] \in Finished

\* While nothing fails, a breach ruled to be announced reaches the notifier,
\* and one ruled muted is recorded. (reportTrend.)
BreachesAreReported ==
    \A j \in Job :
        /\ LandedAs(j, "announce") ~> sent[j] = 1 \/ faults > 0
        /\ LandedAs(j, "mute") ~> breaches[j] = 1 \/ faults > 0

-----------------------------------------------------------------------------
(* What the repository says of the program, and the program does not keep *)

\* docs/docs/kafka.md:57: "No count is dropped from the baseline".
NoCountDropped == gaveUp = {}

\* SaveStats of the job has landed, and reportTrend is about to record it.
AboutToRecord(j) == pc[j[1]] = "record" /\ This(j[1]) = j

\* reportTrend: "A cooldown means the series alerted recently and that breach
\* is already on record", or is at least about to be.
CooldownIsOnRecord ==
    \A s \in Series : \A k \in DOMAIN log[s] :
        log[s][k].ruling = "cooldown" =>
            \E j \in 1..(k - 1) :
                breaches[log[s][j].job] >= 1 \/ AboutToRecord(log[s][j].job)
=============================================================================
