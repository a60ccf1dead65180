# Phield: specifications, model checks and proofs

Phield receives counts of PII (how many SSNs, e-mail addresses, ... a source
redacted), keeps a running baseline of every series of counts, and raises an
alert when a count breaks out of its baseline. This directory holds TLA+
modules of that system, the TLC runs that check them and the proofs TLAPS
checks. Paths below are relative to the repository.

Run one check with `tlc -config MCIngest_mongo.cfg MCIngest`, one proof with
`tlapm Baseline_proofs.tla`. `PROJECT.json` maps every definition to its lines.

## Inventory of the system

| part | state | operations | talks to |
|---|---|---|---|
| **trend** (`internal/trend`) | none; a `StatTracker` value | `Update`, `Variance`, `ZScore`, `CalculateBreach` | called by api |
| **alert policy** (`evaluateTrend`, api.go:410-542) | `models.Stats` of a series: count, mean, M2, last alert, whether that was muted, consecutive normal counts, version | judge a count, decide reset, cooldown, mute or announcement | reads `GetStats`, `GetAverage` |
| **ingest pipeline** (`ProcessIngest`, `analyzeTrend`, `reportTrend`, api.go:253-582) | 256 series locks per process; locals of each request | store the entry, then for each PII type: mute check, lock, evaluate, versioned write with retries, record, notify | storage, notifier |
| **storage** (`internal/db`) | entries, stats, mutes, breaches, metrics; in memory behind one `RWMutex`, or MongoDB collections | `Save`, `GetAverage`, `GetStats`, `SaveStats` (compare and set on version), `SaveMute`, `IsMuted`, `SaveBreach`, `GetBreaches`, `GetAllStats`, `GetEntries` (a stream), metrics, `Ping` | MongoDB server |
| **entry stream** (`GetEntries`) | a goroutine, an entry channel, an error channel | produce, fail, close | replay and dashboard read it |
| **replay** (api.go:584-757) | a semaphore; trackers or windows of one scan | simulate alerts over stored entries | entry stream |
| **MongoDB set-up** (mongo.go:231-435) | time-series collection, five indexes | create, drop and re-create | MongoDB server |
| **Kafka consumer** (`internal/kafka`) | the group's offset | read, decode, `ProcessIngest` | ingest pipeline |
| **dashboard** (`internal/dashboard`) | none | five aggregating reads | storage |
| **notifiers** (`internal/notifier`) | none | Slack, PagerDuty, fan-out | HTTP services |
| **mutes** (api.go:200-228) | expiry of each organization and context | mute | storage |
| **health, metrics, auth, limits, config, main** | latency samples | stateless checks, start and stop | all |

How they interact: HTTP handlers and the Kafka loop both call `ProcessIngest`,
each on a goroutine of its own, in any number of processes that share one
MongoDB. A process keeps two requests of one series apart by a lock; processes
are kept apart only by the version in `SaveStats`. Notifications are sent while
the lock is held. An HTTP request's context dies with its client and takes every
later storage call of that request with it; a Kafka message's does not.

What is hard: the read-modify-write of a baseline between a `GetStats` and a
`SaveStats` that other processes interleave with; a `SaveStats` that fails for
its caller but not on the server; a crash or a cancelled context between the
write that begins a cooldown and the report the cooldown presumes; the mute
looked up before the lock is awaited; locks held over remote calls; the cooldown
with its two exceptions (three normal counts; a muted breach followed by an
audible one); streams whose reader leaves. `PROJECT.json` lists each under
"hazards" with its line.

What makes each part correct:

- *alert policy*: a sustained breach alerts once per cooldown; nothing is
  silenced without a recorded cause; a mute silences nothing that comes after it.
- *ingest pipeline*: every count enters its baseline once, judged against what
  the counts before it left; what is reported is what landed, at most once;
  locks are let go on every path; every request is answered.
- *storage*: `SaveStats` is a compare-and-set; a reader of a stream learns of a
  failure, and a stream ends when its reader does.
- *replay*: each selected count is judged against exactly the earlier ones of its
  series, with the z-score method as live analysis judges it; a cut list of breaches
  is never taken for a whole one.
- *set-up*: whatever instances start together, every index stands in the end, and a
  series has one document.
- *Kafka*: no message is processed twice, unless a commit of one generation of the
  group is performed in a later one; a message is lost only to a failure, to a shutdown
  or to being given up after `MaxAttempts` conflicts; a bad message does not stop the
  loop; shutdown ends the process.
- *notifiers*: a channel that fails takes no other channel's alert with it.
- *dashboard*: its views of one window tell of the same counts.

## Modules

```
TrendMath ─┬─ AlertPolicy ──┬── Baseline ──── Baseline_proofs
           │       │        └── Ingest ────── Ingest_proofs ── Refinement_proofs
           │       └── AlertPolicy_proofs (lemmas for both)
           └─ Replay (INSTANCE)
EntryStream ── EntryStream_proofs
Entries ─┬─ Replay ────┬── Reads_proofs
         └─ Dashboard ─┘
MongoDB ─── Service ────── Service_proofs
Sums_proofs (sums over finite sets; used by Baseline_proofs and Reads_proofs)
```

`MCBaseline`, `MCIngest`, `MCEntryStream` and `MCService` extend their module with the
requests, entries, messages and numbers TLC is given; `MCReads` extends `Replay` and
`Dashboard`, which read the same entries. `Ingest` has
`Promise == INSTANCE Baseline WITH Moment <- Moments`: its `stats` and `log` stand
for themselves, so the refinement mapping is the identity on two variables and
forgets the other seventeen.

**TrendMath** is `internal/trend` and the arithmetic of `evaluateTrend`. The
code's Count, Mean and M2 are Welford's; here a baseline is (count, sum, sum of
squares) and every comparison is multiplied out into integers, which is exact:
`Mean = sum / count`, `M2 / Count = (count * sumsq - sum^2) / count^2`. That these move
as `StatTracker.Update` moves Mean and M2 is a theorem (`WelfordStep`). Only
floating-point rounding is abstracted. Sensitivity and threshold are fractions.

**AlertPolicy** is the rest of `evaluateTrend` as operators: the run of normal
counts and the reset after three, the cooldown, the exception for a cooldown
begun by a muted breach, the ruling (`none`, `cooldown`, `mute`, `announce`) and
`Evaluate`, the whole new stats. `Verdicts` are the breach decisions possible
for the stats read: the z-score decides alone, the percentage method depends on
the window of entries.

**Baseline** is the abstract specification: what one series is promised. A
count is absorbed in one step, ruled against the stats the count before it left,
each at most once, at moments that do not go back. `log` is a history variable.

**Ingest** is the pipeline itself, for any number of instances over one
database. One action per storage or notifier call and another for its failure:

| code | actions |
|---|---|
| `handleIngest`, `ProcessIngest` | `Reject`, `Save`, `SaveFails` |
| `analyzeTrend` before the lock | `CheckMute` (a failed `IsMuted` counts as not muted), `AcquireLock` |
| `evaluateTrend` | `GetStats`, `GetStatsFails`, `EvaluateTrend` (with `GetAverage`), `GetAverageFails` |
| `SaveStats` and what follows | `SaveStats`, `Conflict` (retry), `GiveUp`, `SaveStatsFails` |
| `reportTrend` | `SaveBreach`, `SaveBreachFails`, `Notify`, `NotifyFails` |
| deferred unlock and the next PII type | `Return`, part of each action that ends an analysis |
| `handleMute` | `Mute` |
| the world | `Cancel` (client gone), `Crash` (process gone), `LandLate` (a write performed after its caller stopped waiting), `Tick` |

A call that fails may have been performed or not; for `SaveStats` it may also be
performed later, which is what `late` holds. With one instance, no failures and
no `Http` request the module is the in-memory deployment. Defects
(`ResetsEarly`, `AcceptsBlindly`, ...) stand before the definition they spoil;
no action uses them.

Assumptions of `Ingest`: all processes read one clock; reads go to the primary;
the unique index on `pii_stats` exists (`MongoDB` drops that assumption); a notifier is configured (without one
`Notify` is skipped and nothing else changes); sources, contexts and types hold
no `:` (the in-memory storage joins its keys with it); a request's `ingest`,
whose client is gone before the first call, is not distinguished from one that
never came. `docs` describe `seriesLocks` as a matter of retries, not of safety,
and so it is in the model: the refinement holds by the version alone, and what
the lock earns is `ConflictsAreForeign`.

**EntryStream** is `GetEntries` of both storages with its two channels, and who
reads them. An entry passes in one step from a producer at its send to a reader
that receives (the channel has no buffer).

| code | actions |
|---|---|
| `InMemoryStorage.Save` | `Announce` (`RWMutex.Lock`: one writer waits, new readers wait for it), `AppendEntry` |
| goroutine of `GetEntries` | `Find` (lock, copy and sort; or open a cursor), `Take`, `Abandon` (in memory only: the send watches the context), `FindOrNextFails` (MongoDB only), `Close` (the deferred calls) |
| `handleReplay`, `RunReplay` | `Refuse` (429), `Begin`, then any of `Receive`, `ReplayEnds`, `ReplayFails`, as the select takes them |
| `handleSummary`, `handleTrends` | `CallTrends`, `GetAllStats`, `GetAllStatsCutShort` (its cursor's error goes unnoticed), `Begin`, `Receive`, `Drained` (the error is looked for after the drain), `GetBreaches` |
| the world | `CallSave`, `Leave` (the client goes and the context ends) |

Of the entries only which of them are seen matters, so they are model values with
a timestamp, and the ascending order of the stream is left out. `owed` is a history
variable: the entries of the range at the call of `GetEntries`. An insert into
MongoDB may or may not be met by a cursor that is open. `Take` of the in-memory
producer stands for the step of its loop and cannot fail.

**Entries** is the collection of counts as its readers find it: in the order of the
stream, each with the types it counts, its origin and its zone. A series is an origin
and a type; what matters of the names is only which are equal.

**Replay** is `POST /replay` from the checks of `handleReplay` to the answer. The scan
takes an entry, then its types in any order, as Go ranges over a map.

| code | actions |
|---|---|
| `handleReplay` | `Answer400`, `GetEntries` (the semaphore is in `EntryStream`) |
| the loop of `RunReplay` | `Receive` an entry; per type `Skip` (not in `pii_types`), `JudgeZScore` (the tracker), or `JudgePercentage` (the pruned history); `Answer200` |
| the list of breaches | `Report`, part of each judgement |

The reference definitions see the whole scan at once: `Earlier` and `Lookback` say which
entries a count is judged against, `IsBreach` judges it. A `Kept` that is too small or
too large, a tracker updated too early, a count that is skipped and yet learned would
all show against them. `history` holds the entries themselves where the code has pairs
of time and count, so that a window can be compared with another entry by entry.

**Dashboard** has what summary, entities, flows and trends compute, as operators on
the stored entries; its handlers only read. Times are minutes, a bucket is the start of
a quarter hour, hour or four hours, written in the zone of the entry, as `Format` does:
two entries of one bucket in different zones make two points of the timeline.

**MongoDB** is `Connect`, run by each instance as it starts, together with the documents
of one series that rely on it.

| code | actions |
|---|---|
| `main`, `Connect` up to the collection | `Start`, `Ping`, `ListCollections`, `CreateCollection`, `CollectionExists`, `ConnectFails` (`log.Fatalf`) |
| `setupIndexes`, `createIndex` for each index | `CreateIndex`, `Conflict` (there with other settings), `CannotBuild` (duplicates), `DropIndex`, `DropFindsNone`, `Rebuild`, `IndexFails`, `Expire` (the ten seconds are over; the rest is skipped with a warning) |
| `GetStats`, `SaveStats` | `GetStats`, `SaveStats` (update, or upsert of a first write), `StatsConflict`, `StatsFail` |
| the world | `Exit`, `Die`, `OtherFault` (a failure elsewhere) |

**Service** extends `MongoDB` with the processes: `main` from start to exit, the Kafka
loop and the notifiers. Its actions that reach the database conjoin one of `MongoDB`'s.

| code | actions |
|---|---|
| `main` | `Connect`, `Serve`, `Signal`, `Close` (the reader leaves the group, the listener stops, requests may be open), `ShutdownDone`, `ShutdownTimesOut` (`log.Fatal` after five seconds), `Crash` |
| `Consumer.Start` | `Fetch` and `ReadMessage` (commit, return, decode), `ReadMessageFails`, `CommitRefused` |
| `ProcessIngest` for the message | `Evaluate`, `Land`, `Retry` (up to `MaxAttempts`), `GiveUp`, `Fail` |
| `MultiNotifier.Notify` | `Tell`, `TellFails`, one channel after the other |
| the group and clients | `Join`, `Rebalance`, `Answer` |

A count is one delivery of a message (`Count = Message \X (1..MaxDeliveries)`), so a
message that is read again is a second count of the series. What a count does to its
series is `Ingest`'s subject; here `Announced` fixes which breaches are told.

A message that an instance has fetched and not yet committed survives a rebalance: the
instance is then in `late`. Its commit may be performed in the later generation, for
`CommitMessages` of kafka-go names an offset and the generation the reader is in now and
compares it with no other; the group's offset may move back by that, and the message is
processed by the old owner and the new one. Or it is refused, if it was on its way as the
generation ended, or it fails. `strayed` is a history variable, true once such a commit
was performed; `AtMostOnce` speaks of the behaviours in which none was. `unread` holds the
messages whose `ReadMessage` failed.

## Runs

| run | shows |
|---|---|
| `baseline` | five counts of one series, small and large, with every breach decision the percentage method can reach, three moments, cooldown 2: types, `RecordsAreSpaced`, `SilenceHasCause`, `BaselineIsItsCounts`. Five counts are enough for a record, a run of three and a second record; the three moments let a cooldown of two hold and end. Small counts are interchangeable (symmetry), and so are large ones. The system stops when every count is absorbed, so deadlock is not checked here. |
| `ingest_mongo` | three counts of one series at two instances, z-score, one fault of any kind anywhere (failed call, cancelled client, crash), two ticks, cooldown 1: lock discipline, reports follow landings, who causes conflicts, accepted counts land, each verdict is that of the counts landed before, and the refinement of `Baseline`. |
| `ingest_window` | one instance, percentage method over a window of one tick, mutes, two PII types whose series share a lock, a request with its own timestamp, one that is not valid, one fault: as above, and no count is ever given up at a single instance. |
| `ingest_live` | two instances, three counts, mutes, under fairness: every request is answered, and every landed breach is recorded or notified as it was ruled. |
| `ingest_dropped` | violation: four counts, two instances, three attempts. The other instance wins each time and the count is dropped, though docs/docs/kafka.md:57 says none is. |
| `ingest_lost_alert` | violation: a `SaveBreach` fails, which is only logged, and the next breach is silenced by the cooldown the first has begun, for which nothing is on record, though the comment on `reportTrend` says it is. This is the shortest trace; a crash or a cancelled context after `SaveStats`, or a `SaveStats` that fails for its caller and is performed, leaves the same. A breach that has landed and that its request is still about to record does not count. |
| `stream_memory` | two replays for one place, a summary and a save over the in-memory storage; clients go at any moment. Replays are complete, every handler returns, a save is never shut out for ever and every scan ends. |
| `stream_mongo` | a summary and a trends read over MongoDB with one server error anywhere and a save in between: what the dashboard shows is whole, and every handler returns. |
| `reads` | 378 streams of four entries (three origins, two of which share source and context; three maps of counts; two timings with one entry on the edge of another's window and one just beyond), six requests (whole range, one that begins late, one type, a missing time, inverted and without threshold, too wide), both methods: the windows of the simulation, the breaches it answers with, the details cut at one, the views of the dashboard over windows of 2, 24 and 168 hours, and the recent means of `/trends` against the baselines they are compared with. |
| `service` | two instances with different retentions, over a new database and over one of a third retention; three messages, the second malformed, the first announced on two channels; two of: one fault of any kind anywhere (database, commit, channel, crash), one signal, one rebalance. Two attempts for a write, up to two deliveries of a message. Safety as in the properties' comments, and under fairness that shutdown ends and the topic drains. |
| `replay_partial` | violation: the scan fails, the producer has put its error and closed the entries, and the select of `RunReplay` takes the closed channel: a part of the window is answered with 200, though docs/docs/api.md:150 says every count is scanned. |
| `replay_stacked` | violation, under fairness: the client goes while MongoDB's producer is at its send; nothing ever receives from it, and the retry is admitted, though the comment in `handleReplay` says a client cannot stack work. |

`EntryStream` and `Service` may stop, when every request is answered or every instance is
down, so their runs do not check for deadlock; the liveness properties say what must not stop before. One boundary entry
lies on the start of the range (`e1`), one beyond its end (`w2`).

Bounds, all named in the modules: `MaxAttempts` is 2 or 3 where the code has 8,
which only shortens the way to `GiveUp`; `MaxFaults` counts failed calls, lost
clients and crashes together (a call of a cancelled request fails for free);
`MaxTime` ends the clock. `Quiesce` marks the end of the bounded model, when all
requests are answered and the clock has run out, so that any other stop is a
deadlock TLC reports; `Stop` is the same for `Replay`. In `service`, `MaxStops` counts
signals and `MaxMoves` rebalances while an instance has the partition; instances
start again as often as they like. `MaxTrouble` is how many faults, signals and rebalances
there are together, and `MaxDeliveries` how often a message can be delivered: within two
troubles none is delivered a third time. Two instances are enough for every race of `createIndex`
(one drops, the other creates, drops or finds it gone), since each looks at the index and
not at the others, and the proofs hold for any number. Two of the five indexes are given,
the unique one and the one whose setting depends on the configuration. In `reads` four
entries let a series have a baseline, an entry that falls out of the window and a breach
after it; the limit on details is one, so that two breaches in an entry cross it.

Fairness: `FairSpec` asks that a request that can move does (weak fairness on
its steps, whether they succeed or fail). Go schedules every runnable goroutine,
`sync.Mutex` gives a waiter the lock after at most a millisecond of starvation,
and the storage driver and HTTP clients return or time out. Weak fairness is
enough because a lock is only wanted by as many requests as there are. Nothing
is assumed of clients, crashes, mutes, the clock or late writes. `EntryStream` asks
the same of its writers, producers and handlers. Weak fairness suffices for the
read-write lock because the writers are finitely many; Go gives more, it lets
waiting readers in between two writers. `Service` asks that the
goroutine of the consumer goes on, which reads a message and then processes it
(`Consumer`), and `main` once it is told to stop (`Shutdown`); nothing is asked
of clients (one may keep a request open for ever), of signals, or that a stopped
instance is started again. `TopicDrains` therefore speaks of runs in which some instance
keeps serving.

## Proofs

`AlertPolicy_proofs`: the outcome of an evaluation is an outcome, and which field
follows from what. Of the arithmetic:

- `WelfordStep`: the model's sums move as Welford's step in `StatTracker.Update` moves
  Mean and M2, multiplied out. It is what lets the model keep sums.
- `SpreadStep`: no step makes a variance negative, and it stays zero only while every
  count is the mean. `BreachIsMonotone`: a greater count is no less of a breach.

`Sums_proofs`: what a sum over a finite set is. The library's induction theorems need an
operator as a parameter and cannot be used; but a non-empty set of finite sets, ordered by
strict inclusion, has a minimal member, and the induction over finite subsets that follows
can be stated with the set of subsets a formula holds of. From it: a sum exists and does
not depend on the order in which its elements are picked (`MapThenSumSet` picks with a
`CHOOSE`), adding and removing an element, sums by blocks, sums over renamed elements.

`Baseline_proofs`, for every set of series and jobs, every cooldown, threshold
and method, logs of every length:

- `TypeCorrect`: `Spec => []TypeOK`.
- `RecordsSpaced`: `Spec => []RecordsAreSpaced`.
- `SilenceCaused`: `Spec => []SilenceHasCause`.
- `BaselineCounted`: `Spec => []BaselineIsItsCounts`.
- `VerdictsPast`: `Spec => []VerdictsAreOfThePast`.
- `VarianceNeverNegative`: no stored variance is negative, if the seed's is not.

`RecordsSpaced` and `SilenceCaused` are not inductive: they speak of the log, the code decides by
three fields of the stats. The invariant ties the two together for one series.
`RunInv`: `consecutiveNormal` is at least one (two) exactly when the last (two)
entries were ordinary, so `Resets` is the end of a quiet run (`ResetIsQuiet`).
`AlertInv`: the last alert is a recorded entry with no quiet run after it.
`RecordInv`: a recorded entry with no quiet run after it is not later than the
last alert, and an announced one lies a whole cooldown before a muted last alert.
`TimeInv`: the last alert is not of the future. With these each ruling of a new
count follows case by case (`AbsorbKeepsInv`). The assumptions: a seed with no
alert in force, as a series that starts has, whose version counts what it has counted,
as each write adds one to both, and moments that are positive.

`BaselineIsItsCounts` says what the stats hold by sums over the set of absorbed jobs;
`CountInv` adds that no job is twice in the log, so each absorption adds one new element
to each sum. `VerdictsAreOfThePast` looks back to the moment of each ruling. Its
invariant (`VerdictInv`) says that ruling by ruling; a new entry is ruled from the stats
of that moment, which `CountInv` says are the sums, and the log's earlier entries keep
their past.

`Ingest_proofs`, for every set of requests, instances, locks, payloads and any
number of attempts and faults:

- `TypeCorrect`: `Spec => []TypeOK`. `TypeOK` says besides the types that a request
  analyzes only types it carries, and is inductive with that.
- `LocksReleased`: `Spec => []LocksAreReleased`. Inductive with `TypeOK`: a lock
  names its holder and a holder names its lock, so two locks with one holder, or a
  lock whose holder has left, are excluded together.

`Refinement_proofs`: `Implements`: `Spec => ImplementsPromise`, that every step of
`Ingest` is a step of `Baseline` or leaves `stats` and `log` alone. The invariant
`RefInv` says why the version is enough.

- `ReadInv`: what a request has read is what is stored, or of an older version.
- `WriteInv`: each outcome, in flight or late, is of an older version, and then is
  refused, or of the stored one, and then is an evaluation of what is stored.
- `TimeInv`: no landing is of the future, so moments do not go back.
- `OnceInv`: a job whose outcome has not been put to the server has not landed, and
  a late one that could still land has not.

A step that stores (`SaveStats`, `LandLate`) is one lemma (`LandStep`), all others
share another (`FrameStep`). The lock is used nowhere: the refinement rests on the
compare-and-set alone. From it and `Baseline_proofs` follow, for a series whose
stored stats hold no alert at first (`FreshSeed`), `IngestRecordsSpaced` and
`IngestSilenceCaused`: the promises about cooldowns hold of the concurrent pipeline;
`IngestBaselineCounted`: no landed count is lost from a stored baseline or in it twice;
`IngestVerdictsPast`: each count is judged against all that landed before it, though it
is read, judged and written in three calls; and `IngestVarianceNeverNegative`, which also
assumes it of the seed.

The same module proves the rest of `Ingest`'s safety from `RefInv` and the locks.

- `ReportsFollow`: `Spec => []ReportsFollowLandings`. A request that is about to record
  or to notify has landed with that ruling and has not reported it (`ReportInv`); no
  step goes back to a job that has landed (`AheadStep`), so nobody reports it twice.
- `AcceptedLand`: `Spec => []AcceptedCountsLand`. While nothing fails a job is to be put
  to the server, has landed or is given up (`AccountInv`); a job given up is neither
  ahead nor late (`GaveUpInv`).
- `ConflictsOwed`: `Spec => []ConflictsAreForeign`. The version of the stats counts the
  landings (`VersionInv`), so what was read is a place in the log. All landings after
  that place are foreign, for whoever else would land at this instance needs the lock;
  the failed attempts are at most the foreign landings before it (`Owed`). A refused
  write moves the place past one of the former.
- `OneInstanceDropsNothing`: with one instance, `NoCountDropped` as long as there were
  fewer faults than `MaxAttempts`. A foreign landing is then a write left to the server,
  and no write lands twice (`LogInv`), so it is enough that a series never has more such
  writes than there were faults. That is not inductive, for the write of a request whose
  client is gone fails at no further cost: `PaidInv` counts it from the moment it is
  doomed. A crash leaves one write of a series behind and no more, because of the lock.

`EntryStream_proofs`, for any requests, entries, writers and faults:

- `TypeCorrect`: `Spec => []TypeOK`.
- `DashboardsComplete`: `Spec => []DashboardsAreComplete`.
- `ReplaysComplete`: `Spec => []ReplaysAreComplete` if the storage is in memory. Over
  MongoDB it is false, as `replay_partial` shows.

The invariant follows one request. `Accounted`: every entry it is owed is with the
reader, in the producer's hands, or known to be missing (an error waits, or the
client has gone). `InStep`: a handler is past its stream only when the producer has
ended, and a dashboard only when no error waits. A step of another request or of a
writer leaves it alone (`Unmoved`).

`Service_proofs`, of `MongoDB`, for any instances, indexes, settings, counts and faults:

- `MongoTypeCorrect`: `MongoSpec => []MongoTypeOK`.
- `StartedIndexed`: `MongoSpec => []StartedMeansIndexed`.
- `CountsKept`: `MongoSpec => []LandedCountsAreKept`.

`MongoInv`: an instance at its indexes or up has the collection (`ReadyInv`); without faults
an index an instance has passed is there, with a setting of some instance, or
another is between its drop and its rebuild (`IndexInv`); the unique index, which no
configuration changes, is there for good once an instance has passed it (`SeriesInv`);
and what a holder has read is the document or older than it (`DocsInv`).

and of `Service`, for any topic, channels, instances, signals, rebalances and faults:

- `ServiceUsesMongoDB`: `Spec => MongoSpec`. So `MongoDB`'s theorems carry over:
  `ServiceStartsIndexed`, `ServiceKeepsCounts`.
- `ServiceTypeCorrect`: `Spec => []TypeOK`.
- `OnceAtMost`: `Spec => []AtMostOnce`, through rebalances in which messages stay
  fetched, and through commits that fail or are refused. The invariant (`OnceInv`): until
  a commit strays, nothing past the committed offset has been handed on, and what this
  generation has fetched or will fetch is past it. `FreshInv`: a delivery that has not
  been made has left no trace.
- `LossBounded`: `Spec => []LossesAreBounded`, whether commits stray or not. `SeenInv`:
  whatever is committed, or lies before what is fetched or before the reader's position,
  has been read or its reading has failed, so an offset that moves back or forth never
  passes over a message nobody has read. A message may be lost before the offset
  is past it, and a signal comes before what it costs, so the invariant (`LossInv`)
  counts the messages that were read and are not in the baseline (`Gap`) and the
  instances that are shutting down: together at most as many as faults, signals and
  counts given up. `HandInv` says that an instance has one message in hand.
- `OtherChannelsHear`: `Spec => []ChannelsAreIndependent`, from the alerts a channel
  before the current one has not got (`UnheardInv`).

`Reads_proofs`, for every stream of entries, request, window and limit:

- `TypeCorrect`: `Spec => []TypeOK`.
- `WindowsExact`: `Spec => []WindowsAreExact`. The history of a series holds what has
  been judged of it, except what was too old already when it was cut (`HistoryInv`); the
  stream ascends, so it is too old for every later point.
- `DetailsFirst`: `Spec => []DetailsAreTheFirst`.
- `ReplayIsExact`: `Spec => []ReplayFindsAll`, by either method. `BreachInv`: the breaches
  found are those among what is done. With the z-score a tracker is the baseline of what
  is done of its series (`TrackerInv`), a sum that grows by one entry at a time.
- `SteadyIsQuiet`: with the z-score a count is reported only if the earlier counts of its
  series were not all equal.
- `DashboardAgrees`: `Spec => []ViewsAgree`. The timeline of a type is the sum over its
  buckets, the flows a sum over pairs of source and context: each is a sum by blocks of
  one sum over the entries shown, and the table of flows by types has one total, by rows
  or by columns.
- `RecentPooled`: `Spec => []RecentIsPooled`. With a whole history in view the recent mean
  of `/trends` is that of the baselines of all organizations that share source, context and
  type; a series that shares them with none does not deviate.

Assumed are the named assumptions of the modules on their constants and nothing else;
no bound (`MaxTime`, `MaxFaults`, `MaxAttempts`) is given a value.

## Only model-checked

- `RequestsFinish`, `BreachesAreReported`, `RequestsAreAnswered`, `SavesFinish`,
  `ScansEnd`, `ShutdownEnds`, `TopicDrains`: liveness under fairness is out of the prover's reach.

Every invariant and the refinement that the passing runs check are theorems besides.
`NoCountDropped` is one under the hypothesis above: of several instances it is false, as
`ingest_dropped` shows.

## Where code and documents part

Four disagreements have a run that ends in a violation (above). Others met on the way:

- docs/docs/api.md:288 says of a breach detected during a mute that no notification is
  sent. `analyzeTrend` looks the mute up once (api.go:360), before it waits for the series
  lock and through all retries; a breach evaluated after the mute was accepted is
  announced. `CheckMute` and `EvaluateTrend` of `Ingest` are separate steps with `Mute`
  in between. `SilenceHasCause` is about the other direction, which holds.
- docs/docs/api.md:137 says that replay reports the breaches a setting would have
  produced. With `percentage_delta` the live analysis compares a count with a window
  that holds the count itself and ends at the time of the analysis (`WindowTotal` of
  `Ingest`), replay with the earlier counts of a window that ends at the count's own
  time (`Lookback` of `Replay`), so the two may differ. Replay also has no cooldown and
  no mute, and its first counts have no history but that of the range.
- docs/docs/dashboard.md:45 speaks of the recent mean of a source, context and type, and
  `/trends` compares it with the baseline of each organization's series (dashboard.go:283,
  309). Where organizations share the three, each is compared with the mixture, and deviates
  from it though nothing changed: `RecentIsPooled` says what is shown.
- docs/docs/kafka.md:47 says that delivery is at most once. The code leaves that to
  kafka-go (consumer.go:60), which performs a commit without comparing generations: a
  message fetched in one generation of the group and committed in the next can be
  processed by both owners. `AtMostOnce` excludes just that, by `strayed`; `service`
  reaches states where `strayed` holds and a message is delivered twice.
  `LossesAreBounded` adds what a shutdown costs, which the page does not mention, and
  what kafka.md:57 denies, a count that is given up.
- docs/docs/dashboard.md:100 promises events in reverse chronological order. MongoDB sorts
  them so; the in-memory storage returns them in the order of insertion.

## Not modelled, and why

- Health, metrics, authentication, request limits, configuration, the page of the
  dashboard: stateless checks, an append-only sample, values read once (the CONSTANTS of
  the modules) and static text; no state of the analysis depends on them.
- The list of breaches, which `/alerts` passes on as storage returns it (in memory in order
  of insertion, in MongoDB newest first).
- Floating point: the comparisons are exact in the model. The width of `time.Duration`.
- Keys joined with `:`, in the in-memory storage and in `RunReplay` (api.go:679): origins
  and types whose names hold none are assumed, in `Ingest` and in `Entries`.
- Expiry in MongoDB: samples of metrics are removed after the retention and mutes after
  their end; entries, stats and breaches are kept.
- A change of primary in MongoDB: writes are acknowledged and read at one server.

## Plan

The modules above cover the plan; what would add to them, in order of weight:

1. Mutes that replace one another, and the width of a duration.
2. The third normal count: a count may be a breach and normal at once and still
   completes the run; to be stated against CHANGELOG.md:21.
3. For the liveness properties, a measure that each step of a request lowers unless it
   was refused: what fairness is needed for would then be all that is not proved.
