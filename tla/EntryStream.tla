----------------------------- MODULE EntryStream -----------------------------
(***************************************************************************)
(* GetEntries of internal/db and its readers: a goroutine produces the     *)
(* stored entries of a time range on a channel without a buffer, an error  *)
(* on a channel that holds one, and closes both.  RunReplay selects among  *)
(* the two and its context; the dashboard drains the entries and then looks *)
(* for the error.  The in-memory producer holds the read lock of the       *)
(* storage while it streams; MongoDB's holds a cursor.                     *)
(* GET /api/dashboard/flows and /entities read the stream alone: each is a *)
(* Summary up to its last call.                                            *)
(***************************************************************************)
EXTENDS Naturals, FiniteSets

CONSTANTS
    Storage,        \* "memory" or "mongodb"
    Writer,         \* calls of Save; each stores the entry of its own name
    Old,            \* the entries stored before
    Replay,         \* POST /replay
    Summary,        \* GET /api/dashboard/summary: the stream, then GetBreaches
    Trends,         \* .../trends: GetAllStats, then the stream
    TimeOf,         \* [Entry -> Nat]: timestamps
    From, To,       \* [Request -> Nat]: the range of each request
    MaxConcurrent,  \* PHIELD_MAX_CONCURRENT_REPLAYS; 0 is no limit
    None

CONSTANT MaxFaults  \* bound: errors of the MongoDB server

Entry == Old \cup Writer
Dashboard == Summary \cup Trends
Request == Replay \cup Dashboard

ASSUME StreamAssumption ==
    /\ Storage \in {"memory", "mongodb"}
    /\ Old \cap Writer = {}
    /\ Replay \cap Dashboard = {}
    /\ Trends \cap Summary = {}
    /\ TimeOf \in [Entry -> Nat]
    /\ From \in [Request -> Nat] /\ To \in [Request -> Nat]
    /\ MaxConcurrent \in Nat /\ MaxFaults \in Nat
    /\ None \notin Entry

VARIABLES
    stored,     \* the entries in the storage
    writes,     \* [Writer -> where the call of Save is]
    announced,  \* the writer whose RWMutex.Lock waits for the readers, or None
    sharing,    \* the producers that hold RLock
    reader,     \* [Request -> where the handler is]
    producer,   \* [Request -> where the goroutine of GetEntries is]
    pending,    \* [Request -> the entries still to be produced]
    item,       \* [Request -> the entry offered to the reader, or None]
    failed,     \* [Request -> BOOLEAN]: an error waits in errChan
    seen,       \* [Request -> the entries the reader has received]
    gone,       \* the requests whose client has gone
    faults,     \* errors of the server so far
    owed        \* history: the entries of its range that were stored when
                \* GetEntries was called

writing == <<stored, writes, announced>>
reading == <<reader, seen, owed>>
stream  == <<sharing, producer, pending, item, failed>>
vars    == <<writing, reading, stream, gone, faults>>

Answered == {"ok", "error", "refused"}
AtWork == {"stats", "reading", "breaches"}

\* Defect: the start of the range is left out.
InRangeOpen(q, e) == From[q] < TimeOf[e] /\ TimeOf[e] <= To[q]

\* Both ends belong to the range.
InRange(q, e) == From[q] <= TimeOf[e] /\ TimeOf[e] <= To[q]

Matching(q) == {e \in stored : InRange(q, e)}

\* What a request is to be answered from, whatever the storage selects.
Asked(q) == {e \in stored : TimeOf[e] \in From[q]..To[q]}

\* The request's context is cancelled: the client went, or the handler returned.
Cancelled(q) == q \in gone \/ reader[q] \in Answered

\* RWMutex: a reader enters unless a writer waits or holds.
CanShare == Storage = "memory" => announced = None

\* A call to MongoDB fails: because of its context, or by one of the faults.
Fails(q) ==
    /\ Storage = "mongodb"
    /\ Cancelled(q) \/ faults < MaxFaults
    /\ faults' = IF Cancelled(q) THEN faults ELSE faults + 1

Succeeds(q) == Storage = "mongodb" => ~Cancelled(q)

Init ==
    /\ stored = Old
    /\ writes = [w \in Writer |-> "idle"]
    /\ announced = None
    /\ sharing = {}
    /\ reader = [q \in Request |-> "idle"]
    /\ producer = [q \in Request |-> "none"]
    /\ pending = [q \in Request |-> {}]
    /\ item = [q \in Request |-> None]
    /\ failed = [q \in Request |-> FALSE]
    /\ seen = [q \in Request |-> {}]
    /\ gone = {}
    /\ faults = 0
    /\ owed = [q \in Request |-> {}]

-----------------------------------------------------------------------------
(* Save *)

CallSave(w) ==
    /\ writes[w] = "idle"
    /\ writes' = [writes EXCEPT ![w] = "called"]
    /\ UNCHANGED <<stored, announced, reading, stream, gone, faults>>

\* RWMutex.Lock: one writer at a time waits for the readers there are, and
\* new ones wait for it.
Announce(w) ==
    /\ Storage = "memory"
    /\ writes[w] = "called"
    /\ announced = None
    /\ announced' = w
    /\ UNCHANGED <<stored, writes, reading, stream, gone, faults>>

\* Defect: no Unlock.
AppendLocked(w) ==
    /\ writes[w] = "called"
    /\ Storage = "memory" => announced = w /\ sharing = {}
    /\ stored' = stored \cup {w}
    /\ writes' = [writes EXCEPT ![w] = "saved"]
    /\ UNCHANGED <<announced, reading, stream, gone, faults>>

\* The entry is stored, and the lock let go.
AppendEntry(w) ==
    /\ writes[w] = "called"
    /\ Storage = "memory" => announced = w /\ sharing = {}
    /\ stored' = stored \cup {w}
    /\ writes' = [writes EXCEPT ![w] = "saved"]
    /\ announced' = None
    /\ UNCHANGED <<reading, stream, gone, faults>>

-----------------------------------------------------------------------------
(* The producer: the goroutine of GetEntries *)

\* The in-memory storage locks, copies and sorts what matches; MongoDB opens a
\* cursor.
Find(q) ==
    /\ producer[q] = "start"
    /\ CanShare /\ Succeeds(q)
    /\ pending' = [pending EXCEPT ![q] = Matching(q)]
    /\ sharing' = IF Storage = "memory" THEN sharing \cup {q} ELSE sharing
    /\ producer' = [producer EXCEPT ![q] = "next"]
    /\ UNCHANGED <<writing, reading, item, failed, gone, faults>>

\* The next entry is taken up; a cursor may also come upon an entry stored
\* after it was opened.
Take(q) ==
    /\ producer[q] = "next"
    /\ Succeeds(q)
    /\ \E e \in pending[q] \cup
               (IF Storage = "mongodb" THEN Matching(q) \ seen[q] ELSE {}) :
        /\ item' = [item EXCEPT ![q] = e]
        /\ pending' = [pending EXCEPT ![q] = @ \ {e}]
    /\ producer' = [producer EXCEPT ![q] = "send"]
    /\ UNCHANGED <<writing, reading, sharing, failed, gone, faults>>

\* Defect: the send does not watch the context.
AbandonNever(q) == FALSE /\ UNCHANGED vars

\* The in-memory producer stops sending when the context ends.
Abandon(q) ==
    /\ Storage = "memory"
    /\ producer[q] = "send"
    /\ Cancelled(q)
    /\ item' = [item EXCEPT ![q] = None]
    /\ producer' = [producer EXCEPT ![q] = "closing"]
    /\ UNCHANGED <<writing, reading, sharing, pending, failed, gone, faults>>

\* Defect: the error is sent, and the channels stay open.
FindOrNextFailsOpen(q) ==
    /\ producer[q] \in {"start", "next"}
    /\ Fails(q)
    /\ failed' = [failed EXCEPT ![q] = TRUE]
    /\ producer' = [producer EXCEPT ![q] = "lost"]
    /\ UNCHANGED <<writing, reading, sharing, pending, item, gone>>

\* Find, Next or Decode of MongoDB fails: the error goes to errChan.
FindOrNextFails(q) ==
    /\ producer[q] \in {"start", "next"}
    /\ Fails(q)
    /\ failed' = [failed EXCEPT ![q] = TRUE]
    /\ producer' = [producer EXCEPT ![q] = "closing"]
    /\ UNCHANGED <<writing, reading, sharing, pending, item, gone>>

\* Defect: an early return of the goroutine closes nothing.
CloseAtEnd(q) ==
    /\ producer[q] = "next" /\ pending[q] = {}
    /\ sharing' = sharing \ {q}
    /\ producer' = [producer EXCEPT ![q] = "ended"]
    /\ UNCHANGED <<writing, reading, pending, item, failed, gone, faults>>

\* The deferred calls: RUnlock, close(errChan), close(entryChan).
Close(q) ==
    /\ \/ producer[q] = "closing"
       \/ producer[q] = "next" /\ pending[q] = {}
    /\ sharing' = sharing \ {q}
    /\ producer' = [producer EXCEPT ![q] = "ended"]
    /\ UNCHANGED <<writing, reading, pending, item, failed, gone, faults>>

-----------------------------------------------------------------------------
(* The readers *)

\* The entry goes from the producer to its reader.
Receive(q) ==
    /\ reader[q] = "reading"
    /\ producer[q] = "send"
    /\ seen' = [seen EXCEPT ![q] = @ \cup {item[q]}]
    /\ item' = [item EXCEPT ![q] = None]
    /\ producer' = [producer EXCEPT ![q] = "next"]
    /\ UNCHANGED <<writing, reader, owed, sharing, pending, failed, gone, faults>>

Answer(q, a) ==
    /\ reader' = [reader EXCEPT ![q] = a]
    /\ UNCHANGED <<writing, seen, owed, stream, gone>>

\* GetEntries: two channels, a goroutine.
GetEntries(q) ==
    /\ reader' = [reader EXCEPT ![q] = "reading"]
    /\ producer' = [producer EXCEPT ![q] = "start"]
    /\ owed' = [owed EXCEPT ![q] = Asked(q)]
    /\ UNCHANGED <<writing, seen, sharing, pending, item, failed, gone>>

\* handleReplay holds a place of the semaphore until it returns.
Running == {q \in Replay : reader[q] = "reading"}
Full == MaxConcurrent > 0 /\ Cardinality(Running) >= MaxConcurrent

Refuse(q) ==
    /\ q \in Replay /\ reader[q] = "idle" /\ Full
    /\ Answer(q, "refused")
    /\ UNCHANGED faults

Begin(q) ==
    /\ q \notin Trends /\ reader[q] = "idle"
    /\ q \in Replay => ~Full
    /\ GetEntries(q)
    /\ UNCHANGED faults

\* RunReplay's select takes any case that is ready: the entries are at an end,
ReplayEnds(q) ==
    /\ q \in Replay /\ reader[q] = "reading"
    /\ producer[q] = "ended"
    /\ Answer(q, "ok")
    /\ UNCHANGED faults

\* ... or an error waits, or the client has gone.
ReplayFails(q) ==
    /\ q \in Replay /\ reader[q] = "reading"
    /\ failed[q] \/ q \in gone
    /\ Answer(q, "error")
    /\ UNCHANGED faults

CallTrends(q) ==
    /\ q \in Trends /\ reader[q] = "idle"
    /\ Answer(q, "stats")
    /\ UNCHANGED faults

GetAllStats(q) ==
    /\ reader[q] = "stats"
    /\ CanShare /\ Succeeds(q)
    /\ GetEntries(q)
    /\ UNCHANGED faults

\* MongoDB's does not look at the error that ends its cursor: what it has read
\* so far is taken for all.
GetAllStatsCutShort(q) ==
    /\ reader[q] = "stats"
    /\ Fails(q)
    /\ GetEntries(q)

GetAllStatsFails(q) ==
    /\ reader[q] = "stats"
    /\ Fails(q)
    /\ Answer(q, "error")

\* Defect: the error channel is not looked at.
DrainedBlindly(q) ==
    /\ q \in Dashboard /\ reader[q] = "reading"
    /\ producer[q] = "ended"
    /\ Answer(q, IF q \in Summary THEN "breaches" ELSE "ok")
    /\ UNCHANGED faults

\* The dashboard has drained the entries, and then looks for an error.
Drained(q) ==
    /\ q \in Dashboard /\ reader[q] = "reading"
    /\ producer[q] = "ended"
    /\ Answer(q, IF failed[q] THEN "error"
                 ELSE IF q \in Summary THEN "breaches" ELSE "ok")
    /\ UNCHANGED faults

GetBreaches(q) ==
    /\ reader[q] = "breaches"
    /\ CanShare /\ Succeeds(q)
    /\ Answer(q, "ok")
    /\ UNCHANGED faults

GetBreachesFails(q) ==
    /\ reader[q] = "breaches"
    /\ Fails(q)
    /\ Answer(q, "error")

\* The client goes.
Leave(q) ==
    /\ reader[q] \in AtWork
    /\ q \notin gone
    /\ gone' = gone \cup {q}
    /\ UNCHANGED <<writing, reading, stream, faults>>

-----------------------------------------------------------------------------
Save(w) == Announce(w) \/ AppendEntry(w)

Produce(q) == Find(q) \/ Take(q) \/ Abandon(q) \/ FindOrNextFails(q) \/ Close(q)

Read(q) ==
    \/ Receive(q) \/ ReplayEnds(q) \/ ReplayFails(q) \/ Drained(q)
    \/ GetAllStats(q) \/ GetAllStatsCutShort(q) \/ GetAllStatsFails(q)
    \/ GetBreaches(q) \/ GetBreachesFails(q)

Next ==
    \/ \E w \in Writer : CallSave(w) \/ Save(w)
    \/ \E q \in Request :
        \/ Refuse(q) \/ Begin(q) \/ CallTrends(q) \/ Leave(q)
        \/ Read(q)
        \/ Produce(q)

Spec == Init /\ [][Next]_vars

\* Goroutines that can move do, and calls return.
FairSpec ==
    /\ Spec
    /\ \A w \in Writer : WF_vars(Save(w))
    /\ \A q \in Request : WF_vars(Read(q)) /\ WF_vars(Produce(q))

-----------------------------------------------------------------------------
(* Properties *)

TypeOK ==
    /\ stored \in SUBSET Entry
    /\ writes \in [Writer -> {"idle", "called", "saved"}]
    /\ announced \in {None} \cup {w \in Writer : writes[w] = "called"}
    /\ sharing \subseteq Request
    /\ reader \in [Request -> {"idle"} \cup AtWork \cup Answered]
    /\ producer \in [Request -> {"none", "start", "next", "send", "closing", "ended"}]
    /\ pending \in [Request -> SUBSET Entry]
    /\ item \in [Request -> Entry \cup {None}]
    /\ \A q \in Request : producer[q] = "send" => item[q] \in Entry
    /\ failed \in [Request -> BOOLEAN]
    /\ seen \in [Request -> SUBSET Entry]
    /\ gone \subseteq Request
    /\ faults \in 0..MaxFaults
    /\ owed \in [Request -> SUBSET Entry]

\* An answer that is no error, and that a client is there to read, was made
\* from every entry its range held when the scan was asked for.
Complete(q) == reader[q] = "ok" /\ q \notin gone => owed[q] \subseteq seen[q]

\* The dashboard never shows part of the entries for all of them, even when
\* the scan fails half way. (handleSummary and its like: drain, then errChan.)
DashboardsAreComplete == \A q \in Dashboard : Complete(q)

\* docs/docs/api.md:150: "A replay scans every count in its window".
ReplaysAreComplete == \A q \in Replay : Complete(q)

\* Every handler returns: no stream leaves its reader waiting. (RunReplay, the
\* dashboard handlers, the deferred closes of GetEntries.)
RequestsAreAnswered == \A q \in Request : reader[q] \in AtWork ~> reader[q] \in Answered

\* A stream delays an ingest, but neither a reader that went away nor the
\* storage lock it held stops one for ever. (Save, InMemoryStorage.GetEntries.)
SavesFinish == \A w \in Writer : writes[w] = "called" ~> writes[w] = "saved"

\* A scan ends, whatever became of its reader. (InMemoryStorage.GetEntries.)
ScansEnd == \A q \in Request : producer[q] = "start" ~> producer[q] = "ended"

-----------------------------------------------------------------------------
(* What the repository says of the program, and the program does not keep *)

\* handleReplay: "a client that retries on timeout cannot stack work": the scan
\* of a replay that has been answered, and so has freed its place, ends.
WorkIsNotStacked ==
    \A q \in Replay :
        reader[q] \in {"ok", "error"} ~> producer[q] = "ended"
=============================================================================
