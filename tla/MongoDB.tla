------------------------------- MODULE MongoDB -------------------------------
(***************************************************************************)
(* Connect of internal/db/mongo.go, run by every instance as it starts,    *)
(* and the versioned writes of one series that rely on what it sets up.    *)
(*                                                                         *)
(* Connect pings, makes sure of the time-series collection and creates the *)
(* indexes one after the other, dropping and re-creating one that is there *)
(* with another setting.  A failure before the indexes ends the process;   *)
(* one at an index is a warning.                                           *)
(***************************************************************************)
EXTENDS Integers, FiniteSets, Sequences

CONSTANTS
    Instance,
    Count,       \* the counts of the series
    None,
    Names,       \* the indexes in the order setupIndexes creates them
    Retention,   \* [Instance -> Nat], PHIELD_METRICS_RETENTION_DAYS
    Deployed,    \* the indexes an earlier deployment may have left
    MaxFaults    \* bound: failed calls and ended processes

Absent == -1

Name == {Names[k] : k \in DOMAIN Names}

ASSUME MongoAssumption ==
    /\ None \notin Instance \cup Count
    /\ Names \in Seq(STRING) /\ Len(Names) > 0
    /\ \A j, k \in DOMAIN Names : Names[j] = Names[k] => j = k
    /\ "series_key" \in Name
    /\ Retention \in [Instance -> Nat]
    /\ \A x \in Deployed : x \in [Name -> Nat \cup {Absent}]
    \* What makes a series unique has never been defined otherwise.
    /\ \A x \in Deployed : x["series_key"] \in {Absent, 0}
    /\ MaxFaults \in Nat

\* The setting an instance gives an index; only the one that expires metrics
\* depends on the configuration.
Wanted(i, n) == IF n = "metric_timestamp" THEN Retention[i] ELSE 0

\* A document of pii_stats: its version, 0 if it was written before there were
\* any, and the counts that went into its baseline.
Document == [version : Nat, absorbed : SUBSET Count]

\* models.Stats{}, for a series without a document.
NoDocument == [version |-> 0, absorbed |-> {}]

VARIABLES
    collection,  \* whether pii_counts exists
    index,       \* [Name -> Nat \cup {Absent}]
    docs,        \* the documents of the series in pii_stats
    landed,      \* history: the counts whose write was performed
    phase,       \* [Instance -> the call Connect is at]
    at,          \* [Instance -> the position in Names]
    read,        \* [Instance -> what the holder of the series lock has read]
    faults

mongo == <<collection, index, docs, landed, phase, at, read, faults>>

\* Two documents of one series, from when there was no unique index; that it
\* came to this counts as a fault.
WasUnguarded ==
    /\ collection /\ index["series_key"] = Absent
    /\ docs = <<NoDocument, NoDocument>>
    /\ faults = 1 /\ MaxFaults > 0

MongoInit ==
    /\ index \in Deployed
    /\ collection = (\E n \in Name : index[n] # Absent)
    /\ \/ docs = <<>> /\ faults = 0
       \/ docs = <<NoDocument>> /\ faults = 0 /\ collection
       \/ WasUnguarded
    /\ landed = {}
    /\ phase = [i \in Instance |-> "down"]
    /\ at = [i \in Instance |-> 1]
    /\ read = [i \in Instance |-> None]

Fault == faults < MaxFaults /\ faults' = faults + 1

-----------------------------------------------------------------------------
(* Connect *)

Goto(i, p) == phase' = [phase EXCEPT ![i] = p]

Start(i) ==
    /\ phase[i] = "down"
    /\ Goto(i, "ping")
    /\ at' = [at EXCEPT ![i] = 1]
    /\ UNCHANGED <<collection, index, docs, landed, read, faults>>

Ping(i) ==
    /\ phase[i] = "ping"
    /\ Goto(i, "list")
    /\ UNCHANGED <<collection, index, docs, landed, at, read, faults>>

\* setupTimeSeries.
ListCollections(i) ==
    /\ phase[i] = "list"
    /\ Goto(i, IF collection THEN "index" ELSE "create")
    /\ UNCHANGED <<collection, index, docs, landed, at, read, faults>>

CreateCollection(i) ==
    /\ phase[i] = "create" /\ ~collection
    /\ collection' = TRUE
    /\ Goto(i, "index")
    /\ UNCHANGED <<index, docs, landed, at, read, faults>>

\* Another instance was first. A server answers with an error, which ends this
\* process, or, if the options are the same, with success.
CollectionExists(i) ==
    /\ phase[i] = "create" /\ collection
    /\ Goto(i, "down") \/ Goto(i, "index")
    /\ UNCHANGED <<collection, index, docs, landed, at, read, faults>>

\* log.Fatalf of main; the collection may have been created all the same.
ConnectFails(i) ==
    /\ phase[i] \in {"ping", "list", "create"}
    /\ Fault
    /\ Goto(i, "down")
    /\ \/ UNCHANGED collection
       \/ phase[i] = "create" /\ collection' = TRUE
    /\ UNCHANGED <<index, docs, landed, at, read>>

\* The index createIndex is called for.
Current(i) == Names[at[i]]

\* The next one; or Connect returns, whatever became of them.
Advance(i) ==
    IF at[i] < Len(Names)
    THEN Goto(i, "index") /\ at' = [at EXCEPT ![i] = @ + 1]
    ELSE Goto(i, "up") /\ UNCHANGED at

\* A unique index cannot be built over duplicates.
Buildable(n) == n = "series_key" => Len(docs) <= 1

\* CreateOne succeeds: it builds the index, or finds it as it wants it.
Creates(i) ==
    \/ index[Current(i)] = Absent /\ Buildable(Current(i))
    \/ index[Current(i)] = Wanted(i, Current(i))

Conflicts(i) == index[Current(i)] \notin {Absent, Wanted(i, Current(i))}

Built(i) == [index EXCEPT ![Current(i)] = Wanted(i, Current(i))]

CreateIndex(i) ==
    /\ phase[i] = "index" /\ Creates(i)
    /\ index' = Built(i)
    /\ Advance(i)
    /\ UNCHANGED <<collection, docs, landed, read, faults>>

\* Defect: an index that is there is left as it is.
ConflictIgnored(i) ==
    /\ phase[i] = "index" /\ Conflicts(i)
    /\ Advance(i)
    /\ UNCHANGED <<collection, index, docs, landed, read, faults>>

Conflict(i) ==
    /\ phase[i] = "index" /\ Conflicts(i)
    /\ Goto(i, "drop")
    /\ UNCHANGED <<collection, index, docs, landed, at, read, faults>>

\* Any other error of CreateOne is returned.
CannotBuild(i) ==
    /\ phase[i] = "index" /\ ~Creates(i) /\ ~Conflicts(i)
    /\ Advance(i)
    /\ UNCHANGED <<collection, index, docs, landed, read, faults>>

DropIndex(i) ==
    /\ phase[i] = "drop" /\ index[Current(i)] # Absent
    /\ index' = [index EXCEPT ![Current(i)] = Absent]
    /\ Goto(i, "rebuild")
    /\ UNCHANGED <<collection, docs, landed, at, read, faults>>

\* Another instance dropped it: DropOne fails, and createIndex with it.
DropFindsNone(i) ==
    /\ phase[i] = "drop" /\ index[Current(i)] = Absent
    /\ Advance(i)
    /\ UNCHANGED <<collection, index, docs, landed, read, faults>>

\* The second CreateOne; if another instance was faster with a setting of its
\* own, this one gives way.
Rebuild(i) ==
    /\ phase[i] = "rebuild"
    /\ index' = IF Creates(i) THEN Built(i) ELSE index
    /\ Advance(i)
    /\ UNCHANGED <<collection, docs, landed, read, faults>>

\* What a call may have done on the server although it failed.
PerformedAllTheSame(i) ==
    \/ UNCHANGED index
    \/ phase[i] \in {"index", "rebuild"} /\ Creates(i) /\ index' = Built(i)
    \/ phase[i] = "drop" /\ index' = [index EXCEPT ![Current(i)] = Absent]

IndexFails(i) ==
    /\ phase[i] \in {"index", "drop", "rebuild"}
    /\ Fault
    /\ PerformedAllTheSame(i)
    /\ Advance(i)
    /\ UNCHANGED <<collection, docs, landed, read>>

\* The ten seconds of Connect are over: this call and all that follow fail.
Expire(i) ==
    /\ phase[i] \in {"index", "drop", "rebuild"}
    /\ Fault
    /\ PerformedAllTheSame(i)
    /\ Goto(i, "up")
    /\ UNCHANGED <<collection, docs, landed, at, read>>

\* The process ends, by itself or not.
Down(i) ==
    /\ Goto(i, "down")
    /\ read' = [read EXCEPT ![i] = None]
    /\ UNCHANGED <<collection, index, docs, landed, at>>

Exit(i) == phase[i] = "up" /\ Down(i) /\ UNCHANGED faults
Die(i) == phase[i] # "down" /\ Fault /\ Down(i)

-----------------------------------------------------------------------------
(* GetStats and SaveStats for one series, whose lock lets one request of an *)
(* instance through                                                         *)

\* FindOne, of several documents any.
GetStats(i, c) ==
    /\ phase[i] = "up" /\ read[i] = None
    /\ c \notin landed
    /\ \E d \in IF docs = <<>> THEN {NoDocument} ELSE {docs[k] : k \in DOMAIN docs} :
          read' = [read EXCEPT ![i] = [count |-> c, version |-> d.version,
                                       absorbed |-> d.absorbed]]
    /\ UNCHANGED <<collection, index, docs, landed, phase, at, faults>>

\* The documents the filter of SaveStats matches; 0 stands for no version too.
Matching(r) == {k \in DOMAIN docs : docs[k].version = r.version}

\* Defect: no unique index is in the way.
CanInsertBlindly(r) == Matching(r) = {} /\ r.version = 0

\* The upsert of a first write: nothing matches, and the unique index, if there
\* is one, knows no document of the series.
CanInsert(r) ==
    /\ Matching(r) = {} /\ r.version = 0
    /\ index["series_key"] # Absent => docs = <<>>

\* UpdateOne of the baseline read and the count.
Perform(r) ==
    LET new == [version |-> r.version + 1, absorbed |-> r.absorbed \cup {r.count}]
    IN  /\ \/ \E k \in Matching(r) : docs' = [docs EXCEPT ![k] = new]
           \/ CanInsert(r) /\ docs' = Append(docs, new)
        /\ landed' = landed \cup {r.count}

SaveStats(i) ==
    /\ phase[i] = "up" /\ read[i] # None
    /\ Perform(read[i])
    /\ read' = [read EXCEPT ![i] = None]
    /\ UNCHANGED <<collection, index, phase, at, faults>>

\* ErrStatsConflict: the caller reads again.
StatsConflict(i) ==
    /\ phase[i] = "up" /\ read[i] # None
    /\ Matching(read[i]) = {} /\ ~CanInsert(read[i])
    /\ read' = [read EXCEPT ![i] = None]
    /\ UNCHANGED <<collection, index, docs, landed, phase, at, faults>>

\* An error of GetStats or SaveStats; the write may have been performed.
StatsFail(i) ==
    /\ phase[i] = "up"
    /\ Fault
    /\ \/ UNCHANGED <<docs, landed>>
       \/ read[i] # None /\ Perform(read[i])
    /\ read' = [read EXCEPT ![i] = None]
    /\ UNCHANGED <<collection, index, phase, at>>

-----------------------------------------------------------------------------

\* A failure of something else than the database counts as well.
OtherFault ==
    /\ Fault
    /\ UNCHANGED <<collection, index, docs, landed, phase, at, read>>

Setup(i) ==
    \/ Start(i) \/ Ping(i) \/ ListCollections(i)
    \/ CreateCollection(i) \/ CollectionExists(i) \/ ConnectFails(i)
    \/ CreateIndex(i) \/ Conflict(i) \/ CannotBuild(i)
    \/ DropIndex(i) \/ DropFindsNone(i) \/ Rebuild(i)
    \/ IndexFails(i) \/ Expire(i)

MongoNext ==
    \/ \E i \in Instance :
        \/ Setup(i) \/ Exit(i) \/ Die(i)
        \/ \E c \in Count : GetStats(i, c)
        \/ SaveStats(i) \/ StatsConflict(i) \/ StatsFail(i)
    \/ OtherFault

MongoSpec == MongoInit /\ [][MongoNext]_mongo

-----------------------------------------------------------------------------
(* Properties *)

Phases == {"down", "ping", "list", "create", "index", "drop", "rebuild", "up"}
Read == [count : Count, version : Nat, absorbed : SUBSET Count]

MongoTypeOK ==
    /\ collection \in BOOLEAN
    /\ index \in [Name -> Nat \cup {Absent}]
    /\ docs \in Seq(Document)
    /\ landed \subseteq Count
    /\ phase \in [Instance -> Phases]
    /\ at \in [Instance -> DOMAIN Names]
    /\ read \in [Instance -> Read \cup {None}]
    /\ faults \in 0..MaxFaults

Rebuilding(n) == \E i \in Instance : phase[i] = "rebuild" /\ Current(i) = n

\* An instance that has started has the collection; and unless something
\* failed, every index is there with the setting of one of the instances, or
\* just being rebuilt, however many instances with different settings replace
\* it at once. (Connect, setupIndexes, createIndex.)
StartedMeansIndexed ==
    (\E i \in Instance : phase[i] = "up") =>
        /\ collection
        /\ faults = 0 => \A n \in Name :
              \/ \E i \in Instance : index[n] = Wanted(i, n)
              \/ index[n] = Absent /\ Rebuilding(n)

\* Unless something failed, a series has one document, and it holds exactly
\* the counts whose writes succeeded, first writes that race with one another
\* and with a document from before versions among them. (SaveStats, series_key.)
LandedCountsAreKept ==
    faults = 0 =>
        /\ Len(docs) <= 1
        /\ \A k \in DOMAIN docs : docs[k].absorbed = landed
        /\ docs = <<>> => landed = {}
=============================================================================
