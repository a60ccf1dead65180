---------------------------- MODULE Service_proofs ----------------------------
(***************************************************************************)
(* Proofs about MongoDB and Service, for any instances, indexes, settings, *)
(* counts, topic, notifiers, bounds and faults.  Of MongoDB: what start-up *)
(* leaves of the indexes, and what the versioned writes make of a series   *)
(* thanks to them.  Of Service: that it uses MongoDB as that module says,  *)
(* so that what was proved of it holds here; that a message is processed   *)
(* once at most unless a commit has strayed into a later generation; and   *)
(* what failures, shutdowns and counts that are given up may cost.         *)
(***************************************************************************)
EXTENDS Service, SequenceTheorems, FiniteSetTheorems, TLAPS

-----------------------------------------------------------------------------
(* MongoDB *)

\* Advance stays within the list, whether or not this was its last index.
LEMMA AdvanceType ==
    ASSUME MongoTypeOK, NEW i \in Instance, Advance(i)
    PROVE  /\ phase' \in [Instance -> Phases]
           /\ at' \in [Instance -> DOMAIN Names]
           /\ phase'[i] \in {"index", "up"}
           /\ \A k \in Instance \ {i} : phase'[k] = phase[k] /\ at'[k] = at[k]
<1>1. Len(Names) \in Nat /\ DOMAIN Names = 1..Len(Names)
  BY MongoAssumption
<1>2. at[i] \in 1..Len(Names)
  BY <1>1 DEF MongoTypeOK
<1>3. CASE at[i] < Len(Names)
  <2>1. at[i] + 1 \in 1..Len(Names)
    BY <1>1, <1>2, <1>3
  <2>2. phase' = [phase EXCEPT ![i] = "index"] /\ at' = [at EXCEPT ![i] = at[i] + 1]
    BY <1>3 DEF Advance, Goto
  <2>3. QED
    BY <2>1, <2>2, <1>1 DEF MongoTypeOK, Phases
<1>4. CASE ~(at[i] < Len(Names))
  <2>1. phase' = [phase EXCEPT ![i] = "up"] /\ at' = at
    BY <1>4 DEF Advance, Goto
  <2>2. QED
    BY <2>1 DEF MongoTypeOK, Phases
<1>5. QED
  BY <1>3, <1>4

\* The index an instance is at is one of the list.
LEMMA CurrentIsName ==
    ASSUME MongoTypeOK, NEW i \in Instance
    PROVE  Current(i) \in Name /\ Wanted(i, Current(i)) \in Nat
<1>1. at[i] \in DOMAIN Names
  BY DEF MongoTypeOK
<1>2. Retention[i] \in Nat
  BY MongoAssumption
<1>3. QED
  BY <1>1, <1>2 DEF Current, Name, Wanted

\* What a performed write leaves.
LEMMA PerformType ==
    ASSUME MongoTypeOK, NEW r \in Read, Perform(r)
    PROVE  docs' \in Seq(Document) /\ landed' \subseteq Count
<1> DEFINE new == [version |-> r.version + 1, absorbed |-> r.absorbed \cup {r.count}]
<1>1. new \in Document
  BY DEF Read, Document
<1>2. docs \in Seq(Document) /\ landed \subseteq Count /\ r.count \in Count
  BY DEF MongoTypeOK, Read
<1>3. landed' \subseteq Count
  BY <1>2 DEF Perform
<1>4. ASSUME NEW k \in Matching(r), docs' = [docs EXCEPT ![k] = new]
      PROVE  docs' \in Seq(Document)
  <2>1. k \in 1..Len(docs)
    BY <1>2, LenProperties DEF Matching
  <2>2. [docs EXCEPT ![k] = new] \in Seq(Document)
    BY <1>1, <1>2, <2>1, ExceptSeq
  <2>3. QED
    BY <1>4, <2>2
<1>5. CASE docs' = Append(docs, new)
  <2>1. Append(docs, new) \in Seq(Document)
    BY <1>1, <1>2, AppendProperties
  <2>2. QED
    BY <1>3, <1>5, <2>1
<1>6. \/ \E k \in Matching(r) : docs' = [docs EXCEPT ![k] = new]
      \/ docs' = Append(docs, new)
  BY DEF Perform
<1>7. CASE \E k \in Matching(r) : docs' = [docs EXCEPT ![k] = new]
  <2>1. PICK k \in Matching(r) : docs' = [docs EXCEPT ![k] = new]
    BY <1>7
  <2>2. docs' \in Seq(Document)
    BY <1>4, <2>1
  <2>3. QED
    BY <1>3, <2>2
<1>8. QED
  BY <1>3, <1>5, <1>6, <1>7

\* The counter of faults keeps its bound, and a fault shows in it.
LEMMA FaultType ==
    ASSUME MongoTypeOK, Fault
    PROVE  faults' \in 0..MaxFaults /\ faults' # 0
BY MongoAssumption DEF MongoTypeOK, Fault

\* Whatever instances start, fail, stop and write, the state stays well-formed.
THEOREM MongoTypeCorrect == MongoSpec => []MongoTypeOK
<1>1. MongoInit => MongoTypeOK
  <2> SUFFICES ASSUME MongoInit
               PROVE  MongoTypeOK
    OBVIOUS
  <2>1. index \in [Name -> Nat \cup {Absent}]
    BY MongoAssumption DEF MongoInit
  <2>2. NoDocument \in Document
    BY DEF NoDocument, Document
  <2>3. docs \in Seq(Document)
    <3>1. <<>> \in Seq(Document) /\ <<NoDocument>> \in Seq(Document)
      BY <2>2
    <3>2. <<NoDocument, NoDocument>> \in Seq(Document)
      BY <2>2
    <3>3. QED
      BY <3>1, <3>2 DEF MongoInit, WasUnguarded
  <2>6. faults \in 0..MaxFaults
    BY MongoAssumption DEF MongoInit, WasUnguarded
  <2>4. at \in [Instance -> DOMAIN Names]
    BY MongoAssumption DEF MongoInit
  <2>7. QED
    BY <2>1, <2>3, <2>4, <2>6 DEF MongoInit, MongoTypeOK, Phases
<1>2. MongoTypeOK /\ [MongoNext]_mongo => MongoTypeOK'
  <2> SUFFICES ASSUME MongoTypeOK, [MongoNext]_mongo
               PROVE  MongoTypeOK'
    OBVIOUS
  <2>1. ASSUME NEW i \in Instance, Start(i)
        PROVE  MongoTypeOK'
    <3>1. 1 \in DOMAIN Names
      BY MongoAssumption
    <3>2. QED
      BY <2>1, <3>1 DEF Start, Goto, MongoTypeOK, Phases
  <2>2. ASSUME NEW i \in Instance,
               Ping(i) \/ ListCollections(i) \/ CreateCollection(i)
                 \/ CollectionExists(i) \/ Conflict(i)
        PROVE  MongoTypeOK'
    BY <2>2 DEF Ping, ListCollections, CreateCollection, CollectionExists, Conflict,
                Goto, MongoTypeOK, Phases
  <2>3. ASSUME NEW i \in Instance, ConnectFails(i)
        PROVE  MongoTypeOK'
    <3>1. faults' \in 0..MaxFaults
      BY <2>3, FaultType DEF ConnectFails
    <3>2. QED
      BY <2>3, <3>1 DEF ConnectFails, Goto, MongoTypeOK, Phases
  <2>4. ASSUME NEW i \in Instance, CreateIndex(i) \/ Rebuild(i) \/ CannotBuild(i) \/ DropFindsNone(i)
        PROVE  MongoTypeOK'
    <3>1. phase' \in [Instance -> Phases] /\ at' \in [Instance -> DOMAIN Names]
      BY <2>4, AdvanceType DEF CreateIndex, Rebuild, CannotBuild, DropFindsNone
    <3>2. index' \in [Name -> Nat \cup {Absent}]
      BY <2>4, CurrentIsName
         DEF CreateIndex, Rebuild, CannotBuild, DropFindsNone, Built, MongoTypeOK
    <3>3. UNCHANGED <<collection, docs, landed, read, faults>>
      BY <2>4 DEF CreateIndex, Rebuild, CannotBuild, DropFindsNone
    <3>4. QED
      BY <3>1, <3>2, <3>3 DEF MongoTypeOK
  <2>5. ASSUME NEW i \in Instance, DropIndex(i)
        PROVE  MongoTypeOK'
    BY <2>5 DEF DropIndex, Goto, MongoTypeOK, Phases
  <2>6. ASSUME NEW i \in Instance, IndexFails(i) \/ Expire(i)
        PROVE  MongoTypeOK'
    <3>1. phase' \in [Instance -> Phases] /\ at' \in [Instance -> DOMAIN Names]
      BY <2>6, AdvanceType DEF IndexFails, Expire, Goto, MongoTypeOK, Phases
    <3>2. PerformedAllTheSame(i) /\ Fault
      BY <2>6 DEF IndexFails, Expire
    <3>3. index' \in [Name -> Nat \cup {Absent}]
      BY <3>2, CurrentIsName DEF PerformedAllTheSame, Built, MongoTypeOK
    <3>4. faults' \in 0..MaxFaults
      BY <3>2, FaultType
    <3>5. UNCHANGED <<collection, docs, landed, read>>
      BY <2>6 DEF IndexFails, Expire
    <3>6. QED
      BY <3>1, <3>3, <3>4, <3>5 DEF MongoTypeOK
  <2>7. ASSUME NEW i \in Instance, Exit(i) \/ Die(i)
        PROVE  MongoTypeOK'
    <3>1. faults' \in 0..MaxFaults
      BY <2>7, FaultType DEF Exit, Die, MongoTypeOK
    <3>2. Down(i)
      BY <2>7 DEF Exit, Die
    <3>3. QED
      BY <3>1, <3>2 DEF Down, Goto, MongoTypeOK, Phases
  <2>8. ASSUME NEW i \in Instance, NEW c \in Count, GetStats(i, c)
        PROVE  MongoTypeOK'
    <3>1. PICK d \in Document :
             read' = [read EXCEPT ![i] = [count |-> c, version |-> d.version,
                                          absorbed |-> d.absorbed]]
      <4>1. NoDocument \in Document
        BY DEF NoDocument, Document
      <4>2. \A k \in DOMAIN docs : docs[k] \in Document
        BY DEF MongoTypeOK
      <4>3. QED
        BY <2>8, <4>1, <4>2 DEF GetStats
    <3>2. [count |-> c, version |-> d.version, absorbed |-> d.absorbed] \in Read
      BY DEF Read, Document
    <3>3. UNCHANGED <<collection, index, docs, landed, phase, at, faults>>
      BY <2>8 DEF GetStats
    <3>4. QED
      BY <3>1, <3>2, <3>3 DEF MongoTypeOK
  <2>9. ASSUME NEW i \in Instance, SaveStats(i) \/ StatsConflict(i) \/ StatsFail(i)
        PROVE  MongoTypeOK'
    <3>1. read[i] # None => read[i] \in Read
      BY DEF MongoTypeOK
    <3>2. docs' \in Seq(Document) /\ landed' \subseteq Count
      <4>1. \/ UNCHANGED <<docs, landed>>
            \/ read[i] # None /\ Perform(read[i])
        BY <2>9 DEF SaveStats, StatsConflict, StatsFail
      <4>2. QED
        BY <4>1, <3>1, PerformType DEF MongoTypeOK
    <3>3. faults' \in 0..MaxFaults
      BY <2>9, FaultType DEF SaveStats, StatsConflict, StatsFail, MongoTypeOK
    <3>4. /\ read' = [read EXCEPT ![i] = None]
          /\ UNCHANGED <<collection, index, phase, at>>
      BY <2>9 DEF SaveStats, StatsConflict, StatsFail
    <3>5. QED
      BY <3>2, <3>3, <3>4 DEF MongoTypeOK
  <2>10. CASE UNCHANGED mongo
    BY <2>10 DEF mongo, MongoTypeOK
  <2>11. CASE OtherFault
    BY <2>11, FaultType DEF OtherFault, MongoTypeOK
  <2>12. QED
    BY <2>1, <2>2, <2>3, <2>4, <2>5, <2>6, <2>7, <2>8, <2>9, <2>10, <2>11
       DEF MongoNext, Setup
<1>3. QED
  BY <1>1, <1>2, PTL DEF MongoSpec

-----------------------------------------------------------------------------
(* The indexes *)

Settling == {"index", "drop", "rebuild"}

\* setupIndexes has no further call for n.
Past(i, n) ==
    \/ phase[i] = "up"
    \/ phase[i] \in Settling /\ \E k \in DOMAIN Names : k < at[i] /\ Names[k] = n

IsAt(i, p, n) == phase[i] = p /\ Current(i) = n

\* The list is begun at its beginning, with the collection there; statistics
\* are read by what has started.
ReadyInv ==
    \A i \in Instance :
        /\ phase[i] \in {"ping", "list", "create"} => at[i] = 1
        /\ phase[i] \in Settling \cup {"up"} => collection
        /\ read[i] # None => phase[i] = "up"

\* The index of the series never conflicts, so it is never dropped.
SeriesInv ==
    /\ index["series_key"] \in {Absent, 0}
    /\ \A i \in Instance : phase[i] \in {"drop", "rebuild"} => Current(i) # "series_key"

Settled(n) == index[n] = Absent \/ \E k \in Instance : index[n] = Wanted(k, n)

\* An index some instance is done with, or at work to replace, is absent only
\* while somebody rebuilds it.
IndexInv ==
    faults = 0 => \A n \in Name : \A i \in Instance :
        /\ Past(i, n) \/ IsAt(i, "rebuild", n) => Settled(n)
        /\ /\ Past(i, n) \/ IsAt(i, "drop", n) \/ IsAt(i, "rebuild", n)
           /\ index[n] = Absent
           => Rebuilding(n)

\* Advance is done with the current index and with no other.
LEMMA AdvancePast ==
    ASSUME MongoTypeOK, NEW i \in Instance, phase[i] \in Settling, Advance(i), NEW n \in Name
    PROVE  /\ Past(i, n)' <=> Past(i, n) \/ n = Current(i)
           /\ ~IsAt(i, "drop", n)' /\ ~IsAt(i, "rebuild", n)'
           /\ \A k \in Instance \ {i} :
                 /\ Past(k, n)' <=> Past(k, n)
                 /\ \A p \in Phases : IsAt(k, p, n)' <=> IsAt(k, p, n)
<1>1. Len(Names) \in Nat /\ DOMAIN Names = 1..Len(Names)
  BY MongoAssumption
<1>2. at[i] \in 1..Len(Names)
  BY <1>1 DEF MongoTypeOK
<1>3. PICK m \in DOMAIN Names : n = Names[m]
  BY DEF Name
<1>4. /\ phase'[i] \in {"index", "up"}
      /\ \A k \in Instance \ {i} : phase'[k] = phase[k] /\ at'[k] = at[k]
  BY AdvanceType
<1>5. phase[i] # "up"
  BY DEF Settling
<1>6. Past(i, n)' <=> Past(i, n) \/ n = Current(i)
  <2>1. CASE at[i] < Len(Names)
    <3>1. phase'[i] = "index" /\ at'[i] = at[i] + 1
      BY <2>1 DEF Advance, Goto, MongoTypeOK
    <3>2. \A k \in DOMAIN Names : k < at[i] + 1 <=> (k < at[i] \/ k = at[i])
      BY <1>1, <1>2
    <3>3. QED
      BY <3>1, <3>2, <1>1, <1>2, <1>5 DEF Past, Current, Settling
  <2>2. CASE ~(at[i] < Len(Names))
    <3>1. phase'[i] = "up"
      BY <2>2 DEF Advance, Goto, MongoTypeOK
    <3>2. m < at[i] \/ m = at[i]
      BY <1>1, <1>2, <1>3, <2>2
    <3>3. QED
      BY <3>1, <3>2, <1>3, <1>5 DEF Past, Current
  <2>3. QED
    BY <2>1, <2>2
<1>7. ~IsAt(i, "drop", n)' /\ ~IsAt(i, "rebuild", n)'
  BY <1>4 DEF IsAt
<1>8. ASSUME NEW k \in Instance \ {i}
      PROVE  /\ Past(k, n)' <=> Past(k, n)
             /\ \A p \in Phases : IsAt(k, p, n)' <=> IsAt(k, p, n)
  <2>1. phase'[k] = phase[k] /\ at'[k] = at[k]
    BY <1>4
  <2>2. QED
    BY <2>1 DEF Past, IsAt, Current
<1>9. QED
  BY <1>6, <1>7, <1>8

\* ReadyInv is inductive: what Connect does it does in its order.
LEMMA Ready == MongoSpec => [](MongoTypeOK /\ ReadyInv)
<1>1. MongoInit => ReadyInv
  BY DEF MongoInit, ReadyInv, Settling
<1>2. MongoTypeOK /\ ReadyInv /\ [MongoNext]_mongo => ReadyInv'
  <2> SUFFICES ASSUME MongoTypeOK, ReadyInv, [MongoNext]_mongo
               PROVE  ReadyInv'
    OBVIOUS
  <2> USE DEF ReadyInv, Settling
  <2>1. ASSUME NEW i \in Instance,
               Start(i) \/ Ping(i) \/ ListCollections(i) \/ CreateCollection(i)
                 \/ CollectionExists(i) \/ ConnectFails(i) \/ Conflict(i) \/ DropIndex(i)
        PROVE  ReadyInv'
    BY <2>1 DEF Start, Ping, ListCollections, CreateCollection, CollectionExists,
                ConnectFails, Conflict, DropIndex, Goto, MongoTypeOK
  <2>2. ASSUME NEW i \in Instance,
               CreateIndex(i) \/ Rebuild(i) \/ CannotBuild(i) \/ DropFindsNone(i)
                 \/ IndexFails(i)
        PROVE  ReadyInv'
    <3>1. phase[i] \in Settling /\ Advance(i) /\ UNCHANGED <<collection, read>>
      BY <2>2 DEF CreateIndex, Rebuild, CannotBuild, DropFindsNone, IndexFails
    <3>2. /\ phase'[i] \in {"index", "up"}
          /\ \A k \in Instance \ {i} : phase'[k] = phase[k] /\ at'[k] = at[k]
      BY <3>1, AdvanceType
    <3>3. QED
      BY <3>1, <3>2
  <2>3. ASSUME NEW i \in Instance, Expire(i)
        PROVE  ReadyInv'
    BY <2>3 DEF Expire, Goto, MongoTypeOK
  <2>4. ASSUME NEW i \in Instance, Exit(i) \/ Die(i)
        PROVE  ReadyInv'
    BY <2>4 DEF Exit, Die, Down, Goto, MongoTypeOK
  <2>5. ASSUME NEW i \in Instance, NEW c \in Count, GetStats(i, c)
        PROVE  ReadyInv'
    BY <2>5 DEF GetStats, MongoTypeOK
  <2>6. ASSUME NEW i \in Instance, SaveStats(i) \/ StatsConflict(i) \/ StatsFail(i)
        PROVE  ReadyInv'
    <3>1. UNCHANGED <<collection, phase, at>> /\ read' = [read EXCEPT ![i] = None]
      BY <2>6 DEF SaveStats, StatsConflict, StatsFail
    <3>2. QED
      BY <3>1 DEF MongoTypeOK
  <2>7. CASE UNCHANGED mongo \/ OtherFault
    BY <2>7 DEF mongo, OtherFault
  <2>8. QED
    BY <2>1, <2>2, <2>3, <2>4, <2>5, <2>6, <2>7 DEF MongoNext, Setup
<1>3. QED
  BY <1>1, <1>2, MongoTypeCorrect, PTL DEF MongoSpec

\* The unique index of a series, once it is there, stays.
LEMMA SeriesIndex == MongoSpec => []SeriesInv
<1>1. MongoInit => SeriesInv
  BY MongoAssumption DEF MongoInit, SeriesInv
<1>2. MongoTypeOK /\ SeriesInv /\ [MongoNext]_mongo
         => /\ SeriesInv'
            /\ index["series_key"] # Absent => index'["series_key"] # Absent
  <2> SUFFICES ASSUME MongoTypeOK, SeriesInv, [MongoNext]_mongo
               PROVE  /\ SeriesInv'
                      /\ index["series_key"] # Absent => index'["series_key"] # Absent
    OBVIOUS
  <2>w. \A i \in Instance : Wanted(i, "series_key") = 0
    BY DEF Wanted
  <2>n. "series_key" \in Name /\ index \in [Name -> Nat \cup {Absent}]
    BY MongoAssumption DEF MongoTypeOK
  <2>b. ASSUME NEW i \in Instance, index' = Built(i)
        PROVE  index'["series_key"] \in {0, index["series_key"]}
    BY <2>b, <2>w, <2>n, CurrentIsName DEF Built
  <2>a. ASSUME NEW i \in Instance, Advance(i), index'["series_key"] \in {0, index["series_key"]}
        PROVE  /\ SeriesInv'
               /\ index["series_key"] # Absent => index'["series_key"] # Absent
    <3>1. /\ phase'[i] \in {"index", "up"}
          /\ \A k \in Instance \ {i} : phase'[k] = phase[k] /\ at'[k] = at[k]
      BY <2>a, AdvanceType
    <3>2. QED
      BY <2>a, <3>1 DEF SeriesInv, Current, Absent
  <2>1. ASSUME NEW i \in Instance,
               Start(i) \/ Ping(i) \/ ListCollections(i) \/ CreateCollection(i)
                 \/ CollectionExists(i) \/ ConnectFails(i) \/ Exit(i) \/ Die(i)
        PROVE  SeriesInv' /\ UNCHANGED index
    BY <2>1 DEF Start, Ping, ListCollections, CreateCollection, CollectionExists,
                ConnectFails, Exit, Die, Down, Goto, MongoTypeOK, SeriesInv, Current
  <2>2. ASSUME NEW i \in Instance, Conflict(i)
        PROVE  SeriesInv' /\ UNCHANGED index
    <3>1. Current(i) # "series_key"
      BY <2>2, <2>w DEF Conflict, Conflicts, SeriesInv
    <3>2. QED
      BY <2>2, <3>1 DEF Conflict, Goto, MongoTypeOK, SeriesInv, Current
  <2>3. ASSUME NEW i \in Instance, CreateIndex(i) \/ Rebuild(i) \/ CannotBuild(i) \/ DropFindsNone(i)
        PROVE  /\ SeriesInv'
               /\ index["series_key"] # Absent => index'["series_key"] # Absent
    <3>1. Advance(i) /\ (index' = Built(i) \/ index' = index)
      BY <2>3 DEF CreateIndex, Rebuild, CannotBuild, DropFindsNone
    <3>2. QED
      BY <3>1, <2>a, <2>b
  <2>4. ASSUME NEW i \in Instance, DropIndex(i)
        PROVE  SeriesInv' /\ index'["series_key"] = index["series_key"]
    <3>1. Current(i) # "series_key"
      BY <2>4 DEF DropIndex, SeriesInv
    <3>2. QED
      BY <2>4, <3>1, <2>n DEF DropIndex, Goto, MongoTypeOK, SeriesInv, Current
  <2>5. ASSUME NEW i \in Instance, PerformedAllTheSame(i)
        PROVE  index'["series_key"] \in {0, index["series_key"]}
    <3>1. CASE index' = Built(i) \/ UNCHANGED index
      BY <3>1, <2>b
    <3>2. CASE phase[i] = "drop" /\ index' = [index EXCEPT ![Current(i)] = Absent]
      <4>1. Current(i) # "series_key"
        BY <3>2 DEF SeriesInv
      <4>2. QED
        BY <4>1, <3>2, <2>n
    <3>3. QED
      BY <2>5, <3>1, <3>2 DEF PerformedAllTheSame
  <2>6. ASSUME NEW i \in Instance, IndexFails(i)
        PROVE  /\ SeriesInv'
               /\ index["series_key"] # Absent => index'["series_key"] # Absent
    BY <2>6, <2>5, <2>a DEF IndexFails
  <2>7. ASSUME NEW i \in Instance, Expire(i)
        PROVE  /\ SeriesInv'
               /\ index["series_key"] # Absent => index'["series_key"] # Absent
    <3>1. index'["series_key"] \in {0, index["series_key"]}
      BY <2>7, <2>5 DEF Expire
    <3>2. phase' = [phase EXCEPT ![i] = "up"] /\ at' = at
      BY <2>7 DEF Expire, Goto
    <3>3. QED
      BY <3>1, <3>2 DEF MongoTypeOK, SeriesInv, Current, Absent
  <2>8. ASSUME NEW i \in Instance,
               \/ \E c \in Count : GetStats(i, c)
               \/ SaveStats(i) \/ StatsConflict(i) \/ StatsFail(i)
        PROVE  SeriesInv' /\ UNCHANGED index
    <3>1. UNCHANGED <<index, phase, at>>
      BY <2>8 DEF GetStats, SaveStats, StatsConflict, StatsFail
    <3>2. QED
      BY <3>1 DEF SeriesInv, Current
  <2>9. CASE UNCHANGED mongo \/ OtherFault
    BY <2>9 DEF mongo, OtherFault, SeriesInv, Current
  <2>10. QED
    BY <2>1, <2>2, <2>3, <2>4, <2>6, <2>7, <2>8, <2>9 DEF MongoNext, Setup
<1>3. QED
  BY <1>1, <1>2, MongoTypeCorrect, PTL DEF MongoSpec

\* A step at an index that is no fault keeps IndexInv, as long as a series has
\* one document and the index of the series can be built.
LEMMA IndexStep ==
    ASSUME MongoTypeOK, IndexInv, faults = 0, Len(docs) <= 1, NEW i \in Instance,
           \/ CreateIndex(i) \/ Conflict(i) \/ CannotBuild(i)
           \/ DropIndex(i) \/ DropFindsNone(i) \/ Rebuild(i)
    PROVE  IndexInv'
<1> DEFINE c == Current(i)
<1>1. c \in Name /\ Wanted(i, c) \in Nat /\ index \in [Name -> Nat \cup {Absent}]
  BY CurrentIsName DEF MongoTypeOK
<1>2. Wanted(i, c) # Absent
  BY <1>1 DEF Absent
<1>3. Buildable(c)
  BY DEF Buildable
<1>4. /\ "index" \in Phases /\ "drop" \in Phases /\ "rebuild" \in Phases
      /\ {"index", "drop", "rebuild"} \subseteq Settling
  BY DEF Phases, Settling
<1> SUFFICES ASSUME NEW n \in Name, NEW j \in Instance
             PROVE  /\ (Past(j, n) \/ IsAt(j, "rebuild", n) => Settled(n))'
                    /\ (/\ Past(j, n) \/ IsAt(j, "drop", n) \/ IsAt(j, "rebuild", n)
                        /\ index[n] = Absent
                        => Rebuilding(n))'
  BY DEF IndexInv
<1>5. ASSUME NEW k \in Instance
      PROVE  /\ Past(k, n) \/ IsAt(k, "rebuild", n) => Settled(n)
             /\ /\ Past(k, n) \/ IsAt(k, "drop", n) \/ IsAt(k, "rebuild", n)
                /\ index[n] = Absent
                => Rebuilding(n)
  BY DEF IndexInv
<1>6. Rebuilding(n) <=> \E k \in Instance : IsAt(k, "rebuild", n)
  BY DEF Rebuilding, IsAt
<1>7. Rebuilding(n)' <=> \E k \in Instance : IsAt(k, "rebuild", n)'
  BY DEF Rebuilding, IsAt
<1>8. CASE Conflict(i)
  <2>1. phase[i] = "index" /\ index[c] # Absent
    BY <1>8 DEF Conflict, Conflicts
  <2>2. phase' = [phase EXCEPT ![i] = "drop"] /\ UNCHANGED <<at, index>>
    BY <1>8 DEF Conflict, Goto
  <2>3. ASSUME NEW k \in Instance
        PROVE  /\ Past(k, n)' <=> Past(k, n)
               /\ IsAt(k, "rebuild", n)' <=> IsAt(k, "rebuild", n)
               /\ IsAt(k, "drop", n)' <=> IsAt(k, "drop", n) \/ (k = i /\ n = c)
    BY <2>1, <2>2 DEF Past, IsAt, Current, Settling, MongoTypeOK
  <2>4. Settled(n)' <=> Settled(n)
    BY <2>2 DEF Settled, Wanted
  <2>5. QED
    BY <1>5, <1>6, <1>7, <2>1, <2>2, <2>3, <2>4
<1>9. CASE DropIndex(i)
  <2>1. phase[i] = "drop" /\ UNCHANGED at
    BY <1>9 DEF DropIndex
  <2>2. /\ phase' = [phase EXCEPT ![i] = "rebuild"]
        /\ index' = [index EXCEPT ![c] = Absent]
    BY <1>9 DEF DropIndex, Goto
  <2>3. ASSUME NEW k \in Instance
        PROVE  /\ Past(k, n)' <=> Past(k, n)
               /\ IsAt(k, "drop", n)' => IsAt(k, "drop", n)
               /\ IsAt(k, "rebuild", n)' <=> IsAt(k, "rebuild", n) \/ (k = i /\ n = c)
    BY <2>1, <2>2 DEF Past, IsAt, Current, Settling, MongoTypeOK
  <2>4. CASE n = c
    <3>1. index'[n] = Absent
      BY <2>2, <2>4, <1>1
    <3>2. QED
      BY <3>1, <2>3, <2>4, <1>7 DEF Settled
  <2>5. CASE n # c
    <3>1. index'[n] = index[n]
      BY <2>2, <2>5, <1>1
    <3>2. Settled(n)' <=> Settled(n)
      BY <3>1 DEF Settled, Wanted
    <3>3. QED
      BY <3>1, <3>2, <2>3, <2>5, <1>5, <1>6, <1>7
  <2>6. QED
    BY <2>4, <2>5
<1>10. CASE CreateIndex(i) \/ CannotBuild(i) \/ DropFindsNone(i) \/ Rebuild(i)
  <2>1. Advance(i) /\ phase[i] \in Settling
    BY <1>4, <1>10 DEF CreateIndex, CannotBuild, DropFindsNone, Rebuild
  <2>2. /\ Past(i, n)' <=> Past(i, n) \/ n = c
        /\ ~IsAt(i, "drop", n)' /\ ~IsAt(i, "rebuild", n)'
        /\ \A k \in Instance \ {i} :
              /\ Past(k, n)' <=> Past(k, n)
              /\ IsAt(k, "drop", n)' <=> IsAt(k, "drop", n)
              /\ IsAt(k, "rebuild", n)' <=> IsAt(k, "rebuild", n)
    BY <2>1, <1>4, AdvancePast
  <2>3. \/ index' = Built(i)
        \/ UNCHANGED index /\ phase[i] = "drop" /\ index[c] = Absent
        \/ UNCHANGED index /\ phase[i] = "rebuild" /\ index[c] # Absent
    BY <1>3, <1>10 DEF CreateIndex, CannotBuild, DropFindsNone, Rebuild, Creates, Conflicts
  <2>4. CASE n = c
    <3>1. CASE index' = Built(i)
      <4>1. index'[n] = Wanted(i, n) /\ index'[n] # Absent
        BY <3>1, <2>4, <1>1, <1>2 DEF Built
      <4>2. QED
        BY <4>1 DEF Settled, Wanted
    <3>2. CASE UNCHANGED index /\ phase[i] = "drop" /\ index[c] = Absent
      <4>1. IsAt(i, "drop", n)
        BY <3>2, <2>4 DEF IsAt
      <4>2. PICK k \in Instance : IsAt(k, "rebuild", n)
        BY <4>1, <3>2, <2>4, <1>5, <1>6
      <4>3. k # i
        BY <4>2, <3>2 DEF IsAt
      <4>4. Rebuilding(n)'
        BY <4>2, <4>3, <2>2, <1>7
      <4>5. QED
        BY <4>4, <3>2, <2>4 DEF Settled
    <3>3. CASE UNCHANGED index /\ phase[i] = "rebuild" /\ index[c] # Absent
      <4>1. IsAt(i, "rebuild", n)
        BY <3>3, <2>4 DEF IsAt
      <4>2. Settled(n)
        BY <4>1, <1>5
      <4>3. Settled(n)'
        BY <4>2, <3>3 DEF Settled, Wanted
      <4>4. QED
        BY <4>3, <3>3, <2>4
    <3>4. QED
      BY <2>3, <3>1, <3>2, <3>3
  <2>5. CASE n # c
    <3>1. index'[n] = index[n]
      BY <2>3, <2>5, <1>1 DEF Built
    <3>2. Settled(n)' <=> Settled(n)
      BY <3>1 DEF Settled, Wanted
    <3>3. ~IsAt(i, "rebuild", n)
      BY <2>5 DEF IsAt
    <3>4. Rebuilding(n)' <=> Rebuilding(n)
      BY <3>3, <2>2, <1>6, <1>7
    <3>5. CASE j = i
      BY <3>1, <3>2, <3>4, <3>5, <2>2, <2>5, <1>5
    <3>6. CASE j # i
      BY <3>1, <3>2, <3>4, <3>6, <2>2, <1>5
    <3>7. QED
      BY <3>5, <3>6
  <2>6. QED
    BY <2>4, <2>5
<1>11. QED
  BY <1>8, <1>9, <1>10

-----------------------------------------------------------------------------
(* The documents of the series *)

\* What is read is what the one document holds, or is of an older version.
DocsInv ==
    faults = 0 =>
        /\ Len(docs) <= 1
        /\ docs = <<>> => landed = {}
        /\ \A k \in DOMAIN docs : docs[k].absorbed = landed
        /\ \A i \in Instance : read[i] # None =>
              /\ docs = <<>> => read[i].version = 0 /\ read[i].absorbed = {}
              /\ \A k \in DOMAIN docs :
                    /\ read[i].version <= docs[k].version
                    /\ read[i].version = docs[k].version
                          => read[i].absorbed = docs[k].absorbed

\* A started instance finds the unique index.
LEMMA SeriesGuarded ==
    ASSUME SeriesInv, IndexInv, faults = 0, NEW i \in Instance, phase[i] = "up"
    PROVE  index["series_key"] # Absent
<1>1. "series_key" \in Name
  BY MongoAssumption
<1>2. Past(i, "series_key")
  BY DEF Past
<1>3. ~Rebuilding("series_key")
  BY DEF SeriesInv, Rebuilding
<1>4. QED
  BY <1>1, <1>2, <1>3 DEF IndexInv

\* A write that is performed keeps DocsInv.
LEMMA PerformKeeps ==
    ASSUME MongoTypeOK, SeriesInv, IndexInv, DocsInv, faults = 0, faults' = 0,
           NEW i \in Instance, phase[i] = "up", read[i] # None,
           Perform(read[i]), read' = [read EXCEPT ![i] = None]
    PROVE  DocsInv'
<1> DEFINE r == read[i]
           new == [version |-> r.version + 1, absorbed |-> r.absorbed \cup {r.count}]
<1>1. r \in Read
  BY DEF MongoTypeOK
<1>2. r.version \in Nat /\ new.version = r.version + 1 /\ new.absorbed = r.absorbed \cup {r.count}
  BY <1>1 DEF Read
<1>3. docs \in Seq(Document) /\ Len(docs) \in Nat /\ DOMAIN docs = 1..Len(docs) /\ Len(docs) <= 1
  BY LenProperties DEF MongoTypeOK, DocsInv
<1>4. landed' = landed \cup {r.count}
  BY DEF Perform
<1>5. docs' = <<new>> /\ new.absorbed = landed'
  <2>1. CASE \E k \in Matching(r) : docs' = [docs EXCEPT ![k] = new]
    <3>1. PICK k \in Matching(r) : docs' = [docs EXCEPT ![k] = new]
      BY <2>1
    <3>2. k \in DOMAIN docs /\ docs[k].version = r.version
      BY DEF Matching
    <3>3. k = 1 /\ Len(docs) = 1
      BY <3>2, <1>3
    <3>4. docs' \in Seq(Document) /\ Len(docs') = 1 /\ docs'[1] = new
      <4>1. new \in Document
        BY <1>1 DEF Read, Document
      <4>2. docs' = [docs EXCEPT ![1] = new] /\ 1 \in 1..Len(docs)
        BY <3>1, <3>3
      <4> HIDE DEF new
      <4>3. docs \in Seq(Document)
        BY <1>3
      <4>4. docs' \in Seq(Document) /\ Len(docs') = Len(docs) /\ docs'[1] = new
        BY <4>1, <4>2, <4>3, ExceptSeq
      <4>5. QED
        BY <4>4, <3>3
    <3>5. docs' = <<new>>
      <4> HIDE DEF new
      <4>1. QED
        BY <3>4
    <3>6. r.absorbed = landed
      BY <3>2 DEF DocsInv
    <3>7. QED
      BY <3>5, <3>6, <1>2, <1>4
  <2>2. CASE CanInsert(r) /\ docs' = Append(docs, new)
    <3>1. docs = <<>>
      BY <2>2, SeriesGuarded DEF CanInsert
    <3>2. docs' = <<new>>
      BY <2>2, <3>1
    <3>3. r.absorbed = {} /\ landed = {}
      BY <3>1 DEF DocsInv
    <3>4. QED
      BY <3>2, <3>3, <1>2, <1>4
  <2>3. QED
    BY <2>1, <2>2 DEF Perform
<1>6. Len(docs') = 1 /\ DOMAIN docs' = {1} /\ docs'[1] = new /\ docs' # <<>>
  BY <1>5
<1>7. ASSUME NEW j \in Instance, read'[j] # None
      PROVE  read'[j] = read[j] /\ read[j] \in Read /\ read[j].version <= r.version
  <2>1. read'[j] = read[j] /\ read[j] # None
    BY <1>7 DEF MongoTypeOK
  <2>2. read[j] \in Read
    BY <2>1 DEF MongoTypeOK
  <2>3. CASE docs = <<>>
    <3>1. read[j].version = 0 /\ r.version = 0
      BY <2>1, <2>3 DEF DocsInv
    <3>2. QED
      BY <2>1, <2>2, <3>1
  <2>4. CASE docs # <<>>
    <3>1. 1 \in DOMAIN docs /\ \A k \in DOMAIN docs : k = 1
      BY <2>4, <1>3
    <3>2. docs[1].version = r.version
      <4>1. CASE \E k \in Matching(r) : docs' = [docs EXCEPT ![k] = new]
        BY <4>1, <3>1 DEF Matching
      <4>2. CASE CanInsert(r)
        BY <4>2, <2>4, SeriesGuarded DEF CanInsert
      <4>3. QED
        BY <4>1, <4>2 DEF Perform
    <3>3. read[j].version <= docs[1].version
      BY <2>1, <3>1 DEF DocsInv
    <3>4. QED
      BY <2>1, <2>2, <3>2, <3>3
  <2>5. read[j].version <= r.version
    BY <2>3, <2>4
  <2>6. QED
    BY <2>1, <2>2, <2>5
<1>8. ASSUME NEW j \in Instance, read'[j] # None
      PROVE  read'[j].version <= new.version /\ read'[j].version # new.version
  <2>1. read[j].version \in Nat
    BY <1>7, <1>8 DEF Read
  <2>2. QED
    BY <2>1, <1>2, <1>7, <1>8
<1>9. \A k \in DOMAIN docs' : k = 1 /\ docs'[k] = new
  BY <1>6
<1>10. Len(docs') <= 1 /\ \A k \in DOMAIN docs' : docs'[k].absorbed = landed'
  <2> HIDE DEF new
  <2>1. QED
    BY <1>5, <1>6, <1>9
<1>11. \A j \in Instance : read'[j] # None =>
          /\ docs' = <<>> => read'[j].version = 0 /\ read'[j].absorbed = {}
          /\ \A k \in DOMAIN docs' :
                /\ read'[j].version <= docs'[k].version
                /\ read'[j].version = docs'[k].version
                      => read'[j].absorbed = docs'[k].absorbed
  <2> HIDE DEF new
  <2>1. QED
    BY <1>6, <1>8, <1>9
<1>12. docs' = <<>> => landed' = {}
  BY <1>6
<1>13. QED
  BY <1>10, <1>11, <1>12 DEF DocsInv

MongoInv == MongoTypeOK /\ ReadyInv /\ SeriesInv /\ IndexInv /\ DocsInv

\* The four invariants hold throughout.
LEMMA MongoInductive == MongoSpec => []MongoInv
<1>1. MongoInit => IndexInv /\ DocsInv
  <2> SUFFICES ASSUME MongoInit
               PROVE  IndexInv /\ DocsInv
    OBVIOUS
  <2>1. \A i \in Instance, n \in Name :
           ~Past(i, n) /\ ~IsAt(i, "drop", n) /\ ~IsAt(i, "rebuild", n)
    BY DEF MongoInit, Past, IsAt, Settling
  <2>2. faults = 0 => docs = <<>> \/ docs = <<NoDocument>>
    BY DEF MongoInit, WasUnguarded
  <2>3. ASSUME docs = <<>> \/ docs = <<NoDocument>>
        PROVE  Len(docs) <= 1 /\ \A k \in DOMAIN docs : docs[k].absorbed = {}
    <3>1. CASE docs = <<>>
      BY <3>1
    <3>2. CASE docs = <<NoDocument>>
      <4>1. Len(docs) = 1 /\ DOMAIN docs = {1} /\ docs[1] = NoDocument
        BY <3>2
      <4>2. QED
        BY <4>1 DEF NoDocument
    <3>3. QED
      BY <2>3, <3>1, <3>2
  <2>4. QED
    BY <2>1, <2>2, <2>3 DEF MongoInit, IndexInv, DocsInv
<1>2. MongoTypeOK /\ ReadyInv /\ SeriesInv /\ IndexInv /\ DocsInv /\ [MongoNext]_mongo /\ MongoTypeOK'
         => IndexInv' /\ DocsInv'
  <2> SUFFICES ASSUME MongoTypeOK, ReadyInv, SeriesInv, IndexInv, DocsInv, [MongoNext]_mongo, MongoTypeOK',
                      faults' = 0
               PROVE  IndexInv' /\ DocsInv'
    BY DEF IndexInv, DocsInv
  <2>0. ASSUME Fault
        PROVE  FALSE
    BY <2>0, FaultType
  <2>1. ASSUME NEW i \in Instance,
               Start(i) \/ Ping(i) \/ ListCollections(i) \/ CreateCollection(i)
                 \/ CollectionExists(i)
        PROVE  IndexInv' /\ DocsInv'
    <3>1. UNCHANGED <<index, docs, landed, read, faults>>
      BY <2>1 DEF Start, Ping, ListCollections, CreateCollection, CollectionExists
    <3>2. /\ phase[i] \notin {"index", "drop", "rebuild", "up"}
          /\ phase'[i] \in {"down", "ping", "list", "create", "index"}
          /\ phase'[i] = "index" => at'[i] = 1
          /\ \A k \in Instance \ {i} : phase'[k] = phase[k] /\ at'[k] = at[k]
      BY <2>1 DEF Start, Ping, ListCollections, CreateCollection, CollectionExists, Goto,
                  MongoTypeOK, ReadyInv, Settling
    <3>3. \A m \in DOMAIN Names : ~(m < 1)
      BY MongoAssumption
    <3>4. ASSUME NEW k \in Instance, NEW n \in Name
          PROVE  /\ Past(k, n)' => Past(k, n)
                 /\ IsAt(k, "drop", n)' <=> IsAt(k, "drop", n)
                 /\ IsAt(k, "rebuild", n)' <=> IsAt(k, "rebuild", n)
      <4>1. CASE k = i
        BY <4>1, <3>2, <3>3 DEF Past, IsAt, Settling
      <4>2. CASE k # i
        BY <4>2, <3>2 DEF Past, IsAt, Settling, Current
      <4>3. QED
        BY <4>1, <4>2
    <3>5. ASSUME NEW n \in Name
          PROVE  (Settled(n)' <=> Settled(n)) /\ (Rebuilding(n)' <=> Rebuilding(n))
      BY <3>1, <3>4 DEF Settled, Wanted, Rebuilding, IsAt
    <3>6. IndexInv'
      BY <3>1, <3>4, <3>5 DEF IndexInv
    <3>7. QED
      BY <3>1, <3>6 DEF DocsInv
  <2>2. ASSUME NEW i \in Instance,
               ConnectFails(i) \/ IndexFails(i) \/ Expire(i) \/ Die(i) \/ StatsFail(i)
        PROVE  IndexInv' /\ DocsInv'
    BY <2>0, <2>2 DEF ConnectFails, IndexFails, Expire, Die, StatsFail
  <2>3. ASSUME NEW i \in Instance,
               CreateIndex(i) \/ Conflict(i) \/ CannotBuild(i)
                 \/ DropIndex(i) \/ DropFindsNone(i) \/ Rebuild(i)
        PROVE  IndexInv' /\ DocsInv'
    <3>1. UNCHANGED <<docs, landed, read, faults>>
      BY <2>3 DEF CreateIndex, Conflict, CannotBuild, DropIndex, DropFindsNone, Rebuild
    <3>2. Len(docs) <= 1 /\ faults = 0
      BY <3>1 DEF DocsInv
    <3>3. IndexInv'
      BY <2>3, <3>2, IndexStep
    <3>4. QED
      BY <3>1, <3>3 DEF DocsInv
  <2>4. ASSUME NEW i \in Instance, Exit(i)
        PROVE  IndexInv' /\ DocsInv'
    <3>1. /\ phase[i] = "up" /\ phase' = [phase EXCEPT ![i] = "down"]
          /\ read' = [read EXCEPT ![i] = None]
          /\ UNCHANGED <<index, docs, landed, at, faults>>
      BY <2>4 DEF Exit, Down, Goto
    <3>2. ASSUME NEW k \in Instance, NEW n \in Name
          PROVE  /\ Past(k, n)' => Past(k, n)
                 /\ IsAt(k, "drop", n)' <=> IsAt(k, "drop", n)
                 /\ IsAt(k, "rebuild", n)' <=> IsAt(k, "rebuild", n)
      BY <3>1 DEF Past, IsAt, Settling, Current, MongoTypeOK
    <3>3. ASSUME NEW n \in Name
          PROVE  (Settled(n)' <=> Settled(n)) /\ (Rebuilding(n)' <=> Rebuilding(n))
      BY <3>1, <3>2 DEF Settled, Wanted, Rebuilding, IsAt
    <3>4. IndexInv'
      BY <3>1, <3>2, <3>3 DEF IndexInv
    <3>5. \A j \in Instance : read'[j] # None => read'[j] = read[j]
      BY <3>1 DEF MongoTypeOK
    <3>6. DocsInv'
      BY <3>1, <3>5 DEF DocsInv
    <3>7. QED
      BY <3>4, <3>6
  <2>5. ASSUME NEW i \in Instance,
               (\E c \in Count : GetStats(i, c)) \/ SaveStats(i) \/ StatsConflict(i)
        PROVE  IndexInv' /\ DocsInv'
    <3>1. UNCHANGED <<index, phase, at, faults>> /\ phase[i] = "up"
      BY <2>5 DEF GetStats, SaveStats, StatsConflict
    <3>2. IndexInv'
      BY <3>1 DEF IndexInv, Past, IsAt, Current, Settled, Wanted, Rebuilding
    <3>3. CASE SaveStats(i)
      BY <3>1, <3>2, <3>3, PerformKeeps DEF SaveStats
    <3>4. CASE StatsConflict(i)
      <4>1. read' = [read EXCEPT ![i] = None] /\ UNCHANGED <<docs, landed>>
        BY <3>4 DEF StatsConflict
      <4>2. \A j \in Instance : read'[j] # None => read'[j] = read[j]
        BY <4>1 DEF MongoTypeOK
      <4>3. QED
        BY <3>1, <3>2, <4>1, <4>2 DEF DocsInv
    <3>5. ASSUME NEW c \in Count, GetStats(i, c)
          PROVE  DocsInv'
      <4>1. PICK d \in IF docs = <<>> THEN {NoDocument} ELSE {docs[k] : k \in DOMAIN docs} :
               read' = [read EXCEPT ![i] = [count |-> c, version |-> d.version,
                                            absorbed |-> d.absorbed]]
        BY <3>5 DEF GetStats
      <4>2. UNCHANGED <<docs, landed>>
        BY <3>5 DEF GetStats
      <4>3. read'[i].version = d.version /\ read'[i].absorbed = d.absorbed
        BY <4>1 DEF MongoTypeOK
      <4>4. \A j \in Instance \ {i} : read'[j] = read[j]
        BY <4>1 DEF MongoTypeOK
      <4>5. DOMAIN docs = 1..Len(docs) /\ Len(docs) \in Nat /\ Len(docs) <= 1
        BY <3>1, LenProperties DEF MongoTypeOK, DocsInv
      <4>6. \A k \in DOMAIN docs : docs[k] = d /\ docs[k].version \in Nat
        <5> SUFFICES ASSUME NEW k \in DOMAIN docs
                     PROVE  docs[k] = d /\ docs[k].version \in Nat
          OBVIOUS
        <5>1. docs # <<>> /\ DOMAIN docs = {k}
          BY <4>5
        <5>2. docs[k] = d
          BY <5>1
        <5>3. docs[k] \in Document
          BY <4>5, ElementOfSeq DEF MongoTypeOK
        <5>4. QED
          BY <5>2, <5>3 DEF Document
      <4>7. docs = <<>> => d.version = 0 /\ d.absorbed = {}
        BY DEF NoDocument
      <4>8. ASSUME NEW j \in Instance, read'[j] # None
            PROVE  /\ docs = <<>> => read'[j].version = 0 /\ read'[j].absorbed = {}
                   /\ \A k \in DOMAIN docs :
                        /\ read'[j].version <= docs[k].version
                        /\ read'[j].version = docs[k].version
                              => read'[j].absorbed = docs[k].absorbed
        <5>1. CASE j = i
          BY <5>1, <4>3, <4>6, <4>7
        <5>2. CASE j # i
          BY <5>2, <4>4, <4>8, <3>1 DEF DocsInv
        <5>3. QED
          BY <5>1, <5>2
      <4>9. QED
        BY <3>1, <4>2, <4>8 DEF DocsInv
    <3>6. QED
      BY <2>5, <3>2, <3>3, <3>4, <3>5
  <2>6. CASE UNCHANGED mongo
    BY <2>6 DEF mongo, IndexInv, DocsInv, Past, IsAt, Current, Settled, Wanted, Rebuilding
  <2>7. CASE OtherFault
    BY <2>0, <2>7 DEF OtherFault
  <2>8. QED
    BY <2>1, <2>2, <2>3, <2>4, <2>5, <2>6, <2>7 DEF MongoNext, Setup
<1>3. QED
  BY <1>1, <1>2, Ready, SeriesIndex, PTL DEF MongoSpec, MongoInv

\* What an instance finds on the database once it has started.
THEOREM StartedIndexed == MongoSpec => []StartedMeansIndexed
<1>1. MongoInv => StartedMeansIndexed
  <2> SUFFICES ASSUME MongoInv, NEW i \in Instance, phase[i] = "up"
               PROVE  /\ collection
                      /\ faults = 0 => \A n \in Name :
                            \/ \E k \in Instance : index[n] = Wanted(k, n)
                            \/ index[n] = Absent /\ Rebuilding(n)
    BY DEF StartedMeansIndexed
  <2>1. collection
    BY DEF MongoInv, ReadyInv
  <2>2. \A n \in Name : Past(i, n)
    BY DEF Past
  <2>3. QED
    BY <2>1, <2>2 DEF MongoInv, IndexInv, Settled
<1>2. QED
  BY <1>1, MongoInductive, PTL

\* The one document of a series holds what has landed.
THEOREM CountsKept == MongoSpec => []LandedCountsAreKept
<1>1. MongoInv => LandedCountsAreKept
  BY DEF MongoInv, DocsInv, LandedCountsAreKept
<1>2. QED
  BY <1>1, MongoInductive, PTL

(* Service *)

AllSteps == {"none", "queued", "evaluating", "notifying", "done", "dropped", "failed", "lost"}
Underway == {"queued", "evaluating", "notifying"}

\* A count is in hand, at an instance, as long as it is under way.
PlaceInv ==
    /\ place \in [Count -> Instance \cup {None}]
    /\ step \in [Count -> AllSteps]
    /\ attempt \in [Count -> 1..MaxAttempts]
    /\ \A c \in Count : InHand(c) <=> step[c] \in Underway

-----------------------------------------------------------------------------
(* Service uses MongoDB as MongoDB says                                     *)

\* What ProcessIngest does to a count: it goes on, or it is over.
LEMMA ProcessEffect ==
    ASSUME NEW c \in Count, Process(c)
    PROVE  /\ step[c] \in Underway
           /\ \/ \E s \in Underway : Become(c, s)
              \/ \E s \in {"done", "dropped", "failed"} : Leave(c, s)
              \/ /\ UNCHANGED <<place, step>>
                 /\ attempt[c] < MaxAttempts /\ attempt' = [attempt EXCEPT ![c] = @ + 1]
<1>1. CASE Evaluate(c)
  BY <1>1 DEF Evaluate, Underway
<1>2. CASE Land(c)
  BY <1>2 DEF Land, Underway
<1>3. CASE Retry(c)
  BY <1>3 DEF Retry, Underway
<1>4. CASE GiveUp(c)
  BY <1>4 DEF GiveUp, Underway
<1>5. CASE Fail(c)
  BY <1>5 DEF Fail, Underway
<1>6. CASE Tell(c) \/ TellFails(c)
  BY <1>6 DEF Tell, TellFails, NextChannel, Underway
<1>7. QED
  BY <1>1, <1>2, <1>3, <1>4, <1>5, <1>6 DEF Process

\* Decode hands one count on, or none.
LEMMA DecodeEffect ==
    ASSUME NEW i, NEW m, Decode(i, m)
    PROVE  \/ m \in Malformed /\ UNCHANGED work
           \/ LET c == <<m, delivered[m] + 1>>
              IN  /\ m \notin Malformed /\ delivered[m] < MaxDeliveries
                  /\ delivered' = [delivered EXCEPT ![m] = @ + 1]
                  /\ place' = [place EXCEPT ![c] = i]
                  /\ step' = [step EXCEPT ![c] = "queued"]
                  /\ UNCHANGED <<attempt, telling, told>>
BY DEF Decode

\* A count is in hand at an instance or nowhere.
LEMMA PlaceCorrect == Spec => []PlaceInv
<1>1. Init => PlaceInv
  BY ServiceAssumption DEF Init, PlaceInv, InHand, Underway, AllSteps
<1>2. PlaceInv /\ [Next]_vars => PlaceInv'
  <2> SUFFICES ASSUME PlaceInv, [Next]_vars
               PROVE  PlaceInv'
    OBVIOUS
  <2>1. ASSUME NEW i \in Instance, Gone(i)
        PROVE  PlaceInv'
    <3>1. place' = [c \in Count |-> IF c \in At(i) THEN None ELSE place[c]]
      BY <2>1 DEF Gone
    <3>2. step' = [c \in Count |-> IF c \in At(i) THEN "lost" ELSE step[c]]
      BY <2>1 DEF Gone
    <3>3. attempt' = [c \in Count |-> IF c \in At(i) THEN 1 ELSE attempt[c]]
      BY <2>1 DEF Gone
    <3>4. place' \in [Count -> Instance \cup {None}]
      BY <3>1 DEF PlaceInv
    <3>5. step' \in [Count -> AllSteps]
      BY <3>2 DEF PlaceInv, AllSteps
    <3>6. attempt' \in [Count -> 1..MaxAttempts]
      BY <3>3, ServiceAssumption DEF PlaceInv
    <3>7. ASSUME NEW c \in Count
          PROVE  InHand(c)' <=> step'[c] \in Underway
      <4>1. CASE c \in At(i)
        BY <3>1, <3>2, <4>1 DEF InHand, Underway
      <4>2. CASE c \notin At(i)
        BY <3>1, <3>2, <4>2 DEF InHand, PlaceInv
      <4>3. QED
        BY <4>1, <4>2
    <3>8. QED
      BY <3>4, <3>5, <3>6, <3>7 DEF PlaceInv
  <2>2. ASSUME NEW i \in Instance, ReadMessage(i)
        PROVE  PlaceInv'
    <3> DEFINE m == Topic[fetched[i]]
               c == <<m, delivered[m] + 1>>
    <3>1. Decode(i, m)
      BY <2>2 DEF ReadMessage
    <3>2. CASE UNCHANGED work
      BY <3>2 DEF work, PlaceInv, InHand
    <3>3. CASE /\ place' = [place EXCEPT ![c] = i]
               /\ step' = [step EXCEPT ![c] = "queued"]
               /\ attempt' = attempt
      <4> HIDE DEF c
      <4>1. i # None
        BY MongoAssumption
      <4>2. QED
        BY <3>3, <4>1 DEF PlaceInv, InHand, AllSteps, Underway
    <3>4. QED
      BY <3>1, <3>2, <3>3, DecodeEffect
  <2>3. ASSUME NEW c \in Count, Process(c)
        PROVE  PlaceInv'
    <3>1. InHand(c) /\ step[c] \in Underway
      BY <2>3, ProcessEffect DEF PlaceInv
    <3>2. CASE \E s \in Underway : Become(c, s)
      BY <3>1, <3>2 DEF Become, PlaceInv, InHand, Underway, AllSteps
    <3>3. CASE \E s \in {"done", "dropped", "failed"} : Leave(c, s)
      <4>1. attempt' \in [Count -> 1..MaxAttempts]
        BY <3>3, ServiceAssumption DEF Leave, PlaceInv
      <4>2. QED
        BY <3>3, <4>1 DEF Leave, PlaceInv, InHand, Underway, AllSteps
    <3>4. CASE /\ UNCHANGED <<place, step>>
               /\ attempt[c] < MaxAttempts /\ attempt' = [attempt EXCEPT ![c] = @ + 1]
      <4>1. attempt[c] + 1 \in 1..MaxAttempts
        BY <3>4, ServiceAssumption DEF PlaceInv
      <4>2. QED
        BY <3>4, <4>1 DEF PlaceInv, InHand
    <3>5. QED
      BY <2>3, <3>2, <3>3, <3>4, ProcessEffect
  <2>4. ASSUME UNCHANGED work
        PROVE  PlaceInv'
    BY <2>4 DEF work, PlaceInv, InHand
  <2>5. ASSUME NEW i \in Instance,
               \/ Connect(i) \/ Serve(i) \/ Signal(i) \/ Close(i) \/ Answer(i) \/ Join(i)
               \/ Fetch(i) \/ ReadMessageFails(i) \/ CommitRefused(i) \/ Rebalance(i)
        PROVE  UNCHANGED work
    BY <2>5 DEF Connect, Serve, Signal, Close, Answer, Join, Assign, Fetch, ReadMessageFails,
                CommitRefused, Rebalance
  <2>6. CASE UNCHANGED vars
    BY <2>4, <2>6 DEF vars
  <2>7. QED
    BY <2>1, <2>2, <2>3, <2>4, <2>5, <2>6
       DEF Next, Step, Crash, Shutdown, ShutdownDone, ShutdownTimesOut, Loop
<1>3. QED
  BY <1>1, <1>2, PTL DEF Spec

\* What an action of Service does to MongoDB is a step of MongoDB or nothing.
THEOREM ServiceUsesMongoDB == Spec => MongoSpec
<1>1. Init => MongoInit
  BY DEF Init
<1>2. PlaceInv /\ [Next]_vars => [MongoNext]_mongo
  <2> SUFFICES ASSUME PlaceInv, [Next]_vars
               PROVE  [MongoNext]_mongo
    OBVIOUS
  <2>1. ASSUME NEW i \in Instance, Connect(i) \/ Crash(i) \/ ShutdownDone(i) \/ ShutdownTimesOut(i)
        PROVE  MongoNext
    BY <2>1 DEF Connect, Crash, ShutdownDone, ShutdownTimesOut, MongoNext
  <2>2. ASSUME NEW i \in Instance,
               \/ Serve(i) \/ Signal(i) \/ Close(i) \/ Answer(i) \/ Join(i)
               \/ Fetch(i) \/ ReadMessage(i) \/ CommitRefused(i) \/ Rebalance(i)
        PROVE  UNCHANGED mongo
    BY <2>2 DEF Serve, Signal, Close, Answer, Join, Assign, Fetch, ReadMessage, CommitRefused,
                Rebalance
  <2>3. ASSUME NEW i \in Instance, ReadMessageFails(i)
        PROVE  MongoNext
    BY <2>3 DEF ReadMessageFails, MongoNext
  <2>4. ASSUME NEW c \in Count, Evaluate(c) \/ Land(c) \/ Retry(c) \/ GiveUp(c) \/ Fail(c)
        PROVE  MongoNext
    <3>1. place[c] \in Instance
      BY <2>4, ProcessEffect DEF Process, PlaceInv, InHand
    <3>2. QED
      BY <2>4, <3>1 DEF Evaluate, Land, Retry, GiveUp, Fail, MongoNext
  <2>5. ASSUME NEW c \in Count, Tell(c) \/ TellFails(c)
        PROVE  [MongoNext]_mongo
    BY <2>5 DEF Tell, TellFails, MongoNext
  <2>6. CASE UNCHANGED vars
    BY <2>6 DEF vars
  <2>7. QED
    BY <2>1, <2>2, <2>3, <2>4, <2>5, <2>6 DEF Next, Step, Shutdown, Loop, Process
<1>3. QED
  BY <1>1, <1>2, PlaceCorrect, PTL DEF Spec, MongoSpec

\* However instances of a deployment start, what they find has been set up.
THEOREM ServiceStartsIndexed == Spec => []StartedMeansIndexed
BY ServiceUsesMongoDB, StartedIndexed, PTL

\* However counts come, their series keeps them.
THEOREM ServiceKeepsCounts == Spec => []LandedCountsAreKept
BY ServiceUsesMongoDB, CountsKept, PTL

-----------------------------------------------------------------------------
(* Types, at most once, and what the group has passed                       *)

\* The parts of TypeOK that are not MongoDB's.
ServerOK ==
    /\ server \in [Instance -> {"off", "serving", "closing", "draining"}]
    /\ open \in [Instance -> BOOLEAN]
    /\ \A i \in Instance : server[i] # "off" => phase[i] = "up"
    /\ stops \in 0..MaxStops /\ moves \in 0..MaxMoves

GroupOK ==
    /\ owner \in Instance \cup {None}
    /\ owner # None => server[owner] \in {"serving", "closing"}
    /\ position \in 0..(Len(Topic) + 1)
    /\ fetched \in [Instance -> {0} \cup Offset]
    /\ \A i \in Instance : fetched[i] # 0 =>
          (owner = i \/ i \in late) /\ server[i] \in {"serving", "closing"}
    /\ late \subseteq {i \in Instance : fetched[i] # 0}
    /\ committed \in {0} \cup Offset
    /\ strayed \in BOOLEAN
    /\ unread \subseteq Message

WorkOK ==
    /\ \A c \in Count : InHand(c) => server[place[c]] # "off"
    /\ telling \in [Count -> 1..(Len(Channels) + 1)]
    /\ told \in [Count -> SUBSET Channel]
    /\ delivered \in [Message -> 0..MaxDeliveries]

\* A delivery that has not been made has left no trace.
FreshInv == \A c \in Count : c[2] > delivered[c[1]] => step[c] = "none"

\* How far MultiNotifier is with an alert.
TellingInv ==
    \A c \in Count :
        /\ step[c] \in {"none", "queued", "evaluating"} => telling[c] = 1
        /\ step[c] = "notifying" => telling[c] <= Len(Channels)

\* As long as no commit has strayed into a later generation, the offset never
\* moves back: nobody has had a message past it, and what the reader of this
\* generation has fetched, or will fetch, is past it.
Orderly ==
    /\ \A i \in Instance \ late :
          fetched[i] # 0 => committed < fetched[i] /\ fetched[i] < position
    /\ owner # None => committed < position
    /\ \A o \in Offset : committed < o => delivered[Topic[o]] = 0
    /\ \A m \in Message : delivered[m] <= 1

OnceInv == strayed \/ Orderly

\* A message that can be done with: it was read, or reading it failed.
Seen(o) == Topic[o] \in Malformed \cup unread \/ delivered[Topic[o]] > 0

\* Whatever strays: what is committed, what the reader is past and what lies
\* before a fetched offset has been seen. So the offset may move back, or on to
\* what was fetched, but never over a message nobody has read.
SeenInv ==
    /\ \A o \in Offset : o <= committed => Seen(o)
    /\ owner # None => \A o \in Offset :
          o < position => Seen(o) \/ (fetched[owner] = o /\ owner \notin late)
    /\ \A i \in Instance : fetched[i] # 0 => \A o \in Offset : o < fetched[i] => Seen(o)

ReadInv == OnceInv /\ SeenInv

ServiceInv ==
    PlaceInv /\ ServerOK /\ GroupOK /\ WorkOK /\ FreshInv /\ TellingInv /\ ReadInv

\* Topic and Channels are sequences; a count is a delivery of a message.
LEMMA Sequence ==
    /\ Len(Topic) \in Nat /\ Offset = 1..Len(Topic)
    /\ \A o \in Offset : Topic[o] \in Message
    /\ Len(Channels) \in Nat
BY ServiceAssumption DEF Offset, Message

LEMMA CountFacts ==
    /\ \A c \in Count : c = <<c[1], c[2]>> /\ c[1] \in Message /\ c[2] \in Nat
    /\ \A m \in Message : \A n \in 1..MaxDeliveries : <<m, n>> \in Count
    /\ MaxDeliveries \in Nat
BY ServiceAssumption

\* The steps of Connect are taken by instances that are not up.
LEMMA SetupKeepsUp ==
    ASSUME MongoTypeOK, NEW i \in Instance, Setup(i)
    PROVE  \A j \in Instance : phase[j] = "up" => phase'[j] = "up"
<1>1. phase[i] # "up"
  BY DEF Setup, Start, Ping, ListCollections, CreateCollection, CollectionExists, ConnectFails,
         CreateIndex, Conflict, CannotBuild, DropIndex, DropFindsNone, Rebuild, IndexFails, Expire
<1>2. \A j \in Instance \ {i} : phase'[j] = phase[j]
  <2>1. ASSUME NEW p, Goto(i, p)
        PROVE  \A j \in Instance \ {i} : phase'[j] = phase[j]
    BY <2>1 DEF Goto, MongoTypeOK
  <2>2. ASSUME Advance(i)
        PROVE  \A j \in Instance \ {i} : phase'[j] = phase[j]
    BY <2>2, <2>1 DEF Advance
  <2>3. QED
    BY <2>1, <2>2
       DEF Setup, Start, Ping, ListCollections, CreateCollection, CollectionExists, ConnectFails,
           CreateIndex, Conflict, CannotBuild, DropIndex, DropFindsNone, Rebuild, IndexFails, Expire
<1>3. QED
  BY <1>1, <1>2

\* What has been seen stays seen.
LEMMA SeenStays ==
    ASSUME ServiceInv, unread \subseteq unread', NEW o \in Offset, Seen(o),
           \A m \in Message : delivered[m] > 0 => delivered'[m] > 0
    PROVE  Seen(o)'
BY Sequence DEF Seen

\* Nothing happens to the group.
LEMMA GroupStays ==
    ASSUME ServiceInv, UNCHANGED <<group, delivered>>,
           \A i \in Instance : server[i] \in {"serving", "closing"}
               => server'[i] \in {"serving", "closing"}
    PROVE  GroupOK' /\ ReadInv'
<1>1. UNCHANGED <<owner, position, fetched, late, committed, strayed, unread>>
  BY DEF group
<1>2. GroupOK'
  BY <1>1 DEF ServiceInv, GroupOK
<1>3. Orderly' = Orderly /\ SeenInv' = SeenInv
  BY <1>1 DEF Orderly, SeenInv, Seen
<1>4. QED
  BY <1>1, <1>2, <1>3 DEF ServiceInv, ReadInv, OnceInv

\* A reader leaves the group.
LEMMA LeaveGroupKeeps ==
    ASSUME ServiceInv, NEW i \in Instance, LeaveGroup(i), delivered' = delivered,
           \A j \in Instance \ {i} : server'[j] = server[j]
    PROVE  GroupOK' /\ ReadInv'
<1>1. /\ UNCHANGED <<committed, strayed, unread>>
      /\ fetched' = [fetched EXCEPT ![i] = 0] /\ late' = late \ {i}
      /\ owner' = (IF owner = i THEN None ELSE owner)
      /\ position' = (IF owner = i THEN 0 ELSE position)
  BY DEF LeaveGroup, Release
<1>2. /\ fetched' \in [Instance -> {0} \cup Offset] /\ fetched'[i] = 0
      /\ \A j \in Instance \ {i} : fetched'[j] = fetched[j]
  BY <1>1 DEF ServiceInv, GroupOK
<1>3. owner' # None => owner' = owner /\ owner # i /\ owner \in Instance /\ position' = position
  BY <1>1 DEF ServiceInv, GroupOK
<1>4. \A j \in Instance : fetched'[j] # 0 /\ j \notin late' =>
          owner' = j /\ j # i /\ j \notin late /\ fetched[j] # 0
  BY <1>1, <1>2 DEF ServiceInv, GroupOK
<1>5. GroupOK'
  <2>1. position' \in 0..(Len(Topic) + 1)
    BY <1>1, Sequence DEF ServiceInv, GroupOK
  <2>2. owner' \in Instance \cup {None} /\ (owner' # None => server'[owner'] \in {"serving", "closing"})
    BY <1>1, <1>3 DEF ServiceInv, GroupOK
  <2>3. \A j \in Instance : fetched'[j] # 0 =>
           (owner' = j \/ j \in late') /\ server'[j] \in {"serving", "closing"}
    BY <1>1, <1>2, <1>4 DEF ServiceInv, GroupOK
  <2>4. late' \subseteq {j \in Instance : fetched'[j] # 0}
    BY <1>1, <1>2 DEF ServiceInv, GroupOK
  <2>5. committed' \in {0} \cup Offset /\ strayed' \in BOOLEAN /\ unread' \subseteq Message
    BY <1>1 DEF ServiceInv, GroupOK
  <2>6. QED
    BY <1>2, <2>1, <2>2, <2>3, <2>4, <2>5 DEF GroupOK
<1>6. \A j \in Instance : j # None
  BY MongoAssumption
<1>7. Orderly => Orderly'
  <2>1. SUFFICES ASSUME Orderly PROVE Orderly'
    OBVIOUS
  <2>2. ASSUME NEW j \in Instance \ late', fetched'[j] # 0
        PROVE  committed' < fetched'[j] /\ fetched'[j] < position'
    <3>1. owner' = j /\ j # i /\ j \notin late /\ fetched[j] # 0
      BY <1>4, <2>2
    <3>2. position' = position
      BY <1>3, <1>6, <3>1
    <3>3. QED
      BY <1>1, <1>2, <2>1, <3>1, <3>2 DEF Orderly
  <2>3. owner' # None => committed' < position'
    BY <1>1, <1>3, <2>1 DEF Orderly
  <2>4. QED
    BY <1>1, <2>1, <2>2, <2>3 DEF Orderly
<1>8. SeenInv'
  <2>1. \A o \in Offset : Seen(o)' = Seen(o)
    BY <1>1 DEF Seen
  <2>2. ASSUME owner' # None, NEW o \in Offset, o < position'
        PROVE  Seen(o)' \/ (fetched'[owner'] = o /\ owner' \notin late')
    BY <1>1, <1>2, <1>3, <2>1, <2>2 DEF ServiceInv, ReadInv, SeenInv
  <2>3. \A j \in Instance : fetched'[j] # 0 => \A o \in Offset : o < fetched'[j] => Seen(o)'
    BY <1>2, <2>1 DEF ServiceInv, ReadInv, SeenInv
  <2>4. \A o \in Offset : o <= committed' => Seen(o)'
    BY <1>1, <2>1 DEF ServiceInv, ReadInv, SeenInv
  <2>5. QED
    BY <2>2, <2>3, <2>4 DEF SeenInv
<1>9. QED
  BY <1>1, <1>5, <1>7, <1>8 DEF ServiceInv, ReadInv, OnceInv

\* A generation begins.
LEMMA AssignKeeps ==
    ASSUME ServiceInv, NEW i \in Instance, Assign(i)
    PROVE  GroupOK' /\ ReadInv'
<1>1. /\ UNCHANGED <<server, fetched, committed, strayed, unread, delivered>>
      /\ server[i] = "serving" /\ owner' = i /\ position' = committed + 1
      /\ late' = {j \in Instance : fetched[j] # 0}
  BY DEF Assign, work
<1>2. committed \in 0..Len(Topic)
  BY Sequence DEF ServiceInv, GroupOK
<1>3. GroupOK'
  <2>1. position' \in 0..(Len(Topic) + 1)
    BY <1>1, <1>2, Sequence
  <2>2. QED
    BY <1>1, <2>1 DEF ServiceInv, GroupOK
<1>4. Orderly => Orderly'
  <2>1. \A j \in Instance \ late' : fetched'[j] = 0
    BY <1>1
  <2>2. committed' < position'
    BY <1>1, <1>2
  <2>3. QED
    BY <1>1, <2>1, <2>2 DEF Orderly
<1>5. SeenInv'
  <2>1. \A o \in Offset : Seen(o)' = Seen(o)
    BY <1>1 DEF Seen
  <2>2. \A o \in Offset : o < position' => o <= committed
    BY <1>1, <1>2, Sequence
  <2>3. QED
    BY <1>1, <2>1, <2>2 DEF ServiceInv, ReadInv, SeenInv
<1>6. QED
  BY <1>1, <1>3, <1>4, <1>5 DEF ServiceInv, ReadInv, OnceInv

\* The owner fetches the next message.
LEMMA FetchKeeps ==
    ASSUME ServiceInv, NEW i \in Instance, Fetch(i)
    PROVE  GroupOK' /\ ReadInv'
<1>1. /\ UNCHANGED <<server, owner, late, committed, strayed, unread, delivered>>
      /\ server[i] \in {"serving", "closing"} /\ owner = i /\ fetched[i] = 0
      /\ position \in Offset /\ position' = position + 1
      /\ fetched' = [fetched EXCEPT ![i] = position]
  BY DEF Fetch, Idle, work
<1>2. /\ position \in 1..Len(Topic) /\ committed \in 0..Len(Topic) /\ Len(Topic) \in Nat
      /\ \A o \in Offset : o \in Nat
  BY <1>1, Sequence DEF ServiceInv, GroupOK
<1>3. /\ fetched' \in [Instance -> {0} \cup Offset] /\ fetched'[i] = position
      /\ \A j \in Instance \ {i} : fetched'[j] = fetched[j]
  BY <1>1 DEF ServiceInv, GroupOK
<1>4. owner # None /\ i \notin late
  BY <1>1, MongoAssumption DEF ServiceInv, GroupOK
<1>5. GroupOK'
  <2>1. position' \in 0..(Len(Topic) + 1)
    BY <1>1, <1>2
  <2>2. \A j \in Instance : fetched'[j] # 0 =>
           (owner' = j \/ j \in late') /\ server'[j] \in {"serving", "closing"}
    BY <1>1, <1>3 DEF ServiceInv, GroupOK
  <2>3. late' \subseteq {j \in Instance : fetched'[j] # 0}
    BY <1>1, <1>3, <1>4 DEF ServiceInv, GroupOK
  <2>4. QED
    BY <1>1, <1>3, <2>1, <2>2, <2>3 DEF ServiceInv, GroupOK
<1>6. Orderly => Orderly'
  <2>1. SUFFICES ASSUME Orderly PROVE Orderly'
    OBVIOUS
  <2>2. committed < position
    BY <1>4, <2>1 DEF Orderly
  <2>3. \A j \in Instance \ late : fetched'[j] # 0 => j = i
    BY <1>1, <1>3 DEF ServiceInv, GroupOK
  <2>4. QED
    BY <1>1, <1>2, <1>3, <2>1, <2>2, <2>3 DEF Orderly
<1>7. SeenInv'
  <2>1. \A o \in Offset : Seen(o)' = Seen(o)
    BY <1>1 DEF Seen
  <2>2. \A o \in Offset : o < position => Seen(o)
    BY <1>1, <1>2, <1>4 DEF ServiceInv, ReadInv, SeenInv
  <2>3. ASSUME NEW o \in Offset, o < position'
        PROVE  Seen(o)' \/ (fetched'[owner'] = o /\ owner' \notin late')
    <3>1. o < position \/ o = position
      BY <1>1, <1>2, <2>3
    <3>2. QED
      BY <1>1, <1>3, <1>4, <2>1, <2>2, <3>1
  <2>4. \A j \in Instance : fetched'[j] # 0 => \A o \in Offset : o < fetched'[j] => Seen(o)'
    BY <1>3, <2>1, <2>2 DEF ServiceInv, ReadInv, SeenInv
  <2>5. \A o \in Offset : o <= committed' => Seen(o)'
    BY <1>1, <2>1 DEF ServiceInv, ReadInv, SeenInv
  <2>6. QED
    BY <2>3, <2>4, <2>5 DEF SeenInv
<1>8. QED
  BY <1>1, <1>5, <1>6, <1>7 DEF ServiceInv, ReadInv, OnceInv

\* ReadMessage is over and the offset where it was: the commit was refused, or
\* failed without being performed.
LEMMA ReleaseKeeps ==
    ASSUME ServiceInv, NEW i \in Instance, NEW f \in Offset, fetched[i] = f, Release(i),
           UNCHANGED <<server, owner, position, committed, strayed, delivered>>,
           \/ i \in late /\ unread' = unread
           \/ unread' = unread \cup {Topic[f]}
    PROVE  GroupOK' /\ ReadInv'
<1>1. fetched' = [fetched EXCEPT ![i] = 0] /\ late' = late \ {i}
  BY DEF Release
<1>2. /\ fetched' \in [Instance -> {0} \cup Offset] /\ fetched'[i] = 0
      /\ \A j \in Instance \ {i} : fetched'[j] = fetched[j]
      /\ Topic[f] \in Message
  BY <1>1, Sequence DEF ServiceInv, GroupOK
<1>3. GroupOK'
  <2>1. \A j \in Instance : fetched'[j] # 0 =>
           (owner' = j \/ j \in late') /\ server'[j] \in {"serving", "closing"}
    BY <1>1, <1>2 DEF ServiceInv, GroupOK
  <2>2. late' \subseteq {j \in Instance : fetched'[j] # 0}
    BY <1>1, <1>2 DEF ServiceInv, GroupOK
  <2>3. unread' \subseteq Message
    BY <1>2, Sequence DEF ServiceInv, GroupOK
  <2>4. QED
    BY <1>2, <2>1, <2>2, <2>3 DEF ServiceInv, GroupOK
<1>4. Orderly => Orderly'
  <2>1. \A j \in Instance \ late' :
           fetched'[j] # 0 => j \in Instance \ late /\ fetched'[j] = fetched[j]
    BY <1>1, <1>2
  <2>2. QED
    BY <2>1 DEF Orderly
<1>5. SeenInv'
  <2>1. \A o \in Offset : Seen(o) => Seen(o)'
    BY SeenStays
  <2>2. i \notin late => Seen(f)'
    BY DEF Seen
  <2>3. ASSUME owner' # None, NEW o \in Offset, o < position'
        PROVE  Seen(o)' \/ (fetched'[owner'] = o /\ owner' \notin late')
    <3>1. Seen(o) \/ (fetched[owner] = o /\ owner \notin late)
      BY <2>3 DEF ServiceInv, ReadInv, SeenInv
    <3>2. CASE owner = i
      BY <2>1, <2>2, <3>1, <3>2
    <3>3. CASE owner # i
      BY <1>1, <1>2, <2>1, <2>3, <3>1, <3>3 DEF ServiceInv, GroupOK
    <3>4. QED
      BY <3>2, <3>3
  <2>4. \A j \in Instance : fetched'[j] # 0 => \A o \in Offset : o < fetched'[j] => Seen(o)'
    BY <1>2, <2>1 DEF ServiceInv, ReadInv, SeenInv
  <2>5. \A o \in Offset : o <= committed' => Seen(o)'
    BY <2>1 DEF ServiceInv, ReadInv, SeenInv
  <2>6. QED
    BY <2>3, <2>4, <2>5 DEF SeenInv
<1>6. QED
  BY <1>3, <1>4, <1>5 DEF ServiceInv, ReadInv, OnceInv

\* The commit is performed: the message in hand is the first past the offset, or
\* the commit has strayed; either way all before it has been seen.
LEMMA CommitKeeps ==
    ASSUME ServiceInv, NEW i \in Instance, NEW f \in Offset, fetched[i] = f, Commit(i), Release(i),
           UNCHANGED <<server, owner, position>>,
           unread' \in SUBSET Message, unread \subseteq unread',
           delivered' \in [Message -> 0..MaxDeliveries],
           delivered'[Topic[f]] \in {delivered[Topic[f]], delivered[Topic[f]] + 1},
           \A m \in Message \ {Topic[f]} : delivered'[m] = delivered[m],
           Seen(f)'
    PROVE  GroupOK' /\ ReadInv'
<1>1. /\ fetched' = [fetched EXCEPT ![i] = 0] /\ late' = late \ {i}
      /\ committed' = f /\ strayed' = (strayed \/ i \in late)
  BY DEF Release, Commit
<1>2. /\ fetched' \in [Instance -> {0} \cup Offset] /\ fetched'[i] = 0
      /\ \A j \in Instance \ {i} : fetched'[j] = fetched[j]
      /\ f \in Offset /\ Topic[f] \in Message
  BY <1>1, Sequence DEF ServiceInv, GroupOK
<1>3. GroupOK'
  <2>1. \A j \in Instance : fetched'[j] # 0 =>
           (owner' = j \/ j \in late') /\ server'[j] \in {"serving", "closing"}
    BY <1>1, <1>2 DEF ServiceInv, GroupOK
  <2>2. late' \subseteq {j \in Instance : fetched'[j] # 0}
    BY <1>1, <1>2 DEF ServiceInv, GroupOK
  <2>3. strayed' \in BOOLEAN
    BY <1>1
  <2>4. QED
    BY <1>1, <1>2, <2>1, <2>2, <2>3 DEF ServiceInv, GroupOK
<1>4. \A m \in Message : delivered[m] \in Nat
  BY CountFacts DEF ServiceInv, WorkOK
<1>5. committed \in Nat /\ f \in Nat /\ f # 0 /\ \A o \in Offset : o \in Nat
  BY <1>2, Sequence DEF ServiceInv, GroupOK
<1>6. ASSUME Orderly, i \notin late
      PROVE  Orderly'
  <2>1. committed < f /\ f < position /\ delivered[Topic[f]] = 0
    BY <1>2, <1>5, <1>6 DEF Orderly
  <2>2. \A j \in Instance \ late' : fetched'[j] = 0
    BY <1>1, <1>2, <1>5, <1>6 DEF ServiceInv, GroupOK
  <2>3. owner' # None => committed' < position'
    BY <1>1, <2>1
  <2>4. ASSUME NEW o \in Offset, committed' < o
        PROVE  delivered'[Topic[o]] = 0
    <3>1. Topic[o] # Topic[f]
      <4>1. o # f
        BY <1>1, <1>5, <2>4
      <4>2. QED
        BY <1>2, <4>1, ServiceAssumption
    <3>2. committed < o
      BY <1>1, <1>5, <2>1, <2>4
    <3>3. QED
      BY <1>6, <3>1, <3>2, Sequence DEF Orderly
  <2>5. \A m \in Message : delivered'[m] <= 1
    BY <1>2, <1>4, <1>6, <2>1 DEF Orderly
  <2>6. QED
    BY <2>2, <2>3, <2>4, <2>5 DEF Orderly
<1>7. SeenInv'
  <2>1. \A o \in Offset : Seen(o) => Seen(o)'
    <3>1. \A m \in Message : delivered[m] > 0 => delivered'[m] > 0
      BY <1>2, <1>4
    <3>2. QED
      BY <3>1, SeenStays
  <2>2. ASSUME owner' # None, NEW o \in Offset, o < position'
        PROVE  Seen(o)' \/ (fetched'[owner'] = o /\ owner' \notin late')
    <3>1. Seen(o) \/ (fetched[owner] = o /\ owner \notin late)
      BY <2>2 DEF ServiceInv, ReadInv, SeenInv
    <3>2. CASE owner = i
      BY <2>1, <3>1, <3>2
    <3>3. CASE owner # i
      BY <1>1, <1>2, <2>1, <2>2, <3>1, <3>3 DEF ServiceInv, GroupOK
    <3>4. QED
      BY <3>2, <3>3
  <2>3. \A j \in Instance : fetched'[j] # 0 => \A o \in Offset : o < fetched'[j] => Seen(o)'
    BY <1>2, <2>1 DEF ServiceInv, ReadInv, SeenInv
  <2>4. ASSUME NEW o \in Offset, o <= committed'
        PROVE  Seen(o)'
    <3>1. o \in Nat /\ f \in Nat /\ o <= f
      BY <1>1, <1>5, <2>4
    <3>2. o < f \/ o = f
      BY ONLY <3>1
    <3>3. QED
      BY <1>5, <2>1, <3>2 DEF ServiceInv, ReadInv, SeenInv
  <2>5. QED
    BY <2>2, <2>3, <2>4 DEF SeenInv
<1>8. OnceInv'
  <2>1. CASE strayed \/ i \in late
    BY <1>1, <2>1 DEF OnceInv
  <2>2. CASE ~(strayed \/ i \in late)
    BY <1>6, <2>2 DEF ServiceInv, ReadInv, OnceInv
  <2>3. QED
    BY <2>1, <2>2
<1>9. QED
  BY <1>3, <1>7, <1>8 DEF ReadInv


\* A process is gone.
LEMMA GoneKeeps ==
    ASSUME MongoTypeOK, ServiceInv, PlaceInv', NEW i \in Instance, Gone(i),
           \A j \in Instance \ {i} : phase'[j] = phase[j]
    PROVE  ServiceInv'
<1>1. ServerOK'
  BY DEF Gone, ServiceInv, ServerOK
<1>2. GroupOK' /\ ReadInv'
  <2>1. LeaveGroup(i) /\ delivered' = delivered
    BY DEF Gone
  <2>2. \A j \in Instance \ {i} : server'[j] = server[j]
    BY DEF Gone, ServiceInv, ServerOK
  <2>3. QED
    BY <2>1, <2>2, LeaveGroupKeeps
<1>3. \A c \in Count \ At(i) : step'[c] = step[c] /\ place'[c] = place[c]
  BY DEF Gone
<1>4. \A c \in At(i) : c \in Count /\ step'[c] = "lost" /\ place'[c] = None /\ InHand(c)
  BY MongoAssumption DEF Gone, At, InHand
<1>5. WorkOK'
  <2>1. ASSUME NEW c \in Count, InHand(c)'
        PROVE  server'[place'[c]] # "off"
    <3>1. place'[c] = place[c] /\ c \notin At(i) /\ InHand(c)
      BY <1>3, <1>4, <2>1 DEF InHand
    <3>2. place[c] \in Instance \ {i}
      BY <3>1 DEF At, InHand, ServiceInv, PlaceInv
    <3>3. QED
      BY <3>1, <3>2 DEF Gone, ServiceInv, WorkOK, ServerOK
  <2>2. QED
    BY <2>1 DEF Gone, ServiceInv, WorkOK
<1>6. FreshInv'
  <2>1. \A c \in Count : step[c] = "none" => ~InHand(c)
    BY DEF ServiceInv, PlaceInv, Underway
  <2>2. QED
    BY <1>3, <1>4, <2>1 DEF Gone, ServiceInv, FreshInv
<1>7. TellingInv'
  BY <1>3, <1>4 DEF Gone, ServiceInv, TellingInv
<1>8. QED
  BY <1>1, <1>2, <1>5, <1>6, <1>7 DEF ServiceInv

\* Nothing happens to the counts.
LEMMA WorkStays ==
    ASSUME ServiceInv, UNCHANGED work,
           \A i \in Instance : server[i] # "off" => server'[i] # "off"
    PROVE  WorkOK' /\ FreshInv' /\ TellingInv'
<1>1. UNCHANGED <<place, step, attempt, telling, told, delivered>>
  BY DEF work
<1>2. \A c \in Count : InHand(c)' => InHand(c) /\ place[c] \in Instance
  BY <1>1 DEF InHand, ServiceInv, PlaceInv
<1>3. WorkOK'
  BY <1>1, <1>2 DEF ServiceInv, WorkOK
<1>4. FreshInv' /\ TellingInv'
  BY <1>1 DEF ServiceInv, FreshInv, TellingInv
<1>5. QED
  BY <1>3, <1>4

\* The server and the requests.
LEMMA MainKeeps ==
    ASSUME ServiceInv, PlaceInv', NEW i \in Instance,
           Serve(i) \/ Signal(i) \/ Close(i) \/ Answer(i)
    PROVE  ServiceInv'
<1>1. UNCHANGED <<phase, work, moves>>
  BY DEF Serve, Signal, Close, Answer, mongo
<1>2. ServerOK'
  <2>1. stops' \in 0..MaxStops
    BY ServiceAssumption DEF Serve, Signal, Close, Answer, ServiceInv, ServerOK
  <2>2. server' \in [Instance -> {"off", "serving", "closing", "draining"}]
    BY DEF Serve, Signal, Close, Answer, ServiceInv, ServerOK
  <2>3. open' \in [Instance -> BOOLEAN]
    BY DEF Serve, Signal, Close, Answer, ServiceInv, ServerOK
  <2>4. \A j \in Instance : server'[j] # "off" => phase[j] = "up"
    BY DEF Serve, Signal, Close, Answer, ServiceInv, ServerOK
  <2>5. QED
    BY <1>1, <2>1, <2>2, <2>3, <2>4 DEF ServiceInv, ServerOK
<1>3. server' = server \/ \E s \in {"serving", "closing", "draining"} : server' = [server EXCEPT ![i] = s]
  BY DEF Serve, Signal, Close, Answer
<1>4. WorkOK' /\ FreshInv' /\ TellingInv'
  <2>1. \A j \in Instance : server[j] # "off" => server'[j] # "off"
    BY <1>3 DEF ServiceInv, ServerOK
  <2>2. QED
    BY <1>1, <2>1, WorkStays
<1>5. GroupOK' /\ ReadInv'
  <2>1. delivered' = delivered
    BY <1>1 DEF work
  <2>2. CASE Close(i)
    <3>1. LeaveGroup(i) /\ \A j \in Instance \ {i} : server'[j] = server[j]
      BY <2>2 DEF Close, ServiceInv, ServerOK
    <3>2. QED
      BY <2>1, <3>1, LeaveGroupKeeps
  <2>3. CASE Serve(i) \/ Signal(i) \/ Answer(i)
    <3>1. UNCHANGED group
      BY <2>3 DEF Serve, Signal, Answer
    <3>2. \A j \in Instance : server[j] \in {"serving", "closing"} => server'[j] \in {"serving", "closing"}
      BY <2>3 DEF Serve, Signal, Answer, ServiceInv, ServerOK
    <3>3. QED
      BY <2>1, <3>1, <3>2, GroupStays
  <2>4. QED
    BY <2>2, <2>3
<1>6. QED
  BY <1>2, <1>4, <1>5 DEF ServiceInv

\* The group.
LEMMA LoopKeeps ==
    ASSUME ServiceInv, PlaceInv', NEW i \in Instance,
           Join(i) \/ Rebalance(i) \/ Fetch(i) \/ ReadMessageFails(i) \/ CommitRefused(i)
    PROVE  ServiceInv'
<1>1. UNCHANGED <<phase, server, open, work, stops>>
  BY DEF Join, Assign, Rebalance, Fetch, ReadMessageFails, CommitRefused, OtherFault, mongo
<1>2. ServerOK'
  BY <1>1, ServiceAssumption
     DEF Join, Assign, Rebalance, Fetch, ReadMessageFails, CommitRefused, ServiceInv, ServerOK
<1>3. WorkOK' /\ FreshInv' /\ TellingInv'
  BY <1>1, WorkStays
<1>4. delivered' = delivered
  BY <1>1 DEF work
<1>5. CASE Join(i) \/ Rebalance(i)
  BY <1>2, <1>3, <1>5, AssignKeeps DEF Join, Rebalance, ServiceInv
<1>6. CASE Fetch(i)
  BY <1>2, <1>3, <1>6, FetchKeeps DEF ServiceInv
<1>7. CASE CommitRefused(i)
  <2>1. /\ i \in late /\ Release(i)
        /\ UNCHANGED <<server, owner, position, committed, strayed, unread>>
    BY <1>7 DEF CommitRefused
  <2>2. fetched[i] \in Offset
    BY <2>1 DEF ServiceInv, GroupOK
  <2>3. GroupOK' /\ ReadInv'
    BY <1>4, <2>1, <2>2, ReleaseKeeps
  <2>4. QED
    BY <1>2, <1>3, <2>3 DEF ServiceInv
<1>8. CASE ReadMessageFails(i)
  <2>1. /\ fetched[i] # 0 /\ Release(i)
        /\ unread' = unread \cup {Topic[fetched[i]]}
        /\ UNCHANGED <<server, owner, position>>
    BY <1>8 DEF ReadMessageFails
  <2>2. PICK f \in Offset : fetched[i] = f
    BY <2>1 DEF ServiceInv, GroupOK
  <2>3. Topic[f] \in Message
    BY <2>2, Sequence
  <2>4. CASE Commit(i)
    <3>1. unread' \in SUBSET Message /\ unread \subseteq unread' /\ Seen(f)'
      BY <2>1, <2>2, <2>3 DEF Seen, ServiceInv, GroupOK
    <3>2. delivered' \in [Message -> 0..MaxDeliveries]
      BY <1>4 DEF ServiceInv, WorkOK
    <3>3. GroupOK' /\ ReadInv'
      BY <1>4, <2>1, <2>2, <2>4, <3>1, <3>2, CommitKeeps
    <3>4. QED
      BY <1>2, <1>3, <3>3 DEF ServiceInv
  <2>5. CASE UNCHANGED <<committed, strayed>>
    <3>1. GroupOK' /\ ReadInv'
      BY <1>4, <2>1, <2>2, <2>5, ReleaseKeeps
    <3>2. QED
      BY <1>2, <1>3, <3>1 DEF ServiceInv
  <2>6. QED
    BY <1>8, <2>4, <2>5 DEF ReadMessageFails
<1>9. QED
  BY <1>5, <1>6, <1>7, <1>8

\* The count that is handed on is one there has not been.
LEMMA ReadMessageKeeps ==
    ASSUME ServiceInv, PlaceInv', NEW i \in Instance, ReadMessage(i)
    PROVE  ServiceInv'
<1>1. /\ UNCHANGED <<mongo, server, open, owner, position, unread, stops, moves>>
      /\ fetched[i] # 0 /\ Commit(i) /\ Release(i)
  BY DEF ReadMessage
<1>2. PICK f \in Offset : fetched[i] = f
  BY <1>1 DEF ServiceInv, GroupOK
<1>3. PICK m \in Message : Topic[f] = m
  BY <1>2, Sequence
<1>4. Decode(i, m)
  BY <1>2, <1>3 DEF ReadMessage
<1>5. ServerOK'
  BY <1>1 DEF mongo, ServiceInv, ServerOK
<1>6. delivered[m] \in Nat /\ delivered[m] <= MaxDeliveries /\ MaxDeliveries \in Nat
  BY CountFacts DEF ServiceInv, WorkOK
<1>7. unread' \in SUBSET Message /\ unread \subseteq unread'
  BY <1>1 DEF ServiceInv, GroupOK
<1>8. CASE m \in Malformed /\ UNCHANGED work
  <2>1. WorkOK' /\ FreshInv' /\ TellingInv'
    BY <1>1, <1>8, WorkStays
  <2>2. delivered' = delivered
    BY <1>8 DEF work
  <2>3. delivered' \in [Message -> 0..MaxDeliveries] /\ Seen(f)'
    BY <1>3, <1>8, <2>2 DEF Seen, ServiceInv, WorkOK
  <2>4. GroupOK' /\ ReadInv'
    BY <1>1, <1>2, <1>3, <1>7, <2>2, <2>3, CommitKeeps
  <2>5. QED
    BY <1>5, <2>1, <2>4 DEF ServiceInv
<1>9. CASE m \notin Malformed /\ delivered[m] < MaxDeliveries
           /\ delivered' = [delivered EXCEPT ![m] = @ + 1]
           /\ place' = [place EXCEPT ![<<m, delivered[m] + 1>>] = i]
           /\ step' = [step EXCEPT ![<<m, delivered[m] + 1>>] = "queued"]
           /\ UNCHANGED <<attempt, telling, told>>
  <2>1. PICK n \in 1..MaxDeliveries : n = delivered[m] + 1
    BY <1>6, <1>9
  <2>2. PICK c \in Count : c = <<m, n>>
    BY <2>1, CountFacts
  <2>3. /\ delivered'[m] = n /\ delivered' \in [Message -> 0..MaxDeliveries]
        /\ \A k \in Message \ {m} : delivered'[k] = delivered[k]
    BY <1>6, <1>9, <2>1 DEF ServiceInv, WorkOK
  <2>4. c[1] = m /\ c[2] = n /\ n > delivered[m]
    BY <1>6, <2>1, <2>2
  <2>5. step[c] = "none"
    BY <2>4 DEF ServiceInv, FreshInv
  <2>6. /\ step'[c] = "queued" /\ place'[c] = i
        /\ \A d \in Count \ {c} : step'[d] = step[d] /\ place'[d] = place[d]
    BY <1>9, <2>1, <2>2 DEF ServiceInv, PlaceInv
  <2>7. WorkOK'
    <3>1. server[i] # "off"
      BY <1>1 DEF ServiceInv, GroupOK
    <3>2. \A d \in Count : InHand(d)' => server'[place'[d]] # "off"
      BY <1>1, <2>6, <3>1 DEF InHand, ServiceInv, WorkOK
    <3>3. QED
      BY <1>9, <2>3, <3>2 DEF ServiceInv, WorkOK
  <2>8. FreshInv'
    <3>1. ASSUME NEW d \in Count, d[2] > delivered'[d[1]]
          PROVE  step'[d] = "none"
      <4>1. d[1] \in Message /\ d[2] \in Nat /\ d = <<d[1], d[2]>>
        BY CountFacts
      <4>2. d # c
        <5>1. c[2] = delivered'[c[1]] /\ c[2] \in Nat
          BY <2>3, <2>4
        <5>2. QED
          BY <3>1, <5>1
      <4>3. d[2] > delivered[d[1]]
        <5>1. CASE d[1] = m
          <6>1. d[2] > n
            BY <2>3, <3>1, <5>1
          <6>2. QED
            BY <1>6, <2>1, <4>1, <5>1, <6>1
        <5>2. CASE d[1] # m
          BY <2>3, <3>1, <4>1, <5>2
        <5>3. QED
          BY <5>1, <5>2
      <4>4. QED
        BY <2>6, <4>2, <4>3 DEF ServiceInv, FreshInv
    <3>2. QED
      BY <3>1 DEF FreshInv
  <2>9. TellingInv'
    BY <1>9, <2>5, <2>6 DEF ServiceInv, TellingInv
  <2>10. Seen(f)'
    BY <1>3, <2>1, <2>3 DEF Seen
  <2>11. delivered'[m] \in {delivered[m], delivered[m] + 1}
    BY <2>1, <2>3
  <2>12. GroupOK' /\ ReadInv'
    BY <1>1, <1>2, <1>3, <1>7, <2>3, <2>10, <2>11, CommitKeeps
  <2>13. QED
    BY <1>5, <2>7, <2>8, <2>9, <2>12 DEF ServiceInv
<1>10. QED
  BY <1>4, <1>8, <1>9 DEF Decode

\* ProcessIngest of a count in hand.
LEMMA ProcessKeeps ==
    ASSUME ServiceInv, PlaceInv', NEW c \in Count, Process(c)
    PROVE  ServiceInv'
<1>1. UNCHANGED <<phase, server, open, group, delivered, stops, moves>>
  BY DEF Process, Evaluate, Land, Retry, GiveUp, Fail, Tell, TellFails, GetStats, SaveStats,
         StatsConflict, StatsFail, OtherFault, mongo
<1>2. step[c] \in Underway
  BY ProcessEffect
<1>3. /\ \A d \in Count \ {c} : step'[d] = step[d] /\ place'[d] = place[d]
      /\ place'[c] \in {place[c], None}
  BY ProcessEffect DEF Become, Leave, ServiceInv, PlaceInv
<1>4. ServerOK'
  BY <1>1 DEF ServiceInv, ServerOK
<1>5. GroupOK' /\ ReadInv'
  BY <1>1, GroupStays
<1>6. \A d \in Count : InHand(d)' => server'[place'[d]] # "off"
  BY <1>1, <1>3 DEF InHand, ServiceInv, WorkOK
<1>7. FreshInv'
  <2>1. ~(c[2] > delivered[c[1]])
    BY <1>2 DEF ServiceInv, FreshInv, Underway
  <2>2. QED
    BY <1>1, <1>3, <2>1 DEF ServiceInv, FreshInv
<1>8. CASE Tell(c) \/ TellFails(c)
  <2>1. step[c] = "notifying" /\ NextChannel(c)
    BY <1>8 DEF Tell, TellFails
  <2>2. telling[c] \in 1..Len(Channels)
    BY <2>1, Sequence DEF ServiceInv, TellingInv, WorkOK
  <2>3. telling' = [telling EXCEPT ![c] = telling[c] + 1]
    BY <2>1 DEF NextChannel
  <2>4. telling' \in [Count -> 1..(Len(Channels) + 1)]
    BY <2>2, <2>3, Sequence DEF ServiceInv, WorkOK
  <2>5. told' \in [Count -> SUBSET Channel]
    <3>1. Channels[telling[c]] \in Channel
      BY <2>2, ServiceAssumption DEF Channel
    <3>2. QED
      BY <1>8, <3>1 DEF Tell, TellFails, ServiceInv, WorkOK
  <2>6. step' = [step EXCEPT ![c] = IF telling[c] < Len(Channels) THEN "notifying" ELSE "done"]
    BY <2>1 DEF NextChannel, Become, Leave
  <2>7. TellingInv'
    BY <2>2, <2>3, <2>6, Sequence DEF ServiceInv, TellingInv, PlaceInv, WorkOK
  <2>8. WorkOK'
    BY <1>1, <1>6, <2>4, <2>5 DEF ServiceInv, WorkOK
  <2>9. QED
    BY <1>4, <1>5, <1>7, <2>7, <2>8 DEF ServiceInv
<1>9. CASE Evaluate(c) \/ Land(c) \/ Retry(c) \/ GiveUp(c) \/ Fail(c)
  <2>1. UNCHANGED <<telling, told>> /\ step[c] \in {"queued", "evaluating"}
    BY <1>9 DEF Evaluate, Land, Retry, GiveUp, Fail
  <2>2. telling[c] = 1
    BY <2>1 DEF ServiceInv, TellingInv
  <2>3. \/ step'[c] \in {"queued", "evaluating", "done", "dropped", "failed"}
        \/ Len(Channels) > 0 /\ step'[c] = "notifying"
    BY <1>9, <2>1 DEF Evaluate, Land, Retry, GiveUp, Fail, Become, Leave, ServiceInv, PlaceInv
  <2>4. TellingInv'
    BY <1>3, <2>1, <2>2, <2>3, Sequence DEF ServiceInv, TellingInv
  <2>5. WorkOK'
    BY <1>1, <1>6, <2>1 DEF ServiceInv, WorkOK
  <2>6. QED
    BY <1>4, <1>5, <1>7, <2>4, <2>5 DEF ServiceInv
<1>10. QED
  BY <1>8, <1>9 DEF Process

\* So does the state of the deployment.
LEMMA ServiceInductive == Spec => [](MongoTypeOK /\ ServiceInv)
<1>1. Init => ServiceInv
  <2> SUFFICES ASSUME Init
               PROVE  ServiceInv
    OBVIOUS
  <2>1. PlaceInv
    BY ServiceAssumption DEF Init, PlaceInv, InHand, Underway, AllSteps
  <2>2. ServerOK
    BY ServiceAssumption DEF Init, ServerOK
  <2>3. GroupOK
    <3>1. fetched \in [Instance -> {0} \cup Offset] /\ \A i \in Instance : fetched[i] = 0
      BY DEF Init
    <3>2. position \in 0..(Len(Topic) + 1)
      BY Sequence DEF Init
    <3>3. QED
      BY <3>1, <3>2 DEF Init, GroupOK
  <2>4. WorkOK
    BY Sequence, CountFacts DEF Init, InHand, WorkOK
  <2>5. FreshInv /\ TellingInv
    BY DEF Init, FreshInv, TellingInv
  <2>6. Orderly
    BY Sequence DEF Init, Orderly
  <2>7. SeenInv
    BY Sequence DEF Init, SeenInv
  <2>8. QED
    BY <2>1, <2>2, <2>3, <2>4, <2>5, <2>6, <2>7 DEF ServiceInv, ReadInv, OnceInv
<1>2. MongoTypeOK /\ ServiceInv /\ PlaceInv' /\ [Next]_vars => ServiceInv'
  <2> SUFFICES ASSUME MongoTypeOK, ServiceInv, PlaceInv', [Next]_vars
               PROVE  ServiceInv'
    OBVIOUS
  <2>1. ASSUME NEW i \in Instance, Connect(i)
        PROVE  ServiceInv'
    <3>1. UNCHANGED <<server, open, group, work, stops, moves>> /\ Setup(i)
      BY <2>1 DEF Connect
    <3>2. ServerOK'
      BY <3>1, SetupKeepsUp DEF ServiceInv, ServerOK
    <3>3. GroupOK' /\ ReadInv'
      <4>1. delivered' = delivered
        BY <3>1 DEF work
      <4>2. QED
        BY <3>1, <4>1, GroupStays
    <3>4. WorkOK' /\ FreshInv' /\ TellingInv'
      BY <3>1, WorkStays
    <3>5. QED
      BY <3>2, <3>3, <3>4 DEF ServiceInv
  <2>2. ASSUME NEW i \in Instance, Crash(i) \/ ShutdownDone(i) \/ ShutdownTimesOut(i)
        PROVE  ServiceInv'
    <3>1. Gone(i) /\ phase' = [phase EXCEPT ![i] = "down"]
      BY <2>2 DEF Crash, ShutdownDone, ShutdownTimesOut, Die, Exit, Down, Goto
    <3>2. QED
      BY <3>1, GoneKeeps DEF MongoTypeOK
  <2>3. ASSUME NEW i \in Instance, Serve(i) \/ Signal(i) \/ Close(i) \/ Answer(i)
        PROVE  ServiceInv'
    BY <2>3, MainKeeps
  <2>4. ASSUME NEW i \in Instance,
               Join(i) \/ Rebalance(i) \/ Fetch(i) \/ ReadMessageFails(i) \/ CommitRefused(i)
        PROVE  ServiceInv'
    BY <2>4, LoopKeeps
  <2>5. ASSUME NEW i \in Instance, ReadMessage(i)
        PROVE  ServiceInv'
    BY <2>5, ReadMessageKeeps
  <2>6. ASSUME NEW c \in Count, Process(c)
        PROVE  ServiceInv'
    BY <2>6, ProcessKeeps
  <2>7. CASE UNCHANGED vars
    <3>1. UNCHANGED <<phase, server, open, group, work, stops, moves>>
      BY <2>7 DEF vars, mongo
    <3>2. ServerOK'
      BY <3>1 DEF ServiceInv, ServerOK
    <3>3. delivered' = delivered
      BY <3>1 DEF work
    <3>4. GroupOK' /\ ReadInv'
      BY <3>1, <3>3, GroupStays
    <3>5. WorkOK' /\ FreshInv' /\ TellingInv'
      BY <3>1, WorkStays
    <3>6. QED
      BY <3>2, <3>4, <3>5 DEF ServiceInv
  <2>8. QED
    BY <2>1, <2>2, <2>3, <2>4, <2>5, <2>6, <2>7 DEF Next, Step, Shutdown, Loop
<1>3. Spec => []MongoTypeOK
  BY ServiceUsesMongoDB, MongoTypeCorrect, PTL
<1>4. QED
  BY <1>1, <1>2, <1>3, PlaceCorrect, PTL DEF Spec

\* The state of a deployment stays well-formed: an instance that serves has
\* connected, a count in hand is at one that has not ended, and what is fetched
\* is the group's owner's or of an earlier generation.
THEOREM ServiceTypeCorrect == Spec => []TypeOK
<1>1. MongoTypeOK /\ ServiceInv => TypeOK
  <2> SUFFICES ASSUME MongoTypeOK, ServiceInv
               PROVE  TypeOK
    OBVIOUS
  <2>1. \A c \in Count : InHand(c) =>
           step[c] \in {"queued", "evaluating", "notifying"} /\ server[place[c]] # "off"
    BY DEF ServiceInv, PlaceInv, Underway, WorkOK
  <2>2. step \in [Count -> {"none", "queued", "evaluating", "notifying",
                           "done", "dropped", "failed", "lost"}]
    BY DEF ServiceInv, PlaceInv, AllSteps
  <2>3. QED
    BY <2>1, <2>2 DEF ServiceInv, PlaceInv, ServerOK, GroupOK, WorkOK, TypeOK
<1>2. QED
  BY <1>1, ServiceInductive, PTL

\* Whatever is rebalanced, refused, fails, crashes and restarts, ProcessIngest is
\* called once at most for a message, until a commit of one generation is
\* performed in a later one.
THEOREM OnceAtMost == Spec => []AtMostOnce
<1>1. ServiceInv => AtMostOnce
  BY DEF ServiceInv, ReadInv, OnceInv, Orderly, AtMostOnce
<1>2. QED
  BY <1>1, ServiceInductive, PTL

-----------------------------------------------------------------------------
(* What an instance has in hand                                             *)

\* An instance has one count in hand, and none while it fetches; what the holder
\* of the series lock has read, it has read for that count.
HandInv ==
    /\ \A i \in Instance : \A c, d \in At(i) : c = d
    /\ \A i \in Instance : fetched[i] # 0 => At(i) = {}
    /\ \A i \in Instance : read[i] # None =>
          read[i].count \in At(i) /\ step[read[i].count] = "evaluating"
    /\ \A c \in Count : step[c] \in {"notifying", "done"} => c \in landed

\* An action that leaves hands as they are or empties them.
LEMMA HandsShrink ==
    ASSUME HandInv,
           \A c \in Count : place'[c] # None => place'[c] = place[c],
           \A c \in Count : step'[c] \in {"notifying", "done"} => step'[c] = step[c],
           \A i \in Instance : fetched'[i] # 0 => fetched[i] # 0 \/ At(i) = {},
           \A i \in Instance : read'[i] # None =>
               /\ read'[i] = read[i]
               /\ step'[read[i].count] = step[read[i].count]
               /\ place'[read[i].count] = place[read[i].count],
           landed \subseteq landed'
    PROVE  HandInv'
<1>1. \A i \in Instance : At(i)' \subseteq At(i)
  <2>1. \A i \in Instance : i # None
    BY MongoAssumption
  <2>2. QED
    BY <2>1 DEF At
<1>2. ASSUME NEW i \in Instance, read'[i] # None
      PROVE  read'[i].count \in At(i)' /\ step'[read'[i].count] = "evaluating"
  <2>1. read[i].count \in At(i) /\ step[read[i].count] = "evaluating" /\ read'[i] = read[i]
    BY <1>2 DEF HandInv
  <2>2. read[i].count \in Count /\ place[read[i].count] = i
    BY <2>1 DEF At
  <2>3. place'[read[i].count] = i /\ step'[read[i].count] = "evaluating"
    BY <1>2, <2>1, <2>2
  <2>4. QED
    BY <2>1, <2>2, <2>3 DEF At
<1>3. QED
  BY <1>1, <1>2 DEF HandInv

\* What a write adds to the counts that have landed is the count in hand.
LEMMA ProcessHands ==
    ASSUME MongoTypeOK, ServiceInv, HandInv, NEW c \in Count, Process(c)
    PROVE  /\ landed' = landed \/ landed' = landed \cup {c}
           /\ HandInv'
           /\ \A d \in Count \ {c} : step'[d] = step[d] /\ place'[d] = place[d]
<1> DEFINE i == place[c]
<1>1. i \in Instance /\ c \in At(i)
  BY ProcessEffect DEF ServiceInv, PlaceInv, At, InHand
<1>2. /\ read[i] # None => read[i].count = c /\ step[c] = "evaluating"
      /\ fetched[i] = 0
      /\ \A d \in At(i) : d = c
  BY <1>1 DEF HandInv
<1>3. fetched' = fetched
  BY DEF Process, Evaluate, Land, Retry, GiveUp, Fail, Tell, TellFails, group
<1>4. /\ \A d \in Count \ {c} : step'[d] = step[d] /\ place'[d] = place[d]
      /\ place'[c] \in {i, None}
      /\ step'[c] = "evaluating" => place'[c] = i
  BY ProcessEffect DEF Become, Leave, ServiceInv, PlaceInv
<1>5. \A j \in Instance \ {i} : read'[j] = read[j]
  BY DEF Process, Evaluate, Land, Retry, GiveUp, Fail, Tell, TellFails, GetStats, SaveStats,
         StatsConflict, StatsFail, OtherFault, mongo, MongoTypeOK
<1>6. landed' = landed \/ landed' = landed \cup {c}
  <2>1. \/ landed' = landed
        \/ read[i] # None /\ landed' = landed \cup {read[i].count}
    BY DEF Process, Evaluate, Land, Retry, GiveUp, Fail, Tell, TellFails, GetStats, SaveStats,
           StatsConflict, StatsFail, OtherFault, Perform, mongo
  <2>2. QED
    BY <1>2, <2>1
<1>7. read'[i] # None => read'[i].count = c /\ step'[c] = "evaluating"
  <2>1. CASE Evaluate(c)
    <3>1. GetStats(i, c) /\ step'[c] = "evaluating"
      BY <2>1 DEF Evaluate, Become, ServiceInv, PlaceInv
    <3>2. QED
      BY <3>1, <1>1 DEF GetStats, MongoTypeOK
  <2>2. CASE Land(c) \/ Retry(c) \/ GiveUp(c) \/ Fail(c)
    BY <2>2, <1>1 DEF Land, Retry, GiveUp, Fail, SaveStats, StatsConflict, StatsFail, MongoTypeOK
  <2>3. CASE Tell(c) \/ TellFails(c)
    BY <2>3, <1>2 DEF Tell, TellFails, OtherFault, mongo
  <2>4. QED
    BY <2>1, <2>2, <2>3 DEF Process
<1>8. step'[c] \in {"notifying", "done"} => c \in landed'
  <2>1. CASE Land(c)
    <3>1. read[i] # None /\ landed' = landed \cup {read[i].count}
      BY <2>1 DEF Land, SaveStats, Perform
    <3>2. QED
      BY <3>1, <1>2
  <2>2. CASE Tell(c) \/ TellFails(c)
    BY <2>2, <1>6 DEF Tell, TellFails, HandInv
  <2>3. CASE Evaluate(c) \/ Retry(c) \/ GiveUp(c) \/ Fail(c)
    BY <2>3 DEF Evaluate, Retry, GiveUp, Fail, Become, Leave, ServiceInv, PlaceInv
  <2>4. QED
    BY <2>1, <2>2, <2>3 DEF Process
<1> HIDE DEF i
<1>9. \A j \in Instance : j # None
  BY MongoAssumption
<1>10. \A j \in Instance : At(j)' \subseteq At(j)
  BY <1>1, <1>4, <1>9 DEF At
<1>11. ASSUME NEW j \in Instance, read'[j] # None
       PROVE  read'[j].count \in At(j)' /\ step'[read'[j].count] = "evaluating"
  <2>1. CASE j = i
    BY <1>4, <1>7, <1>11, <2>1 DEF At
  <2>2. CASE j # i
    <3>1. read'[j] = read[j] /\ read[j].count \in At(j) /\ step[read[j].count] = "evaluating"
      BY <1>5, <1>11, <2>2 DEF HandInv
    <3>2. read[j].count \in Count /\ read[j].count # c /\ place[read[j].count] = j
      BY <1>1, <2>2, <3>1 DEF At
    <3>3. QED
      BY <1>4, <3>1, <3>2 DEF At
  <2>3. QED
    BY <2>1, <2>2
<1>12. \A d \in Count : step'[d] \in {"notifying", "done"} => d \in landed'
  BY <1>4, <1>6, <1>8 DEF HandInv
<1>13. HandInv'
  BY <1>3, <1>10, <1>11, <1>12 DEF HandInv
<1>14. QED
  BY <1>4, <1>6, <1>13

\* What ReadMessage hands on, if anything, is a delivery that has not been made.
LEMMA HandedOn ==
    ASSUME ServiceInv, NEW i \in Instance, ReadMessage(i)
    PROVE  \/ UNCHANGED work /\ Topic[fetched[i]] \in Malformed
           \/ \E c \in Count :
                 /\ c[1] = Topic[fetched[i]] /\ step[c] = "none"
                 /\ place' = [place EXCEPT ![c] = i]
                 /\ step' = [step EXCEPT ![c] = "queued"]
                 /\ UNCHANGED <<attempt, telling, told>>
<1>1. PICK m \in Message : Topic[fetched[i]] = m
  BY Sequence DEF ReadMessage, ServiceInv, GroupOK
<1>2. Decode(i, m)
  BY <1>1 DEF ReadMessage
<1>3. delivered[m] \in Nat /\ MaxDeliveries \in Nat
  BY CountFacts DEF ServiceInv, WorkOK
<1>4. CASE m \notin Malformed /\ delivered[m] < MaxDeliveries
           /\ place' = [place EXCEPT ![<<m, delivered[m] + 1>>] = i]
           /\ step' = [step EXCEPT ![<<m, delivered[m] + 1>>] = "queued"]
           /\ UNCHANGED <<attempt, telling, told>>
  <2>1. PICK n \in 1..MaxDeliveries : n = delivered[m] + 1
    BY <1>3, <1>4
  <2>2. PICK c \in Count : c = <<m, n>>
    BY <2>1, CountFacts
  <2>3. c[1] = m /\ c[2] > delivered[m]
    BY <1>3, <2>1, <2>2
  <2>4. step[c] = "none"
    BY <2>3 DEF ServiceInv, FreshInv
  <2>5. QED
    BY <1>1, <1>4, <2>1, <2>2, <2>3, <2>4
<1>5. QED
  BY <1>1, <1>2, <1>4 DEF Decode

\* What is in hand is at a live instance, whatever happens to the others.
LEMMA HandStep ==
    ASSUME MongoTypeOK, ServiceInv, HandInv, [Next]_vars
    PROVE  HandInv'
<1>1. ASSUME NEW i \in Instance, Gone(i), landed' = landed, read' = [read EXCEPT ![i] = None]
      PROVE  HandInv'
  <2>1. \A j \in Instance : read'[j] # None => j # i /\ read'[j] = read[j]
    BY <1>1 DEF MongoTypeOK
  <2>2. ASSUME NEW j \in Instance, read'[j] # None
        PROVE  /\ step'[read[j].count] = step[read[j].count]
               /\ place'[read[j].count] = place[read[j].count]
    <3>1. read[j].count \in At(j) /\ j # i
      BY <2>1, <2>2 DEF HandInv
    <3>2. read[j].count \in Count /\ read[j].count \notin At(i)
      BY <3>1 DEF At
    <3>3. QED
      BY <1>1, <3>2 DEF Gone
  <2>3. \A c \in Count : step'[c] = step[c] \/ step'[c] = "lost"
    BY <1>1 DEF Gone
  <2>4. \A c \in Count : place'[c] # None => place'[c] = place[c]
    BY <1>1 DEF Gone
  <2>5. \A j \in Instance : fetched'[j] # 0 => fetched[j] # 0
    BY <1>1 DEF Gone, LeaveGroup, Release, ServiceInv, GroupOK
  <2>6. QED
    BY <1>1, <2>1, <2>2, <2>3, <2>4, <2>5, HandsShrink
<1>2. ASSUME UNCHANGED <<read, landed, work>>,
             \A i \in Instance : fetched'[i] # 0 => fetched[i] # 0 \/ At(i) = {}
      PROVE  HandInv'
  <2>1. UNCHANGED <<place, step>>
    BY <1>2 DEF work
  <2>2. QED
    BY <1>2, <2>1, HandsShrink
<1>3. ASSUME NEW i \in Instance, Connect(i)
      PROVE  HandInv'
  <2>1. UNCHANGED <<read, landed>>
    BY <1>3 DEF Connect, Setup, Start, Ping, ListCollections, CreateCollection, CollectionExists,
       ConnectFails, CreateIndex, Conflict, CannotBuild, DropIndex, DropFindsNone, Rebuild,
       IndexFails, Expire
  <2>2. UNCHANGED <<fetched, work>>
    BY <1>3 DEF Connect, group
  <2>3. QED
    BY <1>2, <2>1, <2>2
<1>4. ASSUME NEW i \in Instance, Serve(i) \/ Signal(i) \/ Close(i) \/ Answer(i)
      PROVE  HandInv'
  <2>1. UNCHANGED <<read, landed, work>>
    BY <1>4 DEF Serve, Signal, Close, Answer, mongo
  <2>2. \A j \in Instance : fetched'[j] # 0 => fetched[j] # 0
    BY <1>4 DEF Serve, Signal, Close, Answer, group, LeaveGroup, Release, ServiceInv, GroupOK
  <2>3. QED
    BY <1>2, <2>1, <2>2
<1>5. ASSUME NEW i \in Instance,
             Join(i) \/ Rebalance(i) \/ Fetch(i) \/ ReadMessageFails(i) \/ CommitRefused(i)
      PROVE  HandInv'
  <2>1. UNCHANGED <<read, landed, work>>
    BY <1>5 DEF Join, Assign, Rebalance, Fetch, ReadMessageFails, CommitRefused, OtherFault, mongo
  <2>2. \A j \in Instance : fetched'[j] # 0 => fetched[j] # 0 \/ At(j) = {}
    BY <1>5 DEF Join, Assign, Rebalance, Fetch, Idle, ReadMessageFails, CommitRefused, Release,
                ServiceInv, GroupOK
  <2>3. QED
    BY <1>2, <2>1, <2>2
<1>6. ASSUME NEW i \in Instance, ReadMessage(i)
      PROVE  HandInv'
  <2>1. /\ UNCHANGED <<read, landed>> /\ fetched[i] # 0
        /\ Decode(i, Topic[fetched[i]]) /\ fetched' = [fetched EXCEPT ![i] = 0]
    BY <1>6 DEF ReadMessage, Release, mongo
  <2>2. \A j \in Instance : fetched'[j] # 0 => j # i /\ fetched[j] # 0
    BY <2>1 DEF ServiceInv, GroupOK
  <2>3. CASE UNCHANGED work
    BY <1>2, <2>1, <2>2, <2>3
  <2>4. ASSUME NEW c \in Count, step[c] = "none",
               place' = [place EXCEPT ![c] = i], step' = [step EXCEPT ![c] = "queued"]
        PROVE  HandInv'
    <3>1. At(i) = {}
      BY <2>1 DEF HandInv
    <3>2. \A d \in Count \ {c} : step'[d] = step[d] /\ place'[d] = place[d]
      BY <2>4 DEF ServiceInv, PlaceInv
    <3>3. place'[c] = i /\ step'[c] = "queued"
      BY <2>4 DEF ServiceInv, PlaceInv
    <3>4. \A j \in Instance : c \notin At(j)
      BY <2>4, MongoAssumption DEF At, ServiceInv, PlaceInv, InHand, Underway
    <3>5. \A j \in Instance \ {i} : At(j)' = At(j)
      BY <3>2, <3>3, <3>4 DEF At
    <3>6. At(i)' \subseteq {c}
      BY <3>1, <3>2 DEF At
    <3>7. ASSUME NEW j \in Instance, read'[j] # None
          PROVE  read'[j].count \in At(j)' /\ step'[read'[j].count] = "evaluating"
      <4>1. read[j].count \in At(j) /\ step[read[j].count] = "evaluating"
        BY <2>1, <3>7 DEF HandInv
      <4>2. j # i /\ read[j].count \in Count \ {c}
        BY <3>1, <3>4, <4>1 DEF At
      <4>3. QED
        BY <2>1, <3>2, <3>5, <4>1, <4>2
    <3>8. \A d \in Count : step'[d] \in {"notifying", "done"} => d \in landed'
      BY <2>1, <3>2, <3>3 DEF HandInv
    <3>9. QED
      BY <2>2, <3>5, <3>6, <3>7, <3>8 DEF HandInv
  <2>5. QED
    BY <1>6, <2>3, <2>4, HandedOn
<1>7. CASE UNCHANGED vars
  BY <1>2, <1>7 DEF vars, mongo, group
<1>8. ASSUME NEW i \in Instance, Crash(i) \/ ShutdownDone(i) \/ ShutdownTimesOut(i)
      PROVE  HandInv'
  BY <1>1, <1>8 DEF Crash, ShutdownDone, ShutdownTimesOut, Die, Exit, Down
<1>9. QED
  BY <1>3, <1>4, <1>5, <1>6, <1>7, <1>8, ProcessHands DEF Next, Step, Shutdown, Loop

-----------------------------------------------------------------------------
(* What failures, shutdowns and counts that are given up cost               *)

\* Instances on their way out.
Stopping == {i \in Instance : server[i] \in {"closing", "draining"}}

\* The message was handed on, or reading it failed.
Known(m) == m \in unread \/ delivered[m] > 0

\* Messages done with and not in the baseline, whether the offset is past them
\* or not.
Gap == {m \in Message : m \notin Malformed /\ Known(m) /\ ~Accounted(m)}

\* A shutdown has paid for the message that its instance may have in hand.
LossInv ==
    /\ IsFiniteSet(Gap) /\ IsFiniteSet(Stopping) /\ IsFiniteSet(Dropped)
    /\ Cardinality(Gap) + Cardinality(Stopping) <= faults + stops + Cardinality(Dropped)

\* A part is no larger than the whole.
LEMMA NoMore ==
    ASSUME NEW S, IsFiniteSet(S), NEW T \in SUBSET S
    PROVE  IsFiniteSet(T) /\ Cardinality(T) \in Nat /\ Cardinality(S) \in Nat
           /\ Cardinality(T) <= Cardinality(S)
BY FS_Subset, FS_CardinalityType

\* One element more is at most one more.
LEMMA AtMostOneMore ==
    ASSUME NEW S, IsFiniteSet(S), NEW x, NEW T \in SUBSET (S \cup {x})
    PROVE  IsFiniteSet(T) /\ Cardinality(T) \in Nat /\ Cardinality(S) \in Nat
           /\ Cardinality(T) <= Cardinality(S) + 1
<1>1. IsFiniteSet(S \cup {x}) /\ Cardinality(S) \in Nat
      /\ Cardinality(S \cup {x}) <= Cardinality(S) + 1
  <2>1. Cardinality(S) \in Nat
    BY FS_CardinalityType
  <2>2. /\ IsFiniteSet(S \cup {x})
        /\ Cardinality(S \cup {x}) = IF x \in S THEN Cardinality(S) ELSE Cardinality(S) + 1
    BY FS_AddElement
  <2>3. QED
    BY <2>1, <2>2
<1>2. IsFiniteSet(T) /\ Cardinality(T) \in Nat /\ Cardinality(T) <= Cardinality(S \cup {x})
  BY <1>1, FS_Subset, FS_CardinalityType
<1>3. Cardinality(S \cup {x}) \in Nat
  BY <1>1, FS_CardinalityType
<1>4. QED
  BY <1>1, <1>2, <1>3

\* The counters of failures and shutdowns are numbers.
LEMMA Counters ==
    ASSUME MongoTypeOK, ServiceInv
    PROVE  faults \in Nat /\ stops \in Nat
BY MongoAssumption, ServiceAssumption DEF MongoTypeOK, ServiceInv, ServerOK

\* An action that leaves nothing out costs nothing, ...
LEMMA NothingLost ==
    ASSUME MongoTypeOK, ServiceInv, LossInv, MongoTypeOK', Gap' \subseteq Gap,
           Stopping' \subseteq Stopping, faults <= faults', stops' = stops, Dropped' = Dropped
    PROVE  LossInv'
<1>1. IsFiniteSet(Gap') /\ Cardinality(Gap') \in Nat /\ Cardinality(Gap) \in Nat
      /\ Cardinality(Gap') <= Cardinality(Gap)
  BY NoMore DEF LossInv
<1>2. IsFiniteSet(Stopping') /\ Cardinality(Stopping') \in Nat /\ Cardinality(Stopping) \in Nat
      /\ Cardinality(Stopping') <= Cardinality(Stopping)
  BY NoMore DEF LossInv
<1>3. faults \in Nat /\ stops \in Nat /\ faults' \in Nat /\ Cardinality(Dropped) \in Nat
  BY Counters, MongoAssumption, FS_CardinalityType DEF MongoTypeOK, LossInv
<1>4. QED
  BY <1>1, <1>2, <1>3 DEF LossInv

\* ... a failure costs one message, ...
LEMMA LostByFault ==
    ASSUME MongoTypeOK, ServiceInv, LossInv, NEW x,
           Gap' \subseteq Gap \cup {x}, Stopping' \subseteq Stopping,
           faults' = faults + 1, stops' = stops, Dropped' = Dropped
    PROVE  LossInv'
<1>1. IsFiniteSet(Gap') /\ Cardinality(Gap') \in Nat /\ Cardinality(Gap) \in Nat
      /\ Cardinality(Gap') <= Cardinality(Gap) + 1
  BY AtMostOneMore DEF LossInv
<1>2. IsFiniteSet(Stopping') /\ Cardinality(Stopping') \in Nat /\ Cardinality(Stopping) \in Nat
      /\ Cardinality(Stopping') <= Cardinality(Stopping)
  BY NoMore DEF LossInv
<1>3. faults \in Nat /\ stops \in Nat /\ Cardinality(Dropped) \in Nat
  BY Counters, FS_CardinalityType DEF LossInv
<1>4. QED
  BY <1>1, <1>2, <1>3 DEF LossInv

\* ... so does a count that is given up, ...
LEMMA LostByGivingUp ==
    ASSUME MongoTypeOK, ServiceInv, LossInv, NEW x, NEW c,
           Gap' \subseteq Gap \cup {x}, Stopping' \subseteq Stopping,
           faults' = faults, stops' = stops, c \notin Dropped, Dropped' = Dropped \cup {c}
    PROVE  LossInv'
<1>1. IsFiniteSet(Gap') /\ Cardinality(Gap') \in Nat /\ Cardinality(Gap) \in Nat
      /\ Cardinality(Gap') <= Cardinality(Gap) + 1
  BY AtMostOneMore DEF LossInv
<1>2. IsFiniteSet(Stopping') /\ Cardinality(Stopping') \in Nat /\ Cardinality(Stopping) \in Nat
      /\ Cardinality(Stopping') <= Cardinality(Stopping)
  BY NoMore DEF LossInv
<1>3. /\ IsFiniteSet(Dropped') /\ Cardinality(Dropped') = Cardinality(Dropped) + 1
      /\ Cardinality(Dropped) \in Nat
  BY FS_AddElement, FS_CardinalityType DEF LossInv
<1>4. faults \in Nat /\ stops \in Nat
  BY Counters
<1>5. QED
  BY <1>1, <1>2, <1>3, <1>4 DEF LossInv

\* ... and the end of a shutdown costs what its signal has paid for.
LEMMA LostByShutdown ==
    ASSUME MongoTypeOK, ServiceInv, LossInv, NEW x, NEW i \in Stopping,
           Gap' \subseteq Gap \cup {x}, Stopping' = Stopping \ {i},
           faults' = faults, stops' = stops, Dropped' = Dropped
    PROVE  LossInv'
<1>1. IsFiniteSet(Gap') /\ Cardinality(Gap') \in Nat /\ Cardinality(Gap) \in Nat
      /\ Cardinality(Gap') <= Cardinality(Gap) + 1
  BY AtMostOneMore DEF LossInv
<1>2. IsFiniteSet(Stopping') /\ Cardinality(Stopping') = Cardinality(Stopping) - 1
      /\ Cardinality(Stopping) \in Nat
  BY FS_RemoveElement, FS_CardinalityType DEF LossInv
<1>3. faults \in Nat /\ stops \in Nat /\ Cardinality(Dropped) \in Nat
  BY Counters, FS_CardinalityType DEF LossInv
<1>4. QED
  BY <1>1, <1>2, <1>3 DEF LossInv

\* Gap grows by nothing but the messages in L while no other becomes known and
\* no other leaves the hands.
LEMMA GapShrinks ==
    ASSUME NEW L, landed \subseteq landed',
           \A m \in Message : Known(m)' =>
               Known(m) \/ m \in Malformed \cup L \/ \E c \in Count : c[1] = m /\ InHand(c)',
           \A c \in Count : InHand(c) => InHand(c)' \/ c \in landed' \/ c[1] \in L
    PROVE  Gap' \subseteq Gap \cup L
<1>1. ASSUME NEW m \in Gap', m \notin L
      PROVE  m \in Gap
  <2>1. m \in Message /\ m \notin Malformed /\ Known(m)'
    BY DEF Gap
  <2>2. \A c \in Count : c[1] = m => c \notin landed' /\ ~InHand(c)'
    BY DEF Gap, Accounted
  <2>3. Known(m)
    BY <1>1, <2>1, <2>2
  <2>4. ~Accounted(m)
    BY <1>1, <2>2 DEF Accounted
  <2>5. QED
    BY <2>1, <2>3, <2>4 DEF Gap
<1>2. QED
  BY <1>1

\* What is lost, or about to be, is owed to a failure, a shutdown or a count
\* that is given up.
LEMMA LossStep ==
    ASSUME MongoTypeOK, ServiceInv, HandInv, LossInv, MongoTypeOK', ServiceInv', [Next]_vars
    PROVE  LossInv'
<1>0. faults \in Nat
  BY Counters
\* An instance that ends.
<1>1. ASSUME NEW i \in Instance, Gone(i), landed' = landed
      PROVE  (\E x : Gap' \subseteq Gap \cup {x}) /\ Dropped' = Dropped /\ stops' = stops
  <2> DEFINE L == {c[1] : c \in At(i)}
  <2>1. UNCHANGED <<unread, delivered, stops>>
    BY <1>1 DEF Gone, LeaveGroup
  <2>2. \A m \in Message : Known(m)' => Known(m)
    BY <2>1 DEF Known
  <2>3. \A c \in Count : InHand(c) => InHand(c)' \/ c[1] \in L
    BY <1>1 DEF Gone, InHand
  <2>4. \E x : L \subseteq {x}
    <3>1. CASE At(i) = {}
      BY <3>1
    <3>2. CASE At(i) # {}
      <4>1. PICK c : c \in At(i)
        BY <3>2
      <4>2. \A d \in At(i) : d = c
        BY <4>1 DEF HandInv
      <4>3. L \subseteq {c[1]}
        BY <4>2
      <4>4. QED
        BY <4>3
    <3>3. QED
      BY <3>1, <3>2
  <2> HIDE DEF L
  <2>5. Gap' \subseteq Gap \cup L
    BY <1>1, <2>2, <2>3, GapShrinks
  <2>6. \A c \in At(i) : step[c] # "dropped"
    BY MongoAssumption DEF At, ServiceInv, PlaceInv, InHand, Underway
  <2>7. Dropped' = Dropped
    BY <1>1, <2>6 DEF Gone, Dropped
  <2>8. QED
    BY <2>1, <2>4, <2>5, <2>7
<1>2. ASSUME NEW i \in Instance, Crash(i)
      PROVE  LossInv'
  <2>1. Gone(i) /\ landed' = landed /\ faults' = faults + 1
    BY <1>2 DEF Crash, Die, Down, Fault
  <2>2. PICK x : Gap' \subseteq Gap \cup {x} /\ Dropped' = Dropped /\ stops' = stops
    BY <2>1, <1>1
  <2>3. Stopping' \subseteq Stopping
    BY <2>1 DEF Gone, Stopping, ServiceInv, ServerOK
  <2>4. QED
    BY <2>1, <2>2, <2>3, LostByFault
<1>3. ASSUME NEW i \in Instance, ShutdownDone(i) \/ ShutdownTimesOut(i)
      PROVE  LossInv'
  <2>1. Gone(i) /\ landed' = landed /\ faults' = faults /\ i \in Stopping
    BY <1>3 DEF ShutdownDone, ShutdownTimesOut, Exit, Down, Stopping
  <2>2. PICK x : Gap' \subseteq Gap \cup {x} /\ Dropped' = Dropped /\ stops' = stops
    BY <2>1, <1>1
  <2>3. Stopping' = Stopping \ {i}
    BY <2>1 DEF Gone, Stopping, ServiceInv, ServerOK
  <2>4. QED
    BY <2>1, <2>2, <2>3, LostByShutdown
\* main and Connect, and the group while nothing is read.
<1>4. ASSUME UNCHANGED <<work, landed, unread>>
      PROVE  Gap' \subseteq Gap /\ Dropped' = Dropped
  <2>1. UNCHANGED <<place, step, delivered>>
    BY <1>4 DEF work
  <2>2. \A m \in Message : Known(m)' => Known(m)
    BY <1>4, <2>1 DEF Known
  <2>3. \A c \in Count : InHand(c) => InHand(c)'
    BY <2>1 DEF InHand
  <2>4. Gap' \subseteq Gap \cup {}
    BY <1>4, <2>2, <2>3, GapShrinks
  <2>5. QED
    BY <2>1, <2>4 DEF Dropped
<1>5. ASSUME NEW i \in Instance,
             \/ Serve(i) \/ Answer(i) \/ Close(i)
             \/ Join(i) \/ Rebalance(i) \/ Fetch(i) \/ CommitRefused(i)
      PROVE  LossInv'
  <2>1. UNCHANGED <<work, landed, unread, stops, faults>>
    BY <1>5 DEF Serve, Answer, Close, LeaveGroup, Join, Rebalance, Assign, Fetch, CommitRefused,
       mongo, group
  <2>2. Stopping' \subseteq Stopping
    BY <1>5 DEF Serve, Answer, Close, Join, Rebalance, Assign, Fetch, CommitRefused, Stopping,
       ServiceInv, ServerOK
  <2>3. QED
    BY <1>0, <1>4, <2>1, <2>2, NothingLost
<1>6. ASSUME NEW i \in Instance, Connect(i)
      PROVE  LossInv'
  <2>1. UNCHANGED <<work, landed, unread, stops, server>> /\ (faults' = faults \/ Fault)
    BY <1>6 DEF Connect, Setup, Start, Ping, ListCollections, CreateCollection, CollectionExists,
       ConnectFails, CreateIndex, Conflict, CannotBuild, DropIndex, DropFindsNone, Rebuild,
       IndexFails, Expire, group
  <2>2. Stopping' \subseteq Stopping
    BY <2>1 DEF Stopping
  <2>3. faults <= faults'
    BY <1>0, <2>1 DEF Fault
  <2>4. QED
    BY <1>4, <2>1, <2>2, <2>3, NothingLost
<1>7. ASSUME NEW i \in Instance, Signal(i)
      PROVE  LossInv'
  <2>1. UNCHANGED <<work, landed, unread, faults>> /\ stops' = stops + 1
        /\ Stopping' \subseteq Stopping \cup {i}
    BY <1>7 DEF Signal, mongo, group, Stopping, ServiceInv, ServerOK
  <2>2. IsFiniteSet(Stopping') /\ Cardinality(Stopping') \in Nat /\ Cardinality(Stopping) \in Nat
        /\ Cardinality(Stopping') <= Cardinality(Stopping) + 1
    BY <2>1, AtMostOneMore DEF LossInv
  <2>3. IsFiniteSet(Gap') /\ Cardinality(Gap') \in Nat /\ Cardinality(Gap) \in Nat
        /\ Cardinality(Gap') <= Cardinality(Gap)
    BY <1>4, <2>1, NoMore DEF LossInv
  <2>4. Dropped' = Dropped /\ IsFiniteSet(Dropped) /\ Cardinality(Dropped) \in Nat
    BY <1>4, <2>1, FS_CardinalityType DEF LossInv
  <2>5. QED
    BY <2>1, <2>2, <2>3, <2>4, Counters DEF LossInv
\* ReadMessage.
<1>8. ASSUME NEW i \in Instance, ReadMessage(i)
      PROVE  LossInv'
  <2>1. UNCHANGED <<landed, faults, server, stops, unread>> /\ Decode(i, Topic[fetched[i]])
    BY <1>8 DEF ReadMessage, mongo
  <2>2. Stopping' \subseteq Stopping
    BY <2>1 DEF Stopping
  <2>3. CASE UNCHANGED work
    BY <1>0, <1>4, <2>1, <2>2, <2>3, NothingLost
  <2>4. ASSUME NEW c \in Count, c[1] = Topic[fetched[i]], step[c] = "none",
               place' = [place EXCEPT ![c] = i], step' = [step EXCEPT ![c] = "queued"]
        PROVE  LossInv'
    <3>1. place'[c] = i /\ i # None /\ \A d \in Count \ {c} : place'[d] = place[d]
      BY <2>4, MongoAssumption DEF ServiceInv, PlaceInv
    <3>2. \A m \in Message \ {c[1]} : delivered'[m] = delivered[m]
      BY <2>1, <2>4 DEF Decode, work, ServiceInv, WorkOK
    <3>3. \A m \in Message : Known(m)' => Known(m) \/ \E d \in Count : d[1] = m /\ InHand(d)'
      BY <2>1, <3>1, <3>2 DEF Known, InHand
    <3>4. \A d \in Count : InHand(d) => InHand(d)'
      BY <3>1 DEF InHand
    <3>5. Gap' \subseteq Gap \cup {}
      BY <2>1, <3>3, <3>4, GapShrinks
    <3>6. Dropped' = Dropped
      BY <2>4 DEF Dropped, ServiceInv, PlaceInv
    <3>7. QED
      BY <1>0, <2>1, <2>2, <3>5, <3>6, NothingLost
  <2>5. QED
    BY <1>8, <2>3, <2>4, HandedOn
<1>9. ASSUME NEW i \in Instance, ReadMessageFails(i)
      PROVE  LossInv'
  <2>1. /\ UNCHANGED <<landed, server, stops, work>> /\ faults' = faults + 1
        /\ unread' = unread \cup {Topic[fetched[i]]}
    BY <1>9 DEF ReadMessageFails, OtherFault, Fault
  <2>2. UNCHANGED <<place, step, delivered>>
    BY <2>1 DEF work
  <2>3. PICK x : x = Topic[fetched[i]]
    OBVIOUS
  <2>4. \A m \in Message : Known(m)' => Known(m) \/ m \in {x}
    BY <2>1, <2>2, <2>3 DEF Known
  <2>5. \A c \in Count : InHand(c) => InHand(c)'
    BY <2>2 DEF InHand
  <2>6. Gap' \subseteq Gap \cup {x}
    BY <2>1, <2>4, <2>5, GapShrinks
  <2>7. Dropped' = Dropped /\ Stopping' \subseteq Stopping
    BY <2>1, <2>2 DEF Dropped, Stopping
  <2>8. QED
    BY <2>1, <2>6, <2>7, LostByFault
\* ProcessIngest.
<1>10. ASSUME NEW c \in Count, Process(c)
       PROVE  LossInv'
  <2>1. UNCHANGED <<server, unread, stops, delivered>>
    BY <1>10 DEF Process, Evaluate, Land, Retry, GiveUp, Fail, Tell, TellFails, group
  <2>2. Stopping' \subseteq Stopping
    BY <2>1 DEF Stopping
  <2>3. \A m \in Message : Known(m)' => Known(m)
    BY <2>1 DEF Known
  <2>4. /\ landed \subseteq landed' /\ HandInv'
        /\ \A d \in Count \ {c} : step'[d] = step[d] /\ place'[d] = place[d]
    BY <1>10, ProcessHands
  <2>5. Gap' \subseteq Gap \cup {c[1]}
    <3>1. \A d \in Count : InHand(d) => InHand(d)' \/ d[1] \in {c[1]}
      BY <2>4 DEF InHand
    <3>2. QED
      BY <2>3, <2>4, <3>1, GapShrinks
  <2>6. step[c] \in Underway
    BY <1>10, ProcessEffect
  <2>7. step'[c] # "dropped" => Dropped' = Dropped
    BY <2>4, <2>6 DEF Dropped, Underway
  <2>8. CASE Fail(c)
    <3>1. faults' = faults + 1 /\ step'[c] = "failed"
      BY <2>8 DEF Fail, StatsFail, Fault, Leave, ServiceInv, PlaceInv
    <3>2. QED
      BY <2>1, <2>2, <2>5, <2>7, <3>1, LostByFault
  <2>9. CASE GiveUp(c)
    <3>1. faults' = faults /\ step'[c] = "dropped"
      BY <2>9 DEF GiveUp, StatsConflict, Leave, ServiceInv, PlaceInv
    <3>2. c \notin Dropped /\ Dropped' = Dropped \cup {c}
      BY <2>4, <2>6, <3>1 DEF Dropped, Underway
    <3>3. QED
      BY <2>1, <2>2, <2>5, <3>1, <3>2, LostByGivingUp
  <2>10. CASE Evaluate(c) \/ Land(c) \/ Retry(c) \/ Tell(c) \/ TellFails(c)
    <3>1. step'[c] \in {"evaluating", "notifying", "done"}
      BY <2>10 DEF Evaluate, Land, Retry, Tell, TellFails, NextChannel, Become, Leave,
                   ServiceInv, PlaceInv
    <3>2. InHand(c)' \/ c \in landed'
      BY <2>4, <3>1 DEF HandInv, ServiceInv, PlaceInv, Underway
    <3>3. \A d \in Count : InHand(d) => InHand(d)' \/ d \in landed'
      BY <2>4, <3>2 DEF InHand
    <3>4. Gap' \subseteq Gap \cup {}
      BY <2>3, <2>4, <3>3, GapShrinks
    <3>5. faults <= faults'
      BY <1>0, <2>10 DEF Evaluate, Land, Retry, Tell, TellFails, GetStats, SaveStats,
                         StatsConflict, OtherFault, Fault, mongo
    <3>6. QED
      BY <2>1, <2>2, <2>7, <3>1, <3>4, <3>5, NothingLost
  <2>11. QED
    BY <1>10, <2>8, <2>9, <2>10 DEF Process
<1>11. CASE UNCHANGED vars
  <2>1. UNCHANGED <<work, landed, unread, stops, faults, server>>
    BY <1>11 DEF vars, mongo, group
  <2>2. Stopping' \subseteq Stopping
    BY <2>1 DEF Stopping
  <2>3. QED
    BY <1>0, <1>4, <2>1, <2>2, NothingLost
<1>12. QED
  BY <1>2, <1>3, <1>5, <1>6, <1>7, <1>8, <1>9, <1>10, <1>11 DEF Next, Step, Shutdown, Loop

\* So it is throughout.
LEMMA LossInductive == Spec => [](HandInv /\ LossInv)
<1>1. Init => HandInv /\ LossInv
  <2> SUFFICES ASSUME Init
               PROVE  HandInv /\ LossInv
    OBVIOUS
  <2>1. HandInv
    BY MongoAssumption DEF Init, MongoInit, HandInv, At
  <2>2. Stopping = {} /\ Dropped = {}
    BY DEF Init, Stopping, Dropped
  <2>3. Gap = {}
    BY DEF Init, Gap, Known
  <2>4. faults \in Nat /\ stops = 0
    BY DEF Init, MongoInit, WasUnguarded
  <2>5. QED
    BY <2>1, <2>2, <2>3, <2>4, FS_EmptySet DEF LossInv
<1>2. MongoTypeOK /\ ServiceInv /\ HandInv /\ LossInv /\ [Next]_vars /\ MongoTypeOK' /\ ServiceInv'
         => HandInv' /\ LossInv'
  BY HandStep, LossStep
<1>3. QED
  BY <1>1, <1>2, ServiceInductive, PTL DEF Spec

\* Each failure, each shutdown and each count that lost all its attempts costs
\* one message at most, and nothing else does, whatever the topic holds, however
\* the partition moves and whichever generation commits.
THEOREM LossBounded == Spec => []LossesAreBounded
<1>1. MongoTypeOK /\ ServiceInv /\ LossInv => LossesAreBounded
  <2> SUFFICES ASSUME MongoTypeOK, ServiceInv, LossInv
               PROVE  Cardinality(Missing) <= faults + stops + Cardinality(Dropped)
    BY DEF LossesAreBounded
  <2>1. ASSUME NEW m \in Missing
        PROVE  m \in Gap
    <3>1. PICK o \in Offset : /\ Topic[o] = m /\ o <= committed
                              /\ m \notin Malformed /\ ~Accounted(m)
      BY DEF Missing
    <3>2. Seen(o)
      BY <3>1 DEF ServiceInv, ReadInv, SeenInv
    <3>3. Known(m)
      BY <3>1, <3>2 DEF Seen, Known
    <3>4. QED
      BY <3>1, <3>3, Sequence DEF Gap
  <2>2. Cardinality(Missing) \in Nat /\ Cardinality(Gap) \in Nat
        /\ Cardinality(Missing) <= Cardinality(Gap)
    BY <2>1, NoMore DEF LossInv
  <2>3. Cardinality(Stopping) \in Nat /\ Cardinality(Dropped) \in Nat
    BY FS_CardinalityType DEF LossInv
  <2>4. faults \in Nat /\ stops \in Nat
    BY Counters
  <2>5. QED
    BY <2>2, <2>3, <2>4 DEF LossInv
<1>2. QED
  BY <1>1, LossInductive, ServiceInductive, PTL

-----------------------------------------------------------------------------
(* What a failing channel costs                                             *)

\* The alerts that a channel before the current one has not got.
Unheard == {cc \in (Announced \cap landed) \X Channel :
    \E k \in DOMAIN Channels :
        Channels[k] = cc[2] /\ k < telling[cc[1]] /\ cc[2] \notin told[cc[1]]}

UnheardInv ==
    /\ IsFiniteSet(Unheard) /\ Cardinality(Unheard) <= faults
    /\ \A c \in Announced : step[c] = "done" => telling[c] = Len(Channels) + 1 \/ Len(Channels) = 0

\* An alert a channel missed is owed to a failure.
LEMMA UnheardStep ==
    ASSUME MongoTypeOK, ServiceInv, HandInv, UnheardInv, MongoTypeOK', ServiceInv', [Next]_vars
    PROVE  UnheardInv'
<1>0. faults \in Nat /\ faults' \in Nat /\ Announced \subseteq Count
      /\ DOMAIN Channels = 1..Len(Channels) /\ Len(Channels) \in Nat
      /\ \A c \in Count : telling[c] \in 1..(Len(Channels) + 1)
  BY MongoAssumption, ServiceAssumption DEF MongoTypeOK, ServiceInv, WorkOK
<1>1. ASSUME \A c \in Count : c \in landed' => c \in landed \/ telling[c] = 1,
             UNCHANGED <<telling, told>>
      PROVE  Unheard' \subseteq Unheard
  BY <1>0, <1>1 DEF Unheard
<1>2. ASSUME Unheard' \subseteq Unheard, faults <= faults'
      PROVE  IsFiniteSet(Unheard') /\ Cardinality(Unheard') <= faults'
  <2>1. IsFiniteSet(Unheard') /\ Cardinality(Unheard') \in Nat /\ Cardinality(Unheard) \in Nat
        /\ Cardinality(Unheard') <= Cardinality(Unheard)
    BY <1>2, NoMore DEF UnheardInv
  <2>2. QED
    BY <1>0, <1>2, <2>1 DEF UnheardInv
<1>3. ASSUME NEW i \in Instance,
             \/ Connect(i) \/ Serve(i) \/ Crash(i) \/ Signal(i) \/ Shutdown(i)
             \/ Answer(i) \/ Loop(i) \/ Rebalance(i)
      PROVE  UnheardInv'
  <2>1. UNCHANGED <<telling, told>>
    BY <1>3 DEF Connect, Serve, Crash, Gone, Signal, Shutdown, Close, ShutdownDone, ShutdownTimesOut,
       Answer, Loop, Join, Assign, Rebalance, Fetch, ReadMessage, Decode, ReadMessageFails,
       CommitRefused, work
  <2>2. landed' = landed /\ (faults' = faults \/ Fault)
    <3>1. CASE Connect(i)
      BY <3>1 DEF Connect, Setup, Start, Ping, ListCollections, CreateCollection, CollectionExists,
         ConnectFails, CreateIndex, Conflict, CannotBuild, DropIndex, DropFindsNone, Rebuild,
         IndexFails, Expire
    <3>2. CASE Crash(i) \/ ShutdownDone(i) \/ ShutdownTimesOut(i)
      BY <3>2 DEF Crash, ShutdownDone, ShutdownTimesOut, Die, Exit, Down
    <3>3. CASE \/ Serve(i) \/ Signal(i) \/ Close(i) \/ Answer(i) \/ Join(i)
               \/ Fetch(i) \/ ReadMessage(i) \/ ReadMessageFails(i) \/ CommitRefused(i)
               \/ Rebalance(i)
      BY <3>3 DEF Serve, Signal, Close, Answer, Join, Assign, Fetch, ReadMessage,
         ReadMessageFails, CommitRefused, OtherFault, Rebalance, mongo
    <3>4. QED
      BY <1>3, <3>1, <3>2, <3>3 DEF Shutdown, Loop
  <2>3. faults <= faults'
    BY <1>0, <2>2 DEF Fault
  <2>4. \A c \in Count : step'[c] = "done" => step[c] = "done"
    <3>1. CASE Crash(i) \/ ShutdownDone(i) \/ ShutdownTimesOut(i)
      BY <3>1 DEF Crash, ShutdownDone, ShutdownTimesOut, Gone
    <3>2. CASE ReadMessage(i)
      BY <3>2, HandedOn DEF work, ServiceInv, PlaceInv
    <3>3. CASE \/ Connect(i) \/ Serve(i) \/ Signal(i) \/ Close(i) \/ Answer(i)
               \/ Join(i) \/ Fetch(i) \/ ReadMessageFails(i) \/ CommitRefused(i)
               \/ Rebalance(i)
      BY <3>3 DEF Connect, Serve, Signal, Close, Answer, Join, Assign, Fetch,
         ReadMessageFails, CommitRefused, Rebalance, work
    <3>4. QED
      BY <1>3, <3>1, <3>2, <3>3 DEF Shutdown, Loop
  <2>5. IsFiniteSet(Unheard') /\ Cardinality(Unheard') <= faults'
    BY <1>1, <1>2, <2>1, <2>2, <2>3
  <2>6. QED
    BY <1>0, <2>1, <2>4, <2>5 DEF UnheardInv
<1>4. ASSUME NEW c \in Count, Evaluate(c) \/ Land(c) \/ Retry(c) \/ GiveUp(c) \/ Fail(c)
      PROVE  UnheardInv'
  <2>1. UNCHANGED <<telling, told>> /\ step[c] \in {"queued", "evaluating"}
    BY <1>4 DEF Evaluate, Land, Retry, GiveUp, Fail
  <2>2. telling[c] = 1
    BY <2>1 DEF ServiceInv, TellingInv
  <2>3. landed' = landed \/ landed' = landed \cup {c}
    BY <1>4, ProcessHands DEF Process
  <2>4. faults <= faults'
    BY <1>0, <1>4 DEF Evaluate, Land, Retry, GiveUp, Fail, GetStats, SaveStats, StatsConflict, StatsFail,
                               Fault, mongo
  <2>5. IsFiniteSet(Unheard') /\ Cardinality(Unheard') <= faults'
    BY <1>1, <1>2, <2>1, <2>2, <2>3, <2>4
  <2>6. \A d \in Announced : step'[d] = "done" => step[d] = "done" \/ Len(Channels) = 0
    <3>1. \A d \in Count \ {c} : step'[d] = step[d]
      BY <1>4 DEF Evaluate, Land, Retry, GiveUp, Fail, Become, Leave, ServiceInv, PlaceInv
    <3>2. c \in Announced /\ step'[c] = "done" => Len(Channels) = 0
      BY <1>0, <1>4, <2>1 DEF Evaluate, Land, Retry, GiveUp, Fail, Become, Leave, ServiceInv, PlaceInv
    <3>3. QED
      BY <1>0, <3>1, <3>2
  <2>7. QED
    BY <2>1, <2>5, <2>6 DEF UnheardInv
<1>5. ASSUME NEW c \in Count, Tell(c) \/ TellFails(c)
      PROVE  UnheardInv'
  <2> DEFINE k == telling[c]
             ch == Channels[k]
  <2>1. step[c] = "notifying" /\ NextChannel(c) /\ landed' = landed
    BY <1>5 DEF Tell, TellFails, OtherFault, mongo
  <2>2. k \in 1..Len(Channels)
    BY <1>0, <2>1 DEF ServiceInv, TellingInv
  <2>3. \A d \in Count : telling'[d] = IF d = c THEN k + 1 ELSE telling[d]
    BY <2>1 DEF NextChannel, ServiceInv, WorkOK
  <2>4. \A d \in Count : step'[d] = IF d # c THEN step[d]
                              ELSE IF k < Len(Channels) THEN "notifying" ELSE "done"
    BY <2>1 DEF NextChannel, Become, Leave, ServiceInv, PlaceInv
  <2>5. \A d \in Announced : step'[d] = "done" => telling'[d] = Len(Channels) + 1 \/ Len(Channels) = 0
    BY <1>0, <2>2, <2>3, <2>4 DEF UnheardInv
  <2>6. \A d \in Count : told[d] \subseteq told'[d]
    BY <1>5 DEF Tell, TellFails, ServiceInv, WorkOK
  <2> HIDE DEF k, ch
  <2>7. Unheard' \subseteq Unheard \cup {<<c, ch>>}
    <3>1. ASSUME NEW cc \in Unheard', cc # <<c, ch>>
          PROVE  cc \in Unheard
      <4>1. cc \in (Announced \cap landed) \X Channel /\ cc[1] \in Count /\ cc = <<cc[1], cc[2]>>
        BY <1>0, <2>1 DEF Unheard
      <4>2. PICK j \in DOMAIN Channels :
               Channels[j] = cc[2] /\ j < telling'[cc[1]] /\ cc[2] \notin told'[cc[1]]
        BY DEF Unheard
      <4>3. cc[2] \notin told[cc[1]]
        BY <2>6, <4>1, <4>2
      <4>4. j < telling[cc[1]]
        <5>1. CASE cc[1] # c
          BY <2>3, <4>1, <4>2, <5>1
        <5>2. CASE cc[1] = c
          <6>1. j # k
            BY <3>1, <4>1, <4>2, <5>2 DEF ch
          <6>2. j < k + 1 /\ j \in Nat /\ k \in Nat
            BY <1>0, <2>2, <2>3, <4>1, <4>2, <5>2
          <6>3. QED
            BY <5>2, <6>1, <6>2 DEF k
        <5>3. QED
          BY <5>1, <5>2
      <4>5. QED
        BY <4>1, <4>2, <4>3, <4>4 DEF Unheard
    <3>2. QED
      BY <3>1
  <2>8. CASE Tell(c)
    <3>1. ch \in told'[c]
      BY <2>8 DEF Tell, ServiceInv, WorkOK, k, ch
    <3>2. <<c, ch>> \notin Unheard'
      BY <3>1 DEF Unheard
    <3>3. Unheard' \subseteq Unheard /\ faults' = faults
      BY <2>7, <2>8, <3>2 DEF Tell, mongo
    <3>4. QED
      BY <1>0, <1>2, <2>5, <3>3 DEF UnheardInv
  <2>9. CASE TellFails(c)
    <3>1. faults' = faults + 1
      BY <2>9 DEF TellFails, OtherFault, Fault
    <3>2. IsFiniteSet(Unheard') /\ Cardinality(Unheard') \in Nat /\ Cardinality(Unheard) \in Nat
          /\ Cardinality(Unheard') <= Cardinality(Unheard) + 1
      BY <2>7, AtMostOneMore DEF UnheardInv
    <3>3. QED
      BY <1>0, <2>5, <3>1, <3>2 DEF UnheardInv
  <2>10. QED
    BY <1>5, <2>8, <2>9
<1>6. CASE UNCHANGED vars
  <2>1. UNCHANGED <<telling, told, step, landed, faults>>
    BY <1>6 DEF vars, mongo, work
  <2>2. QED
    BY <1>0, <1>1, <1>2, <2>1 DEF UnheardInv
<1>7. QED
  BY <1>3, <1>4, <1>5, <1>6 DEF Next, Step, Process

\* A failure of a channel costs the alert it was sent, and no other channel's.
THEOREM OtherChannelsHear == Spec => []ChannelsAreIndependent
<1>1. Init => UnheardInv
  <2> SUFFICES ASSUME Init
               PROVE  UnheardInv
    OBVIOUS
  <2>1. Unheard = {}
    BY DEF Init, MongoInit, Unheard
  <2>2. faults \in Nat
    BY DEF Init, MongoInit, WasUnguarded
  <2>3. \A c \in Announced : step[c] # "done"
    BY ServiceAssumption DEF Init
  <2>4. QED
    BY <2>1, <2>2, <2>3, FS_EmptySet DEF UnheardInv
<1>2. MongoTypeOK /\ ServiceInv /\ HandInv /\ UnheardInv /\ [Next]_vars /\ MongoTypeOK' /\ ServiceInv'
         => UnheardInv'
  BY UnheardStep
<1>3. MongoTypeOK /\ ServiceInv /\ UnheardInv => ChannelsAreIndependent
  <2> SUFFICES ASSUME MongoTypeOK, ServiceInv, UnheardInv
               PROVE  ChannelsAreIndependent
    OBVIOUS
  <2> DEFINE Lost == {cc \in (Announced \cap landed) \X Channel :
                        step[cc[1]] = "done" /\ cc[2] \notin told[cc[1]]}
  <2>1. ASSUME NEW cc \in Lost
        PROVE  cc \in Unheard
    <3>1. PICK k \in DOMAIN Channels : Channels[k] = cc[2]
      BY DEF Channel
    <3>2. k \in 1..Len(Channels) /\ Len(Channels) \in Nat
      BY ServiceAssumption
    <3>3. telling[cc[1]] = Len(Channels) + 1
      BY <3>2 DEF UnheardInv
    <3>4. QED
      BY <3>1, <3>2, <3>3 DEF Unheard
  <2>2. Lost \in SUBSET Unheard
    BY <2>1
  <2> HIDE DEF Lost
  <2>3. Cardinality(Lost) \in Nat /\ Cardinality(Unheard) \in Nat
        /\ Cardinality(Lost) <= Cardinality(Unheard)
    BY <2>2, NoMore DEF UnheardInv
  <2>4. Cardinality(Lost) <= faults
    BY <2>3, MongoAssumption DEF UnheardInv, MongoTypeOK
  <2>5. QED
    BY <2>4 DEF Lost, ChannelsAreIndependent
<1>4. QED
  BY <1>1, <1>2, <1>3, ServiceInductive, LossInductive, PTL DEF Spec
=============================================================================
