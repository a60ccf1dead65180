---------------------------- MODULE Ingest_proofs ----------------------------
(***************************************************************************)
(* Proofs about Ingest: types, locks, and that it implements Baseline, for *)
(* any number of requests, instances, series, attempts and faults.         *)
(***************************************************************************)
EXTENDS Ingest, AlertPolicy_proofs, TLAPS

-----------------------------------------------------------------------------
(* Requests and jobs *)

\* A job is a PII type of a valid request: it has a series and a count.
LEMMA JobFacts ==
    ASSUME NEW j \in Job
    PROVE  /\ j[1] \in Request /\ Valid(Payload[j[1]]) /\ j[2] \in TypesOf(j[1])
           /\ j = <<j[1], j[2]>>
           /\ SeriesOf[j] \in Series
           /\ CountOf[j] \in Nat
<1>1. PICK r \in {q \in Request : Valid(Payload[q])} : j \in {r} \X TypesOf(r)
  BY DEF Job
<1>2. j[1] = r /\ j[2] \in TypesOf(r) /\ j = <<j[1], j[2]>>
  BY <1>1
<1>3. SeriesOf[j] \in Series
  BY DEF SeriesOf, Series
<1>4. CountOf[j] \in Nat
  <2>1. /\ Payload[r].counts[j[2]] \in Int
        /\ Payload[r].counts[j[2]] >= 0
    BY <1>1, <1>2, IngestAssumption DEF Valid, TypesOf
  <2>2. CountOf[j] = Payload[r].counts[j[2]]
    BY <1>2 DEF CountOf
  <2>3. QED
    BY <2>1, <2>2
<1>5. QED
  BY <1>1, <1>2, <1>3, <1>4

\* Every PII type of a valid request is a job.
LEMMA TypesAreJobs ==
    ASSUME NEW r \in Request, Valid(Payload[r])
    PROVE  {r} \X TypesOf(r) \subseteq Job
  BY DEF Job

\* The lock of a request that analyzes a job.
LEMMA LockType ==
    ASSUME TypeOK, NEW r \in Request, This(r) \in Job
    PROVE  /\ ThisLock(r) \in Instance \X Slot
           /\ ThisSeries(r) \in Series
<1>1. ThisSeries(r) \in Series
  BY JobFacts DEF ThisSeries
<1>2. QED
  BY <1>1, IngestAssumption, SlotAssumption DEF ThisLock

-----------------------------------------------------------------------------
(* Types *)

\* The zero values are what they are.
LEMMA ZeroTypes == ZeroStats \in Stats /\ ZeroOutcome \in Outcomes
  BY DEF ZeroStats, ZeroOutcome, Stats, Outcomes, Rulings, Never

\* analyzeTrend returns in good order.
LEMMA ReturnType ==
    ASSUME TypeOK, NEW r \in Request, This(r) \in Job, Return(r)
    PROVE  /\ lock' \in [Instance \X Slot -> Request \cup {None}]
           /\ pc' \in [Request -> Waiting \cup Holding \cup Finished]
           /\ todo' \in [Request -> SUBSET PIITypes]
           /\ type' \in [Request -> PIITypes \cup {None}]
           /\ \A q \in Request :
                /\ {q} \X todo'[q] \subseteq Job
                /\ type'[q] # None => This(q)' \in Job
                /\ pc'[q] \in Holding \cup {"lock"} => This(q)' \in Job
           /\ attempt' \in [Request -> 1..MaxAttempts]
           /\ muted' \in [Request -> BOOLEAN]
           /\ read' \in [Request -> Stats]
           /\ outcome' \in [Request -> Outcomes]
<1>1. MaxAttempts \in Nat \ {0}
  BY IngestAssumption
<1>2. lock' \in [Instance \X Slot -> Request \cup {None}]
  BY LockType DEF Return, TypeOK
<1>3. /\ attempt' \in [Request -> 1..MaxAttempts]
      /\ muted' \in [Request -> BOOLEAN]
      /\ read' \in [Request -> Stats]
      /\ outcome' \in [Request -> Outcomes]
      /\ todo' \in [Request -> SUBSET PIITypes]
      /\ type' \in [Request -> PIITypes \cup {None}]
  BY <1>1, ZeroTypes DEF Return, TypeOK
<1>4. /\ pc' \in [Request -> Waiting \cup Holding \cup Finished]
      /\ pc'[r] \notin Holding \cup {"lock"}
      /\ \A q \in Request \ {r} : pc'[q] = pc[q]
  BY DEF Return, Goto, TypeOK, Waiting, Holding, Finished
<1>5. ASSUME NEW q \in Request
      PROVE  /\ {q} \X todo'[q] \subseteq Job
             /\ type'[q] # None => This(q)' \in Job
             /\ pc'[q] \in Holding \cup {"lock"} => This(q)' \in Job
  <2>1. CASE q = r
    BY <2>1, <1>4 DEF Return, TypeOK, This
  <2>2. CASE q # r
    BY <2>2, <1>4 DEF Return, TypeOK, This
  <2>3. QED
    BY <2>1, <2>2
<1>6. QED
  BY <1>2, <1>3, <1>4, <1>5

\* The stats and the log after the server has performed a write.
LEMMA StoreType ==
    ASSUME TypeOK, NEW j \in Job, NEW e \in Outcomes, Store(j, e)
    PROVE  /\ stats' \in [Series -> Stats]
           /\ log' \in [Series -> Seq(Promise!Landing)]
<1>1. Stored(e.stats) \in Stats
  BY StoredFields DEF Outcomes
<1>2. Promise!Landed(j, e) \in Promise!Landing
  <2>1. /\ e.ruling \in Rulings /\ e.normal \in BOOLEAN
        /\ e.muted \in BOOLEAN /\ e.at \in Nat
    BY DEF Outcomes
  <2>2. QED
    BY <2>1 DEF Promise!Landed, Promise!Landing, Promise!Rulings, Rulings
<1>3. SeriesOf[j] \in Series
  BY JobFacts
<1>4. Append(log[SeriesOf[j]], Promise!Landed(j, e)) \in Seq(Promise!Landing)
  BY <1>2, <1>3 DEF TypeOK
<1>5. QED
  BY <1>1, <1>3, <1>4 DEF Store, TypeOK

\* A request moves on with its analysis: its place is one of Holding.
LEMMA HoldType ==
    ASSUME TypeOK, NEW r \in Request, NEW l \in Holding \cup {"lock"},
           This(r) \in Job, Goto(r, l), UNCHANGED <<todo, type>>
    PROVE  /\ pc' \in [Request -> Waiting \cup Holding \cup Finished]
           /\ todo' \in [Request -> SUBSET PIITypes]
           /\ type' \in [Request -> PIITypes \cup {None}]
           /\ \A q \in Request :
                /\ {q} \X todo'[q] \subseteq Job
                /\ type'[q] # None => This(q)' \in Job
                /\ pc'[q] \in Holding \cup {"lock"} => This(q)' \in Job
  BY DEF Goto, TypeOK, This, Waiting, Holding

\* A failure is counted within its bound.
LEMMA FailsType ==
    ASSUME TypeOK, NEW r \in Request, Fails(r)
    PROVE  faults' \in 0..MaxFaults
<1>1. MaxFaults \in Nat
  BY IngestAssumption
<1>2. QED
  BY <1>1 DEF Fails, TypeOK

\* The actions before an analysis.
LEMMA EntryType ==
    ASSUME TypeOK, NEW r \in Request,
           Reject(r) \/ Save(r) \/ SaveFails(r) \/ CheckMute(r)
    PROVE  TypeOK'
<1>1. CASE Reject(r)
  BY <1>1 DEF Reject, Goto, shared, TypeOK, This, Waiting, Holding, Finished
<1>2. Entry(r) \in [req : Request, at : Nat]
  BY IngestAssumption DEF Entry, TypeOK, Moments
<1>3. CASE Save(r)
  <2>1. {r} \X TypesOf(r) \subseteq Job /\ TypesOf(r) \subseteq PIITypes
    BY <1>3, TypesAreJobs DEF Save, PIITypes
  <2>2. QED
    BY <1>2, <1>3, <2>1 DEF Save, Goto, TypeOK, This, Waiting, Holding, Finished
<1>4. CASE SaveFails(r)
  <2>1. entries' \subseteq [req : Request, at : Nat]
    BY <1>2, <1>4 DEF SaveFails, TypeOK
  <2>2. faults' \in 0..MaxFaults
    BY <1>4, FailsType DEF SaveFails
  <2>3. QED
    BY <1>4, <2>1, <2>2
       DEF SaveFails, Goto, TypeOK, This, Waiting, Holding, Finished
<1>5. CASE CheckMute(r)
  <2>1. faults' \in 0..MaxFaults
    BY <1>5, FailsType DEF CheckMute, TypeOK
  <2>2. muted' \in [Request -> BOOLEAN]
    <3>1. MuteStands(MuteKey(r)) \in BOOLEAN
      BY DEF MuteStands
    <3>2. PICK m \in BOOLEAN : muted' = [muted EXCEPT ![r] = m]
      BY <1>5, <3>1 DEF CheckMute
    <3>3. QED
      BY <3>2 DEF TypeOK
  <2>3. PICK t \in todo[r] : /\ type' = [type EXCEPT ![r] = t]
                             /\ todo' = [todo EXCEPT ![r] = @ \ {t}]
    BY <1>5 DEF CheckMute
  <2>4. pc' = [pc EXCEPT ![r] = "lock"]
    BY <1>5 DEF CheckMute, Goto
  <2>5. ASSUME NEW q \in Request
        PROVE  /\ {q} \X todo'[q] \subseteq Job
               /\ type'[q] # None => This(q)' \in Job
               /\ pc'[q] \in Holding \cup {"lock"} => This(q)' \in Job
    <3>1. CASE q = r
      <4>1. <<r, t>> \in Job /\ {r} \X (todo[r] \ {t}) \subseteq Job
        BY <2>3 DEF TypeOK
      <4>2. type'[r] = t /\ todo'[r] = todo[r] \ {t}
        BY <2>3 DEF TypeOK
      <4>3. QED
        BY <3>1, <4>1, <4>2 DEF This
    <3>2. CASE q # r
      BY <2>3, <2>4, <3>2 DEF TypeOK, This
    <3>3. QED
      BY <3>1, <3>2
  <2>6. /\ pc' \in [Request -> Waiting \cup Holding \cup Finished]
        /\ todo' \in [Request -> SUBSET PIITypes]
        /\ type' \in [Request -> PIITypes \cup {None}]
    BY <2>3, <2>4 DEF TypeOK, Waiting
  <2>7. QED
    BY <1>5, <2>1, <2>2, <2>5, <2>6 DEF CheckMute, shared, TypeOK
<1>6. QED
  BY <1>1, <1>3, <1>4, <1>5

\* The breach decision of EvaluateTrend is one of its verdicts.
LEMMA BreachedIsVerdict ==
    ASSUME TypeOK, NEW r \in Request
    PROVE  Breached(r) \in Verdicts(read[r], CountOf[This(r)])
<1>1. CASE Method = "z_score"
  BY <1>1 DEF Breached, Verdicts
<1>2. CASE Method # "z_score"
  BY <1>2 DEF Breached, Verdicts, PercentageBreach
<1>3. QED
  BY <1>1, <1>2

\* So is the decision of a count whose average could not be read.
LEMMA FalseIsVerdict ==
    ASSUME Method = "percentage_delta"
    PROVE  \A old, x : FALSE \in Verdicts(old, x)
  BY DEF Verdicts

\* The outcome of an evaluation has its type.
LEMMA ConcludeType ==
    ASSUME TypeOK, NEW r \in Request, This(r) \in Job, NEW breached \in BOOLEAN,
           Conclude(r, breached)
    PROVE  outcome' \in [Request -> Outcomes]
<1>1. /\ read[r] \in Stats /\ CountOf[This(r)] \in Nat
      /\ muted[r] \in BOOLEAN /\ now \in Nat
  BY JobFacts, IngestAssumption DEF TypeOK, Moments
<1>2. Evaluate(read[r], CountOf[This(r)], breached, muted[r], now) \in Outcomes
  BY <1>1, EvaluateType
<1>3. QED
  BY <1>2 DEF Conclude, TypeOK

\* The steps of evaluateTrend.
LEMMA EvaluateStepType ==
    ASSUME TypeOK, NEW r \in Request, This(r) \in Job,
           \/ AcquireLock(r) \/ GetStats(r) \/ GetStatsFails(r)
           \/ EvaluateTrend(r) \/ GetAverageFails(r)
    PROVE  TypeOK'
<1>1. CASE AcquireLock(r)
  <2>1. lock' \in [Instance \X Slot -> Request \cup {None}]
    BY <1>1 DEF AcquireLock, TypeOK
  <2>2. QED
    BY <1>1, <2>1, HoldType DEF AcquireLock, shared, TypeOK, Holding
<1>2. CASE GetStats(r)
  <2>1. read' \in [Request -> Stats]
    BY <1>2, LockType DEF GetStats, TypeOK
  <2>2. QED
    BY <1>2, <2>1, HoldType DEF GetStats, shared, TypeOK, Holding
<1>3. CASE GetStatsFails(r)
  BY <1>3, FailsType, ReturnType DEF GetStatsFails, shared, TypeOK
<1>4. ASSUME NEW breached \in BOOLEAN, Conclude(r, breached), faults' \in 0..MaxFaults
      PROVE  TypeOK'
  BY <1>4, ConcludeType, HoldType DEF Conclude, shared, TypeOK, Holding
<1>5. CASE EvaluateTrend(r)
  <2>1. Breached(r) \in BOOLEAN
    BY BreachedIsVerdict, VerdictType, JobFacts DEF TypeOK
  <2>2. QED
    BY <1>4, <1>5, <2>1 DEF EvaluateTrend, TypeOK
<1>6. CASE GetAverageFails(r)
  BY <1>4, <1>6, FailsType DEF GetAverageFails
<1>7. QED
  BY <1>1, <1>2, <1>3, <1>5, <1>6

\* The steps that write the stats.
LEMMA WriteStepType ==
    ASSUME TypeOK, NEW r \in Request, This(r) \in Job,
           SaveStats(r) \/ Conflict(r) \/ GiveUp(r) \/ SaveStatsFails(r)
    PROVE  TypeOK'
<1>1. outcome[r] \in Outcomes
  BY DEF TypeOK
<1>2. CASE SaveStats(r)
  <2>1. /\ stats' \in [Series -> Stats]
        /\ log' \in [Series -> Seq(Promise!Landing)]
    BY <1>1, <1>2, StoreType DEF SaveStats
  <2>2. CASE Recorded(outcome[r].ruling)
    BY <1>2, <2>1, <2>2, HoldType DEF SaveStats, TypeOK, Holding
  <2>3. CASE ~Recorded(outcome[r].ruling)
    BY <1>2, <2>1, <2>3, ReturnType DEF SaveStats, TypeOK
  <2>4. QED
    BY <2>2, <2>3
<1>3. CASE Conflict(r)
  <2>1. attempt' \in [Request -> 1..MaxAttempts]
    BY <1>3, IngestAssumption DEF Conflict, TypeOK
  <2>2. QED
    BY <1>3, <2>1, HoldType DEF Conflict, shared, TypeOK, Holding
<1>4. CASE GiveUp(r)
  BY <1>4, ReturnType DEF GiveUp, TypeOK
<1>5. CASE SaveStatsFails(r)
  <2>1. late' \subseteq Writes
    BY <1>1, <1>5 DEF SaveStatsFails, Writes, TypeOK
  <2>2. QED
    BY <1>5, <2>1, FailsType, ReturnType DEF SaveStatsFails, TypeOK
<1>6. QED
  BY <1>2, <1>3, <1>4, <1>5

\* The steps of reportTrend.
LEMMA ReportStepType ==
    ASSUME TypeOK, NEW r \in Request, This(r) \in Job,
           SaveBreach(r) \/ SaveBreachFails(r) \/ Notify(r) \/ NotifyFails(r)
    PROVE  TypeOK'
<1>1. ASSUME AfterRecord(r), NEW n \in {0, 1},
             breaches' = [breaches EXCEPT ![This(r)] = @ + n],
             faults' \in 0..MaxFaults,
             UNCHANGED <<now, mutes, entries, stats, sent, late, log, gaveUp,
                         cancelled>>
      PROVE  TypeOK'
  <2>1. breaches' \in [Job -> Nat]
    BY <1>1 DEF TypeOK
  <2>2. CASE Announced(outcome[r].ruling)
    BY <1>1, <2>1, <2>2, HoldType DEF AfterRecord, TypeOK, Holding
  <2>3. CASE ~Announced(outcome[r].ruling)
    BY <1>1, <2>1, <2>3, ReturnType DEF AfterRecord, TypeOK
  <2>4. QED
    BY <2>2, <2>3
<1>2. ASSUME Return(r), NEW n \in {0, 1},
             sent' = [sent EXCEPT ![This(r)] = @ + n],
             faults' \in 0..MaxFaults,
             UNCHANGED <<now, mutes, entries, stats, breaches, late, log, gaveUp,
                         cancelled>>
      PROVE  TypeOK'
  <2>1. sent' \in [Job -> Nat]
    BY <1>2 DEF TypeOK
  <2>2. QED
    BY <1>2, <2>1, ReturnType DEF TypeOK
<1>3. faults \in 0..MaxFaults
  BY DEF TypeOK
<1>4. CASE SaveBreach(r)
  BY <1>1, <1>3, <1>4 DEF SaveBreach
<1>5. CASE SaveBreachFails(r)
  BY <1>1, <1>5, FailsType DEF SaveBreachFails
<1>6. CASE Notify(r)
  BY <1>2, <1>3, <1>6 DEF Notify
<1>7. CASE NotifyFails(r)
  BY <1>2, <1>7, FailsType DEF NotifyFails
<1>8. QED
  BY <1>4, <1>5, <1>6, <1>7

\* The steps of the world.
LEMMA WorldStepType ==
    ASSUME TypeOK,
           \/ \E r \in Request : Cancel(r)
           \/ \E i \in Instance : Crash(i)
           \/ \E k \in MuteKeys, n \in MuteLengths : Mute(k, n)
           \/ LandLate \/ Tick
    PROVE  TypeOK'
<1>1. ASSUME NEW r \in Request, Cancel(r)
      PROVE  TypeOK'
  <2>1. faults' \in 0..MaxFaults
    BY <1>1, IngestAssumption DEF Cancel, TypeOK
  <2>2. QED
    BY <1>1, <2>1 DEF Cancel, shared, local, TypeOK, This
<1>2. ASSUME NEW i \in Instance, Crash(i)
      PROVE  TypeOK'
  <2> DEFINE dead == {r \in Request : At[r] = i /\ pc[r] \in Underway}
  <2>1. faults' \in 0..MaxFaults
    BY <1>2, IngestAssumption DEF Crash, TypeOK
  <2>2. late' \subseteq Writes
    <3>1. ASSUME NEW r \in {d \in dead : pc[d] = "write"}
          PROVE  [job |-> This(r), outcome |-> outcome[r]] \in Writes
      BY DEF TypeOK, Holding, Writes
    <3>2. late' = late \cup {[job |-> This(r), outcome |-> outcome[r]] :
                             r \in {d \in dead : pc[d] = "write"}}
      BY <1>2 DEF Crash
    <3>3. QED
      BY <3>1, <3>2 DEF TypeOK
  <2>3. lock' \in [Instance \X Slot -> Request \cup {None}]
    BY <1>2 DEF Crash, TypeOK
  <2>4. /\ pc' \in [Request -> Waiting \cup Holding \cup Finished]
        /\ read' \in [Request -> Stats]
        /\ outcome' \in [Request -> Outcomes]
    BY <1>2, ZeroTypes DEF Crash, TypeOK, Finished
  <2>5. ASSUME NEW q \in Request, pc'[q] \in Holding \cup {"lock"}
        PROVE  pc[q] = pc'[q]
    BY <1>2, <2>5 DEF Crash, TypeOK, Holding
  <2>6. UNCHANGED <<now, mutes, entries, stats, breaches, sent, log, gaveUp,
                    todo, type, muted, attempt, cancelled>>
    BY <1>2 DEF Crash
  <2>7. QED
    BY <2>1, <2>2, <2>3, <2>4, <2>5, <2>6 DEF TypeOK, This
<1>3. ASSUME NEW k \in MuteKeys, NEW n \in MuteLengths, Mute(k, n)
      PROVE  TypeOK'
  <2>1. mutes' \in [MuteKeys -> Nat]
    <3>1. now + n \in Nat
      BY IngestAssumption DEF TypeOK, Moments
    <3>2. QED
      BY <1>3, <3>1 DEF Mute, TypeOK
  <2>2. QED
    BY <1>3, <2>1 DEF Mute, local, TypeOK, This
<1>4. CASE LandLate
  <2>1. PICK w \in late : Store(w.job, w.outcome)
    BY <1>4 DEF LandLate
  <2>2. w.job \in Job /\ w.outcome \in Outcomes
    BY DEF TypeOK, Writes
  <2>3. QED
    BY <1>4, <2>1, <2>2, StoreType DEF LandLate, local, TypeOK, This
<1>5. CASE Tick
  <2>1. now' \in Moments
    BY <1>5, IngestAssumption DEF Tick, TypeOK, Moments
  <2>2. QED
    BY <1>5, <2>1 DEF Tick, shared, local, TypeOK, This
<1>6. QED
  BY <1>1, <1>2, <1>3, <1>4, <1>5

\* A request that steps is in the midst of an analysis, or before one.
LEMMA StepJob ==
    ASSUME TypeOK, NEW r \in Request, Step(r),
           ~(Save(r) \/ SaveFails(r) \/ CheckMute(r))
    PROVE  This(r) \in Job
<1>1. pc[r] \in Holding \cup {"lock"}
  BY DEF Step, AcquireLock, GetStats, GetStatsFails, EvaluateTrend,
         GetAverageFails, SaveStats, Conflict, GiveUp, SaveStatsFails,
         SaveBreach, SaveBreachFails, Notify, NotifyFails, Holding
<1>2. QED
  BY <1>1 DEF TypeOK

\* Every step keeps the types.
LEMMA TypeStep == TypeOK /\ [Next]_vars => TypeOK'
<1> SUFFICES ASSUME TypeOK, [Next]_vars
             PROVE  TypeOK'
  OBVIOUS
<1>1. ASSUME NEW r \in Request, Reject(r) \/ Step(r)
      PROVE  TypeOK'
  <2>1. CASE Reject(r) \/ Save(r) \/ SaveFails(r) \/ CheckMute(r)
    BY <2>1, EntryType
  <2>2. CASE Step(r) /\ ~(Save(r) \/ SaveFails(r) \/ CheckMute(r))
    BY <2>2, StepJob, EvaluateStepType, WriteStepType, ReportStepType DEF Step
  <2>3. QED
    BY <1>1, <2>1, <2>2
<1>2. CASE UNCHANGED vars
  BY <1>2 DEF vars, shared, local, TypeOK, This
<1>3. CASE Quiesce
  BY <1>2, <1>3 DEF Quiesce
<1>4. QED
  BY <1>1, <1>2, <1>3, WorldStepType DEF Next

\* The types hold at first.
LEMMA TypeInit == Init => TypeOK
<1> SUFFICES ASSUME Init
             PROVE  TypeOK
  OBVIOUS
<1>1. /\ now \in Moments /\ faults \in 0..MaxFaults
      /\ attempt \in [Request -> 1..MaxAttempts]
  BY IngestAssumption DEF Init, Moments
<1>2. /\ stats \in [Series -> Stats]
      /\ read \in [Request -> Stats]
      /\ outcome \in [Request -> Outcomes]
      /\ log \in [Series -> Seq(Promise!Landing)]
  BY IngestAssumption, ZeroTypes DEF Init
<1>3. /\ todo \in [Request -> SUBSET PIITypes]
      /\ type \in [Request -> PIITypes \cup {None}]
      /\ \A r \in Request : {r} \X todo[r] \subseteq Job
      /\ \A r \in Request : type[r] = None /\ pc[r] \notin Holding \cup {"lock"}
      /\ pc \in [Request -> Waiting \cup Holding \cup Finished]
  BY DEF Init, Waiting, Holding, Finished
<1>4. QED
  BY <1>1, <1>2, <1>3 DEF Init, TypeOK, Never

\* Every variable keeps its type: no counter of the stats runs below zero, no
\* analysis is of a type its request does not have, and no count is attempted
\* more than MaxAttempts times.
THEOREM TypeCorrect == Spec => []TypeOK
  BY TypeInit, TypeStep, PTL DEF Spec

-----------------------------------------------------------------------------
(* Locks *)

\* The lock for a PII type of a request.
LockOf(r, t) == <<At[r], SlotOf[SeriesOf[<<r, t>>]]>>

\* LocksAreReleased as a statement on the values k of lock, p of pc, t of type.
Locked(k, p, t) ==
    /\ \A l \in Instance \X Slot : k[l] # None =>
        p[k[l]] \in Holding /\ LockOf(k[l], t[k[l]]) = l
    /\ \A r \in Request : p[r] \in Holding => k[LockOf(r, t[r])] = r

\* The two are the same, before a step and after it.
LEMMA LockedIs ==
    /\ LocksAreReleased <=> Locked(lock, pc, type)
    /\ LocksAreReleased' <=> Locked(lock', pc', type')
    /\ \A r : ThisLock(r) = LockOf(r, type[r])
  BY DEF LocksAreReleased, Locked, LockOf, ThisLock, ThisSeries, This

\* A request that stays inside its analysis keeps its lock.
LEMMA HoldLocks ==
    ASSUME TypeOK, LocksAreReleased, NEW r \in Request, NEW l \in Holding,
           pc[r] \in Holding, Goto(r, l), UNCHANGED <<lock, type>>
    PROVE  LocksAreReleased'
<1>1. \A q \in Request : (pc'[q] \in Holding) <=> (pc[q] \in Holding)
  BY DEF Goto, TypeOK
<1>2. Locked(lock, pc, type) /\ lock' = lock /\ type' = type
  BY LockedIs
<1>3. \A k \in Instance \X Slot : lock[k] # None => lock[k] \in Request
  BY DEF TypeOK
<1>4. Locked(lock', pc', type')
  BY <1>1, <1>2, <1>3 DEF Locked
<1>5. QED
  BY <1>4, LockedIs

\* A request outside its analysis has no lock to lose.
LEMMA IdleLocks ==
    ASSUME TypeOK, LocksAreReleased, NEW r \in Request, pc[r] \notin Holding,
           pc'[r] \notin Holding, UNCHANGED lock,
           \A q \in Request \ {r} : pc'[q] = pc[q] /\ type'[q] = type[q]
    PROVE  LocksAreReleased'
<1>1. Locked(lock, pc, type) /\ lock' = lock
  BY LockedIs
<1>2. \A k \in Instance \X Slot : lock[k] # None => lock[k] \in Request
  BY DEF TypeOK
<1>3. Locked(lock', pc', type')
  BY <1>1, <1>2 DEF Locked
<1>4. QED
  BY <1>3, LockedIs

\* A request that finds its lock free takes it.
LEMMA AcquireLocks ==
    ASSUME TypeOK, LocksAreReleased, NEW r \in Request, AcquireLock(r)
    PROVE  LocksAreReleased'
<1> DEFINE m == LockOf(r, type[r])
<1>1. /\ m \in Instance \X Slot /\ lock[m] = None
      /\ lock' = [lock EXCEPT ![m] = r] /\ type' = type
      /\ pc' = [pc EXCEPT ![r] = "read"]
      /\ pc[r] \notin Holding
  BY LockType, LockedIs DEF AcquireLock, TypeOK, Goto, Holding
<1>2. Locked(lock, pc, type)
  BY LockedIs
<1> HIDE DEF m
<1>3. ASSUME NEW l \in Instance \X Slot, lock'[l] # None
      PROVE  pc'[lock'[l]] \in Holding /\ LockOf(lock'[l], type'[lock'[l]]) = l
  <2>1. CASE l = m
    BY <1>1, <2>1 DEF TypeOK, m, Holding
  <2>2. CASE l # m
    BY <1>1, <1>2, <1>3, <2>2 DEF TypeOK, Locked
  <2>3. QED
    BY <2>1, <2>2
<1>4. ASSUME NEW q \in Request, pc'[q] \in Holding
      PROVE  lock'[LockOf(q, type'[q])] = q
  <2>1. CASE q = r
    BY <1>1, <2>1 DEF TypeOK, m
  <2>2. CASE q # r
    <3>1. pc[q] \in Holding /\ lock[LockOf(q, type[q])] = q
      BY <1>1, <1>2, <1>4, <2>2 DEF TypeOK, Locked
    <3>2. LockOf(q, type[q]) # m
      BY <1>1, <3>1, IngestAssumption
    <3>3. LockOf(q, type[q]) \in Instance \X Slot
      BY <3>1, LockType, LockedIs DEF TypeOK
    <3>4. QED
      BY <1>1, <3>1, <3>2, <3>3 DEF TypeOK
  <2>3. QED
    BY <2>1, <2>2
<1>5. QED
  BY <1>3, <1>4, LockedIs DEF Locked

\* A request that returns lets its lock go and no other.
LEMMA ReturnLocks ==
    ASSUME TypeOK, LocksAreReleased, NEW r \in Request, pc[r] \in Holding,
           Return(r)
    PROVE  LocksAreReleased'
<1> DEFINE m == LockOf(r, type[r])
<1>1. /\ m \in Instance \X Slot
      /\ lock' = [lock EXCEPT ![m] = None]
      /\ pc'[r] \notin Holding
      /\ \A q \in Request \ {r} : pc'[q] = pc[q] /\ type'[q] = type[q]
  BY LockType, LockedIs DEF Return, Goto, TypeOK, Holding
<1>2. Locked(lock, pc, type)
  BY LockedIs
<1>3. lock[m] = r
  BY <1>2 DEF Locked
<1> HIDE DEF m
<1>4. ASSUME NEW l \in Instance \X Slot, lock'[l] # None
      PROVE  pc'[lock'[l]] \in Holding /\ LockOf(lock'[l], type'[lock'[l]]) = l
  <2>1. l # m /\ lock'[l] = lock[l]
    BY <1>1, <1>4 DEF TypeOK
  <2>2. lock[l] \in Request /\ pc[lock[l]] \in Holding /\ LockOf(lock[l], type[lock[l]]) = l
    BY <1>2, <1>4, <2>1 DEF Locked, TypeOK
  <2>3. lock[l] # r
    BY <2>1, <2>2 DEF m
  <2>4. QED
    BY <1>1, <2>1, <2>2, <2>3
<1>5. ASSUME NEW q \in Request, pc'[q] \in Holding
      PROVE  lock'[LockOf(q, type'[q])] = q
  <2>1. q # r /\ pc[q] \in Holding /\ lock[LockOf(q, type[q])] = q
    BY <1>1, <1>2, <1>5 DEF Locked
  <2>2. LockOf(q, type[q]) # m
    BY <1>3, <2>1
  <2>3. LockOf(q, type[q]) \in Instance \X Slot
    BY <2>1, LockType, LockedIs DEF TypeOK
  <2>4. QED
    BY <1>1, <2>1, <2>2, <2>3 DEF TypeOK
<1>6. QED
  BY <1>4, <1>5, LockedIs DEF Locked

\* A process that dies takes its locks along, and only those.
LEMMA CrashLocks ==
    ASSUME TypeOK, LocksAreReleased, NEW i \in Instance, Crash(i)
    PROVE  LocksAreReleased'
<1>1. /\ \A l \in Instance \X Slot : lock'[l] = IF l[1] = i THEN None ELSE lock[l]
      /\ type' = type
      /\ \A q \in Request :
           pc'[q] = IF At[q] = i /\ pc[q] \in Underway THEN "crashed" ELSE pc[q]
  BY DEF Crash
<1>2. Locked(lock, pc, type)
  BY LockedIs
<1>3. \A q \in Request : pc'[q] \in Holding <=> pc[q] \in Holding /\ At[q] # i
  BY <1>1 DEF Holding, Underway
<1>4. \A q, t : LockOf(q, t)[1] = At[q]
  BY DEF LockOf
<1>5. \A q \in Request : pc[q] \in Holding => LockOf(q, type[q]) \in Instance \X Slot
  BY LockType, LockedIs DEF TypeOK
<1>6. ASSUME NEW l \in Instance \X Slot, lock'[l] # None
      PROVE  pc'[lock'[l]] \in Holding /\ LockOf(lock'[l], type'[lock'[l]]) = l
  <2>1. l[1] # i /\ lock'[l] = lock[l] /\ lock[l] \in Request
    BY <1>1, <1>6 DEF TypeOK
  <2>2. pc[lock[l]] \in Holding /\ LockOf(lock[l], type[lock[l]]) = l
    BY <1>2, <1>6, <2>1 DEF Locked
  <2>3. At[lock[l]] # i
    BY <1>4, <2>1, <2>2
  <2>4. QED
    BY <1>1, <1>3, <2>1, <2>2, <2>3
<1>7. ASSUME NEW q \in Request, pc'[q] \in Holding
      PROVE  lock'[LockOf(q, type'[q])] = q
  <2>1. pc[q] \in Holding /\ At[q] # i
    BY <1>3, <1>7
  <2>2. LockOf(q, type[q]) \in Instance \X Slot /\ LockOf(q, type[q])[1] # i
    BY <1>4, <1>5, <2>1
  <2>3. lock[LockOf(q, type[q])] = q
    BY <1>2, <2>1 DEF Locked
  <2>4. QED
    BY <1>1, <2>2, <2>3
<1>8. QED
  BY <1>6, <1>7, LockedIs DEF Locked

\* Every step keeps the locks in order.
LEMMA LockStep == TypeOK /\ LocksAreReleased /\ [Next]_vars => LocksAreReleased'
<1> SUFFICES ASSUME TypeOK, LocksAreReleased, [Next]_vars
             PROVE  LocksAreReleased'
  OBVIOUS
<1>1. ASSUME NEW r \in Request, Reject(r) \/ Step(r)
      PROVE  LocksAreReleased'
  <2>1. CASE Reject(r) \/ Save(r) \/ SaveFails(r) \/ CheckMute(r)
    <3>1. /\ pc[r] \notin Holding /\ pc'[r] \notin Holding /\ UNCHANGED lock
          /\ \A q \in Request \ {r} : pc'[q] = pc[q] /\ type'[q] = type[q]
      BY <2>1 DEF Reject, Save, SaveFails, CheckMute, Goto, Holding, TypeOK
    <3>2. QED
      BY <3>1, IdleLocks
  <2>2. CASE AcquireLock(r)
    BY <2>2, AcquireLocks
  <2>3. CASE GetStats(r) \/ EvaluateTrend(r) \/ GetAverageFails(r) \/ Conflict(r)
    <3>1. PICK l \in Holding : Goto(r, l)
      BY <2>3 DEF GetStats, EvaluateTrend, GetAverageFails, Conclude, Conflict, Holding
    <3>2. pc[r] \in Holding /\ UNCHANGED <<lock, type>>
      BY <2>3 DEF GetStats, EvaluateTrend, GetAverageFails, Conclude, Conflict, Holding
    <3>3. QED
      BY <3>1, <3>2, HoldLocks
  <2>4. CASE GetStatsFails(r) \/ GiveUp(r) \/ SaveStatsFails(r) \/ Notify(r) \/ NotifyFails(r)
    BY <2>4, ReturnLocks
       DEF GetStatsFails, GiveUp, SaveStatsFails, Notify, NotifyFails, Holding
  <2>5. CASE SaveStats(r) \/ SaveBreach(r) \/ SaveBreachFails(r)
    <3>1. /\ pc[r] \in Holding
          /\ \/ Return(r)
             \/ Goto(r, "record") /\ UNCHANGED <<lock, type>>
             \/ Goto(r, "notify") /\ UNCHANGED <<lock, type>>
      BY <2>5 DEF SaveStats, SaveBreach, SaveBreachFails, AfterRecord, Holding
    <3>2. "record" \in Holding /\ "notify" \in Holding
      BY DEF Holding
    <3>3. QED
      BY <3>1, <3>2, ReturnLocks, HoldLocks
  <2>6. QED
    BY <1>1, <2>1, <2>2, <2>3, <2>4, <2>5 DEF Step
<1>2. CASE UNCHANGED <<lock, pc, type>>
  BY <1>2, LockedIs
<1>3. ASSUME NEW i \in Instance, Crash(i)
      PROVE  LocksAreReleased'
  BY <1>3, CrashLocks
<1>4. CASE \/ \E r \in Request : Cancel(r)
           \/ \E k \in MuteKeys, n \in MuteLengths : Mute(k, n)
           \/ LandLate \/ Tick \/ Quiesce
  BY <1>2, <1>4 DEF Cancel, Mute, LandLate, Tick, Quiesce, vars, local
<1>5. CASE UNCHANGED vars
  BY <1>2, <1>5 DEF vars, local
<1>6. QED
  BY <1>1, <1>3, <1>4, <1>5 DEF Next

\* No way out of analyzeTrend keeps a lock, and no two requests of a process
\* are ever inside one: for every number of requests, locks and faults.
THEOREM LocksReleased == Spec => []LocksAreReleased
<1>1. Init => LocksAreReleased
  BY DEF Init, LocksAreReleased, Holding
<1>2. QED
  BY <1>1, TypeCorrect, LockStep, PTL DEF Spec
=============================================================================
