-------------------------- MODULE Refinement_proofs --------------------------
(***************************************************************************)
(* Ingest implements Baseline: whatever is interleaved, lost, late or      *)
(* repeated, every landing is one absorption of one count.  So the         *)
(* theorems of Baseline_proofs hold of Ingest too.  From the same          *)
(* invariant: what is reported, what becomes of each count, and what each  *)
(* conflict is owed to.                                                    *)
(***************************************************************************)
EXTENDS Ingest_proofs, FiniteSetTheorems

-----------------------------------------------------------------------------
(* The inductive invariant; its parts are stated on values, so that they   *)
(* can be spoken of before and after a step                                *)

\* What was read, rd, of stats that are now st is of now or of before.
Current(rd, st) ==
    /\ rd.version <= st.version
    /\ rd.version = st.version => rd = st

ReadInv ==
    \A r \in Request : pc[r] = "evaluate" =>
        Current(read[r], stats[SeriesOf[<<r, type[r]>>]])

\* The stats st, whose log is lg, can absorb the outcome e for the job j.
Absorbable(j, e, st, lg, time) ==
    \E breached \in Verdicts(st, CountOf[j]), mute \in BOOLEAN, at \in Moments :
        /\ Promise!LastMoment(lg) <= at /\ at <= time
        /\ e = Evaluate(st, CountOf[j], breached, mute, at)

\* An outcome is of the version that is stored, and then can be absorbed, or
\* of an older one, and then is refused.
Sound(j, e, st, lg, time) ==
    /\ e.stats.version <= st.version
    /\ e.stats.version = st.version => Absorbable(j, e, st, lg, time)

SoundNow(j, e) == Sound(j, e, stats[SeriesOf[j]], log[SeriesOf[j]], now)

WriteInv ==
    /\ \A r \in Request : pc[r] = "write" => SoundNow(<<r, type[r]>>, outcome[r])
    /\ \A w \in late : SoundNow(w.job, w.outcome)

TimeInv == \A s \in Series : Promise!LastMoment(log[s]) <= now

\* The outcome of the job has not been put to the server yet; p, td and ty are
\* pc, todo and type.
Ahead(j, p, td, ty) ==
    \/ p[j[1]] = "ingest"
    \/ j[2] \in td[j[1]]
    \/ p[j[1]] \in {"lock", "read", "evaluate", "write"} /\ ty[j[1]] = j[2]

\* A type under analysis is not still to be analyzed.
Picked(p, td, ty) ==
    \A r \in Request : p[r] \in Holding \cup {"lock"} => ty[r] \notin td[r]

LandedIn(j, lg) == \E k \in DOMAIN lg : lg[k].job = j

\* A job whose outcome has not been put to the server has not landed and will
\* not land late; one that can still land late has not landed.
OnceInv ==
    /\ \A j \in Job : Ahead(j, pc, todo, type) =>
        ~LandedIn(j, log[SeriesOf[j]]) /\ \A w \in late : w.job # j
    /\ \A w \in late :
        w.outcome.stats.version = stats[SeriesOf[w.job]].version
            => ~LandedIn(w.job, log[SeriesOf[w.job]])
    /\ Picked(pc, todo, type)

RefInv == ReadInv /\ WriteInv /\ TimeInv /\ OnceInv

-----------------------------------------------------------------------------
(* Steps that store nothing *)

\* A log ends at a moment.
LEMMA LastMomentType ==
    ASSUME NEW lg \in Seq(Promise!Landing)
    PROVE  Promise!LastMoment(lg) \in Nat
<1>1. CASE lg = <<>>
  BY <1>1 DEF Promise!LastMoment, Promise!Never, Never
<1>2. CASE lg # <<>>
  <2>1. Len(lg) \in DOMAIN lg
    BY <1>2
  <2>2. lg[Len(lg)] \in Promise!Landing
    BY <2>1
  <2>3. lg[Len(lg)].at \in Nat
    BY <2>2 DEF Promise!Landing
  <2>4. QED
    BY <1>2, <2>3 DEF Promise!LastMoment
<1>3. QED
  BY <1>1, <1>2

\* An outcome stays sound as long as its series is not touched.
LEMMA SoundLater ==
    ASSUME NEW j, NEW e, NEW st, NEW lg, NEW t \in Nat, NEW t2 \in Nat, t <= t2,
           Sound(j, e, st, lg, t)
    PROVE  Sound(j, e, st, lg, t2)
<1>1. ASSUME Absorbable(j, e, st, lg, t)
      PROVE  Absorbable(j, e, st, lg, t2)
  <2>1. PICK breached \in Verdicts(st, CountOf[j]), mute \in BOOLEAN, at \in Moments :
           /\ Promise!LastMoment(lg) <= at /\ at <= t
           /\ e = Evaluate(st, CountOf[j], breached, mute, at)
    BY <1>1 DEF Absorbable
  <2>2. at <= t2
    BY <2>1, IngestAssumption DEF Moments
  <2>3. QED
    BY <2>1, <2>2 DEF Absorbable
<1>2. QED
  BY <1>1 DEF Sound

\* The invariant survives a step that stores nothing, if what it reads is the
\* present, what it evaluates is sound, what it leaves to the server is sound
\* and final, and it goes back to nothing.
LEMMA FrameStep ==
    ASSUME TypeOK, TypeOK', RefInv, UNCHANGED <<stats, log>>, now <= now',
           \A q \in Request : pc'[q] = "evaluate" =>
              \/ pc[q] = "evaluate" /\ type'[q] = type[q] /\ read'[q] = read[q]
              \/ read'[q] = stats[SeriesOf[<<q, type'[q]>>]],
           \A q \in Request : pc'[q] = "write" =>
              SoundNow(<<q, type'[q]>>, outcome'[q]),
           \A w \in late' : \/ w \in late
                            \/ /\ SoundNow(w.job, w.outcome)
                               /\ Ahead(w.job, pc, todo, type)
                               /\ ~Ahead(w.job, pc', todo', type'),
           \A j \in Job : Ahead(j, pc', todo', type') => Ahead(j, pc, todo, type),
           Picked(pc', todo', type')
    PROVE  RefInv'
<1>1. now \in Nat /\ now' \in Nat
  BY IngestAssumption DEF TypeOK, Moments
<1>2. ReadInv'
  <2> SUFFICES ASSUME NEW q \in Request, pc'[q] = "evaluate"
               PROVE  Current(read'[q], stats[SeriesOf[<<q, type'[q]>>]])
    BY DEF ReadInv
  <2>1. <<q, type'[q]>> \in Job
    BY DEF TypeOK, This, Holding
  <2>2. stats[SeriesOf[<<q, type'[q]>>]] \in Stats
    BY <2>1, JobFacts DEF TypeOK
  <2>3. QED
    BY <2>2 DEF RefInv, ReadInv, Current, Stats
<1>3. WriteInv'
  <2>1. ASSUME NEW q \in Request, pc'[q] = "write"
        PROVE  Sound(<<q, type'[q]>>, outcome'[q], stats'[SeriesOf[<<q, type'[q]>>]],
                     log'[SeriesOf[<<q, type'[q]>>]], now')
    BY <1>1, <2>1, SoundLater DEF SoundNow
  <2>2. ASSUME NEW w \in late'
        PROVE  Sound(w.job, w.outcome, stats'[SeriesOf[w.job]],
                     log'[SeriesOf[w.job]], now')
    BY <1>1, SoundLater DEF SoundNow, RefInv, WriteInv
  <2>3. QED
    BY <2>1, <2>2 DEF WriteInv, SoundNow
<1>4. TimeInv'
  <2>1. ASSUME NEW s \in Series
        PROVE  Promise!LastMoment(log[s]) \in Nat
    BY LastMomentType DEF TypeOK
  <2>2. QED
    BY <1>1, <2>1 DEF RefInv, TimeInv, Promise!LastMoment
<1>5. OnceInv'
  <2>1. ASSUME NEW j \in Job, Ahead(j, pc', todo', type')
        PROVE  ~LandedIn(j, log'[SeriesOf[j]]) /\ \A w \in late' : w.job # j
    BY <2>1 DEF RefInv, OnceInv
  <2>2. ASSUME NEW w \in late',
               w.outcome.stats.version = stats'[SeriesOf[w.job]].version
        PROVE  ~LandedIn(w.job, log'[SeriesOf[w.job]])
    BY <2>2 DEF RefInv, OnceInv, TypeOK, Writes
  <2>3. QED
    BY <2>1, <2>2 DEF OnceInv
<1>6. QED
  BY <1>2, <1>3, <1>4, <1>5 DEF RefInv

-----------------------------------------------------------------------------
(* Steps that store an outcome *)

\* What storing does to the stats and the log of each series.
LEMMA StoreEffect ==
    ASSUME TypeOK, NEW j \in Job, NEW e \in Outcomes, Store(j, e),
           e.stats.version = stats[SeriesOf[j]].version
    PROVE  LET s == SeriesOf[j] IN
           /\ s \in Series
           /\ stats'[s].version = stats[s].version + 1
           /\ log'[s] = Append(log[s], Promise!Landed(j, e))
           /\ Promise!LastMoment(log'[s]) = e.at
           /\ \A z \in Series \ {s} : stats'[z] = stats[z] /\ log'[z] = log[z]
           /\ \A k \in Job : LandedIn(k, log'[s]) <=> k = j \/ LandedIn(k, log[s])
<1> DEFINE s == SeriesOf[j]
           d == Promise!Landed(j, e)
<1>1. /\ s \in Series /\ log[s] \in Seq(Promise!Landing) /\ stats[s] \in Stats
      /\ e.stats \in Stats /\ e.at \in Nat
  BY JobFacts DEF TypeOK, Outcomes
<1>2. /\ stats' = [stats EXCEPT ![s] = Stored(e.stats)]
      /\ log' = [log EXCEPT ![s] = Append(@, d)]
  BY DEF Store
<1>3. d.job = j /\ d.at = e.at
  BY DEF Promise!Landed
<1>4. Stored(e.stats).version = e.stats.version + 1
  BY <1>1, StoredFields
<1> HIDE DEF d, s
<1>5. /\ stats'[s] = Stored(e.stats) /\ log'[s] = Append(log[s], d)
      /\ \A z \in Series \ {s} : stats'[z] = stats[z] /\ log'[z] = log[z]
  BY <1>1, <1>2 DEF TypeOK
<1>6. /\ Len(log'[s]) = Len(log[s]) + 1 /\ Len(log[s]) \in Nat
      /\ DOMAIN log[s] = 1..Len(log[s])
      /\ DOMAIN log'[s] = 1..(Len(log[s]) + 1)
      /\ \A i \in 1..Len(log[s]) : log'[s][i] = log[s][i]
      /\ log'[s][Len(log[s]) + 1] = d
  BY <1>1, <1>5
<1>7. Promise!LastMoment(log'[s]) = e.at
  <2>1. log'[s] # <<>>
    BY <1>6
  <2>2. QED
    BY <1>3, <1>6, <2>1 DEF Promise!LastMoment
<1>8. ASSUME NEW k \in Job
      PROVE  LandedIn(k, log'[s]) <=> k = j \/ LandedIn(k, log[s])
  <2>1. DOMAIN log'[s] = DOMAIN log[s] \cup {Len(log[s]) + 1}
    BY <1>6
  <2>2. QED
    BY <1>3, <1>6, <2>1 DEF LandedIn
<1>9. stats'[s].version = stats[s].version + 1
  BY <1>4, <1>5 DEF s
<1>10. QED
  BY <1>1, <1>5, <1>7, <1>8, <1>9 DEF s, d

\* The invariant survives a step that stores a sound outcome of a job that has
\* not landed and will not be put to the server again.
LEMMA LandStep ==
    ASSUME TypeOK, TypeOK', RefInv, NEW j \in Job, NEW e \in Outcomes, Store(j, e),
           e.stats.version = stats[SeriesOf[j]].version, SoundNow(j, e),
           UNCHANGED <<now, late>>,
           \A q \in Request : pc'[q] \in {"evaluate", "write"} =>
              /\ pc[q] = pc'[q] /\ type'[q] = type[q]
              /\ read'[q] = read[q] /\ outcome'[q] = outcome[q],
           \A k \in Job : Ahead(k, pc', todo', type') =>
              Ahead(k, pc, todo, type) /\ k # j,
           Picked(pc', todo', type')
    PROVE  RefInv'
<1> DEFINE s == SeriesOf[j]
<1>1. /\ s \in Series
      /\ stats[s].version \in Nat
      /\ stats'[s].version = stats[s].version + 1
      /\ Promise!LastMoment(log'[s]) = e.at
      /\ \A z \in Series \ {s} : stats'[z] = stats[z] /\ log'[z] = log[z]
      /\ \A k \in Job : LandedIn(k, log'[s]) <=> k = j \/ LandedIn(k, log[s])
  BY StoreEffect DEF TypeOK, Stats
<1>2. now \in Nat
  BY IngestAssumption DEF TypeOK, Moments
<1> HIDE DEF s
<1>3. ReadInv'
  <2> SUFFICES ASSUME NEW q \in Request, pc'[q] = "evaluate"
               PROVE  Current(read'[q], stats'[SeriesOf[<<q, type'[q]>>]])
    BY DEF ReadInv
  <2> DEFINE z == SeriesOf[<<q, type'[q]>>]
  <2>1. z \in Series /\ read'[q] = read[q] /\ read[q].version \in Nat
    BY JobFacts DEF TypeOK, This, Holding, Stats
  <2>2. Current(read[q], stats[z])
    BY DEF RefInv, ReadInv
  <2> HIDE DEF z
  <2>3. Current(read[q], stats'[z])
    <3>1. CASE z = s
      BY <1>1, <2>1, <2>2, <3>1 DEF Current
    <3>2. CASE z # s
      BY <1>1, <2>1, <2>2, <3>2
    <3>3. QED
      BY <3>1, <3>2
  <2>4. QED
    BY <2>1, <2>3 DEF z
<1>4. ASSUME NEW k \in Job, NEW f \in Outcomes, SoundNow(k, f)
      PROVE  /\ Sound(k, f, stats'[SeriesOf[k]], log'[SeriesOf[k]], now')
             /\ f.stats.version = stats'[SeriesOf[k]].version =>
                  /\ f.stats.version = stats[SeriesOf[k]].version
                  /\ log'[SeriesOf[k]] = log[SeriesOf[k]]
  <2>1. SeriesOf[k] \in Series /\ f.stats.version \in Nat
    BY JobFacts DEF Outcomes, Stats
  <2>2. CASE SeriesOf[k] = s
    BY <1>1, <1>4, <2>1, <2>2 DEF SoundNow, Sound
  <2>3. CASE SeriesOf[k] # s
    BY <1>1, <1>4, <2>1, <2>3 DEF SoundNow
  <2>4. QED
    BY <2>2, <2>3
<1>5. \A w \in late : w.job \in Job /\ w.outcome \in Outcomes /\ SoundNow(w.job, w.outcome)
  BY DEF TypeOK, Writes, RefInv, WriteInv
<1>6. WriteInv'
  <2>1. ASSUME NEW q \in Request, pc'[q] = "write"
        PROVE  Sound(<<q, type'[q]>>, outcome'[q], stats'[SeriesOf[<<q, type'[q]>>]],
                     log'[SeriesOf[<<q, type'[q]>>]], now')
    <3>1. <<q, type'[q]>> \in Job /\ outcome'[q] \in Outcomes
      BY <2>1 DEF TypeOK, This, Holding
    <3>2. SoundNow(<<q, type'[q]>>, outcome'[q])
      BY <2>1 DEF RefInv, WriteInv
    <3>3. QED
      BY <1>4, <3>1, <3>2
  <2>2. \A w \in late' : Sound(w.job, w.outcome, stats'[SeriesOf[w.job]],
                                log'[SeriesOf[w.job]], now')
    BY <1>4, <1>5
  <2>3. QED
    BY <2>1, <2>2 DEF WriteInv, SoundNow
<1>7. TimeInv'
  <2>1. e.at <= now
    <3>1. PICK breached \in Verdicts(stats[s], CountOf[j]), mute \in BOOLEAN,
               at \in Moments :
             at <= now /\ e = Evaluate(stats[s], CountOf[j], breached, mute, at)
      BY DEF SoundNow, Sound, Absorbable, s
    <3>2. e.at = at
      BY <3>1 DEF Evaluate
    <3>3. QED
      BY <3>1, <3>2
  <2>2. QED
    BY <1>1, <2>1 DEF RefInv, TimeInv, Promise!LastMoment
<1>8. OnceInv'
  <2>1. ASSUME NEW k \in Job, Ahead(k, pc', todo', type')
        PROVE  ~LandedIn(k, log'[SeriesOf[k]]) /\ \A w \in late' : w.job # k
    <3>1. /\ k # j /\ ~LandedIn(k, log[SeriesOf[k]])
          /\ \A w \in late : w.job # k
          /\ SeriesOf[k] \in Series
      BY <2>1, JobFacts DEF RefInv, OnceInv
    <3>2. QED
      BY <1>1, <3>1
  <2>2. ASSUME NEW w \in late',
               w.outcome.stats.version = stats'[SeriesOf[w.job]].version
        PROVE  ~LandedIn(w.job, log'[SeriesOf[w.job]])
    BY <1>4, <1>5, <2>2 DEF RefInv, OnceInv
  <2>3. QED
    BY <2>1, <2>2 DEF OnceInv
<1>9. QED
  BY <1>3, <1>6, <1>7, <1>8 DEF RefInv

-----------------------------------------------------------------------------
(* Baseline's own names for the operators of AlertPolicy mean the same      *)

\* Updating, judging and ruling a count.
LEMMA SameRuling ==
    ASSUME NEW old, NEW x, NEW normal, NEW breached, NEW mute, NEW at
    PROVE  /\ Promise!Update(old, x) = Update(old, x)
           /\ Promise!IsNormal(old, x) = IsNormal(old, x)
           /\ Promise!WarmBreach(old, x) = WarmBreach(old, x)
           /\ Promise!Resets(old, normal) = Resets(old, normal)
           /\ Promise!LastAlert(old, normal) = LastAlert(old, normal)
           /\ Promise!LastAlertMuted(old, normal) = LastAlertMuted(old, normal)
           /\ Promise!NormalRun(old, normal, breached) = NormalRun(old, normal, breached)
           /\ Promise!Ruling(old, normal, breached, mute, at)
                = Ruling(old, normal, breached, mute, at)
<1>1. Promise!Update(old, x) = Update(old, x)
  BY DEF Promise!Update, Update
<1>2. Promise!IsNormal(old, x) = IsNormal(old, x)
  BY DEF Promise!IsNormal, IsNormal, Promise!NormalZScore, NormalZScore,
         Promise!NormalPercentage, NormalPercentage, Promise!Deviation, Deviation,
         Promise!Spread, Spread
<1>3. Promise!WarmBreach(old, x) = WarmBreach(old, x)
  BY DEF Promise!WarmBreach, WarmBreach, Promise!ZScoreBreach, ZScoreBreach,
         Promise!Deviation, Deviation, Promise!Spread, Spread
<1>4. Promise!Resets(old, normal) = Resets(old, normal)
  BY DEF Promise!Resets, Resets, Promise!QuietRun, QuietRun
<1>5. /\ Promise!LastAlert(old, normal) = LastAlert(old, normal)
      /\ Promise!LastAlertMuted(old, normal) = LastAlertMuted(old, normal)
  BY <1>4 DEF Promise!LastAlert, LastAlert, Promise!LastAlertMuted, LastAlertMuted,
              Promise!Never, Never
<1>6. Promise!NormalRun(old, normal, breached) = NormalRun(old, normal, breached)
  BY DEF Promise!NormalRun, NormalRun
<1>7. Promise!InCooldown(old, normal, mute, at) = InCooldown(old, normal, mute, at)
  BY <1>5 DEF Promise!InCooldown, InCooldown, Promise!Never, Never
<1>8. Promise!Ruling(old, normal, breached, mute, at)
        = Ruling(old, normal, breached, mute, at)
  BY <1>7 DEF Promise!Ruling, Ruling
<1>9. QED
  BY <1>1, <1>2, <1>3, <1>4, <1>5, <1>6, <1>8

\* Evaluating and storing.
LEMMA SameEvaluation ==
    ASSUME NEW old, NEW x, NEW breached, NEW mute, NEW at
    PROVE  /\ Promise!Evaluate(old, x, breached, mute, at)
                = Evaluate(old, x, breached, mute, at)
           /\ Promise!Stored(old) = Stored(old)
           /\ Promise!Verdicts(old, x) = Verdicts(old, x)
<1>1. Promise!Evaluate(old, x, breached, mute, at)
        = Evaluate(old, x, breached, mute, at)
  BY SameRuling DEF Promise!Evaluate, Evaluate, Promise!Recorded, Recorded
<1>2. Promise!Stored(old) = Stored(old)
  BY DEF Promise!Stored, Stored
<1>3. Promise!Verdicts(old, x) = Verdicts(old, x)
  BY SameRuling DEF Promise!Verdicts, Verdicts
<1>4. QED
  BY <1>1, <1>2, <1>3

\* Storing the outcome of a job that has not landed is a step of Baseline.
LEMMA LandIsAbsorb ==
    ASSUME TypeOK, NEW j \in Job, NEW e \in Outcomes, Store(j, e),
           e.stats.version = stats[SeriesOf[j]].version, SoundNow(j, e),
           ~LandedIn(j, log[SeriesOf[j]])
    PROVE  Promise!Next
<1> DEFINE s == SeriesOf[j]
<1>1. PICK breached \in Verdicts(stats[s], CountOf[j]), mute \in BOOLEAN,
           at \in Moments :
         /\ Promise!LastMoment(log[s]) <= at
         /\ e = Evaluate(stats[s], CountOf[j], breached, mute, at)
  BY DEF SoundNow, Sound, Absorbable
<1>2. ~Promise!HasLanded(j)
  BY DEF Promise!HasLanded, LandedIn
<1>3. Promise!Absorb(j, breached, mute, at)
  <2>1. e = Promise!Evaluate(stats[s], CountOf[j], breached, mute, at)
    BY <1>1, SameEvaluation
  <2>2. stats' = [stats EXCEPT ![s] = Promise!Stored(e.stats)]
    BY SameEvaluation DEF Store
  <2>3. log' = [log EXCEPT ![s] = Append(@, Promise!Landed(j, e))]
    BY DEF Store
  <2>4. QED
    BY <1>1, <2>1, <2>2, <2>3 DEF Promise!Absorb
<1>4. breached \in Promise!Verdicts(stats[s], CountOf[j])
  BY SameEvaluation
<1>5. QED
  BY <1>2, <1>3, <1>4 DEF Promise!Next

-----------------------------------------------------------------------------
(* The actions *)

\* A return ends the analysis under way and goes back to no job.
LEMMA ReturnFrame ==
    ASSUME TypeOK, OnceInv, NEW r \in Request, pc[r] \in Holding, Return(r)
    PROVE  /\ pc'[r] \notin {"ingest", "lock"} \cup Holding
           /\ todo' = todo
           /\ \A q \in Request \ {r} : /\ pc'[q] = pc[q] /\ type'[q] = type[q]
                                       /\ read'[q] = read[q]
                                       /\ outcome'[q] = outcome[q]
           /\ \A j \in Job : Ahead(j, pc', todo', type') =>
                Ahead(j, pc, todo, type) /\ j # <<r, type[r]>>
           /\ Picked(pc', todo', type')
<1>1. /\ pc'[r] \notin {"ingest", "lock"} \cup Holding
      /\ todo' = todo
      /\ \A q \in Request \ {r} : /\ pc'[q] = pc[q] /\ type'[q] = type[q]
                                  /\ read'[q] = read[q]
                                  /\ outcome'[q] = outcome[q]
  BY DEF Return, Goto, TypeOK, Holding
<1>2. type[r] \notin todo[r]
  BY DEF OnceInv, Picked
<1>3. ASSUME NEW j \in Job, Ahead(j, pc', todo', type')
      PROVE  Ahead(j, pc, todo, type) /\ j # <<r, type[r]>>
  <2>1. j[1] \in Request /\ j = <<j[1], j[2]>>
    BY JobFacts
  <2>2. CASE j[1] = r
    BY <1>1, <1>2, <1>3, <2>1, <2>2 DEF Ahead, Holding
  <2>3. CASE j[1] # r
    BY <1>1, <1>3, <2>1, <2>3 DEF Ahead
  <2>4. QED
    BY <2>2, <2>3
<1>4. Picked(pc', todo', type')
  BY <1>1 DEF OnceInv, Picked
<1>5. QED
  BY <1>1, <1>3, <1>4

\* Moving on inside an analysis goes back to no job.
LEMMA GotoFrame ==
    ASSUME TypeOK, OnceInv, NEW r \in Request, NEW l \in Holding, Goto(r, l),
           UNCHANGED <<todo, type>>,
           pc[r] \in Holding \cup {"lock"},
           pc[r] \in {"lock", "read", "evaluate", "write"} \/ l \in {"record", "notify"}
    PROVE  /\ \A j \in Job : Ahead(j, pc', todo', type') => Ahead(j, pc, todo, type)
           /\ Picked(pc', todo', type')
<1>1. pc' = [pc EXCEPT ![r] = l]
  BY DEF Goto
<1>2. ASSUME NEW j \in Job, Ahead(j, pc', todo', type')
      PROVE  Ahead(j, pc, todo, type)
  <2>1. j[1] \in Request
    BY JobFacts
  <2>2. CASE j[1] = r
    BY <1>1, <1>2, <2>1, <2>2 DEF Ahead, Holding, TypeOK
  <2>3. CASE j[1] # r
    BY <1>1, <1>2, <2>1, <2>3 DEF Ahead, TypeOK
  <2>4. QED
    BY <2>2, <2>3
<1>3. Picked(pc', todo', type')
  BY <1>1 DEF OnceInv, Picked, TypeOK
<1>4. QED
  BY <1>2, <1>3

\* The actions before an analysis store nothing.
LEMMA EntryRef ==
    ASSUME TypeOK, TypeOK', RefInv, NEW r \in Request,
           Reject(r) \/ Save(r) \/ SaveFails(r) \/ CheckMute(r)
    PROVE  RefInv' /\ UNCHANGED <<stats, log>>
<1>1. UNCHANGED <<now, stats, log, late, read, outcome>>
  BY DEF Reject, Save, SaveFails, CheckMute, shared
<1>2. /\ pc[r] \in {"ingest", "next"}
      /\ pc'[r] \notin {"ingest"} \cup Holding
      /\ \A q \in Request \ {r} : pc'[q] = pc[q] /\ type'[q] = type[q] /\ todo'[q] = todo[q]
  BY DEF Reject, Save, SaveFails, CheckMute, Goto, Holding, TypeOK
<1>3. ASSUME NEW j \in Job, Ahead(j, pc', todo', type')
      PROVE  Ahead(j, pc, todo, type)
  <2>1. j[1] \in Request
    BY JobFacts
  <2>2. CASE j[1] # r
    BY <1>2, <1>3, <2>1, <2>2 DEF Ahead
  <2>3. CASE j[1] = r /\ pc[r] = "ingest"
    BY <2>3 DEF Ahead
  <2>4. CASE j[1] = r /\ CheckMute(r)
    <3>1. PICK t \in todo[r] : /\ type' = [type EXCEPT ![r] = t]
                               /\ todo' = [todo EXCEPT ![r] = @ \ {t}]
      BY <2>4 DEF CheckMute
    <3>2. type'[r] = t /\ todo'[r] = todo[r] \ {t}
      BY <3>1 DEF TypeOK
    <3>3. QED
      BY <1>2, <1>3, <2>4, <3>2 DEF Ahead
  <2>5. QED
    BY <2>2, <2>3, <2>4 DEF Reject, Save, SaveFails
<1>4. Picked(pc', todo', type')
  <2>1. CASE Reject(r) \/ Save(r) \/ SaveFails(r)
    <3>1. pc'[r] # "lock"
      BY <2>1 DEF Reject, Save, SaveFails, Goto, TypeOK
    <3>2. QED
      BY <1>2, <3>1 DEF RefInv, OnceInv, Picked
  <2>2. CASE CheckMute(r)
    <3>1. type'[r] \notin todo'[r]
      BY <2>2 DEF CheckMute, TypeOK
    <3>2. QED
      BY <1>2, <3>1 DEF RefInv, OnceInv, Picked
  <2>3. QED
    BY <2>1, <2>2
<1>5. \A q \in Request : pc'[q] \in Holding =>
        pc[q] = pc'[q] /\ type'[q] = type[q] /\ outcome'[q] = outcome[q]
  BY <1>1, <1>2
<1>6. \A q \in Request : pc'[q] = "write" => SoundNow(<<q, type'[q]>>, outcome'[q])
  BY <1>5 DEF RefInv, WriteInv, Holding
<1>7. now <= now'
  BY <1>1, IngestAssumption DEF TypeOK, Moments
<1>8. RefInv'
  BY <1>1, <1>3, <1>4, <1>5, <1>6, <1>7, FrameStep DEF Holding
<1>9. QED
  BY <1>1, <1>8

\* What is evaluated from a current read is sound.
LEMMA EvaluateSound ==
    ASSUME TypeOK, RefInv, NEW r \in Request, pc[r] = "evaluate",
           NEW breached \in Verdicts(read[r], CountOf[<<r, type[r]>>])
    PROVE  SoundNow(<<r, type[r]>>,
                    Evaluate(read[r], CountOf[<<r, type[r]>>], breached, muted[r], now))
<1> DEFINE j == <<r, type[r]>>
           e == Evaluate(read[r], CountOf[j], breached, muted[r], now)
           s == SeriesOf[j]
<1>1. /\ j \in Job /\ s \in Series /\ CountOf[j] \in Nat
      /\ muted[r] \in BOOLEAN /\ now \in Moments /\ now \in Nat
  BY JobFacts, IngestAssumption DEF TypeOK, This, Holding, Moments
<1>2. e.stats.version = read[r].version
  BY DEF Evaluate
<1>3. Current(read[r], stats[s])
  BY DEF RefInv, ReadInv
<1>4. Promise!LastMoment(log[s]) <= now
  BY <1>1 DEF RefInv, TimeInv
<1> HIDE DEF j, s
<1>5. ASSUME read[r] = stats[s]
      PROVE  Absorbable(j, e, stats[s], log[s], now)
  BY <1>1, <1>4, <1>5 DEF Absorbable, j
<1>6. Sound(j, e, stats[s], log[s], now)
  <2> HIDE DEF e
  <2>1. QED
    BY <1>2, <1>3, <1>5 DEF Sound, Current
<1>7. QED
  BY <1>6 DEF SoundNow, j, s

\* The steps of evaluateTrend, and a conflict, store nothing.
LEMMA EvaluateRef ==
    ASSUME TypeOK, TypeOK', RefInv, NEW r \in Request,
           \/ AcquireLock(r) \/ GetStats(r) \/ EvaluateTrend(r)
           \/ GetAverageFails(r) \/ Conflict(r)
    PROVE  RefInv' /\ UNCHANGED <<stats, log>>
<1>1. /\ UNCHANGED <<now, stats, log, late, todo, type>>
      /\ pc[r] \in {"lock", "read", "evaluate", "write"}
      /\ \E l \in Holding : Goto(r, l)
      /\ \A q \in Request \ {r} :
           pc'[q] = pc[q] /\ read'[q] = read[q] /\ outcome'[q] = outcome[q]
  BY DEF AcquireLock, GetStats, EvaluateTrend, GetAverageFails, Conclude,
         Conflict, Goto, shared, Holding, TypeOK
<1>2. /\ \A j \in Job : Ahead(j, pc', todo', type') => Ahead(j, pc, todo, type)
      /\ Picked(pc', todo', type')
  BY <1>1, GotoFrame DEF RefInv, Holding
<1>3. pc'[r] = "evaluate" => read'[r] = stats[SeriesOf[<<r, type'[r]>>]]
  BY <1>1 DEF AcquireLock, GetStats, EvaluateTrend, GetAverageFails, Conclude,
              Conflict, Goto, TypeOK, ThisSeries, This
<1>4. ASSUME pc'[r] = "write"
      PROVE  SoundNow(<<r, type'[r]>>, outcome'[r])
  <2>1. pc[r] = "evaluate"
    BY <1>4 DEF AcquireLock, GetStats, EvaluateTrend, GetAverageFails, Conclude,
                Conflict, Goto, TypeOK
  <2>2. PICK breached \in Verdicts(read[r], CountOf[This(r)]) :
          outcome' = [outcome EXCEPT ![r] =
            Evaluate(read[r], CountOf[This(r)], breached, muted[r], now)]
    <3>1. CASE EvaluateTrend(r)
      BY <3>1, BreachedIsVerdict DEF EvaluateTrend, Conclude
    <3>2. CASE GetAverageFails(r)
      BY <3>2, FalseIsVerdict DEF GetAverageFails, Conclude
    <3>3. QED
      BY <2>1, <3>1, <3>2 DEF AcquireLock, GetStats, Conflict
  <2>3. outcome'[r] = Evaluate(read[r], CountOf[<<r, type[r]>>], breached, muted[r], now)
    BY <2>2 DEF TypeOK, This
  <2>4. SoundNow(<<r, type[r]>>, outcome'[r])
    BY <2>1, <2>2, <2>3, EvaluateSound DEF This
  <2>5. QED
    BY <1>1, <2>4
<1>5. \A q \in Request : pc'[q] = "write" => SoundNow(<<q, type'[q]>>, outcome'[q])
  BY <1>1, <1>4 DEF RefInv, WriteInv
<1>6. now <= now'
  BY <1>1, IngestAssumption DEF TypeOK, Moments
<1>7. RefInv'
  BY <1>1, <1>2, <1>3, <1>5, <1>6, FrameStep
<1>8. QED
  BY <1>1, <1>7

\* A return that stores nothing; SaveStatsFails leaves its outcome, sound and
\* final, to the server.
LEMMA ReturnRef ==
    ASSUME TypeOK, TypeOK', RefInv, NEW r \in Request, pc[r] \in Holding, Return(r),
           UNCHANGED <<now, stats, log>>,
           \/ UNCHANGED late
           \/ /\ pc[r] = "write"
              /\ late' = late \cup {[job |-> This(r), outcome |-> outcome[r]]}
    PROVE  RefInv' /\ UNCHANGED <<stats, log>>
<1>1. /\ pc'[r] \notin {"ingest", "lock"} \cup Holding
      /\ \A q \in Request \ {r} : /\ pc'[q] = pc[q] /\ type'[q] = type[q]
                                  /\ read'[q] = read[q]
                                  /\ outcome'[q] = outcome[q]
      /\ \A j \in Job : Ahead(j, pc', todo', type') =>
           Ahead(j, pc, todo, type) /\ j # <<r, type[r]>>
      /\ Picked(pc', todo', type')
  BY ReturnFrame DEF RefInv
<1>2. \A q \in Request : pc'[q] \in {"evaluate", "write"} => q # r
  BY <1>1 DEF Holding
<1>3. \A q \in Request : pc'[q] = "write" => SoundNow(<<q, type'[q]>>, outcome'[q])
  BY <1>1, <1>2 DEF RefInv, WriteInv
<1>4. ASSUME NEW w \in late', w \notin late
      PROVE  /\ SoundNow(w.job, w.outcome)
             /\ Ahead(w.job, pc, todo, type)
             /\ ~Ahead(w.job, pc', todo', type')
  <2>1. /\ pc[r] = "write"
        /\ w.job = <<r, type[r]>> /\ w.outcome = outcome[r]
    BY <1>4 DEF This
  <2>2. w.job \in Job
    BY <2>1 DEF TypeOK, This, Holding
  <2>3. SoundNow(w.job, w.outcome)
    BY <2>1 DEF RefInv, WriteInv
  <2>4. Ahead(w.job, pc, todo, type)
    BY <2>1 DEF Ahead
  <2>5. QED
    BY <1>1, <2>1, <2>2, <2>3, <2>4
<1>5. now <= now'
  BY IngestAssumption DEF TypeOK, Moments
<1>6. RefInv'
  BY <1>1, <1>2, <1>3, <1>4, <1>5, FrameStep
<1>7. QED
  BY <1>6

\* The record of a breach stores nothing of the stats.
LEMMA RecordRef ==
    ASSUME TypeOK, TypeOK', RefInv, NEW r \in Request,
           SaveBreach(r) \/ SaveBreachFails(r)
    PROVE  RefInv' /\ UNCHANGED <<stats, log>>
<1>1. UNCHANGED <<now, stats, log, late>> /\ pc[r] \in Holding /\ AfterRecord(r)
  BY DEF SaveBreach, SaveBreachFails, Holding
<1>2. CASE Return(r)
  BY <1>1, <1>2, ReturnRef
<1>3. CASE Goto(r, "notify") /\ UNCHANGED <<todo, type, read, outcome>>
  <2>1. /\ \A j \in Job : Ahead(j, pc', todo', type') => Ahead(j, pc, todo, type)
        /\ Picked(pc', todo', type')
    BY <1>1, <1>3, GotoFrame DEF RefInv, Holding
  <2>2. \A q \in Request : pc'[q] \in {"evaluate", "write"} => pc[q] = pc'[q]
    BY <1>3 DEF Goto, TypeOK
  <2>3. \A q \in Request : pc'[q] = "write" => SoundNow(<<q, type'[q]>>, outcome'[q])
    BY <1>3, <2>2 DEF RefInv, WriteInv
  <2>4. now <= now'
    BY <1>1, IngestAssumption DEF TypeOK, Moments
  <2>5. RefInv'
    BY <1>1, <1>3, <2>1, <2>2, <2>3, <2>4, FrameStep
  <2>6. QED
    BY <1>1, <2>5
<1>4. QED
  BY <1>1, <1>2, <1>3 DEF AfterRecord

\* The versioned write lands: one count is absorbed.
LEMMA SaveRef ==
    ASSUME TypeOK, TypeOK', RefInv, NEW r \in Request, SaveStats(r)
    PROVE  RefInv' /\ Promise!Next
<1> DEFINE j == <<r, type[r]>>
           e == outcome[r]
<1>1. /\ pc[r] = "write" /\ pc[r] \in Holding
      /\ UNCHANGED <<now, late>>
      /\ Store(j, e)
      /\ e.stats.version = stats[SeriesOf[j]].version
      /\ j \in Job /\ e \in Outcomes
  BY DEF SaveStats, Accepts, This, TypeOK, Holding
<1>2. SoundNow(j, e)
  BY <1>1 DEF RefInv, WriteInv
<1>3. Ahead(j, pc, todo, type)
  BY <1>1 DEF Ahead
<1>4. ~LandedIn(j, log[SeriesOf[j]])
  BY <1>1, <1>3 DEF RefInv, OnceInv
<1>5. /\ pc'[r] \notin {"evaluate", "write"}
      /\ \A q \in Request \ {r} : /\ pc'[q] = pc[q] /\ type'[q] = type[q]
                                  /\ read'[q] = read[q] /\ outcome'[q] = outcome[q]
      /\ \A k \in Job : Ahead(k, pc', todo', type') =>
           Ahead(k, pc, todo, type) /\ k # j
      /\ Picked(pc', todo', type')
  <2>1. CASE Return(r)
    BY <1>1, <2>1, ReturnFrame DEF RefInv, Holding
  <2>2. CASE Goto(r, "record") /\ UNCHANGED <<todo, type, read, outcome>>
    <3>1. /\ \A k \in Job : Ahead(k, pc', todo', type') => Ahead(k, pc, todo, type)
          /\ Picked(pc', todo', type')
      BY <1>1, <2>2, GotoFrame DEF RefInv, Holding
    <3>2. ~Ahead(j, pc', todo', type')
      <4>1. pc'[r] = "record" /\ todo' = todo /\ type[r] \notin todo[r]
        BY <1>1, <2>2 DEF Goto, TypeOK, RefInv, OnceInv, Picked
      <4>2. QED
        BY <4>1 DEF Ahead
    <3>3. QED
      BY <2>2, <3>1, <3>2 DEF Goto, TypeOK
  <2>3. QED
    BY <2>1, <2>2 DEF SaveStats
<1> HIDE DEF j, e
<1>6. RefInv'
  BY <1>1, <1>2, <1>5, LandStep
<1>7. Promise!Next
  BY <1>1, <1>2, <1>4, LandIsAbsorb
<1>8. QED
  BY <1>6, <1>7

\* A late write lands: one count is absorbed.
LEMMA LateRef ==
    ASSUME TypeOK, TypeOK', RefInv, LandLate
    PROVE  RefInv' /\ Promise!Next
<1>1. PICK w \in late : Accepts(w.job, w.outcome) /\ Store(w.job, w.outcome)
  BY DEF LandLate
<1> DEFINE j == w.job
           e == w.outcome
<1>2. /\ UNCHANGED <<now, late, pc, todo, type, read, outcome>>
      /\ Store(j, e)
      /\ e.stats.version = stats[SeriesOf[j]].version
      /\ j \in Job /\ e \in Outcomes
  BY <1>1 DEF LandLate, local, Accepts, TypeOK, Writes
<1>3. SoundNow(j, e)
  BY DEF RefInv, WriteInv
<1>4. ~LandedIn(j, log[SeriesOf[j]])
  BY <1>2 DEF RefInv, OnceInv
<1>5. /\ \A k \in Job : Ahead(k, pc, todo, type) => k # j
      /\ Picked(pc, todo, type)
  BY DEF RefInv, OnceInv
<1> HIDE DEF j, e
<1>6. RefInv'
  BY <1>2, <1>3, <1>5, LandStep
<1>7. Promise!Next
  BY <1>2, <1>3, <1>4, LandIsAbsorb
<1>8. QED
  BY <1>6, <1>7

\* A process dies: what it was writing is left to the server.
LEMMA CrashRef ==
    ASSUME TypeOK, TypeOK', RefInv, NEW i \in Instance, Crash(i)
    PROVE  RefInv' /\ UNCHANGED <<stats, log>>
<1> DEFINE dead == {r \in Request : At[r] = i /\ pc[r] \in Underway}
<1>1. /\ UNCHANGED <<now, stats, log, todo, type>>
      /\ late' = late \cup {[job |-> This(r), outcome |-> outcome[r]] :
                            r \in {d \in dead : pc[d] = "write"}}
      /\ \A q \in dead : pc'[q] = "crashed"
      /\ \A q \in Request \ dead : /\ pc'[q] = pc[q] /\ read'[q] = read[q]
                                   /\ outcome'[q] = outcome[q]
  BY DEF Crash
<1> HIDE DEF dead
<1>2. \A q \in Request : pc'[q] \in Holding \cup {"ingest", "lock"} =>
        pc[q] = pc'[q] /\ read'[q] = read[q] /\ outcome'[q] = outcome[q]
  BY <1>1 DEF Holding
<1>3. \A q \in Request : pc'[q] = "write" => SoundNow(<<q, type'[q]>>, outcome'[q])
  BY <1>1, <1>2 DEF RefInv, WriteInv, Holding
<1>4. ASSUME NEW w \in late', w \notin late
      PROVE  /\ SoundNow(w.job, w.outcome)
             /\ Ahead(w.job, pc, todo, type)
             /\ ~Ahead(w.job, pc', todo', type')
  <2>1. PICK r \in dead : pc[r] = "write" /\ w = [job |-> This(r), outcome |-> outcome[r]]
    BY <1>1, <1>4
  <2>2. /\ r \in Request /\ pc'[r] = "crashed"
        /\ w.job = <<r, type[r]>> /\ w.outcome = outcome[r]
    BY <1>1, <2>1 DEF This, dead
  <2>3. SoundNow(w.job, w.outcome)
    BY <2>1, <2>2 DEF RefInv, WriteInv
  <2>4. Ahead(w.job, pc, todo, type)
    BY <2>1, <2>2 DEF Ahead
  <2>5. type[r] \notin todo[r]
    BY <2>1, <2>2 DEF RefInv, OnceInv, Picked, Holding
  <2>6. ~Ahead(w.job, pc', todo', type')
    BY <1>1, <2>2, <2>5 DEF Ahead
  <2>7. QED
    BY <2>3, <2>4, <2>6
<1>5. ASSUME NEW j \in Job, Ahead(j, pc', todo', type')
      PROVE  Ahead(j, pc, todo, type)
  BY <1>1, <1>2, <1>5, JobFacts DEF Ahead, Holding
<1>6. Picked(pc', todo', type')
  BY <1>1, <1>2 DEF RefInv, OnceInv, Picked
<1>7. now <= now'
  BY <1>1, IngestAssumption DEF TypeOK, Moments
<1>8. RefInv'
  BY <1>1, <1>2, <1>3, <1>4, <1>5, <1>6, <1>7, FrameStep DEF Holding
<1>9. QED
  BY <1>1, <1>8

\* Nothing moves but the clock, the mutes, or what is cancelled.
LEMMA IdleRef ==
    ASSUME TypeOK, TypeOK', RefInv, now <= now',
           UNCHANGED <<stats, log, late, local>>
    PROVE  RefInv' /\ UNCHANGED <<stats, log>>
<1>1. UNCHANGED <<pc, todo, type, read, outcome>>
  BY DEF local
<1>2. \A q \in Request : pc'[q] = "write" => SoundNow(<<q, type'[q]>>, outcome'[q])
  BY <1>1 DEF RefInv, WriteInv
<1>3. Picked(pc', todo', type')
  BY <1>1 DEF RefInv, OnceInv
<1>4. RefInv'
  BY <1>1, <1>2, <1>3, FrameStep
<1>5. QED
  BY <1>4

-----------------------------------------------------------------------------
(* The specification *)

\* Every step keeps the invariant, and is a step of Baseline or a stutter.
LEMMA RefStep ==
    TypeOK /\ TypeOK' /\ RefInv /\ [Next]_vars =>
        RefInv' /\ [Promise!Next]_(Promise!vars)
<1> SUFFICES ASSUME TypeOK, TypeOK', RefInv, [Next]_vars
             PROVE  RefInv' /\ (Promise!Next \/ UNCHANGED <<stats, log>>)
  BY DEF Promise!vars
<1>1. ASSUME NEW r \in Request, Reject(r) \/ Step(r)
      PROVE  RefInv' /\ (Promise!Next \/ UNCHANGED <<stats, log>>)
  <2>1. CASE Reject(r) \/ Save(r) \/ SaveFails(r) \/ CheckMute(r)
    BY <2>1, EntryRef
  <2>2. CASE \/ AcquireLock(r) \/ GetStats(r) \/ EvaluateTrend(r)
             \/ GetAverageFails(r) \/ Conflict(r)
    BY <2>2, EvaluateRef
  <2>3. CASE GetStatsFails(r) \/ GiveUp(r) \/ SaveStatsFails(r) \/ Notify(r) \/ NotifyFails(r)
    BY <2>3, ReturnRef
       DEF GetStatsFails, GiveUp, SaveStatsFails, Notify, NotifyFails, shared, Holding
  <2>4. CASE SaveBreach(r) \/ SaveBreachFails(r)
    BY <2>4, RecordRef
  <2>5. CASE SaveStats(r)
    BY <2>5, SaveRef
  <2>6. QED
    BY <1>1, <2>1, <2>2, <2>3, <2>4, <2>5 DEF Step
<1>2. ASSUME NEW i \in Instance, Crash(i)
      PROVE  RefInv' /\ (Promise!Next \/ UNCHANGED <<stats, log>>)
  BY <1>2, CrashRef
<1>3. CASE LandLate
  BY <1>3, LateRef
<1>4. now \in Nat
  BY IngestAssumption DEF TypeOK, Moments
<1>5. CASE \/ \E r \in Request : Cancel(r)
           \/ \E k \in MuteKeys, n \in MuteLengths : Mute(k, n)
           \/ Tick \/ Quiesce \/ UNCHANGED vars
  <2>1. CASE \E r \in Request : Cancel(r)
    BY <1>4, <2>1, IdleRef DEF Cancel, shared
  <2>2. CASE \E k \in MuteKeys, n \in MuteLengths : Mute(k, n)
    <3>1. UNCHANGED <<now, stats, log, late, local>>
      BY <2>2 DEF Mute
    <3>2. QED
      BY <1>4, <3>1, IdleRef
  <2>3. CASE Tick
    BY <1>4, <2>3, IdleRef DEF Tick, shared
  <2>4. CASE Quiesce \/ UNCHANGED vars
    BY <1>4, <2>4, IdleRef DEF Quiesce, vars, shared
  <2>5. QED
    BY <1>5, <2>1, <2>2, <2>3, <2>4
<1>6. QED
  BY <1>1, <1>2, <1>3, <1>5 DEF Next

\* The invariant holds at first, and Ingest begins as Baseline does.
LEMMA RefInit == Init => RefInv /\ Promise!Init
<1> SUFFICES ASSUME Init
             PROVE  RefInv /\ Promise!Init
  OBVIOUS
<1>1. ReadInv /\ WriteInv
  BY DEF Init, ReadInv, WriteInv
<1>2. TimeInv
  BY DEF Init, TimeInv, Promise!LastMoment, Promise!Never
<1>3. OnceInv
  BY JobFacts DEF Init, OnceInv, LandedIn, Picked, Holding
<1>4. QED
  BY <1>1, <1>2, <1>3 DEF RefInv, Init, Promise!Init

\* Ingest implements Baseline: for any requests, instances, locks, faults and
\* attempts, each series sees its counts one after the other, none twice, each
\* ruled against the stats the one before it left.
THEOREM Implements == Spec => ImplementsPromise
<1>1. Spec => [](TypeOK /\ RefInv)
  BY RefInit, TypeInit, RefStep, TypeStep, PTL DEF Spec
<1>2. QED
  BY <1>1, RefInit, RefStep, TypeStep, PTL DEF Spec, ImplementsPromise, Promise!Spec

-----------------------------------------------------------------------------
(* What Baseline promises therefore holds of Ingest                        *)

Facts == INSTANCE Baseline_proofs WITH Moment <- Moments

\* The stats that were stored before hold counts and no alert.
FreshSeed ==
    /\ Seed.lastAlert = Never
    /\ Seed.lastAlertMuted = FALSE
    /\ Seed.consecutiveNormal = 0
    /\ Seed.count = Seed.version

\* The assumptions of Baseline_proofs.
LEMMA FactsAssumption ==
    ASSUME FreshSeed
    PROVE  /\ SeriesOf \in [Job -> Series]
           /\ CountOf \in [Job -> Nat]
           /\ Moments \subseteq Nat \ {Facts!Never}
           /\ Seed \in Facts!Stats
           /\ Seed.lastAlert = Facts!Never
           /\ Seed.lastAlertMuted = FALSE
           /\ Seed.consecutiveNormal = 0
           /\ Seed.count = Seed.version
<1>1. SeriesOf \in [Job -> Series]
  BY DEF SeriesOf, Series
<1>2. CountOf \in [Job -> Nat]
  <2>1. \A j \in Job : CountOf[j] \in Nat
    BY JobFacts
  <2>2. QED
    BY <2>1 DEF CountOf
<1>3. Moments \subseteq Nat \ {Facts!Never}
  BY IngestAssumption DEF Moments, Facts!Never
<1>4. Seed \in Facts!Stats
  BY IngestAssumption DEF Stats, Facts!Stats
<1>5. QED
  BY <1>1, <1>2, <1>3, <1>4 DEF FreshSeed, Never, Facts!Never

\* Promise and Facts are the same Baseline.
LEMMA SamePromise ==
    /\ Promise!Spec => Facts!Spec
    /\ Facts!RecordsAreSpaced => Promise!RecordsAreSpaced
    /\ Facts!SilenceHasCause => Promise!SilenceHasCause
    /\ Facts!BaselineIsItsCounts => Promise!BaselineIsItsCounts
    /\ Facts!VerdictsAreOfThePast => Promise!VerdictsAreOfThePast
<1>1. ASSUME NEW old, NEW x, NEW breached, NEW mute, NEW at
      PROVE  Promise!Evaluate(old, x, breached, mute, at)
               = Facts!Evaluate(old, x, breached, mute, at)
  BY DEF Promise!Evaluate, Facts!Evaluate,
         Promise!Recorded, Facts!Recorded, Promise!Update, Facts!Update,
         Promise!IsNormal, Facts!IsNormal, Promise!NormalZScore,
         Facts!NormalZScore, Promise!NormalPercentage,
         Facts!NormalPercentage, Promise!Deviation, Facts!Deviation,
         Promise!Spread, Facts!Spread, Promise!Ruling, Facts!Ruling,
         Promise!InCooldown, Facts!InCooldown, Promise!LastAlert,
         Facts!LastAlert, Promise!LastAlertMuted, Facts!LastAlertMuted,
         Promise!Resets, Facts!Resets, Promise!QuietRun, Facts!QuietRun,
         Promise!NormalRun, Facts!NormalRun, Promise!Never, Facts!Never
<1>2. ASSUME NEW old, NEW x
      PROVE  Promise!Verdicts(old, x) = Facts!Verdicts(old, x)
  BY DEF Promise!Verdicts, Facts!Verdicts, Promise!WarmBreach,
         Facts!WarmBreach, Promise!ZScoreBreach, Facts!ZScoreBreach,
         Promise!Deviation, Facts!Deviation, Promise!Spread, Facts!Spread
<1>3. ASSUME NEW j, NEW breached, NEW mute, NEW at
      PROVE  Promise!Absorb(j, breached, mute, at) <=> Facts!Absorb(j, breached, mute, at)
  BY <1>1 DEF Promise!Absorb, Facts!Absorb, Promise!Stored, Facts!Stored,
              Promise!Landed, Facts!Landed, Promise!LastMoment,
              Facts!LastMoment, Promise!Never, Facts!Never
<1>4. Promise!Next => Facts!Next
  BY <1>2, <1>3 DEF Promise!Next, Facts!Next, Promise!HasLanded, Facts!HasLanded
<1>5. Promise!Init => Facts!Init
  BY DEF Promise!Init, Facts!Init
<1>6. Promise!vars = Facts!vars
  BY DEF Promise!vars, Facts!vars
<1>7. [Promise!Next]_(Promise!vars) => [Facts!Next]_(Facts!vars)
  BY <1>4, <1>6 DEF Promise!vars, Facts!vars
<1>8. Promise!Spec => Facts!Spec
  BY <1>5, <1>7, PTL DEF Promise!Spec, Facts!Spec
<1>9. /\ Facts!RecordsAreSpaced => Promise!RecordsAreSpaced
      /\ Facts!SilenceHasCause => Promise!SilenceHasCause
  BY DEF Promise!RecordsAreSpaced, Facts!RecordsAreSpaced,
         Promise!SilenceHasCause, Facts!SilenceHasCause,
         Promise!QuietBetween, Facts!QuietBetween, Promise!QuietAt,
         Facts!QuietAt, Promise!Recorded, Facts!Recorded
<1>10. Facts!BaselineIsItsCounts => Promise!BaselineIsItsCounts
  BY DEF Promise!BaselineIsItsCounts, Facts!BaselineIsItsCounts, Promise!MapThenSumSet,
         Facts!MapThenSumSet, Promise!MapThenFoldSet, Facts!MapThenFoldSet,
         Promise!Cardinality, Facts!Cardinality
<1>11. ASSUME NEW b, NEW x
       PROVE  Promise!WarmBreach(b, x) <=> Facts!WarmBreach(b, x)
  BY DEF Promise!WarmBreach, Facts!WarmBreach, Promise!ZScoreBreach,
         Facts!ZScoreBreach, Promise!Deviation, Facts!Deviation,
         Promise!Spread, Facts!Spread
<1>12. Facts!VerdictsAreOfThePast => Promise!VerdictsAreOfThePast
  BY <1>11
     DEF Promise!VerdictsAreOfThePast, Facts!VerdictsAreOfThePast, Promise!MapThenSumSet,
         Facts!MapThenSumSet, Promise!MapThenFoldSet, Facts!MapThenFoldSet,
         Promise!Cardinality, Facts!Cardinality
<1>13. QED
  BY <1>8, <1>9, <1>10, <1>12

\* Recorded breaches of a series lie a cooldown apart, but for the two
\* exceptions of evaluateTrend, whatever instances, retries and faults there
\* are.
THEOREM IngestRecordsSpaced ==
    ASSUME FreshSeed
    PROVE  Spec => []Promise!RecordsAreSpaced
<1>1. Facts!Spec => []Facts!RecordsAreSpaced
  BY FactsAssumption, MathAssumption, CooldownAssumption, Facts!RecordsSpaced
     DEF Fraction, Facts!Fraction
<1>2. QED
  BY <1>1, Implements, SamePromise, PTL DEF ImplementsPromise

\* And no breach is silenced without a recorded one that began the cooldown.
THEOREM IngestSilenceCaused ==
    ASSUME FreshSeed
    PROVE  Spec => []Promise!SilenceHasCause
<1>1. Facts!Spec => []Facts!SilenceHasCause
  BY FactsAssumption, MathAssumption, CooldownAssumption, Facts!SilenceCaused
     DEF Fraction, Facts!Fraction
<1>2. QED
  BY <1>1, Implements, SamePromise, PTL DEF ImplementsPromise

\* The stored baseline of a series is the seed and the counts that landed in
\* it, each once: whatever instances race, retry or crash, none is lost from it
\* and none is in it twice.
THEOREM IngestBaselineCounted ==
    ASSUME FreshSeed
    PROVE  Spec => []Promise!BaselineIsItsCounts
<1>1. Facts!Spec => []Facts!BaselineIsItsCounts
  BY FactsAssumption, MathAssumption, CooldownAssumption, Facts!BaselineCounted
     DEF Fraction, Facts!Fraction
<1>2. QED
  BY <1>1, Implements, SamePromise, PTL DEF ImplementsPromise

\* Each count is judged against the counts that landed before it, all of them
\* and no others, though stats are read, judged and written in three calls and
\* other instances do the same in between.
THEOREM IngestVerdictsPast ==
    ASSUME FreshSeed
    PROVE  Spec => []VerdictsAreOfThePast
<1>1. Facts!Spec => []Facts!VerdictsAreOfThePast
  BY FactsAssumption, MathAssumption, CooldownAssumption, Facts!VerdictsPast
     DEF Fraction, Facts!Fraction
<1>2. QED
  BY <1>1, Implements, SamePromise, PTL DEF ImplementsPromise, VerdictsAreOfThePast

\* The stored stats never describe a negative variance.
THEOREM IngestVarianceNeverNegative ==
    ASSUME FreshSeed, Spread(Seed) >= 0
    PROVE  Spec => [](\A s \in Series : Spread(stats[s]) >= 0)
<1>1. Facts!Spread(Seed) >= 0
  BY DEF Facts!Spread, Spread
<1>2. Facts!Spec => []Facts!SpreadInv
  BY <1>1, FactsAssumption, MathAssumption, CooldownAssumption,
     Facts!VarianceNeverNegative DEF Fraction, Facts!Fraction
<1>3. Facts!SpreadInv => \A s \in Series : Spread(stats[s]) >= 0
  BY DEF Facts!SpreadInv, Facts!Spread, Spread
<1>4. QED
  BY <1>2, <1>3, Implements, SamePromise, PTL DEF ImplementsPromise

-----------------------------------------------------------------------------
(* What a step leaves of the jobs and of the logs                           *)

\* No step goes back to a job whose outcome was put to the server.
LEMMA AheadStep ==
    ASSUME TypeOK, OnceInv, [Next]_vars, NEW j \in Job, Ahead(j, pc', todo', type')
    PROVE  Ahead(j, pc, todo, type)
<1>0. j[1] \in Request /\ j = <<j[1], j[2]>> /\ Valid(Payload[j[1]])
  BY JobFacts
<1>1. ASSUME NEW r \in Request, Reject(r) \/ Step(r)
      PROVE  Ahead(j, pc, todo, type)
  <2>1. CASE Reject(r) \/ Save(r) \/ SaveFails(r) \/ CheckMute(r)
    <3>1. /\ pc[r] \in {"ingest", "next"}
          /\ pc'[r] \notin {"ingest"} \cup Holding
          /\ \A q \in Request \ {r} : pc'[q] = pc[q] /\ type'[q] = type[q] /\ todo'[q] = todo[q]
      BY <2>1 DEF Reject, Save, SaveFails, CheckMute, Goto, Holding, TypeOK
    <3>2. CASE j[1] # r
      BY <1>0, <3>1, <3>2 DEF Ahead
    <3>3. CASE j[1] = r /\ pc[r] = "ingest"
      BY <3>3 DEF Ahead
    <3>4. CASE j[1] = r /\ CheckMute(r)
      <4>1. PICK t \in todo[r] : /\ type' = [type EXCEPT ![r] = t]
                                 /\ todo' = [todo EXCEPT ![r] = @ \ {t}]
        BY <3>4 DEF CheckMute
      <4>2. type'[r] = t /\ todo'[r] = todo[r] \ {t}
        BY <4>1 DEF TypeOK
      <4>3. QED
        BY <3>1, <3>4, <4>2 DEF Ahead
    <3>5. QED
      BY <2>1, <3>2, <3>3, <3>4 DEF Reject, Save, SaveFails
  <2>2. CASE \/ AcquireLock(r) \/ GetStats(r) \/ EvaluateTrend(r)
             \/ GetAverageFails(r) \/ Conflict(r)
    <3>1. /\ pc[r] \in {"lock", "read", "evaluate", "write"} /\ UNCHANGED <<todo, type>>
          /\ \E l \in Holding : Goto(r, l)
      BY <2>2 DEF AcquireLock, GetStats, EvaluateTrend, GetAverageFails, Conclude, Conflict,
                  Holding
    <3>2. QED
      BY <3>1, GotoFrame DEF Holding
  <2>3. CASE \/ GetStatsFails(r) \/ GiveUp(r) \/ SaveStatsFails(r)
             \/ Notify(r) \/ NotifyFails(r)
    BY <2>3, ReturnFrame
       DEF GetStatsFails, GiveUp, SaveStatsFails, Notify, NotifyFails, Holding
  <2>4. CASE SaveStats(r) \/ SaveBreach(r) \/ SaveBreachFails(r)
    <3>1. /\ pc[r] \in Holding
          /\ \/ Return(r)
             \/ /\ \E l \in {"record", "notify"} : Goto(r, l)
                /\ UNCHANGED <<todo, type>>
      BY <2>4 DEF SaveStats, SaveBreach, SaveBreachFails, AfterRecord, Holding
    <3>2. {"record", "notify"} \subseteq Holding
      BY DEF Holding
    <3>3. QED
      BY <3>1, <3>2, ReturnFrame, GotoFrame
  <2>5. QED
    BY <1>1, <2>1, <2>2, <2>3, <2>4 DEF Step
<1>2. ASSUME NEW i \in Instance, Crash(i)
      PROVE  Ahead(j, pc, todo, type)
  <2>1. /\ UNCHANGED <<todo, type>>
        /\ \A q \in Request : pc'[q] = pc[q] \/ pc'[q] = "crashed"
    BY <1>2 DEF Crash
  <2>2. QED
    BY <1>0, <2>1 DEF Ahead
<1>3. CASE UNCHANGED <<pc, todo, type>>
  BY <1>3
<1>4. CASE \/ \E r \in Request : Cancel(r)
           \/ \E k \in MuteKeys, n \in MuteLengths : Mute(k, n)
           \/ LandLate \/ Tick \/ Quiesce \/ UNCHANGED vars
  BY <1>3, <1>4 DEF Cancel, Mute, LandLate, Tick, Quiesce, vars, local
<1>5. QED
  BY <1>1, <1>2, <1>4 DEF Next

\* The log lg has the job j with the ruling x.
RuledIn(j, x, lg) == \E k \in DOMAIN lg : lg[k].job = j /\ lg[k].ruling = x

\* A landing is on the log with its ruling, and the others stay.
LEMMA StoreLands ==
    ASSUME TypeOK, NEW j \in Job, NEW e \in Outcomes, Store(j, e), Accepts(j, e)
    PROVE  /\ RuledIn(j, e.ruling, log'[SeriesOf[j]])
           /\ \A k \in Job : \A x : RuledIn(k, x, log[SeriesOf[k]])
                                   => RuledIn(k, x, log'[SeriesOf[k]])
           /\ \A k \in Job : LandedIn(k, log'[SeriesOf[k]])
                                <=> k = j \/ LandedIn(k, log[SeriesOf[k]])
<1> DEFINE s == SeriesOf[j]
           d == Promise!Landed(j, e)
<1>1. /\ s \in Series /\ log[s] \in Seq(Promise!Landing)
      /\ log'[s] = Append(log[s], d)
      /\ \A z \in Series \ {s} : log'[z] = log[z]
      /\ \A k \in Job : LandedIn(k, log'[s]) <=> k = j \/ LandedIn(k, log[s])
  BY JobFacts, StoreEffect DEF Accepts, TypeOK
<1>2. d.job = j /\ d.ruling = e.ruling
  BY DEF Promise!Landed
<1> HIDE DEF d, s
<1>3. /\ DOMAIN log[s] = 1..Len(log[s]) /\ Len(log[s]) \in Nat
      /\ DOMAIN log'[s] = 1..(Len(log[s]) + 1)
      /\ \A i \in 1..Len(log[s]) : log'[s][i] = log[s][i]
      /\ log'[s][Len(log[s]) + 1] = d
  BY <1>1
<1>4. RuledIn(j, e.ruling, log'[s])
  <2>1. Len(log[s]) + 1 \in DOMAIN log'[s]
    BY <1>3
  <2>2. QED
    BY <1>2, <1>3, <2>1 DEF RuledIn
<1>5. ASSUME NEW k \in Job, NEW x, RuledIn(k, x, log[SeriesOf[k]])
      PROVE  RuledIn(k, x, log'[SeriesOf[k]])
  <2>1. SeriesOf[k] \in Series
    BY JobFacts
  <2>2. CASE SeriesOf[k] = s
    <3>1. PICK i \in 1..Len(log[s]) : log[s][i].job = k /\ log[s][i].ruling = x
      BY <1>3, <1>5, <2>2 DEF RuledIn
    <3>2. i \in DOMAIN log'[s] /\ log'[s][i] = log[s][i]
      BY <1>3
    <3>3. QED
      BY <2>2, <3>1, <3>2 DEF RuledIn
  <2>3. CASE SeriesOf[k] # s
    BY <1>1, <1>5, <2>1, <2>3
  <2>4. QED
    BY <2>2, <2>3
<1>6. ASSUME NEW k \in Job
      PROVE  LandedIn(k, log'[SeriesOf[k]]) <=> k = j \/ LandedIn(k, log[SeriesOf[k]])
  <2>1. SeriesOf[k] \in Series
    BY JobFacts
  <2>2. CASE SeriesOf[k] = s
    BY <1>1, <2>2
  <2>3. CASE SeriesOf[k] # s
    <3>1. k # j
      BY <2>3 DEF s
    <3>2. QED
      BY <1>1, <2>1, <2>3, <3>1
  <2>4. QED
    BY <2>2, <2>3
<1>7. QED
  BY <1>4, <1>5, <1>6 DEF s

-----------------------------------------------------------------------------
(* What is reported                                                         *)

\* Nothing is reported of a job before its outcome is on the log, and only
\* what its ruling tells to; b and n are breaches and sent of the job, lg the
\* log of its series.
Reported(j, b, n, lg) ==
    /\ b <= 1 /\ n <= 1
    /\ b = 1 => RuledIn(j, "mute", lg) \/ RuledIn(j, "announce", lg)
    /\ n = 1 => RuledIn(j, "announce", lg)

\* Who is about to record has landed and has reported nothing ...
Recording(j, e, b, n, lg) ==
    /\ e.ruling \in {"mute", "announce"}
    /\ RuledIn(j, e.ruling, lg)
    /\ b = 0 /\ n = 0

\* ... and who is about to notify has landed and has not notified.
Notifying(j, n, lg) == RuledIn(j, "announce", lg) /\ n = 0

ReportInv ==
    /\ \A j \in Job :
        /\ Reported(j, breaches[j], sent[j], log[SeriesOf[j]])
        /\ Ahead(j, pc, todo, type) => breaches[j] = 0 /\ sent[j] = 0
    /\ \A r \in Request : LET j == <<r, type[r]>> IN
        /\ pc[r] = "record" =>
              Recording(j, outcome[r], breaches[j], sent[j], log[SeriesOf[j]])
        /\ pc[r] = "notify" => Notifying(j, sent[j], log[SeriesOf[j]])

\* The invariant survives a step that forgets no landing, reports of one job
\* at most and only what has landed, and goes to a report only of a landing.
LEMMA ReportFrame ==
    ASSUME TypeOK, TypeOK', ReportInv, [Next]_vars,
           \A j \in Job : \A x : RuledIn(j, x, log[SeriesOf[j]])
                                   => RuledIn(j, x, log'[SeriesOf[j]]),
           \A j \in Job :
              \/ breaches'[j] = breaches[j] /\ sent'[j] = sent[j]
              \/ /\ Reported(j, breaches'[j], sent'[j], log'[SeriesOf[j]])
                 /\ ~Ahead(j, pc, todo, type),
           \A r \in Request : LET j == <<r, type'[r]>> IN
              /\ pc'[r] = "record" =>
                 \/ /\ pc[r] = pc'[r] /\ type'[r] = type[r] /\ outcome'[r] = outcome[r]
                    /\ breaches'[j] = breaches[j] /\ sent'[j] = sent[j]
                 \/ Recording(j, outcome'[r], breaches'[j], sent'[j], log'[SeriesOf[j]])
              /\ pc'[r] = "notify" =>
                 \/ pc[r] = pc'[r] /\ type'[r] = type[r] /\ sent'[j] = sent[j]
                 \/ Notifying(j, sent'[j], log'[SeriesOf[j]]),
           OnceInv
    PROVE  ReportInv'
<1>1. \A j \in Job : Ahead(j, pc', todo', type') => Ahead(j, pc, todo, type)
  BY AheadStep
<1>2. ASSUME NEW j \in Job
      PROVE  /\ Reported(j, breaches'[j], sent'[j], log'[SeriesOf[j]])
             /\ Ahead(j, pc', todo', type') => breaches'[j] = 0 /\ sent'[j] = 0
  BY <1>1 DEF ReportInv, Reported
<1>3. ASSUME NEW r \in Request, pc'[r] \in {"record", "notify"}
      PROVE  LET j == <<r, type'[r]>> IN
             /\ pc'[r] = "record" =>
                   Recording(j, outcome'[r], breaches'[j], sent'[j], log'[SeriesOf[j]])
             /\ pc'[r] = "notify" => Notifying(j, sent'[j], log'[SeriesOf[j]])
  <2> DEFINE j == <<r, type'[r]>>
  <2>1. j \in Job
    BY <1>3 DEF TypeOK, This, Holding
  <2>2. CASE pc'[r] = "record"
    BY <2>1, <2>2 DEF ReportInv, Recording
  <2>3. CASE pc'[r] = "notify"
    BY <2>1, <2>3 DEF ReportInv, Notifying
  <2>4. QED
    BY <1>3, <2>2, <2>3
<1>4. QED
  BY <1>2, <1>3 DEF ReportInv

\* Steps that report nothing, and go to no report.
LEMMA QuietReport ==
    ASSUME TypeOK, TypeOK', OnceInv, ReportInv, [Next]_vars,
           UNCHANGED <<breaches, sent>>,
           \A j \in Job : \A x : RuledIn(j, x, log[SeriesOf[j]])
                                   => RuledIn(j, x, log'[SeriesOf[j]]),
           \A q \in Request : pc'[q] \in {"record", "notify"} =>
              pc[q] = pc'[q] /\ type'[q] = type[q] /\ outcome'[q] = outcome[q]
    PROVE  ReportInv'
  BY ReportFrame

\* The versioned write lands: what follows reports a landing.
LEMMA SaveReport ==
    ASSUME TypeOK, TypeOK', OnceInv, ReportInv, [Next]_vars,
           NEW r \in Request, SaveStats(r)
    PROVE  ReportInv'
<1> DEFINE j == <<r, type[r]>>
           e == outcome[r]
<1>1. /\ pc[r] = "write" /\ pc[r] \in Holding /\ Store(j, e) /\ Accepts(j, e)
      /\ j \in Job /\ e \in Outcomes /\ UNCHANGED <<breaches, sent>>
  BY DEF SaveStats, This, TypeOK, Holding
<1>2. /\ RuledIn(j, e.ruling, log'[SeriesOf[j]])
      /\ \A k \in Job : \A x : RuledIn(k, x, log[SeriesOf[k]])
                                  => RuledIn(k, x, log'[SeriesOf[k]])
  BY <1>1, StoreLands
<1>3. Ahead(j, pc, todo, type)
  BY <1>1 DEF Ahead
<1>4. breaches[j] = 0 /\ sent[j] = 0
  BY <1>1, <1>3 DEF ReportInv
<1>5. CASE Return(r)
  <2>1. \A q \in Request : pc'[q] \in {"record", "notify"} =>
          pc[q] = pc'[q] /\ type'[q] = type[q] /\ outcome'[q] = outcome[q]
    BY <1>1, <1>5, ReturnFrame DEF Holding
  <2>2. QED
    BY <1>1, <1>2, <2>1, QuietReport
<1>6. CASE Recorded(e.ruling) /\ Goto(r, "record") /\ UNCHANGED <<type, outcome>>
  <2>1. /\ pc'[r] = "record"
        /\ \A q \in Request \ {r} : pc'[q] = pc[q]
    BY <1>6 DEF Goto, TypeOK
  <2>2. Recording(j, e, breaches[j], sent[j], log'[SeriesOf[j]])
    BY <1>2, <1>4, <1>6 DEF Recording, Recorded
  <2> HIDE DEF j
  <2>3. ASSUME NEW q \in Request
        PROVE  LET k == <<q, type'[q]>> IN
               /\ pc'[q] = "record" =>
                  \/ /\ pc[q] = pc'[q] /\ type'[q] = type[q] /\ outcome'[q] = outcome[q]
                     /\ breaches'[k] = breaches[k] /\ sent'[k] = sent[k]
                  \/ Recording(k, outcome'[q], breaches'[k], sent'[k], log'[SeriesOf[k]])
               /\ pc'[q] = "notify" =>
                  \/ pc[q] = pc'[q] /\ type'[q] = type[q] /\ sent'[k] = sent[k]
                  \/ Notifying(k, sent'[k], log'[SeriesOf[k]])
    <3>1. CASE q = r
      BY <1>1, <1>6, <2>1, <2>2, <3>1 DEF j
    <3>2. CASE q # r
      BY <1>1, <1>6, <2>1, <3>2
    <3>3. QED
      BY <3>1, <3>2
  <2>4. QED
    BY <1>1, <1>2, <2>3, ReportFrame
<1>7. QED
  BY <1>5, <1>6 DEF SaveStats

\* The record and the notification of a landing: one of each at most.
LEMMA ReportStep ==
    ASSUME TypeOK, TypeOK', OnceInv, ReportInv, [Next]_vars, NEW r \in Request,
           SaveBreach(r) \/ SaveBreachFails(r) \/ Notify(r) \/ NotifyFails(r)
    PROVE  ReportInv'
<1> DEFINE j == <<r, type[r]>>
<1>1. /\ pc[r] \in {"record", "notify"} /\ pc[r] \in Holding /\ j \in Job
      /\ UNCHANGED log
  BY DEF SaveBreach, SaveBreachFails, Notify, NotifyFails, This, TypeOK, Holding
<1>2. ~Ahead(j, pc, todo, type)
  BY <1>1 DEF OnceInv, Picked, Ahead
<1>3. /\ j[1] = r
      /\ \A q \in Request \ {r} : <<q, type[q]>> # j
  OBVIOUS
<1>4. breaches[j] \in Nat /\ sent[j] \in Nat
  BY <1>1 DEF TypeOK
<1>5. ASSUME pc[r] = "record", AfterRecord(r), UNCHANGED sent, NEW n \in {0, 1},
             breaches' = [breaches EXCEPT ![j] = @ + n]
      PROVE  ReportInv'
  <2>1. Recording(j, outcome[r], breaches[j], sent[j], log[SeriesOf[j]])
    BY <1>5 DEF ReportInv
  <2>2. /\ breaches'[j] = n
        /\ \A k \in Job \ {j} : breaches'[k] = breaches[k]
    BY <1>1, <1>5, <2>1 DEF TypeOK, Recording
  <2>3. Reported(j, breaches'[j], sent'[j], log'[SeriesOf[j]])
    BY <1>1, <1>5, <2>1, <2>2 DEF Recording, Reported
  <2>4. /\ pc'[r] = "record" => FALSE
        /\ pc'[r] = "notify" => type'[r] = type[r] /\ outcome[r].ruling = "announce"
        /\ \A q \in Request \ {r} :
              pc'[q] = pc[q] /\ type'[q] = type[q] /\ outcome'[q] = outcome[q]
    <3>1. CASE Return(r)
      BY <1>1, <3>1, ReturnFrame DEF Holding
    <3>2. CASE Announced(outcome[r].ruling) /\ Goto(r, "notify") /\ UNCHANGED <<type, outcome>>
      BY <3>2 DEF Goto, TypeOK, Announced
    <3>3. QED
      BY <1>5, <3>1, <3>2 DEF AfterRecord
  <2> HIDE DEF j
  <2>5. ASSUME NEW q \in Request
        PROVE  LET k == <<q, type'[q]>> IN
               /\ pc'[q] = "record" =>
                  /\ pc[q] = pc'[q] /\ type'[q] = type[q] /\ outcome'[q] = outcome[q]
                  /\ breaches'[k] = breaches[k] /\ sent'[k] = sent[k]
               /\ pc'[q] = "notify" =>
                  \/ pc[q] = pc'[q] /\ type'[q] = type[q] /\ sent'[k] = sent[k]
                  \/ Notifying(k, sent'[k], log'[SeriesOf[k]])
    <3>1. CASE q = r
      BY <1>1, <1>5, <2>1, <2>4, <3>1 DEF j, Recording, Notifying
    <3>2. CASE q # r
      <4>1. pc'[q] = "record" => <<q, type'[q]>> \in Job \ {j}
        BY <1>3, <2>4, <3>2 DEF TypeOK, This, Holding
      <4>2. QED
        BY <1>5, <2>2, <2>4, <3>2, <4>1
    <3>3. QED
      BY <3>1, <3>2
  <2>6. QED
    BY <1>1, <1>2, <1>5, <2>2, <2>3, <2>5, ReportFrame
<1>6. ASSUME pc[r] = "notify", Return(r), UNCHANGED breaches, NEW n \in {0, 1},
             sent' = [sent EXCEPT ![j] = @ + n]
      PROVE  ReportInv'
  <2>1. Notifying(j, sent[j], log[SeriesOf[j]])
    BY <1>6 DEF ReportInv
  <2>2. /\ sent'[j] = n
        /\ \A k \in Job \ {j} : sent'[k] = sent[k]
    BY <1>1, <1>6, <2>1 DEF TypeOK, Notifying
  <2>3. Reported(j, breaches[j], sent[j], log[SeriesOf[j]])
    BY <1>1 DEF ReportInv
  <2>4. Reported(j, breaches'[j], sent'[j], log'[SeriesOf[j]])
    BY <1>1, <1>6, <2>1, <2>2, <2>3 DEF Notifying, Reported
  <2>5. /\ pc'[r] \notin {"record", "notify"}
        /\ \A q \in Request \ {r} :
              pc'[q] = pc[q] /\ type'[q] = type[q] /\ outcome'[q] = outcome[q]
    BY <1>1, <1>6, ReturnFrame DEF Holding
  <2> HIDE DEF j
  <2>6. ASSUME NEW q \in Request, pc'[q] \in {"record", "notify"}
        PROVE  LET k == <<q, type'[q]>> IN
               /\ pc[q] = pc'[q] /\ type'[q] = type[q] /\ outcome'[q] = outcome[q]
               /\ breaches'[k] = breaches[k] /\ sent'[k] = sent[k]
    <3>1. q # r /\ <<q, type'[q]>> \in Job \ {j}
      BY <1>3, <2>5, <2>6 DEF TypeOK, This, Holding
    <3>2. QED
      BY <1>6, <2>2, <2>5, <3>1
  <2>7. QED
    BY <1>1, <1>2, <1>6, <2>2, <2>4, <2>6, ReportFrame
<1>7. QED
  BY <1>5, <1>6 DEF SaveBreach, SaveBreachFails, Notify, NotifyFails, This

\* Every step keeps the reports behind the landings.
LEMMA ReportInvStep ==
    TypeOK /\ TypeOK' /\ OnceInv /\ ReportInv /\ [Next]_vars => ReportInv'
<1> SUFFICES ASSUME TypeOK, TypeOK', OnceInv, ReportInv, [Next]_vars
             PROVE  ReportInv'
  OBVIOUS
<1>1. ASSUME NEW r \in Request, Reject(r) \/ Step(r)
      PROVE  ReportInv'
  <2>1. CASE Reject(r) \/ Save(r) \/ SaveFails(r) \/ CheckMute(r)
    <3>1. UNCHANGED <<breaches, sent, log, outcome>>
      BY <2>1 DEF Reject, Save, SaveFails, CheckMute, shared
    <3>2. \A q \in Request : pc'[q] \in {"record", "notify"} =>
            pc[q] = pc'[q] /\ type'[q] = type[q]
      BY <2>1 DEF Reject, Save, SaveFails, CheckMute, Goto, TypeOK
    <3>3. QED
      BY <3>1, <3>2, QuietReport
  <2>2. CASE \/ AcquireLock(r) \/ GetStats(r) \/ EvaluateTrend(r)
             \/ GetAverageFails(r) \/ Conflict(r)
    <3>1. UNCHANGED <<breaches, sent, log, type>>
      BY <2>2 DEF AcquireLock, GetStats, EvaluateTrend, GetAverageFails, Conclude,
                  Conflict, shared
    <3>2. \A q \in Request : pc'[q] \in {"record", "notify"} =>
            pc[q] = pc'[q] /\ outcome'[q] = outcome[q]
      BY <2>2 DEF AcquireLock, GetStats, EvaluateTrend, GetAverageFails, Conclude,
                  Conflict, Goto, TypeOK
    <3>3. QED
      BY <3>1, <3>2, QuietReport
  <2>3. CASE GetStatsFails(r) \/ GiveUp(r) \/ SaveStatsFails(r)
    <3>1. UNCHANGED <<breaches, sent, log>> /\ pc[r] \in Holding /\ Return(r)
      BY <2>3 DEF GetStatsFails, GiveUp, SaveStatsFails, shared, Holding
    <3>2. \A q \in Request : pc'[q] \in {"record", "notify"} =>
            pc[q] = pc'[q] /\ type'[q] = type[q] /\ outcome'[q] = outcome[q]
      BY <3>1, ReturnFrame DEF Holding
    <3>3. QED
      BY <3>1, <3>2, QuietReport
  <2>4. CASE SaveStats(r)
    BY <2>4, SaveReport
  <2>5. CASE SaveBreach(r) \/ SaveBreachFails(r) \/ Notify(r) \/ NotifyFails(r)
    BY <2>5, ReportStep
  <2>6. QED
    BY <1>1, <2>1, <2>2, <2>3, <2>4, <2>5 DEF Step
<1>2. ASSUME NEW i \in Instance, Crash(i)
      PROVE  ReportInv'
  <2>1. UNCHANGED <<breaches, sent, log, type>>
    BY <1>2 DEF Crash
  <2>2. \A q \in Request : pc'[q] \in {"record", "notify"} =>
          pc[q] = pc'[q] /\ outcome'[q] = outcome[q]
    BY <1>2 DEF Crash
  <2>3. QED
    BY <2>1, <2>2, QuietReport
<1>3. CASE LandLate
  <2>1. UNCHANGED <<breaches, sent, pc, type, outcome>>
    BY <1>3 DEF LandLate, local
  <2>2. PICK w \in late : Accepts(w.job, w.outcome) /\ Store(w.job, w.outcome)
    BY <1>3 DEF LandLate
  <2>3. w.job \in Job /\ w.outcome \in Outcomes
    BY DEF TypeOK, Writes
  <2>4. \A k \in Job : \A x : RuledIn(k, x, log[SeriesOf[k]])
                                => RuledIn(k, x, log'[SeriesOf[k]])
    BY <2>2, <2>3, StoreLands
  <2>5. QED
    BY <2>1, <2>4, QuietReport
<1>4. CASE \/ \E r \in Request : Cancel(r)
           \/ \E k \in MuteKeys, n \in MuteLengths : Mute(k, n)
           \/ Tick \/ Quiesce \/ UNCHANGED vars
  <2>1. UNCHANGED <<breaches, sent, log, pc, type, outcome>>
    BY <1>4 DEF Cancel, Mute, Tick, Quiesce, vars, shared, local
  <2>2. QED
    BY <2>1, QuietReport
<1>5. QED
  BY <1>1, <1>2, <1>3, <1>4 DEF Next

\* "Reporting waits until the write lands": for any requests, instances, faults
\* and attempts, a breach is recorded and notified once at most, only when its
\* outcome is stored, and only as it was ruled.
THEOREM ReportsFollow == Spec => []ReportsFollowLandings
<1>1. Init => ReportInv
  BY DEF Init, ReportInv, Reported
<1>3. ReportInv => ReportsFollowLandings
  BY DEF ReportInv, Reported, ReportsFollowLandings, LandedAs, RuledIn
<1>4. RefInv => OnceInv
  BY DEF RefInv
<1>5. QED
  BY <1>1, <1>3, <1>4, RefInit, TypeInit, RefStep, TypeStep, ReportInvStep, PTL DEF Spec

-----------------------------------------------------------------------------
(* What becomes of a count                                                  *)

\* A job is to be put to the server, has landed, or is given up; p, td, ty, lg
\* and g are pc, todo, type, the log of its series and gaveUp.
Accounted(j, p, td, ty, lg, g) ==
    Ahead(j, p, td, ty) \/ LandedIn(j, lg) \/ j \in g

\* What is given up is over: it has not landed and will not.
GaveUpInv ==
    \A j \in gaveUp :
        /\ ~Ahead(j, pc, todo, type)
        /\ ~LandedIn(j, log[SeriesOf[j]])
        /\ \A w \in late : w.job # j

AcceptedInv == \A r \in Request : pc[r] = "accepted" => todo[r] = {}

\* While nothing fails, every job is accounted for.
AccountInv ==
    faults = 0 =>
        /\ \A r \in Request : ~cancelled[r]
        /\ \A j \in Job : Accounted(j, pc, todo, type, log[SeriesOf[j]], gaveUp)

\* No step revives a job that was given up.
LEMMA GaveUpStep ==
    TypeOK /\ OnceInv /\ GaveUpInv /\ [Next]_vars => GaveUpInv'
<1> SUFFICES ASSUME TypeOK, OnceInv, GaveUpInv, [Next]_vars
             PROVE  GaveUpInv'
  OBVIOUS
<1>1. \A j \in Job : Ahead(j, pc', todo', type') => Ahead(j, pc, todo, type)
  BY AheadStep
<1>2. gaveUp \subseteq Job
  BY DEF TypeOK
<1>3. ASSUME UNCHANGED gaveUp,
             \A w \in late' : w \in late \/ Ahead(w.job, pc, todo, type),
             \A k \in Job : LandedIn(k, log'[SeriesOf[k]]) =>
                \/ LandedIn(k, log[SeriesOf[k]]) \/ Ahead(k, pc, todo, type)
                \/ \E w \in late : w.job = k
      PROVE  GaveUpInv'
  BY <1>1, <1>2, <1>3 DEF GaveUpInv
<1>4. ASSUME NEW r \in Request, Reject(r) \/ Step(r)
      PROVE  GaveUpInv'
  <2>1. CASE \/ Reject(r) \/ Save(r) \/ SaveFails(r) \/ CheckMute(r)
             \/ AcquireLock(r) \/ GetStats(r) \/ GetStatsFails(r)
             \/ EvaluateTrend(r) \/ GetAverageFails(r) \/ Conflict(r)
             \/ SaveBreach(r) \/ SaveBreachFails(r) \/ Notify(r) \/ NotifyFails(r)
    <3>1. UNCHANGED <<gaveUp, late, log>>
      BY <2>1 DEF Reject, Save, SaveFails, CheckMute, AcquireLock, GetStats,
                  GetStatsFails, EvaluateTrend, GetAverageFails, Conclude, Conflict,
                  SaveBreach, SaveBreachFails, Notify, NotifyFails, shared
    <3>2. QED
      BY <1>3, <3>1
  <2>2. CASE SaveStats(r)
    <3> DEFINE j == <<r, type[r]>>
    <3>1. /\ j \in Job /\ outcome[r] \in Outcomes /\ UNCHANGED <<gaveUp, late>>
          /\ Store(j, outcome[r]) /\ Accepts(j, outcome[r])
          /\ Ahead(j, pc, todo, type)
      BY <2>2 DEF SaveStats, This, TypeOK, Holding, Ahead
    <3>2. \A k \in Job : LandedIn(k, log'[SeriesOf[k]])
                            => k = j \/ LandedIn(k, log[SeriesOf[k]])
      BY <3>1, StoreLands
    <3>3. QED
      BY <1>3, <3>1, <3>2
  <2>3. CASE SaveStatsFails(r)
    <3>1. /\ UNCHANGED <<gaveUp, log>> /\ pc[r] = "write"
          /\ late' = late \cup {[job |-> <<r, type[r]>>, outcome |-> outcome[r]]}
      BY <2>3 DEF SaveStatsFails, This
    <3>2. Ahead(<<r, type[r]>>, pc, todo, type)
      BY <3>1 DEF Ahead
    <3>3. QED
      BY <1>3, <3>1, <3>2
  <2>4. CASE GiveUp(r)
    <3> DEFINE j == <<r, type[r]>>
    <3>1. /\ pc[r] = "write" /\ pc[r] \in Holding /\ Return(r) /\ j \in Job
          /\ gaveUp' = gaveUp \cup {j} /\ UNCHANGED <<late, log>>
      BY <2>4 DEF GiveUp, This, TypeOK, Holding
    <3>2. Ahead(j, pc, todo, type)
      BY <3>1 DEF Ahead
    <3>3. ~LandedIn(j, log[SeriesOf[j]]) /\ \A w \in late : w.job # j
      BY <3>1, <3>2 DEF OnceInv
    <3>4. ~Ahead(j, pc', todo', type')
      BY <3>1, ReturnFrame
    <3> HIDE DEF j
    <3>5. QED
      BY <1>1, <1>2, <3>1, <3>3, <3>4 DEF GaveUpInv
  <2>5. QED
    BY <1>4, <2>1, <2>2, <2>3, <2>4 DEF Step
<1>5. ASSUME NEW i \in Instance, Crash(i)
      PROVE  GaveUpInv'
  <2>1. UNCHANGED <<gaveUp, log>>
    BY <1>5 DEF Crash
  <2>2. ASSUME NEW w \in late', w \notin late
        PROVE  Ahead(w.job, pc, todo, type)
    <3>1. PICK r \in Request : /\ pc[r] = "write"
                               /\ w = [job |-> This(r), outcome |-> outcome[r]]
      BY <1>5, <2>2 DEF Crash
    <3>2. w.job = <<r, type[r]>>
      BY <3>1 DEF This
    <3>3. QED
      BY <3>1, <3>2 DEF Ahead
  <2>3. QED
    BY <1>3, <2>1, <2>2
<1>6. CASE LandLate
  <2>1. UNCHANGED <<gaveUp, late>>
    BY <1>6 DEF LandLate
  <2>2. PICK w \in late : Accepts(w.job, w.outcome) /\ Store(w.job, w.outcome)
    BY <1>6 DEF LandLate
  <2>3. w.job \in Job /\ w.outcome \in Outcomes
    BY DEF TypeOK, Writes
  <2>4. \A k \in Job : LandedIn(k, log'[SeriesOf[k]])
                          => k = w.job \/ LandedIn(k, log[SeriesOf[k]])
    BY <2>2, <2>3, StoreLands
  <2>5. QED
    BY <1>3, <2>1, <2>2, <2>4
<1>7. CASE \/ \E r \in Request : Cancel(r)
           \/ \E k \in MuteKeys, n \in MuteLengths : Mute(k, n)
           \/ Tick \/ Quiesce \/ UNCHANGED vars
  <2>1. UNCHANGED <<gaveUp, late, log>>
    BY <1>7 DEF Cancel, Mute, Tick, Quiesce, vars, shared
  <2>2. QED
    BY <1>3, <2>1
<1>8. QED
  BY <1>4, <1>5, <1>6, <1>7 DEF Next

\* A request is accepted only when it has no type left, and then takes none.
LEMMA AcceptedStep ==
    TypeOK /\ AcceptedInv /\ [Next]_vars => AcceptedInv'
<1> SUFFICES ASSUME TypeOK, AcceptedInv, [Next]_vars, NEW q \in Request,
                    pc'[q] = "accepted"
             PROVE  todo'[q] = {}
  BY DEF AcceptedInv
<1>1. ASSUME NEW r \in Request, Reject(r) \/ Step(r)
      PROVE  todo'[q] = {}
  <2>1. CASE Return(r)
    BY <2>1 DEF Return, Goto, TypeOK, AcceptedInv
  <2>2. CASE Reject(r) \/ Save(r) \/ SaveFails(r) \/ CheckMute(r)
    BY <2>2 DEF Reject, Save, SaveFails, CheckMute, Goto, TypeOK, AcceptedInv
  <2>3. CASE /\ UNCHANGED todo
             /\ \E l \in Holding : Goto(r, l)
    BY <2>3 DEF Goto, TypeOK, AcceptedInv, Holding
  <2>4. CASE AcquireLock(r) \/ GetStats(r) \/ EvaluateTrend(r) \/ GetAverageFails(r) \/ Conflict(r)
    BY <2>3, <2>4 DEF AcquireLock, GetStats, EvaluateTrend, GetAverageFails, Conclude,
                      Conflict, Holding
  <2>5. CASE SaveStats(r) \/ SaveBreach(r) \/ SaveBreachFails(r)
    BY <2>1, <2>3, <2>5 DEF SaveStats, SaveBreach, SaveBreachFails, AfterRecord, Holding
  <2>6. QED
    BY <1>1, <2>1, <2>2, <2>4, <2>5
       DEF Step, GetStatsFails, GiveUp, SaveStatsFails, Notify, NotifyFails
<1>2. ASSUME NEW i \in Instance, Crash(i)
      PROVE  todo'[q] = {}
  BY <1>2 DEF Crash, AcceptedInv
<1>3. CASE \/ \E r \in Request : Cancel(r)
           \/ \E k \in MuteKeys, n \in MuteLengths : Mute(k, n)
           \/ LandLate \/ Tick \/ Quiesce \/ UNCHANGED vars
  <2>1. UNCHANGED <<pc, todo>>
    BY <1>3 DEF Cancel, Mute, LandLate, Tick, Quiesce, vars, local
  <2>2. QED
    BY <2>1 DEF AcceptedInv
<1>4. QED
  BY <1>1, <1>2, <1>3 DEF Next

\* A step of one request loses none of its jobs, and none of another's.
LEMMA AccountFrame ==
    ASSUME NEW r \in Request,
           \A j \in Job : Accounted(j, pc, todo, type, log[SeriesOf[j]], gaveUp),
           \A q \in Request \ {r} :
              pc'[q] = pc[q] /\ type'[q] = type[q] /\ todo'[q] = todo[q],
           \A j \in Job : LandedIn(j, log[SeriesOf[j]]) => LandedIn(j, log'[SeriesOf[j]]),
           gaveUp \subseteq gaveUp',
           \A t : <<r, t>> \in Job /\ Ahead(<<r, t>>, pc, todo, type) =>
              Accounted(<<r, t>>, pc', todo', type', log'[SeriesOf[<<r, t>>]], gaveUp')
    PROVE  \A j \in Job : Accounted(j, pc', todo', type', log'[SeriesOf[j]], gaveUp')
<1> SUFFICES ASSUME NEW j \in Job, Ahead(j, pc, todo, type)
             PROVE  Accounted(j, pc', todo', type', log'[SeriesOf[j]], gaveUp')
  BY DEF Accounted
<1>1. j[1] \in Request /\ j = <<j[1], j[2]>>
  BY JobFacts
<1>2. CASE j[1] = r
  BY <1>1, <1>2
<1>3. CASE j[1] # r
  <2>1. Ahead(j, pc', todo', type')
    BY <1>1, <1>3 DEF Ahead
  <2>2. QED
    BY <2>1 DEF Accounted
<1>4. QED
  BY <1>2, <1>3

\* While nothing fails, a request leaves a job only by its landing or by
\* giving it up.
LEMMA AccountRequest ==
    ASSUME TypeOK, AccountInv, faults = 0, NEW r \in Request, Reject(r) \/ Step(r),
           faults' = 0
    PROVE  \A j \in Job : Accounted(j, pc', todo', type', log'[SeriesOf[j]], gaveUp')
<1>0. \A j \in Job : Accounted(j, pc, todo, type, log[SeriesOf[j]], gaveUp)
  BY DEF AccountInv
<1>1. ~Fails(r)
  BY DEF AccountInv, Fails
<1>2. CASE Reject(r)
  <2>1. /\ UNCHANGED <<log, gaveUp, todo, type>> /\ ~Valid(Payload[r])
        /\ \A q \in Request \ {r} : pc'[q] = pc[q]
    BY <1>2 DEF Reject, Goto, shared, TypeOK
  <2>2. \A t : <<r, t>> \notin Job
    BY <2>1, JobFacts
  <2>3. QED
    BY <1>0, <2>1, <2>2, AccountFrame
<1>3. CASE Save(r)
  <2>1. /\ UNCHANGED <<log, gaveUp, type>> /\ todo'[r] = TypesOf(r)
        /\ \A q \in Request \ {r} : pc'[q] = pc[q] /\ todo'[q] = todo[q]
    BY <1>3 DEF Save, Goto, TypeOK
  <2>2. \A t : <<r, t>> \in Job => Ahead(<<r, t>>, pc', todo', type')
    BY <2>1, JobFacts DEF Ahead
  <2>3. QED
    BY <1>0, <2>1, <2>2, AccountFrame DEF Accounted
<1>4. CASE CheckMute(r)
  <2>1. PICK t \in todo[r] : /\ type' = [type EXCEPT ![r] = t]
                             /\ todo' = [todo EXCEPT ![r] = @ \ {t}]
    BY <1>4 DEF CheckMute
  <2>2. /\ type'[r] = t /\ todo'[r] = todo[r] \ {t} /\ pc[r] = "next" /\ pc'[r] = "lock"
        /\ \A q \in Request \ {r} :
              pc'[q] = pc[q] /\ type'[q] = type[q] /\ todo'[q] = todo[q]
        /\ UNCHANGED <<log, gaveUp>>
    BY <1>4, <2>1 DEF CheckMute, Goto, TypeOK, shared
  <2>3. \A u : Ahead(<<r, u>>, pc, todo, type) => Ahead(<<r, u>>, pc', todo', type')
    BY <2>2 DEF Ahead
  <2>4. QED
    BY <1>0, <2>2, <2>3, AccountFrame DEF Accounted
<1>5. CASE \/ AcquireLock(r) \/ GetStats(r) \/ EvaluateTrend(r) \/ Conflict(r)
  <2>1. /\ UNCHANGED <<log, gaveUp, type, todo>>
        /\ pc'[r] \in {"read", "evaluate", "write"} /\ pc[r] # "ingest"
        /\ pc[r] \in {"lock", "read", "evaluate", "write"}
        /\ \A q \in Request \ {r} : pc'[q] = pc[q]
    BY <1>5 DEF AcquireLock, GetStats, EvaluateTrend, Conclude, Conflict, Goto, TypeOK,
                shared
  <2>2. \A u : Ahead(<<r, u>>, pc, todo, type) => Ahead(<<r, u>>, pc', todo', type')
    BY <2>1 DEF Ahead
  <2>3. QED
    BY <1>0, <2>1, <2>2, AccountFrame DEF Accounted
<1>6. CASE SaveStats(r)
  <2> DEFINE j == <<r, type[r]>>
  <2>1. /\ j \in Job /\ outcome[r] \in Outcomes /\ UNCHANGED <<gaveUp, todo>>
        /\ Store(j, outcome[r]) /\ Accepts(j, outcome[r]) /\ pc[r] = "write"
        /\ \A q \in Request \ {r} : pc'[q] = pc[q] /\ type'[q] = type[q]
    BY <1>6 DEF SaveStats, Return, Goto, This, TypeOK, Holding
  <2>2. \A k \in Job : LandedIn(k, log'[SeriesOf[k]])
                          <=> k = j \/ LandedIn(k, log[SeriesOf[k]])
    BY <2>1, StoreLands
  <2>3. \A u : Ahead(<<r, u>>, pc, todo, type) =>
                 <<r, u>> = j \/ Ahead(<<r, u>>, pc', todo', type')
    BY <2>1 DEF Ahead
  <2>4. QED
    BY <1>0, <2>1, <2>2, <2>3, AccountFrame DEF Accounted
<1>7. CASE GiveUp(r)
  <2>1. /\ UNCHANGED <<log, todo>> /\ pc[r] = "write"
        /\ gaveUp' = gaveUp \cup {<<r, type[r]>>}
        /\ \A q \in Request \ {r} : pc'[q] = pc[q] /\ type'[q] = type[q]
    BY <1>7 DEF GiveUp, Return, Goto, This, TypeOK
  <2>2. \A u : Ahead(<<r, u>>, pc, todo, type) =>
                 <<r, u>> \in gaveUp' \/ Ahead(<<r, u>>, pc', todo', type')
    BY <2>1 DEF Ahead
  <2>3. QED
    BY <1>0, <2>1, <2>2, AccountFrame DEF Accounted
<1>8. CASE SaveBreach(r) \/ Notify(r)
  <2>1. /\ UNCHANGED <<log, gaveUp, todo>> /\ pc[r] \in {"record", "notify"}
        /\ \A q \in Request \ {r} : pc'[q] = pc[q] /\ type'[q] = type[q]
    BY <1>8 DEF SaveBreach, AfterRecord, Notify, Return, Goto, TypeOK
  <2>2. \A u : Ahead(<<r, u>>, pc, todo, type) => Ahead(<<r, u>>, pc', todo', type')
    BY <2>1 DEF Ahead
  <2>3. QED
    BY <1>0, <2>1, <2>2, AccountFrame DEF Accounted
<1>9. QED
  BY <1>1, <1>2, <1>3, <1>4, <1>5, <1>6, <1>7, <1>8
     DEF Step, SaveFails, GetStatsFails, GetAverageFails, SaveStatsFails,
         SaveBreachFails, NotifyFails

\* While nothing fails, no step loses a job.
LEMMA AccountStep ==
    TypeOK /\ TypeOK' /\ AccountInv /\ [Next]_vars => AccountInv'
<1> SUFFICES ASSUME TypeOK, TypeOK', AccountInv, [Next]_vars, faults' = 0
             PROVE  /\ \A r \in Request : ~cancelled'[r]
                    /\ \A j \in Job :
                         Accounted(j, pc', todo', type', log'[SeriesOf[j]], gaveUp')
  BY DEF AccountInv
<1>0. faults \in Nat
  BY IngestAssumption DEF TypeOK
<1>1. ASSUME NEW r \in Request, Reject(r) \/ Step(r)
      PROVE  faults = 0 /\ UNCHANGED cancelled
  <2>1. Fails(r) => faults = 0
    BY <1>0 DEF Fails
  <2>2. UNCHANGED cancelled
    BY <1>1
       DEF Reject, Step, Save, SaveFails, CheckMute, AcquireLock, GetStats, GetStatsFails,
           EvaluateTrend, GetAverageFails, Conclude, Conflict, SaveStats, GiveUp,
           SaveStatsFails, SaveBreach, SaveBreachFails, Notify, NotifyFails
  <2>3. Fails(r) \/ UNCHANGED faults
    BY <1>1
       DEF Reject, Step, Save, SaveFails, CheckMute, AcquireLock, GetStats, GetStatsFails,
           EvaluateTrend, GetAverageFails, Conflict, SaveStats, GiveUp,
           SaveStatsFails, SaveBreach, SaveBreachFails, Notify, NotifyFails
  <2>4. QED
    BY <2>1, <2>2, <2>3
<1>2. ASSUME NEW r \in Request, Reject(r) \/ Step(r)
      PROVE  /\ \A q \in Request : ~cancelled'[q]
             /\ \A j \in Job :
                  Accounted(j, pc', todo', type', log'[SeriesOf[j]], gaveUp')
  BY <1>1, <1>2, AccountRequest DEF AccountInv
<1>3. ~(\E i \in Instance : Crash(i)) /\ ~(\E r \in Request : Cancel(r))
  BY <1>0 DEF Crash, Cancel
<1>4. CASE LandLate
  <2>1. UNCHANGED <<faults, cancelled, pc, todo, type, gaveUp>>
    BY <1>4 DEF LandLate, local
  <2>2. PICK w \in late : Accepts(w.job, w.outcome) /\ Store(w.job, w.outcome)
    BY <1>4 DEF LandLate
  <2>3. w.job \in Job /\ w.outcome \in Outcomes
    BY DEF TypeOK, Writes
  <2>4. \A k \in Job : LandedIn(k, log[SeriesOf[k]]) => LandedIn(k, log'[SeriesOf[k]])
    BY <2>2, <2>3, StoreLands
  <2>5. QED
    BY <2>1, <2>4 DEF AccountInv, Accounted
<1>5. CASE \/ \E k \in MuteKeys, n \in MuteLengths : Mute(k, n)
           \/ Tick \/ Quiesce \/ UNCHANGED vars
  <2>1. UNCHANGED <<faults, cancelled, pc, todo, type, gaveUp, log>>
    BY <1>5 DEF Mute, Tick, Quiesce, vars, shared, local
  <2>2. QED
    BY <2>1 DEF AccountInv
<1>6. QED
  BY <1>2, <1>3, <1>4, <1>5 DEF Next

\* While nothing fails, an accepted request has every count in its baseline,
\* save those given up, whatever requests, instances and series there are; and
\* a count given up never lands, whatever fails.
THEOREM AcceptedLand == Spec => []AcceptedCountsLand
<1>1. Init => GaveUpInv /\ AcceptedInv /\ AccountInv
  <2> SUFFICES ASSUME Init
               PROVE  GaveUpInv /\ AcceptedInv /\ AccountInv
    OBVIOUS
  <2>1. GaveUpInv /\ AcceptedInv
    BY DEF Init, GaveUpInv, AcceptedInv
  <2>2. AccountInv
    BY JobFacts DEF Init, AccountInv, Accounted, Ahead
  <2>3. QED
    BY <2>1, <2>2
<1>2. TypeOK /\ GaveUpInv /\ AcceptedInv /\ AccountInv => AcceptedCountsLand
  <2> SUFFICES ASSUME TypeOK, GaveUpInv, AcceptedInv, AccountInv
               PROVE  AcceptedCountsLand
    OBVIOUS
  <2>1. \A j \in Job : Promise!HasLanded(j) <=> LandedIn(j, log[SeriesOf[j]])
    BY DEF Promise!HasLanded, LandedIn
  <2>2. ASSUME NEW j \in Job, pc[j[1]] = "accepted", faults = 0
        PROVE  Promise!HasLanded(j) \/ j \in gaveUp
    <3>1. j[1] \in Request
      BY JobFacts
    <3>2. ~Ahead(j, pc, todo, type)
      BY <2>2, <3>1 DEF AcceptedInv, Ahead
    <3>3. QED
      BY <2>1, <2>2, <3>2 DEF AccountInv, Accounted
  <2>3. \A j \in gaveUp : ~Promise!HasLanded(j)
    BY <2>1 DEF TypeOK, GaveUpInv
  <2>4. QED
    BY <2>2, <2>3 DEF AcceptedCountsLand
<1>3. RefInv => OnceInv
  BY DEF RefInv
<1>4. QED
  BY <1>1, <1>2, <1>3, RefInit, TypeInit, RefStep, TypeStep, GaveUpStep, AcceptedStep,
     AccountStep, PTL DEF Spec

-----------------------------------------------------------------------------
(* What a conflict is owed to                                               *)

\* Foreign, spoken of by value: i is the instance, d a landing, lg the log, lt
\* late.
IsForeign(i, d, lt) == At[d.job[1]] # i \/ \E w \in lt : w.job = d.job
ForeignIn(i, lg, lt) == {k \in DOMAIN lg : IsForeign(i, lg[k], lt)}

\* The first n landings of the log hold a foreign ones or more, and all after
\* them are foreign.
Owed(i, lg, lt, n, a) ==
    /\ n \in 0..Len(lg)
    /\ Cardinality(ForeignIn(i, lg, lt) \cap 1..n) >= a
    /\ \A k \in (n + 1)..Len(lg) : k \in ForeignIn(i, lg, lt)

\* The version of stats counts the landings.
VersionInv == \A s \in Series : stats[s].version = Seed.version + Len(log[s])

\* Where a request stands, p being its pc, rd its read, e its outcome, a its
\* attempt and lg the log of its series: what it read is the stats after so
\* many landings, and its failed attempts are owed to foreign ones.
Standing(i, p, rd, e, a, lg, lt) ==
    /\ p \in {"ingest", "next", "lock"} => a = 1
    /\ p \in {"read", "record", "notify"} => Owed(i, lg, lt, Len(lg), a - 1)
    /\ p = "evaluate" => Owed(i, lg, lt, rd.version - Seed.version, a - 1)
    /\ p = "write" => Owed(i, lg, lt, e.stats.version - Seed.version, a - 1)

StandingNow(r) ==
    Standing(At[r], pc[r], read[r], outcome[r], attempt[r],
             log[SeriesOf[<<r, type[r]>>]], late)

ConflictInv ==
    /\ VersionInv
    /\ \A r \in Request : StandingNow(r)
    /\ \A j \in gaveUp : Owed(At[j[1]], log[SeriesOf[j]], late,
                              Len(log[SeriesOf[j]]), MaxAttempts)

\* A number after n is up to m or after it.
LEMMA SplitInterval ==
    ASSUME NEW n \in Nat, NEW m \in Nat, NEW l \in Nat, NEW k \in (n + 1)..l
    PROVE  k \in (n + 1)..m \/ k \in (m + 1)..l
  OBVIOUS

\* No number is after the last.
LEMMA WholeInterval ==
    ASSUME NEW m \in Nat
    PROVE  m \in 0..m /\ (m + 1)..m = {}
  OBVIOUS

\* The foreign landings among the first n are finitely many.
LEMMA FiniteForeign ==
    ASSUME NEW S, NEW n \in Nat
    PROVE  IsFiniteSet(S \cap 1..n) /\ Cardinality(S \cap 1..n) \in Nat
<1>1. IsFiniteSet(1..n)
  BY FS_Interval
<1>2. S \cap 1..n \in SUBSET (1..n)
  OBVIOUS
<1> DEFINE T == S \cap 1..n
<1> HIDE DEF T
<1>3. IsFiniteSet(T)
  BY <1>1, <1>2, FS_Subset DEF T
<1>4. Cardinality(T) \in Nat
  BY <1>3, FS_CardinalityType
<1>5. QED
  BY <1>3, <1>4 DEF T

\* More landings among the first hold no fewer foreign ones.
LEMMA MoreForeign ==
    ASSUME NEW S, NEW T, NEW n \in Nat, NEW m \in Nat,
           S \cap 1..n \subseteq T \cap 1..m
    PROVE  Cardinality(S \cap 1..n) <= Cardinality(T \cap 1..m)
<1> DEFINE U == S \cap 1..n
           V == T \cap 1..m
<1>1. IsFiniteSet(V)
  BY FiniteForeign
<1>2. U \in SUBSET V
  OBVIOUS
<1> HIDE DEF U, V
<1>3. Cardinality(U) <= Cardinality(V)
  BY <1>1, <1>2, FS_Subset
<1>4. QED
  BY <1>3 DEF U, V

\* A log that grows by a foreign landing, or not at all, owes no less.
LEMMA OwedKept ==
    ASSUME NEW i, NEW lg \in Seq(Promise!Landing), NEW lg2 \in Seq(Promise!Landing),
           NEW lt, NEW lt2, lt \subseteq lt2, NEW n, NEW a \in Int,
           Owed(i, lg, lt, n, a),
           \/ lg2 = lg
           \/ /\ \E d \in Promise!Landing : lg2 = Append(lg, d)
              /\ Len(lg) + 1 \in ForeignIn(i, lg2, lt2)
    PROVE  Owed(i, lg2, lt2, n, a)
<1>0. n \in Nat /\ Len(lg) \in Nat /\ Len(lg2) \in Nat
  BY DEF Owed
<1>1. /\ n \in Nat /\ n <= Len(lg) /\ Len(lg) \in Nat /\ Len(lg2) \in Nat
      /\ DOMAIN lg = 1..Len(lg) /\ DOMAIN lg2 = 1..Len(lg2)
      /\ 1..Len(lg) \subseteq 1..Len(lg2) /\ n \in 0..Len(lg2)
      /\ \A k \in 1..Len(lg) : lg2[k] = lg[k]
      /\ \A k \in (Len(lg) + 1)..Len(lg2) : k \in ForeignIn(i, lg2, lt2)
  BY DEF Owed
<1>2. ForeignIn(i, lg, lt) \subseteq ForeignIn(i, lg2, lt2)
  <2> SUFFICES ASSUME NEW k \in ForeignIn(i, lg, lt)
               PROVE  k \in ForeignIn(i, lg2, lt2)
    OBVIOUS
  <2>1. k \in DOMAIN lg /\ IsForeign(i, lg[k], lt)
    BY DEF ForeignIn
  <2>2. k \in DOMAIN lg2 /\ IsForeign(i, lg2[k], lt2)
    BY <1>1, <2>1 DEF IsForeign
  <2>3. QED
    BY <2>1, <2>2 DEF ForeignIn
<1>3. Cardinality(ForeignIn(i, lg, lt) \cap 1..n)
        <= Cardinality(ForeignIn(i, lg2, lt2) \cap 1..n)
  BY <1>1, <1>2, MoreForeign
<1>4. /\ Cardinality(ForeignIn(i, lg, lt) \cap 1..n) \in Nat
      /\ Cardinality(ForeignIn(i, lg2, lt2) \cap 1..n) \in Nat
  BY <1>1, FiniteForeign
<1>5. Cardinality(ForeignIn(i, lg2, lt2) \cap 1..n) >= a
  BY <1>3, <1>4 DEF Owed
<1>6. ASSUME NEW k \in (n + 1)..Len(lg2)
      PROVE  k \in ForeignIn(i, lg2, lt2)
  <2>1. k \in (n + 1)..Len(lg) \/ k \in (Len(lg) + 1)..Len(lg2)
    BY <1>0, SplitInterval
  <2>2. QED
    BY <1>1, <1>2, <2>1 DEF Owed
<1>7. n \in 0..Len(lg2)
  BY <1>1
<1>8. QED
  BY <1>5, <1>6, <1>7 DEF Owed

\* Of the whole log it owes no less, however it grows.
LEMMA OwedWhole ==
    ASSUME NEW i, NEW lg \in Seq(Promise!Landing), NEW lg2 \in Seq(Promise!Landing),
           NEW lt, NEW lt2, lt \subseteq lt2, NEW n, NEW a \in Int,
           Owed(i, lg, lt, n, a),
           lg2 = lg \/ \E d \in Promise!Landing : lg2 = Append(lg, d)
    PROVE  Owed(i, lg2, lt2, Len(lg2), a)
<1>0. n \in Nat /\ Len(lg) \in Nat /\ Len(lg2) \in Nat
  BY DEF Owed
<1>1. /\ n \in Nat /\ n <= Len(lg) /\ Len(lg) \in Nat /\ Len(lg2) \in Nat
      /\ DOMAIN lg = 1..Len(lg) /\ DOMAIN lg2 = 1..Len(lg2)
      /\ 1..Len(lg) \subseteq 1..Len(lg2) /\ n \in 0..Len(lg2)
      /\ \A k \in 1..Len(lg) : lg2[k] = lg[k]
  BY DEF Owed
<1>2. ForeignIn(i, lg, lt) \cap 1..n \subseteq ForeignIn(i, lg2, lt2) \cap 1..Len(lg2)
  <2> SUFFICES ASSUME NEW k \in ForeignIn(i, lg, lt) \cap 1..n
               PROVE  k \in ForeignIn(i, lg2, lt2) \cap 1..Len(lg2)
    OBVIOUS
  <2>1. k \in DOMAIN lg /\ IsForeign(i, lg[k], lt)
    BY DEF ForeignIn
  <2>2. k \in DOMAIN lg2 /\ IsForeign(i, lg2[k], lt2)
    BY <1>1, <2>1 DEF IsForeign
  <2>3. QED
    BY <1>1, <2>1, <2>2 DEF ForeignIn
<1>3. Cardinality(ForeignIn(i, lg, lt) \cap 1..n)
        <= Cardinality(ForeignIn(i, lg2, lt2) \cap 1..Len(lg2))
  BY <1>1, <1>2, MoreForeign
<1>4. /\ Cardinality(ForeignIn(i, lg, lt) \cap 1..n) \in Nat
      /\ Cardinality(ForeignIn(i, lg2, lt2) \cap 1..Len(lg2)) \in Nat
  BY <1>1, FiniteForeign
<1>5. Cardinality(ForeignIn(i, lg2, lt2) \cap 1..Len(lg2)) >= a
  BY <1>3, <1>4 DEF Owed
<1>6. Len(lg2) \in 0..Len(lg2) /\ (Len(lg2) + 1)..Len(lg2) = {}
  BY <1>0, WholeInterval
<1>7. QED
  BY <1>5, <1>6 DEF Owed

\* A version that is behind is owed to one more.
LEMMA OwedMore ==
    ASSUME NEW i, NEW lg \in Seq(Promise!Landing), NEW lt, NEW n, NEW a \in Int,
           Owed(i, lg, lt, n, a), n # Len(lg)
    PROVE  Owed(i, lg, lt, Len(lg), a + 1)
<1> DEFINE F == ForeignIn(i, lg, lt)
           m == Len(lg)
<1>1. n \in Nat /\ m \in Nat /\ n + 1 \in 1..m /\ n + 1 \in (n + 1)..m /\ n + 1 \in F
  BY DEF Owed
<1>2. Cardinality(F \cap 1..n) >= a /\ Cardinality(F \cap 1..n) \in Nat
      /\ IsFiniteSet(F \cap 1..n)
  BY <1>1, FiniteForeign DEF Owed
<1>3. /\ F \cap 1..(n + 1) = (F \cap 1..n) \cup {n + 1}
      /\ n + 1 \notin F \cap 1..n
  <2> HIDE DEF F
  <2>1. QED
    BY <1>1
<1>4. F \cap 1..(n + 1) \subseteq F \cap 1..m
  BY <1>1
<1> HIDE DEF F, m
<1>5. Cardinality(F \cap 1..(n + 1)) = Cardinality(F \cap 1..n) + 1
  BY <1>2, <1>3, FS_AddElement
<1>6. Cardinality(F \cap 1..(n + 1)) <= Cardinality(F \cap 1..m)
  BY <1>1, <1>4, MoreForeign
<1>7. Cardinality(F \cap 1..m) \in Nat
  BY <1>1, FiniteForeign
<1>8. Cardinality(F \cap 1..m) >= a + 1
  BY <1>2, <1>5, <1>6, <1>7
<1>9. QED
  BY <1>1, <1>8 DEF Owed, F, m

\* Owed of the whole log is what ConflictsAreForeign says.
LEMMA OwedForeign ==
    ASSUME NEW r, NEW s \in Series, TypeOK, NEW a \in Int,
           Owed(At[r], log[s], late, Len(log[s]), a)
    PROVE  Cardinality(Foreign(r, s)) >= a
<1>1. Foreign(r, s) = ForeignIn(At[r], log[s], late)
  BY DEF Foreign, ForeignIn, IsForeign
<1>2. ForeignIn(At[r], log[s], late) \cap 1..Len(log[s])
        = ForeignIn(At[r], log[s], late)
  BY DEF TypeOK, ForeignIn
<1>3. QED
  BY <1>1, <1>2 DEF Owed

\* A step appends one landing to the log of a series, or none.
Grows == \A s \in Series :
    log'[s] = log[s] \/ \E d \in Promise!Landing : log'[s] = Append(log[s], d)

\* Storing appends a landing of its job, and the version counts it.
LEMMA StoreGrows ==
    ASSUME TypeOK, TypeOK', NEW j \in Job, NEW e \in Outcomes, Store(j, e), Accepts(j, e)
    PROVE  /\ Grows
           /\ VersionInv => VersionInv'
           /\ \A s \in Series : s # SeriesOf[j] => log'[s] = log[s]
           /\ \A i, lt : At[j[1]] # i \/ (\E w \in lt : w.job = j) =>
                Len(log[SeriesOf[j]]) + 1 \in ForeignIn(i, log'[SeriesOf[j]], lt)
<1> DEFINE s == SeriesOf[j]
           d == Promise!Landed(j, e)
<1>1. /\ s \in Series /\ log[s] \in Seq(Promise!Landing)
      /\ log'[s] = Append(log[s], d)
      /\ stats'[s].version = stats[s].version + 1
      /\ \A z \in Series \ {s} : stats'[z] = stats[z] /\ log'[z] = log[z]
  BY JobFacts, StoreEffect DEF Accepts, TypeOK
<1>2. d.job = j
  BY DEF Promise!Landed
<1>3. d \in Promise!Landing
  <2>1. e.ruling \in Rulings /\ e.normal \in BOOLEAN /\ e.muted \in BOOLEAN /\ e.at \in Nat
    BY DEF Outcomes
  <2>2. QED
    BY <2>1 DEF Promise!Landed, Promise!Landing, Promise!Rulings, Rulings
<1> HIDE DEF d, s
<1>4. /\ Len(log'[s]) = Len(log[s]) + 1 /\ Len(log[s]) \in Nat
      /\ Len(log[s]) + 1 \in DOMAIN log'[s]
      /\ log'[s][Len(log[s]) + 1] = d
  BY <1>1
<1>5. Grows
  BY <1>1, <1>3 DEF Grows
<1>6. VersionInv => VersionInv'
  <2> SUFFICES ASSUME VersionInv, NEW z \in Series
               PROVE  stats'[z].version = Seed.version + Len(log'[z])
    BY DEF VersionInv
  <2>1. Seed.version \in Nat /\ stats[z].version = Seed.version + Len(log[z])
    BY IngestAssumption DEF Stats, VersionInv
  <2>2. CASE z = s
    <3>1. /\ Len(log'[z]) = Len(log[z]) + 1 /\ Len(log[z]) \in Nat
          /\ stats'[z].version = stats[z].version + 1
      BY <1>1, <1>4, <2>2
    <3> DEFINE n == Len(log[z])
               m == Len(log'[z])
    <3> HIDE DEF n, m
    <3>2. stats'[z].version = Seed.version + m
      BY <2>1, <3>1 DEF n, m
    <3>3. QED
      BY <3>2 DEF m
  <2>3. CASE z # s
    BY <1>1, <2>1, <2>3
  <2>4. QED
    BY <2>2, <2>3
<1>7. ASSUME NEW i, NEW lt, At[j[1]] # i \/ \E w \in lt : w.job = j
      PROVE  Len(log[s]) + 1 \in ForeignIn(i, log'[s], lt)
  <2>1. IsForeign(i, d, lt)
    BY <1>2, <1>7 DEF IsForeign
  <2>2. QED
    BY <1>4, <2>1 DEF ForeignIn
<1>8. QED
  BY <1>1, <1>5, <1>6, <1>7 DEF s

\* Two requests that analyze a series at once are of two instances.
LEMMA OthersAreForeign ==
    ASSUME TypeOK, LocksAreReleased, NEW r \in Request, NEW q \in Request, r # q,
           pc[r] \in Holding, pc[q] \in Holding,
           SeriesOf[<<r, type[r]>>] = SeriesOf[<<q, type[q]>>]
    PROVE  At[r] # At[q]
<1>1. lock[ThisLock(r)] = r /\ lock[ThisLock(q)] = q
  BY DEF LocksAreReleased
<1>2. QED
  BY <1>1 DEF ThisLock, ThisSeries, This

\* A request that does not move stands where it stood, if what lands while it
\* evaluates or writes is foreign to it.
LEMMA StandingKept ==
    ASSUME TypeOK, TypeOK', NEW q \in Request, StandingNow(q),
           late \subseteq late', Grows,
           pc'[q] = pc[q], type'[q] = type[q], read'[q] = read[q],
           outcome'[q] = outcome[q], attempt'[q] = attempt[q],
           pc[q] \in {"evaluate", "write"} =>
              LET s == SeriesOf[<<q, type[q]>>] IN
              \/ log'[s] = log[s]
              \/ Len(log[s]) + 1 \in ForeignIn(At[q], log'[s], late')
    PROVE  StandingNow(q)'
<1> DEFINE s == SeriesOf[<<q, type[q]>>]
           a == attempt[q] - 1
<1>1. a \in Int
  BY IngestAssumption DEF TypeOK
<1>2. CASE pc[q] \notin Holding
  BY <1>2 DEF StandingNow, Standing, Holding
<1>3. CASE pc[q] \in Holding
  <2>1. s \in Series
    BY <1>3, JobFacts DEF TypeOK, This
  <2>2. /\ log[s] \in Seq(Promise!Landing) /\ log'[s] \in Seq(Promise!Landing)
        /\ log'[s] = log[s] \/ \E d \in Promise!Landing : log'[s] = Append(log[s], d)
    BY <2>1 DEF TypeOK, Grows
  <2>3. Standing(At[q], pc[q], read[q], outcome[q], attempt[q], log[s], late)
    BY DEF StandingNow
  <2>4. ASSUME pc[q] \in {"evaluate", "write"}
        PROVE  log'[s] = log[s] \/ Len(log[s]) + 1 \in ForeignIn(At[q], log'[s], late')
    BY <2>4
  <2> HIDE DEF s, a
  <2>5. CASE pc[q] \in {"read", "record", "notify"}
    <3>1. Owed(At[q], log[s], late, Len(log[s]), a)
      BY <2>3, <2>5 DEF Standing, a
    <3>2. Owed(At[q], log'[s], late', Len(log'[s]), a)
      BY <1>1, <2>2, <3>1, OwedWhole
    <3>3. QED
      BY <2>5, <3>2 DEF StandingNow, Standing, s, a
  <2>6. CASE pc[q] = "evaluate"
    <3>1. Owed(At[q], log[s], late, read[q].version - Seed.version, a)
      BY <2>3, <2>6 DEF Standing, a
    <3>2. Owed(At[q], log'[s], late', read[q].version - Seed.version, a)
      BY <1>1, <2>2, <2>4, <2>6, <3>1, OwedKept
    <3>3. QED
      BY <2>6, <3>2 DEF StandingNow, Standing, s, a
  <2>7. CASE pc[q] = "write"
    <3>1. Owed(At[q], log[s], late, outcome[q].stats.version - Seed.version, a)
      BY <2>3, <2>7 DEF Standing, a
    <3>2. Owed(At[q], log'[s], late', outcome[q].stats.version - Seed.version, a)
      BY <1>1, <2>2, <2>4, <2>7, <3>1, OwedKept
    <3>3. QED
      BY <2>7, <3>2 DEF StandingNow, Standing, s, a
  <2>8. QED
    BY <1>3, <2>5, <2>6, <2>7 DEF Holding
<1>4. QED
  BY <1>2, <1>3

\* What a count was given up for stays owed.
LEMMA GivenUpKept ==
    ASSUME TypeOK, TypeOK', ConflictInv, late \subseteq late', Grows, NEW j \in gaveUp
    PROVE  Owed(At[j[1]], log'[SeriesOf[j]], late', Len(log'[SeriesOf[j]]), MaxAttempts)
<1> DEFINE s == SeriesOf[j]
<1>1. s \in Series
  BY JobFacts DEF TypeOK
<1>2. /\ log[s] \in Seq(Promise!Landing) /\ log'[s] \in Seq(Promise!Landing)
      /\ log'[s] = log[s] \/ \E d \in Promise!Landing : log'[s] = Append(log[s], d)
  BY <1>1 DEF TypeOK, Grows
<1>3. Owed(At[j[1]], log[s], late, Len(log[s]), MaxAttempts)
  BY DEF ConflictInv
<1> HIDE DEF s
<1>4. Owed(At[j[1]], log'[s], late', Len(log'[s]), MaxAttempts)
  BY <1>2, <1>3, OwedWhole, IngestAssumption
<1>5. QED
  BY <1>4 DEF s

\* The invariant survives a step of the request r alone that stores nothing,
\* if r stands well after it.
LEMMA ConflictFrame ==
    ASSUME TypeOK, TypeOK', ConflictInv, UNCHANGED <<stats, log, gaveUp>>,
           late \subseteq late', NEW r,
           \A q \in Request \ {r} :
              \/ pc'[q] \in Finished
              \/ /\ pc'[q] = pc[q] /\ type'[q] = type[q] /\ read'[q] = read[q]
                 /\ outcome'[q] = outcome[q] /\ attempt'[q] = attempt[q],
           r \in Request => StandingNow(r)'
    PROVE  ConflictInv'
<1>1. VersionInv'
  BY DEF ConflictInv, VersionInv
<1>2. Grows
  BY DEF Grows
<1>3. ASSUME NEW q \in Request, q # r
      PROVE  StandingNow(q)'
  <2>1. CASE pc'[q] \in Finished
    BY <2>1 DEF StandingNow, Standing, Finished
  <2>2. CASE /\ pc'[q] = pc[q] /\ type'[q] = type[q] /\ read'[q] = read[q]
             /\ outcome'[q] = outcome[q] /\ attempt'[q] = attempt[q]
    BY <1>2, <2>2, StandingKept DEF ConflictInv
  <2>3. QED
    BY <1>3, <2>1, <2>2
<1>4. \A q \in Request : StandingNow(q)'
  BY <1>3
<1>5. \A j \in gaveUp' : Owed(At[j[1]], log'[SeriesOf[j]], late',
                              Len(log'[SeriesOf[j]]), MaxAttempts)
  BY <1>2, GivenUpKept
<1>6. QED
  BY <1>1, <1>4, <1>5 DEF ConflictInv

\* A return leaves nothing owed.
LEMMA ReturnStands ==
    ASSUME TypeOK, NEW r \in Request, Return(r)
    PROVE  /\ StandingNow(r)'
           /\ \A q \in Request \ {r} :
                /\ pc'[q] = pc[q] /\ type'[q] = type[q] /\ read'[q] = read[q]
                /\ outcome'[q] = outcome[q] /\ attempt'[q] = attempt[q]
<1>1. pc'[r] \in {"accepted", "next"} /\ attempt'[r] = 1
  BY DEF Return, Goto, TypeOK
<1>2. StandingNow(r)'
  BY <1>1 DEF StandingNow, Standing
<1>3. QED
  BY <1>2 DEF Return, Goto, TypeOK

\* The steps before an analysis, and the lock: nothing has failed yet.
LEMMA EntryConflict ==
    ASSUME TypeOK, TypeOK', ConflictInv, NEW r \in Request,
           Reject(r) \/ Save(r) \/ SaveFails(r) \/ CheckMute(r) \/ AcquireLock(r)
    PROVE  ConflictInv'
<1>1. /\ UNCHANGED <<stats, log, gaveUp, late, attempt, read, outcome>>
      /\ \A q \in Request \ {r} : pc'[q] = pc[q] /\ type'[q] = type[q]
  BY DEF Reject, Save, SaveFails, CheckMute, AcquireLock, Goto, TypeOK, shared
<1>2. /\ pc[r] \in {"ingest", "next", "lock"}
      /\ pc'[r] \in {"rejected", "failed", "next", "lock"} \/ pc'[r] = "read"
  BY DEF Reject, Save, SaveFails, CheckMute, AcquireLock, Goto, TypeOK
<1>3. attempt'[r] = 1
  BY <1>1, <1>2 DEF ConflictInv, StandingNow, Standing
<1>4. StandingNow(r)'
  <2>1. CASE pc'[r] = "read"
    <3> DEFINE lg == log'[SeriesOf[<<r, type'[r]>>]]
    <3>1. lg \in Seq(Promise!Landing)
      BY <2>1, JobFacts DEF TypeOK, This, Holding
    <3> HIDE DEF lg
    <3>2. Len(lg) \in Nat
      BY <3>1
    <3>3. Cardinality(ForeignIn(At[r], lg, late') \cap 1..Len(lg)) \in Nat
      BY <3>2, FiniteForeign
    <3>4. Cardinality(ForeignIn(At[r], lg, late') \cap 1..Len(lg)) >= 0
      BY <3>3
    <3>5. Len(lg) \in 0..Len(lg) /\ (Len(lg) + 1)..Len(lg) = {}
      BY <3>2, WholeInterval
    <3>6. Owed(At[r], lg, late', Len(lg), 0)
      BY <3>4, <3>5 DEF Owed
    <3>7. attempt'[r] - 1 = 0
      BY <1>3
    <3>8. QED
      BY <2>1, <3>6, <3>7 DEF StandingNow, Standing, lg
  <2>2. CASE pc'[r] # "read"
    BY <1>2, <1>3, <2>2 DEF StandingNow, Standing
  <2>3. QED
    BY <2>1, <2>2
<1>5. QED
  BY <1>1, <1>4, ConflictFrame

\* What is read, and what is evaluated from it, stands for the landings so far.
LEMMA ReadConflict ==
    ASSUME TypeOK, TypeOK', ConflictInv, NEW r \in Request,
           GetStats(r) \/ EvaluateTrend(r) \/ GetAverageFails(r)
    PROVE  ConflictInv'
<1> DEFINE s == SeriesOf[<<r, type[r]>>]
<1>1. /\ UNCHANGED <<stats, log, gaveUp, late, attempt, type>>
      /\ pc[r] \in Holding
      /\ \A q \in Request \ {r} :
           pc'[q] = pc[q] /\ read'[q] = read[q] /\ outcome'[q] = outcome[q]
  BY DEF GetStats, EvaluateTrend, GetAverageFails, Conclude, Goto, TypeOK, shared, Holding
<1>2. Standing(At[r], pc[r], read[r], outcome[r], attempt[r], log[s], late)
  BY DEF ConflictInv, StandingNow
<1>3. StandingNow(r)'
  <2>1. CASE GetStats(r)
    <3>1. pc[r] = "read" /\ pc'[r] = "evaluate" /\ read'[r] = stats[s]
      BY <2>1 DEF GetStats, Goto, TypeOK, ThisSeries, This
    <3>2. s \in Series
      BY <1>1, JobFacts DEF TypeOK, This
    <3>3. stats[s].version = Seed.version + Len(log[s])
      BY <3>2 DEF ConflictInv, VersionInv
    <3>4. Seed.version \in Nat
      BY IngestAssumption DEF Stats
    <3>5. stats[s].version - Seed.version = Len(log[s])
      <4>1. log[s] \in Seq(Promise!Landing)
        BY <3>2 DEF TypeOK
      <4>2. Len(log[s]) \in Nat
        BY <4>1
      <4>3. QED
        BY <3>3, <3>4, <4>2
    <3>6. Owed(At[r], log[s], late, read'[r].version - Seed.version, attempt[r] - 1)
      BY <1>2, <3>1, <3>5 DEF Standing
    <3>7. QED
      BY <1>1, <3>1, <3>6 DEF StandingNow, Standing
  <2>2. CASE EvaluateTrend(r) \/ GetAverageFails(r)
    <3>1. PICK breached :
             /\ pc[r] = "evaluate"
             /\ Conclude(r, breached)
      BY <2>2 DEF EvaluateTrend, GetAverageFails
    <3>2. /\ pc'[r] = "write"
          /\ outcome'[r] = Evaluate(read[r], CountOf[This(r)], breached, muted[r], now)
      BY <3>1 DEF Conclude, Goto, TypeOK
    <3>3. outcome'[r].stats.version = read[r].version
      BY <3>2 DEF Evaluate
    <3>4. Owed(At[r], log[s], late, outcome'[r].stats.version - Seed.version,
               attempt[r] - 1)
      BY <1>2, <3>1, <3>3 DEF Standing
    <3>5. QED
      BY <1>1, <3>2, <3>4 DEF StandingNow, Standing
  <2>3. QED
    BY <2>1, <2>2
<1>4. QED
  BY <1>1, <1>3, ConflictFrame

\* A write that is refused is owed to one more foreign landing.
LEMMA RefusedConflict ==
    ASSUME TypeOK, TypeOK', WriteInv, ConflictInv, NEW r \in Request,
           Conflict(r) \/ GiveUp(r)
    PROVE  ConflictInv'
<1> DEFINE j == <<r, type[r]>>
           s == SeriesOf[j]
           n == outcome[r].stats.version - Seed.version
<1>1. /\ UNCHANGED <<stats, log, late>> /\ pc[r] = "write"
      /\ outcome[r].stats.version # stats[s].version
      /\ j \in Job /\ s \in Series
  BY JobFacts DEF Conflict, GiveUp, Accepts, This, TypeOK, Holding, shared
<1>2. outcome[r].stats.version <= stats[s].version
  BY <1>1 DEF WriteInv, SoundNow, Sound
<1>3. stats[s].version = Seed.version + Len(log[s])
  BY <1>1 DEF ConflictInv, VersionInv
<1>4. /\ Seed.version \in Nat /\ Len(log[s]) \in Nat /\ outcome[r].stats.version \in Nat
      /\ log[s] \in Seq(Promise!Landing) /\ attempt[r] \in Nat
  <2>1. Seed.version \in Nat
    BY IngestAssumption DEF Stats
  <2>2. outcome[r].stats.version \in Nat
    BY DEF TypeOK, Stats, Outcomes
  <2>3. log[s] \in Seq(Promise!Landing) /\ attempt[r] \in Nat
    BY <1>1, IngestAssumption DEF TypeOK
  <2>4. Len(log[s]) \in Nat
    BY <2>3
  <2>5. QED
    BY <2>1, <2>2, <2>3, <2>4
<1>5. n # Len(log[s])
  BY <1>1, <1>3, <1>4
<1>6. Owed(At[r], log[s], late, n, attempt[r] - 1)
  BY <1>1 DEF ConflictInv, StandingNow, Standing
<1> HIDE DEF j, s, n
<1>7. attempt[r] - 1 \in Int /\ attempt[r] - 1 + 1 = attempt[r]
  BY <1>4
<1>8. Owed(At[r], log[s], late, Len(log[s]), attempt[r])
  BY <1>4, <1>5, <1>6, <1>7, OwedMore
<1>9. CASE Conflict(r)
  <2>1. /\ UNCHANGED <<gaveUp, type, read, outcome>>
        /\ pc'[r] = "read" /\ attempt'[r] = attempt[r] + 1
        /\ \A q \in Request \ {r} : pc'[q] = pc[q] /\ attempt'[q] = attempt[q]
    BY <1>9 DEF Conflict, Goto, TypeOK, shared
  <2>2. attempt'[r] - 1 = attempt[r]
    BY <1>4, <2>1
  <2>3. StandingNow(r)'
    BY <1>1, <1>8, <2>1, <2>2 DEF StandingNow, Standing, s, j
  <2>4. QED
    BY <1>1, <2>1, <2>3, ConflictFrame
<1>10. CASE GiveUp(r)
  <2>1. /\ Return(r) /\ gaveUp' = gaveUp \cup {j} /\ attempt[r] >= MaxAttempts
    BY <1>10 DEF GiveUp, This, j
  <2>2. Owed(At[r], log[s], late, Len(log[s]), MaxAttempts)
    <3>1. Cardinality(ForeignIn(At[r], log[s], late) \cap 1..Len(log[s])) \in Nat
      BY <1>4, FiniteForeign
    <3>2. Cardinality(ForeignIn(At[r], log[s], late) \cap 1..Len(log[s])) >= MaxAttempts
      BY <1>4, <1>8, <2>1, <3>1, IngestAssumption DEF Owed
    <3>3. QED
      BY <1>8, <3>2 DEF Owed
  <2>3. Grows /\ VersionInv'
    BY <1>1 DEF Grows, ConflictInv, VersionInv
  <2>4. \A q \in Request : StandingNow(q)'
    <3>1. \A q \in Request \ {r} : StandingNow(q)'
      BY <1>1, <2>1, <2>3, ReturnStands, StandingKept DEF ConflictInv
    <3>2. QED
      BY <2>1, <3>1, ReturnStands
  <2>5. ASSUME NEW k \in gaveUp'
        PROVE  Owed(At[k[1]], log'[SeriesOf[k]], late', Len(log'[SeriesOf[k]]), MaxAttempts)
    <3>1. CASE k \in gaveUp
      BY <1>1, <2>3, <3>1, GivenUpKept
    <3>2. CASE k = j
      BY <1>1, <2>2, <3>2 DEF s, j
    <3>3. QED
      BY <2>1, <3>1, <3>2
  <2>6. QED
    BY <2>3, <2>4, <2>5 DEF ConflictInv
<1>11. QED
  BY <1>9, <1>10

\* A landing is foreign to whoever evaluates or writes the series meanwhile.
LEMMA SaveConflict ==
    ASSUME TypeOK, TypeOK', LocksAreReleased, ConflictInv, NEW r \in Request, SaveStats(r)
    PROVE  ConflictInv'
<1> DEFINE j == <<r, type[r]>>
           e == outcome[r]
           s == SeriesOf[j]
<1>1. /\ pc[r] = "write" /\ pc[r] \in Holding /\ UNCHANGED <<late, gaveUp>>
      /\ Store(j, e) /\ Accepts(j, e) /\ j \in Job /\ e \in Outcomes /\ s \in Series
  BY JobFacts DEF SaveStats, This, TypeOK, Holding
<1>2. /\ Grows /\ VersionInv'
      /\ \A z \in Series : z # s => log'[z] = log[z]
      /\ \A i : At[r] # i => Len(log[s]) + 1 \in ForeignIn(i, log'[s], late')
  BY <1>1, StoreGrows DEF ConflictInv
<1>3. \A q \in Request \ {r} :
         /\ pc'[q] = pc[q] /\ type'[q] = type[q] /\ read'[q] = read[q]
         /\ outcome'[q] = outcome[q] /\ attempt'[q] = attempt[q]
  BY DEF SaveStats, Return, Goto, TypeOK
<1>4. ASSUME NEW q \in Request, q # r
      PROVE  StandingNow(q)'
  <2>1. ASSUME pc[q] \in {"evaluate", "write"}
        PROVE  LET z == SeriesOf[<<q, type[q]>>] IN
               \/ log'[z] = log[z]
               \/ Len(log[z]) + 1 \in ForeignIn(At[q], log'[z], late')
    <3>1. SeriesOf[<<q, type[q]>>] \in Series /\ pc[q] \in Holding
      BY <2>1, JobFacts DEF TypeOK, This, Holding
    <3>2. CASE SeriesOf[<<q, type[q]>>] = s
      <4>1. At[r] # At[q]
        BY <1>1, <1>4, <3>1, <3>2, OthersAreForeign
      <4>2. QED
        BY <1>2, <3>2, <4>1
    <3>3. CASE SeriesOf[<<q, type[q]>>] # s
      BY <1>2, <3>1, <3>3
    <3>4. QED
      BY <3>2, <3>3
  <2>2. StandingNow(q)
    BY DEF ConflictInv
  <2>3. QED
    BY <1>1, <1>2, <1>3, <1>4, <2>1, <2>2, StandingKept
<1>5. StandingNow(r)'
  <2>1. CASE Return(r)
    BY <2>1, ReturnStands
  <2>2. CASE Goto(r, "record") /\ UNCHANGED <<type, attempt>>
    <3>1. pc'[r] = "record"
      BY <2>2 DEF Goto, TypeOK
    <3>2. Owed(At[r], log[s], late, e.stats.version - Seed.version, attempt[r] - 1)
      BY <1>1 DEF ConflictInv, StandingNow, Standing
    <3>3. /\ log[s] \in Seq(Promise!Landing) /\ log'[s] \in Seq(Promise!Landing)
          /\ log'[s] = log[s] \/ \E d \in Promise!Landing : log'[s] = Append(log[s], d)
          /\ attempt[r] - 1 \in Int
      <4>1. attempt[r] - 1 \in Int
        BY IngestAssumption DEF TypeOK
      <4>2. QED
        BY <1>1, <1>2, <4>1 DEF TypeOK, Grows
    <3> HIDE DEF s, e
    <3>4. Owed(At[r], log'[s], late', Len(log'[s]), attempt[r] - 1)
      BY <1>1, <3>2, <3>3, OwedWhole
    <3>5. QED
      BY <2>2, <3>1, <3>4 DEF StandingNow, Standing, s
  <2>3. QED
    BY <2>1, <2>2 DEF SaveStats
<1>6. \A k \in gaveUp' : Owed(At[k[1]], log'[SeriesOf[k]], late',
                              Len(log'[SeriesOf[k]]), MaxAttempts)
  BY <1>1, <1>2, GivenUpKept
<1>7. \A q \in Request : StandingNow(q)'
  BY <1>4, <1>5
<1>8. QED
  BY <1>2, <1>6, <1>7 DEF ConflictInv

\* A landing nobody waits for is foreign to all.
LEMMA LateConflict ==
    ASSUME TypeOK, TypeOK', ConflictInv, LandLate
    PROVE  ConflictInv'
<1>1. PICK w \in late : Accepts(w.job, w.outcome) /\ Store(w.job, w.outcome)
  BY DEF LandLate
<1>2. /\ UNCHANGED <<late, gaveUp, pc, type, read, outcome, attempt>>
      /\ w.job \in Job /\ w.outcome \in Outcomes
  BY DEF LandLate, local, TypeOK, Writes
<1>3. /\ Grows /\ VersionInv'
      /\ \A z \in Series : z # SeriesOf[w.job] => log'[z] = log[z]
      /\ \A i : Len(log[SeriesOf[w.job]]) + 1
                  \in ForeignIn(i, log'[SeriesOf[w.job]], late')
  BY <1>1, <1>2, StoreGrows DEF ConflictInv
<1>4. ASSUME NEW q \in Request
      PROVE  StandingNow(q)'
  <2>1. ASSUME pc[q] \in {"evaluate", "write"}
        PROVE  LET z == SeriesOf[<<q, type[q]>>] IN
               \/ log'[z] = log[z]
               \/ Len(log[z]) + 1 \in ForeignIn(At[q], log'[z], late')
    <3>1. SeriesOf[<<q, type[q]>>] \in Series
      BY <2>1, JobFacts DEF TypeOK, This, Holding
    <3>2. QED
      BY <1>3, <3>1
  <2>2. StandingNow(q)
    BY DEF ConflictInv
  <2>3. QED
    BY <1>2, <1>3, <2>1, <2>2, StandingKept
<1>5. \A k \in gaveUp' : Owed(At[k[1]], log'[SeriesOf[k]], late',
                              Len(log'[SeriesOf[k]]), MaxAttempts)
  BY <1>2, <1>3, GivenUpKept
<1>6. QED
  BY <1>3, <1>4, <1>5 DEF ConflictInv

\* Every step leaves each failed attempt owed to a landing of its own.
LEMMA ConflictStep ==
    TypeOK /\ TypeOK' /\ LocksAreReleased /\ WriteInv /\ ConflictInv /\ [Next]_vars
        => ConflictInv'
<1> SUFFICES ASSUME TypeOK, TypeOK', LocksAreReleased, WriteInv, ConflictInv, [Next]_vars
             PROVE  ConflictInv'
  OBVIOUS
<1>1. ASSUME NEW r \in Request, Reject(r) \/ Step(r)
      PROVE  ConflictInv'
  <2>1. CASE Reject(r) \/ Save(r) \/ SaveFails(r) \/ CheckMute(r) \/ AcquireLock(r)
    BY <2>1, EntryConflict
  <2>2. CASE GetStats(r) \/ EvaluateTrend(r) \/ GetAverageFails(r)
    BY <2>2, ReadConflict
  <2>3. CASE Conflict(r) \/ GiveUp(r)
    BY <2>3, RefusedConflict
  <2>4. CASE SaveStats(r)
    BY <2>4, SaveConflict
  <2>5. CASE \/ GetStatsFails(r) \/ SaveStatsFails(r)
             \/ SaveBreach(r) \/ SaveBreachFails(r) \/ Notify(r) \/ NotifyFails(r)
    <3>1. UNCHANGED <<stats, log, gaveUp>> /\ late \subseteq late'
      BY <2>5 DEF GetStatsFails, SaveStatsFails, SaveBreach, SaveBreachFails,
                  Notify, NotifyFails, shared
    <3>2. CASE Return(r)
      BY <3>1, <3>2, ReturnStands, ConflictFrame
    <3>3. CASE /\ pc[r] = "record" /\ Goto(r, "notify") /\ UNCHANGED late
               /\ UNCHANGED <<type, attempt, read, outcome>>
      <4>1. pc'[r] = "notify" /\ \A q \in Request \ {r} : pc'[q] = pc[q]
        BY <3>3 DEF Goto, TypeOK
      <4>2. StandingNow(r)'
        BY <3>1, <3>3, <4>1 DEF ConflictInv, StandingNow, Standing
      <4>3. QED
        BY <3>1, <3>3, <4>1, <4>2, ConflictFrame
    <3>4. QED
      BY <2>5, <3>2, <3>3 DEF GetStatsFails, SaveStatsFails, SaveBreach,
                              SaveBreachFails, AfterRecord, Notify, NotifyFails
  <2>6. QED
    BY <1>1, <2>1, <2>2, <2>3, <2>4, <2>5 DEF Step
<1>2. ASSUME NEW i \in Instance, Crash(i)
      PROVE  ConflictInv'
  <2>1. /\ UNCHANGED <<stats, log, gaveUp, type, attempt>> /\ late \subseteq late'
        /\ \A q \in Request : \/ pc'[q] = "crashed"
                              \/ /\ pc'[q] = pc[q] /\ read'[q] = read[q]
                                 /\ outcome'[q] = outcome[q]
    BY <1>2 DEF Crash
  <2>2. None \notin Request
    BY IngestAssumption
  <2>3. QED
    BY <2>1, <2>2, ConflictFrame DEF Finished
<1>3. CASE LandLate
  BY <1>3, LateConflict
<1>4. CASE \/ \E r \in Request : Cancel(r)
           \/ \E k \in MuteKeys, n \in MuteLengths : Mute(k, n)
           \/ Tick \/ Quiesce \/ UNCHANGED vars
  <2>1. UNCHANGED <<stats, log, gaveUp, late, pc, type, read, outcome, attempt>>
    BY <1>4 DEF Cancel, Mute, Tick, Quiesce, vars, shared, local
  <2>2. None \notin Request
    BY IngestAssumption
  <2>3. QED
    BY <2>1, <2>2, ConflictFrame
<1>5. QED
  BY <1>1, <1>2, <1>3, <1>4 DEF Next

\* Each failed attempt is owed to a landing of another instance, or to one
\* nobody waited for, and a count is given up only after MaxAttempts of them,
\* whatever the requests, the series and the slots they share.
THEOREM ConflictsOwed == Spec => []ConflictsAreForeign
<1>1. Init => ConflictInv
  <2> SUFFICES ASSUME Init
               PROVE  ConflictInv
    OBVIOUS
  <2>1. VersionInv
    BY IngestAssumption DEF Init, VersionInv, Stats
  <2>2. QED
    BY <2>1 DEF Init, ConflictInv, StandingNow, Standing
<1>2. TypeOK /\ ConflictInv => ConflictsAreForeign
  <2> SUFFICES ASSUME TypeOK, ConflictInv
               PROVE  ConflictsAreForeign
    OBVIOUS
  <2>1. ASSUME NEW r \in Request, pc[r] \in Holding
        PROVE  Cardinality(Foreign(r, ThisSeries(r))) >= attempt[r] - 1
    <3> DEFINE s == SeriesOf[<<r, type[r]>>]
    <3>1. s \in Series /\ attempt[r] - 1 \in Int /\ log[s] \in Seq(Promise!Landing)
      BY <2>1, JobFacts, IngestAssumption DEF TypeOK, This
    <3>2. PICK n : Owed(At[r], log[s], late, n, attempt[r] - 1)
      BY <2>1 DEF ConflictInv, StandingNow, Standing, Holding
    <3> HIDE DEF s
    <3>3. Owed(At[r], log[s], late, Len(log[s]), attempt[r] - 1)
      BY <3>1, <3>2, OwedWhole
    <3>4. Cardinality(Foreign(r, s)) >= attempt[r] - 1
      BY <3>1, <3>3, OwedForeign
    <3>5. QED
      BY <3>4 DEF s, ThisSeries, This
  <2>2. ASSUME NEW j \in gaveUp
        PROVE  Cardinality(Foreign(j[1], SeriesOf[j])) >= MaxAttempts
    <3>1. SeriesOf[j] \in Series
      BY JobFacts DEF TypeOK
    <3>2. QED
      BY <3>1, OwedForeign, IngestAssumption DEF ConflictInv
  <2>3. QED
    BY <2>1, <2>2 DEF ConflictsAreForeign
<1>3. RefInv => WriteInv
  BY DEF RefInv
<1>4. Spec => []LocksAreReleased
  BY LocksReleased
<1>5. QED
  BY <1>1, <1>2, <1>3, <1>4, RefInit, TypeInit, RefStep, TypeStep, ConflictStep, PTL DEF Spec

-----------------------------------------------------------------------------
(* One instance loses only to writes that were left to the server           *)

\* What has landed in a log belongs there, and each job once.
LogInv == \A s \in Series :
    /\ \A k \in DOMAIN log[s] : SeriesOf[log[s][k].job] = s
    /\ \A k, l \in DOMAIN log[s] : log[s][k].job = log[s][l].job => k = l

\* Baseline absorbs no job twice.
LEMMA LogStep ==
    TypeOK /\ LogInv /\ [Promise!Next]_(Promise!vars) => LogInv'
<1> SUFFICES ASSUME TypeOK, LogInv, [Promise!Next]_(Promise!vars)
             PROVE  LogInv'
  OBVIOUS
<1>1. CASE UNCHANGED log
  BY <1>1 DEF LogInv
<1>2. CASE Promise!Next
  <2>1. PICK j \in Job : /\ ~Promise!HasLanded(j)
                         /\ \E d : d.job = j /\ log' = [log EXCEPT ![SeriesOf[j]] = Append(@, d)]
    BY <1>2 DEF Promise!Next, Promise!Absorb, Promise!Landed
  <2>2. PICK d : d.job = j /\ log' = [log EXCEPT ![SeriesOf[j]] = Append(@, d)]
    BY <2>1
  <2>3. SeriesOf[j] \in Series
    BY JobFacts
  <2>4. ASSUME NEW s \in Series
        PROVE  /\ \A k \in DOMAIN log'[s] : SeriesOf[log'[s][k].job] = s
               /\ \A k, l \in DOMAIN log'[s] : log'[s][k].job = log'[s][l].job => k = l
    <3>1. log[s] \in Seq(Promise!Landing)
      BY DEF TypeOK
    <3>2. CASE s # SeriesOf[j]
      <4>1. log'[s] = log[s]
        BY <2>2, <3>2 DEF TypeOK
      <4>2. QED
        BY <4>1 DEF LogInv
    <3>3. CASE s = SeriesOf[j]
      <4>1. log'[s] = Append(log[s], d)
        BY <2>2, <2>3, <3>3 DEF TypeOK
      <4>2. /\ DOMAIN log'[s] = DOMAIN log[s] \cup {Len(log[s]) + 1}
            /\ log'[s][Len(log[s]) + 1] = d
            /\ \A k \in DOMAIN log[s] : log'[s][k] = log[s][k]
        BY <3>1, <4>1
      <4>3. \A k \in DOMAIN log[s] : log[s][k].job # j
        BY <2>1, <3>3 DEF Promise!HasLanded
      <4>4. QED
        BY <2>2, <3>3, <4>2, <4>3 DEF LogInv
    <3>4. QED
      BY <3>2, <3>3
  <2>5. QED
    BY <2>4 DEF LogInv
<1>3. QED
  BY <1>1, <1>2 DEF Promise!vars

\* The writes left to the server for a series.
LeftIn(s, lt) == {w \in lt : SeriesOf[w.job] = s}

\* A request whose context is gone and whose write is still to fail.
Doomed(s) == \E r \in Request :
    cancelled[r] /\ pc[r] \in {"evaluate", "write"} /\ SeriesOf[<<r, type[r]>>] = s

\* With one instance a fault leaves one write of a series behind at most; one
\* that is to be left behind is paid for.
PaidInv == \A s \in Series :
    /\ IsFiniteSet(LeftIn(s, late))
    /\ Cardinality(LeftIn(s, late)) <= faults
    /\ Doomed(s) => Cardinality(LeftIn(s, late)) < faults

\* A set grows by one at most.
LEMMA OneMore ==
    ASSUME NEW S, IsFiniteSet(S), NEW x, NEW T \in SUBSET (S \cup {x}), S \subseteq T
    PROVE  /\ IsFiniteSet(T)
           /\ Cardinality(T) <= Cardinality(S) + 1
           /\ Cardinality(S) \in Nat /\ Cardinality(T) \in Nat
<1>1. T = S \/ T = S \cup {x}
  OBVIOUS
<1>2. Cardinality(S) \in Nat
  BY FS_CardinalityType
<1>3. /\ IsFiniteSet(S \cup {x})
      /\ Cardinality(S \cup {x}) = Cardinality(S) \/ Cardinality(S \cup {x}) = Cardinality(S) + 1
  BY FS_AddElement
<1>4. CASE T = S
  BY <1>2, <1>4
<1>5. CASE T = S \cup {x}
  <2>1. IsFiniteSet(T) /\ (Cardinality(T) = Cardinality(S) \/ Cardinality(T) = Cardinality(S) + 1)
    BY <1>3, <1>5
  <2>2. QED
    BY <1>2, <2>1
<1>6. QED
  BY <1>1, <1>4, <1>5

\* A step that leaves no write behind and dooms none.
LEMMA PaidFrame ==
    ASSUME TypeOK, TypeOK', PaidInv, late' = late, faults <= faults',
           \A q \in Request : cancelled'[q] /\ pc'[q] \in {"evaluate", "write"} =>
              /\ cancelled[q] /\ pc[q] \in {"evaluate", "write"}
              /\ type'[q] = type[q]
    PROVE  PaidInv'
<1> SUFFICES ASSUME NEW s \in Series
             PROVE  /\ IsFiniteSet(LeftIn(s, late))
                    /\ Cardinality(LeftIn(s, late)) <= faults'
                    /\ Doomed(s)' => Cardinality(LeftIn(s, late)) < faults'
  BY DEF PaidInv
<1>1. faults \in Nat /\ faults' \in Nat
  BY IngestAssumption DEF TypeOK
<1>2. Doomed(s)' => Doomed(s)
  BY DEF Doomed
<1>3. /\ IsFiniteSet(LeftIn(s, late))
      /\ Cardinality(LeftIn(s, late)) <= faults
      /\ Doomed(s) => Cardinality(LeftIn(s, late)) < faults
  BY DEF PaidInv
<1>4. Cardinality(LeftIn(s, late)) \in Nat
  BY <1>3, FS_CardinalityType
<1>5. QED
  BY <1>1, <1>2, <1>3, <1>4

\* Two requests of one instance that analyze one series are the same.
LEMMA OneHolder ==
    ASSUME TypeOK, LocksAreReleased, NEW r \in Request, NEW q \in Request, At[r] = At[q],
           pc[r] \in Holding, pc[q] \in Holding,
           SeriesOf[<<r, type[r]>>] = SeriesOf[<<q, type[q]>>]
    PROVE  r = q
  BY DEF LocksAreReleased, ThisLock, ThisSeries, This

\* A write whose answer is an error is paid for by the error, or was paid for
\* when its client went.
LEMMA PaidWrite ==
    ASSUME TypeOK, TypeOK', LocksAreReleased, PaidInv, \A r, q \in Request : At[r] = At[q],
           NEW r \in Request, SaveStatsFails(r)
    PROVE  PaidInv'
<1> DEFINE w == [job |-> This(r), outcome |-> outcome[r]]
<1>1. /\ pc[r] = "write" /\ pc[r] \in Holding
      /\ late' = late \cup {w}
      /\ cancelled' = cancelled
      /\ faults' = IF cancelled[r] THEN faults ELSE faults + 1
      /\ w.job = <<r, type[r]>>
  BY DEF SaveStatsFails, Fails, Holding, This
<1>2. /\ pc'[r] \notin Holding
      /\ \A q \in Request \ {r} : pc'[q] = pc[q] /\ type'[q] = type[q]
  BY DEF SaveStatsFails, Return, Goto, TypeOK, Holding
<1> HIDE DEF w
<1>3. faults \in Nat /\ faults' \in Nat
  BY IngestAssumption DEF TypeOK
<1> SUFFICES ASSUME NEW s \in Series
             PROVE  /\ IsFiniteSet(LeftIn(s, late'))
                    /\ Cardinality(LeftIn(s, late')) <= faults'
                    /\ Doomed(s)' => Cardinality(LeftIn(s, late')) < faults'
  BY DEF PaidInv
<1>4. /\ IsFiniteSet(LeftIn(s, late))
      /\ Cardinality(LeftIn(s, late)) <= faults
      /\ Doomed(s) => Cardinality(LeftIn(s, late)) < faults
  BY DEF PaidInv
<1>5. Cardinality(LeftIn(s, late)) \in Nat
  BY <1>4, FS_CardinalityType
<1>6. ASSUME Doomed(s)'
      PROVE  Doomed(s) /\ s # SeriesOf[w.job]
  <2>1. PICK q \in Request : /\ cancelled'[q] /\ pc'[q] \in {"evaluate", "write"}
                             /\ SeriesOf[<<q, type'[q]>>] = s
    BY <1>6 DEF Doomed
  <2>2. q # r
    BY <1>2, <2>1 DEF Holding
  <2>3. /\ cancelled[q] /\ pc[q] \in {"evaluate", "write"} /\ pc[q] \in Holding
        /\ SeriesOf[<<q, type[q]>>] = s
    BY <1>1, <1>2, <2>1, <2>2 DEF Holding
  <2>4. s # SeriesOf[<<r, type[r]>>]
    BY <1>1, <2>2, <2>3, OneHolder
  <2>5. QED
    BY <1>1, <2>3, <2>4 DEF Doomed
<1>7. CASE s # SeriesOf[w.job]
  <2>1. LeftIn(s, late') = LeftIn(s, late)
    BY <1>1, <1>7 DEF LeftIn
  <2>2. faults <= faults'
    BY <1>1, <1>3
  <2>3. QED
    BY <1>3, <1>4, <1>5, <1>6, <2>1, <2>2
<1>8. CASE s = SeriesOf[w.job]
  <2>1. /\ LeftIn(s, late') \in SUBSET (LeftIn(s, late) \cup {w})
        /\ LeftIn(s, late) \subseteq LeftIn(s, late')
    BY <1>1 DEF LeftIn
  <2>2. /\ IsFiniteSet(LeftIn(s, late'))
        /\ Cardinality(LeftIn(s, late')) <= Cardinality(LeftIn(s, late)) + 1
        /\ Cardinality(LeftIn(s, late')) \in Nat
    BY <1>4, <2>1, OneMore
  <2>3. cancelled[r] => Doomed(s)
    BY <1>1, <1>8 DEF Doomed
  <2>4. Cardinality(LeftIn(s, late)) + 1 <= faults'
    BY <1>1, <1>3, <1>4, <1>5, <2>3
  <2>5. QED
    BY <1>3, <1>5, <1>6, <1>8, <2>2, <2>4
<1>9. QED
  BY <1>7, <1>8

\* A crash is one fault, and one request at most was writing a series.
LEMMA PaidCrash ==
    ASSUME TypeOK, TypeOK', LocksAreReleased, PaidInv, \A r, q \in Request : At[r] = At[q],
           NEW i \in Instance, Crash(i)
    PROVE  PaidInv'
<1> DEFINE dead == {r \in Request : At[r] = i /\ pc[r] \in Underway}
           W(r) == [job |-> This(r), outcome |-> outcome[r]]
<1>1. /\ dead # {} /\ faults' = faults + 1
      /\ late' = late \cup {W(r) : r \in {d \in dead : pc[d] = "write"}}
      /\ \A q \in Request : pc'[q] = IF q \in dead THEN "crashed" ELSE pc[q]
  BY DEF Crash
<1>2. \A q \in Request : pc'[q] \notin {"evaluate", "write"}
  <2>1. \A q \in Request : pc[q] \in {"evaluate", "write"} => q \in dead
    BY <1>1 DEF Underway, Holding
  <2>2. QED
    BY <1>1, <2>1
<1>3. faults \in Nat
  BY IngestAssumption DEF TypeOK
<1> SUFFICES ASSUME NEW s \in Series
             PROVE  /\ IsFiniteSet(LeftIn(s, late'))
                    /\ Cardinality(LeftIn(s, late')) <= faults'
                    /\ Doomed(s)' => Cardinality(LeftIn(s, late')) < faults'
  BY DEF PaidInv
<1>4. ~Doomed(s)'
  BY <1>2 DEF Doomed
<1>5. /\ IsFiniteSet(LeftIn(s, late))
      /\ Cardinality(LeftIn(s, late)) <= faults
  BY DEF PaidInv
<1>6. PICK w : LeftIn(s, late') \in SUBSET (LeftIn(s, late) \cup {w})
  <2>1. CASE \E r \in dead : pc[r] = "write" /\ SeriesOf[This(r)] = s
    <3>1. PICK r \in dead : pc[r] = "write" /\ SeriesOf[This(r)] = s
      BY <2>1
    <3>2. ASSUME NEW v \in LeftIn(s, late'), v \notin LeftIn(s, late)
          PROVE  v = W(r)
      <4>1. PICK q \in dead : pc[q] = "write" /\ v = W(q) /\ SeriesOf[v.job] = s
        BY <1>1, <3>2 DEF LeftIn
      <4>2. SeriesOf[<<q, type[q]>>] = SeriesOf[<<r, type[r]>>]
        BY <3>1, <4>1 DEF This
      <4>3. q = r
        BY <3>1, <4>1, <4>2, OneHolder DEF Holding
      <4>4. QED
        BY <4>1, <4>3
    <3>3. LeftIn(s, late') \in SUBSET (LeftIn(s, late) \cup {W(r)})
      BY <3>2
    <3>4. QED
      BY <3>3
  <2>2. CASE ~\E r \in dead : pc[r] = "write" /\ SeriesOf[This(r)] = s
    <3>1. LeftIn(s, late') \in SUBSET (LeftIn(s, late) \cup {0})
      BY <1>1, <2>2 DEF LeftIn
    <3>2. QED
      BY <3>1
  <2>3. QED
    BY <2>1, <2>2
<1>7. LeftIn(s, late) \subseteq LeftIn(s, late')
  BY <1>1 DEF LeftIn
<1>8. /\ IsFiniteSet(LeftIn(s, late'))
      /\ Cardinality(LeftIn(s, late')) <= Cardinality(LeftIn(s, late)) + 1
      /\ Cardinality(LeftIn(s, late)) \in Nat /\ Cardinality(LeftIn(s, late')) \in Nat
  BY <1>5, <1>6, <1>7, OneMore
<1>9. QED
  BY <1>1, <1>3, <1>4, <1>5, <1>8

\* Whatever else happens leaves nothing behind that is not paid for.
LEMMA PaidStep ==
    ASSUME \A r, q \in Request : At[r] = At[q]
    PROVE  TypeOK /\ TypeOK' /\ LocksAreReleased /\ PaidInv /\ [Next]_vars => PaidInv'
<1> SUFFICES ASSUME TypeOK, TypeOK', LocksAreReleased, PaidInv, [Next]_vars
             PROVE  PaidInv'
  OBVIOUS
<1>0. faults \in Nat
  BY IngestAssumption DEF TypeOK
<1>1. ASSUME NEW r \in Request, Reject(r) \/ Step(r)
      PROVE  PaidInv'
  <2>1. CASE SaveStatsFails(r)
    BY <2>1, PaidWrite
  <2>2. ASSUME ~SaveStatsFails(r)
        PROVE  late' = late /\ faults <= faults' /\ cancelled' = cancelled
    <3>1. late' = late /\ cancelled' = cancelled /\ (faults' = faults \/ Fails(r))
      BY <1>1, <2>2
         DEF Reject, Step, Save, SaveFails, CheckMute, AcquireLock, GetStats, GetStatsFails,
             EvaluateTrend, GetAverageFails, Conclude, Conflict, SaveStats, GiveUp,
             SaveBreach, SaveBreachFails, Notify, NotifyFails, shared
    <3>2. Fails(r) => faults' = faults \/ faults' = faults + 1
      BY DEF Fails
    <3>3. QED
      BY <1>0, <3>1, <3>2
  <2>3. \A q \in Request \ {r} : pc'[q] = pc[q] /\ type'[q] = type[q]
    BY <1>1
       DEF Reject, Step, Save, SaveFails, CheckMute, AcquireLock, GetStats, GetStatsFails,
           EvaluateTrend, GetAverageFails, Conclude, Conflict, SaveStats, GiveUp,
           SaveStatsFails, SaveBreach, SaveBreachFails, AfterRecord, Notify, NotifyFails,
           Return, Goto, TypeOK
  <2>4. pc'[r] \in {"evaluate", "write"} =>
          \/ ~cancelled[r]
          \/ pc[r] = "evaluate" /\ type' = type
    <3>1. CASE GetStats(r)
      BY <3>1 DEF GetStats, CanSucceed
    <3>2. CASE EvaluateTrend(r) \/ GetAverageFails(r)
      BY <3>2 DEF EvaluateTrend, GetAverageFails, Conclude
    <3>3. CASE \/ Reject(r) \/ Save(r) \/ SaveFails(r) \/ CheckMute(r) \/ AcquireLock(r)
               \/ Conflict(r)
      BY <3>3 DEF Reject, Save, SaveFails, CheckMute, AcquireLock, Conflict, Goto, TypeOK
    <3>4. CASE Return(r) \/ Goto(r, "notify") \/ Goto(r, "record")
      BY <3>4 DEF Return, Goto, TypeOK
    <3>5. QED
      BY <1>1, <3>1, <3>2, <3>3, <3>4
         DEF Step, GetStatsFails, SaveStats, GiveUp, SaveStatsFails, SaveBreach,
             SaveBreachFails, AfterRecord, Notify, NotifyFails
  <2>5. QED
    BY <2>1, <2>2, <2>3, <2>4, PaidFrame
<1>2. ASSUME NEW i \in Instance, Crash(i)
      PROVE  PaidInv'
  BY <1>2, PaidCrash
<1>3. ASSUME NEW r \in Request, Cancel(r)
      PROVE  PaidInv'
  <2>1. late' = late /\ faults' = faults + 1
    BY <1>3 DEF Cancel, shared
  <2>2. ASSUME NEW s \in Series
        PROVE  /\ IsFiniteSet(LeftIn(s, late'))
               /\ Cardinality(LeftIn(s, late')) < faults'
               /\ Cardinality(LeftIn(s, late')) <= faults'
    <3>1. IsFiniteSet(LeftIn(s, late)) /\ Cardinality(LeftIn(s, late)) <= faults
      BY DEF PaidInv
    <3>2. Cardinality(LeftIn(s, late)) \in Nat
      BY <3>1, FS_CardinalityType
    <3>3. QED
      BY <1>0, <2>1, <3>1, <3>2
  <2>3. QED
    BY <2>2 DEF PaidInv
<1>4. CASE \/ \E k \in MuteKeys, n \in MuteLengths : Mute(k, n)
           \/ LandLate \/ Tick \/ Quiesce \/ UNCHANGED vars
  <2>1. UNCHANGED <<late, faults, cancelled, pc, type>>
    BY <1>4 DEF Mute, LandLate, Tick, Quiesce, vars, shared, local
  <2>2. QED
    BY <1>0, <2>1, PaidFrame
<1>5. QED
  BY <1>1, <1>2, <1>3, <1>4 DEF Next

\* At one instance the foreign landings of a series are writes left to the
\* server, so they are no more than the faults.
LEMMA ForeignIsPaid ==
    ASSUME TypeOK, LogInv, PaidInv, \A r, q \in Request : At[r] = At[q],
           NEW j \in Job
    PROVE  Cardinality(Foreign(j[1], SeriesOf[j])) <= faults
<1> DEFINE s == SeriesOf[j]
           F == Foreign(j[1], s)
           L == LeftIn(s, late)
           WriteOf(k) == CHOOSE w \in late : w.job = log[s][k].job
           f == [k \in F |-> WriteOf(k)]
<1>1. s \in Series /\ j[1] \in Request /\ log[s] \in Seq(Promise!Landing)
  BY JobFacts DEF TypeOK
<1>2. \A k \in DOMAIN log[s] : log[s][k].job[1] \in Request
  <2>1. \A k \in DOMAIN log[s] : log[s][k] \in Promise!Landing
    BY <1>1
  <2>2. QED
    BY <2>1, JobFacts DEF Promise!Landing
<1>3. ASSUME NEW k \in F
      PROVE  /\ k \in DOMAIN log[s]
             /\ WriteOf(k) \in late /\ WriteOf(k).job = log[s][k].job
  <2>1. k \in DOMAIN log[s] /\ \E w \in late : w.job = log[s][k].job
    BY <1>1, <1>2 DEF Foreign
  <2>2. QED
    BY <2>1
<1>4. \A k \in F : WriteOf(k) \in L
  BY <1>1, <1>3 DEF LogInv, LeftIn
<1>5. \A k, l \in F : WriteOf(k) = WriteOf(l) => k = l
  <2> SUFFICES ASSUME NEW k \in F, NEW l \in F, WriteOf(k) = WriteOf(l)
               PROVE  k = l
    OBVIOUS
  <2>1. /\ k \in DOMAIN log[s] /\ l \in DOMAIN log[s]
        /\ log[s][k].job = log[s][l].job
    BY <1>3
  <2>2. QED
    BY <1>1, <2>1 DEF LogInv
<1> HIDE DEF F, L, WriteOf
<1>6. f \in Injection(F, L)
  <2>1. f \in [F -> L]
    BY <1>4
  <2>2. IsInjective(f)
    BY <1>5 DEF IsInjective
  <2>3. QED
    BY <2>1, <2>2 DEF Injection
<1>7. IsFiniteSet(L) /\ Cardinality(L) <= faults
  BY <1>1 DEF PaidInv, L
<1> HIDE DEF f
<1>8. IsFiniteSet(F) /\ Cardinality(F) <= Cardinality(L)
  BY <1>6, <1>7, FS_Injection
<1>9. Cardinality(F) \in Nat /\ Cardinality(L) \in Nat /\ faults \in Nat
  BY <1>7, <1>8, FS_CardinalityType, IngestAssumption DEF TypeOK
<1>10. Cardinality(F) <= faults
  BY <1>7, <1>8, <1>9
<1>11. QED
  BY <1>10 DEF F

\* "No count is dropped from the baseline" (docs/docs/kafka.md:57) is true of
\* one instance as long as there were fewer faults than MaxAttempts, whatever
\* the requests, the faults and the slots: each lost attempt took a write left
\* to the server, and each such write of a series a fault of its own.
THEOREM OneInstanceDropsNothing ==
    ASSUME \A r, q \in Request : At[r] = At[q]
    PROVE  Spec => [](faults < MaxAttempts => NoCountDropped)
<1>1. Init => LogInv /\ PaidInv
  <2> SUFFICES ASSUME Init
               PROVE  LogInv /\ PaidInv
    OBVIOUS
  <2>1. LogInv
    BY DEF Init, LogInv
  <2>2. \A s \in Series : LeftIn(s, late) = {} /\ ~Doomed(s) /\ faults = 0
    BY DEF Init, LeftIn, Doomed
  <2>3. QED
    BY <2>1, <2>2, FS_EmptySet DEF PaidInv
<1>2. TypeOK /\ LogInv /\ PaidInv /\ ConflictsAreForeign
        => (faults < MaxAttempts => NoCountDropped)
  <2> SUFFICES ASSUME TypeOK, LogInv, PaidInv, ConflictsAreForeign,
                      faults < MaxAttempts, NEW j \in gaveUp
               PROVE  FALSE
    BY DEF NoCountDropped
  <2>1. j \in Job /\ faults \in Nat /\ MaxAttempts \in Nat
    BY IngestAssumption DEF TypeOK
  <2> DEFINE n == Cardinality(Foreign(j[1], SeriesOf[j]))
  <2>2. n <= faults
    BY <2>1, ForeignIsPaid
  <2>3. n >= MaxAttempts
    BY DEF ConflictsAreForeign
  <2>4. n \in Nat
    <3>1. SeriesOf[j] \in Series
      BY <2>1, JobFacts
    <3>2. /\ DOMAIN log[SeriesOf[j]] = 1..Len(log[SeriesOf[j]])
          /\ Len(log[SeriesOf[j]]) \in Nat
      BY <3>1 DEF TypeOK
    <3>3. IsFiniteSet(1..Len(log[SeriesOf[j]]))
      BY <3>2, FS_Interval
    <3>4. Foreign(j[1], SeriesOf[j]) \in SUBSET (1..Len(log[SeriesOf[j]]))
      BY <3>2 DEF Foreign
    <3>5. QED
      BY <3>3, <3>4, FS_Subset, FS_CardinalityType
  <2> HIDE DEF n
  <2>5. QED
    BY <2>1, <2>2, <2>3, <2>4
<1>3. Spec => [](TypeOK /\ RefInv)
  BY RefInit, TypeInit, RefStep, TypeStep, PTL DEF Spec
<1>4. QED
  BY <1>1, <1>2, <1>3, RefStep, TypeStep, LogStep, PaidStep, LocksReleased, ConflictsOwed,
     PTL DEF Spec
=============================================================================
