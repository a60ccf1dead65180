--------------------------- MODULE Baseline_proofs ---------------------------
(***************************************************************************)
(* Proofs about Baseline, for every set of series and jobs, every cooldown *)
(* and threshold, and logs of every length.                                *)
(***************************************************************************)
EXTENDS Baseline, AlertPolicy_proofs, Sums_proofs, TLAPS

USE DEF Never

-----------------------------------------------------------------------------
(* The inductive invariant, for the stats st and the log lg of one series  *)

\* An entry that prolongs the run of normal counts.
Ordinary(e) == e.normal /\ e.ruling = "none"

\* consecutiveNormal tells the ordinary entries at the end of the log, as far
\* as the reset looks.
RunInv(st, lg) ==
    /\ st.consecutiveNormal >= 1 <=> Len(lg) >= 1 /\ Ordinary(lg[Len(lg)])
    /\ st.consecutiveNormal >= 2 <=> /\ Len(lg) >= 2
                                     /\ Ordinary(lg[Len(lg)])
                                     /\ Ordinary(lg[Len(lg) - 1])

\* The alert in force is a recorded entry with no quiet run after it.
AlertInv(st, lg) ==
    st.lastAlert # Never =>
        \E j \in 1..Len(lg) :
            /\ Recorded(lg[j].ruling)
            /\ lg[j].at = st.lastAlert
            /\ st.lastAlertMuted <=> lg[j].ruling = "mute"
            /\ ~QuietBetween(lg, j, Len(lg))

\* A recorded entry with no quiet run after it is no later than the alert in
\* force, and if it was announced, that alert is not a muted one inside its
\* cooldown.
RecordInv(st, lg) ==
    \A j \in 1..Len(lg) :
        Recorded(lg[j].ruling) =>
            \/ QuietBetween(lg, j, Len(lg))
            \/ /\ st.lastAlert # Never
               /\ lg[j].at <= st.lastAlert
               /\ st.lastAlertMuted /\ lg[j].ruling = "announce"
                    => st.lastAlert - lg[j].at >= Cooldown

\* The alert in force is not of the future.
TimeInv(st, lg) == st.lastAlert <= LastMoment(lg)

SpacedLog(lg) ==
    \A k \in 1..Len(lg) : \A j \in 1..(k - 1) :
        /\ Recorded(lg[j].ruling)
        /\ Recorded(lg[k].ruling)
        => \/ lg[k].at - lg[j].at >= Cooldown
           \/ QuietBetween(lg, j, k)
           \/ lg[j].ruling = "mute" /\ lg[k].ruling = "announce"

CausedLog(lg) ==
    \A k \in 1..Len(lg) :
        lg[k].ruling = "cooldown" =>
            \E j \in 1..(k - 1) :
                /\ Recorded(lg[j].ruling)
                /\ lg[k].at - lg[j].at < Cooldown
                /\ ~QuietBetween(lg, j, k)
                /\ lg[k].muted \/ lg[j].ruling = "announce"

SeriesInv(st, lg) ==
    /\ RunInv(st, lg)
    /\ AlertInv(st, lg)
    /\ RecordInv(st, lg)
    /\ TimeInv(st, lg)
    /\ SpacedLog(lg)
    /\ CausedLog(lg)

Inv ==
    /\ TypeOK
    /\ \A s \in Series : SeriesInv(stats[s], log[s])

-----------------------------------------------------------------------------
(* Logs *)

\* Appending keeps the entries there are and adds one.
LEMMA AppendEntries ==
    ASSUME NEW lg \in Seq(Landing), NEW e \in Landing
    PROVE  /\ Append(lg, e) \in Seq(Landing)
           /\ Len(lg) \in Nat
           /\ Len(Append(lg, e)) = Len(lg) + 1
           /\ \A i \in 1..Len(lg) : Append(lg, e)[i] = lg[i] /\ lg[i] \in Landing
           /\ Append(lg, e)[Len(lg) + 1] = e
           /\ DOMAIN Append(lg, e) = 1..(Len(lg) + 1)
           /\ DOMAIN lg = 1..Len(lg)
  OBVIOUS

\* A quiet run within a log is one within a longer log, and conversely.
LEMMA QuietPrefix ==
    ASSUME NEW lg, NEW lg2, NEW n \in Nat, NEW n2 \in Nat, n2 >= n,
           DOMAIN lg = 1..n, DOMAIN lg2 = 1..n2,
           \A i \in 1..n : lg2[i] = lg[i]
    PROVE  /\ \A m \in 1..n : QuietAt(lg2, m) <=> QuietAt(lg, m)
           /\ \A j \in 1..n, k \in 1..n :
                QuietBetween(lg2, j, k) <=> QuietBetween(lg, j, k)
<1>1. ASSUME NEW m \in 1..n
      PROVE  QuietAt(lg2, m) <=> QuietAt(lg, m)
  <2>1. (m - 2 \in DOMAIN lg2) <=> (m - 2 \in DOMAIN lg)
    OBVIOUS
  <2>2. CASE m - 2 \in DOMAIN lg
    <3>1. \A i \in (m - 2)..m : lg2[i] = lg[i]
      BY <2>2
    <3>2. \A i \in (m - 2)..(m - 1) : lg2[i] = lg[i]
      BY <2>2
    <3>3. QED
      BY <2>1, <2>2, <3>1, <3>2 DEF QuietAt
  <2>3. CASE m - 2 \notin DOMAIN lg
    BY <2>1, <2>3 DEF QuietAt
  <2>4. QED
    BY <2>2, <2>3
<1>2. ASSUME NEW j \in 1..n, NEW k \in 1..n
      PROVE  QuietBetween(lg2, j, k) <=> QuietBetween(lg, j, k)
  <2>1. \A m \in (j + 1)..k : m \in 1..n
    OBVIOUS
  <2>2. QED
    BY <2>1, <1>1 DEF QuietBetween
<1>3. QED
  BY <1>1, <1>2

-----------------------------------------------------------------------------
(* One count *)

\* What is known of a count being absorbed: the stats st and the log lg before
\* it, st2 and lg2 after, n the old length, and the locals of evaluateTrend.
Absorbs(st, lg, st2, lg2, n, normal, breached, mute, at) ==
    /\ st \in Stats /\ st2 \in Stats
    /\ n \in Nat /\ DOMAIN lg = 1..n /\ DOMAIN lg2 = 1..(n + 1)
    /\ Len(lg) = n /\ Len(lg2) = n + 1
    /\ \A i \in 1..n : lg2[i] = lg[i] /\ lg[i] \in Landing
    /\ lg2[n + 1] \in Landing
    /\ normal \in BOOLEAN /\ breached \in BOOLEAN /\ mute \in BOOLEAN
    /\ at \in Nat /\ at # Never
    /\ lg2[n + 1].at = at
    /\ lg2[n + 1].muted = mute
    /\ lg2[n + 1].normal = normal
    /\ lg2[n + 1].ruling = Ruling(st, normal, breached, mute, at)
    /\ st2.lastAlert = IF Recorded(lg2[n + 1].ruling) THEN at
                       ELSE LastAlert(st, normal)
    /\ st2.lastAlertMuted = IF Recorded(lg2[n + 1].ruling)
                            THEN lg2[n + 1].ruling = "mute"
                            ELSE LastAlertMuted(st, normal)
    /\ st2.consecutiveNormal = IF breached THEN 0
                               ELSE NormalRun(st, normal, breached)
    /\ (IF n = 0 THEN Never ELSE lg[n].at) <= at

\* The reset of evaluateTrend is the end of a quiet run.
LEMMA ResetIsQuiet ==
    ASSUME NEW st, NEW lg, NEW st2, NEW lg2, NEW n, NEW normal, NEW breached,
           NEW mute, NEW at,
           Absorbs(st, lg, st2, lg2, n, normal, breached, mute, at),
           RunInv(st, lg)
    PROVE  /\ RunInv(st2, lg2)
           /\ Resets(st, normal) <=> QuietAt(lg2, n + 1)
<1>1. /\ st \in Stats /\ n \in Nat /\ normal \in BOOLEAN /\ breached \in BOOLEAN
      /\ st.consecutiveNormal \in Nat
  BY DEF Absorbs, Stats
<1>2. breached <=> lg2[n + 1].ruling # "none"
  BY DEF Absorbs, Ruling
<1>3. RunInv(st2, lg2)
  BY <1>1, <1>2 DEF RunInv, Absorbs, NormalRun, Ordinary, Landing
<1>4. Resets(st, normal) <=> QuietAt(lg2, n + 1)
  <2>1. Resets(st, normal) <=> normal /\ st.consecutiveNormal >= 2
    BY <1>1 DEF Resets, QuietRun
  <2>2. QuietAt(lg2, n + 1) <=>
          /\ n >= 2 /\ normal
          /\ Ordinary(lg[n]) /\ Ordinary(lg[n - 1])
    <3>1. (n + 1) - 2 \in DOMAIN lg2 <=> n >= 2
      BY <1>1 DEF Absorbs
    <3>2. ASSUME n >= 2
          PROVE  /\ (\A i \in ((n + 1) - 2)..(n + 1) : lg2[i].normal)
                      <=> lg[n - 1].normal /\ lg[n].normal /\ normal
                 /\ (\A i \in ((n + 1) - 2)..((n + 1) - 1) : lg2[i].ruling = "none")
                      <=> lg[n - 1].ruling = "none" /\ lg[n].ruling = "none"
      <4>1. ((n + 1) - 2)..(n + 1) = {n - 1, n, n + 1}
        BY <1>1
      <4>2. ((n + 1) - 2)..((n + 1) - 1) = {n - 1, n}
        BY <1>1
      <4>3. lg2[n - 1] = lg[n - 1] /\ lg2[n] = lg[n] /\ lg2[n + 1].normal = normal
        BY <1>1, <3>2 DEF Absorbs
      <4>4. QED
        BY <4>1, <4>2, <4>3
    <3>3. QED
      BY <3>1, <3>2 DEF QuietAt, Ordinary
  <2>3. QED
    BY <1>1, <2>1, <2>2 DEF RunInv, Absorbs
<1>5. QED
  BY <1>3, <1>4

\* From one entry to the end of the log, a count adds a quiet run exactly when
\* it resets the alert.
LEMMA QuietStep ==
    ASSUME NEW st, NEW lg, NEW st2, NEW lg2, NEW n, NEW normal, NEW breached,
           NEW mute, NEW at,
           Absorbs(st, lg, st2, lg2, n, normal, breached, mute, at),
           RunInv(st, lg)
    PROVE  /\ \A j \in 1..n :
                QuietBetween(lg2, j, n + 1)
                  <=> QuietBetween(lg, j, n) \/ Resets(st, normal)
           /\ ~QuietBetween(lg2, n + 1, n + 1)
           /\ \A j \in 1..n, k \in 1..n :
                QuietBetween(lg2, j, k) <=> QuietBetween(lg, j, k)
<1>1. /\ n \in Nat /\ DOMAIN lg = 1..n /\ DOMAIN lg2 = 1..(n + 1)
      /\ \A i \in 1..n : lg2[i] = lg[i]
  BY DEF Absorbs
<1>2. Resets(st, normal) <=> QuietAt(lg2, n + 1)
  BY ResetIsQuiet
<1>3. /\ \A m \in 1..n : QuietAt(lg2, m) <=> QuietAt(lg, m)
      /\ \A j \in 1..n, k \in 1..n :
           QuietBetween(lg2, j, k) <=> QuietBetween(lg, j, k)
  BY <1>1, QuietPrefix
<1>4. ASSUME NEW j \in 1..n
      PROVE  QuietBetween(lg2, j, n + 1)
               <=> QuietBetween(lg, j, n) \/ Resets(st, normal)
  <2>1. (j + 1)..(n + 1) = ((j + 1)..n) \cup {n + 1}
    BY <1>1
  <2>2. \A m \in (j + 1)..n : m \in 1..n
    BY <1>1
  <2>3. QED
    BY <1>2, <1>3, <2>1, <2>2 DEF QuietBetween
<1>5. ~QuietBetween(lg2, n + 1, n + 1)
  BY <1>1 DEF QuietBetween
<1>6. QED
  BY <1>3, <1>4, <1>5

\* The invariant of a series survives a count.
LEMMA AbsorbKeepsInv ==
    ASSUME NEW st, NEW lg, NEW st2, NEW lg2, NEW n, NEW normal, NEW breached,
           NEW mute, NEW at,
           Absorbs(st, lg, st2, lg2, n, normal, breached, mute, at),
           SeriesInv(st, lg)
    PROVE  SeriesInv(st2, lg2)
<1> DEFINE r == lg2[n + 1].ruling
           last == LastAlert(st, normal)
           lastMuted == LastAlertMuted(st, normal)
<1>1. /\ n \in Nat /\ at \in Nat /\ at # Never /\ Cooldown \in Nat
      /\ normal \in BOOLEAN /\ breached \in BOOLEAN /\ mute \in BOOLEAN
      /\ st.lastAlert \in Nat /\ st.lastAlertMuted \in BOOLEAN
      /\ last \in Nat /\ lastMuted \in BOOLEAN
      /\ Len(lg) = n /\ Len(lg2) = n + 1
      /\ \A i \in 1..n : lg2[i] = lg[i] /\ lg[i].at \in Nat
  BY CooldownAssumption DEF Absorbs, Stats, LastAlert, LastAlertMuted, Landing
<1>2. /\ RunInv(st2, lg2)
      /\ Resets(st, normal) <=> QuietAt(lg2, n + 1)
  BY ResetIsQuiet DEF SeriesInv
<1>3. /\ \A j \in 1..n :
           QuietBetween(lg2, j, n + 1)
             <=> QuietBetween(lg, j, n) \/ Resets(st, normal)
      /\ ~QuietBetween(lg2, n + 1, n + 1)
      /\ \A j \in 1..n, k \in 1..n :
           QuietBetween(lg2, j, k) <=> QuietBetween(lg, j, k)
  BY QuietStep DEF SeriesInv
<1>4. /\ lg2[n + 1].at = at /\ lg2[n + 1].muted = mute
      /\ st2.lastAlert = IF Recorded(r) THEN at ELSE last
      /\ st2.lastAlertMuted = IF Recorded(r) THEN r = "mute" ELSE lastMuted
  BY DEF Absorbs
\* The three ways a breach is ruled.
<1>5. /\ r = "cooldown" => /\ last # Never
                           /\ at - last < Cooldown
                           /\ ~(lastMuted /\ ~mute)
      /\ r = "mute" => mute /\ (last # Never => at - last >= Cooldown)
      /\ r = "announce" => \/ last = Never
                           \/ at - last >= Cooldown
                           \/ lastMuted
  <2>1. r = Ruling(st, normal, breached, mute, at)
    BY DEF Absorbs
  <2>2. QED
    BY <2>1, <1>1 DEF Ruling, InCooldown
<1>6. /\ last # Never => /\ ~Resets(st, normal)
                         /\ last = st.lastAlert
                         /\ lastMuted = st.lastAlertMuted
      /\ Resets(st, normal) => last = Never
      /\ ~Resets(st, normal) => last = st.lastAlert /\ lastMuted = st.lastAlertMuted
  <2>1. CASE Resets(st, normal)
    BY <2>1 DEF LastAlert
  <2>2. CASE ~Resets(st, normal)
    <3>1. last = st.lastAlert
      BY <2>2 DEF LastAlert
    <3>2. lastMuted = st.lastAlertMuted
      BY <2>2, <1>1 DEF LastAlertMuted
    <3>3. QED
      BY <2>2, <3>1, <3>2
  <2>3. QED
    BY <2>1, <2>2
<1>7. last <= at
  <2>1. st.lastAlert <= at
    BY <1>1 DEF SeriesInv, TimeInv, LastMoment, Absorbs
  <2>2. QED
    BY <1>1, <1>6, <2>1
<1> HIDE DEF r, last, lastMuted
\* Earlier recorded entries, as they stand when the new count is ruled.
<1>8. \A j \in 1..n : Recorded(lg[j].ruling) =>
        \/ QuietBetween(lg2, j, n + 1)
        \/ /\ last # Never /\ lg[j].at <= last
           /\ lastMuted /\ lg[j].ruling = "announce" => last - lg[j].at >= Cooldown
  BY <1>1, <1>3, <1>6 DEF SeriesInv, RecordInv
<1>9. AlertInv(st2, lg2)
  <2>1. CASE Recorded(r)
    <3>1. n + 1 \in 1..Len(lg2) /\ r = lg2[n + 1].ruling
      BY <1>1 DEF r
    <3>2. lg2[n + 1].at = st2.lastAlert /\ st2.lastAlertMuted = (r = "mute")
      BY <2>1, <1>4
    <3>3. ~QuietBetween(lg2, n + 1, Len(lg2))
      BY <1>1, <1>3
    <3>4. QED
      BY <2>1, <3>1, <3>2, <3>3 DEF AlertInv
  <2>2. CASE ~Recorded(r) /\ last # Never
    <3>1. PICK j \in 1..n : /\ Recorded(lg[j].ruling)
                            /\ lg[j].at = st.lastAlert
                            /\ st.lastAlertMuted <=> lg[j].ruling = "mute"
                            /\ ~QuietBetween(lg, j, n)
      BY <2>2, <1>1, <1>6 DEF SeriesInv, AlertInv
    <3>2. ~QuietBetween(lg2, j, n + 1)
      BY <3>1, <2>2, <1>3, <1>6
    <3>3. j \in 1..(n + 1) /\ lg2[j] = lg[j]
      BY <1>1
    <3>4. QED
      BY <3>1, <3>2, <3>3, <2>2, <1>1, <1>4, <1>6 DEF AlertInv
  <2>3. CASE ~Recorded(r) /\ last = Never
    BY <2>3, <1>4 DEF AlertInv
  <2>4. QED
    BY <2>1, <2>2, <2>3
<1>10. RecordInv(st2, lg2)
  <2> SUFFICES ASSUME NEW j \in 1..(n + 1), Recorded(lg2[j].ruling),
                      ~QuietBetween(lg2, j, n + 1)
               PROVE  /\ st2.lastAlert # Never
                      /\ lg2[j].at <= st2.lastAlert
                      /\ st2.lastAlertMuted /\ lg2[j].ruling = "announce"
                           => st2.lastAlert - lg2[j].at >= Cooldown
    BY <1>1 DEF RecordInv
  <2>1. CASE j = n + 1
    <3>1. Recorded(r) /\ lg2[j].ruling = r
      BY <2>1 DEF r
    <3>2. st2.lastAlert = at /\ lg2[j].at = at /\ st2.lastAlertMuted = (r = "mute")
      BY <2>1, <3>1, <1>4
    <3>3. ~(st2.lastAlertMuted /\ lg2[j].ruling = "announce")
      BY <3>1, <3>2
    <3>4. QED
      BY <3>2, <3>3, <1>1
  <2>2. CASE j \in 1..n
    <3>1. /\ lg2[j] = lg[j] /\ lg[j].at \in Nat
          /\ last # Never /\ lg[j].at <= last
          /\ lastMuted /\ lg[j].ruling = "announce" => last - lg[j].at >= Cooldown
      BY <2>2, <1>1, <1>8
    <3>2. CASE r = "mute"
      <4>1. Recorded(r)
        BY <3>2 DEF Recorded
      <4>2. st2.lastAlert = at
        BY <4>1, <1>4
      <4>3. at - last >= Cooldown
        BY <3>1, <3>2, <1>5
      <4>4. lg2[j].at <= at /\ at - lg2[j].at >= Cooldown
        BY <3>1, <4>3, <1>1, <1>7
      <4>5. QED
        BY <4>2, <4>4, <1>1
    <3>3. CASE r = "announce"
      <4>1. Recorded(r) /\ r # "mute"
        BY <3>3 DEF Recorded
      <4>2. st2.lastAlert = at /\ ~st2.lastAlertMuted
        BY <4>1, <1>4
      <4>3. lg2[j].at <= at
        BY <3>1, <1>1, <1>7
      <4>4. QED
        BY <4>2, <4>3, <1>1
    <3>4. CASE ~Recorded(r)
      BY <3>1, <3>4, <1>4
    <3>5. QED
      BY <3>2, <3>3, <3>4 DEF Recorded
  <2>3. QED
    BY <2>1, <2>2, <1>1
<1>11. TimeInv(st2, lg2)
  <2>1. LastMoment(lg2) = at
    BY <1>1, <1>4 DEF LastMoment
  <2>2. QED
    BY <2>1, <1>1, <1>4, <1>7 DEF TimeInv
<1>12. SpacedLog(lg2)
  <2> SUFFICES ASSUME NEW k \in 1..(n + 1), NEW j \in 1..(k - 1),
                      Recorded(lg2[j].ruling), Recorded(lg2[k].ruling)
               PROVE  \/ lg2[k].at - lg2[j].at >= Cooldown
                      \/ QuietBetween(lg2, j, k)
                      \/ lg2[j].ruling = "mute" /\ lg2[k].ruling = "announce"
    BY <1>1 DEF SpacedLog
  <2>1. j \in 1..n /\ lg2[j] = lg[j] /\ lg[j].at \in Nat
    BY <1>1
  <2>2. CASE k \in 1..n
    BY <2>1, <2>2, <1>1, <1>3 DEF SeriesInv, SpacedLog
  <2>3. CASE k = n + 1 /\ ~QuietBetween(lg2, j, k)
    <3>1. /\ last # Never /\ lg[j].at <= last
          /\ lastMuted /\ lg[j].ruling = "announce" => last - lg[j].at >= Cooldown
      BY <2>1, <2>3, <1>8
    <3>2. lg2[k].ruling = r /\ lg2[k].at = at
      BY <2>3, <1>4 DEF r
    <3>3. CASE r = "mute"
      BY <2>1, <3>1, <3>2, <3>3, <1>1, <1>5
    <3>4. CASE r = "announce"
      BY <2>1, <3>1, <3>2, <3>4, <1>1, <1>5, <1>7 DEF Recorded
    <3>5. QED
      BY <3>2, <3>3, <3>4 DEF Recorded
  <2>4. QED
    BY <2>2, <2>3, <1>1
<1>13. CausedLog(lg2)
  <2> SUFFICES ASSUME NEW k \in 1..(n + 1), lg2[k].ruling = "cooldown"
               PROVE  \E j \in 1..(k - 1) :
                        /\ Recorded(lg2[j].ruling)
                        /\ lg2[k].at - lg2[j].at < Cooldown
                        /\ ~QuietBetween(lg2, j, k)
                        /\ lg2[k].muted \/ lg2[j].ruling = "announce"
    BY <1>1 DEF CausedLog
  <2>1. CASE k \in 1..n
    <3>1. PICK j \in 1..(k - 1) :
            /\ Recorded(lg[j].ruling)
            /\ lg[k].at - lg[j].at < Cooldown
            /\ ~QuietBetween(lg, j, k)
            /\ lg[k].muted \/ lg[j].ruling = "announce"
      BY <2>1, <1>1 DEF SeriesInv, CausedLog
    <3>2. j \in 1..n /\ lg2[j] = lg[j] /\ lg2[k] = lg[k]
      BY <2>1, <1>1
    <3>3. QED
      BY <2>1, <3>1, <3>2, <1>3
  <2>2. CASE k = n + 1
    <3>1. r = "cooldown" /\ lg2[k].at = at /\ lg2[k].muted = mute
      BY <2>2, <1>4 DEF r
    <3>2. last # Never /\ at - last < Cooldown /\ ~(lastMuted /\ ~mute)
      BY <3>1, <1>5
    <3>3. PICK j \in 1..n : /\ Recorded(lg[j].ruling)
                            /\ lg[j].at = st.lastAlert
                            /\ st.lastAlertMuted <=> lg[j].ruling = "mute"
                            /\ ~QuietBetween(lg, j, n)
      BY <3>2, <1>1, <1>6 DEF SeriesInv, AlertInv
    <3>4. /\ lg2[j] = lg[j] /\ j \in 1..(k - 1)
          /\ ~QuietBetween(lg2, j, k)
      BY <2>2, <3>2, <3>3, <1>1, <1>3, <1>6
    <3>5. mute \/ lg[j].ruling = "announce"
      BY <3>2, <3>3, <1>1, <1>6 DEF Recorded
    <3>6. QED
      BY <3>1, <3>2, <3>3, <3>4, <3>5, <1>6
  <2>3. QED
    BY <2>1, <2>2, <1>1
<1>14. QED
  BY <1>2, <1>9, <1>10, <1>11, <1>12, <1>13 DEF SeriesInv

-----------------------------------------------------------------------------
(* The specification *)

\* Every series starts with the invariant: no alert in force, an empty log.
LEMMA InitInv == Init => Inv
<1> SUFFICES ASSUME Init
             PROVE  Inv
  OBVIOUS
<1>1. TypeOK
  BY BaselineAssumption DEF Init, TypeOK
<1>2. ASSUME NEW s \in Series
      PROVE  SeriesInv(stats[s], log[s])
  <2>1. stats[s] = Seed /\ log[s] = <<>> /\ Len(log[s]) = 0
    BY DEF Init
  <2>2. RunInv(stats[s], log[s])
    BY <2>1, BaselineAssumption DEF RunInv
  <2>3. AlertInv(stats[s], log[s]) /\ TimeInv(stats[s], log[s])
    BY <2>1, BaselineAssumption DEF AlertInv, TimeInv, LastMoment
  <2>4. /\ RecordInv(stats[s], log[s])
        /\ SpacedLog(log[s])
        /\ CausedLog(log[s])
    BY <2>1 DEF RecordInv, SpacedLog, CausedLog
  <2>5. QED
    BY <2>2, <2>3, <2>4 DEF SeriesInv
<1>3. QED
  BY <1>1, <1>2 DEF Inv

\* What Absorb does to its series is what AbsorbKeepsInv speaks of.
LEMMA AbsorbIsAbsorbs ==
    ASSUME TypeOK, NEW j \in Job, NEW breached \in BOOLEAN,
           NEW mute \in BOOLEAN, NEW at \in Moment,
           Absorb(j, breached, mute, at)
    PROVE  LET s == SeriesOf[j] IN
           /\ s \in Series
           /\ stats' \in [Series -> Stats] /\ log' \in [Series -> Seq(Landing)]
           /\ \A z \in Series \ {s} : stats'[z] = stats[z] /\ log'[z] = log[z]
           /\ \E normal \in BOOLEAN :
                Absorbs(stats[s], log[s], stats'[s], log'[s], Len(log[s]),
                        normal, breached, mute, at)
<1> DEFINE s == SeriesOf[j]
           e == Evaluate(stats[s], CountOf[j], breached, mute, at)
<1>1. /\ s \in Series /\ CountOf[j] \in Nat /\ at \in Nat /\ at # Never
      /\ stats[s] \in Stats /\ log[s] \in Seq(Landing)
  BY BaselineAssumption DEF TypeOK
<1>2. e \in Outcomes
  BY <1>1, EvaluateType
<1>3. Follows(e, stats[s], breached, mute, at)
  BY <1>1, EvaluateFields
<1>4. /\ at >= LastMoment(log[s])
      /\ stats' = [stats EXCEPT ![s] = Stored(e.stats)]
      /\ log' = [log EXCEPT ![s] = Append(@, Landed(j, e))]
  BY DEF Absorb
<1> HIDE DEF e, s
<1>5. e.stats \in Stats
  BY <1>2 DEF Outcomes
<1>6. Landed(j, e) \in Landing
  BY <1>1, <1>3 DEF Landed, Landing, Follows
<1>7. /\ Stored(e.stats) \in Stats
      /\ Stored(e.stats).lastAlert = e.stats.lastAlert
      /\ Stored(e.stats).lastAlertMuted = e.stats.lastAlertMuted
      /\ Stored(e.stats).consecutiveNormal = e.stats.consecutiveNormal
  BY <1>5, StoredFields
<1>8. stats'[s] = Stored(e.stats) /\ log'[s] = Append(log[s], Landed(j, e))
  BY <1>1, <1>4 DEF TypeOK
<1>9. /\ log'[s] \in Seq(Landing)
      /\ Len(log[s]) \in Nat /\ Len(log'[s]) = Len(log[s]) + 1
      /\ DOMAIN log[s] = 1..Len(log[s])
      /\ DOMAIN log'[s] = 1..(Len(log[s]) + 1)
      /\ \A i \in 1..Len(log[s]) : log'[s][i] = log[s][i] /\ log[s][i] \in Landing
      /\ log'[s][Len(log[s]) + 1] = Landed(j, e)
  BY <1>1, <1>6, <1>8, AppendEntries
<1>10. /\ stats' \in [Series -> Stats] /\ log' \in [Series -> Seq(Landing)]
       /\ \A z \in Series \ {s} : stats'[z] = stats[z] /\ log'[z] = log[z]
  BY <1>1, <1>4, <1>7, <1>8, <1>9 DEF TypeOK
<1>11. (IF Len(log[s]) = 0 THEN Never ELSE log[s][Len(log[s])].at) <= at
  <2>1. CASE Len(log[s]) = 0
    BY <1>1, <2>1
  <2>2. CASE Len(log[s]) # 0
    <3>1. log[s] # <<>>
      BY <2>2
    <3>2. Len(log[s]) \in 1..Len(log[s])
      BY <2>2, <1>9
    <3>3. log[s][Len(log[s])].at \in Nat
      BY <3>2, <1>9 DEF Landing
    <3>4. QED
      BY <2>2, <3>1, <3>3, <1>1, <1>4 DEF LastMoment
  <2>3. QED
    BY <2>1, <2>2
<1>12. /\ Landed(j, e).at = at /\ Landed(j, e).muted = mute
       /\ Landed(j, e).normal = e.normal /\ Landed(j, e).ruling = e.ruling
  BY <1>3 DEF Landed, Follows
<1>13. Absorbs(stats[s], log[s], stats'[s], log'[s], Len(log[s]),
               e.normal, breached, mute, at)
  BY <1>1, <1>3, <1>6, <1>7, <1>8, <1>9, <1>11, <1>12 DEF Absorbs, Follows
<1>14. QED
  BY <1>1, <1>3, <1>10, <1>13 DEF s, Follows

\* Every step keeps the invariant.
LEMMA StepInv == Inv /\ [Next]_vars => Inv'
<1> SUFFICES ASSUME Inv, [Next]_vars
             PROVE  Inv'
  OBVIOUS
<1>1. CASE Next
  <2>1. PICK j \in Job, breached \in BOOLEAN, mute \in BOOLEAN, at \in Moment :
          Absorb(j, breached, mute, at)
    <3>1. PICK j \in Job : \E breached \in Verdicts(stats[SeriesOf[j]], CountOf[j]),
                mute \in BOOLEAN, at \in Moment : Absorb(j, breached, mute, at)
      BY <1>1 DEF Next
    <3>2. Verdicts(stats[SeriesOf[j]], CountOf[j]) \subseteq BOOLEAN
      BY VerdictType, BaselineAssumption DEF Inv, TypeOK
    <3>3. QED
      BY <3>1, <3>2
  <2> DEFINE s == SeriesOf[j]
  <2>2. PICK normal \in BOOLEAN :
          Absorbs(stats[s], log[s], stats'[s], log'[s], Len(log[s]),
                  normal, breached, mute, at)
    BY <2>1, AbsorbIsAbsorbs DEF Inv
  <2>3. /\ s \in Series
        /\ stats' \in [Series -> Stats] /\ log' \in [Series -> Seq(Landing)]
        /\ \A z \in Series \ {s} : stats'[z] = stats[z] /\ log'[z] = log[z]
    BY <2>1, AbsorbIsAbsorbs DEF Inv
  <2> HIDE DEF s
  <2>4. SeriesInv(stats'[s], log'[s])
    BY <2>2, <2>3, AbsorbKeepsInv DEF Inv
  <2>5. \A z \in Series : SeriesInv(stats'[z], log'[z])
    BY <2>3, <2>4 DEF Inv
  <2>6. QED
    BY <2>3, <2>5 DEF Inv, TypeOK
<1>2. CASE UNCHANGED vars
  BY <1>2 DEF vars, Inv, TypeOK
<1>3. QED
  BY <1>1, <1>2

\* The invariant holds for ever.
LEMMA Inductive == Spec => []Inv
<1>1. QED
  BY InitInv, StepInv, PTL DEF Spec

\* The stats stay well-formed: no counter goes below zero, and the log holds
\* landings. (models.Stats under evaluateTrend and SaveStats.)
THEOREM TypeCorrect == Spec => []TypeOK
<1>1. Inv => TypeOK
  BY DEF Inv
<1>2. QED
  BY <1>1, Inductive, PTL

\* Two recorded breaches of a series lie a cooldown apart, but for the two
\* exceptions of evaluateTrend: for every cooldown, threshold and log.
THEOREM RecordsSpaced == Spec => []RecordsAreSpaced
<1>1. ASSUME Inv
      PROVE  RecordsAreSpaced
  <2>1. ASSUME NEW s \in Series
        PROVE  SpacedLog(log[s]) /\ DOMAIN log[s] = 1..Len(log[s])
    BY <1>1 DEF Inv, SeriesInv, TypeOK
  <2>2. QED
    BY <2>1 DEF RecordsAreSpaced, SpacedLog
<1>2. QED
  BY <1>1, Inductive, PTL

\* No breach of a series is silenced without a recorded one that began the
\* cooldown, and a mute silences nothing once it is over.
THEOREM SilenceCaused == Spec => []SilenceHasCause
<1>1. ASSUME Inv
      PROVE  SilenceHasCause
  <2>1. ASSUME NEW s \in Series
        PROVE  CausedLog(log[s]) /\ DOMAIN log[s] = 1..Len(log[s])
    BY <1>1 DEF Inv, SeriesInv, TypeOK
  <2>2. QED
    BY <2>1 DEF SilenceHasCause, CausedLog
<1>2. QED
  BY <1>1, Inductive, PTL

JobsIn(lg) == {lg[k].job : k \in DOMAIN lg}

\* The square of each job's count.
SquareOf == [j \in Job |-> CountOf[j] * CountOf[j]]

\* The stats st are the seed and the counts of the jobs in the log lg.
Counted(st, lg) ==
    /\ JobsIn(lg) \subseteq Job
    /\ IsFiniteSet(JobsIn(lg))
    /\ Cardinality(JobsIn(lg)) = Len(lg)
    /\ st.version = Seed.version + Len(lg)
    /\ st.count = Seed.count + Len(lg)
    /\ st.sum = Seed.sum + SumOver(CountOf, JobsIn(lg))
    /\ st.sumsq = Seed.sumsq + SumOver(SquareOf, JobsIn(lg))

CountInv == \A s \in Series : Counted(stats[s], log[s])

\* The sums of the property are sums over functions of the job.
LEMMA SumOfCounts ==
    ASSUME NEW S \in SUBSET Job, IsFiniteSet(S)
    PROVE  /\ MapThenSumSet(LAMBDA j : CountOf[j], S) = SumOver(CountOf, S)
           /\ MapThenSumSet(LAMBDA j : CountOf[j] * CountOf[j], S) = SumOver(SquareOf, S)
<1>1. MapThenSumSet(LAMBDA j : CountOf[j], S) = SumOver(CountOf, S)
  BY DEF SumOver
<1> DEFINE IsSum(it) ==
             it = [s \in SUBSET S |->
                     IF s = {} THEN 0
                     ELSE CountOf[Pick(s)] * CountOf[Pick(s)] + it[s \ {Pick(s)}]]
           c == CHOOSE it : IsSum(it)
<1>2. MapThenSumSet(LAMBDA j : CountOf[j] * CountOf[j], S) = c[S]
  BY DEF MapThenSumSet, MapThenFoldSet, Pick
<1>3. \A it : IsSum(it) <=> IsFold(it, SquareOf, S)
  <2>1. \A s \in SUBSET S : s # {} => SquareOf[Pick(s)] = CountOf[Pick(s)] * CountOf[Pick(s)]
    BY PickType DEF SquareOf
  <2>2. QED
    BY <2>1 DEF IsFold
<1>4. IsFold(c, SquareOf, S)
  <2> HIDE DEF IsSum
  <2>1. \E it : IsSum(it)
    BY <1>3, FoldExists
  <2>2. QED
    BY <1>3, <2>1
<1> HIDE DEF c
<1>5. SumOver(SquareOf, S) = c[S]
  BY <1>4, SumOverIsAnyFold
<1>6. QED
  BY <1>1, <1>2, <1>5

\* Appending a landing of a job that has none yet adds the job.
LEMMA CountedStep ==
    ASSUME NEW st \in Stats, NEW lg \in Seq(Landing), NEW e \in Landing,
           NEW st2, Counted(st, lg), e.job \notin JobsIn(lg),
           st2.version = st.version + 1, st2.count = st.count + 1,
           st2.sum = st.sum + CountOf[e.job],
           st2.sumsq = st.sumsq + CountOf[e.job] * CountOf[e.job]
    PROVE  Counted(st2, Append(lg, e))
<1> DEFINE J == JobsIn(lg)
           lg2 == Append(lg, e)
<1>1. e.job \in Job /\ CountOf \in [Job -> Nat] /\ Seed \in Stats
  BY BaselineAssumption DEF Landing
<1>2. /\ Len(lg) \in Nat /\ Len(lg2) = Len(lg) + 1
      /\ \A i \in 1..Len(lg) : lg2[i] = lg[i]
      /\ lg2[Len(lg) + 1] = e
      /\ DOMAIN lg2 = 1..(Len(lg) + 1)
      /\ DOMAIN lg = 1..Len(lg)
  BY AppendEntries
<1>3. JobsIn(lg2) = J \cup {e.job}
  <2> HIDE DEF lg2
  <2>1. DOMAIN lg2 = DOMAIN lg \cup {Len(lg) + 1}
    BY <1>2
  <2>2. \A i \in DOMAIN lg : lg2[i] = lg[i]
    BY <1>2
  <2>3. QED
    BY <1>2, <2>1, <2>2 DEF JobsIn
<1>4. J \subseteq Job /\ IsFiniteSet(J) /\ Cardinality(J) = Len(lg) /\ e.job \notin J
  BY DEF Counted
<1>5. /\ IsFiniteSet(J \cup {e.job})
      /\ Cardinality(J \cup {e.job}) = Len(lg) + 1
  BY <1>4, FS_AddElement
<1>6. \A j \in Job : CountOf[j] \in Int /\ SquareOf[j] = CountOf[j] * CountOf[j]
                     /\ SquareOf[j] \in Int
  BY <1>1 DEF SquareOf
<1>7. \A j \in J \cup {e.job} : CountOf[j] \in Int /\ SquareOf[j] \in Int
  BY <1>1, <1>4, <1>6
<1> HIDE DEF J
<1>8. SumOver(CountOf, J \cup {e.job}) = CountOf[e.job] + SumOver(CountOf, J)
  BY <1>4, <1>7, SumAdd
<1>9. SumOver(SquareOf, J \cup {e.job})
        = CountOf[e.job] * CountOf[e.job] + SumOver(SquareOf, J)
  BY <1>1, <1>4, <1>6, <1>7, SumAdd
<1>10. SumOver(CountOf, J) \in Int /\ SumOver(SquareOf, J) \in Int
  BY <1>4, <1>7, SumInt
<1>11. /\ st.version = Seed.version + Len(lg) /\ st.count = Seed.count + Len(lg)
       /\ st.sum = Seed.sum + SumOver(CountOf, J)
       /\ st.sumsq = Seed.sumsq + SumOver(SquareOf, J)
  BY DEF Counted, J
<1>12. /\ Seed.version \in Nat /\ Seed.count \in Nat /\ Seed.sum \in Nat
       /\ Seed.sumsq \in Nat
  BY <1>1 DEF Stats
<1> HIDE DEF lg2
<1>13. /\ st2.version = Seed.version + Len(lg2) /\ st2.count = Seed.count + Len(lg2)
  <2>1. \A a, n, m, b, c \in Int : m = n + 1 /\ b = a + n /\ c = b + 1 => c = a + m
    OBVIOUS
  <2>2. Len(lg) \in Int /\ Len(lg2) \in Int /\ Len(lg2) = Len(lg) + 1
    BY <1>2
  <2>3. st2.version = st.version + 1 /\ st2.count = st.count + 1
    OBVIOUS
  <2>4. st.version \in Int /\ st.count \in Int /\ st2.version \in Int /\ st2.count \in Int
    BY <2>3 DEF Stats
  <2>5. st2.version = Seed.version + Len(lg2)
    BY ONLY <2>1, <2>2, <2>3, <2>4, <1>11, <1>12
  <2>6. st2.count = Seed.count + Len(lg2)
    BY ONLY <2>1, <2>2, <2>3, <2>4, <1>11, <1>12
  <2>7. QED
    BY <2>5, <2>6
<1>14. st2.sum = Seed.sum + SumOver(CountOf, JobsIn(lg2))
  BY <1>1, <1>3, <1>6, <1>8, <1>10, <1>11, <1>12
<1>15. st2.sumsq = Seed.sumsq + SumOver(SquareOf, JobsIn(lg2))
  <2> DEFINE sq == CountOf[e.job] * CountOf[e.job]
  <2>1. sq \in Int
    BY <1>1
  <2>2. st2.sumsq = Seed.sumsq + SumOver(SquareOf, J) + sq
    BY <1>11
  <2>3. SumOver(SquareOf, JobsIn(lg2)) = sq + SumOver(SquareOf, J)
    BY <1>3, <1>9
  <2> HIDE DEF sq
  <2>4. QED
    BY <2>1, <2>2, <2>3, <1>10, <1>12
<1>16. QED
  BY <1>1, <1>2, <1>3, <1>4, <1>5, <1>13, <1>14, <1>15 DEF Counted, lg2

\* At first the stats are the seed alone.
LEMMA CountInit == Init => CountInv
<1> SUFFICES ASSUME Init, NEW s \in Series
             PROVE  Counted(Seed, <<>>)
  BY DEF Init, CountInv
<1>1. JobsIn(<<>>) = {} /\ Len(<<>>) = 0
  BY DEF JobsIn
<1>2. /\ Seed.version \in Nat /\ Seed.count \in Nat /\ Seed.sum \in Nat
      /\ Seed.sumsq \in Nat
  BY BaselineAssumption DEF Stats
<1>3. SumOver(CountOf, {}) = 0 /\ SumOver(SquareOf, {}) = 0
  BY SumEmpty
<1>4. IsFiniteSet({}) /\ Cardinality({}) = 0
  BY FS_EmptySet
<1>5. /\ Seed.version = Seed.version + 0 /\ Seed.count = Seed.count + 0
      /\ Seed.sum = Seed.sum + 0 /\ Seed.sumsq = Seed.sumsq + 0
  BY <1>2
<1>6. /\ Seed.version = Seed.version + Len(<<>>)
      /\ Seed.count = Seed.count + Len(<<>>)
      /\ Seed.sum = Seed.sum + SumOver(CountOf, JobsIn(<<>>))
      /\ Seed.sumsq = Seed.sumsq + SumOver(SquareOf, JobsIn(<<>>))
  BY ONLY <1>1, <1>3, <1>5
<1>7. /\ JobsIn(<<>>) \subseteq Job
      /\ IsFiniteSet(JobsIn(<<>>))
      /\ Cardinality(JobsIn(<<>>)) = Len(<<>>)
  BY <1>1, <1>4
<1>8. QED
  BY ONLY <1>6, <1>7 DEF Counted

\* Every landing adds its count and no other.
LEMMA CountStep == TypeOK /\ CountInv /\ [Next]_vars => CountInv'
<1> SUFFICES ASSUME TypeOK, CountInv, [Next]_vars
             PROVE  CountInv'
  OBVIOUS
<1>1. CASE UNCHANGED vars
  BY <1>1 DEF vars, CountInv
<1>2. CASE Next
  <2>1. PICK j \in Job : /\ ~HasLanded(j)
                         /\ \E breached \in Verdicts(stats[SeriesOf[j]], CountOf[j]),
                               mute \in BOOLEAN, at \in Moment : Absorb(j, breached, mute, at)
    BY <1>2 DEF Next
  <2>2. PICK breached \in Verdicts(stats[SeriesOf[j]], CountOf[j]),
             mute \in BOOLEAN, at \in Moment : Absorb(j, breached, mute, at)
    BY <2>1
  <2> DEFINE s == SeriesOf[j]
             e == Evaluate(stats[s], CountOf[j], breached, mute, at)
  <2>3. /\ s \in Series /\ CountOf[j] \in Nat /\ at \in Nat
        /\ stats[s] \in Stats /\ log[s] \in Seq(Landing)
    BY BaselineAssumption DEF TypeOK
  <2>4. breached \in BOOLEAN
    BY <2>3, VerdictType
  <2>5. e \in Outcomes /\ Follows(e, stats[s], breached, mute, at)
    BY <2>3, <2>4, EvaluateType, EvaluateFields
  <2>6. Adds(e.stats, stats[s], CountOf[j])
    BY <2>3, <2>4, EvaluateAdds
  <2>7. /\ stats' = [stats EXCEPT ![s] = Stored(e.stats)]
        /\ log' = [log EXCEPT ![s] = Append(@, Landed(j, e))]
    BY <2>2 DEF Absorb
  <2> HIDE DEF e
  <2>8. e.stats \in Stats /\ Landed(j, e) \in Landing /\ Landed(j, e).job = j
    BY <2>3, <2>5 DEF Outcomes, Landed, Landing, Follows
  <2>9. j \notin JobsIn(log[s])
    BY <2>1 DEF HasLanded, JobsIn
  <2> HIDE DEF s
  <2>10. /\ Stored(e.stats).version = stats[s].version + 1
         /\ Stored(e.stats).count = stats[s].count + 1
         /\ Stored(e.stats).sum = stats[s].sum + CountOf[j]
         /\ Stored(e.stats).sumsq = stats[s].sumsq + CountOf[j] * CountOf[j]
    BY <2>6, <2>8, StoredFields DEF Adds
  <2>11. Counted(stats[s], log[s])
    BY <2>3 DEF CountInv
  <2>12. Counted(Stored(e.stats), Append(log[s], Landed(j, e)))
    BY <2>3, <2>8, <2>9, <2>10, <2>11, CountedStep
  <2>13. ASSUME NEW z \in Series
         PROVE  Counted(stats'[z], log'[z])
    <3>1. CASE z = s
      BY <2>3, <2>7, <2>12, <3>1 DEF TypeOK
    <3>2. CASE z # s
      <4>1. stats'[z] = stats[z] /\ log'[z] = log[z]
        BY <2>7, <3>2 DEF TypeOK
      <4>2. QED
        BY <4>1 DEF CountInv
    <3>3. QED
      BY <3>1, <3>2
  <2>14. QED
    BY <2>13 DEF CountInv
<1>3. QED
  BY <1>1, <1>2

\* The stored baseline is the seed and the landed counts, each once.
THEOREM BaselineCounted == Spec => []BaselineIsItsCounts
<1>1. CountInv => BaselineIsItsCounts
  <2> SUFFICES ASSUME CountInv, NEW s \in Series
               PROVE  LET lg == log[s]
                          jobs == {lg[k].job : k \in DOMAIN lg}
                          total(f(_)) == MapThenSumSet(f, jobs)
                      IN  /\ Cardinality(jobs) = Len(lg)
                          /\ stats[s].version = Seed.version + Len(lg)
                          /\ stats[s].count = Seed.count + Len(lg)
                          /\ stats[s].sum = Seed.sum + total(LAMBDA j : CountOf[j])
                          /\ stats[s].sumsq
                               = Seed.sumsq + total(LAMBDA j : CountOf[j] * CountOf[j])
    BY DEF BaselineIsItsCounts
  <2>1. Counted(stats[s], log[s])
    BY DEF CountInv
  <2>2. QED
    BY <2>1, SumOfCounts DEF Counted, JobsIn
<1>2. Spec => []TypeOK
  BY TypeCorrect
<1>3. QED
  BY <1>1, <1>2, CountInit, CountStep, PTL DEF Spec

-----------------------------------------------------------------------------
(* What each count was judged against *)

\* The jobs of the log before its k-th entry, and the baseline jobs make.
PastOf(lg, k) == {lg[i].job : i \in 1..(k - 1)}

BaselineOf(J) == [count |-> Seed.count + Cardinality(J),
                  sum   |-> Seed.sum + SumOver(CountOf, J),
                  sumsq |-> Seed.sumsq + SumOver(SquareOf, J)]

\* Each entry of the log was ruled as its past has it.
WellJudged(lg) ==
    \A k \in DOMAIN lg :
        lg[k].ruling # "none" <=> WarmBreach(BaselineOf(PastOf(lg, k)), CountOf[lg[k].job])

VerdictInv == Method = "z_score" => \A s \in Series : WellJudged(log[s])

\* A verdict looks at the numbers of the baseline only.
LEMMA SameVerdict ==
    ASSUME NEW b, NEW c, b.count = c.count, b.sum = c.sum, b.sumsq = c.sumsq, NEW x
    PROVE  WarmBreach(b, x) <=> WarmBreach(c, x)
  BY DEF WarmBreach, ZScoreBreach, Deviation, Spread

\* A breach is what is not ruled "none", whatever becomes of it.
LEMMA RulingOfBreach ==
    ASSUME NEW old, NEW normal, NEW breached \in BOOLEAN, NEW mute \in BOOLEAN, NEW at
    PROVE  Ruling(old, normal, breached, mute, at) # "none" <=> breached
<1>1. CASE ~breached
  BY <1>1 DEF Ruling
<1>2. CASE breached
  <2>1. InCooldown(old, normal, mute, at) \in BOOLEAN
    BY DEF InCooldown
  <2>2. Ruling(old, normal, breached, mute, at) \in {"cooldown", "mute", "announce"}
    BY <1>2, <2>1 DEF Ruling
  <2>3. QED
    BY <1>2, <2>2
<1>3. QED
  BY <1>1, <1>2

\* A landing that is ruled as the log before it has it keeps the log well judged.
LEMMA JudgedStep ==
    ASSUME NEW st \in Stats, NEW lg \in Seq(Landing), NEW e \in Landing,
           WellJudged(lg), Counted(st, lg),
           e.ruling # "none" <=> WarmBreach(st, CountOf[e.job])
    PROVE  WellJudged(Append(lg, e))
<1> DEFINE lg2 == Append(lg, e)
           n == Len(lg)
<1>1. /\ n \in Nat /\ DOMAIN lg = 1..n /\ DOMAIN lg2 = 1..(n + 1)
      /\ \A i \in 1..n : lg2[i] = lg[i]
      /\ lg2[n + 1] = e
  BY AppendEntries
<1> HIDE DEF lg2, n
<1>2. \A k \in 1..(n + 1) : \A i \in 1..(k - 1) : i \in 1..n /\ lg2[i] = lg[i]
  BY <1>1
<1>3. \A k \in 1..(n + 1) : PastOf(lg2, k) = PastOf(lg, k)
  BY <1>2 DEF PastOf
<1>4. PastOf(lg, n + 1) = JobsIn(lg)
  <2>1. (n + 1) - 1 = n
    BY <1>1
  <2>2. QED
    BY <1>1, <2>1 DEF PastOf, JobsIn
<1>5. WarmBreach(BaselineOf(JobsIn(lg)), CountOf[e.job]) <=> WarmBreach(st, CountOf[e.job])
  <2>1. /\ BaselineOf(JobsIn(lg)).count = st.count
        /\ BaselineOf(JobsIn(lg)).sum = st.sum
        /\ BaselineOf(JobsIn(lg)).sumsq = st.sumsq
    BY DEF BaselineOf, Counted
  <2>2. QED
    BY <2>1, SameVerdict
<1>6. ASSUME NEW k \in 1..(n + 1)
      PROVE  lg2[k].ruling # "none"
               <=> WarmBreach(BaselineOf(PastOf(lg2, k)), CountOf[lg2[k].job])
  <2>1. CASE k = n + 1
    BY <1>1, <1>3, <1>4, <1>5, <2>1
  <2>2. CASE k # n + 1
    <3>1. k \in DOMAIN lg /\ lg2[k] = lg[k]
      BY <1>1, <2>2
    <3>2. QED
      BY <1>3, <3>1 DEF WellJudged
  <2>3. QED
    BY <2>1, <2>2
<1>7. QED
  BY <1>1, <1>6 DEF WellJudged, lg2

\* A landing is judged against the stats, which are the counts before it.
LEMMA VerdictStep == TypeOK /\ CountInv /\ VerdictInv /\ [Next]_vars => VerdictInv'
<1> SUFFICES ASSUME TypeOK, CountInv, VerdictInv, [Next]_vars, Method = "z_score"
             PROVE  \A z \in Series : WellJudged(log'[z])
  BY DEF VerdictInv
<1>1. CASE UNCHANGED vars
  BY <1>1 DEF vars, VerdictInv
<1>2. CASE Next
  <2>1. PICK j \in Job : /\ ~HasLanded(j)
                         /\ \E breached \in Verdicts(stats[SeriesOf[j]], CountOf[j]),
                               mute \in BOOLEAN, at \in Moment : Absorb(j, breached, mute, at)
    BY <1>2 DEF Next
  <2>2. PICK breached \in Verdicts(stats[SeriesOf[j]], CountOf[j]),
             mute \in BOOLEAN, at \in Moment : Absorb(j, breached, mute, at)
    BY <2>1
  <2> DEFINE s == SeriesOf[j]
             e == Evaluate(stats[s], CountOf[j], breached, mute, at)
  <2>3. /\ s \in Series /\ CountOf[j] \in Nat /\ at \in Nat
        /\ stats[s] \in Stats /\ log[s] \in Seq(Landing)
    BY BaselineAssumption DEF TypeOK
  <2>4. breached \in BOOLEAN /\ breached = WarmBreach(stats[s], CountOf[j])
    BY <2>3, VerdictType DEF Verdicts
  <2>5. e \in Outcomes /\ Follows(e, stats[s], breached, mute, at)
    BY <2>3, <2>4, EvaluateType, EvaluateFields
  <2>6. log' = [log EXCEPT ![s] = Append(@, Landed(j, e))]
    BY <2>2 DEF Absorb
  <2> HIDE DEF e
  <2>7. /\ Landed(j, e) \in Landing /\ Landed(j, e).job = j
        /\ Landed(j, e).ruling = e.ruling
    BY <2>3, <2>5 DEF Outcomes, Landed, Landing, Follows
  <2>8. e.ruling # "none" <=> breached
    <3>1. e.ruling = Ruling(stats[s], e.normal, breached, mute, at)
      BY <2>5 DEF Follows
    <3> HIDE DEF s
    <3>2. QED
      BY <2>4, <3>1, RulingOfBreach
  <2> HIDE DEF s
  <2>9. Landed(j, e).ruling # "none" <=> WarmBreach(stats[s], CountOf[Landed(j, e).job])
    BY <2>4, <2>7, <2>8
  <2>10. WellJudged(log[s]) /\ Counted(stats[s], log[s])
    BY <2>3 DEF VerdictInv, CountInv
  <2>11. WellJudged(Append(log[s], Landed(j, e)))
    BY <2>3, <2>7, <2>9, <2>10, JudgedStep
  <2>12. ASSUME NEW z \in Series
         PROVE  WellJudged(log'[z])
    <3>1. CASE z = s
      BY <2>3, <2>6, <2>11, <3>1 DEF TypeOK
    <3>2. CASE z # s
      <4>1. log'[z] = log[z]
        BY <2>6, <3>2 DEF TypeOK
      <4>2. QED
        BY <4>1 DEF VerdictInv
    <3>3. QED
      BY <3>1, <3>2
  <2>13. QED
    BY <2>12
<1>3. QED
  BY <1>1, <1>2

\* Under z_score every verdict is the one of the counts landed before, in
\* whatever order they came. (evaluateTrend.)
THEOREM VerdictsPast == Spec => []VerdictsAreOfThePast
<1>1. Init => VerdictInv
  BY DEF Init, VerdictInv, WellJudged
<1>2. TypeOK /\ CountInv /\ VerdictInv => VerdictsAreOfThePast
  <2> SUFFICES ASSUME TypeOK, CountInv, VerdictInv, Method = "z_score",
                      NEW s \in Series, NEW k \in DOMAIN log[s]
               PROVE  LET lg == log[s]
                          past == {lg[i].job : i \in 1..(k - 1)}
                          total(f(_)) == MapThenSumSet(f, past)
                          b == [count |-> Seed.count + Cardinality(past),
                                sum   |-> Seed.sum + total(LAMBDA j : CountOf[j]),
                                sumsq |-> Seed.sumsq
                                            + total(LAMBDA j : CountOf[j] * CountOf[j])]
                      IN  lg[k].ruling # "none" <=> WarmBreach(b, CountOf[lg[k].job])
    BY DEF VerdictsAreOfThePast
  <2> DEFINE past == {log[s][i].job : i \in 1..(k - 1)}
  <2>1. past \subseteq JobsIn(log[s])
    <3>1. log[s] \in Seq(Landing)
      BY DEF TypeOK
    <3>2. Len(log[s]) \in Nat /\ DOMAIN log[s] = 1..Len(log[s])
      BY <3>1
    <3>3. 1..(k - 1) \subseteq DOMAIN log[s]
      BY <3>2
    <3>4. QED
      BY <3>3 DEF JobsIn
  <2>2. past \in SUBSET Job /\ IsFiniteSet(past)
    <3>1. JobsIn(log[s]) \subseteq Job /\ IsFiniteSet(JobsIn(log[s]))
      BY DEF CountInv, Counted
    <3> HIDE DEF past
    <3>2. QED
      BY <2>1, <3>1, FS_Subset
  <2>3. /\ MapThenSumSet(LAMBDA j : CountOf[j], past) = SumOver(CountOf, past)
        /\ MapThenSumSet(LAMBDA j : CountOf[j] * CountOf[j], past) = SumOver(SquareOf, past)
    <3> HIDE DEF past
    <3> QED BY <2>2, SumOfCounts
  <2>4. log[s][k].ruling # "none"
          <=> WarmBreach(BaselineOf(past), CountOf[log[s][k].job])
    BY DEF VerdictInv, WellJudged, PastOf
  <2>5. QED
    BY <2>3, <2>4 DEF BaselineOf
<1>3. QED
  BY <1>1, <1>2, VerdictStep, CountInit, CountStep, TypeCorrect, PTL DEF Spec

-----------------------------------------------------------------------------
(* The variance *)

SpreadInv == \A s \in Series : Spread(stats[s]) >= 0

\* The variance of no series is ever negative, so that no standard deviation
\* is undefined and no z-score is NaN, which compares with nothing; if that is
\* so of the stats of earlier traffic. (StatTracker.Variance, StdDev, ZScore.)
THEOREM VarianceNeverNegative ==
    ASSUME Spread(Seed) >= 0
    PROVE  Spec => []SpreadInv
<1>1. Init => SpreadInv
  BY DEF Init, SpreadInv
<1>2. TypeOK /\ SpreadInv /\ [Next]_vars => SpreadInv'
  <2> SUFFICES ASSUME TypeOK, SpreadInv, [Next]_vars
               PROVE  SpreadInv'
    OBVIOUS
  <2>1. CASE UNCHANGED vars
    BY <2>1 DEF vars, SpreadInv, Spread
  <2>2. CASE Next
    <3>0. PICK j \in Job : \E breached \in Verdicts(stats[SeriesOf[j]], CountOf[j]),
                              mute \in BOOLEAN, at \in Moment : Absorb(j, breached, mute, at)
      BY <2>2 DEF Next
    <3>1. PICK breached \in Verdicts(stats[SeriesOf[j]], CountOf[j]),
               mute \in BOOLEAN, at \in Moment : Absorb(j, breached, mute, at)
      BY <3>0
    <3> DEFINE s == SeriesOf[j]
               e == Evaluate(stats[s], CountOf[j], breached, mute, at)
    <3>2. /\ s \in Series /\ CountOf[j] \in Nat /\ at \in Nat
          /\ stats[s] \in Stats /\ stats \in [Series -> Stats]
      BY BaselineAssumption DEF TypeOK
    <3>3. breached \in BOOLEAN
      BY <3>2, VerdictType
    <3>4. e.stats \in Stats /\ Adds(e.stats, stats[s], CountOf[j])
      BY <3>2, <3>3, EvaluateType, EvaluateAdds DEF Outcomes
    <3>5. stats' = [stats EXCEPT ![s] = Stored(e.stats)]
      BY <3>1 DEF Absorb
    <3> HIDE DEF e, s
    <3>6. /\ Stored(e.stats).count = Update(stats[s], CountOf[j]).count
          /\ Stored(e.stats).sum = Update(stats[s], CountOf[j]).sum
          /\ Stored(e.stats).sumsq = Update(stats[s], CountOf[j]).sumsq
      BY <3>4, StoredFields DEF Adds, Update
    <3>7. Spread(Stored(e.stats)) = Spread(Update(stats[s], CountOf[j]))
      BY <3>6 DEF Spread
    <3>8. IsBaseline(stats[s]) /\ Spread(stats[s]) >= 0
      BY <3>2 DEF IsBaseline, Stats, SpreadInv
    <3>9. Spread(Stored(e.stats)) >= 0
      BY <3>2, <3>7, <3>8, SpreadStep
    <3>10. ASSUME NEW z \in Series
           PROVE  Spread(stats'[z]) >= 0
      BY <3>2, <3>5, <3>9 DEF SpreadInv
    <3>11. QED
      BY <3>10 DEF SpreadInv, Spread
  <2>3. QED
    BY <2>1, <2>2
<1>3. QED
  BY <1>1, <1>2, TypeCorrect, PTL DEF Spec
=============================================================================
