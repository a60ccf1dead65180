---------------------------- MODULE Reads_proofs -----------------------------
(***************************************************************************)
(* Proofs about the readers of entries, for any entries, requests, window  *)
(* and limit: what a series' history and its tracker hold when a point is  *)
(* judged, what the answer of a replay says of the breaches, and that the  *)
(* views of the dashboard tell of the same counts.                         *)
(***************************************************************************)
EXTENDS Replay, Dashboard, Sums_proofs, SequenceTheorems

\* The stream is taken in its order, and current is the last entry of it.
ScanInv ==
    /\ stored \in Histories /\ request \in Requests
    /\ received \subseteq Scan
    /\ \A k \in received, j \in Scan : j <= k => j \in received
    /\ received # {} => current \in received
    /\ received = {} => todo = {}
    /\ \A k \in received : k <= current
    /\ todo \subseteq TypesIn(current)
    /\ phase = "answered" => todo = {} /\ received = Scan
    /\ phase # "scanning" => todo = {}

\* The count of type t of entry k has been judged or skipped.
Done(k, t) == k \in received /\ t \in TypesIn(k) /\ ~(k = current /\ t \in todo)

\* A series' history holds what was judged, but for what is too old already.
HistoryInv ==
    method = "percentage_delta" =>
        /\ history \in [Series -> SUBSET received]
        /\ \A s \in Series : \A h \in history[s] : h \in Bearing(received, s) /\ Done(h, s[2])
        /\ \A s \in Series : Selected(s[2]) => \A h \in Bearing(received, s) :
              Done(h, s[2]) => h \in history[s] \/ TimeOf(h) < TimeOf(current) - Window

\* What the reader knows of the stored entries.
LEMMA Stored ==
    ASSUME stored \in Histories
    PROVE  /\ Len(stored) \in Nat /\ Index = 1..Len(stored)
           /\ \A k \in Index : /\ TimeOf(k) \in Nat
                               /\ TypesIn(k) \subseteq PIIType /\ TypesIn(k) # {}
                               /\ \A t \in TypesIn(k) : SeriesOf(k, t) \in Series
           /\ \A j, k \in Index : j <= k => TimeOf(j) <= TimeOf(k)
<1>1. IsStream(stored)
  BY ReplayAssumption
<1>2. Len(stored) \in Nat /\ Index = 1..Len(stored) /\ \A k \in Index : IsEntry(stored[k])
  BY <1>1 DEF IsStream, Index
<1>3. \A k \in Index : /\ TimeOf(k) \in Nat
                       /\ TypesIn(k) \subseteq PIIType /\ TypesIn(k) # {}
                       /\ \A t \in TypesIn(k) : SeriesOf(k, t) \in Series
  <2> SUFFICES ASSUME NEW k \in Index
               PROVE  /\ TimeOf(k) \in Nat
                      /\ TypesIn(k) \subseteq PIIType /\ TypesIn(k) # {}
                      /\ \A t \in TypesIn(k) : SeriesOf(k, t) \in Series
    OBVIOUS
  <2>1. IsEntry(stored[k])
    BY <1>2
  <2>2. TypesIn(k) \in (SUBSET PIIType) \ {{}}
    BY <2>1 DEF IsEntry, TypesIn
  <2>3. TypesIn(k) \subseteq PIIType /\ TypesIn(k) # {}
    BY <2>2
  <2>4. TimeOf(k) \in Nat /\ stored[k].origin \in Origin
    BY <2>1 DEF IsEntry, TimeOf
  <2>5. QED
    BY <2>3, <2>4 DEF SeriesOf, Series
<1>4. ASSUME NEW j \in Index, NEW k \in Index, j <= k
      PROVE  TimeOf(j) <= TimeOf(k)
  <2>1. CASE j = k
    BY <1>3, <2>1
  <2>2. CASE j < k
    BY <1>1, <2>2 DEF IsStream, Index, TimeOf
  <2>3. QED
    BY <1>2, <1>4, <2>1, <2>2
<1>5. QED
  BY <1>2, <1>3, <1>4

\* The counts of a type, and their squares, as functions of the entry.
CountsOf(t) == [k \in Index |-> stored[k].counts[t]]
SquaresOf(t) == [k \in Index |-> stored[k].counts[t] * stored[k].counts[t]]

\* The sums of Entries are sums of these functions.
LEMMA SumOfIsSum ==
    ASSUME NEW t, NEW S \in SUBSET Index, IsFiniteSet(S)
    PROVE  SumOf(S, t) = SumOver(CountsOf(t), S)
<1> DEFINE IsSum(it) ==
             it = [s \in SUBSET S |->
                     IF s = {} THEN 0 ELSE stored[Pick(s)].counts[t] + it[s \ {Pick(s)}]]
           c == CHOOSE it : IsSum(it)
<1>1. SumOf(S, t) = c[S]
  BY DEF SumOf, SumIn, MapThenSumSet, MapThenFoldSet, Pick
<1>2. \A it : IsSum(it) <=> IsFold(it, CountsOf(t), S)
  <2>1. \A s \in SUBSET S : s # {} => CountsOf(t)[Pick(s)] = stored[Pick(s)].counts[t]
    BY PickType DEF CountsOf
  <2>2. QED
    BY <2>1 DEF IsFold
<1>3. IsFold(c, CountsOf(t), S)
  <2> HIDE DEF IsSum
  <2>1. \E it : IsSum(it)
    BY <1>2, FoldExists
  <2>2. QED
    BY <1>2, <2>1
<1> HIDE DEF c
<1>4. QED
  BY <1>1, <1>3, SumOverIsAnyFold

\* ... of their squares likewise.
LEMMA SumOfSquaresIsSum ==
    ASSUME NEW t, NEW S \in SUBSET Index, IsFiniteSet(S)
    PROVE  SumOfSquares(S, t) = SumOver(SquaresOf(t), S)
<1> DEFINE IsSum(it) ==
             it = [s \in SUBSET S |->
                     IF s = {} THEN 0
                     ELSE stored[Pick(s)].counts[t] * stored[Pick(s)].counts[t]
                            + it[s \ {Pick(s)}]]
           c == CHOOSE it : IsSum(it)
<1>1. SumOfSquares(S, t) = c[S]
  BY DEF SumOfSquares, SquaresIn, MapThenSumSet, MapThenFoldSet, Pick
<1>2. \A it : IsSum(it) <=> IsFold(it, SquaresOf(t), S)
  <2>1. \A s \in SUBSET S : s # {} =>
            SquaresOf(t)[Pick(s)] = stored[Pick(s)].counts[t] * stored[Pick(s)].counts[t]
    BY PickType DEF SquaresOf
  <2>2. QED
    BY <2>1 DEF IsFold
<1>3. IsFold(c, SquaresOf(t), S)
  <2> HIDE DEF IsSum
  <2>1. \E it : IsSum(it)
    BY <1>2, FoldExists
  <2>2. QED
    BY <1>2, <2>1
<1> HIDE DEF c
<1>4. QED
  BY <1>1, <1>3, SumOverIsAnyFold

\* The entries of S count t.
Counting(S, t) == S \subseteq Index /\ \A k \in S : t \in TypesIn(k)

\* Over entries that count a type both sums are natural numbers, and one more
\* entry adds its count.
LEMMA SumsOfCounting ==
    ASSUME stored \in Histories, NEW t, NEW S, Counting(S, t)
    PROVE  /\ IsFiniteSet(S)
           /\ SumOf(S, t) \in Nat /\ SumOfSquares(S, t) \in Nat
           /\ \A k \in Index \ S : t \in TypesIn(k) =>
                 /\ SumOf(S \cup {k}, t) = SumOf(S, t) + stored[k].counts[t]
                 /\ SumOfSquares(S \cup {k}, t) =
                      SumOfSquares(S, t) + stored[k].counts[t] * stored[k].counts[t]
                 /\ Cardinality(S \cup {k}) = Cardinality(S) + 1
<1>1. IsFiniteSet(Index)
  BY Stored, FS_Interval
<1>2. IsFiniteSet(S)
  BY <1>1, FS_Subset DEF Counting
<1>3. ASSUME NEW k \in Index, t \in TypesIn(k)
      PROVE  CountsOf(t)[k] \in Nat /\ SquaresOf(t)[k] \in Nat
  <2>1. IsStream(stored)
    BY ReplayAssumption
  <2>2. stored[k].counts[t] \in Nat
    BY <1>3, <2>1 DEF IsStream, IsEntry, Index, TypesIn
  <2>3. stored[k].counts[t] * stored[k].counts[t] \in Nat
    BY <2>2
  <2>4. QED
    BY <2>2, <2>3 DEF CountsOf, SquaresOf
<1>4. \A k \in S : CountsOf(t)[k] \in Nat /\ SquaresOf(t)[k] \in Nat
  BY <1>3 DEF Counting
<1>5. /\ SumOf(S, t) = SumOver(CountsOf(t), S)
      /\ SumOfSquares(S, t) = SumOver(SquaresOf(t), S)
  BY <1>2, SumOfIsSum, SumOfSquaresIsSum DEF Counting
<1>6. SumOver(CountsOf(t), S) \in Nat /\ SumOver(SquaresOf(t), S) \in Nat
  BY <1>2, <1>4, SumNat
<1>7. ASSUME NEW k \in Index \ S, t \in TypesIn(k)
      PROVE  /\ SumOf(S \cup {k}, t) = SumOf(S, t) + stored[k].counts[t]
             /\ SumOfSquares(S \cup {k}, t) =
                  SumOfSquares(S, t) + stored[k].counts[t] * stored[k].counts[t]
             /\ Cardinality(S \cup {k}) = Cardinality(S) + 1
  <2>1. IsFiniteSet(S \cup {k}) /\ Cardinality(S \cup {k}) = Cardinality(S) + 1
    BY <1>2, FS_AddElement
  <2>2. /\ SumOf(S \cup {k}, t) = SumOver(CountsOf(t), S \cup {k})
        /\ SumOfSquares(S \cup {k}, t) = SumOver(SquaresOf(t), S \cup {k})
    BY <2>1, SumOfIsSum, SumOfSquaresIsSum DEF Counting
  <2>3. \A h \in S \cup {k} : CountsOf(t)[h] \in Int /\ SquaresOf(t)[h] \in Int
    BY <1>3, <1>4, <1>7
  <2>4. /\ SumOver(CountsOf(t), S \cup {k}) = CountsOf(t)[k] + SumOver(CountsOf(t), S)
        /\ SumOver(SquaresOf(t), S \cup {k}) = SquaresOf(t)[k] + SumOver(SquaresOf(t), S)
    BY <1>2, <2>3, SumAdd
  <2>5. /\ CountsOf(t)[k] = stored[k].counts[t]
        /\ SquaresOf(t)[k] = stored[k].counts[t] * stored[k].counts[t]
    BY DEF CountsOf, SquaresOf
  <2>6. \A a, b \in Int : a + b = b + a
    OBVIOUS
  <2>7. CountsOf(t)[k] \in Int /\ SquaresOf(t)[k] \in Int
    BY <1>3, <1>7
  <2>8. /\ CountsOf(t)[k] + SumOver(CountsOf(t), S) = SumOver(CountsOf(t), S) + CountsOf(t)[k]
        /\ SquaresOf(t)[k] + SumOver(SquaresOf(t), S)
             = SumOver(SquaresOf(t), S) + SquaresOf(t)[k]
    BY ONLY <1>6, <2>6, <2>7
  <2>9. QED
    BY <2>1, <2>2, <2>4, <2>5, <2>8, <1>5
<1>8. QED
  BY <1>2, <1>5, <1>6, <1>7

\* The stream is taken in order, and the windows keep what they must.
LEMMA ScanStep ==
    ASSUME ScanInv, [Next]_vars
    PROVE  /\ ScanInv'
           /\ UNCHANGED <<stored, method, request>>
<1>1. UNCHANGED <<stored, method, request>>
  BY DEF Next, Answer400, GetEntries, Answer200, Stop, Receive, Skip, JudgeZScore,
         JudgePercentage, vars
<1>2. Scan' = Scan /\ \A k : TypesIn(k)' = TypesIn(k)
  BY <1>1 DEF Scan, Index, InRange, TimeOf, TypesIn
<1>3. Scan \subseteq Nat
  BY Stored DEF ScanInv, Scan
<1>4. ASSUME NEW k \in Index, Receive(k)
      PROVE  ScanInv'
  <2>1. k \in Scan \ received /\ received' = received \cup {k} /\ current' = k
        /\ todo' = TypesIn(k) /\ phase = "scanning" /\ phase' = phase
        /\ \A j \in Scan \ received : k <= j
    BY <1>4 DEF Receive
  <2>2. \A j \in received : j <= k
    BY <1>3, <2>1 DEF ScanInv
  <2>3. \A m \in received', j \in Scan : j <= m => j \in received'
    BY <1>3, <2>1, <2>2 DEF ScanInv
  <2>4. \A m \in received' : m <= k
    BY <1>3, <2>1, <2>2
  <2>5. todo' \subseteq TypesIn(current)'
    BY <1>2, <2>1 DEF TypesIn
  <2>6. QED
    BY <1>1, <1>2, <2>1, <2>3, <2>4, <2>5 DEF ScanInv
<1>5. ASSUME NEW t \in PIIType, Skip(t) \/ JudgeZScore(t) \/ JudgePercentage(t)
      PROVE  ScanInv'
  <2>1. UNCHANGED <<phase, received, current>> /\ todo' = todo \ {t} /\ t \in todo
    BY <1>5 DEF Skip, JudgeZScore, JudgePercentage
  <2>2. TypesIn(current)' = TypesIn(current)
    BY <1>1, <2>1 DEF TypesIn
  <2>3. QED
    BY <1>1, <1>2, <2>1, <2>2 DEF ScanInv
<1>6. ASSUME Answer400 \/ GetEntries \/ Answer200 \/ Stop \/ UNCHANGED vars
      PROVE  ScanInv'
  <2>1. UNCHANGED <<received, current, todo>>
    BY <1>6 DEF Answer400, GetEntries, Answer200, Stop, vars
  <2>2. phase' # "scanning" => todo = {}
    BY <1>6 DEF Answer400, GetEntries, Answer200, Stop, vars, ScanInv
  <2>3. phase' = "answered" => todo = {} /\ received = Scan
    BY <1>6 DEF Answer400, GetEntries, Answer200, Stop, vars, ScanInv
  <2>4. TypesIn(current)' = TypesIn(current)
    BY <1>1, <2>1 DEF TypesIn
  <2>5. QED
    BY <1>1, <1>2, <2>1, <2>2, <2>3, <2>4 DEF ScanInv
<1>7. QED
  BY <1>1, <1>4, <1>5, <1>6 DEF Next

\* A judgement leaves a point done; so does a skip; a new entry has none done.
LEMMA DoneStep ==
    ASSUME ScanInv, [Next]_vars
    PROVE  /\ \A k \in Index : Receive(k) =>
                /\ \A h \in Index, t \in PIIType : Done(h, t)' <=> Done(h, t)
                /\ \A h \in received : h < k
           /\ \A t \in PIIType : Skip(t) \/ JudgeZScore(t) \/ JudgePercentage(t) =>
                \A h \in Index, u \in PIIType :
                   Done(h, u)' <=> Done(h, u) \/ (h = current /\ u = t)
           /\ Answer400 \/ GetEntries \/ Answer200 \/ Stop \/ UNCHANGED vars =>
                \A h \in Index, t \in PIIType : Done(h, t)' <=> Done(h, t)
<1>0. UNCHANGED <<stored, method, request>> /\ Scan \subseteq Nat
  BY ScanStep, Stored DEF ScanInv, Scan
<1>1. \A k : TypesIn(k)' = TypesIn(k)
  BY <1>0 DEF TypesIn
<1>2. ASSUME NEW k \in Index, Receive(k)
      PROVE  /\ \A h \in Index, t \in PIIType : Done(h, t)' <=> Done(h, t)
             /\ \A h \in received : h < k
  <2>1. /\ todo = {} /\ k \in Scan \ received /\ received' = received \cup {k}
        /\ current' = k /\ todo' = TypesIn(k)
    BY <1>2 DEF Receive
  <2>2. \A h \in received : h < k
    BY <1>0, <2>1 DEF ScanInv
  <2>3. ASSUME NEW h \in Index, NEW t \in PIIType
        PROVE  Done(h, t)' <=> Done(h, t)
    BY <1>1, <2>1 DEF Done, TypesIn
  <2>4. QED
    BY <2>2, <2>3
<1>3. ASSUME NEW t \in PIIType, Skip(t) \/ JudgeZScore(t) \/ JudgePercentage(t),
             NEW h \in Index, NEW u \in PIIType
      PROVE  Done(h, u)' <=> Done(h, u) \/ (h = current /\ u = t)
  <2>1. UNCHANGED <<received, current>> /\ todo' = todo \ {t} /\ t \in todo
    BY <1>3 DEF Skip, JudgeZScore, JudgePercentage
  <2>2. current \in received /\ t \in TypesIn(current)
    BY <2>1 DEF ScanInv
  <2>3. QED
    BY <1>0, <2>1, <2>2 DEF Done, TypesIn
<1>4. ASSUME Answer400 \/ GetEntries \/ Answer200 \/ Stop \/ UNCHANGED vars,
             NEW h \in Index, NEW t \in PIIType
      PROVE  Done(h, t)' <=> Done(h, t)
  <2>1. UNCHANGED <<received, current, todo>>
    BY <1>4 DEF Answer400, GetEntries, Answer200, Stop, vars
  <2>2. QED
    BY <1>0, <2>1 DEF Done, TypesIn
<1>5. QED
  BY <1>2, <1>3, <1>4

\* A point cuts its own history down and no other.
LEMMA HistoryStep ==
    ASSUME ScanInv, HistoryInv, [Next]_vars
    PROVE  HistoryInv'
<1> SUFFICES ASSUME method = "percentage_delta"
             PROVE  HistoryInv'
  BY ScanStep DEF HistoryInv
<1>0. UNCHANGED <<stored, method, request>> /\ ScanInv' /\ received \subseteq Index
  BY ScanStep DEF ScanInv, Scan
<1>1. /\ \A k \in Index : TimeOf(k) \in Nat /\ k \in Nat
      /\ \A j, k \in Index : j <= k => TimeOf(j) <= TimeOf(k)
      /\ \A k \in Index : \A t \in TypesIn(k) : t \in PIIType /\ SeriesOf(k, t) \in Series
      /\ Window \in Nat
  BY Stored, ReplayAssumption DEF ScanInv
<1>2. \A s \in Series : s[2] \in PIIType
  BY DEF Series
<1>3. \A S, s : Bearing(S, s) = {k \in S : s[2] \in TypesIn(k) /\ SeriesOf(k, s[2]) = s}
  BY DEF Bearing
<1>4. ASSUME NEW k \in Index, Receive(k)
      PROVE  HistoryInv'
  <2>1. received' = received \cup {k} /\ current' = k /\ history' = history /\ k \notin received
    BY <1>4 DEF Receive
  <2>2. \A h \in Index, t \in PIIType : Done(h, t)' <=> Done(h, t)
    BY <1>4, DoneStep
  <2>3. \A h \in received : h < k /\ TimeOf(h) <= TimeOf(k)
    BY <1>0, <1>1, <1>4, DoneStep
  <2>4. history' \in [Series -> SUBSET received']
    BY <2>1 DEF HistoryInv
  <2>5. ASSUME NEW s \in Series, NEW h \in history'[s]
        PROVE  h \in Bearing(received, s)' /\ Done(h, s[2])'
    <3>1. h \in Bearing(received, s) /\ Done(h, s[2]) /\ h \in Index
      BY <1>0, <2>1, <2>5 DEF HistoryInv
    <3>2. QED
      BY <1>0, <1>2, <2>1, <2>2, <3>1 DEF Bearing, TypesIn, SeriesOf
  <2>6. ASSUME NEW s \in Series, Selected(s[2])', NEW h \in Bearing(received, s)', Done(h, s[2])'
        PROVE  h \in history'[s] \/ TimeOf(h)' < TimeOf(current)' - Window
    <3>1. h \in received' /\ h \in Index /\ Done(h, s[2])
      BY <1>0, <1>2, <1>4, <2>1, <2>2, <2>6 DEF Bearing
    <3>2. h \in received /\ h \in Bearing(received, s) /\ Selected(s[2])
      BY <1>0, <2>6, <3>1 DEF Done, Bearing, TypesIn, SeriesOf, Selected
    <3>3. h \in history[s] \/ TimeOf(h) < TimeOf(current) - Window
      BY <3>1, <3>2 DEF HistoryInv
    <3>4. current \in received /\ TimeOf(current) <= TimeOf(k)
      BY <2>3, <3>2 DEF ScanInv
    <3>5. TimeOf(h)' = TimeOf(h) /\ TimeOf(current)' = TimeOf(k)
      BY <1>0, <2>1 DEF TimeOf
    <3>6. QED
      BY <1>0, <1>1, <2>1, <3>1, <3>3, <3>4, <3>5
  <2>7. QED
    BY <2>4, <2>5, <2>6 DEF HistoryInv
<1>5. ASSUME NEW t \in PIIType, Skip(t)
      PROVE  HistoryInv'
  <2>1. UNCHANGED <<received, current, history>> /\ t \in todo /\ ~Selected(t)
    BY <1>5 DEF Skip
  <2>2. \A h \in Index, u \in PIIType : Done(h, u)' <=> Done(h, u) \/ (h = current /\ u = t)
    BY <1>5, DoneStep
  <2>3. ASSUME NEW s \in Series, NEW h \in history'[s]
        PROVE  h \in Bearing(received, s)' /\ Done(h, s[2])'
    <3>1. h \in Bearing(received, s) /\ Done(h, s[2]) /\ h \in Index
      BY <1>0, <2>1, <2>3 DEF HistoryInv
    <3>2. QED
      BY <1>0, <1>2, <2>1, <2>2, <3>1 DEF Bearing, TypesIn, SeriesOf
  <2>4. ASSUME NEW s \in Series, Selected(s[2])', NEW h \in Bearing(received, s)', Done(h, s[2])'
        PROVE  h \in history'[s] \/ TimeOf(h)' < TimeOf(current)' - Window
    <3>1. Selected(s[2]) /\ h \in Bearing(received, s) /\ h \in Index
      BY <1>0, <2>1, <2>4 DEF Bearing, TypesIn, SeriesOf, Selected
    <3>2. Done(h, s[2])
      BY <1>2, <2>1, <2>2, <2>4, <3>1
    <3>3. h \in history[s] \/ TimeOf(h) < TimeOf(current) - Window
      BY <3>1, <3>2 DEF HistoryInv
    <3>4. QED
      BY <1>0, <2>1, <3>3 DEF TimeOf
  <2>5. QED
    BY <1>0, <2>1, <2>3, <2>4 DEF HistoryInv
<1>6. ASSUME NEW t \in PIIType, JudgePercentage(t)
      PROVE  HistoryInv'
  <2> DEFINE c == SeriesOf(current, t)
  <2>1. UNCHANGED <<received, current>> /\ t \in todo /\ Selected(t)
        /\ history' = [history EXCEPT ![c] = Kept(c) \cup {current}]
    BY <1>6 DEF JudgePercentage
  <2>2. \A h \in Index, u \in PIIType : Done(h, u)' <=> Done(h, u) \/ (h = current /\ u = t)
    BY <1>6, DoneStep
  <2>3. current \in received /\ t \in TypesIn(current) /\ c \in Series /\ c[2] = t
    BY <1>0, <1>1, <2>1 DEF ScanInv, SeriesOf
  <2>4. Kept(c) \subseteq history[c]
    BY DEF Kept
  <2>5. history' \in [Series -> SUBSET received']
    BY <2>1, <2>3, <2>4 DEF HistoryInv
  <2>6. \A s \in Series : history'[s] = IF s = c THEN Kept(c) \cup {current} ELSE history[s]
    BY <2>1 DEF HistoryInv
  <2> HIDE DEF c
  <2>7. ASSUME NEW s \in Series, NEW h \in history'[s]
        PROVE  h \in Bearing(received, s)' /\ Done(h, s[2])'
    <3>1. CASE h \in history[s]
      <4>1. h \in Bearing(received, s) /\ Done(h, s[2]) /\ h \in Index
        BY <1>0, <3>1 DEF HistoryInv
      <4>2. QED
        BY <1>0, <1>2, <2>1, <2>2, <4>1 DEF Bearing, TypesIn, SeriesOf
    <3>2. CASE s = c /\ h = current
      <4>1. Done(h, s[2])'
        BY <1>0, <2>2, <2>3, <3>2
      <4>2. h \in Bearing(received, s)'
        BY <1>0, <2>1, <2>3, <3>2 DEF Bearing, TypesIn, SeriesOf, c
      <4>3. QED
        BY <4>1, <4>2
    <3>3. QED
      BY <2>4, <2>6, <2>7, <3>1, <3>2
  <2>8. ASSUME NEW s \in Series, Selected(s[2])', NEW h \in Bearing(received, s)', Done(h, s[2])'
        PROVE  h \in history'[s] \/ TimeOf(h)' < TimeOf(current)' - Window
    <3>1. Selected(s[2]) /\ h \in Bearing(received, s) /\ h \in Index
      BY <1>0, <2>1, <2>8 DEF Bearing, TypesIn, SeriesOf, Selected
    <3>2. CASE Done(h, s[2])
      <4>1. h \in history[s] \/ TimeOf(h) < TimeOf(current) - Window
        BY <3>1, <3>2 DEF HistoryInv
      <4>2. h \in history[s] => h \in history'[s] \/ TimeOf(h) < TimeOf(current) - Window
        <5>1. TimeOf(h) \in Nat /\ TimeOf(current) \in Nat
          BY <1>0, <1>1, <2>3, <3>1
        <5>2. h \in history[s] /\ s = c => h \in Kept(c) \/ TimeOf(h) < TimeOf(current) - Window
          BY <1>1, <5>1 DEF Kept
        <5>3. QED
          BY <2>6, <5>2
      <4>3. QED
        BY <1>0, <2>1, <4>1, <4>2 DEF TimeOf
    <3>3. CASE ~Done(h, s[2])
      <4>1. h = current /\ s[2] = t
        BY <1>2, <2>2, <2>8, <3>1, <3>3
      <4>2. s = c
        BY <3>1, <4>1 DEF Bearing, c
      <4>3. QED
        BY <2>6, <4>1, <4>2
    <3>4. QED
      BY <3>2, <3>3
  <2>9. QED
    BY <2>5, <2>7, <2>8 DEF HistoryInv
<1>7. ASSUME Answer400 \/ GetEntries \/ Answer200 \/ Stop \/ UNCHANGED vars
      PROVE  HistoryInv'
  <2>1. UNCHANGED <<received, current, todo, history>>
    BY <1>7 DEF Answer400, GetEntries, Answer200, Stop, vars
  <2>2. QED
    BY <1>0, <2>1 DEF HistoryInv, Bearing, Done, TypesIn, SeriesOf, Selected, TimeOf
<1>8. \A t \in PIIType : ~JudgeZScore(t)
  BY DEF JudgeZScore
<1>9. QED
  BY <1>4, <1>5, <1>6, <1>7, <1>8 DEF Next

\* Both hold throughout.
LEMMA ReplayInductive == Spec => [](ScanInv /\ HistoryInv)
<1>1. Init => ScanInv /\ HistoryInv
  <2> SUFFICES ASSUME Init
               PROVE  ScanInv /\ HistoryInv
    OBVIOUS
  <2>1. ScanInv
    BY DEF Init, ScanInv
  <2>2. HistoryInv
    BY DEF Init, HistoryInv, Done, Bearing
  <2>3. QED
    BY <2>1, <2>2
<1>2. ScanInv /\ HistoryInv /\ [Next]_vars => ScanInv' /\ HistoryInv'
  BY ScanStep, HistoryStep
<1>3. QED
  BY <1>1, <1>2, PTL DEF Spec

\* A point that is judged is compared with the points of its series in its
\* window, no more and no fewer.
LEMMA KeptIsLookback ==
    ASSUME ScanInv, HistoryInv, method = "percentage_delta",
           NEW t \in todo, Selected(t)
    PROVE  Kept(SeriesOf(current, t)) = Lookback(current, t)
<1> DEFINE s == SeriesOf(current, t)
<1>0. /\ received \subseteq Scan /\ Scan \subseteq Index /\ Index \subseteq Nat
      /\ current \in received /\ t \in TypesIn(current)
      /\ \A k \in Index : TimeOf(k) \in Nat
      /\ Window \in Nat
  BY Stored, ReplayAssumption DEF ScanInv, Scan
<1>1. s \in Series /\ s[2] = t
  BY <1>0, Stored DEF ScanInv, SeriesOf
<1> HIDE DEF s
<1>2. ASSUME NEW h \in Kept(s)
      PROVE  h \in Lookback(current, t)
  <2>1. h \in history[s] /\ TimeOf(h) >= TimeOf(current) - Window
    BY DEF Kept
  <2>2. h \in Bearing(received, s) /\ Done(h, t)
    BY <1>1, <2>1 DEF HistoryInv
  <2>3. h \in received /\ h # current
    BY <2>2 DEF Done
  <2>4. h < current
    BY <1>0, <2>3 DEF ScanInv
  <2>5. QED
    BY <1>0, <2>1, <2>2, <2>4 DEF Lookback, Earlier, Bearing, s
<1>3. ASSUME NEW h \in Lookback(current, t)
      PROVE  h \in Kept(s)
  <2>1. h \in Bearing(Scan, s) /\ h < current /\ TimeOf(h) >= TimeOf(current) - Window
    BY DEF Lookback, Earlier, s
  <2>2. h \in received
    BY <1>0, <2>1 DEF ScanInv, Bearing
  <2>3. h \in Bearing(received, s) /\ Done(h, t)
    BY <1>0, <1>1, <2>1, <2>2 DEF Bearing, Done
  <2>4. h \in history[s]
    BY <1>0, <1>1, <2>1, <2>2, <2>3 DEF HistoryInv
  <2>5. QED
    BY <2>1, <2>4 DEF Kept
<1>4. QED
  BY <1>2, <1>3 DEF s

\* However points are skipped and ordered, pruning loses no point that a later
\* one's window still holds.
THEOREM WindowsExact == Spec => []WindowsAreExact
<1>1. ScanInv /\ HistoryInv => WindowsAreExact
  BY KeptIsLookback DEF WindowsAreExact
<1>2. QED
  BY <1>1, ReplayInductive, PTL

-----------------------------------------------------------------------------
(* Running baselines                                                        *)

\* The entries of a series that have been judged.
Judged(s) == {h \in Bearing(received, s) : Done(h, s[2])}

Tracker == [count : Nat, sum : Nat, sumsq : Nat]

\* A selected series' tracker is the baseline of what was judged of it.
TrackerInv ==
    /\ trackers \in [Series -> Tracker]
    /\ method = "z_score" =>
          /\ history = [s \in Series |-> {}]
          /\ \A s \in Series : Selected(s[2]) => trackers[s] = BaselineOf(Judged(s), s[2])

\* BaselineOf over the entries h.
BaselineIn(h, S, t) == [count |-> Cardinality(S), sum |-> SumIn(h, S, t),
                        sumsq |-> SquaresIn(h, S, t)]

\* BaselineIn, at the stored entries.
LEMMA BaselineOfStored ==
    ASSUME NEW S, NEW t
    PROVE  BaselineOf(S, t) = BaselineIn(stored, S, t)
  BY DEF BaselineOf, BaselineIn, SumOf, SumOfSquares

\* Before a point is judged, what was judged of its series is what came earlier.
LEMMA JudgedIsEarlier ==
    ASSUME ScanInv, NEW t \in todo
    PROVE  /\ SeriesOf(current, t) \in Series
           /\ Judged(SeriesOf(current, t)) = Earlier(current, t)
           /\ current \notin Earlier(current, t)
<1> DEFINE s == SeriesOf(current, t)
<1>1. /\ current \in received /\ current \in Index /\ t \in TypesIn(current)
      /\ received \subseteq Scan /\ Scan \subseteq Index /\ Index \subseteq Nat
  BY Stored DEF ScanInv, Scan
<1>2. s \in Series /\ s[2] = t
  BY <1>1, Stored DEF ScanInv, SeriesOf
<1> HIDE DEF s
<1>3. ASSUME NEW h \in Judged(s)
      PROVE  h \in Earlier(current, t)
  <2>1. h \in Bearing(received, s) /\ Done(h, t)
    BY <1>2 DEF Judged
  <2>2. h \in received /\ h # current
    BY <2>1 DEF Done
  <2>3. h <= current
    BY <2>2 DEF ScanInv
  <2>4. h < current
    BY <1>1, <2>2, <2>3
  <2>5. h \in Bearing(Scan, s)
    BY <1>1, <2>1 DEF Bearing
  <2>6. QED
    BY <2>4, <2>5 DEF Earlier, s
<1>4. ASSUME NEW h \in Earlier(current, t)
      PROVE  h \in Judged(s)
  <2>1. h \in Bearing(Scan, s) /\ h < current
    BY DEF Earlier, s
  <2>2. h \in Scan /\ h \in Nat /\ current \in Nat
    BY <1>1, <2>1 DEF Bearing
  <2>3. h \in received /\ h # current
    BY <1>1, <2>1, <2>2 DEF ScanInv
  <2>4. QED
    BY <1>2, <2>1, <2>3 DEF Judged, Bearing, Done
<1>5. current \notin Earlier(current, t)
  BY <1>1 DEF Earlier
<1>6. QED
  BY <1>2, <1>3, <1>4, <1>5 DEF s

\* What was judged of a series are entries that count its type.
LEMMA JudgedCounts ==
    ASSUME ScanInv, NEW s \in Series
    PROVE  Counting(Judged(s), s[2])
  BY DEF Counting, Judged, Bearing, ScanInv, Scan

\* A tracker stays one of natural numbers.
LEMMA TrackerTypeStep ==
    ASSUME ScanInv, trackers \in [Series -> Tracker], [Next]_vars
    PROVE  trackers' \in [Series -> Tracker]
<1>1. ASSUME NEW t \in PIIType, JudgeZScore(t)
      PROVE  trackers' \in [Series -> Tracker]
  <2> DEFINE s == SeriesOf(current, t)
             x == stored[current].counts[t]
  <2>1. /\ trackers' = [trackers EXCEPT ![s] = Trend!Update(trackers[s], x)]
        /\ t \in todo
    BY <1>1 DEF JudgeZScore
  <2>2. current \in Index /\ t \in TypesIn(current)
    BY <2>1 DEF ScanInv, Scan
  <2>3. s \in Series
    BY <2>1, JudgedIsEarlier
  <2>4. trackers[s] \in Tracker
    BY <2>3
  <2>5. x \in Nat
    <3>1. IsStream(stored)
      BY ReplayAssumption DEF ScanInv
    <3>2. IsEntry(stored[current])
      BY <2>2, <3>1 DEF IsStream, Index
    <3>3. QED
      BY <2>2, <3>2 DEF IsEntry, TypesIn
  <2> HIDE DEF s, x
  <2>6. x * x \in Nat
    BY <2>5
  <2>7. Trend!Update(trackers[s], x) \in Tracker
    BY <2>4, <2>5, <2>6 DEF Trend!Update, Tracker
  <2>8. QED
    BY <2>1, <2>7
<1>2. ASSUME NEW t \in PIIType, Skip(t) \/ JudgePercentage(t)
      PROVE  trackers' = trackers
  BY <1>2 DEF Skip, JudgePercentage
<1>3. ASSUME \/ \E k \in Index : Receive(k)
             \/ Answer400 \/ GetEntries \/ Answer200 \/ Stop \/ UNCHANGED vars
      PROVE  trackers' = trackers
  BY <1>3 DEF Receive, Answer400, GetEntries, Answer200, Stop, vars
<1>4. QED
  BY <1>1, <1>2, <1>3 DEF Next

\* Judging a point adds it to its tracker, and nothing else does.
LEMMA TrackerStep ==
    ASSUME ScanInv, TrackerInv, [Next]_vars
    PROVE  TrackerInv'
<1>0. UNCHANGED <<stored, method, request>> /\ ScanInv'
  BY ScanStep
<1>1. SUFFICES ASSUME method = "z_score"
               PROVE  /\ history' = [s \in Series |-> {}]
                      /\ \A s \in Series : Selected(s[2]) =>
                            trackers'[s] = BaselineIn(stored, Judged(s)', s[2])
  <2>1. ASSUME NEW s
        PROVE  BaselineOf(Judged(s), s[2])' = BaselineIn(stored', Judged(s)', s[2])
    BY DEF BaselineOf, BaselineIn, SumOf, SumOfSquares
  <2>2. \A t : Selected(t)' <=> Selected(t)
    BY <1>0 DEF Selected
  <2>3. trackers' \in [Series -> Tracker]
    BY TrackerTypeStep DEF TrackerInv
  <2>4. QED
    BY <1>0, <2>1, <2>2, <2>3 DEF TrackerInv
<1>2. /\ history = [s \in Series |-> {}]
      /\ \A s \in Series : Selected(s[2]) => trackers[s] = BaselineIn(stored, Judged(s), s[2])
  BY <1>1, BaselineOfStored DEF TrackerInv
<1>3. \A s \in Series : s[2] \in PIIType
  BY DEF Series
<1>4. /\ \A R, s : Bearing(R, s)' = Bearing(R', s)
      /\ \A R, s : Bearing(R, s) \subseteq R
  BY <1>0 DEF Bearing, TypesIn, SeriesOf
<1>5. received \subseteq Index
  BY DEF ScanInv, Scan
\* What judges nothing.
<1>6. ASSUME UNCHANGED <<trackers, history>>, received' \subseteq Index,
             \A s \in Series : Selected(s[2]) => Judged(s)' = Judged(s)
      PROVE  /\ history' = [s \in Series |-> {}]
             /\ \A s \in Series : Selected(s[2]) =>
                   trackers'[s] = BaselineIn(stored, Judged(s)', s[2])
  BY <1>2, <1>6
<1>7. ASSUME NEW k \in Index, Receive(k)
      PROVE  /\ history' = [s \in Series |-> {}]
             /\ \A s \in Series : Selected(s[2]) =>
                   trackers'[s] = BaselineIn(stored, Judged(s)', s[2])
  <2>1. UNCHANGED <<trackers, history>> /\ received' = received \cup {k} /\ k \notin received
    BY <1>7 DEF Receive
  <2>2. \A h \in Index, t \in PIIType : Done(h, t)' <=> Done(h, t)
    BY <1>7, DoneStep
  <2>3. ~\E t : Done(k, t)
    BY <2>1 DEF Done
  <2>4. \A s \in Series : Judged(s)' = Judged(s)
    <3> TAKE s \in Series
    <3>1. Judged(s)' = {h \in Bearing(received, s)' : Done(h, s[2])'}
      BY DEF Judged
    <3>2. Bearing(received, s)' = {h \in received \cup {k} : s[2] \in TypesIn(h) /\ SeriesOf(h, s[2]) = s}
      BY <1>0, <2>1 DEF Bearing, TypesIn, SeriesOf
    <3>3. QED
      BY <1>3, <1>5, <2>2, <2>3, <3>1, <3>2 DEF Judged, Bearing
  <2>5. QED
    BY <1>5, <1>6, <2>1, <2>4
<1>8. ASSUME NEW t \in PIIType, Skip(t)
      PROVE  /\ history' = [s \in Series |-> {}]
             /\ \A s \in Series : Selected(s[2]) =>
                   trackers'[s] = BaselineIn(stored, Judged(s)', s[2])
  <2>1. UNCHANGED <<trackers, history, received>> /\ ~Selected(t)
    BY <1>8 DEF Skip
  <2>2. \A h \in Index, u \in PIIType : Done(h, u)' <=> Done(h, u) \/ (h = current /\ u = t)
    BY <1>8, DoneStep
  <2>3. \A s \in Series : Selected(s[2]) => Judged(s)' = Judged(s)
    <3> SUFFICES ASSUME NEW s \in Series, Selected(s[2])
                 PROVE  Judged(s)' = Judged(s)
      OBVIOUS
    <3>1. Judged(s)' = {h \in Bearing(received, s)' : Done(h, s[2])'}
      BY DEF Judged
    <3>2. Bearing(received, s)' = Bearing(received, s)
      BY <1>0, <2>1 DEF Bearing, TypesIn, SeriesOf
    <3>3. \A h \in Bearing(received, s) : Done(h, s[2])' <=> Done(h, s[2])
      BY <1>3, <1>4, <1>5, <2>1, <2>2
    <3>4. QED
      BY <3>1, <3>2, <3>3 DEF Judged
  <2>4. QED
    BY <1>5, <1>6, <2>1, <2>3
<1>9. ASSUME NEW t \in PIIType, JudgeZScore(t)
      PROVE  /\ history' = [s \in Series |-> {}]
             /\ \A s \in Series : Selected(s[2]) =>
                   trackers'[s] = BaselineIn(stored, Judged(s)', s[2])
  <2>0. t \in todo
    BY <1>9 DEF JudgeZScore
  <2> PICK z \in Series : z = SeriesOf(current, t)
    BY <2>0, JudgedIsEarlier
  <2> DEFINE x == stored[current].counts[t]
             J == Judged(z)
  <2>1. /\ t \in todo /\ Selected(t) /\ UNCHANGED <<received, history>>
        /\ trackers' = [trackers EXCEPT ![z] = Trend!Update(trackers[z], x)]
    BY <1>9 DEF JudgeZScore
  <2>2. z \in Series /\ current \notin J
    BY <2>1, JudgedIsEarlier
  <2>3. current \in received /\ current \in Index /\ t \in TypesIn(current) /\ z[2] = t
    BY <1>5, <2>1 DEF ScanInv, SeriesOf
  <2>4. \A h \in Index, u \in PIIType : Done(h, u)' <=> Done(h, u) \/ (h = current /\ u = t)
    BY <1>9, DoneStep
  <2>5. \A s \in Series : Judged(s)' = {h \in Bearing(received, s) :
                                           Done(h, s[2]) \/ (h = current /\ s[2] = t)}
    <3> TAKE s \in Series
    <3>1. Judged(s)' = {h \in Bearing(received, s)' : Done(h, s[2])'}
      BY DEF Judged
    <3>2. Bearing(received, s)' = Bearing(received, s)
      BY <1>0, <2>1 DEF Bearing, TypesIn, SeriesOf
    <3>3. QED
      BY <1>3, <1>4, <1>5, <2>4, <3>1, <3>2
  <2>6. ASSUME NEW s \in Series, Selected(s[2]), s # z
        PROVE  trackers'[s] = BaselineIn(stored, Judged(s)', s[2])
    <3>1. s[2] = t => current \notin Bearing(received, s)
      BY <2>6 DEF Bearing
    <3>2. Judged(s)' = Judged(s)
      BY <2>5, <3>1 DEF Judged
    <3>3. trackers'[s] = trackers[s]
      BY <2>1, <2>6
    <3>4. QED
      BY <1>2, <2>6, <3>2, <3>3
  <2>7. current \in Bearing(received, z)
    BY <2>3 DEF Bearing
  <2>8. Judged(z)' = J \cup {current}
    <3>1. Judged(z)' = {h \in Bearing(received, z) : Done(h, z[2]) \/ h = current}
      BY <2>2, <2>3, <2>5
    <3>2. QED
      BY <2>7, <3>1 DEF Judged
  <2>9. Counting(J, t)
    BY <2>2, <2>3, JudgedCounts
  <2>10. trackers[z] = BaselineIn(stored, J, t)
    BY <1>2, <2>1, <2>2, <2>3
  <2>11. /\ SumOf(J \cup {current}, t) = SumOf(J, t) + x
         /\ SumOfSquares(J \cup {current}, t) = SumOfSquares(J, t) + x * x
         /\ Cardinality(J \cup {current}) = Cardinality(J) + 1
    BY <2>2, <2>3, <2>9, SumsOfCounting DEF ScanInv
  <2> HIDE DEF J, x
  <2>12. BaselineOf(J \cup {current}, t) = Trend!Update(BaselineOf(J, t), x)
    BY <2>11 DEF BaselineOf, Trend!Update
  <2>13. trackers'[z] = Trend!Update(trackers[z], x)
    BY <1>9, <2>1, <2>2 DEF TrackerInv
  <2>14. trackers'[z] = BaselineIn(stored, Judged(z)', z[2])
    BY <2>3, <2>8, <2>10, <2>12, <2>13, BaselineOfStored
  <2>15. history' = [s \in Series |-> {}]
    BY <1>2, <2>1
  <2>16. QED
    BY <2>6, <2>14, <2>15
<1>10. ASSUME \/ \E t \in PIIType : JudgePercentage(t)
              \/ Answer400 \/ GetEntries \/ Answer200 \/ Stop \/ UNCHANGED vars
       PROVE  /\ history' = [s \in Series |-> {}]
              /\ \A s \in Series : Selected(s[2]) =>
                    trackers'[s] = BaselineIn(stored, Judged(s)', s[2])
  <2>1. ~\E t \in PIIType : JudgePercentage(t)
    BY <1>1 DEF JudgePercentage
  <2>2. UNCHANGED <<received, trackers, history>>
    BY <1>10, <2>1 DEF Answer400, GetEntries, Answer200, Stop, vars
  <2>3. \A h \in Index, t \in PIIType : Done(h, t)' <=> Done(h, t)
    BY <1>10, <2>1, DoneStep
  <2>4. \A s \in Series : Judged(s)' = Judged(s)
    <3> TAKE s \in Series
    <3>1. Judged(s)' = {h \in Bearing(received, s)' : Done(h, s[2])'}
      BY DEF Judged
    <3>2. Bearing(received, s)' = Bearing(received, s)
      BY <1>0, <2>2 DEF Bearing, TypesIn, SeriesOf
    <3>3. QED
      BY <1>3, <1>4, <1>5, <2>3, <3>1, <3>2 DEF Judged
  <2>5. QED
    BY <1>5, <1>6, <2>2, <2>4
<1>11. QED
  BY <1>7, <1>8, <1>9, <1>10 DEF Next

-----------------------------------------------------------------------------
(* The answer                                                               *)

DetailsInv ==
    /\ found \in Seq(Nat \X PIIType)
    /\ details \in Seq(Detail)
    /\ DetailsAreTheFirst
    /\ truncated => MaxDetails > 0

\* What is found so far are the breaches among what is done.
BreachInv ==
    /\ \A i \in DOMAIN found : found[i] \in Scan \X PIIType
    /\ \A k \in Scan : \A t \in PIIType :
          (\E i \in DOMAIN found : found[i] = <<k, t>>)
             <=> Done(k, t) /\ Selected(t) /\ IsBreach(k, t)
    /\ \A i, j \in DOMAIN found : found[i] = found[j] => i = j

PointsInv == points = Cardinality(received)

\* A judgement reports a breach just when there is one.
LEMMA JudgeReports ==
    ASSUME ScanInv, HistoryInv, TrackerInv, NEW t \in PIIType,
           JudgeZScore(t) \/ JudgePercentage(t)
    PROVE  \E total \in Nat, n \in Nat : Report(t, IsBreach(current, t), total, n)
<1> DEFINE s == SeriesOf(current, t)
<1>0. /\ current \in received /\ current \in Index /\ t \in TypesIn(current) /\ t \in todo
      /\ Selected(t) /\ s \in Series /\ s[2] = t
  <2>1. t \in todo /\ Selected(t)
    BY DEF JudgeZScore, JudgePercentage
  <2>2. current \in received /\ current \in Index /\ t \in TypesIn(current)
    BY <2>1 DEF ScanInv, Scan
  <2>3. QED
    BY <2>1, <2>2, Stored DEF ScanInv, SeriesOf
<1>1. CASE JudgeZScore(t)
  <2> DEFINE b == trackers[s]
  <2>1. /\ method = "z_score"
        /\ Report(t, Trend!WarmBreach(b, stored[current].counts[t]), b.sum, b.count)
    BY <1>1 DEF JudgeZScore
  <2>2. b.sum \in Nat /\ b.count \in Nat
    BY <1>0 DEF TrackerInv, Tracker
  <2>3. b = BaselineOf(Judged(s), t)
    BY <1>0, <2>1 DEF TrackerInv
  <2>4. Judged(s) = Earlier(current, t)
    BY <1>0, JudgedIsEarlier
  <2> HIDE DEF b, s
  <2>5. IsBreach(current, t) = Trend!WarmBreach(b, stored[current].counts[t])
    BY <2>1, <2>3, <2>4 DEF IsBreach
  <2>6. QED
    BY <2>1, <2>2, <2>5
<1>2. CASE JudgePercentage(t)
  <2> DEFINE total == SumOf(Kept(s), t)
             n == Cardinality(Kept(s))
             breached == n > 0 /\ Trend!PercentageBreach(total, n, stored[current].counts[t])
  <2>1. Report(t, breached, total, n) /\ method = "percentage_delta"
    BY <1>2 DEF JudgePercentage
  <2>2. Kept(s) = Lookback(current, t)
    BY <1>0, <2>1, KeptIsLookback
  <2>3. Counting(Kept(s), t)
    BY <1>0, <2>2 DEF Lookback, Earlier, Bearing, Scan, SeriesOf, Counting
  <2>4. IsFiniteSet(Kept(s)) /\ total \in Nat
    BY <2>3, SumsOfCounting DEF ScanInv
  <2>5. n \in Nat /\ (n > 0 <=> Kept(s) # {})
    BY <2>4, FS_CardinalityType, FS_EmptySet
  <2>6. IsBreach(current, t) = breached
    BY <2>1, <2>2, <2>5 DEF IsBreach
  <2> HIDE DEF breached, total, n
  <2>7. QED
    BY <2>1, <2>4, <2>5, <2>6
<1>3. QED
  BY <1>1, <1>2

\* The list and the flag agree with the total after every report.
LEMMA ReportKeeps ==
    ASSUME DetailsInv, current \in Nat, NEW t \in PIIType,
           NEW breached \in BOOLEAN, NEW total \in Nat, NEW n \in Nat,
           Report(t, breached, total, n)
    PROVE  /\ found' = IF breached THEN Append(found, <<current, t>>) ELSE found
           /\ found' \in Seq(Nat \X PIIType)
           /\ details' \in Seq(Detail)
           /\ DetailsAreTheFirst'
           /\ truncated' => MaxDetails > 0
<1>1. found' = IF breached THEN Append(found, <<current, t>>) ELSE found
  BY DEF Report
<1>2. CASE ~breached
  BY <1>1, <1>2 DEF Report, DetailsInv, DetailsAreTheFirst
<1>3. CASE breached
  <2> DEFINE d == [at |-> current, type |-> t, total |-> total, n |-> n]
             p == <<current, t>>
  <2>1. d \in Detail /\ p \in Nat \X PIIType /\ d.at = current /\ d.type = t
    BY DEF Detail
  <2>2. /\ found \in Seq(Nat \X PIIType) /\ details \in Seq(Detail)
        /\ Len(found) \in Nat /\ Len(details) \in Nat
        /\ DOMAIN found = 1..Len(found) /\ DOMAIN details = 1..Len(details)
    BY LenProperties DEF DetailsInv
  <2>3. virtual' = virtual + 1 /\ found' = Append(found, p)
    BY <1>3 DEF Report
  <2>4. /\ found' \in Seq(Nat \X PIIType) /\ Len(found') = Len(found) + 1
        /\ \A i \in 1..Len(found) : found'[i] = found[i]
        /\ found'[Len(found) + 1] = p
    BY <2>1, <2>2, <2>3, AppendProperties
  <2>5. CASE MaxDetails > 0 /\ Len(details) >= MaxDetails
    <3>1. truncated' = TRUE /\ details' = details
      BY <1>3, <2>5 DEF Report
    <3>2. \A i \in DOMAIN details' : <<details'[i].at, details'[i].type>> = found'[i]
      BY <2>2, <2>4, <3>1 DEF DetailsInv, DetailsAreTheFirst
    <3>3. DetailsAreTheFirst'
      <4>1. /\ virtual = Len(found) /\ Len(details) <= Len(found)
            /\ MaxDetails > 0 => Len(details) <= MaxDetails
        BY DEF DetailsInv, DetailsAreTheFirst
      <4>2. virtual' = Len(found') /\ Len(details') < Len(found') /\ Len(details') <= Len(found')
        BY <2>2, <2>3, <2>4, <3>1, <4>1
      <4>3. Len(details') = MaxDetails /\ Len(details') <= MaxDetails
        <5>1. Len(details) \in Nat /\ MaxDetails \in Nat /\ details' = details
          BY <2>2, <3>1, ReplayAssumption
        <5>2. Len(details) = MaxDetails
          BY <2>5, <4>1, <5>1
        <5>3. QED
          BY <5>1, <5>2
      <4>4. QED
        BY <3>1, <3>2, <4>2, <4>3 DEF DetailsAreTheFirst
    <3>4. QED
      BY <1>1, <2>2, <2>4, <2>5, <3>1, <3>3
  <2>6. CASE ~(MaxDetails > 0 /\ Len(details) >= MaxDetails)
    <3>1. truncated' = truncated /\ details' = Append(details, d)
      BY <1>3, <2>6 DEF Report
    <3> HIDE DEF d
    <3>2. /\ details' \in Seq(Detail) /\ Len(details') = Len(details) + 1
          /\ DOMAIN details' = 1..(Len(details) + 1)
          /\ \A i \in 1..Len(details) : details'[i] = details[i]
          /\ details'[Len(details) + 1] = d
      BY <2>1, <2>2, <3>1, AppendProperties, LenProperties
    <3>3. ~truncated /\ Len(details) = Len(found)
      <4>1. ASSUME truncated
            PROVE  FALSE
        <5>1. MaxDetails > 0 /\ Len(details) = MaxDetails
          BY <4>1 DEF DetailsInv, DetailsAreTheFirst
        <5>2. QED
          BY <2>2, <2>6, <5>1, ReplayAssumption
      <4>2. ~(Len(details) < Len(found)) /\ Len(details) <= Len(found)
        BY <4>1 DEF DetailsInv, DetailsAreTheFirst
      <4>3. Len(details) \in Nat /\ Len(found) \in Nat
        BY <2>2
      <4>4. Len(details) = Len(found)
        BY <4>2, <4>3
      <4>5. QED
        BY <4>1, <4>4
    <3>4. ASSUME NEW i \in DOMAIN details'
          PROVE  <<details'[i].at, details'[i].type>> = found'[i]
      <4>1. CASE i \in 1..Len(details)
        BY <2>2, <2>4, <3>2, <3>3, <4>1 DEF DetailsInv, DetailsAreTheFirst
      <4>2. CASE i = Len(details) + 1
        BY <2>1, <2>4, <3>2, <3>3, <4>2
      <4>3. QED
        BY <2>2, <3>2, <4>1, <4>2
    <3>5. MaxDetails > 0 => Len(details') <= MaxDetails
      BY <2>2, <2>6, <3>2, ReplayAssumption
    <3>6. DetailsAreTheFirst'
      BY <2>2, <2>3, <2>4, <3>1, <3>2, <3>3, <3>4, <3>5 DEF DetailsInv, DetailsAreTheFirst
    <3>7. QED
      BY <1>1, <2>4, <3>1, <3>2, <3>3, <3>6
  <2>7. QED
    BY <2>5, <2>6
<1>4. QED
  BY <1>2, <1>3

\* While the stream and the request stay, a breach stays one.
LEMMA SameBreaches ==
    ASSUME ScanInv, UNCHANGED <<stored, method, request>>
    PROVE  /\ Scan' = Scan
           /\ \A k \in Scan, t \in PIIType : IsBreach(k, t)' <=> IsBreach(k, t)
<1>1. Scan' = Scan
  BY DEF Index, Scan, InRange, TimeOf
<1>2. ASSUME NEW k \in Scan, NEW t \in PIIType
      PROVE  IsBreach(k, t)' <=> IsBreach(k, t)
  <2>1. Earlier(k, t)' = Earlier(k, t) /\ Lookback(k, t)' = Lookback(k, t)
    BY <1>1 DEF Lookback, Earlier, Bearing, SeriesOf, TypesIn, TimeOf
  <2>2. SumOf(Lookback(k, t), t)' = SumOf(Lookback(k, t), t)
    BY <2>1 DEF SumOf
  <2>3. BaselineOf(Earlier(k, t), t)' = BaselineOf(Earlier(k, t), t)
    <3>1. BaselineOf(Earlier(k, t), t)' = BaselineIn(stored', Earlier(k, t)', t)
      BY DEF BaselineOf, BaselineIn, SumOf, SumOfSquares
    <3>2. QED
      BY <2>1, <3>1, BaselineOfStored
  <2>4. QED
    BY <2>1, <2>2, <2>3 DEF IsBreach
<1>3. QED
  BY <1>1, <1>2

\* Every step keeps the answer that of what has been judged.
LEMMA AnswerStep ==
    ASSUME ScanInv, HistoryInv, TrackerInv, DetailsInv, BreachInv, PointsInv, [Next]_vars
    PROVE  DetailsInv' /\ BreachInv' /\ PointsInv'
<1>0. /\ UNCHANGED <<stored, method, request>> /\ ScanInv'
      /\ received \subseteq Scan /\ Scan \subseteq Index /\ Index \subseteq Nat
      /\ IsFiniteSet(received)
  <2>1. Index \subseteq Nat /\ IsFiniteSet(Index)
    BY Stored, FS_Interval DEF ScanInv
  <2>2. received \subseteq Scan /\ Scan \subseteq Index
    BY DEF ScanInv, Scan
  <2>3. IsFiniteSet(received)
    BY <2>1, <2>2, FS_Subset
  <2>4. QED
    BY <2>1, <2>2, <2>3, ScanStep
<1>1. Scan' = Scan
  BY <1>0 DEF Index, Scan, InRange, TimeOf
<1>2. \A t : Selected(t)' <=> Selected(t)
  BY <1>0 DEF Selected
\* What reports nothing.
<1>3. ASSUME UNCHANGED <<virtual, details, truncated, found>>,
             \A k \in Scan, t \in PIIType : Selected(t) => (Done(k, t)' <=> Done(k, t))
      PROVE  DetailsInv' /\ BreachInv'
  <2>1. DetailsInv'
    BY <1>1, <1>3 DEF DetailsInv, DetailsAreTheFirst
  <2>2. BreachInv'
    BY <1>0, <1>1, <1>2, <1>3, SameBreaches DEF BreachInv
  <2>3. QED
    BY <2>1, <2>2
<1>4. ASSUME NEW k \in Index, Receive(k)
      PROVE  DetailsInv' /\ BreachInv' /\ PointsInv'
  <2>1. /\ UNCHANGED <<virtual, details, truncated, found>>
        /\ received' = received \cup {k} /\ k \notin received /\ points' = points + 1
    BY <1>4 DEF Receive
  <2>2. \A h \in Index, t \in PIIType : Done(h, t)' <=> Done(h, t)
    BY <1>4, DoneStep
  <2>3. Cardinality(received \cup {k}) = Cardinality(received) + 1
    BY <1>0, <2>1, FS_AddElement
  <2>4. PointsInv'
    BY <2>1, <2>3 DEF PointsInv
  <2>5. QED
    BY <1>0, <1>3, <2>1, <2>2, <2>4
<1>5. ASSUME NEW t \in PIIType, Skip(t)
      PROVE  DetailsInv' /\ BreachInv' /\ PointsInv'
  <2>1. UNCHANGED <<received, virtual, details, truncated, found, points>>
        /\ ~Selected(t)
    BY <1>5 DEF Skip, response
  <2>2. \A h \in Index, u \in PIIType : Done(h, u)' <=> Done(h, u) \/ (h = current /\ u = t)
    BY <1>5, DoneStep
  <2>3. QED
    BY <1>0, <1>3, <2>1, <2>2 DEF PointsInv
<1>6. ASSUME NEW t \in PIIType, JudgeZScore(t) \/ JudgePercentage(t)
      PROVE  DetailsInv' /\ BreachInv' /\ PointsInv'
  <2>1. /\ UNCHANGED <<received, points>> /\ t \in todo /\ Selected(t)
    BY <1>6 DEF JudgeZScore, JudgePercentage
  <2>2. current \in received /\ current \in Scan /\ current \in Nat /\ t \in TypesIn(current)
    BY <1>0, <2>1 DEF ScanInv
  <2> DEFINE breached == IsBreach(current, t)
  <2>3. PICK total \in Nat, n \in Nat : Report(t, breached, total, n)
    BY <1>6, JudgeReports
  <2>a. breached \in BOOLEAN
    BY DEF IsBreach, Trend!WarmBreach, Trend!ZScoreBreach, Trend!PercentageBreach
  <2> HIDE DEF breached
  <2>4. /\ found' = IF breached THEN Append(found, <<current, t>>) ELSE found
        /\ found' \in Seq(Nat \X PIIType)
        /\ details' \in Seq(Detail)
        /\ DetailsAreTheFirst'
        /\ truncated' => MaxDetails > 0
    BY <2>a, <2>2, <2>3, ReportKeeps DEF DetailsInv
  <2>6. DetailsInv'
    BY <2>4 DEF DetailsInv
  <2>7. \A h \in Index, u \in PIIType : Done(h, u)' <=> Done(h, u) \/ (h = current /\ u = t)
    BY <1>6, DoneStep
  <2>8. BreachInv'
    <3>1. \A k \in Scan, u \in PIIType : IsBreach(k, u)' <=> IsBreach(k, u)
      BY <1>0, SameBreaches
    <3>2. ~Done(current, t)
      BY <2>1 DEF Done
    <3>3. \A i \in DOMAIN found : found[i] # <<current, t>>
      BY <2>2, <3>2 DEF BreachInv
    <3>4. CASE breached
      <4>1. /\ Len(found) \in Nat /\ DOMAIN found = 1..Len(found)
            /\ DOMAIN found' = 1..(Len(found) + 1)
            /\ \A i \in 1..Len(found) : found'[i] = found[i]
            /\ found'[Len(found) + 1] = <<current, t>>
        <5>1. found \in Seq(Nat \X PIIType) /\ <<current, t>> \in Nat \X PIIType
          BY <2>2 DEF DetailsInv
        <5>2. found' = Append(found, <<current, t>>)
          BY <2>4, <3>4
        <5>3. Len(found) \in Nat /\ DOMAIN found = 1..Len(found)
          BY <5>1, LenProperties
        <5>4. /\ Len(found') = Len(found) + 1 /\ DOMAIN found' = 1..Len(found')
              /\ \A i \in 1..Len(found) : found'[i] = found[i]
              /\ found'[Len(found) + 1] = <<current, t>>
          BY <5>1, <5>2, <2>4, AppendProperties, LenProperties
        <5>5. QED
          BY <5>3, <5>4
      <4>2. \A i \in DOMAIN found' : i \in DOMAIN found \/ i = Len(found) + 1
        BY <4>1
      <4>3. \A i \in DOMAIN found : i \in DOMAIN found' /\ found'[i] = found[i]
        BY <4>1
      <4>4. Len(found) + 1 \in DOMAIN found'
        BY <4>1
      <4>5. \A i \in DOMAIN found' : found'[i] \in Scan \X PIIType
        <5>1. \A i \in DOMAIN found : found'[i] \in Scan \X PIIType
          BY <4>3 DEF BreachInv
        <5>2. found'[Len(found) + 1] \in Scan \X PIIType
          BY <2>2, <4>1
        <5>3. QED
          BY <4>2, <5>1, <5>2
      <4>6. \A i, j \in DOMAIN found' : found'[i] = found'[j] => i = j
        BY <3>3, <4>1, <4>2, <4>3 DEF BreachInv
      <4>7. ASSUME NEW k \in Scan, NEW u \in PIIType
            PROVE  (\E i \in DOMAIN found' : found'[i] = <<k, u>>)
                     <=> Done(k, u)' /\ Selected(u) /\ IsBreach(k, u)
        <5>1. (\E i \in DOMAIN found' : found'[i] = <<k, u>>)
                <=> (\E i \in DOMAIN found : found[i] = <<k, u>>) \/ (k = current /\ u = t)
          BY <4>1, <4>2, <4>3, <4>4
        <5>2. (\E i \in DOMAIN found : found[i] = <<k, u>>)
                <=> Done(k, u) /\ Selected(u) /\ IsBreach(k, u)
          BY DEF BreachInv
        <5>3. IsBreach(current, t)
          BY <3>4 DEF breached
        <5>4. Done(k, u)' <=> Done(k, u) \/ (k = current /\ u = t)
          BY <1>0, <2>7
        <5>5. QED
          BY <2>1, <5>1, <5>2, <5>3, <5>4
      <4>8. QED
        BY <1>1, <1>2, <3>1, <4>5, <4>6, <4>7 DEF BreachInv
    <3>5. CASE ~breached
      <4>1. found' = found /\ ~IsBreach(current, t)
        BY <2>4, <3>5 DEF breached
      <4>2. ASSUME NEW k \in Scan, NEW u \in PIIType
            PROVE  (\E i \in DOMAIN found : found[i] = <<k, u>>)
                     <=> Done(k, u)' /\ Selected(u) /\ IsBreach(k, u)
        <5>1. (\E i \in DOMAIN found : found[i] = <<k, u>>)
                <=> Done(k, u) /\ Selected(u) /\ IsBreach(k, u)
          BY DEF BreachInv
        <5>2. Done(k, u)' <=> Done(k, u) \/ (k = current /\ u = t)
          BY <1>0, <2>7
        <5>3. QED
          BY <4>1, <5>1, <5>2
      <4>3. QED
        BY <1>1, <1>2, <3>1, <4>1, <4>2 DEF BreachInv
    <3>6. QED
      BY <3>4, <3>5
  <2>9. QED
    BY <2>1, <2>6, <2>8 DEF PointsInv
<1>7. ASSUME Answer400 \/ GetEntries \/ Answer200 \/ Stop \/ UNCHANGED vars
      PROVE  DetailsInv' /\ BreachInv' /\ PointsInv'
  <2>1. UNCHANGED <<received, virtual, details, truncated, found, points>>
    BY <1>7 DEF Answer400, GetEntries, Answer200, Stop, vars, response
  <2>2. \A h \in Index, t \in PIIType : Done(h, t)' <=> Done(h, t)
    BY <1>7, DoneStep
  <2>3. QED
    BY <1>0, <1>3, <2>1, <2>2 DEF PointsInv
<1>8. QED
  BY <1>4, <1>5, <1>6, <1>7 DEF Next

\* So it holds throughout.
LEMMA AnswerInductive ==
    Spec => [](TrackerInv /\ DetailsInv /\ BreachInv /\ PointsInv)
<1>1. Init => TrackerInv /\ DetailsInv /\ BreachInv /\ PointsInv
  <2> SUFFICES ASSUME Init
               PROVE  TrackerInv /\ DetailsInv /\ BreachInv /\ PointsInv
    OBVIOUS
  <2>1. found = <<>> /\ details = <<>> /\ virtual = 0 /\ truncated = FALSE /\ received = {}
    BY DEF Init
  <2>2. TrackerInv
    <3>1. trackers \in [Series -> Tracker] /\ history = [s \in Series |-> {}]
      BY DEF Init, Trend!NoBaseline, Tracker
    <3>2. \A s : Judged(s) = {}
      BY <2>1 DEF Judged, Bearing
    <3>3. \A t : BaselineOf({}, t) = Trend!NoBaseline
      <4> TAKE t
      <4>1. SumOf({}, t) = 0 /\ SumOfSquares({}, t) = 0
        BY FS_EmptySet, SumOfIsSum, SumOfSquaresIsSum, SumEmpty
      <4>2. QED
        BY <4>1, FS_EmptySet DEF BaselineOf, Trend!NoBaseline
    <3>4. \A s \in Series : trackers[s] = BaselineOf(Judged(s), s[2])
      BY <3>2, <3>3 DEF Init
    <3>5. QED
      BY <3>1, <3>4 DEF TrackerInv
  <2>3. found \in Seq(Nat \X PIIType) /\ details \in Seq(Detail)
        /\ Len(found) = 0 /\ Len(details) = 0 /\ DOMAIN found = {} /\ DOMAIN details = {}
    BY <2>1, EmptySeq
  <2>4. DetailsAreTheFirst
    BY <2>1, <2>3, ReplayAssumption DEF DetailsAreTheFirst
  <2>5. BreachInv
    BY <2>1, <2>3 DEF BreachInv, Done
  <2>6. PointsInv
    BY FS_EmptySet DEF Init, PointsInv
  <2>7. QED
    BY <2>1, <2>2, <2>3, <2>4, <2>5, <2>6 DEF DetailsInv
<1>2. ScanInv /\ HistoryInv /\ TrackerInv /\ DetailsInv /\ BreachInv /\ PointsInv /\ [Next]_vars
         => TrackerInv' /\ DetailsInv' /\ BreachInv' /\ PointsInv'
  BY AnswerStep, TrackerStep
<1>3. QED
  BY <1>1, <1>2, ReplayInductive, PTL DEF Spec

\* A list that was cut is flagged and one that was not is not, at any limit.
THEOREM DetailsFirst == Spec => []DetailsAreTheFirst
<1>1. DetailsInv => DetailsAreTheFirst
  BY DEF DetailsInv
<1>2. QED
  BY <1>1, AnswerInductive, PTL

\* What the handler holds has its types; a judged average is of natural numbers.
THEOREM TypeCorrect == Spec => []TypeOK
<1> DEFINE Rest == /\ method \in {"z_score", "percentage_delta"}
                   /\ phase \in {"called", "refused", "scanning", "answered"}
                   /\ current \in Nat /\ points \in Nat
           Flag == truncated \in BOOLEAN
<1>1. Init => Rest /\ Flag
  <2>1. Init => Rest
    BY DEF Init
  <2>2. Init => Flag
    BY Zenon DEF Init
  <2>3. QED
    BY <2>1, <2>2
<1>2. ScanInv /\ Rest /\ [Next]_vars => Rest'
  <2> SUFFICES ASSUME ScanInv, Rest, [Next]_vars
               PROVE  Rest'
    OBVIOUS
  <2>1. ASSUME NEW k \in Index, Receive(k)
        PROVE  Rest'
    <3>1. k \in Nat
      BY Stored DEF ScanInv
    <3>2. QED
      BY <2>1, <3>1 DEF Receive
  <2>2. ASSUME NEW t \in PIIType, Skip(t) \/ JudgeZScore(t) \/ JudgePercentage(t)
        PROVE  Rest'
    BY <2>2 DEF Skip, JudgeZScore, JudgePercentage, response
  <2>3. ASSUME Answer400 \/ GetEntries \/ Answer200 \/ Stop \/ UNCHANGED vars
        PROVE  Rest'
    BY <2>3 DEF Answer400, GetEntries, Answer200, Stop, vars, response
  <2>4. QED
    BY <2>1, <2>2, <2>3 DEF Next
<1>3. Flag /\ [Next]_vars => Flag'
  <2> SUFFICES ASSUME Flag, [Next]_vars
               PROVE  Flag'
    OBVIOUS
  <2>1. ASSUME NEW t, NEW b, NEW total, NEW n, Report(t, b, total, n)
        PROVE  Flag'
    BY <2>1, Zenon DEF Report
  <2>2. ASSUME NEW t \in PIIType, JudgeZScore(t) \/ JudgePercentage(t)
        PROVE  Flag'
    BY <2>1, <2>2, Zenon DEF JudgeZScore, JudgePercentage
  <2>3. ASSUME ~(\E t \in PIIType : JudgeZScore(t) \/ JudgePercentage(t))
        PROVE  Flag'
    <3>1. UNCHANGED truncated
      BY <2>3 DEF Next, Receive, Skip, Answer400, GetEntries, Answer200, Stop, vars, response
    <3>2. QED
      BY <3>1
  <2>4. QED
    BY <2>2, <2>3
<1> HIDE DEF Rest, Flag
<1>4. ScanInv /\ HistoryInv /\ TrackerInv /\ DetailsInv /\ Rest /\ Flag => TypeOK
  <2> SUFFICES ASSUME ScanInv, HistoryInv, TrackerInv, DetailsInv, Rest, Flag
               PROVE  TypeOK
    OBVIOUS
  <2>1. history \in [Series -> SUBSET received]
    BY DEF Rest, HistoryInv, TrackerInv
  <2>2. todo \subseteq PIIType /\ (todo # {} => current \in received /\ todo \subseteq TypesIn(current))
    BY Stored DEF ScanInv, Scan
  <2>3. trackers \in [Series -> [count : Nat, sum : Nat, sumsq : Nat]]
    BY DEF TrackerInv, Tracker
  <2>4. virtual \in Nat
    <3>1. found \in Seq(Nat \X PIIType) /\ virtual = Len(found)
      BY DEF DetailsInv, DetailsAreTheFirst
    <3>2. QED
      BY <3>1, LenProperties
  <2>5. QED
    BY <2>1, <2>2, <2>3, <2>4 DEF TypeOK, ScanInv, DetailsInv, Rest, Flag
<1>5. QED
  BY <1>1, <1>2, <1>3, <1>4, ReplayInductive, AnswerInductive, PTL DEF Spec

\* An answer tells of exactly the breaches of its range, under either method:
\* a tracker or a history that begins with the range is the baseline of all
\* that came earlier in it, whatever the request leaves out.
THEOREM ReplayIsExact == Spec => []ReplayFindsAll
<1>1. ScanInv /\ BreachInv /\ PointsInv => ReplayFindsAll
  <2> SUFFICES ASSUME ScanInv, BreachInv, PointsInv, phase = "answered"
               PROVE  /\ points = Cardinality(Scan)
                      /\ {found[i] : i \in DOMAIN found} =
                            {p \in Scan \X PIIType :
                                p[2] \in TypesIn(p[1]) /\ Selected(p[2]) /\ IsBreach(p[1], p[2])}
                      /\ \A i, j \in DOMAIN found : found[i] = found[j] => i = j
    BY DEF ReplayFindsAll
  <2>1. todo = {} /\ received = Scan
    BY DEF ScanInv
  <2>2. \A k \in Scan, t \in PIIType : Done(k, t) <=> t \in TypesIn(k)
    BY <2>1 DEF Done
  <2>3. ASSUME NEW p \in Scan \X PIIType
        PROVE  (\E i \in DOMAIN found : found[i] = p)
                 <=> p[2] \in TypesIn(p[1]) /\ Selected(p[2]) /\ IsBreach(p[1], p[2])
    <3>1. PICK k \in Scan, t \in PIIType : p = <<k, t>>
      OBVIOUS
    <3>2. (\E i \in DOMAIN found : found[i] = <<k, t>>)
            <=> Done(k, t) /\ Selected(t) /\ IsBreach(k, t)
      BY DEF BreachInv
    <3>3. p[1] = k /\ p[2] = t
      BY <3>1
    <3>4. QED
      BY <2>2, <3>1, <3>2, <3>3
  <2>4. \A i \in DOMAIN found : found[i] \in Scan \X PIIType
    BY DEF BreachInv
  <2>5. QED
    BY <2>1, <2>3, <2>4 DEF PointsInv, BreachInv
<1>2. QED
  BY <1>1, AnswerInductive, ReplayInductive, PTL

-----------------------------------------------------------------------------
(* The dashboard *)

\* Of a flow: its entries, and what its types count in them.
InFlow(q, f) == {k \in Shown(q) : FlowOf(k) = f}
FlowTypes(q, f) ==
    [t \in UNION {TypesIn(k) : k \in InFlow(q, f)} |->
        SumOf({k \in InFlow(q, f) : t \in TypesIn(k)}, t)]

\* The flows that count t.
FlowsWith(q, t) == {f \in DOMAIN Flows(q) : t \in DOMAIN Flows(q)[f].types}

\* Whatever the query, finitely many entries are shown, of finitely many
\* types, and their counts are numbers.
LEMMA ShownFacts ==
    ASSUME stored \in Histories, NEW q
    PROVE  /\ Shown(q) \subseteq Index /\ IsFiniteSet(Shown(q)) /\ IsFiniteSet(Index)
           /\ \A k \in Index : IsFiniteSet(TypesIn(k))
           /\ \A k \in Index : \A t \in TypesIn(k) : stored[k].counts[t] \in Nat
           /\ \A t : /\ ShownWith(q, t) \subseteq Index /\ IsFiniteSet(ShownWith(q, t))
                     /\ \A k \in ShownWith(q, t) : CountsOf(t)[k] \in Nat
<1>1. IsStream(stored)
  BY ReplayAssumption
<1>2. IsFiniteSet(Index)
  BY Stored, FS_Interval
<1>3. Shown(q) \subseteq Index /\ IsFiniteSet(Shown(q))
  BY <1>2, FS_Subset DEF Shown
<1>4. \A k \in Index : /\ IsFiniteSet(TypesIn(k))
                       /\ \A t \in TypesIn(k) : stored[k].counts[t] \in Nat
  BY <1>1 DEF IsStream, IsEntry, Index, TypesIn
<1>5. ASSUME NEW t
      PROVE  /\ ShownWith(q, t) \subseteq Index /\ IsFiniteSet(ShownWith(q, t))
             /\ \A k \in ShownWith(q, t) : CountsOf(t)[k] \in Nat
  <2>1. ShownWith(q, t) \subseteq Index /\ IsFiniteSet(ShownWith(q, t))
    BY <1>3, FS_Subset DEF ShownWith
  <2>2. QED
    BY <1>4, <2>1 DEF CountsOf, ShownWith
<1>6. QED
  BY <1>2, <1>3, <1>4, <1>5

\* The sum of t over some of the shown entries that count it.
LEMMA SumOfShown ==
    ASSUME stored \in Histories, NEW q, NEW t, NEW S \in SUBSET ShownWith(q, t)
    PROVE  /\ IsFiniteSet(S) /\ \A k \in S : CountsOf(t)[k] \in Nat
           /\ SumOf(S, t) = SumOver(CountsOf(t), S)
           /\ SumOf(S, t) \in Nat
<1>1. S \in SUBSET Index /\ IsFiniteSet(S) /\ \A k \in S : CountsOf(t)[k] \in Nat
  BY ShownFacts, FS_Subset
<1>2. SumOf(S, t) = SumOver(CountsOf(t), S)
  BY <1>1, SumOfIsSum
<1>3. QED
  BY <1>1, <1>2, SumNat

\* Adding up points is adding up their counts.
LEMMA AddUpIsSum ==
    ASSUME NEW S, IsFiniteSet(S)
    PROVE  AddUp(S) = SumOver([p \in S |-> p.count], S)
<1> DEFINE g == [p \in S |-> p.count]
           IsSum(it) ==
             it = [s \in SUBSET S |->
                     IF s = {} THEN 0 ELSE Pick(s).count + it[s \ {Pick(s)}]]
           c == CHOOSE it : IsSum(it)
<1>1. AddUp(S) = c[S]
  BY DEF AddUp, MapThenSumSet, MapThenFoldSet, Pick
<1>2. \A it : IsSum(it) <=> IsFold(it, g, S)
  <2>1. \A s \in SUBSET S : s # {} => g[Pick(s)] = Pick(s).count
    BY PickType
  <2>2. QED
    BY <2>1 DEF IsFold
<1>3. IsFold(c, g, S)
  <2> HIDE DEF IsSum, g
  <2>1. \E it : IsSum(it)
    BY <1>2, FoldExists
  <2>2. QED
    BY <1>2, <2>1
<1> HIDE DEF c, g
<1>4. SumOver(g, S) = c[S]
  BY <1>3, SumOverIsAnyFold
<1>5. QED
  BY <1>1, <1>4 DEF g

\* The line of a type adds up to its total: each shown count is in one bucket.
LEMMA TimelineAgrees ==
    ASSUME stored \in Histories, NEW q, NEW t \in ShownTypes(q)
    PROVE  AddUp(Timeline(q)[t]) = Totals(q)[t]
<1> DEFINE W == ShownWith(q, t)
           b == [k \in W |-> Bucket(q, k)]
           P == {b[k] : k \in W}
           g == [y \in P |-> SumOver(CountsOf(t), {h \in W : b[h] = y})]
           line == {[time |-> y, count |-> g[y]] : y \in P}
           point == [y \in P |-> [time |-> y, count |-> g[y]]]
           counts == [p \in line |-> p.count]
<1>1. IsFiniteSet(W) /\ \A k \in W : CountsOf(t)[k] \in Int
  BY ShownFacts
<1>2. IsFiniteSet(P)
  <2> HIDE DEF W, b
  <2>1. QED
    BY <1>1, FiniteImage
<1>3. Timeline(q)[t] = line
  <2>1. Timeline(q)[t] =
            {[time  |-> Bucket(q, k),
              count |-> SumOf({h \in W : Bucket(q, h) = Bucket(q, k)}, t)] : k \in W}
    BY DEF Timeline
  <2>2. ASSUME NEW k \in W
        PROVE  SumOf({h \in W : Bucket(q, h) = Bucket(q, k)}, t) = g[Bucket(q, k)]
    <3>1. {h \in W : Bucket(q, h) = Bucket(q, k)} = {h \in W : b[h] = b[k]} /\ b[k] = Bucket(q, k)
      OBVIOUS
    <3>2. SumOf({h \in W : b[h] = b[k]}, t) = SumOver(CountsOf(t), {h \in W : b[h] = b[k]})
      BY SumOfShown
    <3>3. QED
      BY <3>1, <3>2
  <2>3. Timeline(q)[t] = {[time |-> b[k], count |-> g[b[k]]] : k \in W}
    <3> HIDE DEF g
    <3>1. QED
      BY <2>1, <2>2
  <2>4. QED
    <3> HIDE DEF g, W, b
    <3>1. QED
      BY <2>3
<1>4. Totals(q)[t] = SumOver(CountsOf(t), W)
  BY SumOfShown DEF Totals
<1>5. SumOver(CountsOf(t), W) = SumOver(g, P)
  <2> \A k \in W : b[k] \in P
    OBVIOUS
  <2> HIDE DEF W, b, P
  <2>1. QED
    BY <1>1, <1>2, SumByBlocks
<1>6. \A y \in P : g[y] \in Int
  <2> SUFFICES ASSUME NEW y \in P PROVE g[y] \in Int
    OBVIOUS
  <2>1. IsFiniteSet({h \in W : b[h] = y}) /\ \A k \in {h \in W : b[h] = y} : CountsOf(t)[k] \in Int
    BY <1>1, FS_Subset
  <2>2. QED
    BY <2>1, SumInt
<1> HIDE DEF W, b, P, g
<1>7. line = {point[y] : y \in P} /\ IsFiniteSet(line)
  <2>1. line = {point[y] : y \in P}
    OBVIOUS
  <2> HIDE DEF point
  <2>2. QED
    BY <1>2, <2>1, FiniteImage
<1>8. \A y, z \in P : point[y] = point[z] => y = z
  BY Zenon
<1>9. \A y \in P : point[y] \in line /\ counts[point[y]] = g[y]
  OBVIOUS
<1>10. \A p \in line : counts[p] \in Int
  BY <1>6
<1> HIDE DEF line, point, counts
<1>11. SumOver(counts, line) = SumOver([y \in P |-> counts[point[y]]], P)
  BY <1>2, <1>7, <1>8, <1>10, SumRenamed
<1>12. SumOver([y \in P |-> counts[point[y]]], P) = SumOver(g, P)
  BY <1>2, <1>9, SumSame
<1>13. AddUp(line) = SumOver(counts, line)
  BY <1>7, AddUpIsSum DEF counts
<1>14. QED
  BY <1>3, <1>4, <1>5, <1>11, <1>12, <1>13

\* What the flows of a query are made of.
LEMMA FlowFacts ==
    ASSUME stored \in Histories, NEW q
    PROVE  /\ DOMAIN Flows(q) = {FlowOf(k) : k \in Shown(q)}
           /\ IsFiniteSet(DOMAIN Flows(q)) /\ IsFiniteSet(ShownTypes(q))
           /\ \A f \in DOMAIN Flows(q) :
                 /\ Flows(q)[f].types = FlowTypes(q, f)
                 /\ Flows(q)[f].total = SumOver(FlowTypes(q, f), DOMAIN FlowTypes(q, f))
                 /\ DOMAIN FlowTypes(q, f) = {t \in ShownTypes(q) : f \in FlowsWith(q, t)}
                 /\ IsFiniteSet(DOMAIN FlowTypes(q, f))
                 /\ \A t \in DOMAIN FlowTypes(q, f) :
                       /\ FlowTypes(q, f)[t] \in Nat
                       /\ FlowTypes(q, f)[t] =
                             SumOver(CountsOf(t), {k \in ShownWith(q, t) : FlowOf(k) = f})
           /\ \A t : FlowsWith(q, t) = {FlowOf(k) : k \in ShownWith(q, t)}
<1> DEFINE F == {FlowOf(k) : k \in Shown(q)}
<1>1. DOMAIN Flows(q) = F
  BY DEF Flows
<1>2. IsFiniteSet(F)
  <2> DEFINE e == [k \in Shown(q) |-> FlowOf(k)]
  <2>1. F = {e[k] : k \in Shown(q)}
    OBVIOUS
  <2> HIDE DEF e, F
  <2>2. QED
    BY <2>1, ShownFacts, FiniteImage
<1>3. IsFiniteSet(ShownTypes(q))
  <2>1. \A k \in Shown(q) : IsFiniteSet(TypesIn(k))
    BY ShownFacts
  <2>2. IsFiniteSet({TypesIn(k) : k \in Shown(q)})
    <3> DEFINE e == [k \in Shown(q) |-> TypesIn(k)]
    <3>1. {TypesIn(k) : k \in Shown(q)} = {e[k] : k \in Shown(q)}
      OBVIOUS
    <3> HIDE DEF e
    <3>2. QED
      BY <3>1, ShownFacts, FiniteImage
  <2>3. QED
    <3>1. \A T \in {TypesIn(k) : k \in Shown(q)} : IsFiniteSet(T)
      BY <2>1
    <3>2. QED
      BY <2>2, <3>1, FS_UNION DEF ShownTypes
<1>4. ASSUME NEW f \in DOMAIN Flows(q)
      PROVE  /\ Flows(q)[f].types = FlowTypes(q, f)
             /\ Flows(q)[f].total = SumOver(FlowTypes(q, f), DOMAIN FlowTypes(q, f))
  <2>1. f \in {FlowOf(k) : k \in Shown(q)}
    BY <1>1
  <2>2. Flows(q)[f] = [types |-> FlowTypes(q, f),
                       total |-> MapThenSumSet(LAMBDA t : FlowTypes(q, f)[t],
                                               DOMAIN FlowTypes(q, f))]
    BY <2>1 DEF Flows, FlowTypes, InFlow
  <2>3. QED
    BY <2>2 DEF SumOver
<1>5. ASSUME NEW f, NEW t
      PROVE  /\ t \in DOMAIN FlowTypes(q, f)
                   <=> \E k \in ShownWith(q, t) : FlowOf(k) = f
             /\ t \in DOMAIN FlowTypes(q, f) =>
                   /\ t \in ShownTypes(q)
                   /\ FlowTypes(q, f)[t] \in Nat
                   /\ FlowTypes(q, f)[t] =
                         SumOver(CountsOf(t), {k \in ShownWith(q, t) : FlowOf(k) = f})
  <2>1. t \in DOMAIN FlowTypes(q, f) <=> \E k \in ShownWith(q, t) : FlowOf(k) = f
    BY DEF FlowTypes, InFlow, ShownWith
  <2>2. ASSUME t \in DOMAIN FlowTypes(q, f)
        PROVE  FlowTypes(q, f)[t] = SumOf({k \in InFlow(q, f) : t \in TypesIn(k)}, t)
    BY <2>2 DEF FlowTypes
  <2>3. {k \in InFlow(q, f) : t \in TypesIn(k)} = {k \in ShownWith(q, t) : FlowOf(k) = f}
    BY DEF InFlow, ShownWith
  <2>4. {k \in ShownWith(q, t) : FlowOf(k) = f} \in SUBSET ShownWith(q, t)
    OBVIOUS
  <2>5. QED
    BY <2>1, <2>2, <2>3, <2>4, SumOfShown DEF ShownTypes, ShownWith
<1>6. ASSUME NEW t, NEW f \in DOMAIN Flows(q)
      PROVE  f \in FlowsWith(q, t) <=> t \in DOMAIN FlowTypes(q, f)
  BY <1>4 DEF FlowsWith
<1>7. \A t : FlowsWith(q, t) = {FlowOf(k) : k \in ShownWith(q, t)}
  <2> TAKE t
  <2>1. FlowsWith(q, t) \subseteq F /\ {FlowOf(k) : k \in ShownWith(q, t)} \subseteq F
    BY <1>1 DEF FlowsWith, ShownWith
  <2>2. \A f \in F : f \in FlowsWith(q, t) <=> f \in {FlowOf(k) : k \in ShownWith(q, t)}
    BY <1>1, <1>5, <1>6
  <2> HIDE DEF F
  <2>3. QED
    BY <2>1, <2>2
<1>8. ASSUME NEW f \in DOMAIN Flows(q)
      PROVE  /\ DOMAIN FlowTypes(q, f) = {t \in ShownTypes(q) : f \in FlowsWith(q, t)}
             /\ IsFiniteSet(DOMAIN FlowTypes(q, f))
  <2>1. DOMAIN FlowTypes(q, f) \subseteq ShownTypes(q)
    BY <1>5
  <2>2. QED
    BY <1>3, <1>6, <2>1, FS_Subset
<1>9. QED
  BY <1>1, <1>2, <1>3, <1>4, <1>5, <1>7, <1>8

\* The shares of the flows in a type add up to its total.
LEMMA FlowsAgree ==
    ASSUME stored \in Histories, NEW q, NEW t \in ShownTypes(q)
    PROVE  /\ IsFiniteSet(FlowsWith(q, t))
           /\ SumOver([f \in FlowsWith(q, t) |-> Flows(q)[f].types[t]], FlowsWith(q, t))
                 = Totals(q)[t]
<1> DEFINE W == ShownWith(q, t)
           P == FlowsWith(q, t)
           b == [k \in W |-> FlowOf(k)]
           g == [y \in P |-> SumOver(CountsOf(t), {k \in W : b[k] = y})]
           h == [f \in P |-> Flows(q)[f].types[t]]
<1>1. IsFiniteSet(W) /\ \A k \in W : CountsOf(t)[k] \in Int
  BY ShownFacts
<1>2. P = {FlowOf(k) : k \in W} /\ P \subseteq DOMAIN Flows(q)
  BY FlowFacts DEF FlowsWith
<1>3. IsFiniteSet(P)
  BY <1>2, FlowFacts, FS_Subset
<1>4. \A k \in W : b[k] \in P
  BY <1>2
<1>5. \A f \in P : h[f] = g[f]
  <2> SUFFICES ASSUME NEW f \in P
               PROVE  h[f] = g[f]
    OBVIOUS
  <2>1. f \in DOMAIN Flows(q) /\ Flows(q)[f].types = FlowTypes(q, f)
    BY <1>2, FlowFacts
  <2>2. t \in DOMAIN FlowTypes(q, f)
    BY <2>1, FlowFacts
  <2>3. FlowTypes(q, f)[t] = SumOver(CountsOf(t), {k \in W : FlowOf(k) = f})
    BY <2>1, <2>2, FlowFacts
  <2>4. {k \in W : FlowOf(k) = f} = {k \in W : b[k] = f}
    OBVIOUS
  <2>5. QED
    BY <2>1, <2>3, <2>4
<1>6. Totals(q)[t] = SumOver(CountsOf(t), W)
  BY SumOfShown DEF Totals
<1> HIDE DEF W, P, b, h
<1>7. SumOver(CountsOf(t), W) = SumOver(g, P)
  BY <1>1, <1>3, <1>4, SumByBlocks
<1> HIDE DEF g
<1>8. SumOver(h, P) = SumOver(g, P)
  BY <1>3, <1>5, SumSame
<1>9. QED
  BY <1>3, <1>6, <1>7, <1>8 DEF h, P

\* The totals of the flows add up to those of the types: both are the sum over
\* the cells of one table, by rows and by columns.
LEMMA GrandTotalsAgree ==
    ASSUME stored \in Histories, NEW q
    PROVE  SumOver([f \in DOMAIN Flows(q) |-> Flows(q)[f].total], DOMAIN Flows(q))
             = SumOver(Totals(q), DOMAIN Totals(q))
<1> DEFINE F == DOMAIN Flows(q)
           T == ShownTypes(q)
           cells == {c \in F \X T : c[1] \in FlowsWith(q, c[2])}
           v == [c \in cells |-> FlowTypes(q, c[1])[c[2]]]
           row == [c \in cells |-> c[1]]
           column == [c \in cells |-> c[2]]
           rows == [f \in F |-> SumOver(v, {c \in cells : row[c] = f})]
           columns == [t \in T |-> SumOver(v, {c \in cells : column[c] = t})]
           totals == [f \in F |-> Flows(q)[f].total]
<1>1. IsFiniteSet(F) /\ IsFiniteSet(T)
  BY FlowFacts
<1>2. IsFiniteSet(cells)
  <2>1. IsFiniteSet(F \X T)
    BY <1>1, FS_Product
  <2>2. QED
    BY <2>1, FS_Subset
<1>3. \A c \in cells : /\ v[c] \in Int /\ row[c] \in F /\ column[c] \in T
                       /\ c = <<row[c], column[c]>>
                       /\ row[c] \in FlowsWith(q, column[c])
                       /\ v[c] = FlowTypes(q, row[c])[column[c]]
  <2> SUFFICES ASSUME NEW c \in cells
               PROVE  /\ v[c] \in Int /\ row[c] \in F /\ column[c] \in T
                      /\ c = <<row[c], column[c]>>
                      /\ row[c] \in FlowsWith(q, column[c])
                      /\ v[c] = FlowTypes(q, row[c])[column[c]]
    OBVIOUS
  <2>1. c[1] \in F /\ c[2] \in T /\ c[1] \in FlowsWith(q, c[2]) /\ c = <<c[1], c[2]>>
    OBVIOUS
  <2>2. c[2] \in DOMAIN FlowTypes(q, c[1])
    BY <2>1, FlowFacts
  <2>3. FlowTypes(q, c[1])[c[2]] \in Nat
    BY <2>1, <2>2, FlowFacts
  <2>4. QED
    BY <2>1, <2>3
<1>4. \A f \in F, t \in T : f \in FlowsWith(q, t) =>
          /\ <<f, t>> \in cells
          /\ row[<<f, t>>] = f /\ column[<<f, t>>] = t
          /\ v[<<f, t>>] = FlowTypes(q, f)[t]
  OBVIOUS
<1> HIDE DEF v, row, column
<1>5. ASSUME NEW f \in F
      PROVE  rows[f] = totals[f]
  <2> DEFINE S == {c \in cells : row[c] = f}
             P == DOMAIN FlowTypes(q, f)
             e == [t \in P |-> <<f, t>>]
  <2>1. P = {t \in T : f \in FlowsWith(q, t)} /\ IsFiniteSet(P)
    BY FlowFacts
  <2>2. IsFiniteSet(S) /\ \A c \in S : v[c] \in Int
    BY <1>2, <1>3, FS_Subset
  <2>3. \A t \in P : e[t] \in S /\ v[e[t]] = FlowTypes(q, f)[t] /\ column[e[t]] = t
    BY <1>4, <2>1
  <2>4. \A c \in S : column[c] \in P /\ e[column[c]] = c
    BY <1>3, <2>1
  <2> HIDE DEF S, P, e
  <2>5. S = {e[t] : t \in P} /\ \A y, z \in P : e[y] = e[z] => y = z
    BY <2>3, <2>4
  <2>6. SumOver(v, S) = SumOver([t \in P |-> v[e[t]]], P)
    BY <2>1, <2>2, <2>5, SumRenamed
  <2>7. SumOver([t \in P |-> v[e[t]]], P) = SumOver(FlowTypes(q, f), P)
    BY <2>1, <2>3, SumSame
  <2>8. totals[f] = SumOver(FlowTypes(q, f), P)
    BY FlowFacts DEF P
  <2>9. QED
    BY <2>6, <2>7, <2>8 DEF S
<1>6. ASSUME NEW t \in T
      PROVE  columns[t] = Totals(q)[t]
  <2> DEFINE S == {c \in cells : column[c] = t}
             P == FlowsWith(q, t)
             e == [f \in P |-> <<f, t>>]
             shares == [f \in P |-> Flows(q)[f].types[t]]
  <2>1. P \subseteq F /\ IsFiniteSet(P) /\ SumOver(shares, P) = Totals(q)[t]
    BY FlowsAgree DEF FlowsWith
  <2>2. IsFiniteSet(S) /\ \A c \in S : v[c] \in Int
    BY <1>2, <1>3, FS_Subset
  <2>3. \A f \in P : e[f] \in S /\ v[e[f]] = shares[f] /\ row[e[f]] = f
    <3>1. \A f \in P : Flows(q)[f].types = FlowTypes(q, f)
      BY <2>1, FlowFacts
    <3>2. QED
      BY <1>4, <2>1, <3>1
  <2>4. \A c \in S : row[c] \in P /\ e[row[c]] = c
    BY <1>3
  <2> HIDE DEF S, P, e, shares
  <2>5. S = {e[f] : f \in P} /\ \A y, z \in P : e[y] = e[z] => y = z
    BY <2>3, <2>4
  <2>6. SumOver(v, S) = SumOver([f \in P |-> v[e[f]]], P)
    BY <2>1, <2>2, <2>5, SumRenamed
  <2>7. SumOver([f \in P |-> v[e[f]]], P) = SumOver(shares, P)
    BY <2>1, <2>3, SumSame
  <2>8. QED
    BY <2>1, <2>6, <2>7 DEF S
<1>7. DOMAIN Totals(q) = T
  BY DEF Totals
<1> HIDE DEF F, T, cells
<1>8. SumOver(v, cells) = SumOver(rows, F)
  BY <1>1, <1>2, <1>3, SumByBlocks
<1>9. SumOver(v, cells) = SumOver(columns, T)
  BY <1>1, <1>2, <1>3, SumByBlocks
<1> HIDE DEF rows, columns, totals
<1>10. SumOver(rows, F) = SumOver(totals, F)
  BY <1>1, <1>5, SumSame
<1>11. SumOver(columns, T) = SumOver(Totals(q), T)
  BY <1>1, <1>6, SumSame
<1>12. QED
  BY <1>7, <1>8, <1>9, <1>10, <1>11 DEF totals, F

\* The endpoints of one window agree, in any stored entries and at any window.
THEOREM DashboardAgrees == Spec => []ViewsAgree
<1>1. ASSUME stored \in Histories
      PROVE  ViewsAgree
  <2> SUFFICES
        ASSUME NEW q \in Queries
        PROVE  /\ \A t \in ShownTypes(q) :
                     /\ AddUp(Timeline(q)[t]) = Totals(q)[t]
                     /\ MapThenSumSet(LAMBDA f : Flows(q)[f].types[t], FlowsWith(q, t))
                           = Totals(q)[t]
               /\ MapThenSumSet(LAMBDA f : Flows(q)[f].total, DOMAIN Flows(q))
                     = MapThenSumSet(LAMBDA t : Totals(q)[t], DOMAIN Totals(q))
               /\ Summary(q).unique_types = Cardinality(DOMAIN Totals(q))
               /\ Summary(q).unique_sources = Cardinality({f[1] : f \in DOMAIN Flows(q)})
               /\ Summary(q).unique_contexts = Cardinality({f[2] : f \in DOMAIN Flows(q)})
    BY DEF ViewsAgree, FlowsWith
  <2>1. \A t \in ShownTypes(q) : AddUp(Timeline(q)[t]) = Totals(q)[t]
    BY <1>1, TimelineAgrees
  <2>2. ASSUME NEW t \in ShownTypes(q)
        PROVE  MapThenSumSet(LAMBDA f : Flows(q)[f].types[t], FlowsWith(q, t))
                 = Totals(q)[t]
    <3> DEFINE P == FlowsWith(q, t)
               g == [f \in P |-> Flows(q)[f].types[t]]
               IsSum(it) ==
                 it = [s \in SUBSET P |->
                         IF s = {} THEN 0
                         ELSE Flows(q)[Pick(s)].types[t] + it[s \ {Pick(s)}]]
               c == CHOOSE it : IsSum(it)
    <3>1. MapThenSumSet(LAMBDA f : Flows(q)[f].types[t], P) = c[P]
      BY DEF MapThenSumSet, MapThenFoldSet, Pick
    <3>2. IsFiniteSet(P) /\ SumOver(g, P) = Totals(q)[t]
      BY <1>1, FlowsAgree
    <3> HIDE DEF P
    <3>3. \A it : IsSum(it) <=> IsFold(it, g, P)
      <4>1. \A s \in SUBSET P : s # {} => g[Pick(s)] = Flows(q)[Pick(s)].types[t]
        BY PickType
      <4>2. QED
        BY <4>1 DEF IsFold
    <3>4. IsFold(c, g, P)
      <4> HIDE DEF IsSum, g
      <4>1. \E it : IsSum(it)
        BY <3>2, <3>3, FoldExists
      <4>2. QED
        BY <3>3, <4>1
    <3> HIDE DEF c, g
    <3>5. SumOver(g, P) = c[P]
      BY <3>2, <3>4, SumOverIsAnyFold
    <3>6. QED
      BY <3>1, <3>2, <3>5 DEF P
  <2>3. MapThenSumSet(LAMBDA f : Flows(q)[f].total, DOMAIN Flows(q))
          = MapThenSumSet(LAMBDA t : Totals(q)[t], DOMAIN Totals(q))
    <3> DEFINE P == DOMAIN Flows(q)
               g == [f \in P |-> Flows(q)[f].total]
               IsSum(it) ==
                 it = [s \in SUBSET P |->
                         IF s = {} THEN 0
                         ELSE Flows(q)[Pick(s)].total + it[s \ {Pick(s)}]]
               c == CHOOSE it : IsSum(it)
    <3>1. MapThenSumSet(LAMBDA f : Flows(q)[f].total, P) = c[P]
      BY DEF MapThenSumSet, MapThenFoldSet, Pick
    <3>2. MapThenSumSet(LAMBDA t : Totals(q)[t], DOMAIN Totals(q))
            = SumOver(Totals(q), DOMAIN Totals(q))
      BY DEF SumOver
    <3>3. IsFiniteSet(P) /\ SumOver(g, P) = SumOver(Totals(q), DOMAIN Totals(q))
      BY <1>1, FlowFacts, GrandTotalsAgree
    <3> HIDE DEF P
    <3>4. \A it : IsSum(it) <=> IsFold(it, g, P)
      <4>1. \A s \in SUBSET P : s # {} => g[Pick(s)] = Flows(q)[Pick(s)].total
        BY PickType
      <4>2. QED
        BY <4>1 DEF IsFold
    <3>5. IsFold(c, g, P)
      <4> HIDE DEF IsSum, g
      <4>1. \E it : IsSum(it)
        BY <3>3, <3>4, FoldExists
      <4>2. QED
        BY <3>4, <4>1
    <3> HIDE DEF c, g
    <3>6. SumOver(g, P) = c[P]
      <4>1. IsFiniteSet(P)
        BY <3>3
      <4>2. QED
        BY <3>5, <4>1, SumOverIsAnyFold
    <3>7. QED
      BY <3>1, <3>2, <3>3, <3>6 DEF P
  <2>4. Summary(q).unique_types = Cardinality(DOMAIN Totals(q))
    BY DEF Summary, Totals
  <2>5. /\ {f[1] : f \in DOMAIN Flows(q)} = {stored[k].origin.source : k \in Shown(q)}
        /\ {f[2] : f \in DOMAIN Flows(q)} = {stored[k].origin.context : k \in Shown(q)}
    <3>1. DOMAIN Flows(q) = {FlowOf(k) : k \in Shown(q)}
      BY <1>1, FlowFacts
    <3>2. \A k \in Shown(q) : /\ FlowOf(k)[1] = stored[k].origin.source
                              /\ FlowOf(k)[2] = stored[k].origin.context
      BY DEF FlowOf
    <3>3. QED
      BY ONLY <3>1, <3>2
  <2>6. QED
    BY <2>1, <2>2, <2>3, <2>4, <2>5 DEF Summary
<1>2. ScanInv => ViewsAgree
  BY <1>1 DEF ScanInv
<1>3. QED
  BY <1>2, ReplayInductive, PTL

\* The entries of a combination are those of its series, each in one of them.
LEMMA PoolFacts ==
    ASSUME stored \in Histories, NEW q, NEW s \in AllStats,
           \A p \in Pool(s) : Bearing(Index, p) \subseteq Shown(q)
    PROVE  LET b == [k \in Recent(q, s) |-> SeriesOf(k, s[2])]
           IN  /\ Recent(q, s) \in SUBSET ShownWith(q, s[2])
               /\ s \in Pool(s) /\ Bearing(Index, s) # {}
               /\ Pool(s) = {b[k] : k \in Recent(q, s)}
               /\ \A p \in Pool(s) : /\ {k \in Recent(q, s) : b[k] = p} = Bearing(Index, p)
                                     /\ p[2] = s[2]
<1> DEFINE t == s[2]
           R == Recent(q, s)
           b == [k \in R |-> SeriesOf(k, t)]
<1>1. R \in SUBSET ShownWith(q, t)
  BY DEF Recent
<1>2. \A p \in AllStats : \E k \in Index : p = SeriesOf(k, p[2]) /\ p[2] \in TypesIn(k)
  BY DEF AllStats, SeriesOf
<1>3. s \in Pool(s) /\ Bearing(Index, s) # {}
  BY <1>2 DEF Pool, Bearing
<1>4. ASSUME NEW k \in R
      PROVE  b[k] \in Pool(s)
  <2>1. k \in Index /\ t \in TypesIn(k) /\ FlowOf(k) = <<s[1].source, s[1].context>>
    BY DEF Recent, ShownWith, Shown
  <2>2. b[k] = <<stored[k].origin, t>>
    BY DEF SeriesOf
  <2>3. b[k] \in AllStats
    BY <2>1, <2>2 DEF AllStats, SeriesOf
  <2>4. QED
    BY <2>1, <2>2, <2>3 DEF Pool, FlowOf
<1>5. ASSUME NEW p \in Pool(s)
      PROVE  {k \in R : b[k] = p} = Bearing(Index, p) /\ p[2] = t
  <2>1. p \in AllStats /\ p[1].source = s[1].source /\ p[1].context = s[1].context /\ p[2] = t
    BY DEF Pool
  <2>2. ASSUME NEW k \in Bearing(Index, p)
        PROVE  k \in R /\ b[k] = p
    <3>1. k \in Index /\ t \in TypesIn(k) /\ SeriesOf(k, t) = p /\ k \in Shown(q)
      BY <2>1 DEF Bearing
    <3>2. stored[k].origin = p[1]
      BY <3>1 DEF SeriesOf
    <3>3. k \in R
      BY <2>1, <3>1, <3>2 DEF Recent, ShownWith, FlowOf
    <3>4. QED
      BY <3>1, <3>3
  <2>3. ASSUME NEW k \in R, b[k] = p
        PROVE  k \in Bearing(Index, p)
    BY <1>1, <2>1, <2>3 DEF Bearing, ShownWith, Shown
  <2> HIDE DEF R, b
  <2>4. QED
    BY <2>1, <2>2, <2>3 DEF Bearing
<1>6. \A p \in Pool(s) : \E k \in R : b[k] = p
  <2>1. ASSUME NEW p \in Pool(s)
        PROVE  \E k \in R : b[k] = p
    <3>1. Bearing(Index, p) # {}
      BY <1>2 DEF Pool, Bearing
    <3> HIDE DEF R, b
    <3>2. QED
      BY <1>5, <3>1
  <2>2. QED
    BY <2>1
<1>7. Pool(s) = {b[k] : k \in R}
  <2> HIDE DEF R, b
  <2>1. QED
    BY <1>4, <1>6
<1>8. QED
  BY <1>1, <1>3, <1>5, <1>7

\* The sums over a pool are sums of these functions.
LEMMA PoolSums ==
    ASSUME NEW s, IsFiniteSet(Pool(s))
    PROVE  /\ PoolSum(s) = SumOver([p \in Pool(s) |-> BaselineMean(p).num], Pool(s))
           /\ PoolSize(s) = SumOver([p \in Pool(s) |-> BaselineMean(p).den], Pool(s))
<1> DEFINE P == Pool(s)
<1>1. PoolSum(s) = SumOver([p \in P |-> BaselineMean(p).num], P)
  <2> DEFINE g == [p \in P |-> BaselineMean(p).num]
             IsSum(it) ==
               it = [x \in SUBSET P |->
                       IF x = {} THEN 0
                       ELSE BaselineMean(Pick(x)).num + it[x \ {Pick(x)}]]
             c == CHOOSE it : IsSum(it)
  <2>1. PoolSum(s) = c[P]
    BY DEF PoolSum, MapThenSumSet, MapThenFoldSet, Pick
  <2> HIDE DEF P
  <2>2. \A it : IsSum(it) <=> IsFold(it, g, P)
    <3>1. \A x \in SUBSET P : x # {} => g[Pick(x)] = BaselineMean(Pick(x)).num
      BY PickType
    <3>2. QED
      BY <3>1 DEF IsFold
  <2>3. IsFiniteSet(P)
    BY DEF P
  <2>4. IsFold(c, g, P)
    <3> HIDE DEF IsSum, g
    <3>1. \E it : IsSum(it)
      BY <2>2, <2>3, FoldExists
    <3>2. QED
      BY <2>2, <3>1
  <2> HIDE DEF c, g
  <2>5. SumOver(g, P) = c[P]
    BY <2>3, <2>4, SumOverIsAnyFold
  <2>6. QED
    BY <2>1, <2>5 DEF g
<1>2. PoolSize(s) = SumOver([p \in P |-> BaselineMean(p).den], P)
  <2> DEFINE g == [p \in P |-> BaselineMean(p).den]
             IsSum(it) ==
               it = [x \in SUBSET P |->
                       IF x = {} THEN 0
                       ELSE BaselineMean(Pick(x)).den + it[x \ {Pick(x)}]]
             c == CHOOSE it : IsSum(it)
  <2>1. PoolSize(s) = c[P]
    BY DEF PoolSize, MapThenSumSet, MapThenFoldSet, Pick
  <2> HIDE DEF P
  <2>2. \A it : IsSum(it) <=> IsFold(it, g, P)
    <3>1. \A x \in SUBSET P : x # {} => g[Pick(x)] = BaselineMean(Pick(x)).den
      BY PickType
    <3>2. QED
      BY <3>1 DEF IsFold
  <2>3. IsFiniteSet(P)
    BY DEF P
  <2>4. IsFold(c, g, P)
    <3> HIDE DEF IsSum, g
    <3>1. \E it : IsSum(it)
      BY <2>2, <2>3, FoldExists
    <3>2. QED
      BY <2>2, <3>1
  <2> HIDE DEF c, g
  <2>5. SumOver(g, P) = c[P]
    BY <2>3, <2>4, SumOverIsAnyFold
  <2>6. QED
    BY <2>1, <2>5 DEF g
<1>3. QED
  BY <1>1, <1>2

\* With the whole history shown, what is recent of a source, context and type is
\* what its organizations' baselines are made of; a series that shares with
\* none does not deviate.
THEOREM RecentPooled == Spec => []RecentIsPooled
<1>1. ASSUME stored \in Histories
      PROVE  RecentIsPooled
  <2> SUFFICES ASSUME NEW q \in Queries, NEW s \in AllStats,
                      \A p \in Pool(s) : Bearing(Index, p) \subseteq Shown(q)
               PROVE  /\ RecentMean(q, s) = [num |-> PoolSum(s), den |-> PoolSize(s)]
                      /\ Pool(s) = {s} => Deviation(q, s).num = 0
    BY DEF RecentIsPooled
  <2> DEFINE t == s[2]
             R == Recent(q, s)
             P == Pool(s)
             b == [k \in R |-> SeriesOf(k, t)]
             one == [k \in R |-> 1]
             num == [p \in P |-> BaselineMean(p).num]
             den == [p \in P |-> BaselineMean(p).den]
             B(p) == {k \in R : b[k] = p}
  <2>1. /\ R \in SUBSET ShownWith(q, t)
        /\ s \in P /\ Bearing(Index, s) # {}
        /\ P = {b[k] : k \in R}
        /\ \A p \in P : B(p) = Bearing(Index, p) /\ p[2] = t
    BY <1>1, PoolFacts
  <2>2. /\ IsFiniteSet(R) /\ \A k \in R : CountsOf(t)[k] \in Nat
        /\ SumOf(R, t) = SumOver(CountsOf(t), R) /\ SumOf(R, t) \in Nat
    BY <1>1, <2>1, SumOfShown
  <2>3. ASSUME NEW p \in P
        PROVE  /\ num[p] = SumOver(CountsOf(t), B(p))
               /\ den[p] = SumOver(one, B(p))
    <3>1. B(p) \in SUBSET ShownWith(q, t) /\ B(p) \subseteq R
      BY <2>1
    <3>2. num[p] = SumOf(B(p), t) /\ den[p] = Cardinality(B(p))
      BY <2>1 DEF BaselineMean
    <3> HIDE DEF B, R, num, den, P
    <3>3. SumOf(B(p), t) = SumOver(CountsOf(t), B(p)) /\ IsFiniteSet(B(p))
      BY <1>1, <3>1, SumOfShown
    <3>4. SumOver(one, B(p)) = Cardinality(B(p)) * 1 /\ Cardinality(B(p)) \in Nat
      BY <3>1, <3>3, SumConstant, FS_CardinalityType
    <3>5. QED
      BY <3>2, <3>3, <3>4
  <2>4. IsFiniteSet(P) /\ \A k \in R : b[k] \in P
    <3> HIDE DEF P, R, b
    <3>1. QED
      BY <2>1, <2>2, FiniteImage
  <2>5. PoolSum(s) = SumOver(num, P) /\ PoolSize(s) = SumOver(den, P)
    BY <2>4, PoolSums
  <2>6. /\ SumOver(num, P) = SumOver([p \in P |-> SumOver(CountsOf(t), B(p))], P)
        /\ SumOver(den, P) = SumOver([p \in P |-> SumOver(one, B(p))], P)
    <3> HIDE DEF P, R, b, B, num, den, one
    <3>1. QED
      BY <2>3, <2>4, SumSame
  <2>7. /\ SumOver(CountsOf(t), R) = SumOver([p \in P |-> SumOver(CountsOf(t), B(p))], P)
        /\ SumOver(one, R) = SumOver([p \in P |-> SumOver(one, B(p))], P)
    <3>1. \A k \in R : CountsOf(t)[k] \in Int /\ one[k] \in Int
      BY <2>2
    <3> HIDE DEF P, R, b, one
    <3>2. QED
      BY <2>2, <2>4, <3>1, SumByBlocks
  <2>8. SumOver(one, R) = Cardinality(R) /\ Cardinality(R) \in Nat
    <3>1. \A k \in R : one[k] = 1
      OBVIOUS
    <3> HIDE DEF R, one
    <3>2. SumOver(one, R) = Cardinality(R) * 1 /\ Cardinality(R) \in Nat
      BY <2>2, <3>1, SumConstant, FS_CardinalityType
    <3>3. QED
      BY <3>2
  <2>9. RecentMean(q, s) = [num |-> SumOf(R, t), den |-> Cardinality(R)]
    <3>1. R # {}
      BY <2>1
    <3>2. QED
      BY <3>1 DEF RecentMean
  <2>10. RecentMean(q, s) = [num |-> PoolSum(s), den |-> PoolSize(s)]
    BY <2>2, <2>5, <2>6, <2>7, <2>8, <2>9
  <2>11. ASSUME Pool(s) = {s}
         PROVE  Deviation(q, s).num = 0
    <3>1. Bearing(Index, s) = R
      <4>1. P = {s} /\ B(s) = Bearing(Index, s)
        BY <2>1, <2>11
      <4> HIDE DEF P, R, b
      <4>2. \A k \in R : b[k] = s
        BY <2>4, <4>1
      <4>3. QED
        BY <4>1, <4>2
    <3>2. BaselineMean(s) = [num |-> SumOf(R, t), den |-> Cardinality(R)]
      BY <3>1 DEF BaselineMean
    <3> HIDE DEF R, t
    <3>3. \A a, n \in Nat : a * n - a * n = 0
      OBVIOUS
    <3>4. QED
      BY <2>2, <2>8, <2>9, <3>2, <3>3 DEF Deviation
  <2>12. QED
    BY <2>10, <2>11
<1>2. ScanInv => RecentIsPooled
  BY <1>1 DEF ScanInv
<1>3. QED
  BY <1>2, ReplayInductive, PTL

-----------------------------------------------------------------------------
(* A series that never varied *)

\* Some two counts of t in the entries S differ.
Varies(S, t) == \E h, j \in S : stored[h].counts[t] # stored[j].counts[t]

\* What never varied has no spread.
LEMMA SteadyHasNoSpread ==
    ASSUME stored \in Histories, NEW t \in PIIType, NEW S, Counting(S, t), ~Varies(S, t)
    PROVE  Trend!Spread(BaselineOf(S, t)) = 0
<1>1. /\ IsFiniteSet(S) /\ S \in SUBSET Index
      /\ \A k \in S : stored[k].counts[t] \in Nat
  BY ShownFacts, FS_Subset DEF Counting
<1>2. SumOf(S, t) = SumOver(CountsOf(t), S) /\ SumOfSquares(S, t) = SumOver(SquaresOf(t), S)
  BY <1>1, SumOfIsSum, SumOfSquaresIsSum
<1>3. PICK c \in Nat : \A k \in S : stored[k].counts[t] = c
  <2>1. CASE S = {}
    BY <2>1
  <2>2. CASE S # {}
    <3>1. PICK k \in S : TRUE
      BY <2>2
    <3>2. \A h \in S : stored[h].counts[t] = stored[k].counts[t]
      BY DEF Varies
    <3>3. QED
      BY <1>1, <3>2
  <2>3. QED
    BY <2>1, <2>2
<1>4. \A k \in S : CountsOf(t)[k] = c /\ SquaresOf(t)[k] = c * c
  BY <1>1, <1>3 DEF CountsOf, SquaresOf
<1>5. c * c \in Int
  OBVIOUS
<1>6. /\ SumOver(CountsOf(t), S) = Cardinality(S) * c
      /\ SumOver(SquaresOf(t), S) = Cardinality(S) * (c * c)
  BY <1>1, <1>4, <1>5, SumConstant
<1>7. Cardinality(S) \in Nat
  BY <1>1, FS_CardinalityType
<1>8. Trend!Spread(BaselineOf(S, t)) =
          Cardinality(S) * SumOfSquares(S, t) - SumOf(S, t) * SumOf(S, t)
  BY DEF Trend!Spread, BaselineOf
<1>9. \A n, d \in Nat : n * (n * (d * d)) - (n * d) * (n * d) = 0
  OBVIOUS
<1>10. QED
  BY <1>2, <1>6, <1>7, <1>8, <1>9

\* Under z_score a count is reported only against a past that varied: a
\* series of equal counts is never in breach of itself, however far the next
\* one lies, at any threshold. (ZScore's stdDev == 0.)
THEOREM SteadyIsQuiet ==
    Spec => [](method = "z_score" =>
                 \A i \in DOMAIN found :
                     Varies(Earlier(found[i][1], found[i][2]), found[i][2]))
<1> DEFINE Quiet == \A i \in DOMAIN found :
                        Varies(Earlier(found[i][1], found[i][2]), found[i][2])
<1>1. ASSUME ScanInv, BreachInv, method = "z_score"
      PROVE  Quiet
  <2> SUFFICES ASSUME NEW i \in DOMAIN found
               PROVE  Varies(Earlier(found[i][1], found[i][2]), found[i][2])
    OBVIOUS
  <2>1. PICK k \in Scan, t \in PIIType : found[i] = <<k, t>>
    BY <1>1 DEF BreachInv
  <2>2. IsBreach(k, t)
    BY <1>1, <2>1 DEF BreachInv
  <2>3. Trend!Spread(BaselineOf(Earlier(k, t), t)) # 0
    BY <1>1, <2>2 DEF IsBreach, Trend!WarmBreach, Trend!ZScoreBreach
  <2>4. Counting(Earlier(k, t), t)
    BY DEF Counting, Earlier, Bearing, Scan, SeriesOf
  <2>5. Varies(Earlier(k, t), t)
    BY <1>1, <2>3, <2>4, SteadyHasNoSpread DEF ScanInv
  <2>6. found[i][1] = k /\ found[i][2] = t
    BY <2>1
  <2>7. QED
    BY <2>5, <2>6
<1>2. QED
  BY <1>1, AnswerInductive, ReplayInductive, PTL
=============================================================================
