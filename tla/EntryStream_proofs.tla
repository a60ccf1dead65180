-------------------------- MODULE EntryStream_proofs --------------------------
(***************************************************************************)
(* Proofs about EntryStream, for any number of requests, writers, entries  *)
(* and faults: the dashboard's answers are complete, and so are those of   *)
(* replays over the in-memory storage.                                     *)
(***************************************************************************)
EXTENDS EntryStream, TLAPS

\* Whatever is asked, stored, lost or abandoned, the state of the stream stays
\* well-formed.
THEOREM TypeCorrect == Spec => []TypeOK
<1>1. Init => TypeOK
  BY StreamAssumption
     DEF Init, TypeOK, Entry, Request, Dashboard, AtWork, Answered
<1>2. TypeOK /\ [Next]_vars => TypeOK'
  <2> SUFFICES ASSUME TypeOK, [Next]_vars
               PROVE  TypeOK'
    OBVIOUS
  <2> USE StreamAssumption DEF TypeOK, AtWork, Answered, writing, reading, stream
  <2>1. ASSUME NEW w \in Writer, CallSave(w) \/ Save(w)
        PROVE  TypeOK'
    BY <2>1 DEF CallSave, Save, Announce, AppendEntry, Entry
  <2>2. ASSUME NEW q \in Request, Refuse(q) \/ CallTrends(q)
        PROVE  TypeOK'
    BY <2>2 DEF Refuse, CallTrends, Answer
  <2>3. ASSUME NEW q \in Request, Begin(q) \/ GetAllStats(q)
        PROVE  TypeOK'
    BY <2>3 DEF Begin, GetAllStats, GetEntries, Asked
  <2>4. ASSUME NEW q \in Request, GetAllStatsCutShort(q)
        PROVE  TypeOK'
    <3>1. faults' \in 0..MaxFaults
      BY <2>4 DEF GetAllStatsCutShort, Fails
    <3>2. /\ reader' = [reader EXCEPT ![q] = "reading"]
          /\ producer' = [producer EXCEPT ![q] = "start"]
          /\ owed' = [owed EXCEPT ![q] = Asked(q)]
          /\ UNCHANGED <<stored, writes, announced, seen, sharing, pending, item,
                         failed, gone>>
      BY <2>4 DEF GetAllStatsCutShort, GetEntries
    <3>3. QED
      BY <3>1, <3>2 DEF Asked
  <2>5. ASSUME NEW q \in Request, Leave(q)
        PROVE  TypeOK'
    BY <2>5 DEF Leave
  <2>6. ASSUME NEW q \in Request, ReplayEnds(q) \/ ReplayFails(q) \/ Drained(q) \/ GetBreaches(q)
        PROVE  TypeOK'
    <3>1. PICK a \in {"ok", "error", "breaches"} : Answer(q, a) /\ UNCHANGED faults
      BY <2>6 DEF ReplayEnds, ReplayFails, Drained, GetBreaches
    <3>2. QED
      BY <3>1 DEF Answer
  <2>7. ASSUME NEW q \in Request, GetAllStatsFails(q) \/ GetBreachesFails(q)
        PROVE  TypeOK'
    <3>1. Answer(q, "error") /\ Fails(q)
      BY <2>7 DEF GetAllStatsFails, GetBreachesFails
    <3>2. faults' \in 0..MaxFaults
      BY <3>1 DEF Fails
    <3>3. /\ reader' = [reader EXCEPT ![q] = "error"]
          /\ UNCHANGED <<stored, writes, announced, seen, owed, sharing, producer,
                         pending, item, failed, gone>>
      BY <3>1 DEF Answer
    <3>4. QED
      BY <3>2, <3>3
  <2>8. ASSUME NEW q \in Request, Receive(q)
        PROVE  TypeOK'
    BY <2>8 DEF Receive
  <2>9. ASSUME NEW q \in Request, Find(q) \/ Abandon(q) \/ Close(q)
        PROVE  TypeOK'
    <3>1. CASE Find(q)
      BY <3>1 DEF Find, Matching
    <3>2. CASE Abandon(q)
      BY <3>2 DEF Abandon
    <3>3. CASE Close(q)
      BY <3>3 DEF Close
    <3>4. QED
      BY <2>9, <3>1, <3>2, <3>3
  <2>10. ASSUME NEW q \in Request, Take(q)
         PROVE  TypeOK'
    BY <2>10 DEF Take, Matching
  <2>11. ASSUME NEW q \in Request, FindOrNextFails(q)
         PROVE  TypeOK'
    BY <2>11 DEF FindOrNextFails, Fails
  <2>12. CASE UNCHANGED vars
    BY <2>12 DEF vars
  <2>13. QED
    BY <2>1, <2>2, <2>3, <2>4, <2>5, <2>6, <2>7, <2>8, <2>9, <2>10, <2>11, <2>12
       DEF Next, Read, Produce
<1>3. QED
  BY <1>1, <1>2, PTL DEF Spec

-----------------------------------------------------------------------------
(* The invariant of one request; its arguments are the parts of the state  *)
(* the request lives in                                                    *)

\* What the request is owed is with the reader, or on its way; or it is known
\* to be missing: an error waits, the client has gone, or was given an error.
Covered(p, o, st, s, pd, it) ==
    /\ p = "start" => o \subseteq st
    /\ p = "next" => o \subseteq s \cup pd
    /\ p = "send" => o \subseteq s \cup pd \cup {it}

Accounted(q) ==
    /\ Covered(producer[q], owed[q], Matching(q), seen[q], pending[q], item[q])
    /\ producer[q] \in {"closing", "ended"} =>
        owed[q] \subseteq seen[q] \/ failed[q] \/ q \in gone \/ reader[q] = "error"

\* How far the handler and the goroutine are apart.
InStep(q) ==
    /\ reader[q] \in {"idle", "stats", "refused"} => producer[q] = "none"
    /\ reader[q] \in {"breaches", "ok"} => producer[q] = "ended"
    /\ reader[q] \in {"breaches", "ok"} /\ q \in Dashboard => ~failed[q]
    /\ Storage = "memory" => ~failed[q]

IInv == \A q \in Request : Accounted(q) /\ InStep(q)

\* The storage selects what was asked for.
LEMMA MatchingIsAsked ==
    ASSUME TypeOK, NEW q \in Request
    PROVE  Asked(q) = Matching(q)
BY StreamAssumption DEF Asked, Matching, InRange, TypeOK, Entry

\* A request is unharmed by a step in which its own parts do not change, other
\* than its client going and the storage growing.
LEMMA Unmoved ==
    ASSUME NEW q \in Request, Accounted(q), InStep(q),
           UNCHANGED <<producer[q], owed[q], seen[q], pending[q], item[q],
                       failed[q], reader[q]>>,
           stored \subseteq stored', gone \subseteq gone'
    PROVE  Accounted(q)' /\ InStep(q)'
<1>1. Matching(q) \subseteq Matching(q)'
  BY DEF Matching
<1>2. Accounted(q)'
  BY <1>1 DEF Accounted, Covered
<1>3. InStep(q)'
  BY DEF InStep
<1>4. QED
  BY <1>2, <1>3

\* The steps of a request q, seen from q.
LEMMA Moved ==
    ASSUME TypeOK, NEW q \in Request, Accounted(q), InStep(q),
           \/ Refuse(q) \/ Begin(q) \/ CallTrends(q) \/ Leave(q)
           \/ Read(q) \/ Produce(q)
    PROVE  Accounted(q)' /\ InStep(q)'
<1> USE DEF TypeOK, Accounted, Covered, InStep, AtWork, Answered, writing, reading, stream
<1>1. CASE Refuse(q) \/ CallTrends(q)
  BY <1>1 DEF Refuse, CallTrends, Answer, Matching
<1>2. CASE Begin(q) \/ GetAllStats(q) \/ GetAllStatsCutShort(q)
  <2>1. /\ reader'[q] = "reading" /\ producer'[q] = "start"
        /\ owed'[q] = Asked(q) /\ UNCHANGED <<stored, failed, gone>>
        /\ producer[q] = "none"
    BY <1>2 DEF Begin, GetAllStats, GetAllStatsCutShort, GetEntries
  <2>2. owed'[q] \subseteq Matching(q)'
    BY <2>1, MatchingIsAsked DEF Matching
  <2>3. ~failed[q] \/ Storage # "memory"
    OBVIOUS
  <2>4. QED
    BY <2>1, <2>2, <2>3
<1>3. CASE Leave(q)
  BY <1>3 DEF Leave, Matching
<1>4. CASE ReplayEnds(q) \/ ReplayFails(q) \/ Drained(q)
  BY <1>4, StreamAssumption DEF ReplayEnds, ReplayFails, Drained, Answer, Matching, Request
<1>5. CASE GetBreaches(q) \/ GetBreachesFails(q) \/ GetAllStatsFails(q)
  BY <1>5 DEF GetBreaches, GetBreachesFails, GetAllStatsFails, Answer, Matching, Fails
<1>6. CASE Receive(q)
  BY <1>6 DEF Receive
<1>7. CASE Find(q)
  BY <1>7 DEF Find
<1>8. CASE Take(q)
  BY <1>8 DEF Take
<1>9. CASE Abandon(q)
  BY <1>9 DEF Abandon, Cancelled
<1>10. CASE FindOrNextFails(q)
  BY <1>10 DEF FindOrNextFails, Fails
<1>11. CASE Close(q)
  BY <1>11 DEF Close
<1>12. QED
  BY <1>1, <1>2, <1>3, <1>4, <1>5, <1>6, <1>7, <1>8, <1>9, <1>10, <1>11
     DEF Read, Produce

\* The steps of anyone else.
LEMMA Others ==
    ASSUME TypeOK, NEW q \in Request, Accounted(q), InStep(q),
           \/ \E w \in Writer : CallSave(w) \/ Save(w)
           \/ \E r \in Request \ {q} : \/ Refuse(r) \/ Begin(r) \/ CallTrends(r)
                                       \/ Leave(r) \/ Read(r) \/ Produce(r)
    PROVE  Accounted(q)' /\ InStep(q)'
<1> USE DEF TypeOK, writing, reading, stream
<1>1. ASSUME NEW w \in Writer, CallSave(w) \/ Save(w)
      PROVE  Accounted(q)' /\ InStep(q)'
  BY <1>1, Unmoved DEF CallSave, Save, Announce, AppendEntry
<1>2. ASSUME NEW r \in Request \ {q},
             \/ Refuse(r) \/ Begin(r) \/ CallTrends(r)
             \/ Leave(r) \/ Read(r) \/ Produce(r)
      PROVE  Accounted(q)' /\ InStep(q)'
  <2>1. CASE Refuse(r) \/ Begin(r) \/ CallTrends(r) \/ Leave(r)
    BY <2>1, Unmoved DEF Refuse, Begin, CallTrends, Leave, Answer, GetEntries
  <2>2. CASE Read(r)
    BY <2>2, Unmoved
       DEF Read, Receive, ReplayEnds, ReplayFails, Drained, GetAllStats,
           GetAllStatsCutShort, GetAllStatsFails, GetBreaches, GetBreachesFails, Answer, GetEntries
  <2>3. CASE Produce(r)
    BY <2>3, Unmoved DEF Produce, Find, Take, Abandon, FindOrNextFails, Close
  <2>4. QED
    BY <1>2, <2>1, <2>2, <2>3
<1>3. QED
  BY <1>1, <1>2

\* The strengthening holds throughout.
LEMMA Inductive == Spec => [](TypeOK /\ IInv)
<1>1. Init => IInv
  BY DEF Init, IInv, Accounted, Covered, InStep, Answered
<1>2. TypeOK /\ IInv /\ [Next]_vars => IInv'
  <2> SUFFICES ASSUME TypeOK, IInv, [Next]_vars, NEW q \in Request
               PROVE  Accounted(q)' /\ InStep(q)'
    BY DEF IInv
  <2>1. Accounted(q) /\ InStep(q)
    BY DEF IInv
  <2>2. CASE Next
    BY <2>1, <2>2, Moved, Others DEF Next
  <2>3. CASE UNCHANGED vars
    BY <2>1, <2>3, Unmoved DEF vars, writing, reading, stream
  <2>4. QED
    BY <2>2, <2>3
<1>3. QED
  BY <1>1, <1>2, TypeCorrect, PTL DEF Spec

\* A dashboard's answer is made from every entry it was asked for, or is an
\* error, whatever fails and whenever: the drain ends when the channel is
\* closed, and by then an error waits.
THEOREM DashboardsComplete == Spec => []DashboardsAreComplete
<1>1. IInv => DashboardsAreComplete
  BY DEF IInv, Accounted, InStep, DashboardsAreComplete, Complete, Request
<1>2. QED
  BY <1>1, Inductive, PTL

\* Over the in-memory storage, whose stream cannot fail, so is a replay's.
THEOREM ReplaysComplete ==
    ASSUME Storage = "memory"
    PROVE  Spec => []ReplaysAreComplete
<1>1. IInv => ReplaysAreComplete
  BY DEF IInv, Accounted, InStep, ReplaysAreComplete, Complete, Request
<1>2. QED
  BY <1>1, Inductive, PTL
=============================================================================
