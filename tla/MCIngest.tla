------------------------------ MODULE MCIngest ------------------------------
(***************************************************************************)
(* Instances of Ingest for TLC: which requests there are, what they carry  *)
(* and which process gets them.                                            *)
(***************************************************************************)
EXTENDS Ingest, TLC

CONSTANTS i1, i2, r1, r2, r3, r4, slot

Count(types) == [source |-> "host", organization |-> "", context |-> "prod",
                 timestamp |-> Never, counts |-> types]

\* Two processes and three counts of one series: two large, one small.
PairAt == [r \in Request |-> IF r = r2 THEN i2 ELSE i1]
PairPayload ==
    [r \in Request |-> Count([ssn |-> IF r \in {r1, r2} THEN 9 ELSE 1])]

\* One process, a request with two types, one with a timestamp of its own that
\* shares a type with the first, and one that does not pass validation.
AloneAt == [r \in Request |-> i1]
WidePayload ==
    r1 :> Count([ssn |-> 1, email |-> 2])
    @@ r2 :> [Count([ssn |-> 9]) EXCEPT !.timestamp = 2,
                                        !.organization = "default"]
    @@ r3 :> Count("a.b" :> 3)

OneSlot == [s \in Series |-> slot]

\* The counts 0 and 2 have been seen.
MCSeed == [ZeroStats EXCEPT !.count = 2, !.sum = 2, !.sumsq = 4, !.version = 2]

MCOne == [num |-> 1, den |-> 1]
MCHalf == [num |-> 1, den |-> 2]
=============================================================================
