------------------------------- MODULE MCReads -------------------------------
(***************************************************************************)
(* Replay and the dashboard over the same entries: four of them, around    *)
(* the edge of the window, from two organizations that share a source and  *)
(* a context and from a third origin.                                      *)
(***************************************************************************)
EXTENDS Replay, Dashboard

MCOrigin ==
    {[organization |-> "a", context |-> "prod", source |-> "app"],
     [organization |-> "b", context |-> "prod", source |-> "app"],
     [organization |-> "a", context |-> "test", source |-> "app"]}

\* Few counts, but such that each may break out of those before it.
MCCounts == {[email |-> 1], [email |-> 9, ssn |-> 1], [email |-> 2, ssn |-> 4]}

\* Minutes: at 70 an entry is at the edge of the window of the one at 130, and
\* the one at 9 is not in it.
MCTimes == {<<9, 70, 70, 130>>, <<9, 70, 129, 131>>}
MCZones == <<"+00", "+02", "+00", "+00">>

MCHistories ==
    {[k \in 1..4 |-> [timestamp |-> times[k], zone |-> MCZones[k],
                      origin |-> origins[k], counts |-> counts[k]]] :
        times \in MCTimes,
        origins \in {f \in [1..4 -> MCOrigin] :
                        /\ f[1].organization = "a" /\ f[1].context = "prod"
                        /\ Cardinality({k \in 1..4 : f[k] = f[1]}) >= 3},
        counts \in {c \in [1..4 -> MCCounts] : c[1] = [email |-> 1]}}

MCRequest(start, end, test, types) ==
    [start_time |-> start, end_time |-> end, test_threshold |-> test,
     pii_types |-> types]

MCTest == [num |-> 1, den |-> 2]

MCRequests ==
    {MCRequest(9, 131, MCTest, {}),
     MCRequest(10, 131, MCTest, {}),
     MCRequest(9, 131, MCTest, {"ssn"}),
     MCRequest(0, 131, MCTest, {}),
     MCRequest(131, 9, Zero, {}),
     MCRequest(1, 400, MCTest, {})}
=============================================================================
