------------------------------ MODULE MCService ------------------------------
(***************************************************************************)
(* Two instances whose retentions differ, started in any order on a new    *)
(* database or on one of a third retention; a topic with a message that is *)
(* no JSON between two that are.                                           *)
(***************************************************************************)
EXTENDS Service, TLC

CONSTANTS i1, i2, m1, m2, m3

MCNames == <<"series_key", "metric_timestamp">>
MCRetention == (i1 :> 1 @@ i2 :> 2)
Indexes(series, metric) ==
    [n \in {"series_key", "metric_timestamp"} |->
        IF n = "series_key" THEN series ELSE metric]
MCDeployed == {Indexes(-1, -1), Indexes(-1, 3)}
MCTopic == <<m1, m2, m3>>
MCCount == {m1, m2, m3} \X (1..2)
\* The breach of the first message; its repetition falls into the cooldown.
MCAnnounced == {<<m1, 1>>}
MCChannels == <<"slack", "pagerduty">>
=============================================================================
