---------------------------- MODULE MCAlertGroup ----------------------------
EXTENDS AlertGroup, TLC

\* Two pods of one Deployment, and a pod of a StatefulSet.
Pod(name) == [namespace |-> "shop", alertname |-> <<"x">>, pod |-> name]

MCLabels ==
    "a1" :> Pod(<<"api", "7d9f6c5b8", "x2k4z">>) @@
    "a2" :> Pod(<<"api", "7d9f6c5b8", "q8w7r">>) @@
    "a3" :> Pod(<<"db", "0">>)

MCWorkload == "a1" :> "api" @@ "a2" :> "api" @@ "a3" :> "db"

\* Owners that share a name, alert names that contain the delimiters.
MCCatalogue ==
    {[MCLabels["a1"] EXCEPT !.alertname = n] : n \in {<<"x", "#", "2">>, <<"#", "x">>, <<"x", "/">>, <<"#">>}} \cup
    {[MCLabels["a3"] EXCEPT !.pod = p] : p \in {<<"db", "1">>, <<"db">>, <<"db", "x2k4z">>}} \cup
    {[namespace |-> "shop", alertname |-> <<"x">>, deployment |-> <<"api">>],
     [namespace |-> "shop", alertname |-> <<"x">>, job_name |-> <<"api", "28840860">>],
     [namespace |-> "shop", alertname |-> <<"x">>, cronjob |-> <<"api">>, pod |-> <<"api", "28840860", "x2k4z">>],
     [namespace |-> "shop", alertname |-> <<"x">>],
     [alertname |-> <<"x">>, pod |-> <<"api">>]}

MCNumeral == <<<<"1">>, <<"2">>, <<"3">>>>

MCSymbols ==
    {"api", "db", "0", "1", "2", "3", "7d9f6c5b8", "x2k4z", "q8w7r", "28840860", "shop",
     "cluster", "unknown", "x", "#", "/"}
=============================================================================
