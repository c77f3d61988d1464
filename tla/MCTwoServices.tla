---------------------------- MODULE MCTwoServices ----------------------------
(***************************************************************************)
(* Two Services of one Helm chart, monitoring/kube-prometheus-grafana and  *)
(* monitoring/kube-prometheus-alertmanager, with the real bound of 30.     *)
(***************************************************************************)
EXTENDS TwoServices

Alphabet ==
    {"a", "b", "c", "d", "e", "f", "g", "h", "i", "j", "k", "l", "m",
     "n", "o", "p", "q", "r", "s", "t", "u", "v", "w", "x", "y", "z"}
Numerals == {"0", "1", "2", "3", "4", "5", "6", "7", "8", "9"}
NoCapitals == <<>>
ZeroBased == <<<<"0">>>>

Monitoring == <<"m", "o", "n", "i", "t", "o", "r", "i", "n", "g">>
KubePrometheus ==
    <<"k", "u", "b", "e", "-", "p", "r", "o", "m", "e", "t", "h", "e", "u", "s">>

Grafana == [ns |-> Monitoring,
            svc |-> KubePrometheus \o <<"-", "g", "r", "a", "f", "a", "n", "a">>]
Alertmanager ==
    [ns |-> Monitoring,
     svc |-> KubePrometheus \o
             <<"-", "a", "l", "e", "r", "t", "m", "a", "n", "a", "g", "e", "r">>]
=============================================================================
