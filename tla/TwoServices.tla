----------------------------- MODULE TwoServices -----------------------------
(***************************************************************************)
(* Two Services in the hands of one worker, in one cloud account, whose    *)
(* cloud resources get the same names.  ResourceNames says that they do,   *)
(* ServiceController what becomes of each; the cloud's variables and the   *)
(* worker's are shared, and the cloud tells resources apart by name only.  *)
(***************************************************************************)
EXTENDS Resources, Sequences

CONSTANTS
    Letters, Digits, Lower, MaxName,   \* as in ResourceNames
    First, Second,                     \* namespace and name of each Service
    Position,                          \* how the index of a port is written
    PromptCloud, DeleteMissingFails    \* as in ServiceController

VARIABLES
    svc1, watch1, cache1, queued1,     \* the first Service
    svc2, watch2, cache2, queued2,     \* the second
    lbStatus, tgPort, tgLive, listeners,
    pc, cp, idx, tgIds, lbId,
    who,                               \* the Service the worker was last given
    spent, recorded, givenUp           \* of ServiceController (spent on nothing)

kube1 == <<svc1, watch1, cache1, queued1>>
kube2 == <<svc2, watch2, cache2, queued2>>
vars == <<kube1, kube2, lbStatus, tgPort, tgLive, listeners,
          pc, cp, idx, tgIds, lbId, who, spent, recorded, givenUp>>

Names == INSTANCE ResourceNames WITH
    Namespaces <- {First.ns, Second.ns}, Services <- {First.svc, Second.svc},
    MaxServices <- 2, given <- {}

LBNameOf(s) == Names!generateValidName(Names!LB, s.ns, s.svc, <<>>)
TGNameOf(s) ==
    [p \in Ports |-> Names!generateValidName(Names!TG, s.ns, s.svc, Position[p])]

Undisturbed ==
    [d \in {"fault", "crash", "touch", "type", "apply", "unannotate"} |-> 0]

One == INSTANCE ServiceController WITH
    svc <- svc1, watch <- watch1, cache <- cache1, queued <- queued1,
    TGName <- TGNameOf(First), Limit <- Undisturbed

Two == INSTANCE ServiceController WITH
    svc <- svc2, watch <- watch2, cache <- cache2, queued <- queued2,
    TGName <- TGNameOf(Second), Limit <- Undisturbed

\* The names of all that is made for the two are the same.
SameNames ==
    /\ First # Second
    /\ LBNameOf(First) = LBNameOf(Second) /\ TGNameOf(First) = TGNameOf(Second)

Init == SameNames /\ One!Init /\ Two!Init /\ who = 1
-----------------------------------------------------------------------------
\* The one worker takes a key only when it has finished with the last.
WorkOnFirst ==
    /\ pc = "idle" \/ who = 1
    /\ One!Worker
    /\ who' = 1 /\ UNCHANGED kube2

WorkOnSecond ==
    /\ pc = "idle" \/ who = 2
    /\ Two!Worker
    /\ who' = 2 /\ UNCHANGED kube1

\* The user, the informer and its resync.
AroundFirst ==
    /\ One!User \/ One!Informer \/ One!PeriodicResync
    /\ UNCHANGED <<kube2, who>>

AroundSecond ==
    /\ Two!User \/ Two!Informer \/ Two!PeriodicResync
    /\ UNCHANGED <<kube1, who>>

Cloud ==
    /\ \E lb \in LBId : One!CloudProgress(lb)
    /\ UNCHANGED <<kube2, who>>

Next == WorkOnFirst \/ WorkOnSecond \/ AroundFirst \/ AroundSecond \/ Cloud

Spec == Init /\ [][Next]_vars
-----------------------------------------------------------------------------
Published(s) == s.exists /\ ~s.deleting /\ s.ingress # None

\* As the tests of generateValidName have it, different Services get resources
\* of their own: the load balancer whose address a Service shows is not taken
\* down while nobody deletes that Service.
PublishedStays ==
    /\ Published(svc1) => One!Alive(svc1.ingress)
    /\ Published(svc2) => Two!Alive(svc2.ingress)
=============================================================================
