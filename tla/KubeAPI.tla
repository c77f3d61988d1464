------------------------------- MODULE KubeAPI -------------------------------
(***************************************************************************)
(* One Service object in the API server, the informer cache the controller *)
(* reads it from, and the bit the work queue keeps for its key.            *)
(*                                                                         *)
(* mgr.GetClient() reads from the cache and writes to the server, so a     *)
(* read may return an older version than the server has, and a write based *)
(* on such a version is refused (resourceVersion).  `watch' holds the      *)
(* versions the cache has not seen yet, oldest first.                      *)
(***************************************************************************)
EXTENDS Resources, Sequences

VARIABLES
    svc,     \* the object in the API server
    watch,   \* the versions still to reach the cache
    cache,   \* the version the controller reads
    queued   \* the key is in the work queue

kubeVars == <<svc, watch, cache, queued>>

Types == {"LoadBalancer", "ClusterIP"}

\* What the controller reads and writes of a Service.  `lb' and `tgs' are the
\* two annotations, `ingress' the load balancer whose address is in
\* status.loadBalancer, `exists' FALSE once the object has been removed.
Object == [type : Types, exists : BOOLEAN, deleting : BOOLEAN,
           finalizer : BOOLEAN, lb : LBId \cup {None}, tgs : Seq(TGId),
           ingress : LBId \cup {None}, rv : Nat]

NewService == [type |-> "LoadBalancer", exists |-> TRUE, deleting |-> FALSE,
               finalizer |-> FALSE, lb |-> None, tgs |-> <<>>,
               ingress |-> None, rv |-> 0]

KubeTypeOK ==
    /\ svc \in Object
    /\ watch \in Seq(Object)
    /\ cache \in Object
    /\ queued \in BOOLEAN

\* A LoadBalancer Service was created and the controller has been told.
KubeInit ==
    /\ svc = NewService
    /\ watch = <<>>
    /\ cache = NewService
    /\ queued = TRUE
-----------------------------------------------------------------------------
\* The server accepts a write based on version o.
Current(o) == svc.exists /\ o.rv = svc.rv

\* Bug: only the objects of type LoadBalancer pass.
RelevantByType(o) == o.type = "LoadBalancer"

\* SetupWithManager's event filter, applied to the newest version of an event.
Relevant(o) ==
    \/ o.type = "LoadBalancer"
    \/ o.lb # None
    \/ o.tgs # <<>>

\* The server stores o as the next version.  An object under deletion goes
\* away with its last finalizer.
Store(o) ==
    /\ svc' = [o EXCEPT !.rv = svc.rv + 1,
                        !.exists = ~(o.deleting /\ ~o.finalizer)]
    /\ watch' = Append(watch, svc')
-----------------------------------------------------------------------------
\* What users and other controllers do to the object.
DeleteService ==
    /\ svc.exists /\ ~svc.deleting
    /\ Store([svc EXCEPT !.deleting = TRUE])
    /\ UNCHANGED <<cache, queued>>

ChangeType(type) ==
    /\ svc.exists /\ svc.type # type
    /\ Store([svc EXCEPT !.type = type])
    /\ UNCHANGED <<cache, queued>>

\* A change to a field the controller does not read.
Touch ==
    /\ svc.exists
    /\ Store(svc)
    /\ UNCHANGED <<cache, queued>>

\* One of the two annotations is removed by hand.
Unannotate ==
    /\ svc.exists
    /\ \/ svc.lb # None /\ Store([svc EXCEPT !.lb = None])
       \/ svc.tgs # <<>> /\ Store([svc EXCEPT !.tgs = <<>>])
    /\ UNCHANGED <<cache, queued>>

\* A Service of the same name is applied anew: an object of its own, with no
\* trace of the old one.  (Versions are numbered across objects.)
Reapply ==
    /\ ~svc.exists
    /\ svc' = [NewService EXCEPT !.rv = svc.rv + 1]
    /\ watch' = Append(watch, svc')
    /\ UNCHANGED <<cache, queued>>

\* The informer takes one version in and the filter decides on queueing.
Deliver ==
    /\ watch # <<>>
    /\ cache' = Head(watch)
    /\ watch' = Tail(watch)
    /\ queued' = (queued \/ Relevant(Head(watch)))
    /\ UNCHANGED svc

\* The informer's periodic resync replays the cached version as an update.
Resync ==
    /\ cache.exists /\ Relevant(cache) /\ ~queued
    /\ queued' = TRUE
    /\ UNCHANGED <<svc, watch, cache>>

\* A restarted manager lists the objects afresh.
Relist ==
    /\ cache' = svc
    /\ watch' = <<>>
    /\ queued' = (svc.exists /\ Relevant(svc))
    /\ UNCHANGED svc
=============================================================================
