-------------------------- MODULE ServiceProperties --------------------------
(***************************************************************************)
(* What the Service reconciler is meant to guarantee about the cloud       *)
(* resources it makes on behalf of a Service.                              *)
(***************************************************************************)
EXTENDS ServiceController

\* A load balancer whose id was ever written to the lb-id annotation runs only
\* while the Service exists, still names it and is held by the finalizer: it
\* cannot be forgotten.  deleteNaverCloudLB and the writes after it work from
\* a copy read minutes earlier; the id may have been recorded, or the object
\* deleted, since then, and only the version check of the last Update can tell.
RecordedLBOwned ==
    \A lb \in recorded :
        Alive(lb) => svc.exists /\ svc.lb = lb /\ svc.finalizer

\* The published address is the one of the load balancer in the annotation,
\* the one deletion would remove.  Two writes set them, each from its own
\* read of the object (updateServiceAnnotations and Reconcile's status part).
IngressOwned ==
    svc.exists /\ svc.ingress # None => svc.ingress = svc.lb

\* A listener sends a port's traffic to the target group made for that port.
\* createListenersSequentially pairs ports and ids by position alone, after
\* retries in which some ids were made and others found by their names.
ListenersMatch == \A l \in listeners : tgPort[l.tg] = l.port

CloudResourceMade ==
    \/ \E lb \in LBId : lbStatus[lb] = "UNMADE" /\ lbStatus'[lb] # "UNMADE"
    \/ \E tg \in TGId : tgPort[tg] = 0 /\ tgPort'[tg] # 0

\* Nothing is made in the cloud unless, at that moment, the server's object
\* exists and carries the finalizer: the copy that says so may be old.
CreatedUnderFinalizer ==
    [][CloudResourceMade => svc.exists /\ svc.finalizer]_vars

\* A write never takes an id out of the target-groups annotation: each of the
\* several writers of the object rewrites all of it from a cached copy, which
\* may be of an earlier Service of the same name.
TargetGroupsKept ==
    [][svc.exists =>
           \A i \in 1..Len(svc.tgs) :
               i <= Len(svc'.tgs) /\ svc'.tgs[i] = svc.tgs[i]]_vars

\* The whole machinery, from the API server to the cloud, implements the
\* simple account of ownership: a load balancer is made for a held Service
\* that names none, named once, removed only if named and only on deletion,
\* and the finalizer goes after it.
Ownership == INSTANCE LBOwnership WITH
    present <- svc.exists,
    leaving <- svc.deleting,
    held    <- svc.finalizer,
    named   <- svc.lb,
    running <- {lb \in LBId : Alive(lb)},
    renewed <- spent["apply"] > 0

ImplementsOwnership == Ownership!Spec

\* What the controller has not done yet for the object o.
Pending(o) ==
    /\ o.exists
    /\ \/ IsLB(o) /\ o.deleting /\ o.finalizer
       \/ IsLB(o) /\ ~o.deleting
             /\ (~o.finalizer \/ o.lb = None \/ o.ingress # o.lb)
       \/ ~IsLB(o) /\ HasAnnotation(o)

\* While something is left to do, something is under way that will see it: the
\* key is queued, a version is on its way to the cache, or the worker is busy.
\* A reconcile that returns nil takes its key out of the queue for good, though
\* it worked from an old copy; only the event filter brings the key back.
NothingForgotten ==
    Pending(svc) => queued \/ watch # <<>> \/ pc # "idle"

\* A load balancer that nobody has asked to go uses the target group.
HeldOpen(tg) == \E l \in listeners : l.tg = tg /\ Alive(l.lb)

\* A target group the Service named goes with it, unless its removal was tried
\* and given up, or a load balancer uses it that stays.  deleteNaverCloudLB
\* works from an old copy and only logs what it leaves, may be broken off and
\* begun again, and the writes between its steps, or its own last one, may be
\* of other versions; so a group could also be passed over without a word.
NamedGroupsGo ==
    ~svc.exists =>
        \A i \in 1..Len(svc.tgs) :
            svc.tgs[i] \in tgLive =>
                svc.tgs[i] \in givenUp \/ HeldOpen(svc.tgs[i])

\* How many steps a reconcile can still take from a place with index i, when n
\* target groups are to be removed.
StepsFrom(place, i, n) ==
    CASE place = "idle"     -> 0
      [] place \in {"addFinalizer", "dropFinalizer", "clearStatus",
                    "publish"} -> 1
      [] place \in {"strip", "recordLB", "refresh"} -> 2
      [] place = "listen"   -> NumPorts - i + 3
      [] place = "createLB" -> NumPorts + 3
      [] place = "recordTG" -> NumPorts + 2 * (NumPorts - i) + 4
      [] place = "createTG" -> NumPorts + 2 * (NumPorts - i) + 5
      [] place = "deleteTG" -> n - i + 4
      [] place = "deleteLB" -> n + 4

StepsLeft == StepsFrom(pc, idx, Len(cp.tgs))

\* A reconcile comes back to the queue, whatever it meets: each of its steps
\* leaves it fewer, and nobody else can give it more.  Until then the single
\* worker has time for no other Service, while the annotation that a loop goes
\* by may grow, writes are refused and calls fail.
WorkerComesBack ==
    [][pc # "idle" =>
           \/ StepsLeft' \in 0..(StepsLeft - 1)
           \/ ~Worker /\ UNCHANGED StepsLeft]_vars

\* A deleted Service goes away: the finalizer does not hold it for ever.
DeletionCompletes == svc.deleting ~> ~svc.exists

\* A LoadBalancer Service gets an external address, unless it is deleted.
Exposed == svc.exists ~> (svc.ingress # None \/ svc.deleting)

\* A LoadBalancer Service names its load balancer, unless it is deleted, and
\* names it again if the annotation is removed by hand.  (A document advises it
\* to force everything to be made anew; the creation starts over, but meets
\* resources that exist, and has to find them by their names.)
Named == svc.exists ~> (svc.lb # None \/ svc.deleting)

\* A Service that stays another type loses both annotations for good, though
\* ids may still be written after the type change, by a reconcile that began
\* before it, and only the event filter brings the key back.
CleanupCompletes ==
    <>[](svc.exists /\ ~IsLB(svc)) => <>[](~HasAnnotation(svc))
-----------------------------------------------------------------------------
(* Promises of the documents and comments that the code does not keep.     *)

\* After the Service is gone nothing made for it is left in the cloud but
\* what has been asked to go.
NothingLeftBehind ==
    ~svc.exists => tgLive = {} /\ \A lb \in LBId : ~Alive(lb)

\* Listeners missing when the address was published are created in the end.
ListenersFollow ==
    svc.ingress # None ~>
        (svc.deleting \/ \A p \in Ports : \E lb \in LBId : Served(lb, p))
=============================================================================
