-------------------------- MODULE ServiceController --------------------------
(***************************************************************************)
(* The Service reconciler (internal/controller/service_controller.go): one *)
(* worker taking one Service from a LoadBalancer request to a Naver Cloud  *)
(* load balancer with a target group and a listener per port, and back.    *)
(*                                                                         *)
(* Every call the worker makes to the API server or to the cloud that can  *)
(* change something is a step of its own; between two of them the user,    *)
(* the informer, the cloud or a crash may act.  A Get and the Update that  *)
(* follows it at once are one step: a write that slips in between refuses  *)
(* the Update exactly as one the cache had not yet seen would.             *)
(***************************************************************************)
EXTENDS KubeAPI, NaverCloud

CONSTANTS
    Limit,              \* how often each kind of disturbance may happen
    PromptCloud,        \* the cloud settles within the code's waits
    DeleteMissingFails  \* the cloud refuses to delete what is not alive

Disturbances == {"fault", "crash", "touch", "type", "apply", "unannotate"}

ASSUME LimitAssumption == Limit \in [Disturbances -> Nat]
ASSUME SwitchAssumption ==
    PromptCloud \in BOOLEAN /\ DeleteMissingFails \in BOOLEAN

VARIABLES
    pc,        \* where the worker is in Reconcile
    cp,        \* `service', as read when this reconcile began
    idx,       \* index of the port or target group being worked on
    tgIds,     \* targetGroupIDs, as collected by this reconcile
    lbId,      \* lbID
    spent,     \* disturbances so far
    recorded,  \* history: load balancers ever written to the annotation
    givenUp    \* history: target groups a deletion left, though nothing that
               \* is to stay uses them: a call failed, or the tries ran out

workerVars == <<pc, cp, idx, tgIds, lbId>>
vars == <<svc, watch, cache, queued, lbStatus, tgPort, tgLive, listeners,
          pc, cp, idx, tgIds, lbId, spent, recorded, givenUp>>

Creating == {"createTG", "recordTG", "createLB", "listen", "recordLB"}
Labels == Creating \cup
    {"idle", "addFinalizer", "deleteLB", "deleteTG", "dropFinalizer",
     "strip", "clearStatus", "refresh", "publish"}

WorkerTypeOK ==
    /\ pc \in Labels
    /\ cp \in Object
    /\ idx \in Nat
    /\ tgIds \in Seq(TGId)
    /\ lbId \in LBId \cup {None}

\* Types and ranges of all variables.
TypeOK ==
    /\ KubeTypeOK /\ CloudTypeOK /\ WorkerTypeOK
    /\ spent \in [Disturbances -> Nat]
    /\ recorded \subseteq LBId /\ givenUp \subseteq TGId

Init ==
    /\ KubeInit /\ CloudInit
    /\ pc = "idle" /\ cp = NewService /\ idx = 0 /\ tgIds = <<>> /\ lbId = None
    /\ spent = [d \in Disturbances |-> 0]
    /\ recorded = {} /\ givenUp = {}

Spend(d) ==
    /\ spent[d] < Limit[d]
    /\ spent' = [spent EXCEPT ![d] = @ + 1]
-----------------------------------------------------------------------------
(* How a reconcile goes on and ends.                                       *)

Goto(label, i) == pc' = label /\ idx' = i

\* Reconcile returns: its local variables are forgotten.
Return ==
    /\ pc' = "idle" /\ cp' = NewService /\ idx' = 0
    /\ tgIds' = <<>> /\ lbId' = None

\* Return without error or RequeueAfter.
Done == Return /\ UNCHANGED queued

\* Bug: the error is logged and nil returned.
RetryForgotten == Done

\* Return with an error or RequeueAfter: the key is queued again.
Retry == Return /\ queued' = TRUE

\* The worker takes the key and reads the object from the cache.
Take(label) ==
    /\ pc = "idle" /\ queued
    /\ queued' = FALSE
    /\ pc' = label /\ cp' = cache /\ idx' = 1
    /\ UNCHANGED <<svc, watch, cache, cloudVars, tgIds,
                   spent, recorded, givenUp>>

HasAnnotation(o) == o.lb # None \/ o.tgs # <<>>
IsLB(o) == o.type = "LoadBalancer"

\* Gone, or nothing to clean up, or deletion without our finalizer.
StartNothing ==
    /\ \/ ~cache.exists
       \/ ~IsLB(cache) /\ ~HasAnnotation(cache)
       \/ IsLB(cache) /\ cache.deleting /\ ~cache.finalizer
    /\ pc = "idle" /\ queued
    /\ queued' = FALSE
    /\ UNCHANGED <<svc, watch, cache, cloudVars, workerVars,
                   spent, recorded, givenUp>>

\* The type was changed away from LoadBalancer.
StartCleanup ==
    /\ cache.exists /\ ~IsLB(cache) /\ HasAnnotation(cache)
    /\ Take("deleteLB") /\ UNCHANGED lbId

\* Bug: the finalizer alone is taken for a deletion.
StartDeletionUnasked ==
    /\ cache.exists /\ IsLB(cache) /\ cache.finalizer
    /\ Take("deleteLB") /\ UNCHANGED lbId

\* The object is being deleted and our finalizer holds it.
StartDeletion ==
    /\ cache.exists /\ IsLB(cache) /\ cache.deleting /\ cache.finalizer
    /\ Take("deleteLB") /\ UNCHANGED lbId

StartFinalizer ==
    /\ cache.exists /\ IsLB(cache) /\ ~cache.deleting /\ ~cache.finalizer
    /\ Take("addFinalizer") /\ UNCHANGED lbId

\* reconcileNaverCloudLB without an lb-id annotation: creation.
StartCreation ==
    /\ cache.exists /\ IsLB(cache) /\ ~cache.deleting /\ cache.finalizer
    /\ cache.lb = None
    /\ Take("createTG") /\ UNCHANGED lbId

\* reconcileNaverCloudLB with one: only the address is looked up again.
StartRefresh ==
    /\ cache.exists /\ IsLB(cache) /\ ~cache.deleting /\ cache.finalizer
    /\ cache.lb # None
    /\ Take("refresh") /\ lbId' = cache.lb
-----------------------------------------------------------------------------
(* Writes that fail.                                                       *)

\* An Update based on a stale copy, where Reconcile returns the error.
ConflictOf(label, copy) ==
    /\ pc = label /\ ~Current(copy)
    /\ Retry
    /\ UNCHANGED <<svc, watch, cache, cloudVars, spent, recorded, givenUp>>

Conflict ==
    \/ ConflictOf("addFinalizer", cp)
    \/ ConflictOf("dropFinalizer", cp)
    \/ ConflictOf("clearStatus", cp)
    \/ ConflictOf("strip", cache)
    \/ (cache.exists => cache.lb # lbId) /\ ConflictOf("recordLB", cache)
    \/ (cache.exists => cache.ingress # lbId) /\ ConflictOf("publish", cache)

\* Credentials, a lookup, a write or a cloud call fails without effect, where
\* Reconcile returns the error.  deleteNaverCloudLB fails at nothing when
\* there is nothing to delete.
FailPoints == {"addFinalizer", "deleteLB", "dropFinalizer", "strip",
               "clearStatus", "createTG", "createLB", "recordLB", "refresh",
               "publish"}
Fail ==
    /\ pc \in FailPoints
    /\ pc = "deleteLB" => HasAnnotation(cp)
    /\ Spend("fault")
    /\ Retry
    /\ UNCHANGED <<svc, watch, cache, cloudVars, recorded, givenUp>>
-----------------------------------------------------------------------------
(* The finalizer.                                                          *)

\* Bug: Reconcile goes on to create, whether or not the Update succeeded.
AddFinalizerGoesOn ==
    /\ pc = "addFinalizer"
    /\ IF Current(cp) THEN Store([cp EXCEPT !.finalizer = TRUE])
                      ELSE UNCHANGED <<svc, watch>>
    /\ Goto("createTG", 1)
    /\ UNCHANGED <<cache, queued, cloudVars, cp, tgIds, lbId,
                   spent, recorded, givenUp>>

AddFinalizer ==
    /\ pc = "addFinalizer" /\ Current(cp)
    /\ Store([cp EXCEPT !.finalizer = TRUE])
    /\ Done
    /\ UNCHANGED <<cache, cloudVars, spent, recorded, givenUp>>

DropFinalizer ==
    /\ pc = "dropFinalizer" /\ Current(cp)
    /\ Store([cp EXCEPT !.finalizer = FALSE])
    /\ Done
    /\ UNCHANGED <<cache, cloudVars, spent, recorded, givenUp>>
-----------------------------------------------------------------------------
(* reconcileNaverCloudLB: creation.                                        *)

\* The loop over the ports goes on to the next one, or is over.
NextPort(label, after) ==
    IF idx < NumPorts THEN Goto(label, idx + 1) ELSE Goto(after, 1)

\* The target group's name is free.
MakeTG ==
    /\ pc = "createTG"
    /\ \E tg \in TGId :
          /\ CreateTG(tg, idx)
          /\ \/ /\ tgIds' = Append(tgIds, tg) /\ Goto("recordTG", idx)
                /\ UNCHANGED <<queued, cp, lbId, spent>>
             \* made, but neither the response nor the lookup says so
             \/ Spend("fault") /\ Retry
    /\ UNCHANGED <<svc, watch, cache, recorded, givenUp>>

\* Bug: the first target group listed is taken for the holder.
FindTGFirst ==
    /\ pc = "createTG"
    /\ \E tg \in tgLive :
          /\ tgIds' = Append(tgIds, tg) /\ Goto("recordTG", idx)
    /\ UNCHANGED <<kubeVars, cloudVars, cp, lbId, spent, recorded, givenUp>>

\* Bug: a failed lookup, which leaves the id empty, goes unnoticed.
FindTGUnchecked ==
    /\ pc = "createTG"
    /\ \E tg \in tgLive :
          /\ Holds(tg, idx)
          /\ tgIds' \in {Append(tgIds, tg), Append(tgIds, None)}
          /\ Goto("recordTG", idx)
    /\ UNCHANGED <<kubeVars, cloudVars, cp, lbId, spent, recorded, givenUp>>

\* The name is taken: the lookup by name finds the holder.
FindTG ==
    /\ pc = "createTG"
    /\ \E tg \in tgLive :
          /\ Holds(tg, idx)
          /\ tgIds' = Append(tgIds, tg) /\ Goto("recordTG", idx)
    /\ UNCHANGED <<kubeVars, cloudVars, cp, lbId, spent, recorded, givenUp>>

\* Bug: the annotation is set to the new id alone.
RecordTGOverwriting ==
    /\ pc = "recordTG"
    /\ IF Current(cache) THEN Store([cache EXCEPT !.tgs = <<tgIds[idx]>>])
                         ELSE UNCHANGED <<svc, watch>>
    /\ NextPort("createTG", "createLB")
    /\ UNCHANGED <<cache, queued, cloudVars, cp, tgIds, lbId,
                   spent, recorded, givenUp>>

\* The id is added to the target-groups annotation, if the object read just
\* before lacks it.  Whatever goes wrong is logged and the loop goes on.
RecordTG ==
    /\ pc = "recordTG"
    /\ LET tg == tgIds[idx]
           known == \E i \in 1..Len(cache.tgs) : cache.tgs[i] = tg IN
       \/ /\ ~known /\ Current(cache)
          /\ Store([cache EXCEPT !.tgs = Append(cache.tgs, tg)])
          /\ UNCHANGED spent
       \/ /\ known \/ ~Current(cache)
          /\ UNCHANGED <<svc, watch, spent>>
       \/ Spend("fault") /\ UNCHANGED <<svc, watch>>
    /\ NextPort("createTG", "createLB")
    /\ UNCHANGED <<cache, queued, cloudVars, cp, tgIds, lbId,
                   recorded, givenUp>>

\* The load balancer's name is free.
MakeLB ==
    /\ pc = "createLB"
    /\ \E lb \in LBId :
          /\ CreateLB(lb)
          /\ \/ /\ lbId' = lb /\ Goto("listen", 1)
                /\ UNCHANGED <<queued, cp, tgIds, spent>>
             \* made, but the response is lost
             \/ Spend("fault") /\ Retry
    /\ UNCHANGED <<svc, watch, cache, recorded, givenUp>>

\* Bug: the duplicate name's error code is not recognised.
FindLBFailing ==
    /\ pc = "createLB"
    /\ \E lb \in LBId : Listed(lb)
    /\ Retry
    /\ UNCHANGED <<svc, watch, cache, cloudVars, spent, recorded, givenUp>>

\* The name is taken: the list call finds the holder, whatever its status.
FindLB ==
    /\ pc = "createLB"
    /\ \E lb \in LBId : Listed(lb) /\ lbId' = lb
    /\ Goto("listen", 1)
    /\ UNCHANGED <<kubeVars, cloudVars, cp, tgIds, spent, recorded, givenUp>>

\* Creation is refused, as by the account's quota: the ids have run out.
QuotaReached ==
    /\ \/ /\ pc = "createTG"
          /\ \A tg \in TGId : tgPort[tg] # 0
          /\ \A tg \in tgLive : ~Holds(tg, idx)
       \/ /\ pc = "createLB"
          /\ \A lb \in LBId : lbStatus[lb] = "GONE"
    /\ Retry
    /\ UNCHANGED <<svc, watch, cache, cloudVars, spent, recorded, givenUp>>

\* A wait for lbId to be RUN has run out of retries.
WaitedInVain ==
    /\ lbStatus[lbId] # "RUN"
    /\ PromptCloud => lbStatus[lbId] # "INIT"

\* The search for lbId's external address has run out of retries, though the
\* load balancer may be RUN by now.
NoAddress ==
    PromptCloud => lbStatus[lbId] \notin {"INIT", "RUN"}

\* One port of createListenersSequentially.
Listen ==
    /\ pc = "listen"
    /\ \/ /\ CreateListener(lbId, idx, tgIds[idx])
          /\ UNCHANGED spent
       \/ /\ Served(lbId, idx) \/ WaitedInVain
          /\ UNCHANGED <<cloudVars, spent>>
       \/ Spend("fault") /\ UNCHANGED cloudVars
    /\ NextPort("listen", "recordLB")
    /\ UNCHANGED <<kubeVars, cp, tgIds, lbId, recorded, givenUp>>

\* Bug: the error of updateServiceAnnotations is only logged.
RecordLBUnchecked ==
    /\ pc = "recordLB"
    /\ IF cache.lb # lbId /\ Current(cache)
       THEN /\ Store([cache EXCEPT !.lb = lbId])
            /\ recorded' = recorded \cup {lbId}
       ELSE UNCHANGED <<svc, watch, recorded>>
    /\ Goto("publish", 1)
    /\ UNCHANGED <<cache, queued, cloudVars, cp, tgIds, lbId, spent, givenUp>>

\* updateServiceAnnotations, after the search for the external address.
\* Without an address the status is PENDING and Reconcile asks to be requeued.
RecordLB ==
    /\ pc = "recordLB" /\ cache.exists
    /\ \/ /\ cache.lb = lbId
          /\ UNCHANGED <<svc, watch, recorded>>
       \/ /\ cache.lb # lbId /\ Current(cache)
          /\ Store([cache EXCEPT !.lb = lbId])
          /\ recorded' = recorded \cup {lbId}
    /\ \/ /\ lbStatus[lbId] = "RUN"
          /\ Goto("publish", 1) /\ UNCHANGED <<queued, cp, tgIds, lbId>>
       \/ NoAddress /\ Retry
    /\ UNCHANGED <<cache, cloudVars, spent, givenUp>>
-----------------------------------------------------------------------------
(* reconcileNaverCloudLB: update, and the status both ways end with.       *)

\* Bug: an address that is not there yet is not asked for again.
RefreshOnce ==
    /\ pc = "refresh"
    /\ IF lbStatus[lbId] = "RUN"
       THEN Goto("publish", 1) /\ UNCHANGED <<queued, cp, tgIds, lbId>>
       ELSE Done
    /\ UNCHANGED <<svc, watch, cache, cloudVars, spent, recorded, givenUp>>

Refresh ==
    /\ pc = "refresh"
    /\ \/ /\ lbStatus[lbId] = "RUN"
          /\ Goto("publish", 1) /\ UNCHANGED <<queued, cp, tgIds, lbId>>
       \/ lbStatus[lbId] # "RUN" /\ Retry
    /\ UNCHANGED <<svc, watch, cache, cloudVars, spent, recorded, givenUp>>

Publish ==
    /\ pc = "publish" /\ cache.exists
    /\ \/ /\ cache.ingress = lbId
          /\ UNCHANGED <<svc, watch>>
       \/ /\ cache.ingress # lbId /\ Current(cache)
          /\ Store([cache EXCEPT !.ingress = lbId])
    /\ Done
    /\ UNCHANGED <<cache, cloudVars, spent, recorded, givenUp>>
-----------------------------------------------------------------------------
(* deleteNaverCloudLB, for the object as read when the reconcile began.    *)

SkipLB ==
    /\ pc = "deleteLB" /\ cp.lb = None
    /\ Goto("deleteTG", 1)
    /\ UNCHANGED <<kubeVars, cloudVars, cp, tgIds, lbId,
                   spent, recorded, givenUp>>

\* Bug: the error is only logged, as it is for target groups.
RemoveLBLogged ==
    /\ pc = "deleteLB" /\ cp.lb # None
    /\ \/ DeleteLB(cp.lb) /\ UNCHANGED spent
       \/ Spend("fault") /\ UNCHANGED cloudVars
    /\ Goto("deleteTG", 1)
    /\ UNCHANGED <<kubeVars, cp, tgIds, lbId, recorded, givenUp>>

RemoveLB ==
    /\ pc = "deleteLB" /\ cp.lb # None
    /\ DeleteMissingFails => Alive(cp.lb)
    /\ DeleteLB(cp.lb)
    /\ \/ Goto("deleteTG", 1) /\ UNCHANGED <<queued, cp, tgIds, lbId, spent>>
       \* done, but the response is lost
       \/ Spend("fault") /\ Retry
    /\ UNCHANGED <<svc, watch, cache, recorded, givenUp>>

LBMissing ==
    /\ pc = "deleteLB" /\ cp.lb # None
    /\ DeleteMissingFails /\ ~Alive(cp.lb)
    /\ Retry
    /\ UNCHANGED <<svc, watch, cache, cloudVars, spent, recorded, givenUp>>

\* A load balancer that is being deleted uses the target group.
Releasing(tg) ==
    \E l \in listeners : l.tg = tg /\ lbStatus[l.lb] = "TERMINATING"

\* Five tries on one target group have run out.
StillInUse(tg) == TGInUse(tg) /\ (PromptCloud => ~Releasing(tg))

\* Bug: a target group that is in use starts the deletion over.
RemoveTGStartingOver ==
    /\ pc = "deleteTG" /\ idx <= Len(cp.tgs)
    /\ \/ DeleteTG(cp.tgs[idx]) /\ Goto("deleteTG", idx + 1)
       \/ /\ StillInUse(cp.tgs[idx])
          /\ Goto("deleteLB", 1) /\ UNCHANGED cloudVars
    /\ UNCHANGED <<kubeVars, cp, tgIds, lbId, spent, recorded, givenUp>>

\* One target group: deleted, or left behind with a log line.
RemoveTG ==
    /\ pc = "deleteTG" /\ idx <= Len(cp.tgs)
    /\ LET tg == cp.tgs[idx] IN
       \/ DeleteTG(tg) /\ UNCHANGED <<spent, givenUp>>
       \/ /\ StillInUse(tg)
          /\ givenUp' = IF Releasing(tg) THEN givenUp \cup {tg} ELSE givenUp
          /\ UNCHANGED <<cloudVars, spent>>
       \/ /\ Spend("fault")
          /\ givenUp' = givenUp \cup {tg}
          /\ UNCHANGED cloudVars
    /\ Goto("deleteTG", idx + 1)
    /\ UNCHANGED <<kubeVars, cp, tgIds, lbId, recorded>>

\* Bug: the last target group of the annotation is passed over.
DeletionDoneEarly ==
    /\ pc = "deleteTG" /\ idx >= Len(cp.tgs)
    /\ Goto(IF IsLB(cp) THEN "dropFinalizer" ELSE "strip", 1)
    /\ UNCHANGED <<kubeVars, cloudVars, cp, tgIds, lbId,
                   spent, recorded, givenUp>>

\* deleteNaverCloudLB returns nil.
DeletionDone ==
    /\ pc = "deleteTG" /\ idx > Len(cp.tgs)
    /\ Goto(IF IsLB(cp) THEN "dropFinalizer" ELSE "strip", 1)
    /\ UNCHANGED <<kubeVars, cloudVars, cp, tgIds, lbId,
                   spent, recorded, givenUp>>

\* After a type change: the object is read again and stripped.  An Update
\* that changes nothing makes no new version.
Strip ==
    /\ pc = "strip" /\ Current(cache)
    /\ LET bare == [cache EXCEPT !.lb = None, !.tgs = <<>>, !.finalizer = FALSE]
       IN  IF bare = cache THEN UNCHANGED <<svc, watch>> ELSE Store(bare)
    /\ pc' = "clearStatus" /\ cp' = svc'
    /\ UNCHANGED <<cache, queued, cloudVars, idx, tgIds, lbId,
                   spent, recorded, givenUp>>

\* Update has refreshed the copy's status from the server, so whether
\* Status().Update clears the ingress is up to the API server's version.
ClearStatus ==
    /\ pc = "clearStatus" /\ Current(cp)
    /\ \/ cp.ingress # None /\ Store([cp EXCEPT !.ingress = None])
       \/ UNCHANGED <<svc, watch>>
    /\ Done
    /\ UNCHANGED <<cache, cloudVars, spent, recorded, givenUp>>
-----------------------------------------------------------------------------
(* Everyone else.                                                          *)

User ==
    /\ \/ DeleteService /\ UNCHANGED spent
       \/ Spend("type") /\ \E type \in Types : ChangeType(type)
       \/ Spend("touch") /\ Touch
       \/ Spend("apply") /\ Reapply
       \/ Spend("unannotate") /\ Unannotate
    /\ UNCHANGED <<cloudVars, workerVars, recorded, givenUp>>

Informer ==
    /\ Deliver
    /\ UNCHANGED <<cloudVars, workerVars, spent, recorded, givenUp>>

PeriodicResync ==
    /\ Resync
    /\ UNCHANGED <<cloudVars, workerVars, spent, recorded, givenUp>>

CloudProgress(lb) ==
    /\ FinishBuild(lb) \/ FinishDelete(lb)
    /\ UNCHANGED <<kubeVars, workerVars, spent, recorded, givenUp>>

\* The controller process dies and is started again.
Crash ==
    /\ Spend("crash")
    /\ Relist
    /\ Return
    /\ UNCHANGED <<cloudVars, recorded, givenUp>>

Worker ==
    \/ StartNothing \/ StartCleanup \/ StartDeletion \/ StartFinalizer
    \/ StartCreation \/ StartRefresh
    \/ Conflict \/ Fail \/ AddFinalizer \/ DropFinalizer
    \/ MakeTG \/ FindTG \/ RecordTG \/ MakeLB \/ FindLB \/ QuotaReached
    \/ Listen \/ RecordLB \/ Refresh \/ Publish
    \/ SkipLB \/ RemoveLB \/ LBMissing \/ RemoveTG \/ DeletionDone
    \/ Strip \/ ClearStatus

Next ==
    \/ Worker \/ Informer \/ PeriodicResync
    \/ User \/ Crash
    \/ \E lb \in LBId : CloudProgress(lb)

Spec == Init /\ [][Next]_vars

\* The worker goroutine, the informer and the cloud do not stop for ever;
\* nobody has to delete, crash or resync.
Fairness ==
    /\ WF_vars(Worker)
    /\ WF_vars(Informer)
    /\ \A lb \in LBId : WF_vars(CloudProgress(lb))

FairSpec == Spec /\ Fairness
=============================================================================
