---------------------------- MODULE ServiceProofs ----------------------------
(***************************************************************************)
(* Theorems about the Service reconciler, for every number of ports, every *)
(* quota and every number of faults, crashes and foreign writes.           *)
(***************************************************************************)
EXTENDS ServiceProperties, TLAPS

(***************************************************************************)
(* Type correctness.  TypeOK is not inductive: that ports and ids stay in  *)
(* their ranges depends on where the worker's loops stand.                 *)
(***************************************************************************)
LoopInv ==
    /\ pc = "idle" => tgIds = <<>>
    /\ pc \in {"createTG", "recordTG", "listen"} => idx \in Ports
    /\ pc = "createTG" => Len(tgIds) = idx - 1
    /\ pc = "recordTG" => Len(tgIds) = idx
    /\ pc \in {"createLB", "listen"} => Len(tgIds) = NumPorts
    /\ pc \in {"listen", "recordLB", "refresh", "publish"} => lbId \in LBId
    /\ pc \in {"deleteLB", "deleteTG"} => idx >= 1

TypeInv == TypeOK /\ LoopInv

USE NumPortsAssumption, QuotaAssumption, LimitAssumption, SwitchAssumption

LEMMA InitTypeInv == Init => TypeInv
  BY DEF WorkerTypeOK, Init, KubeInit, CloudInit, TypeInv, TypeOK, KubeTypeOK, CloudTypeOK,
         LoopInv, NewService, Object, Types, Status, Labels, Creating, None,
         Disturbances

LEMMA NewServiceType == NewService \in Object
  BY DEF NewService, Object, Types, None

\* Storing an object of the right type keeps the API server's types.
LEMMA StoreType ==
  ASSUME TypeOK, NEW o \in Object, Store(o)
  PROVE  svc' \in Object /\ watch' \in Seq(Object)
  <1> DEFINE n == [o EXCEPT !.rv = svc.rv + 1,
                            !.exists = ~(o.deleting /\ ~o.finalizer)]
  <1>1. svc.rv + 1 \in Nat
    BY DEF TypeOK, KubeTypeOK, Object
  <1>2. (~(o.deleting /\ ~o.finalizer)) \in BOOLEAN
    OBVIOUS
  <1>3. n \in Object
    <2>1. \A r \in Nat, b \in BOOLEAN :
             [o EXCEPT !.rv = r, !.exists = b] \in Object
      BY DEF Object
    <2>2. QED  BY <1>1, <1>2, <2>1
  <1>4. svc' = n
    BY DEF Store
  <1>5. watch' = Append(watch, n)
    BY DEF Store
  <1>6. watch \in Seq(Object)
    BY DEF TypeOK, KubeTypeOK
  <1>7. QED  BY <1>3, <1>4, <1>5, <1>6

LEMMA SpendType ==
  ASSUME TypeOK, NEW d \in Disturbances, Spend(d)
  PROVE  spent' \in [Disturbances -> Nat]
  BY DEF TypeOK, Spend

\* A reconcile that returns forgets its locals, one that begins reads an object.
LEMMA ReturnType ==
  ASSUME Return
  PROVE  WorkerTypeOK' /\ LoopInv'
  <1>1. WorkerTypeOK'
    BY NewServiceType DEF Return, WorkerTypeOK, Labels, Creating, None
  <1>2. LoopInv'
    BY DEF Return, LoopInv
  <1>3. QED  BY <1>1, <1>2

LEMMA TakeType ==
  ASSUME TypeInv, NEW label \in Labels, Take(label),
         label \notin {"recordTG", "listen", "createLB", "recordLB", "publish"},
         lbId' \in LBId \cup {None},
         label = "refresh" => lbId' \in LBId
  PROVE  TypeInv'
  <1> USE DEF TypeInv, TypeOK, Take
  <1>1. KubeTypeOK' /\ CloudTypeOK'
    BY DEF KubeTypeOK, CloudTypeOK, cloudVars
  <1>2. WorkerTypeOK'
    BY DEF KubeTypeOK, WorkerTypeOK
  <1>3. LoopInv'
    BY DEF LoopInv, Ports
  <1>4. QED  BY <1>1, <1>2, <1>3

LEMMA NextTypeInv == TypeInv /\ [Next]_vars => TypeInv'
  <1> SUFFICES ASSUME TypeInv, [Next]_vars
               PROVE  TypeInv'
    OBVIOUS
  <1> USE NewServiceType DEF TypeInv, TypeOK, KubeTypeOK, CloudTypeOK, WorkerTypeOK,
                             LoopInv
  <1>1. CASE StartNothing
    BY <1>1 DEF StartNothing, workerVars, cloudVars
  <1>2. CASE StartCleanup
    BY <1>2, TakeType DEF StartCleanup, Labels, Creating
  <1>3. CASE StartDeletion
    BY <1>3, TakeType DEF StartDeletion, Labels, Creating
  <1>4. CASE StartFinalizer
    BY <1>4, TakeType DEF StartFinalizer, Labels, Creating
  <1>5. CASE StartCreation
    BY <1>5, TakeType DEF StartCreation, Labels, Creating
  <1>6. CASE StartRefresh
    BY <1>6, TakeType DEF StartRefresh, Labels, Creating, Object, None
  <1>7. CASE Conflict
    BY <1>7, ReturnType DEF Conflict, ConflictOf, Retry, cloudVars
  <1>8. CASE Fail
    <2>1. spent' \in [Disturbances -> Nat]
      BY <1>8, SpendType DEF Fail, Disturbances
    <2>2. QED
      BY <1>8, <2>1, ReturnType DEF Fail, Retry, cloudVars
  <1>9. CASE AddFinalizer
    <2> DEFINE o == [cp EXCEPT !.finalizer = TRUE]
    <2>1. o \in Object
      BY <1>9 DEF AddFinalizer, Object, None, LoopInv
    <2>2. svc' \in Object /\ watch' \in Seq(Object)
      BY <1>9, <2>1, StoreType DEF AddFinalizer
    <2>3. QED
      BY <1>9, <2>2 DEF AddFinalizer, cloudVars, Labels, Creating, None, Retry, Done, Return
  <1>10. CASE DropFinalizer
    <2> DEFINE o == [cp EXCEPT !.finalizer = FALSE]
    <2>1. o \in Object
      BY <1>10 DEF DropFinalizer, Object, None, LoopInv
    <2>2. svc' \in Object /\ watch' \in Seq(Object)
      BY <1>10, <2>1, StoreType DEF DropFinalizer
    <2>3. QED
      BY <1>10, <2>2 DEF DropFinalizer, cloudVars, Labels, Creating, None, Retry, Done, Return
  <1>11. CASE MakeTG
    <2>1. CloudTypeOK'
      BY <1>11 DEF MakeTG, CreateTG
    <2>2. CASE Spend("fault") /\ Retry
      <3>1. spent' \in [Disturbances -> Nat]
        BY <2>2, SpendType DEF Disturbances
      <3>2. QED
        BY <1>11, <2>1, <2>2, <3>1, ReturnType DEF MakeTG, Retry
    <2>3. CASE ~(Spend("fault") /\ Retry)
      <3>1. PICK tg \in TGId : tgIds' = Append(tgIds, tg)
        BY <1>11, <2>3 DEF MakeTG
      <3>2. pc' = "recordTG" /\ idx' = idx /\ pc = "createTG"
        BY <1>11, <2>3 DEF MakeTG, Goto
      <3>3. UNCHANGED <<svc, watch, cache, queued, cp, lbId, spent, recorded,
                       givenUp>>
        BY <1>11, <2>3 DEF MakeTG
      <3>4. WorkerTypeOK' /\ LoopInv'
        BY <3>1, <3>2, <3>3 DEF Labels, Creating
      <3>5. QED  BY <2>1, <3>3, <3>4
    <2>4. QED  BY <2>2, <2>3
  <1>12. CASE FindTG
    BY <1>12 DEF FindTG, kubeVars, cloudVars, Goto, Labels, Creating
  <1>13. CASE RecordTG
    <2>1. tgIds[idx] \in TGId
      BY <1>13 DEF RecordTG, Ports
    <2>2. cache.tgs \in Seq(TGId)
      BY DEF Object
    <2>3. Append(cache.tgs, tgIds[idx]) \in Seq(TGId)
      BY <2>1, <2>2
    <2>4. \A s \in Seq(TGId) : [cache EXCEPT !.tgs = s] \in Object
      BY DEF Object
    <2>5. svc' \in Object /\ watch' \in Seq(Object)
      BY <1>13, <2>3, <2>4, StoreType DEF RecordTG
    <2>6. spent' \in [Disturbances -> Nat]
      BY <1>13, SpendType DEF RecordTG, Disturbances
    <2>7. WorkerTypeOK' /\ LoopInv'
      BY <1>13 DEF RecordTG, NextPort, Goto, Ports, Labels, Creating
    <2>8. QED
      BY <1>13, <2>5, <2>6, <2>7 DEF RecordTG, cloudVars
  <1>14. CASE MakeLB
    <2>1. CloudTypeOK'
      BY <1>14 DEF MakeLB, CreateLB, Status
    <2>2. CASE Spend("fault") /\ Retry
      <3>1. spent' \in [Disturbances -> Nat]
        BY <2>2, SpendType DEF Disturbances
      <3>2. QED
        BY <1>14, <2>1, <2>2, <3>1, ReturnType DEF MakeLB, Retry
    <2>3. CASE ~(Spend("fault") /\ Retry)
      <3>1. /\ lbId' \in LBId /\ pc = "createLB" /\ pc' = "listen" /\ idx' = 1
            /\ UNCHANGED <<svc, watch, cache, queued, cp, tgIds, spent,
                           recorded, givenUp>>
        BY <1>14, <2>3 DEF MakeLB, Goto
      <3>2. WorkerTypeOK' /\ LoopInv'
        BY <3>1 DEF Labels, Creating, Ports
      <3>3. QED  BY <2>1, <3>1, <3>2
    <2>4. QED  BY <2>2, <2>3
  <1>15. CASE FindLB
    BY <1>15 DEF FindLB, kubeVars, cloudVars, Goto, Ports, Labels, Creating
  <1>16. CASE QuotaReached
    BY <1>16 DEF QuotaReached, cloudVars, Labels, Creating, None, Retry, Done, Return
  <1>17. CASE Listen
    <2>1. tgIds[idx] \in TGId
      BY <1>17 DEF Listen, Ports
    <2>2. listeners' \subseteq Listener
      BY <1>17, <2>1 DEF Listen, CreateListener, Listener, cloudVars
    <2>3. spent' \in [Disturbances -> Nat]
      BY <1>17 DEF Listen, Spend
    <2>4. QED
      BY <1>17, <2>2, <2>3 DEF Listen, CreateListener, NextPort, Goto, kubeVars,
         cloudVars, Ports, Labels, Creating
  <1>18. CASE RecordLB
    <2>1. [cache EXCEPT !.lb = lbId] \in Object
      BY DEF Object
    <2>2. svc' \in Object /\ watch' \in Seq(Object)
      BY <1>18, <2>1, StoreType DEF RecordLB
    <2>3. recorded' \subseteq LBId
      BY <1>18 DEF RecordLB
    <2>4. CloudTypeOK' /\ UNCHANGED <<cache, spent, givenUp>>
      BY <1>18 DEF RecordLB, cloudVars
    <2>5. CASE Retry
      BY <2>2, <2>3, <2>4, <2>5, ReturnType DEF Retry
    <2>6. CASE ~Retry
      <3>1. /\ pc = "recordLB" /\ pc' = "publish" /\ idx' = 1
            /\ UNCHANGED <<queued, cp, tgIds, lbId>>
        BY <1>18, <2>6 DEF RecordLB, Goto
      <3>2. WorkerTypeOK' /\ LoopInv'
        BY <3>1 DEF Labels, Creating
      <3>3. QED  BY <2>2, <2>3, <2>4, <3>1, <3>2
    <2>7. QED  BY <2>5, <2>6
  <1>19. CASE Refresh
    <2>1. CloudTypeOK' /\ UNCHANGED <<svc, watch, cache, spent, recorded, givenUp>>
      BY <1>19 DEF Refresh, cloudVars
    <2>2. CASE Retry
      BY <2>1, <2>2, ReturnType DEF Retry
    <2>3. CASE ~Retry
      <3>1. /\ pc = "refresh" /\ pc' = "publish" /\ idx' = 1
            /\ UNCHANGED <<queued, cp, tgIds, lbId>>
        BY <1>19, <2>3 DEF Refresh, Goto
      <3>2. WorkerTypeOK' /\ LoopInv'
        BY <3>1 DEF Labels, Creating
      <3>3. QED  BY <2>1, <3>1, <3>2
    <2>4. QED  BY <2>2, <2>3
  <1>20. CASE Publish
    <2> DEFINE o == [cache EXCEPT !.ingress = lbId]
    <2>1. o \in Object
      BY <1>20 DEF Publish, Object, None, LoopInv
    <2>2. svc' \in Object /\ watch' \in Seq(Object)
      BY <1>20, <2>1, StoreType DEF Publish
    <2>3. QED
      BY <1>20, <2>2 DEF Publish, cloudVars, Labels, Creating, None, Retry, Done, Return
  <1>21. CASE SkipLB
    BY <1>21 DEF SkipLB, kubeVars, cloudVars, Goto, Labels, Creating
  <1>22. CASE RemoveLB
    <2>1. CloudTypeOK' /\ UNCHANGED <<svc, watch, cache, recorded, givenUp>>
      BY <1>22 DEF RemoveLB, DeleteLB, Status
    <2>2. CASE Spend("fault") /\ Retry
      <3>1. spent' \in [Disturbances -> Nat]
        BY <2>2, SpendType DEF Disturbances
      <3>2. QED
        BY <2>1, <2>2, <3>1, ReturnType DEF Retry
    <2>3. CASE ~(Spend("fault") /\ Retry)
      <3>1. /\ pc = "deleteLB" /\ pc' = "deleteTG" /\ idx' = 1
            /\ UNCHANGED <<queued, cp, tgIds, lbId, spent>>
        BY <1>22, <2>3 DEF RemoveLB, Goto
      <3>2. WorkerTypeOK' /\ LoopInv'
        BY <3>1 DEF Labels, Creating
      <3>3. QED  BY <2>1, <3>1, <3>2
    <2>4. QED  BY <2>2, <2>3
  <1>23. CASE LBMissing
    BY <1>23 DEF LBMissing, cloudVars, Labels, Creating, None, Retry, Done, Return
  <1>24. CASE RemoveTG
    <2>1. cp.tgs[idx] \in TGId
      <3>1. cp.tgs \in Seq(TGId) /\ idx \in 1..Len(cp.tgs)
        BY <1>24 DEF RemoveTG, Object
      <3>2. QED  BY <3>1
    <2>2. givenUp' \subseteq TGId
      BY <1>24, <2>1 DEF RemoveTG
    <2>3. CloudTypeOK' /\ UNCHANGED <<svc, watch, cache, queued, recorded>>
      BY <1>24 DEF RemoveTG, DeleteTG, kubeVars, cloudVars
    <2>4. spent' \in [Disturbances -> Nat]
      BY <1>24, SpendType DEF RemoveTG, Disturbances
    <2>5. WorkerTypeOK' /\ LoopInv'
      BY <1>24 DEF RemoveTG, Goto, Labels, Creating
    <2>6. QED  BY <2>2, <2>3, <2>4, <2>5
  <1>25. CASE DeletionDone
    BY <1>25 DEF DeletionDone, kubeVars, cloudVars, Goto, IsLB, Labels, Creating
  <1>26. CASE Strip
    <2> DEFINE o == [cache EXCEPT !.lb = None, !.tgs = <<>>,
                                  !.finalizer = FALSE]
    <2>1. \A l \in LBId \cup {None}, s \in Seq(TGId), f \in BOOLEAN :
             [cache EXCEPT !.lb = l, !.tgs = s, !.finalizer = f] \in Object
      BY DEF Object
    <2>2. <<>> \in Seq(TGId) /\ FALSE \in BOOLEAN
      OBVIOUS
    <2>3. o \in Object
      BY <2>1, <2>2, Zenon
    <2>4. svc' \in Object /\ watch' \in Seq(Object)
      <3>1. CASE Store(o)
        BY <2>3, <3>1, StoreType
      <3>2. CASE UNCHANGED <<svc, watch>>
        BY <3>2
      <3>3. QED  BY <1>26, <3>1, <3>2 DEF Strip
    <2>5. QED
      BY <1>26, <2>4 DEF Strip, cloudVars, Labels, Creating
  <1>27. CASE ClearStatus
    <2> DEFINE o == [cp EXCEPT !.ingress = None]
    <2>1. o \in Object
      BY <1>27 DEF ClearStatus, Object, None, LoopInv
    <2>2. svc' \in Object /\ watch' \in Seq(Object)
      BY <1>27, <2>1, StoreType DEF ClearStatus
    <2>3. QED
      BY <1>27, <2>2 DEF ClearStatus, cloudVars, Labels, Creating, None, Retry, Done, Return
  <1>28. CASE Informer
    BY <1>28 DEF Informer, Deliver, cloudVars, workerVars
  <1>29. CASE PeriodicResync
    BY <1>29 DEF PeriodicResync, Resync, cloudVars, workerVars
  <1>30. CASE User
    <2>1. /\ [svc EXCEPT !.deleting = TRUE] \in Object
          /\ \A type \in Types : [svc EXCEPT !.type = type] \in Object
          /\ [svc EXCEPT !.lb = None] \in Object
          /\ \A s \in Seq(TGId) : [svc EXCEPT !.tgs = s] \in Object
      BY DEF Object
    <2>2. [NewService EXCEPT !.rv = svc.rv + 1] \in Object
      <3>1. svc.rv + 1 \in Nat
        BY DEF Object
      <3>2. \A n \in Nat : [NewService EXCEPT !.rv = n] \in Object
        BY DEF Object
      <3>3. QED  BY <3>1, <3>2
    <2>3. svc' \in Object /\ watch' \in Seq(Object)
      <3>1. CASE DeleteService \/ Touch \/ \E type \in Types : ChangeType(type)
        BY <2>1, <3>1, StoreType DEF DeleteService, ChangeType, Touch
      <3>2. CASE Reapply
        BY <2>2, <3>2 DEF Reapply
      <3>3. CASE Unannotate
        <4>1. [svc EXCEPT !.tgs = <<>>] \in Object
          <5>1. <<>> \in Seq(TGId)
            OBVIOUS
          <5>2. QED  BY <2>1, <5>1
        <4>2. QED  BY <2>1, <3>3, <4>1, StoreType DEF Unannotate
      <3>4. QED  BY <1>30, <3>1, <3>2, <3>3 DEF User
    <2>4. spent' \in [Disturbances -> Nat]
      BY <1>30, SpendType DEF User, Disturbances
    <2>5. UNCHANGED <<cache, queued, cloudVars, workerVars, recorded, givenUp>>
      BY <1>30 DEF User, DeleteService, ChangeType, Touch, Reapply, Unannotate
    <2>6. QED
      BY <2>3, <2>4, <2>5 DEF cloudVars, workerVars
  <1>31. CASE Crash
    <2>1. spent' \in [Disturbances -> Nat]
      BY <1>31, SpendType DEF Crash, Disturbances
    <2>2. WorkerTypeOK' /\ LoopInv'
      BY <1>31, ReturnType DEF Crash
    <2>3. KubeTypeOK' /\ CloudTypeOK'
      BY <1>31 DEF Crash, Relist, cloudVars
    <2>4. QED  BY <1>31, <2>1, <2>2, <2>3 DEF Crash
  <1>32. CASE \E lb \in LBId : CloudProgress(lb)
    BY <1>32 DEF CloudProgress, FinishBuild, FinishDelete, Status, kubeVars,
                 workerVars, Listener
  <1>33. CASE UNCHANGED vars
    BY <1>33 DEF vars
  <1>34. QED
    BY <1>1, <1>2, <1>3, <1>4, <1>5, <1>6, <1>7, <1>8, <1>9, <1>10, <1>11, <1>12, <1>13, <1>14, <1>15, <1>16, <1>17, <1>18, <1>19, <1>20, <1>21, <1>22, <1>23, <1>24, <1>25, <1>26, <1>27, <1>28, <1>29, <1>30, <1>31, <1>32, <1>33 DEF Next, Worker

\* Every variable keeps to its type: with the ids it read, the worker never
\* indexes past the target groups it has collected.
THEOREM TypeCorrect == Spec => []TypeOK
  <1>1. TypeInv => TypeOK
    BY DEF TypeInv
  <1>2. QED
    BY InitTypeInv, NextTypeInv, <1>1, PTL DEF Spec
-----------------------------------------------------------------------------
\* Nobody but the worker changes where it is, unless it dies.
LEMMA OthersWait ==
  ASSUME [Next]_vars, ~Worker
  PROVE  pc' = "idle" \/ UNCHANGED <<pc, idx, cp>>
  BY DEF Next, User, Informer, PeriodicResync, CloudProgress, Crash, Return,
         workerVars, vars

\* How the worker gets to the target groups it removes, and past them.
LEMMA AtDeletion ==
  ASSUME [Next]_vars, pc' \in {"deleteTG", "dropFinalizer"}
  PROVE  \/ RemoveTG
         \/ DeletionDone
         \/ (SkipLB \/ RemoveLB) /\ pc' = "deleteTG" /\ idx' = 1 /\ cp' = cp
         \/ UNCHANGED <<pc, idx, cp>>
  <1>1. CASE Worker
    <2>1. CASE StartNothing
      BY <2>1 DEF StartNothing, workerVars
    <2>2. CASE StartCleanup \/ StartDeletion \/ StartFinalizer
               \/ StartCreation \/ StartRefresh
      BY <2>2 DEF StartCleanup, StartDeletion, StartFinalizer, StartCreation,
                  StartRefresh, Take
    <2>3. CASE Conflict \/ Fail \/ QuotaReached \/ LBMissing
      BY <2>3 DEF Conflict, ConflictOf, Fail, QuotaReached, LBMissing, Retry,
                  Return
    <2>4. CASE AddFinalizer \/ DropFinalizer \/ Publish \/ ClearStatus \/ Strip
      BY <2>4 DEF AddFinalizer, DropFinalizer, Publish, ClearStatus, Strip,
                  Done, Return
    <2>5. CASE MakeTG \/ FindTG \/ RecordTG \/ MakeLB \/ FindLB \/ Listen
      BY <2>5 DEF MakeTG, FindTG, RecordTG, MakeLB, FindLB, Listen, NextPort,
                  Goto, Retry, Return
    <2>6. CASE RecordLB \/ Refresh
      BY <2>6 DEF RecordLB, Refresh, Goto, Retry, Return
    <2>7. CASE SkipLB \/ RemoveLB
      BY <2>7 DEF SkipLB, RemoveLB, Goto, Retry, Return
    <2>8. QED
      BY <1>1, <2>1, <2>2, <2>3, <2>4, <2>5, <2>6, <2>7 DEF Worker
  <1>2. CASE ~Worker
    BY <1>2, OthersWait
  <1>3. QED  BY <1>1, <1>2
-----------------------------------------------------------------------------
\* The steps that write the Service or move the cache.
KubeWrite ==
    \/ AddFinalizer \/ DropFinalizer \/ RecordTG \/ RecordLB \/ Publish
    \/ Strip \/ ClearStatus \/ User \/ Informer \/ Crash

LEMMA KubeFrame ==
  ASSUME [Next]_vars, ~KubeWrite
  PROVE  UNCHANGED <<svc, watch, cache>>
  <1> USE DEF KubeWrite
  <1>1. CASE Worker
    <2>1. CASE StartNothing \/ StartCleanup \/ StartDeletion \/ StartFinalizer
               \/ StartCreation \/ StartRefresh
      BY <2>1 DEF StartNothing, StartCleanup, StartDeletion, StartFinalizer,
                  StartCreation, StartRefresh, Take
    <2>2. CASE Conflict \/ Fail \/ QuotaReached \/ Refresh
      BY <2>2 DEF Conflict, ConflictOf, Fail, QuotaReached, Refresh
    <2>3. CASE MakeTG \/ FindTG \/ MakeLB \/ FindLB \/ Listen
      BY <2>3 DEF MakeTG, FindTG, MakeLB, FindLB, Listen, kubeVars
    <2>4. CASE SkipLB \/ RemoveLB \/ LBMissing \/ RemoveTG \/ DeletionDone
      BY <2>4 DEF SkipLB, RemoveLB, LBMissing, RemoveTG, DeletionDone, kubeVars
    <2>5. QED  BY <1>1, <2>1, <2>2, <2>3, <2>4 DEF Worker
  <1>2. CASE ~Worker
    BY <1>2 DEF Next, PeriodicResync, Resync, CloudProgress, kubeVars, vars
  <1>3. QED  BY <1>1, <1>2

\* What a write leaves in the server.
LEMMA StoreFields ==
  ASSUME TypeInv, NEW o \in Object, Store(o)
  PROVE  /\ svc'.lb = o.lb /\ svc'.ingress = o.ingress
         /\ svc'.finalizer = o.finalizer /\ svc'.deleting = o.deleting
         /\ svc'.exists = (~o.deleting \/ o.finalizer)
  <1>1. svc' = [o EXCEPT !.rv = svc.rv + 1,
                         !.exists = ~(o.deleting /\ ~o.finalizer)]
    BY DEF Store
  <1>2. QED  BY <1>1 DEF Object
-----------------------------------------------------------------------------
\* The cache, or what is on its way to it, ends with the server's version.
CaughtUp ==
    IF watch = <<>> THEN cache = svc ELSE watch[Len(watch)] = svc

\* A step leaves server and cache alone, or stores one version, or delivers
\* one, or lists them all.
LEMMA WatchStep ==
  ASSUME [Next]_vars
  PROVE  \/ UNCHANGED <<svc, watch, cache>>
         \/ watch' = Append(watch, svc') /\ cache' = cache
         \/ Deliver
         \/ Crash
  <1>1. CASE ~KubeWrite
    BY <1>1, KubeFrame
  <1>2. CASE AddFinalizer \/ DropFinalizer
    BY <1>2 DEF AddFinalizer, DropFinalizer, Store
  <1>3. CASE RecordTG \/ RecordLB \/ Publish
    BY <1>3 DEF RecordTG, RecordLB, Publish, Store
  <1>4. CASE Strip \/ ClearStatus
    BY <1>4 DEF Strip, ClearStatus, Store
  <1>5. CASE User
    BY <1>5 DEF User, DeleteService, ChangeType, Touch, Reapply, Unannotate, Store
  <1>6. CASE Informer \/ Crash
    BY <1>6 DEF Informer
  <1>7. QED  BY <1>1, <1>2, <1>3, <1>4, <1>5, <1>6 DEF KubeWrite

\* The informer misses nothing.
LEMMA CaughtUpStep ==
  ASSUME TypeInv, CaughtUp, [Next]_vars
  PROVE  CaughtUp'
  <1>1. watch \in Seq(Object)
    BY DEF TypeInv, TypeOK, KubeTypeOK
  <1>2. CASE UNCHANGED <<svc, watch, cache>>
    BY <1>2 DEF CaughtUp
  <1>3. CASE watch' = Append(watch, svc') /\ cache' = cache
    <2>1. watch' # <<>> /\ watch'[Len(watch')] = svc'
      BY <1>1, <1>3
    <2>2. QED  BY <2>1 DEF CaughtUp
  <1>4. CASE Deliver
    <2>1. watch # <<>> /\ cache' = Head(watch) /\ watch' = Tail(watch) /\ svc' = svc
      BY <1>4 DEF Deliver
    <2>2. watch[Len(watch)] = svc
      BY <2>1 DEF CaughtUp
    <2>3. Len(watch) \in Nat /\ Len(watch) >= 1 /\ Len(watch') = Len(watch) - 1
      BY <1>1, <2>1
    <2>4. CASE watch' = <<>>
      <3>1. Len(watch) = 1
        BY <2>3, <2>4
      <3>2. Head(watch) = watch[1]
        BY <1>1, <2>1
      <3>3. QED  BY <2>1, <2>2, <2>4, <3>1, <3>2 DEF CaughtUp
    <2>5. CASE watch' # <<>>
      <3>1. Len(watch') >= 1 /\ watch' \in Seq(Object)
        BY <1>1, <2>1, <2>5
      <3>2. watch'[Len(watch')] = watch[Len(watch') + 1]
        BY <1>1, <2>1, <2>3, <3>1
      <3>3. Len(watch') + 1 = Len(watch)
        BY <2>3
      <3>4. QED  BY <2>1, <2>2, <2>5, <3>2, <3>3 DEF CaughtUp
    <2>6. QED  BY <2>4, <2>5
  <1>5. CASE Crash
    BY <1>5 DEF Crash, Relist, CaughtUp
  <1>6. QED  BY <1>2, <1>3, <1>4, <1>5, WatchStep
=============================================================================
