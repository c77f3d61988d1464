----------------------------- MODULE QueueProofs -----------------------------
(***************************************************************************)
(* No work is forgotten: for every number of faults, crashes, foreign      *)
(* writes, type changes, removed annotations and renewed Services,         *)
(* whatever is left to do has something under way that will see it.        *)
(*                                                                         *)
(* The argument: the key leaves the queue when the worker takes it, and    *)
(* every later version that matters brings it back.  So while the key is   *)
(* not queued and nothing is on its way, the worker's copy is what the     *)
(* cache shows, and what the cache shows is what the server has; and a     *)
(* reconcile of that very object returns nil only when it has stored a new *)
(* version or found nothing to do.                                         *)
(***************************************************************************)
EXTENDS ServiceProofs

\* Nothing will make the worker look at the cache again.
Unwoken == ~queued /\ watch = <<>> /\ Relevant(cache)

Making == Creating \cup {"refresh", "publish"}
Ending == {"idle", "clearStatus"}

\* What the worker's place in Reconcile says about its copy.
CopyInv ==
    /\ pc = "strip" => ~IsLB(cp)
    /\ pc \in Making => IsLB(cp) /\ ~cp.deleting /\ cp.finalizer
    /\ pc = "refresh" => lbId = cp.lb

\* What is known when nothing will: the copy is up to date, and a reconcile
\* that ends with it leaves nothing to do.
WakeInv ==
    Unwoken =>
        /\ pc \notin Ending => cp = cache
        /\ pc = "publish" => cp.lb = lbId
        /\ pc \in Ending => ~Pending(cache)

QueueInv == TypeInv /\ CaughtUp /\ CopyInv /\ WakeInv

\* A Service is created with its key queued.
LEMMA InitQueueInv == Init => QueueInv
  <1> SUFFICES ASSUME Init
               PROVE  QueueInv
    OBVIOUS
  <1>1. TypeInv
    BY InitTypeInv
  <1>2. CaughtUp /\ WakeInv
    BY DEF Init, KubeInit, CaughtUp, WakeInv, Unwoken
  <1>3. CopyInv
    BY DEF Init, CopyInv, Making, Creating
  <1>4. QED  BY <1>1, <1>2, <1>3 DEF QueueInv

\* A reconcile that creates or refreshes began with a held LoadBalancer Service.
LEMMA CopyStep ==
  ASSUME CopyInv, [Next]_vars
  PROVE  CopyInv'
  <1> USE DEF CopyInv, Making, Creating, IsLB
  <1>1. CASE Worker
    <2>1. CASE StartNothing \/ StartCleanup \/ StartDeletion \/ StartFinalizer
      BY <2>1 DEF StartNothing, StartCleanup, StartDeletion, StartFinalizer,
                  Take, workerVars
    <2>2. CASE StartCreation \/ StartRefresh
      BY <2>2 DEF StartCreation, StartRefresh, Take
    <2>3. CASE Conflict \/ Fail \/ QuotaReached \/ LBMissing
      BY <2>3 DEF Conflict, ConflictOf, Fail, QuotaReached, LBMissing, Retry, Return
    <2>4. CASE AddFinalizer \/ DropFinalizer \/ Publish \/ ClearStatus
      BY <2>4 DEF AddFinalizer, DropFinalizer, Publish, ClearStatus, Done, Return
    <2>5. CASE Refresh \/ RecordLB
      BY <2>5 DEF Refresh, RecordLB, Goto, Retry, Return
    <2>6. CASE MakeTG \/ FindTG \/ MakeLB \/ FindLB
      BY <2>6 DEF MakeTG, FindTG, MakeLB, FindLB, Goto, Retry, Return
    <2>7. CASE RecordTG \/ Listen
      BY <2>7 DEF RecordTG, Listen, NextPort, Goto
    <2>8. CASE SkipLB \/ RemoveLB \/ RemoveTG \/ DeletionDone
      BY <2>8 DEF SkipLB, RemoveLB, RemoveTG, DeletionDone, Goto, Retry, Return
    <2>9. CASE Strip
      BY <2>9 DEF Strip
    <2>10. QED
      BY <1>1, <2>1, <2>2, <2>3, <2>4, <2>5, <2>6, <2>7, <2>8, <2>9 DEF Worker
  <1>2. CASE Crash
    BY <1>2 DEF Crash, Return
  <1>3. CASE User \/ Informer \/ PeriodicResync \/ \E lb \in LBId : CloudProgress(lb)
    BY <1>3 DEF User, Informer, PeriodicResync, CloudProgress, workerVars
  <1>4. CASE UNCHANGED vars
    BY <1>4 DEF vars
  <1>5. QED  BY <1>1, <1>2, <1>3, <1>4 DEF Next
-----------------------------------------------------------------------------
\* What is left to do makes an event pass the filter.
LEMMA PendingRelevant == \A o : Pending(o) => o.exists /\ Relevant(o)
  BY DEF Pending, Relevant, IsLB, HasAnnotation

\* Where a reconcile returns nil without having stored a version.
LEMMA NothingLeft ==
  ASSUME TypeInv, CopyInv, WakeInv, Unwoken
  PROVE  /\ StartNothing => ~Pending(cache)
         /\ pc = "publish" /\ cache.ingress = lbId => ~Pending(cache)
         /\ pc = "strip" /\ cache.lb = None /\ cache.tgs = <<>> => ~Pending(cache)
  <1>1. StartNothing => ~Pending(cache)
    BY DEF StartNothing, Pending, IsLB, HasAnnotation
  <1>2. ASSUME pc = "publish", cache.ingress = lbId
        PROVE  ~Pending(cache)
    <2>1. cp = cache /\ cp.lb = lbId
      BY <1>2 DEF WakeInv, Ending
    <2>2. IsLB(cache) /\ ~cache.deleting /\ cache.finalizer
      BY <1>2, <2>1 DEF CopyInv, Making
    <2>3. lbId \in LBId
      BY <1>2 DEF TypeInv, LoopInv
    <2>4. QED  BY <1>2, <2>1, <2>2, <2>3 DEF Pending, None, LBId
  <1>3. ASSUME pc = "strip", cache.lb = None, cache.tgs = <<>>
        PROVE  ~Pending(cache)
    <2>1. ~IsLB(cache)
      BY <1>3 DEF WakeInv, CopyInv, Ending
    <2>2. QED  BY <1>3, <2>1 DEF Pending, HasAnnotation
  <1>4. QED  BY <1>1, <1>2, <1>3

\* What Strip leaves is bare.
LEMMA CacheFields ==
  ASSUME TypeInv,
         [cache EXCEPT !.lb = None, !.tgs = <<>>, !.finalizer = FALSE] = cache
  PROVE  cache.lb = None /\ cache.tgs = <<>>
  <1>1. cache \in Object
    BY DEF TypeInv, TypeOK, KubeTypeOK
  <1>2. [cache EXCEPT !.lb = None, !.tgs = <<>>, !.finalizer = FALSE].lb = None
    BY <1>1 DEF Object
  <1>3. [cache EXCEPT !.lb = None, !.tgs = <<>>, !.finalizer = FALSE].tgs = <<>>
    BY <1>1 DEF Object
  <1>4. QED  BY <1>2, <1>3

\* A step that ends a reconcile for good leaves nothing to do, or a new version.
LEMMA WakeStep ==
  ASSUME QueueInv, [Next]_vars
  PROVE  WakeInv'
  <1> SUFFICES ASSUME Unwoken'
               PROVE  /\ pc' \notin Ending => cp' = cache'
                      /\ pc' = "publish" => cp'.lb = lbId'
                      /\ pc' \in Ending => ~Pending(cache')
    BY DEF WakeInv
  <1>1. /\ TypeInv /\ CopyInv /\ WakeInv
        /\ watch \in Seq(Object)
    BY DEF QueueInv, TypeInv, TypeOK, KubeTypeOK
  <1>2. ~queued' /\ watch' = <<>> /\ Relevant(cache')
    BY DEF Unwoken
  <1>3. watch' # Append(watch, svc')
    <2>1. Append(watch, svc') # <<>>
      BY <1>1
    <2>2. QED  BY <1>2, <2>1
  <1>4. ~Deliver
    BY <1>2 DEF Deliver
  <1>5. CASE Crash
    BY <1>2, <1>5, PendingRelevant DEF Crash, Relist, Return, Ending
  <1>6. CASE UNCHANGED <<svc, watch, cache>>
    <2>1. /\ ~queued => Unwoken
          /\ cache' = cache /\ watch' = watch /\ svc' = svc
      BY <1>2, <1>6 DEF Unwoken
    <2>2. CASE StartNothing
      <3>1. pc' = "idle" /\ pc = "idle" /\ ~Pending(cache)
        BY <2>2 DEF StartNothing, workerVars, Pending, IsLB, HasAnnotation
      <3>2. QED  BY <2>1, <3>1 DEF Ending
    <2>3. CASE \/ StartCleanup \/ StartDeletion \/ StartFinalizer
               \/ StartCreation \/ StartRefresh
      BY <2>1, <2>3 DEF StartCleanup, StartDeletion, StartFinalizer,
                        StartCreation, StartRefresh, Take, Ending
    <2>4. CASE Conflict \/ Fail \/ QuotaReached \/ LBMissing
      BY <1>2, <2>4 DEF Conflict, ConflictOf, Fail, QuotaReached, LBMissing, Retry
    <2>5. CASE AddFinalizer \/ DropFinalizer
      BY <1>3, <2>5 DEF AddFinalizer, DropFinalizer, Store
    <2>6. CASE MakeTG \/ FindTG \/ MakeLB \/ FindLB
      <3>1. pc \notin Ending /\ pc' \in {"recordTG", "listen"}
            /\ UNCHANGED <<queued, cp>>
        BY <1>2, <2>6 DEF MakeTG, FindTG, MakeLB, FindLB, Goto, Retry, Ending, kubeVars
      <3>2. QED  BY <1>1, <1>2, <2>1, <3>1 DEF WakeInv, Ending
    <2>7. CASE RecordTG \/ Listen
      <3>1. pc \notin Ending /\ pc' \in Creating /\ UNCHANGED <<queued, cp>>
        BY <2>7 DEF RecordTG, Listen, NextPort, Goto, Creating, Ending, kubeVars
      <3>2. QED  BY <1>1, <1>2, <2>1, <3>1 DEF WakeInv, Ending, Creating
    <2>8. CASE SkipLB \/ RemoveLB \/ RemoveTG \/ DeletionDone
      <3>1. pc \notin Ending /\ pc' \in {"deleteTG", "dropFinalizer", "strip"}
            /\ UNCHANGED <<queued, cp>>
        BY <1>2, <2>8 DEF SkipLB, RemoveLB, RemoveTG, DeletionDone, Goto, Retry,
                          Ending, kubeVars
      <3>2. QED  BY <1>1, <1>2, <2>1, <3>1 DEF WakeInv, Ending
    <2>9. CASE RecordLB
      <3>1. pc = "recordLB" /\ pc' = "publish" /\ UNCHANGED <<queued, cp, lbId>>
            /\ cache.lb = lbId
        BY <1>2, <1>3, <2>9 DEF RecordLB, Retry, Goto, Store
      <3>2. cp = cache
        BY <1>1, <1>2, <2>1, <3>1 DEF WakeInv, Ending
      <3>3. QED  BY <2>1, <3>1, <3>2 DEF Ending
    <2>10. CASE Refresh
      <3>1. pc = "refresh" /\ pc' = "publish" /\ UNCHANGED <<queued, cp, lbId>>
        BY <1>2, <2>10 DEF Refresh, Retry, Goto
      <3>2. cp = cache /\ lbId = cp.lb
        BY <1>1, <1>2, <2>1, <3>1 DEF WakeInv, CopyInv, Ending
      <3>3. QED  BY <2>1, <3>1, <3>2 DEF Ending
    <2>11. CASE Publish
      <3>1. pc = "publish" /\ pc' = "idle" /\ cache.ingress = lbId /\ queued' = queued
        BY <1>3, <2>11 DEF Publish, Done, Return, Store
      <3>2. ~Pending(cache)
        BY <1>1, <1>2, <2>1, <3>1, NothingLeft
      <3>3. QED  BY <2>1, <3>1, <3>2 DEF Ending
    <2>12. CASE Strip
      <3>1. pc = "strip" /\ pc' = "clearStatus" /\ queued' = queued
            /\ [cache EXCEPT !.lb = None, !.tgs = <<>>, !.finalizer = FALSE] = cache
        BY <1>3, <2>12 DEF Strip, Store
      <3>2. cache.lb = None /\ cache.tgs = <<>>
        BY <1>1, <3>1, CacheFields
      <3>3. ~Pending(cache)
        BY <1>1, <1>2, <2>1, <3>1, <3>2, NothingLeft
      <3>4. QED  BY <2>1, <3>1, <3>3 DEF Ending
    <2>13. CASE ClearStatus
      <3>1. pc = "clearStatus" /\ pc' = "idle" /\ queued' = queued
        BY <2>13 DEF ClearStatus, Done, Return
      <3>2. QED  BY <1>1, <1>2, <2>1, <3>1 DEF WakeInv, Ending
    <2>14. CASE Worker
      BY <2>2, <2>3, <2>4, <2>5, <2>6, <2>7, <2>8, <2>9, <2>10, <2>11, <2>12,
         <2>13, <2>14 DEF Worker
    <2>15. CASE User \/ (\E lb \in LBId : CloudProgress(lb)) \/ UNCHANGED vars
      <3>1. CASE User
        BY <1>3, <3>1 DEF User, DeleteService, ChangeType, Touch, Reapply,
                          Unannotate, Store
      <3>2. CASE (\E lb \in LBId : CloudProgress(lb)) \/ UNCHANGED vars
        <4>1. UNCHANGED <<queued, pc, cp, lbId>>
          BY <3>2 DEF CloudProgress, kubeVars, workerVars, vars
        <4>2. QED  BY <1>1, <1>2, <2>1, <4>1 DEF WakeInv
      <3>3. QED  BY <2>15, <3>1, <3>2
    <2>16. CASE Informer \/ PeriodicResync
      <3>1. ~Informer
        BY <1>4 DEF Informer
      <3>2. ~PeriodicResync
        BY <1>2 DEF PeriodicResync, Resync
      <3>3. QED  BY <2>16, <3>1, <3>2
    <2>17. QED  BY <1>5, <2>14, <2>15, <2>16 DEF Next
  <1>7. QED  BY <1>3, <1>4, <1>5, <1>6, WatchStep

\* The three together are inductive.
LEMMA NextQueueInv == QueueInv /\ [Next]_vars => QueueInv'
  BY NextTypeInv, CaughtUpStep, CopyStep, WakeStep DEF QueueInv

\* Nothing is forgotten: a Service the controller has not finished with is
\* queued, on its way to the cache, or in the worker's hands, whatever failed,
\* crashed, was changed, removed by hand or applied anew.
THEOREM NoLostWork == Spec => []NothingForgotten
  <1>1. ASSUME QueueInv
        PROVE  NothingForgotten
    <2> SUFFICES ASSUME Pending(svc), ~queued, watch = <<>>, pc = "idle"
                 PROVE  FALSE
      BY DEF NothingForgotten
    <2>1. cache = svc
      BY <1>1 DEF QueueInv, CaughtUp
    <2>2. Unwoken
      BY <2>1, PendingRelevant DEF Unwoken
    <2>3. QED  BY <1>1, <2>1, <2>2 DEF QueueInv, WakeInv, Ending
  <1>2. QED
    BY InitQueueInv, NextQueueInv, <1>1, PTL DEF Spec
-----------------------------------------------------------------------------
\* The deletion's loop stops behind the last target group of its copy.
TurnInv ==
    /\ TypeInv
    /\ pc = "deleteTG" => idx <= Len(cp.tgs) + 1

LEMMA StepsTable ==
  ASSUME NEW place, NEW i, NEW n
  PROVE  LET steps == StepsFrom(place, i, n)
         IN  /\ place = "idle" => steps = 0
             /\ place \in {"addFinalizer", "dropFinalizer", "clearStatus",
                           "publish"} => steps = 1
             /\ place \in {"strip", "recordLB", "refresh"} => steps = 2
             /\ place = "listen" => steps = NumPorts - i + 3
             /\ place = "createLB" => steps = NumPorts + 3
             /\ place = "recordTG" => steps = NumPorts + 2 * (NumPorts - i) + 4
             /\ place = "createTG" => steps = NumPorts + 2 * (NumPorts - i) + 5
             /\ place = "deleteTG" => steps = n - i + 4
             /\ place = "deleteLB" => steps = n + 4
  BY DEF StepsFrom

LEMMA TurnTypes ==
  ASSUME TurnInv
  PROVE  /\ pc \in Labels /\ idx \in Nat /\ Len(cp.tgs) \in Nat
         /\ NumPorts \in Nat /\ NumPorts >= 1
         /\ pc \in {"createTG", "recordTG", "listen"} => idx \in 1..NumPorts
         /\ pc = "deleteTG" => idx >= 1 /\ idx <= Len(cp.tgs) + 1
  <1>1. cp.tgs \in Seq(TGId)
    BY DEF TurnInv, TypeInv, TypeOK, WorkerTypeOK, Object
  <1>2. Len(cp.tgs) \in Nat
    BY <1>1
  <1>3. QED
    BY <1>2, NumPortsAssumption
       DEF TurnInv, TypeInv, TypeOK, WorkerTypeOK, LoopInv, Ports

LEMMA StepsLeftNatural ==
  ASSUME TurnInv
  PROVE  StepsLeft \in Nat /\ (pc # "idle" => StepsLeft >= 1)
  <1>1. /\ idx \in Nat /\ Len(cp.tgs) \in Nat
        /\ NumPorts \in Nat /\ NumPorts >= 1
    BY TurnTypes
  <1>2. CASE pc \in {"idle", "addFinalizer", "dropFinalizer", "clearStatus",
                    "publish", "strip", "recordLB", "refresh"}
    BY <1>2, StepsTable DEF StepsLeft
  <1>3. CASE pc \in {"listen", "recordTG", "createTG"}
    <2>1. idx \in 1..NumPorts
      BY <1>3, TurnTypes
    <2>2. StepsLeft \in {NumPorts - idx + 3, NumPorts + 2 * (NumPorts - idx) + 4,
                        NumPorts + 2 * (NumPorts - idx) + 5}
      BY <1>3, StepsTable DEF StepsLeft
    <2>3. QED  BY <1>1, <2>1, <2>2
  <1>4. CASE pc = "createLB"
    <2>1. StepsLeft = NumPorts + 3
      BY <1>4, StepsTable DEF StepsLeft
    <2>2. QED  BY <1>1, <2>1
  <1>5. CASE pc = "deleteTG"
    <2>1. StepsLeft = Len(cp.tgs) - idx + 4 /\ idx <= Len(cp.tgs) + 1
      BY <1>5, StepsTable, TurnTypes DEF StepsLeft
    <2>2. QED  BY <1>1, <2>1
  <1>6. CASE pc = "deleteLB"
    <2>1. StepsLeft = Len(cp.tgs) + 4
      BY <1>6, StepsTable DEF StepsLeft
    <2>2. QED  BY <1>1, <2>1
  <1>7. pc \in Labels
    BY TurnTypes
  <1>8. QED  BY <1>2, <1>3, <1>4, <1>5, <1>6, <1>7 DEF Labels, Creating

\* A step of a reconcile leaves it fewer.
LEMMA WorkerNears ==
  ASSUME TurnInv, pc # "idle", Worker
  PROVE  StepsLeft' \in 0..(StepsLeft - 1)
  <1>1. /\ pc \in Labels /\ idx \in Nat /\ Len(cp.tgs) \in Nat
        /\ NumPorts \in Nat /\ NumPorts >= 1
        /\ pc \in {"createTG", "recordTG", "listen"} => idx \in 1..NumPorts
        /\ pc = "deleteTG" => idx >= 1 /\ idx <= Len(cp.tgs) + 1
    BY TurnTypes
  <1>2. CASE pc' = "idle"
    <2>1. StepsLeft >= 1 /\ StepsLeft \in Nat
      BY StepsLeftNatural
    <2>2. StepsLeft' = 0
      BY <1>2, StepsTable DEF StepsLeft
    <2>3. QED  BY <2>1, <2>2
  <1>3. CASE Conflict \/ Fail \/ QuotaReached \/ LBMissing
    BY <1>2, <1>3 DEF Conflict, ConflictOf, Fail, QuotaReached, LBMissing, Retry,
                      Return
  <1>4. CASE AddFinalizer \/ DropFinalizer \/ Publish \/ ClearStatus
    BY <1>2, <1>4 DEF AddFinalizer, DropFinalizer, Publish, ClearStatus, Done,
                      Return
  <1>5. CASE MakeTG \/ FindTG
    <2>1. pc = "createTG" /\ (pc' = "idle" \/ (pc' = "recordTG" /\ idx' = idx))
      BY <1>5 DEF MakeTG, FindTG, Goto, Retry, Return
    <2>2. StepsLeft = NumPorts + 2 * (NumPorts - idx) + 5
      BY <2>1, StepsTable DEF StepsLeft
    <2>3. pc' # "idle" => StepsLeft' = NumPorts + 2 * (NumPorts - idx) + 4
      BY <2>1, StepsTable DEF StepsLeft
    <2>4. QED  BY <1>1, <1>2, <2>1, <2>2, <2>3
  <1>6. CASE RecordTG
    <2>1. pc = "recordTG" /\ IF idx < NumPorts THEN pc' = "createTG" /\ idx' = idx + 1
                                               ELSE pc' = "createLB"
      BY <1>6 DEF RecordTG, NextPort, Goto
    <2>2. StepsLeft = NumPorts + 2 * (NumPorts - idx) + 4
      BY <2>1, StepsTable DEF StepsLeft
    <2>3. CASE idx < NumPorts
      <3>1. StepsLeft' = NumPorts + 2 * (NumPorts - (idx + 1)) + 5
        BY <2>1, <2>3, StepsTable DEF StepsLeft
      <3>2. QED  BY <1>1, <2>1, <2>2, <2>3, <3>1
    <2>4. CASE ~(idx < NumPorts)
      <3>1. StepsLeft' = NumPorts + 3
        BY <2>1, <2>4, StepsTable DEF StepsLeft
      <3>2. QED  BY <1>1, <2>1, <2>2, <2>4, <3>1
    <2>5. QED  BY <2>3, <2>4
  <1>7. CASE MakeLB \/ FindLB
    <2>1. pc = "createLB" /\ (pc' = "idle" \/ (pc' = "listen" /\ idx' = 1))
      BY <1>7 DEF MakeLB, FindLB, Goto, Retry, Return
    <2>2. StepsLeft = NumPorts + 3
      BY <2>1, StepsTable DEF StepsLeft
    <2>3. pc' # "idle" => StepsLeft' = NumPorts + 2
      BY <1>1, <2>1, StepsTable DEF StepsLeft
    <2>4. QED  BY <1>1, <1>2, <2>1, <2>2, <2>3
  <1>8. CASE Listen
    <2>1. pc = "listen" /\ IF idx < NumPorts THEN pc' = "listen" /\ idx' = idx + 1
                                             ELSE pc' = "recordLB"
      BY <1>8 DEF Listen, NextPort, Goto
    <2>2. QED  BY <1>1, <2>1, StepsTable DEF StepsLeft
  <1>9. CASE RecordLB \/ Refresh
    <2>1. pc \in {"recordLB", "refresh"} /\ pc' \in {"idle", "publish"}
      BY <1>9 DEF RecordLB, Refresh, Goto, Retry, Return
    <2>2. QED  BY <1>1, <2>1, StepsTable DEF StepsLeft
  <1>10. CASE SkipLB \/ RemoveLB
    <2>1. /\ pc = "deleteLB"
          /\ pc' = "idle" \/ (pc' = "deleteTG" /\ idx' = 1 /\ cp' = cp)
      BY <1>10 DEF SkipLB, RemoveLB, Goto, Retry, Return
    <2>2. StepsLeft = Len(cp.tgs) + 4
      BY <2>1, StepsTable DEF StepsLeft
    <2>3. pc' # "idle" => StepsLeft' = Len(cp.tgs) + 3
      BY <1>1, <2>1, StepsTable DEF StepsLeft
    <2>4. QED  BY <1>1, <1>2, <2>1, <2>2, <2>3
  <1>11. CASE RemoveTG
    <2>1. /\ pc = "deleteTG" /\ idx <= Len(cp.tgs)
          /\ pc' = "deleteTG" /\ idx' = idx + 1 /\ cp' = cp
      BY <1>11 DEF RemoveTG, Goto
    <2>2. StepsLeft = Len(cp.tgs) - idx + 4
      BY <2>1, StepsTable DEF StepsLeft
    <2>3. StepsLeft' = Len(cp.tgs) - (idx + 1) + 4
      BY <2>1, StepsTable DEF StepsLeft
    <2>4. QED  BY <1>1, <2>1, <2>2, <2>3
  <1>12. CASE DeletionDone
    <2>1. pc = "deleteTG" /\ pc' \in {"dropFinalizer", "strip"}
      BY <1>12 DEF DeletionDone, Goto
    <2>2. StepsLeft = Len(cp.tgs) - idx + 4 /\ StepsLeft' \in {1, 2}
      BY <2>1, StepsTable DEF StepsLeft
    <2>3. QED  BY <1>1, <2>1, <2>2
  <1>13. CASE Strip
    <2>1. pc = "strip" /\ pc' = "clearStatus"
      BY <1>13 DEF Strip
    <2>2. QED  BY <1>1, <2>1, StepsTable DEF StepsLeft
  <1>14. ~(StartNothing \/ StartCleanup \/ StartDeletion \/ StartFinalizer
            \/ StartCreation \/ StartRefresh)
    BY DEF StartNothing, StartCleanup, StartDeletion, StartFinalizer,
           StartCreation, StartRefresh, Take
  <1>15. QED
    BY <1>3, <1>4, <1>5, <1>6, <1>7, <1>8, <1>9, <1>10, <1>11, <1>12, <1>13,
       <1>14 DEF Worker

LEMMA NextTurnInv == TurnInv /\ [Next]_vars => TurnInv'
  <1> SUFFICES ASSUME TurnInv, [Next]_vars
               PROVE  TurnInv'
    OBVIOUS
  <1>1. TypeInv'
    BY NextTypeInv DEF TurnInv
  <1>2. pc' = "deleteTG" => idx' <= Len(cp'.tgs) + 1
    <2> SUFFICES ASSUME pc' = "deleteTG"
                 PROVE  idx' <= Len(cp'.tgs) + 1
      OBVIOUS
    <2>1. idx \in Nat /\ Len(cp.tgs) \in Nat
      BY TurnTypes
    <2>2. CASE RemoveTG
      BY <2>1, <2>2 DEF RemoveTG, Goto
    <2>3. CASE ~RemoveTG
      <3>1. ~DeletionDone
        BY DEF DeletionDone, Goto
      <3>2. QED  BY <2>1, <2>3, <3>1, AtDeletion DEF TurnInv
    <2>4. QED  BY <2>2, <2>3
  <1>3. QED  BY <1>1, <1>2 DEF TurnInv

\* However many ports there are and whatever interferes: a reconcile returns
\* after a number of steps that is fixed when it begins, so that the one worker
\* comes back for the other keys.
THEOREM WorkerReturns == Spec => WorkerComesBack
  <1>1. TurnInv /\ [Next]_vars =>
          [pc # "idle" => \/ StepsLeft' \in 0..(StepsLeft - 1)
                          \/ ~Worker /\ UNCHANGED StepsLeft]_vars
    <2> SUFFICES ASSUME TurnInv, [Next]_vars, pc # "idle"
                 PROVE  \/ StepsLeft' \in 0..(StepsLeft - 1)
                        \/ ~Worker /\ UNCHANGED StepsLeft
      OBVIOUS
    <2>1. StepsLeft \in Nat
      BY StepsLeftNatural
    <2>2. CASE Worker
      <3>1. StepsLeft' \in 0..(StepsLeft - 1)
        BY <2>2, WorkerNears
      <3>2. QED  BY <2>1, <3>1
    <2>3. CASE ~Worker
      <3>1. StepsLeft' = 0 \/ StepsLeft' = StepsLeft
        BY <2>3, OthersWait, StepsTable DEF StepsLeft
      <3>2. QED  BY <2>1, <2>3, <3>1
    <2>4. QED  BY <2>2, <2>3
  <1>2. Init => TurnInv
    BY InitTypeInv DEF Init, TurnInv
  <1>3. QED
    BY <1>1, <1>2, NextTurnInv, PTL DEF Spec, WorkerComesBack
=============================================================================
