-------------------------- MODULE TargetGroupProofs --------------------------
(***************************************************************************)
(* Target groups: every listener leads to the one of its own port, and     *)
(* those that the Service named go with it.                                *)
(***************************************************************************)
EXTENDS OwnershipProofs

(***************************************************************************)
(* Whatever is lost, repeated, retyped or applied anew, ports and target   *)
(* groups are not mixed up, if the controller's names tell the ports of    *)
(* the Service apart (PortsApart of ResourceNames).                        *)
(***************************************************************************)

DistinctNames == \A p, q \in Ports : TGName[p] = TGName[q] => p = q

\* The ids collected are, position by position, those of the ports.
CollectedInv ==
    pc \in Creating => \A i \in 1..Len(tgIds) : tgPort[tgIds[i]] = i

MatchInv == TypeInv /\ CollectedInv /\ ListenersMatch

\* What becomes of the target groups and the listeners.
LEMMA GroupsFrame ==
  ASSUME [Next]_vars
  PROVE  /\ MakeTG \/ tgLive' \subseteq tgLive
         /\ \/ UNCHANGED listeners
            \/ Listen /\ CreateListener(lbId, idx, tgIds[idx])
            \/ \E lb \in LBId : CloudProgress(lb) /\ FinishDelete(lb)
  <1> USE DEF cloudVars
  <1>1. CASE Worker
    <2>1. CASE StartNothing \/ StartCleanup \/ StartDeletion \/ StartFinalizer
               \/ StartCreation \/ StartRefresh
      BY <2>1 DEF StartNothing, StartCleanup, StartDeletion, StartFinalizer,
                  StartCreation, StartRefresh, Take
    <2>2. CASE Conflict \/ Fail \/ QuotaReached \/ Refresh
      BY <2>2 DEF Conflict, ConflictOf, Fail, QuotaReached, Refresh
    <2>3. CASE MakeTG \/ FindTG \/ MakeLB \/ FindLB
      BY <2>3 DEF MakeTG, CreateTG, FindTG, MakeLB, CreateLB, FindLB
    <2>4. CASE SkipLB \/ RemoveLB \/ LBMissing \/ RemoveTG \/ DeletionDone
      BY <2>4 DEF SkipLB, RemoveLB, DeleteLB, LBMissing, RemoveTG, DeleteTG,
                  DeletionDone
    <2>5. CASE AddFinalizer \/ DropFinalizer \/ RecordTG \/ RecordLB
               \/ Publish \/ Strip \/ ClearStatus
      BY <2>5 DEF AddFinalizer, DropFinalizer, RecordTG, RecordLB, Publish,
                  Strip, ClearStatus
    <2>6. CASE Listen
      BY <2>6 DEF Listen, CreateListener
    <2>7. QED  BY <1>1, <2>1, <2>2, <2>3, <2>4, <2>5, <2>6 DEF Worker
  <1>2. CASE ~Worker
    BY <1>2 DEF Next, User, Informer, PeriodicResync, Crash, CloudProgress,
                FinishBuild, FinishDelete, vars
  <1>3. QED  BY <1>1, <1>2

\* A target group keeps the port it was made for.
LEMMA PortKept ==
  ASSUME TypeInv, [Next]_vars, NEW tg \in TGId, tgPort[tg] # 0
  PROVE  tgPort'[tg] = tgPort[tg]
  <1>1. CASE MakeTG
    <2>1. PICK new \in TGId : tgPort[new] = 0
                              /\ tgPort' = [tgPort EXCEPT ![new] = idx]
      BY <1>1 DEF MakeTG, CreateTG
    <2>2. tgPort \in [TGId -> Ports \cup {0}]
      BY DEF TypeInv, TypeOK, CloudTypeOK
    <2>3. QED  BY <2>1, <2>2
  <1>2. QED  BY <1>1, PortFrame

\* The collected ids stay those of the ports.
LEMMA CollectedStep ==
  ASSUME DistinctNames, TypeInv, CollectedInv, [Next]_vars
  PROVE  CollectedInv'
  <1>1. /\ tgIds \in Seq(TGId) /\ tgPort \in [TGId -> Ports \cup {0}]
        /\ tgLive \subseteq {tg \in TGId : tgPort[tg] # 0}
        /\ LoopInv
    BY DEF TypeInv, TypeOK, CloudTypeOK, WorkerTypeOK
  <1>2. \A i \in 1..Len(tgIds) : tgIds[i] \in TGId
    BY <1>1
  <1>3. CASE pc \in Creating /\ tgIds' = tgIds
    <2>1. ASSUME NEW i \in 1..Len(tgIds)
          PROVE  tgPort'[tgIds[i]] = i
      <3>1. tgPort[tgIds[i]] = i /\ tgIds[i] \in TGId
        BY <1>2, <1>3 DEF CollectedInv
      <3>2. QED  BY <3>1, PortKept
    <2>2. QED  BY <1>3, <2>1 DEF CollectedInv
  <1>4. CASE \E tg \in TGId : /\ pc = "createTG" /\ tgPort'[tg] = idx
                              /\ tgIds' = Append(tgIds, tg)
    <2>1. PICK tg \in TGId : /\ pc = "createTG" /\ tgPort'[tg] = idx
                             /\ tgIds' = Append(tgIds, tg)
      BY <1>4
    <2>2. idx = Len(tgIds) + 1
      BY <1>1, <2>1 DEF LoopInv, Ports
    <2>3. ASSUME NEW i \in 1..Len(tgIds')
          PROVE  tgPort'[tgIds'[i]] = i
      <3>1. CASE i \in 1..Len(tgIds)
        <4>1. /\ tgIds'[i] = tgIds[i] /\ tgIds[i] \in TGId
              /\ tgPort[tgIds[i]] = i
          BY <1>1, <2>1, <3>1 DEF CollectedInv, Creating
        <4>2. QED  BY <3>1, <4>1, PortKept
      <3>2. CASE i \notin 1..Len(tgIds)
        BY <1>1, <2>1, <2>2, <3>2
      <3>3. QED  BY <3>1, <3>2
    <2>4. QED  BY <2>3 DEF CollectedInv
  <1>5. CASE tgIds' = <<>>
    BY <1>5 DEF CollectedInv
  <1>6. CASE pc' \notin Creating
    BY <1>6 DEF CollectedInv
  <1>7. CASE StartNothing \/ StartCleanup \/ StartDeletion \/ StartFinalizer
             \/ StartCreation \/ StartRefresh
    <2>1. pc = "idle" /\ tgIds' = tgIds
      BY <1>7 DEF StartNothing, StartCleanup, StartDeletion, StartFinalizer,
                  StartCreation, StartRefresh, Take, workerVars
    <2>2. QED  BY <1>1, <1>5, <2>1 DEF LoopInv
  <1>8. CASE MakeTG
    <2>1. PICK tg \in TGId :
             /\ CreateTG(tg, idx) /\ pc = "createTG"
             /\ tgIds' = Append(tgIds, tg) \/ tgIds' = <<>>
      BY <1>8 DEF MakeTG, Retry, Return
    <2>2. tgPort'[tg] = idx
      BY <1>1, <2>1 DEF CreateTG
    <2>3. QED  BY <1>4, <1>5, <2>1, <2>2
  <1>9. CASE FindTG
    <2>1. PICK tg \in tgLive : /\ TGName[tgPort[tg]] = TGName[idx]
                               /\ tgIds' = Append(tgIds, tg)
      BY <1>9 DEF FindTG, Holds
    <2>2. /\ pc = "createTG" /\ tgPort' = tgPort
          /\ tg \in TGId /\ tgPort[tg] \in Ports /\ idx \in Ports
      BY <1>1, <1>9 DEF FindTG, cloudVars, LoopInv
    <2>3. tgPort'[tg] = idx
      BY <2>1, <2>2 DEF DistinctNames
    <2>4. QED  BY <1>4, <2>1, <2>2, <2>3
  <1>10. CASE RecordTG \/ MakeLB \/ FindLB \/ Listen \/ RecordLB
    BY <1>3, <1>5, <1>10
       DEF RecordTG, MakeLB, FindLB, Listen, RecordLB, Retry, Return, Creating
  <1>11. CASE Conflict \/ Fail \/ AddFinalizer \/ DropFinalizer
              \/ QuotaReached \/ Publish \/ LBMissing \/ ClearStatus \/ Crash
    BY <1>5, <1>11
       DEF Conflict, ConflictOf, Fail, AddFinalizer, DropFinalizer, QuotaReached,
           Publish, LBMissing, ClearStatus, Crash, Retry, Done, Return
  <1>12. CASE Refresh \/ SkipLB \/ RemoveLB \/ RemoveTG \/ DeletionDone \/ Strip
    BY <1>5, <1>6, <1>12
       DEF Refresh, SkipLB, RemoveLB, RemoveTG, DeletionDone, Strip, Goto, Retry,
           Return, Creating
  <1>13. CASE User \/ Informer \/ PeriodicResync \/ UNCHANGED vars
              \/ \E lb \in LBId : CloudProgress(lb)
    <2>1. UNCHANGED <<pc, tgIds>>
      BY <1>13 DEF User, Informer, PeriodicResync, CloudProgress, workerVars, vars
    <2>2. QED  BY <1>3, <1>6, <2>1
  <1>14. QED
    BY <1>7, <1>8, <1>9, <1>10, <1>11, <1>12, <1>13 DEF Next, Worker

\* A new listener takes the id at its port's place; the others keep theirs.
LEMMA MatchStep ==
  ASSUME TypeInv, CollectedInv, ListenersMatch, [Next]_vars
  PROVE  ListenersMatch'
  <1>1. /\ listeners \subseteq Listener
        /\ tgIds \in Seq(TGId) /\ LoopInv
    BY DEF TypeInv, TypeOK, CloudTypeOK, WorkerTypeOK
  <1>2. \A l \in listeners : tgPort'[l.tg] = l.port
    <2> SUFFICES ASSUME NEW l \in listeners
                 PROVE  tgPort'[l.tg] = l.port
      OBVIOUS
    <2>1. l.tg \in TGId /\ l.port \in Ports /\ tgPort[l.tg] = l.port
      BY <1>1 DEF Listener, ListenersMatch
    <2>2. tgPort[l.tg] # 0
      BY <2>1 DEF Ports
    <2>3. QED  BY <2>1, <2>2, PortKept
  <1>3. CASE Listen
    <2>1. /\ tgIds[idx] \in TGId /\ tgPort[tgIds[idx]] = idx /\ idx # 0
      BY <1>1, <1>3 DEF Listen, LoopInv, CollectedInv, Creating, Ports
    <2>2. tgPort'[tgIds[idx]] = idx
      BY <2>1, PortKept
    <2>3. \/ listeners' = listeners
          \/ listeners' = listeners \cup
                {[lb |-> lbId, port |-> idx, tg |-> tgIds[idx]]}
      BY <1>3 DEF Listen, CreateListener, cloudVars
    <2>4. QED  BY <1>2, <2>2, <2>3 DEF ListenersMatch
  <1>4. CASE listeners' \subseteq listeners
    BY <1>2, <1>4 DEF ListenersMatch
  <1>5. CASE ~Listen
    BY <1>4, <1>5, GroupsFrame DEF FinishDelete
  <1>6. QED  BY <1>3, <1>5

\* Traffic for a port goes to the target group made for that port, for every
\* number of ports and disturbances, as long as the ports' names differ.
THEOREM PortsServed == DistinctNames /\ Spec => []ListenersMatch
  <1>1. Init => MatchInv
    BY InitTypeInv DEF Init, CloudInit, MatchInv, CollectedInv, ListenersMatch,
                       Creating
  <1>2. DistinctNames /\ MatchInv /\ [Next]_vars => MatchInv'
    BY NextTypeInv, CollectedStep, MatchStep DEF MatchInv
  <1>3. DistinctNames => []DistinctNames
    <2>1. DistinctNames => DistinctNames'
      BY DEF DistinctNames
    <2>2. QED  BY <2>1, PTL
  <1>4. MatchInv => ListenersMatch
    BY DEF MatchInv
  <1>5. QED
    BY <1>1, <1>2, <1>3, <1>4, PTL DEF Spec

(***************************************************************************)
(* Deletion.  What the Service named goes with it.  A removal works along  *)
(* its copy's annotation, so the invariant says how far it has come; that  *)
(* nothing dealt with comes back needs that no id in any annotation is one *)
(* still to be made, and that a load balancer that uses one of the groups  *)
(* is asked to go before the first of them, never between.                 *)
(***************************************************************************)
Made(tgs) == \A i \in 1..Len(tgs) : tgPort[tgs[i]] # 0

\* What is named anywhere, or may be named next, has been made.
MadeInv ==
    /\ Made(svc.tgs) /\ Made(cache.tgs)
    /\ \A i \in 1..Len(watch) : Made(watch[i].tgs)
    /\ pc \in Deleting => Made(cp.tgs)
    /\ Made(tgIds)

\* A removal has dealt with all of the ids before `upto': they are gone, given
\* up, or in use by a load balancer that nobody has asked to go.
Cleared(tgs, upto) ==
    \A i \in 1..Len(tgs) :
        i < upto /\ tgs[i] \in tgLive =>
            tgs[i] \in givenUp \/ HeldOpen(tgs[i])

\* Without the finalizer nothing has been named.
NamedInv == svc.exists /\ ~svc.finalizer => svc.tgs = <<>>

\* Listeners are of load balancers that are built and not gone.
ListeningInv == \A l \in listeners : lbStatus[l.lb] \in {"RUN", "TERMINATING"}

\* How far the removal has come, and what it has left when the Service is gone.
ClearedInv ==
    /\ pc = "deleteTG" => Cleared(cp.tgs, idx)
    /\ pc = "dropFinalizer" => Cleared(cp.tgs, Len(cp.tgs) + 1)
    /\ ~svc.exists => Cleared(svc.tgs, Len(svc.tgs) + 1)

GroupsInv == OwnershipInv /\ MadeInv /\ NamedInv /\ ListeningInv /\ ClearedInv

LEMMA InitGroupsInv == Init => GroupsInv
  <1> SUFFICES ASSUME Init
               PROVE  GroupsInv
    OBVIOUS
  <1>1. /\ svc = NewService /\ cache = NewService /\ watch = <<>>
        /\ pc = "idle" /\ tgIds = <<>> /\ listeners = {}
    BY DEF Init, KubeInit, CloudInit
  <1>2. svc.tgs = <<>> /\ cache.tgs = <<>> /\ svc.exists
    BY <1>1 DEF NewService
  <1>3. \A tgs : tgs = <<>> => Made(tgs)
    BY DEF Made
  <1>4. MadeInv /\ NamedInv /\ ListeningInv /\ ClearedInv
    BY <1>1, <1>2, <1>3
       DEF MadeInv, NamedInv, ListeningInv, ClearedInv, Deleting
  <1>5. QED  BY InitOwnershipInv, <1>4 DEF GroupsInv
-----------------------------------------------------------------------------
\* What was given up stays on record.
LEMMA GivenUpStep ==
  ASSUME [Next]_vars
  PROVE  givenUp \subseteq givenUp'
  <1>1. CASE Worker
    <2>1. CASE StartNothing \/ StartCleanup \/ StartDeletion \/ StartFinalizer
               \/ StartCreation \/ StartRefresh
      BY <2>1 DEF StartNothing, StartCleanup, StartDeletion, StartFinalizer,
                  StartCreation, StartRefresh, Take
    <2>2. CASE Conflict \/ Fail \/ QuotaReached \/ Refresh
      BY <2>2 DEF Conflict, ConflictOf, Fail, QuotaReached, Refresh
    <2>3. CASE MakeTG \/ FindTG \/ MakeLB \/ FindLB \/ Listen
      BY <2>3 DEF MakeTG, FindTG, MakeLB, FindLB, Listen
    <2>4. CASE SkipLB \/ RemoveLB \/ LBMissing \/ RemoveTG \/ DeletionDone
      BY <2>4 DEF SkipLB, RemoveLB, LBMissing, RemoveTG, DeletionDone
    <2>5. CASE AddFinalizer \/ DropFinalizer \/ RecordTG \/ RecordLB
               \/ Publish \/ Strip \/ ClearStatus
      BY <2>5 DEF AddFinalizer, DropFinalizer, RecordTG, RecordLB, Publish,
                  Strip, ClearStatus
    <2>6. QED  BY <1>1, <2>1, <2>2, <2>3, <2>4, <2>5 DEF Worker
  <1>2. CASE ~Worker
    BY <1>2 DEF Next, User, Informer, PeriodicResync, Crash, CloudProgress,
                vars
  <1>3. QED  BY <1>1, <1>2

\* A target group is live only from when it is made until it is removed.
LEMMA LiveStep ==
  ASSUME TypeInv, [Next]_vars, NEW tg \in TGId, tgPort[tg] # 0, tg \in tgLive'
  PROVE  tg \in tgLive
  <1>1. CASE MakeTG
    <2>1. PICK new \in TGId : tgPort[new] = 0 /\ tgLive' = tgLive \cup {new}
      BY <1>1 DEF MakeTG, CreateTG
    <2>2. QED  BY <2>1
  <1>2. QED  BY <1>1, GroupsFrame

\* A listener stays as long as its load balancer is not asked to go.
LEMMA HeldOpenStep ==
  ASSUME TypeInv, [Next]_vars, NEW tg \in TGId, HeldOpen(tg),
         ~(RemoveLB /\ Alive(cp.lb))
  PROVE  HeldOpen(tg)'
  <1>1. PICK l \in listeners : l.tg = tg /\ Alive(l.lb)
    BY DEF HeldOpen
  <1>2. l.lb \in LBId
    BY DEF TypeInv, TypeOK, CloudTypeOK, Listener
  <1>3. lbStatus'[l.lb] \in {"INIT", "RUN"}
    BY <1>1, <1>2, AliveStep DEF Alive
  <1>4. l \in listeners'
    <2>1. CASE Listen /\ CreateListener(lbId, idx, tgIds[idx])
      BY <2>1 DEF CreateListener
    <2>2. CASE \E lb \in LBId : FinishDelete(lb)
      BY <1>1, <2>2 DEF FinishDelete, Alive
    <2>3. QED  BY <2>1, <2>2, GroupsFrame
  <1>5. QED  BY <1>1, <1>3, <1>4 DEF HeldOpen, Alive

\* What was made stays made, and what was cleared stays cleared, unless the
\* worker removes a load balancer.
LEMMA MadeKept ==
  ASSUME TypeInv, [Next]_vars, NEW tgs \in Seq(TGId), Made(tgs)
  PROVE  \A i \in 1..Len(tgs) : tgPort'[tgs[i]] # 0
  <1> SUFFICES ASSUME NEW i \in 1..Len(tgs)
               PROVE  tgPort'[tgs[i]] # 0
    OBVIOUS
  <1>1. tgs[i] \in TGId /\ tgPort[tgs[i]] # 0
    BY DEF Made
  <1>2. QED  BY <1>1, PortKept

\* Cleared after the step, for a sequence as it is before.
ClearedThen(tgs, upto) ==
    \A i \in 1..Len(tgs) :
        i < upto /\ tgs[i] \in tgLive' =>
            \/ tgs[i] \in givenUp'
            \/ \E l \in listeners' :
                  l.tg = tgs[i] /\ lbStatus'[l.lb] \in {"INIT", "RUN"}

LEMMA ClearedKept ==
  ASSUME TypeInv, [Next]_vars, ~(RemoveLB /\ Alive(cp.lb)),
         NEW tgs \in Seq(TGId), NEW upto \in Nat,
         Made(tgs), Cleared(tgs, upto)
  PROVE  ClearedThen(tgs, upto)
  <1> SUFFICES ASSUME NEW i \in 1..Len(tgs), i < upto, tgs[i] \in tgLive',
                      tgs[i] \notin givenUp'
               PROVE  \E l \in listeners' :
                        l.tg = tgs[i] /\ lbStatus'[l.lb] \in {"INIT", "RUN"}
    BY DEF ClearedThen
  <1> DEFINE tg == tgs[i]
  <1>1. tg \in TGId /\ tgPort[tg] # 0
    BY DEF Made
  <1>2. tg \in tgLive
    BY <1>1, LiveStep
  <1>3. HeldOpen(tg)
    BY <1>2, GivenUpStep DEF Cleared
  <1> HIDE DEF tg
  <1>4. HeldOpen(tg)'
    BY <1>1, <1>3, HeldOpenStep
  <1>5. QED  BY <1>4 DEF HeldOpen, Alive, tg
-----------------------------------------------------------------------------
\* The ids collected are kept, or forgotten, or one made is added.
LEMMA IdsStep ==
  ASSUME TypeInv, [Next]_vars
  PROVE  \/ tgIds' = tgIds
         \/ tgIds' = <<>>
         \/ \E tg \in TGId : tgPort'[tg] # 0 /\ tgIds' = Append(tgIds, tg)
  <1>1. /\ tgPort \in [TGId -> Ports \cup {0}]
        /\ tgLive \subseteq {tg \in TGId : tgPort[tg] # 0}
        /\ LoopInv
    BY DEF TypeInv, TypeOK, CloudTypeOK
  <1>2. CASE MakeTG
    <2>1. PICK tg \in TGId :
             /\ CreateTG(tg, idx)
             /\ tgIds' = Append(tgIds, tg) \/ tgIds' = <<>>
      BY <1>2 DEF MakeTG, Retry, Return
    <2>2. tgPort'[tg] # 0
      BY <1>1, <1>2, <2>1 DEF MakeTG, CreateTG, LoopInv, Ports
    <2>3. QED  BY <2>1, <2>2
  <1>3. CASE FindTG
    BY <1>1, <1>3 DEF FindTG, cloudVars
  <1>4. CASE Worker /\ ~MakeTG /\ ~FindTG
    <2>1. CASE StartNothing \/ StartCleanup \/ StartDeletion \/ StartFinalizer
               \/ StartCreation \/ StartRefresh
      BY <2>1 DEF StartNothing, StartCleanup, StartDeletion, StartFinalizer,
                  StartCreation, StartRefresh, Take, workerVars
    <2>2. CASE Conflict \/ Fail \/ QuotaReached \/ Refresh \/ LBMissing
      BY <2>2 DEF Conflict, ConflictOf, Fail, QuotaReached, Refresh, LBMissing,
                  Retry, Return
    <2>3. CASE MakeLB \/ FindLB \/ Listen \/ RecordTG \/ RecordLB
      BY <2>3 DEF MakeLB, FindLB, Listen, RecordTG, RecordLB, Retry, Return
    <2>4. CASE SkipLB \/ RemoveLB \/ RemoveTG \/ DeletionDone \/ Strip
      BY <2>4 DEF SkipLB, RemoveLB, RemoveTG, DeletionDone, Strip, Retry, Return
    <2>5. CASE AddFinalizer \/ DropFinalizer \/ Publish \/ ClearStatus
      BY <2>5 DEF AddFinalizer, DropFinalizer, Publish, ClearStatus, Done,
                  Return
    <2>6. QED  BY <1>4, <2>1, <2>2, <2>3, <2>4, <2>5 DEF Worker
  <1>5. CASE ~Worker
    BY <1>5 DEF Next, User, Informer, PeriodicResync, Crash, CloudProgress,
                Return, workerVars, vars
  <1>6. QED  BY <1>2, <1>3, <1>4, <1>5

\* Nothing is named but what was made.
LEMMA MadeStep ==
  ASSUME LeftAlone, HeldInv, MadeInv, [Next]_vars
  PROVE  MadeInv'
  <1> DEFINE MadeThen(tgs) == \A i \in 1..Len(tgs) : tgPort'[tgs[i]] # 0
  <1>1. /\ TypeInv /\ NeverRetyped
        /\ svc.tgs \in Seq(TGId) /\ cache.tgs \in Seq(TGId)
        /\ cp.tgs \in Seq(TGId) /\ tgIds \in Seq(TGId)
        /\ Len(watch) \in Nat
        /\ \A i \in 1..Len(watch) : watch[i].tgs \in Seq(TGId)
    <2>1. /\ TypeInv /\ NeverRetyped /\ tgIds \in Seq(TGId)
          /\ svc \in Object /\ cache \in Object /\ cp \in Object
          /\ watch \in Seq(Object)
      BY DEF LeftAlone, HeldInv, TypeInv, TypeOK, KubeTypeOK, WorkerTypeOK
    <2>2. \A o \in Object : o.tgs \in Seq(TGId)
      BY DEF Object
    <2>3. Len(watch) \in Nat /\ \A i \in 1..Len(watch) : watch[i] \in Object
      BY <2>1
    <2>4. QED  BY <2>1, <2>2, <2>3
  <1>2. \A tgs \in Seq(TGId) : Made(tgs) => MadeThen(tgs)
    BY <1>1, MadeKept
  <1>3. /\ MadeThen(svc.tgs) /\ MadeThen(cache.tgs) /\ MadeThen(tgIds)
        /\ \A i \in 1..Len(watch) : MadeThen(watch[i].tgs)
        /\ pc \in Deleting => MadeThen(cp.tgs)
    BY <1>1, <1>2 DEF MadeInv
  <1>4. MadeThen(<<>>)
    OBVIOUS
  <1>5. ASSUME NEW tgs \in Seq(TGId), NEW tg \in TGId,
               MadeThen(tgs), tgPort'[tg] # 0
        PROVE  MadeThen(Append(tgs, tg))
    <2>1. \A i \in 1..Len(Append(tgs, tg)) :
             Append(tgs, tg)[i] = tg \/ (i \in 1..Len(tgs)
                                         /\ Append(tgs, tg)[i] = tgs[i])
      OBVIOUS
    <2>2. QED  BY <1>5, <2>1
  <1>6. ASSUME RecordTG
        PROVE  tgPort'[tgIds[idx]] # 0
    <2>1. idx \in 1..Len(tgIds)
      BY <1>1, <1>6 DEF RecordTG, TypeInv, LoopInv, Ports
    <2>2. QED  BY <1>3, <2>1
  <1> HIDE DEF MadeThen
  <1>7. MadeThen(svc'.tgs)
    BY <1>1, <1>3, <1>4, <1>5, <1>6, GroupsNamed
  <1>8. MadeThen(tgIds')
    BY <1>1, <1>3, <1>4, <1>5, IdsStep
  <1>9. MadeThen(cache'.tgs) /\ \A i \in 1..Len(watch') : MadeThen(watch'[i].tgs)
    <2>1. CASE UNCHANGED <<svc, watch, cache>>
      BY <1>3, <2>1
    <2>2. CASE /\ cache' = cache /\ Len(watch') = Len(watch) + 1
               /\ watch'[Len(watch) + 1] = svc'
               /\ \A i \in 1..Len(watch) : watch'[i] = watch[i]
      BY <1>1, <1>3, <1>7, <2>2
    <2>3. CASE /\ 1 \in 1..Len(watch) /\ cache' = watch[1]
               /\ Len(watch') = Len(watch) - 1
               /\ \A i \in 1..Len(watch') : watch'[i] = watch[i + 1]
      <3>1. \A i \in 1..Len(watch') : i + 1 \in 1..Len(watch)
        BY <1>1, <2>3
      <3>2. QED  BY <1>3, <2>3, <3>1
    <2>4. CASE svc' = svc /\ cache' = svc /\ Len(watch') = 0
      BY <1>3, <2>4
    <2>5. QED  BY <1>1, <2>1, <2>2, <2>3, <2>4, VersionsFrom
  <1>10. ASSUME pc' \in Deleting
         PROVE  MadeThen(cp'.tgs)
    <2>1. cp' = cache \/ (pc \in Deleting /\ cp' = cp)
      BY <1>1, <1>10, Moves DEF SkipLB, RemoveLB, Deleting
    <2>2. QED  BY <1>3, <2>1
  <1>11. QED
    BY <1>7, <1>8, <1>9, <1>10 DEF MadeInv, Made, MadeThen

\* A load balancer gets its listeners once it runs, and loses them as it goes.
LEMMA ListeningStep ==
  ASSUME TypeInv, ListeningInv, [Next]_vars
  PROVE  ListeningInv'
  <1>1. /\ lbStatus \in [LBId -> Status] /\ listeners \subseteq Listener
        /\ \A l \in listeners : l.lb \in LBId
    BY DEF TypeInv, TypeOK, CloudTypeOK, Listener
  <1>2. CASE Listen
    <2>1. lbId \in LBId
      BY <1>2 DEF Listen, TypeInv, LoopInv
    <2>2. lbStatus' = lbStatus
      BY <1>2 DEF Listen, CreateListener, cloudVars
    <2>3. \A l \in listeners' : l \in listeners \/ lbStatus[l.lb] = "RUN"
      BY <1>2 DEF Listen, CreateListener, cloudVars
    <2>4. QED  BY <2>2, <2>3 DEF ListeningInv
  <1>3. CASE \E lb \in LBId : CloudProgress(lb)
    <2>1. PICK lb \in LBId : FinishBuild(lb) \/ FinishDelete(lb)
      BY <1>3 DEF CloudProgress
    <2>2. CASE FinishBuild(lb) /\ UNCHANGED listeners
      BY <1>1, <2>2 DEF FinishBuild, ListeningInv
    <2>3. CASE FinishDelete(lb)
      BY <1>1, <2>3 DEF FinishDelete, ListeningInv
    <2>4. FinishBuild(lb) => UNCHANGED listeners
      BY <2>1, GroupsFrame DEF FinishBuild, FinishDelete, Listen
    <2>5. QED  BY <2>1, <2>2, <2>3, <2>4
  <1>4. CASE UNCHANGED listeners /\ ~\E lb \in LBId : CloudProgress(lb)
    <2>1. CASE MakeLB
      <3>1. PICK new \in LBId : /\ lbStatus[new] = "UNMADE"
                                /\ lbStatus' = [lbStatus EXCEPT ![new] = "INIT"]
        BY <2>1 DEF MakeLB, CreateLB
      <3>2. QED  BY <1>1, <1>4, <3>1 DEF ListeningInv
    <2>2. CASE RemoveLB
      BY <1>1, <1>4, <2>2 DEF RemoveLB, DeleteLB, Alive, ListeningInv
    <2>3. CASE UNCHANGED lbStatus
      BY <1>4, <2>3 DEF ListeningInv
    <2>4. QED  BY <1>4, <2>1, <2>2, <2>3, CloudFrame
  <1>5. QED  BY <1>2, <1>3, <1>4, GroupsFrame DEF Listen

\* Only a Service that carries the finalizer is given target groups.
LEMMA NamedStep ==
  ASSUME LeftAlone, OwnershipInv, NamedInv, [Next]_vars
  PROVE  NamedInv'
  <1>1. HeldInv /\ ExistsInv /\ PlaceInv /\ NeverRetyped
    BY DEF LeftAlone, OwnershipInv, HeldInv
  <1>2. CASE Renewal
    BY <1>1, <1>2, GroupsNamed DEF NamedInv
  <1>3. CASE ~Renewal /\ svc.finalizer
    <2>1. svc'.finalizer \/ (DropFinalizer /\ cp = svc)
      BY <1>3, ServiceStep
    <2>2. DropFinalizer /\ cp = svc => ~svc'.exists
      <3>1. /\ TypeInv /\ cp \in Object
            /\ [cp EXCEPT !.finalizer = FALSE] \in Object
            /\ DropFinalizer => cp.deleting
        BY <1>1 DEF HeldInv, PlaceInv, TypeInv, TypeOK, WorkerTypeOK, Object,
                    DropFinalizer, Deleting
      <3>2. QED  BY <3>1, StoreFields DEF DropFinalizer, Object
    <2>3. QED  BY <2>1, <2>2 DEF NamedInv
  <1>4. CASE ~Renewal /\ ~svc.finalizer
    <2>1. ~RecordTG
      BY <1>1, <1>4 DEF RecordTG, PlaceInv, Making, Creating
    <2>2. svc'.tgs = svc.tgs
      BY <1>1, <1>4, <2>1, GroupsNamed
    <2>3. svc.exists \/ UNCHANGED svc
      BY <1>1, <1>4, Written DEF Informer, Deliver, Crash, Relist
    <2>4. QED  BY <1>4, <2>2, <2>3 DEF NamedInv
  <1>5. QED  BY <1>2, <1>3, <1>4
-----------------------------------------------------------------------------
\* In the loop: the group at hand is removed, given up, or found in use by a
\* load balancer that stays; the ones before are not used anew.
LEMMA RemovingStep ==
  ASSUME GroupsInv, [Next]_vars, pc' = "deleteTG"
  PROVE  Cleared(cp.tgs, idx)'
  <1>1. /\ TypeInv /\ ListeningInv
        /\ cp.tgs \in Seq(TGId) /\ idx \in Nat
        /\ pc \in Deleting => Made(cp.tgs)
        /\ pc = "deleteTG" => Cleared(cp.tgs, idx)
    BY DEF GroupsInv, OwnershipInv, HeldInv, TypeInv, TypeOK, WorkerTypeOK,
           Object, MadeInv, ClearedInv
  <1>2. CASE (SkipLB \/ RemoveLB) /\ idx' = 1
    BY <1>2 DEF Cleared
  <1>3. CASE pc = "deleteTG" /\ cp' = cp
    <2>1. ClearedThen(cp.tgs, idx)
      BY <1>1, <1>3, ClearedKept DEF RemoveLB, Deleting
    <2>2. CASE idx' = idx
      BY <1>3, <2>1, <2>2 DEF Cleared, ClearedThen, HeldOpen, Alive
    <2>3. CASE RemoveTG
      <3> DEFINE tg == cp.tgs[idx]
      <3>1. idx' = idx + 1 /\ idx \in 1..Len(cp.tgs)
        BY <1>1, <2>3 DEF RemoveTG, Goto, TypeInv, LoopInv
      <3>2. tg \in tgLive' =>
               \/ tg \in givenUp'
               \/ \E l \in listeners' :
                     l.tg = tg /\ lbStatus'[l.lb] \in {"INIT", "RUN"}
        <4>1. CASE DeleteTG(tg)
          BY <4>1 DEF DeleteTG
        <4>2. CASE StillInUse(tg) /\ ~Releasing(tg) /\ UNCHANGED cloudVars
          <5>1. PICK l \in listeners : /\ l.tg = tg
                                       /\ lbStatus[l.lb] # "TERMINATING"
            BY <4>2 DEF StillInUse, TGInUse, Releasing
          <5>2. lbStatus[l.lb] = "RUN"
            BY <1>1, <5>1 DEF ListeningInv
          <5>3. QED  BY <4>2, <5>1, <5>2 DEF cloudVars
        <4>3. CASE tg \in givenUp'
          BY <4>3
        <4>4. QED  BY <2>3, <4>1, <4>2, <4>3 DEF RemoveTG
      <3>3. \A i \in 1..Len(cp.tgs) : i < idx' => i < idx \/ i = idx
        BY <1>1, <3>1
      <3> HIDE DEF tg
      <3>4. \A i \in 1..Len(cp.tgs) :
               i < idx' /\ cp.tgs[i] \in tgLive' =>
                  \/ cp.tgs[i] \in givenUp'
                  \/ \E l \in listeners' :
                        /\ l.tg = cp.tgs[i]
                        /\ lbStatus'[l.lb] \in {"INIT", "RUN"}
        BY <2>1, <3>2, <3>3 DEF ClearedThen, tg
      <3>5. QED  BY <1>3, <3>4 DEF Cleared, HeldOpen, Alive
    <2>4. QED
      BY <1>2, <1>3, <2>2, <2>3, AtDeletion DEF DeletionDone, Goto
  <1>4. CASE RemoveTG \/ DeletionDone
    BY <1>3, <1>4 DEF RemoveTG, DeletionDone
  <1>5. QED  BY <1>2, <1>3, <1>4, AtDeletion

\* After the loop: all have been dealt with.
LEMMA RemovedStep ==
  ASSUME GroupsInv, [Next]_vars, pc' = "dropFinalizer"
  PROVE  Cleared(cp.tgs, Len(cp.tgs) + 1)'
  <1> DEFINE upto == Len(cp.tgs) + 1
  <1>1. /\ TypeInv /\ cp.tgs \in Seq(TGId) /\ idx \in Nat /\ upto \in Nat
        /\ pc \in Deleting => Made(cp.tgs)
        /\ pc = "deleteTG" => Cleared(cp.tgs, idx)
        /\ pc = "dropFinalizer" => Cleared(cp.tgs, upto)
    BY DEF GroupsInv, OwnershipInv, HeldInv, TypeInv, TypeOK, WorkerTypeOK,
           Object, MadeInv, ClearedInv
  <1>2. /\ pc \in {"deleteTG", "dropFinalizer"} /\ cp' = cp
        /\ pc = "deleteTG" => idx > Len(cp.tgs)
    BY AtDeletion DEF RemoveTG, DeletionDone, Goto
  <1>3. Cleared(cp.tgs, upto)
    BY <1>1, <1>2 DEF Cleared
  <1>4. ~RemoveLB
    BY <1>2 DEF RemoveLB
  <1> HIDE DEF upto
  <1>5. ClearedThen(cp.tgs, upto)
    BY <1>1, <1>2, <1>3, <1>4, ClearedKept DEF Deleting
  <1>6. QED
    BY <1>2, <1>5 DEF Cleared, ClearedThen, HeldOpen, Alive, upto

\* When the Service goes, the copy whose groups were cleared is its own last
\* version; and no load balancer is asked to go for a Service that is gone.
LEMMA GoneStep ==
  ASSUME LeftAlone, GroupsInv, [Next]_vars, ~svc'.exists
  PROVE  Cleared(svc.tgs, Len(svc.tgs) + 1)'
  <1> DEFINE upto == Len(svc.tgs) + 1
  <1>1. /\ TypeInv /\ NeverRetyped /\ HeldInv /\ ExistsInv /\ PlaceInv
        /\ OwnershipInv /\ svc.tgs \in Seq(TGId) /\ upto \in Nat
        /\ Made(svc.tgs) /\ NamedInv
    BY DEF LeftAlone, GroupsInv, OwnershipInv, HeldInv, TypeInv, TypeOK,
           KubeTypeOK, Object, MadeInv
  <1>2. ASSUME Cleared(svc.tgs, upto), svc'.tgs = svc.tgs,
               ~(RemoveLB /\ Alive(cp.lb))
        PROVE  Cleared(svc.tgs, Len(svc.tgs) + 1)'
    <2> HIDE DEF upto
    <2>1. ClearedThen(svc.tgs, upto)
      BY <1>1, <1>2, ClearedKept
    <2>2. QED
      BY <1>2, <2>1 DEF Cleared, ClearedThen, HeldOpen, Alive, upto
  <1>3. CASE svc' = svc
    <2>1. Cleared(svc.tgs, upto)
      BY <1>3 DEF GroupsInv, ClearedInv
    <2>2. ~(RemoveLB /\ Alive(cp.lb))
      <3>1. ~svc.finalizer
        BY <1>1, <1>3 DEF ExistsInv
      <3>2. QED  BY <1>1, <3>1, Removed DEF OwnershipInv, RecordInv
    <2>3. QED  BY <1>2, <1>3, <2>1, <2>2
  <1>4. CASE svc' # svc
    <2>1. svc.exists /\ Writes /\ ~Renewal
      BY <1>1, <1>4, Written
         DEF Informer, Deliver, Crash, Relist, Renewal, Wrote
    <2>2. CASE DropFinalizer
      <3>1. cp = svc /\ pc = "dropFinalizer" /\ ~RecordTG /\ ~RemoveLB
        BY <1>1, <2>2, CurrentCopy
           DEF DropFinalizer, Copied, Deleting, RecordTG, RemoveLB
      <3>2. svc'.tgs = svc.tgs
        BY <1>1, <2>1, <3>1, GroupsNamed
      <3>3. Cleared(svc.tgs, upto)
        BY <3>1 DEF GroupsInv, ClearedInv
      <3>4. QED  BY <1>2, <3>1, <3>2, <3>3
    <2>3. CASE svc.finalizer /\ ~DropFinalizer
      <3>1. svc'.finalizer
        BY <1>1, <2>1, <2>3, ServiceStep
      <3>2. svc'.exists
        BY <1>1, <3>1, VersionStep DEF ExistsInv
      <3>3. QED  BY <3>2
    <2>4. CASE ~svc.finalizer
      <3>1. ~RecordTG
        BY <1>1, <2>4 DEF RecordTG, PlaceInv, Making, Creating
      <3>2. svc'.tgs = svc.tgs /\ svc.tgs = <<>>
        BY <1>1, <2>1, <2>4, <3>1, GroupsNamed DEF NamedInv
      <3>3. 1..Len(svc'.tgs) = {}
        BY <3>2
      <3>4. QED  BY <3>3 DEF Cleared
    <2>5. QED  BY <2>2, <2>3, <2>4
  <1>5. QED  BY <1>3, <1>4

LEMMA NextGroupsInv ==
  ASSUME LeftAlone, GroupsInv, [Next]_vars
  PROVE  GroupsInv'
  <1>1. OwnershipInv /\ HeldInv /\ TypeInv
    BY DEF GroupsInv, OwnershipInv, HeldInv
  <1>2. ClearedInv'
    BY <1>1, RemovingStep, RemovedStep, GoneStep DEF ClearedInv
  <1>3. QED
    BY <1>1, <1>2, NextOwnershipInv, MadeStep, ListeningStep, NamedStep
       DEF GroupsInv

\* A target group a deleted Service named is gone, was given up, which the log
\* tells, or is used by a load balancer that was never named: for every number
\* of ports, failures, crashes, foreign writes and Services applied anew.
THEOREM NamedGone == LeftAlone /\ Spec => []NamedGroupsGo
  <1>1. GroupsInv => NamedGroupsGo
    <2> SUFFICES ASSUME GroupsInv, ~svc.exists,
                        NEW i \in 1..Len(svc.tgs), svc.tgs[i] \in tgLive
                 PROVE  svc.tgs[i] \in givenUp \/ HeldOpen(svc.tgs[i])
      BY DEF NamedGroupsGo
    <2>1. Cleared(svc.tgs, Len(svc.tgs) + 1)
      BY DEF GroupsInv, ClearedInv
    <2>2. svc.tgs \in Seq(TGId)
      BY DEF GroupsInv, OwnershipInv, HeldInv, TypeInv, TypeOK, KubeTypeOK,
             Object
    <2>3. i < Len(svc.tgs) + 1
      BY <2>2
    <2>4. QED  BY <2>1, <2>3 DEF Cleared
  <1>2. LeftAlone /\ GroupsInv /\ [Next]_vars => GroupsInv'
    BY NextGroupsInv
  <1>3. LeftAlone => []LeftAlone
    <2>1. LeftAlone => LeftAlone'
      BY DEF LeftAlone, NeverRetyped
    <2>2. QED  BY <2>1, PTL
  <1>4. QED
    BY InitGroupsInv, <1>1, <1>2, <1>3, PTL DEF Spec
-----------------------------------------------------------------------------
\* No call fails, and the cloud settles within the code's waits.
Untroubled == PromptCloud /\ Limit["fault"] = 0

\* Only a failed call, or tries that run out, make the code give up on a group.
LEMMA NothingGivenUp ==
  ASSUME Untroubled, TypeInv, givenUp = {}, [Next]_vars
  PROVE  givenUp' = {}
  <1>1. ~Spend("fault")
    <2>1. spent["fault"] \in Nat /\ Limit["fault"] = 0
      BY DEF TypeInv, TypeOK, Disturbances, Untroubled
    <2>2. QED  BY <2>1 DEF Spend
  <1>2. CASE Worker
    <2>1. CASE StartNothing \/ StartCleanup \/ StartDeletion \/ StartFinalizer
               \/ StartCreation \/ StartRefresh
      BY <2>1 DEF StartNothing, StartCleanup, StartDeletion, StartFinalizer,
                  StartCreation, StartRefresh, Take
    <2>2. CASE Conflict \/ Fail \/ QuotaReached \/ Refresh
      BY <2>2 DEF Conflict, ConflictOf, Fail, QuotaReached, Refresh
    <2>3. CASE MakeTG \/ FindTG \/ MakeLB \/ FindLB \/ Listen
      BY <2>3 DEF MakeTG, FindTG, MakeLB, FindLB, Listen
    <2>4. CASE RemoveTG
      BY <1>1, <2>4 DEF RemoveTG, StillInUse, Untroubled
    <2>5. CASE SkipLB \/ RemoveLB \/ LBMissing \/ DeletionDone
      BY <2>5 DEF SkipLB, RemoveLB, LBMissing, DeletionDone
    <2>6. CASE AddFinalizer \/ DropFinalizer \/ RecordTG \/ RecordLB
               \/ Publish \/ Strip \/ ClearStatus
      BY <2>6 DEF AddFinalizer, DropFinalizer, RecordTG, RecordLB, Publish,
                  Strip, ClearStatus
    <2>7. QED  BY <1>2, <2>1, <2>2, <2>3, <2>4, <2>5, <2>6 DEF Worker
  <1>3. CASE ~Worker
    BY <1>3 DEF Next, User, Informer, PeriodicResync, Crash, CloudProgress,
                vars
  <1>4. QED  BY <1>2, <1>3

\* When no call fails and the cloud settles in time, of the target groups a
\* deleted Service named only those a load balancer still uses that nobody has
\* asked to go are left: crashes, conflicts and stale reads lose none.
THEOREM UntroubledGone ==
  LeftAlone /\ Untroubled /\ Spec =>
    [](~svc.exists =>
         \A i \in 1..Len(svc.tgs) : svc.tgs[i] \in tgLive => HeldOpen(svc.tgs[i]))
  <1> DEFINE NoneLeft == givenUp = {}
  <1>1. Init => TypeInv /\ NoneLeft
    BY InitTypeInv DEF Init
  <1>2. TypeInv /\ [Next]_vars => TypeInv'
    BY NextTypeInv
  <1>3. Untroubled /\ TypeInv /\ NoneLeft /\ [Next]_vars => NoneLeft'
    BY NothingGivenUp
  <1>4. Untroubled => []Untroubled
    <2>1. Untroubled => Untroubled'
      BY DEF Untroubled
    <2>2. QED  BY <2>1, PTL
  <1>5. NamedGroupsGo /\ NoneLeft =>
          (~svc.exists => \A i \in 1..Len(svc.tgs) :
                             svc.tgs[i] \in tgLive => HeldOpen(svc.tgs[i]))
    BY DEF NamedGroupsGo
  <1> HIDE DEF NoneLeft
  <1>6. Untroubled /\ Spec => []NoneLeft
    BY <1>1, <1>2, <1>3, <1>4, PTL DEF Spec
  <1>7. QED
    BY <1>5, <1>6, NamedGone, PTL
=============================================================================
