--------------------------- MODULE RefinementProofs ---------------------------
(***************************************************************************)
(* The reconciler, with its cache, its stale copies and the asynchronous   *)
(* cloud, implements LBOwnership while nobody changes the Service's type   *)
(* or removes its annotations: initial states are mapped to initial        *)
(* states, and every step to a step of LBOwnership or to none, because the *)
(* invariant of OwnershipProofs makes the worker's stale knowledge true of *)
(* the server at that moment.                                              *)
(***************************************************************************)
EXTENDS OwnershipProofs

Running == {lb \in LBId : Alive(lb)}
Renewed == spent["apply"] > 0

LEMMA InitOwner == Init => Ownership!Init
  <1> SUFFICES ASSUME Init PROVE Ownership!Init
    OBVIOUS
  <1>1. Running = {}
    BY DEF Init, CloudInit, Running, Alive
  <1>2. /\ svc.exists = TRUE /\ svc.deleting = FALSE
        /\ svc.finalizer = FALSE /\ svc.lb = None
    BY DEF Init, KubeInit, NewService
  <1>3. Renewed = FALSE
    BY DEF Init, Renewed, Disturbances
  <1>4. QED
    BY <1>1, <1>2, <1>3
       DEF Ownership!Init, Running, Renewed, None, Ownership!None

\* The invariant, and the values LBOwnership's variables are mapped to.
LEMMA Mapped ==
  ASSUME OwnershipInv
  PROVE  /\ TypeInv /\ HeldInv /\ ExistsInv /\ PlaceInv /\ WorkerInv
         /\ CloudInv /\ RecordInv
         /\ svc \in Object /\ svc.exists \in BOOLEAN /\ svc.deleting \in BOOLEAN
         /\ svc.finalizer \in BOOLEAN
         /\ lbStatus \in [LBId -> Status] /\ recorded \subseteq LBId
         /\ None \notin LBId /\ spent["apply"] \in Nat
         /\ Renewed = ~FirstLife
  <1>1. TypeInv /\ spent["apply"] \in Nat
    BY DEF OwnershipInv, HeldInv, TypeInv, TypeOK, Disturbances
  <1>2. Renewed = ~FirstLife
    BY <1>1 DEF Renewed, FirstLife
  <1>3. QED
    BY <1>1, <1>2
       DEF OwnershipInv, HeldInv, TypeInv, TypeOK, KubeTypeOK, CloudTypeOK,
           Object, None, LBId

\* A step that leaves the six mapped values alone is no step of LBOwnership.
LEMMA OwnerStutter ==
  ASSUME svc'.exists = svc.exists, svc'.deleting = svc.deleting,
         svc'.finalizer = svc.finalizer, svc'.lb = svc.lb,
         Running' = Running, Renewed' = Renewed
  PROVE  UNCHANGED Ownership!ownerVars
  BY DEF Ownership!ownerVars, Running, Renewed

\* What the worker may replace with the load balancer in its hands.
LEMMA UnnamedThen ==
  ASSUME OwnershipInv, pc \in Creating,
         svc.lb # None => ~Alive(svc.lb)
  PROVE  /\ svc.lb = None \/ (Renewed /\ svc.lb \notin Running)
         /\ \A lb \in LBId : lbStatus[lb] # "UNMADE" /\ ~Alive(lb) => Renewed
  <1>1. ASSUME NEW lb \in LBId, lbStatus[lb] # "UNMADE", ~Alive(lb)
        PROVE  Renewed
    <2>1. lbStatus[lb] \in {"TERMINATING", "GONE"}
      BY <1>1, Mapped DEF Status, Alive
    <2>2. QED  BY <1>1, <2>1, Mapped DEF WorkerInv
  <1>2. svc.lb # None => svc.lb \in LBId /\ lbStatus[svc.lb] # "UNMADE"
    BY Mapped DEF RecordInv
  <1>3. QED  BY <1>1, <1>2 DEF Running

\* A write to the Service: the finalizer, the name, or the user's.
LEMMA OwnerWrites ==
  ASSUME LeftAlone, OwnershipInv, [Next]_vars, svc.exists, Writes
  PROVE  [Ownership!Next]_(Ownership!ownerVars)
  <1> DEFINE Step == [Ownership!Next]_(Ownership!ownerVars)
  <1> SUFFICES Step
    OBVIOUS
  <1>1. Running' = Running
    <2>1. lbStatus' = lbStatus
      BY DEF Writes, AddFinalizer, DropFinalizer, RecordTG, RecordLB, Publish,
             User, cloudVars
    <2>2. QED  BY <2>1 DEF Running, Alive
  <1>2. Renewed' = Renewed
    BY Mapped, SpentFrame DEF Reapply, Renewed
  <1>3. svc.exists = TRUE
    BY Mapped
  <1>4. CASE /\ svc'.deleting = svc.deleting /\ svc'.finalizer = svc.finalizer
             /\ svc'.lb = svc.lb /\ svc'.exists = (~svc.deleting \/ svc.finalizer)
    BY <1>1, <1>2, <1>4, Mapped, OwnerStutter DEF ExistsInv
  <1>5. CASE AddFinalizer /\ ~svc.deleting /\ ~svc.finalizer
             /\ Wrote(svc.deleting, TRUE, svc.lb, svc.ingress)
    <2>1. Ownership!Hold
      BY <1>1, <1>2, <1>3, <1>5, Mapped
         DEF Wrote, Ownership!Hold, Running, Renewed
    <2>2. QED  BY <2>1 DEF Ownership!Next
  <1>6. CASE DropFinalizer /\ svc.deleting /\ svc.finalizer /\ cp = svc
             /\ Wrote(svc.deleting, FALSE, svc.lb, svc.ingress)
    <2>1. svc.lb \notin Running
      BY <1>6, Mapped DEF DropFinalizer, WorkerInv, Running
    <2>2. svc'.exists = FALSE
      BY <1>6 DEF Wrote
    <2>3. Ownership!Release
      BY <1>1, <1>2, <1>3, <1>6, <2>1, <2>2
         DEF Wrote, Ownership!Release, Running, Renewed
    <2>4. QED  BY <2>3 DEF Ownership!Next
  <1>7. CASE RecordLB /\ svc.lb # lbId
             /\ Wrote(svc.deleting, svc.finalizer, lbId, svc.ingress)
    <2>1. /\ pc \in Creating /\ lbId \in LBId /\ svc.finalizer = TRUE
          /\ lbStatus[lbId] # "UNMADE" /\ \A lb \in LBId : Alive(lb) => lb = lbId
      BY <1>7, Mapped
         DEF RecordLB, TypeInv, LoopInv, PlaceInv, WorkerInv, Making, Creating
    <2>2. svc.lb # None => ~Alive(svc.lb)
      BY <1>7, <2>1, Mapped DEF RecordInv
    <2>3. svc.lb = None \/ (Renewed /\ svc.lb \notin Running)
      BY <2>1, <2>2, UnnamedThen
    <2>4. svc'.exists = TRUE
      BY <1>7, <2>1 DEF Wrote
    <2>5. CASE Alive(lbId)
      <3>1. lbId \in Running
        BY <2>1, <2>5 DEF Running
      <3>2. Ownership!Name
        BY <1>1, <1>2, <1>3, <1>7, <2>1, <2>3, <2>4, <3>1
           DEF Wrote, Ownership!Name, Ownership!Unnamed, Running, Renewed,
               None, Ownership!None
      <3>3. QED  BY <3>2 DEF Ownership!Next
    <2>6. CASE ~Alive(lbId)
      <3>1. Running = {} /\ Renewed
        BY <2>1, <2>2, <2>6, UnnamedThen DEF Running
      <3>2. Ownership!Adopt
        BY <1>1, <1>2, <1>3, <1>7, <2>1, <2>3, <2>4, <3>1
           DEF Wrote, Ownership!Adopt, Ownership!Unnamed, Running, Renewed,
               None, Ownership!None, LBId, Ownership!LBId
      <3>3. QED  BY <3>2 DEF Ownership!Next
    <2>7. QED  BY <2>5, <2>6
  <1>8. CASE DeleteService /\ Wrote(TRUE, svc.finalizer, svc.lb, svc.ingress)
    <2>1. svc'.exists = svc.finalizer /\ ~svc.deleting
      BY <1>8, Mapped DEF Wrote, DeleteService
    <2>2. Ownership!Ask
      BY <1>1, <1>2, <1>3, <1>8, <2>1
         DEF Wrote, Ownership!Ask, Running, Renewed
    <2>3. QED  BY <2>2 DEF Ownership!Next
  <1>9. AddFinalizer /\ svc.finalizer => svc.finalizer = TRUE
    BY Mapped
  <1>10. ~Spend("unannotate")
    BY Mapped, NotUnannotated
  <1>11. QED
    BY <1>4, <1>5, <1>6, <1>7, <1>8, <1>9, <1>10 DEF Writes, Wrote

\* A step in the cloud: a load balancer made, removed, built or gone.
LEMMA OwnerCloud ==
  ASSUME LeftAlone, OwnershipInv, [Next]_vars, svc' = svc
  PROVE  [Ownership!Next]_(Ownership!ownerVars)
  <1> DEFINE Step == [Ownership!Next]_(Ownership!ownerVars)
  <1> SUFFICES Step
    OBVIOUS
  <1>1. Renewed' = Renewed
    <2>1. ~Reapply
      BY DEF Reapply, NewService
    <2>2. QED  BY <2>1, Mapped, SpentFrame DEF Renewed
  <1>2. Running' = Running => Step
    BY <1>1, OwnerStutter
  <1>3. CASE MakeLB
    <2>1. pc \in Creating /\ svc.exists = TRUE /\ svc.finalizer = TRUE
      BY <1>3, Mapped DEF MakeLB, PlaceInv, ExistsInv, Making, Creating
    <2>2. PICK new \in LBId :
             /\ \A other \in LBId : ~Listed(other)
             /\ lbStatus' = [lbStatus EXCEPT ![new] = "INIT"]
      BY <1>3 DEF MakeLB, CreateLB
    <2>3. Running = {} /\ Running' = {new}
      BY <2>2, Mapped DEF Running, Alive, Listed
    <2>4. svc.lb = None \/ (Renewed /\ svc.lb \notin Running)
      BY <2>1, <2>2, Mapped, UnnamedThen DEF RecordInv, Alive, Listed
    <2>5. Ownership!Make
      BY <1>1, <2>1, <2>3, <2>4
         DEF Ownership!Make, Ownership!Unnamed, Running, Renewed, None,
             Ownership!None, LBId, Ownership!LBId
    <2>6. QED  BY <2>5 DEF Ownership!Next
  <1>4. CASE RemoveLB
    <2>1. CASE Alive(cp.lb)
      <3>1. Leaving /\ cp.lb \in recorded
        BY <1>4, <2>1, Removed
      <3>2. /\ svc.lb = cp.lb /\ svc.lb \in LBId
            /\ svc.deleting = TRUE /\ svc.finalizer = TRUE /\ svc.exists = TRUE
        BY <2>1, <3>1, Mapped DEF Leaving, RecordInv, ExistsInv
      <3>3. lbStatus' = [lbStatus EXCEPT ![cp.lb] = "TERMINATING"]
        BY <1>4, <2>1 DEF RemoveLB, DeleteLB
      <3>4. svc.lb \in Running /\ Running' = Running \ {svc.lb}
        BY <2>1, <3>2, <3>3, Mapped DEF Running, Alive
      <3>5. Ownership!Remove
        BY <1>1, <3>2, <3>4 DEF Ownership!Remove, Running, Renewed
      <3>6. QED  BY <3>5 DEF Ownership!Next
    <2>2. CASE ~Alive(cp.lb)
      BY <1>2, <1>4, <2>2 DEF RemoveLB, DeleteLB, Running, Alive
    <2>3. QED  BY <2>1, <2>2
  <1>5. CASE ~MakeLB /\ ~RemoveLB
    <2>1. \A lb \in LBId : Alive(lb)' => Alive(lb)
      BY <1>5, Mapped, AliveStep
    <2>2. \A lb \in LBId : Alive(lb) => Alive(lb)'
      BY <1>5, Mapped, AliveStep
    <2>3. QED  BY <1>2, <2>1, <2>2 DEF Running
  <1>6. QED  BY <1>3, <1>4, <1>5

LEMMA OwnerStep ==
  ASSUME LeftAlone, OwnershipInv, [Next]_vars
  PROVE  [Ownership!Next]_(Ownership!ownerVars)
  <1>1. CASE Renewal
    <2>1. lbStatus' = lbStatus
      BY <1>1 DEF Renewal, User, cloudVars
    <2>2. Running' = Running
      BY <2>1 DEF Running, Alive
    <2>3. svc.exists = FALSE
      BY <1>1, Mapped DEF Renewal
    <2>4. spent' = [spent EXCEPT !["apply"] = @ + 1]
      BY <1>1 DEF Renewal, Spend
    <2>5. spent'["apply"] = spent["apply"] + 1
      BY <2>4, Mapped DEF TypeInv, TypeOK, Disturbances
    <2>6. Renewed' = TRUE
      BY <2>5, Mapped DEF Renewed
    <2>7. svc'.exists = TRUE
      BY <1>1 DEF Renewal, Wrote
    <2>8. Ownership!Renew
      BY <1>1, <2>2, <2>3, <2>6, <2>7
         DEF Renewal, Wrote, Ownership!Renew, Running, Renewed, None,
             Ownership!None
    <2>9. QED  BY <2>8 DEF Ownership!Next
  <1>2. CASE UNCHANGED <<svc, watch, cache>> \/ (Informer /\ Deliver) \/ Crash
    <2>1. svc' = svc
      BY <1>2 DEF Deliver, Crash, Relist
    <2>2. QED  BY <2>1, OwnerCloud
  <1>3. QED
    BY <1>1, <1>2, Mapped, Written, OwnerWrites DEF LeftAlone

\* While nobody changes the Service's type or removes its annotations, the
\* reconciler with its cache, conflicts, faults, crashes and restarts, over any
\* number of lives of the Service, implements the simple account of ownership.
THEOREM Refinement == LeftAlone /\ Spec => ImplementsOwnership
  <1>1. LeftAlone /\ OwnershipInv /\ [Next]_vars
          => [Ownership!Next]_(Ownership!ownerVars)
    BY OwnerStep
  <1>2. LeftAlone => []LeftAlone
    <2>1. LeftAlone => LeftAlone'
      BY DEF LeftAlone, NeverRetyped
    <2>2. QED  BY <2>1, PTL
  <1>3. QED
    BY InitOwner, OwnershipHolds, <1>1, <1>2, PTL
       DEF Spec, ImplementsOwnership, Ownership!Spec
=============================================================================
