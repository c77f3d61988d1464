--------------------------- MODULE OwnershipProofs ---------------------------
(***************************************************************************)
(* Ownership of the load balancer: the recorded load balancer is never     *)
(* forgotten, nothing is made without the finalizer, and the published     *)
(* address is the owned one, however often the Service is deleted and      *)
(* applied anew, for a Service whose type nobody changes (and, but for the *)
(* finalizer, whose annotations nobody removes).                           *)
(*                                                                         *)
(* The argument has two layers.  The first is about versions: the cache    *)
(* and what is on its way to it are the last versions of the server's      *)
(* object, numbered without gaps, so that a write the server accepts is    *)
(* made from the server's own object; and since the finalizer goes only    *)
(* then, a copy that shows it, and no deletion, shows what is still true.  *)
(* The second is about the load balancer: only a worker that has seen a    *)
(* deletion that still binds takes one down, and all it will read from     *)
(* then on shows that deletion, too; so a worker that is creating works    *)
(* with the one load balancer that runs, if one does.                      *)
(***************************************************************************)
EXTENDS ServiceProofs

(***************************************************************************)
(* The first layer: versions and the finalizer.                            *)
(***************************************************************************)

\* The server's object goes away exactly when its deletion meets no finalizer.
ExistsInv ==
    /\ svc.type = "LoadBalancer"
    /\ svc.exists = (~svc.deleting \/ svc.finalizer)

\* The cache and the versions on their way to it are numbered up to the
\* server's, which is the last of them.
VersionInv ==
    /\ CaughtUp
    /\ svc.rv = cache.rv + Len(watch)
    /\ cache.type = "LoadBalancer"
    /\ \A i \in 1..Len(watch) : /\ watch[i].rv = cache.rv + i
                                /\ watch[i].type = "LoadBalancer"

\* A version that shows the finalizer is right, unless the cache shows the
\* deletion as well.
FinalizerInv ==
    /\ cache.finalizer /\ ~cache.deleting => svc.finalizer
    /\ \A i \in 1..Len(watch) : watch[i].finalizer => svc.finalizer

Deleting == {"deleteLB", "deleteTG", "dropFinalizer"}
Copied == {"addFinalizer"} \cup Deleting
Making == Creating \cup {"refresh", "publish"}

\* What the worker's place in Reconcile says about its copy and the finalizer.
PlaceInv ==
    /\ pc \notin {"strip", "clearStatus"}
    /\ pc # "idle" => cp.type = "LoadBalancer"
    /\ pc \in Copied => cp.rv <= cache.rv /\ (cp.rv = cache.rv => cp = cache)
    /\ pc \in Deleting => cp.deleting /\ cp.finalizer
    /\ pc = "addFinalizer" => ~cp.deleting
    /\ pc \in Making => svc.finalizer

HeldInv == TypeInv /\ ExistsInv /\ VersionInv /\ FinalizerInv /\ PlaceInv

NeverRetyped == Limit["type"] = 0

\* A Service begins without finalizer and with the cache in step.
LEMMA InitHeldInv == Init => HeldInv
  <1> SUFFICES ASSUME Init
               PROVE  HeldInv
    OBVIOUS
  <1>1. TypeInv
    BY InitTypeInv
  <1>2. svc = NewService /\ cache = NewService /\ watch = <<>> /\ pc = "idle"
    BY DEF Init, KubeInit
  <1>3. ExistsInv /\ FinalizerInv
    <2>1. 1..Len(watch) = {}
      BY <1>2
    <2>2. QED  BY <1>2, <2>1 DEF ExistsInv, FinalizerInv, NewService
  <1>4. VersionInv
    BY <1>2 DEF VersionInv, CaughtUp, NewService
  <1>5. PlaceInv
    BY <1>2 DEF PlaceInv, Copied, Deleting, Making, Creating
  <1>6. QED  BY <1>1, <1>3, <1>4, <1>5 DEF HeldInv

\* A cache of the server's version is the server's object, with nothing on its
\* way.
LEMMA CurrentCache ==
  ASSUME HeldInv, cache.rv = svc.rv
  PROVE  cache = svc /\ watch = <<>>
  <1>1. watch \in Seq(Object) /\ cache.rv \in Nat
    BY DEF HeldInv, TypeInv, TypeOK, KubeTypeOK, Object
  <1>2. Len(watch) = 0
    BY <1>1 DEF HeldInv, VersionInv
  <1>3. watch = <<>>
    BY <1>1, <1>2
  <1>4. QED  BY <1>3 DEF HeldInv, VersionInv, CaughtUp

\* So is a copy the worker writes back, if the server accepts it.
LEMMA CurrentCopy ==
  ASSUME HeldInv, pc \in Copied, Current(cp)
  PROVE  cp = svc /\ cache = svc /\ svc.exists
  <1>1. /\ watch \in Seq(Object) /\ cache.rv \in Nat /\ cp.rv \in Nat
        /\ cp.rv = svc.rv /\ svc.exists
    BY DEF HeldInv, TypeInv, TypeOK, KubeTypeOK, WorkerTypeOK, Object, Current
  <1>2. cp.rv <= cache.rv /\ svc.rv = cache.rv + Len(watch) /\ Len(watch) \in Nat
    BY <1>1 DEF HeldInv, PlaceInv, VersionInv
  <1>3. cp.rv = cache.rv /\ cache.rv = svc.rv
    BY <1>1, <1>2
  <1>4. QED  BY <1>1, <1>3, CurrentCache DEF HeldInv, PlaceInv
-----------------------------------------------------------------------------
\* The server has a new version, with these values.
Wrote(deleting, finalizer, lb, ingress) ==
    /\ svc'.type = "LoadBalancer" /\ svc'.rv = svc.rv + 1
    /\ svc'.deleting = deleting /\ svc'.finalizer = finalizer
    /\ svc'.lb = lb /\ svc'.ingress = ingress
    /\ svc'.exists = (~deleting \/ finalizer)
    /\ watch' = Append(watch, svc') /\ cache' = cache

LEMMA StoreWrote ==
  ASSUME TypeInv, NEW o \in Object, Store(o), o.type = "LoadBalancer",
         cache' = cache
  PROVE  Wrote(o.deleting, o.finalizer, o.lb, o.ingress)
  <1>1. svc' = [o EXCEPT !.rv = svc.rv + 1,
                         !.exists = ~(o.deleting /\ ~o.finalizer)]
    BY DEF Store
  <1>2. watch' = Append(watch, svc')
    BY DEF Store
  <1>3. QED  BY <1>1, <1>2 DEF Object, Wrote

\* What the writers of the Service write, each of the server's own object.
Writes ==
    \/ AddFinalizer /\ ~svc.deleting
          /\ Wrote(svc.deleting, TRUE, svc.lb, svc.ingress)
    \/ DropFinalizer /\ svc.deleting /\ svc.finalizer /\ cp = svc /\ cache = svc
          /\ Wrote(svc.deleting, FALSE, svc.lb, svc.ingress)
    \/ RecordTG /\ Wrote(svc.deleting, svc.finalizer, svc.lb, svc.ingress)
    \/ RecordLB /\ svc.lb # lbId /\ recorded' = recorded \cup {lbId}
          /\ Wrote(svc.deleting, svc.finalizer, lbId, svc.ingress)
    \/ Publish /\ Wrote(svc.deleting, svc.finalizer, svc.lb, lbId)
    \/ User /\ \/ DeleteService /\ Wrote(TRUE, svc.finalizer, svc.lb, svc.ingress)
               \/ Touch /\ Wrote(svc.deleting, svc.finalizer, svc.lb, svc.ingress)
               \/ Spend("unannotate")
                     /\ \E lb \in {None, svc.lb} :
                           Wrote(svc.deleting, svc.finalizer, lb, svc.ingress)

Renewal == ~svc.exists /\ User /\ Spend("apply") /\ Reapply
              /\ Wrote(FALSE, FALSE, None, None)

LEMMA Written ==
  ASSUME NeverRetyped, HeldInv, [Next]_vars
  PROVE  \/ svc.exists /\ Writes
         \/ Renewal
         \/ UNCHANGED <<svc, watch, cache>>
         \/ Informer /\ Deliver
         \/ Crash
  <1>1. /\ TypeInv /\ ExistsInv
        /\ svc \in Object /\ cache \in Object /\ cp \in Object
        /\ svc.type = "LoadBalancer"
    BY DEF HeldInv, ExistsInv, TypeInv, TypeOK, KubeTypeOK, WorkerTypeOK
  <1>2. CASE AddFinalizer
    <2> DEFINE o == [cp EXCEPT !.finalizer = TRUE]
    <2>1. cp = svc /\ svc.exists /\ ~svc.deleting
      BY <1>2, CurrentCopy DEF AddFinalizer, HeldInv, PlaceInv, Copied
    <2>2. /\ o \in Object /\ o.type = "LoadBalancer" /\ o.finalizer = TRUE
          /\ o.deleting = svc.deleting /\ o.lb = svc.lb /\ o.ingress = svc.ingress
      BY <1>1, <2>1 DEF Object
    <2>3. Store(o) /\ cache' = cache
      BY <1>2 DEF AddFinalizer
    <2>4. Wrote(o.deleting, o.finalizer, o.lb, o.ingress)
      BY <1>1, <2>2, <2>3, StoreWrote
    <2>5. QED  BY <1>2, <2>1, <2>2, <2>4 DEF Writes
  <1>3. CASE DropFinalizer
    <2> DEFINE o == [cp EXCEPT !.finalizer = FALSE]
    <2>1. cp = svc /\ svc.exists /\ svc.deleting /\ svc.finalizer /\ cache = svc
      BY <1>3, CurrentCopy DEF DropFinalizer, HeldInv, PlaceInv, Copied, Deleting
    <2>2. /\ o \in Object /\ o.type = "LoadBalancer" /\ o.finalizer = FALSE
          /\ o.deleting = svc.deleting /\ o.lb = svc.lb /\ o.ingress = svc.ingress
      BY <1>1, <2>1 DEF Object
    <2>3. Store(o) /\ cache' = cache
      BY <1>3 DEF DropFinalizer
    <2>4. Wrote(o.deleting, o.finalizer, o.lb, o.ingress)
      BY <1>1, <2>2, <2>3, StoreWrote
    <2>5. QED  BY <1>3, <2>1, <2>2, <2>4 DEF Writes
  <1>4. CASE RecordTG
    <2> DEFINE t == Append(cache.tgs, tgIds[idx])
               o == [cache EXCEPT !.tgs = t]
    <2>1. cache' = cache
      BY <1>4 DEF RecordTG
    <2>2. CASE Current(cache) /\ Store(o)
      <3>1. cache = svc /\ svc.exists
        BY <2>2, CurrentCache DEF Current
      <3>2. tgIds[idx] \in TGId /\ cache.tgs \in Seq(TGId)
        BY <1>1, <1>4 DEF RecordTG, TypeInv, TypeOK, WorkerTypeOK, LoopInv,
                          Ports, Object
      <3>3. t \in Seq(TGId)
        BY <3>2
      <3>4. /\ o \in Object /\ o.type = "LoadBalancer"
            /\ o.finalizer = svc.finalizer /\ o.deleting = svc.deleting
            /\ o.lb = svc.lb /\ o.ingress = svc.ingress
        <4> HIDE DEF t
        <4>1. QED  BY <1>1, <3>1, <3>3 DEF Object
      <3>5. Wrote(o.deleting, o.finalizer, o.lb, o.ingress)
        BY <1>1, <2>1, <2>2, <3>4, StoreWrote
      <3>6. QED  BY <1>4, <3>1, <3>4, <3>5 DEF Writes
    <2>3. CASE UNCHANGED <<svc, watch>>
      BY <2>1, <2>3
    <2>4. QED  BY <1>4, <2>2, <2>3 DEF RecordTG
  <1>5. CASE RecordLB
    <2> DEFINE o == [cache EXCEPT !.lb = lbId]
    <2>1. cache' = cache /\ lbId \in LBId
      BY <1>1, <1>5 DEF RecordLB, TypeInv, LoopInv
    <2>2. CASE /\ cache.lb # lbId /\ Current(cache) /\ Store(o)
               /\ recorded' = recorded \cup {lbId}
      <3>1. cache = svc /\ svc.exists
        BY <2>2, CurrentCache DEF Current
      <3>2. /\ o \in Object /\ o.type = "LoadBalancer"
            /\ o.finalizer = svc.finalizer /\ o.deleting = svc.deleting
            /\ o.lb = lbId /\ o.ingress = svc.ingress
        BY <1>1, <2>1, <3>1 DEF Object
      <3>3. Wrote(o.deleting, o.finalizer, o.lb, o.ingress)
        BY <1>1, <2>1, <2>2, <3>2, StoreWrote
      <3>4. QED  BY <1>5, <2>2, <3>1, <3>2, <3>3 DEF Writes
    <2>3. CASE UNCHANGED <<svc, watch>>
      BY <2>1, <2>3
    <2>4. QED  BY <1>5, <2>2, <2>3 DEF RecordLB
  <1>6. CASE Publish
    <2> DEFINE o == [cache EXCEPT !.ingress = lbId]
    <2>1. cache' = cache /\ lbId \in LBId
      BY <1>1, <1>6 DEF Publish, TypeInv, LoopInv
    <2>2. CASE Current(cache) /\ Store(o)
      <3>1. cache = svc /\ svc.exists
        BY <2>2, CurrentCache DEF Current
      <3>2. /\ o \in Object /\ o.type = "LoadBalancer"
            /\ o.finalizer = svc.finalizer /\ o.deleting = svc.deleting
            /\ o.lb = svc.lb /\ o.ingress = lbId
        BY <1>1, <2>1, <3>1 DEF Object
      <3>3. Wrote(o.deleting, o.finalizer, o.lb, o.ingress)
        BY <1>1, <2>1, <2>2, <3>2, StoreWrote
      <3>4. QED  BY <1>6, <3>1, <3>2, <3>3 DEF Writes
    <2>3. CASE UNCHANGED <<svc, watch>>
      BY <2>1, <2>3
    <2>4. QED  BY <1>6, <2>2, <2>3 DEF Publish
  <1>7. CASE User
    <2>1. cache' = cache /\ ~Spend("type")
      BY <1>1, <1>7 DEF User, DeleteService, ChangeType, Touch, Reapply,
         Unannotate, NeverRetyped, TypeInv, TypeOK, Spend, Disturbances
    <2>2. CASE DeleteService
      <3> DEFINE o == [svc EXCEPT !.deleting = TRUE]
      <3>1. /\ o \in Object /\ o.type = "LoadBalancer"
            /\ o.finalizer = svc.finalizer /\ o.deleting = TRUE
            /\ o.lb = svc.lb /\ o.ingress = svc.ingress
        BY <1>1 DEF Object
      <3>2. Store(o) /\ svc.exists
        BY <2>2 DEF DeleteService
      <3>3. Wrote(o.deleting, o.finalizer, o.lb, o.ingress)
        BY <1>1, <2>1, <3>1, <3>2, StoreWrote
      <3>4. QED  BY <1>7, <2>2, <3>1, <3>2, <3>3 DEF Writes
    <2>3. CASE Touch
      <3>1. Store(svc) /\ svc.exists
        BY <2>3 DEF Touch
      <3>2. Wrote(svc.deleting, svc.finalizer, svc.lb, svc.ingress)
        BY <1>1, <2>1, <3>1, StoreWrote
      <3>3. QED  BY <1>7, <2>3, <3>1, <3>2 DEF Writes
    <2>4. CASE Spend("apply") /\ Reapply
      <3>1. svc' = [NewService EXCEPT !.rv = svc.rv + 1] /\ ~svc.exists
            /\ watch' = Append(watch, svc')
        BY <2>4 DEF Reapply
      <3>2. Wrote(FALSE, FALSE, None, None)
        BY <1>1, <2>1, <3>1 DEF NewService, Wrote
      <3>3. QED  BY <1>7, <2>4, <3>1, <3>2 DEF Renewal
    <2>5. CASE Spend("unannotate") /\ Unannotate
      <3>1. PICK o \in Object :
               /\ svc.exists /\ Store(o) /\ o.type = "LoadBalancer"
               /\ o.finalizer = svc.finalizer /\ o.deleting = svc.deleting
               /\ o.lb \in {None, svc.lb} /\ o.ingress = svc.ingress
        <4>1. CASE svc.lb # None /\ Store([svc EXCEPT !.lb = None])
          <5>1. [svc EXCEPT !.lb = None] \in Object
            BY <1>1 DEF Object
          <5>2. QED  BY <1>1, <2>5, <4>1, <5>1 DEF Unannotate, Object
        <4>2. CASE Store([svc EXCEPT !.tgs = <<>>])
          <5> DEFINE t == <<>>
                     o == [svc EXCEPT !.tgs = t]
          <5>1. t \in Seq(TGId)
            OBVIOUS
          <5>2. /\ o \in Object /\ o.type = "LoadBalancer"
                /\ o.finalizer = svc.finalizer /\ o.deleting = svc.deleting
                /\ o.lb = svc.lb /\ o.ingress = svc.ingress
            <6> HIDE DEF t
            <6>1. QED  BY <1>1, <5>1 DEF Object
          <5>3. svc.exists /\ Store(o)
            BY <2>5, <4>2 DEF Unannotate
          <5>4. QED  BY <5>2, <5>3
        <4>3. QED  BY <2>5, <4>1, <4>2 DEF Unannotate
      <3>2. Wrote(o.deleting, o.finalizer, o.lb, o.ingress)
        BY <1>1, <2>1, <3>1, StoreWrote
      <3>3. QED  BY <1>7, <2>5, <3>1, <3>2 DEF Writes
    <2>6. QED  BY <1>7, <2>1, <2>2, <2>3, <2>4, <2>5 DEF User
  <1>8. CASE Informer \/ Crash
    BY <1>8 DEF Informer
  <1>9. ~Strip /\ ~ClearStatus
    BY DEF HeldInv, PlaceInv, Strip, ClearStatus
  <1>10. CASE ~KubeWrite
    BY <1>10, KubeFrame
  <1>11. QED
    BY <1>2, <1>3, <1>4, <1>5, <1>6, <1>7, <1>8, <1>9, <1>10 DEF KubeWrite
-----------------------------------------------------------------------------
\* Versions stay in order, and the server's object exists as it should.
LEMMA VersionStep ==
  ASSUME NeverRetyped, HeldInv, [Next]_vars
  PROVE  ExistsInv' /\ VersionInv'
  <1>1. /\ TypeInv /\ ExistsInv /\ VersionInv
        /\ svc \in Object /\ cache \in Object /\ watch \in Seq(Object)
        /\ svc.rv \in Nat /\ cache.rv \in Nat /\ CaughtUp'
    BY CaughtUpStep
       DEF HeldInv, TypeInv, TypeOK, KubeTypeOK, Object, VersionInv
  <1>2. CASE \E d, f, l, i : Wrote(d, f, l, i)
    <2>1. /\ svc'.type = "LoadBalancer" /\ svc'.rv = svc.rv + 1
          /\ svc'.exists = (~svc'.deleting \/ svc'.finalizer)
          /\ watch' = Append(watch, svc') /\ cache' = cache
      BY <1>2 DEF Wrote
    <2>2. Len(watch') = Len(watch) + 1 /\ Len(watch) \in Nat
      BY <1>1, <2>1
    <2>3. ASSUME NEW k \in 1..Len(watch')
          PROVE  watch'[k].rv = cache.rv + k /\ watch'[k].type = "LoadBalancer"
      <3>1. CASE k \in 1..Len(watch)
        <4>1. watch'[k] = watch[k]
          BY <1>1, <2>1, <3>1
        <4>2. QED  BY <1>1, <3>1, <4>1 DEF VersionInv
      <3>2. CASE k = Len(watch) + 1
        <4>1. watch'[k] = svc'
          BY <1>1, <2>1, <3>2
        <4>2. svc.rv = cache.rv + Len(watch)
          BY <1>1 DEF VersionInv
        <4>3. QED  BY <1>1, <2>1, <2>2, <3>2, <4>1, <4>2
      <3>3. QED  BY <2>2, <3>1, <3>2
    <2>4. svc'.rv = cache.rv + Len(watch')
      BY <1>1, <2>1, <2>2 DEF VersionInv
    <2>5. QED  BY <1>1, <2>1, <2>3, <2>4 DEF ExistsInv, VersionInv
  <1>3. CASE UNCHANGED <<svc, watch, cache>>
    BY <1>1, <1>3 DEF ExistsInv, VersionInv
  <1>4. CASE Deliver
    <2>1. /\ watch # <<>> /\ cache' = Head(watch) /\ watch' = Tail(watch)
          /\ svc' = svc
      BY <1>4 DEF Deliver
    <2>2. /\ Len(watch) \in Nat /\ Len(watch) >= 1 /\ cache' = watch[1]
          /\ Len(watch') = Len(watch) - 1
          /\ \A i \in 1..Len(watch') : watch'[i] = watch[i + 1]
      BY <1>1, <2>1
    <2>3. cache'.rv = cache.rv + 1 /\ cache'.type = "LoadBalancer"
      BY <1>1, <2>2 DEF VersionInv
    <2>4. \A i \in 1..Len(watch') : /\ watch'[i].rv = cache'.rv + i
                                    /\ watch'[i].type = "LoadBalancer"
      <3> TAKE i \in 1..Len(watch')
      <3>1. i + 1 \in 1..Len(watch) /\ i \in Nat /\ watch'[i] = watch[i + 1]
        BY <2>2
      <3>2. watch[i + 1].rv = cache.rv + (i + 1)
            /\ watch[i + 1].type = "LoadBalancer"
        BY <1>1, <3>1 DEF VersionInv
      <3>3. QED  BY <1>1, <2>3, <3>1, <3>2
    <2>5. svc'.rv = cache'.rv + Len(watch')
      BY <1>1, <2>1, <2>2, <2>3 DEF VersionInv
    <2>6. QED  BY <1>1, <2>1, <2>3, <2>4, <2>5 DEF ExistsInv, VersionInv
  <1>5. CASE Crash
    <2>1. svc' = svc /\ cache' = svc /\ watch' = <<>>
      BY <1>5 DEF Crash, Relist
    <2>2. Len(watch') = 0 /\ 1..Len(watch') = {}
      BY <2>1
    <2>3. svc'.rv = cache'.rv + Len(watch')
      BY <1>1, <2>1, <2>2
    <2>4. QED  BY <1>1, <2>1, <2>2, <2>3 DEF ExistsInv, VersionInv
  <1>6. QED
    BY <1>2, <1>3, <1>4, <1>5, Written DEF Writes, Renewal

\* The finalizer goes only when the cache shows the deletion, with nothing on
\* its way.
LEMMA FinalizerStep ==
  ASSUME NeverRetyped, HeldInv, [Next]_vars
  PROVE  FinalizerInv'
  <1>1. /\ ExistsInv /\ VersionInv /\ FinalizerInv
        /\ svc \in Object /\ watch \in Seq(Object)
    BY DEF HeldInv, TypeInv, TypeOK, KubeTypeOK
  <1>2. CASE \E d, f, l, i : Wrote(d, f, l, i)
                             /\ (f \/ (svc.finalizer => cache.deleting /\ watch = <<>>))
    <2>1. PICK f : /\ svc'.finalizer = f
                   /\ watch' = Append(watch, svc') /\ cache' = cache
                   /\ f \/ (svc.finalizer => cache.deleting /\ watch = <<>>)
      BY <1>2 DEF Wrote
    <2>2. cache.finalizer /\ ~cache.deleting => f
      BY <1>1, <2>1 DEF FinalizerInv
    <2>3. ASSUME NEW k \in 1..Len(watch'), watch'[k].finalizer
          PROVE  svc'.finalizer
      <3>1. CASE k \in 1..Len(watch)
        <4>1. watch'[k] = watch[k] /\ watch # <<>>
          BY <1>1, <2>1, <3>1
        <4>2. QED  BY <1>1, <2>1, <2>3, <3>1, <4>1 DEF FinalizerInv
      <3>2. CASE k \notin 1..Len(watch)
        <4>1. watch'[k] = svc'
          BY <1>1, <2>1, <2>3, <3>2
        <4>2. QED  BY <2>3, <4>1
      <3>3. QED  BY <3>1, <3>2
    <2>4. QED  BY <2>1, <2>2, <2>3 DEF FinalizerInv
  <1>3. CASE svc.exists /\ Writes
    <2>1. CASE DropFinalizer /\ svc.deleting /\ cache = svc
               /\ Wrote(svc.deleting, FALSE, svc.lb, svc.ingress)
      <3>1. watch = <<>>
        BY <2>1, CurrentCache
      <3>2. QED  BY <1>2, <2>1, <3>1
    <2>2. CASE \E d, l, i : Wrote(d, svc.finalizer, l, i)
      BY <1>2, <2>2
    <2>3. CASE \E d, l, i : Wrote(d, TRUE, l, i)
      BY <1>2, <2>3
    <2>4. QED  BY <1>3, <2>1, <2>2, <2>3 DEF Writes
  <1>4. CASE Renewal
    <2>1. ~svc.finalizer
      BY <1>1, <1>4 DEF Renewal, ExistsInv
    <2>2. QED  BY <1>2, <1>4, <2>1 DEF Renewal
  <1>5. CASE UNCHANGED <<svc, watch, cache>>
    BY <1>1, <1>5 DEF FinalizerInv
  <1>6. CASE Deliver
    <2>1. /\ watch # <<>> /\ cache' = Head(watch) /\ watch' = Tail(watch)
          /\ svc' = svc
      BY <1>6 DEF Deliver
    <2>2. /\ Len(watch) \in Nat /\ Len(watch) >= 1 /\ cache' = watch[1]
          /\ Len(watch') = Len(watch) - 1
          /\ \A i \in 1..Len(watch') : watch'[i] = watch[i + 1]
      BY <1>1, <2>1
    <2>3. \A i \in 1..Len(watch') : i + 1 \in 1..Len(watch)
      BY <2>2
    <2>4. QED  BY <1>1, <2>1, <2>2, <2>3 DEF FinalizerInv
  <1>7. CASE Crash
    <2>1. svc' = svc /\ cache' = svc /\ watch' = <<>>
      BY <1>7 DEF Crash, Relist
    <2>2. 1..Len(watch') = {}
      BY <2>1
    <2>3. QED  BY <2>1, <2>2 DEF FinalizerInv
  <1>8. QED  BY <1>3, <1>4, <1>5, <1>6, <1>7, Written
-----------------------------------------------------------------------------
\* The steps that change a load balancer's status, and what was recorded.
LEMMA CloudFrame ==
  ASSUME [Next]_vars
  PROVE  /\ \/ MakeLB \/ RemoveLB \/ \E lb \in LBId : CloudProgress(lb)
            \/ UNCHANGED lbStatus
         /\ RecordLB \/ UNCHANGED recorded
  <1>1. CASE Worker
    <2>1. CASE StartNothing \/ StartCleanup \/ StartDeletion \/ StartFinalizer
               \/ StartCreation \/ StartRefresh
      BY <2>1 DEF StartNothing, StartCleanup, StartDeletion, StartFinalizer,
                  StartCreation, StartRefresh, Take, cloudVars
    <2>2. CASE Conflict \/ Fail \/ QuotaReached \/ Refresh
      BY <2>2 DEF Conflict, ConflictOf, Fail, QuotaReached, Refresh, cloudVars
    <2>3. CASE MakeTG \/ FindTG \/ MakeLB \/ FindLB \/ Listen
      BY <2>3 DEF MakeTG, CreateTG, FindTG, MakeLB, FindLB, Listen,
                  CreateListener, cloudVars
    <2>4. CASE SkipLB \/ RemoveLB \/ LBMissing \/ RemoveTG \/ DeletionDone
      BY <2>4 DEF SkipLB, RemoveLB, LBMissing, RemoveTG, DeleteTG,
                  DeletionDone, cloudVars
    <2>5. CASE AddFinalizer \/ DropFinalizer \/ RecordTG \/ RecordLB
               \/ Publish \/ Strip \/ ClearStatus
      BY <2>5 DEF AddFinalizer, DropFinalizer, RecordTG, RecordLB, Publish,
                  Strip, ClearStatus, cloudVars
    <2>6. QED  BY <1>1, <2>1, <2>2, <2>3, <2>4, <2>5 DEF Worker
  <1>2. CASE ~Worker
    BY <1>2 DEF Next, User, Informer, PeriodicResync, Crash, CloudProgress,
                cloudVars, vars
  <1>3. QED  BY <1>1, <1>2

\* A target group is made by MakeTG only.
LEMMA PortFrame ==
  ASSUME [Next]_vars, ~MakeTG
  PROVE  UNCHANGED tgPort
  <1>1. CASE Worker
    <2>1. CASE StartNothing \/ StartCleanup \/ StartDeletion \/ StartFinalizer
               \/ StartCreation \/ StartRefresh
      BY <2>1 DEF StartNothing, StartCleanup, StartDeletion, StartFinalizer,
                  StartCreation, StartRefresh, Take, cloudVars
    <2>2. CASE Conflict \/ Fail \/ QuotaReached \/ Refresh
      BY <2>2 DEF Conflict, ConflictOf, Fail, QuotaReached, Refresh, cloudVars
    <2>3. CASE FindTG \/ MakeLB \/ FindLB \/ Listen
      BY <2>3 DEF FindTG, MakeLB, CreateLB, FindLB, Listen, CreateListener,
                  cloudVars
    <2>4. CASE SkipLB \/ RemoveLB \/ LBMissing \/ RemoveTG \/ DeletionDone
      BY <2>4 DEF SkipLB, RemoveLB, DeleteLB, LBMissing, RemoveTG, DeleteTG,
                  DeletionDone, cloudVars
    <2>5. CASE AddFinalizer \/ DropFinalizer \/ RecordTG \/ RecordLB
               \/ Publish \/ Strip \/ ClearStatus
      BY <2>5 DEF AddFinalizer, DropFinalizer, RecordTG, RecordLB, Publish,
                  Strip, ClearStatus, cloudVars
    <2>6. QED  BY <1>1, <2>1, <2>2, <2>3, <2>4, <2>5 DEF Worker
  <1>2. CASE ~Worker
    BY <1>2 DEF Next, User, Informer, PeriodicResync, Crash, CloudProgress,
                FinishBuild, FinishDelete, cloudVars, vars
  <1>3. QED  BY <1>1, <1>2

\* The worker's place in Reconcile goes on saying what PlaceInv claims.
LEMMA PlaceStep ==
  ASSUME NeverRetyped, HeldInv, [Next]_vars
  PROVE  PlaceInv'
  <1>1. /\ ExistsInv /\ VersionInv /\ FinalizerInv /\ PlaceInv
        /\ svc \in Object /\ cache \in Object /\ cp \in Object
        /\ watch \in Seq(Object) /\ svc.rv \in Nat /\ cache.rv \in Nat
        /\ cp.rv \in Nat
    BY DEF HeldInv, TypeInv, TypeOK, KubeTypeOK, WorkerTypeOK, Object
  <1>2. pc' = "idle" => PlaceInv'
    BY DEF PlaceInv, Copied, Deleting, Making, Creating
  <1>3. CASE Return
    BY <1>2, <1>3 DEF Return
  <1>4. CASE StartNothing
    BY <1>2, <1>4 DEF StartNothing, workerVars
  <1>5. ~StartCleanup
    BY <1>1 DEF StartCleanup, IsLB, VersionInv
  <1>6. CASE StartDeletion \/ StartFinalizer
    BY <1>1, <1>6 DEF StartDeletion, StartFinalizer, IsLB, Take, PlaceInv, Copied,
                      Deleting, Making, Creating
  <1>7. CASE StartCreation \/ StartRefresh
    BY <1>1, <1>7 DEF StartCreation, StartRefresh, IsLB, Take, FinalizerInv,
                      PlaceInv, Copied, Deleting, Making, Creating
  <1>8. CASE (MakeTG \/ FindTG \/ MakeLB \/ FindLB \/ Listen \/ Refresh) /\ ~Return
    <2>1. /\ pc \in Making /\ pc' \in Making /\ UNCHANGED <<svc, cp>>
      BY <1>8 DEF MakeTG, FindTG, MakeLB, FindLB, Listen, Refresh, NextPort,
                  Goto, Retry, kubeVars, Making, Creating
    <2>2. QED
      BY <1>1, <2>1 DEF PlaceInv, Copied, Deleting, Making, Creating
  <1>9. CASE (RecordTG \/ RecordLB) /\ ~Return
    <2>1. /\ pc \in Making /\ pc' \in Making /\ cp' = cp
      BY <1>9 DEF RecordTG, RecordLB, NextPort, Goto, Retry, Making, Creating
    <2>2. svc' = svc \/ svc'.finalizer = svc.finalizer
      <3>1. CASE svc.exists /\ Writes
        <4>1. ~AddFinalizer /\ ~DropFinalizer
          BY <2>1 DEF AddFinalizer, DropFinalizer, Making, Creating
        <4>2. QED  BY <3>1, <4>1 DEF Writes, Wrote
      <3>2. ~Renewal
        BY <1>1, <2>1 DEF Renewal, PlaceInv, ExistsInv
      <3>3. CASE Informer \/ Crash
        BY <3>3 DEF Informer, Deliver, Crash, Relist
      <3>4. QED  BY <3>1, <3>2, <3>3, Written
    <2>3. QED
      BY <1>1, <2>1, <2>2 DEF PlaceInv, Copied, Deleting, Making, Creating
  <1>10. CASE (SkipLB \/ RemoveLB \/ RemoveTG \/ DeletionDone) /\ ~Return
    <2>1. /\ pc \in Deleting /\ pc' \in Deleting \cup {"strip"}
          /\ (pc' = "strip" => ~IsLB(cp)) /\ UNCHANGED <<svc, cache, cp>>
      BY <1>10 DEF SkipLB, RemoveLB, RemoveTG, DeletionDone, Goto, Retry,
                   kubeVars, Deleting
    <2>2. QED
      BY <1>1, <2>1 DEF IsLB, PlaceInv, Copied, Deleting, Making, Creating
  <1>11. CASE User
    <2>1. UNCHANGED <<pc, cp, cache>>
      BY <1>11 DEF User, workerVars, DeleteService, ChangeType, Touch, Reapply,
                   Unannotate
    <2>2. svc.finalizer => svc'.finalizer
      <3>1. CASE svc.exists /\ Writes
        <4>1. ~DropFinalizer
          BY <1>11, <2>1 DEF DropFinalizer, Done, Return
        <4>2. QED  BY <3>1, <4>1 DEF Writes, Wrote
      <3>2. CASE Renewal
        BY <1>1, <3>2 DEF Renewal, ExistsInv
      <3>3. CASE Informer \/ Crash
        BY <3>3 DEF Informer, Deliver, Crash, Relist
      <3>4. QED  BY <3>1, <3>2, <3>3, Written
    <2>3. QED
      BY <1>1, <2>1, <2>2 DEF PlaceInv, Copied, Deleting, Making, Creating
  <1>12. CASE Informer
    <2>1. /\ watch # <<>> /\ cache' = Head(watch) /\ UNCHANGED <<svc, pc, cp>>
      BY <1>12 DEF Informer, Deliver, workerVars
    <2>2. cache' = watch[1] /\ 1 \in 1..Len(watch)
      BY <1>1, <2>1
    <2>3. cache'.rv = cache.rv + 1
      BY <1>1, <2>2 DEF VersionInv
    <2>4. pc \in Copied => cp.rv <= cache'.rv /\ cp.rv # cache'.rv
      BY <1>1, <2>3 DEF PlaceInv
    <2>5. QED
      BY <1>1, <2>1, <2>4 DEF PlaceInv, Copied, Deleting, Making, Creating
  <1>13. CASE PeriodicResync \/ (\E lb \in LBId : CloudProgress(lb))
              \/ UNCHANGED vars
    <2>1. UNCHANGED <<svc, cache, pc, cp>>
      BY <1>13 DEF PeriodicResync, Resync, CloudProgress, kubeVars, workerVars, vars
    <2>2. QED
      BY <1>1, <2>1 DEF PlaceInv, Copied, Deleting, Making, Creating
  <1>14. CASE Conflict \/ Fail \/ AddFinalizer \/ DropFinalizer \/ QuotaReached
              \/ Publish \/ LBMissing \/ Crash
    <2>1. Return
      BY <1>14 DEF Conflict, ConflictOf, Fail, AddFinalizer, DropFinalizer,
                   QuotaReached, Publish, LBMissing, Crash, Retry, Done
    <2>2. QED  BY <1>3, <2>1
  <1>15. ~Strip /\ ~ClearStatus
    BY <1>1 DEF PlaceInv, Strip, ClearStatus
  <1>16. QED
    BY <1>3, <1>4, <1>5, <1>6, <1>7, <1>8, <1>9, <1>10, <1>11, <1>12, <1>13,
       <1>14, <1>15
       DEF Next, Worker

\* The first layer is inductive while nobody changes the type.
LEMMA HeldHolds == NeverRetyped /\ Spec => []HeldInv
  <1>1. NeverRetyped /\ HeldInv /\ [Next]_vars => HeldInv'
    BY NextTypeInv, VersionStep, FinalizerStep, PlaceStep DEF HeldInv
  <1>2. NeverRetyped => []NeverRetyped
    <2>1. NeverRetyped => NeverRetyped'
      BY DEF NeverRetyped
    <2>2. QED  BY <2>1, PTL
  <1>3. QED
    BY InitHeldInv, <1>1, <1>2, PTL DEF Spec

\* Whatever the worker makes in the cloud, it makes while the server's object
\* carries the finalizer, although the copy it acts on may be old.
THEOREM MadeUnderFinalizer == NeverRetyped /\ Spec => CreatedUnderFinalizer
  <1>1. HeldInv /\ [Next]_vars
          => [CloudResourceMade => svc.exists /\ svc.finalizer]_vars
    <2> SUFFICES ASSUME HeldInv, [Next]_vars, CloudResourceMade
                 PROVE  svc.exists /\ svc.finalizer
      OBVIOUS
    <2>1. CASE MakeLB \/ MakeTG
      BY <2>1 DEF MakeLB, MakeTG, HeldInv, PlaceInv, ExistsInv, Making, Creating
    <2>2. CASE ~MakeLB /\ ~MakeTG
      <3>1. \A lb \in LBId : lbStatus[lb] = "UNMADE" => lbStatus'[lb] = "UNMADE"
        <4>1. lbStatus \in [LBId -> Status]
          BY DEF HeldInv, TypeInv, TypeOK, CloudTypeOK
        <4>2. CASE RemoveLB
          BY <4>1, <4>2 DEF RemoveLB, DeleteLB, Alive
        <4>3. CASE \E lb \in LBId : CloudProgress(lb)
          BY <4>1, <4>3 DEF CloudProgress, FinishBuild, FinishDelete
        <4>4. QED  BY <2>2, <4>2, <4>3, CloudFrame
      <3>2. UNCHANGED tgPort
        BY <2>2, PortFrame
      <3>3. QED  BY <3>1, <3>2 DEF CloudResourceMade
    <2>3. QED  BY <2>1, <2>2
  <1>2. QED
    BY HeldHolds, <1>1, PTL DEF Spec, CreatedUnderFinalizer

(***************************************************************************)
(* The second layer: the load balancer.                                    *)
(***************************************************************************)

\* The Service has not been applied anew.
FirstLife == spent["apply"] = 0

\* A deletion o shows is that of the Service there is: nothing an earlier
\* Service named runs any more.
Binding(o) == o.deleting /\ (FirstLife \/ (o.lb # None /\ Alive(o.lb)))

\* The deletion shows in all the worker may read from now on.
Leaving ==
    /\ svc.deleting /\ cache.deleting
    /\ \A i \in 1..Len(watch) : watch[i].deleting

\* A deletion that binds shows in every later version.
DeletionInv ==
    /\ Binding(cache) => Leaving
    /\ \A i \in 1..Len(watch) :
          Binding(watch[i]) =>
             svc.deleting /\ \A j \in (i + 1)..Len(watch) : watch[j].deleting

\* What the worker's place in Reconcile says about the load balancer.
WorkerInv ==
    /\ pc \in Deleting =>
          cp.lb \in recorded \cup {None} /\ (Binding(cp) => Leaving)
    /\ pc \in {"deleteTG", "dropFinalizer"} => (cp.lb # None => ~Alive(cp.lb))
    /\ pc \in Creating =>
          /\ svc.ingress # None => Alive(svc.ingress)
          /\ FirstLife =>
                \A lb \in LBId : lbStatus[lb] \notin {"TERMINATING", "GONE"}
    /\ pc \in {"listen", "recordLB"} =>
          lbStatus[lbId] # "UNMADE" /\ \A lb \in LBId : Alive(lb) => lb = lbId
    /\ pc = "refresh" => lbId \in recorded
    /\ pc = "publish" => svc.lb = lbId /\ Alive(lbId)

\* One load balancer has the name at a time, and the first Service's goes only
\* for its deletion.
CloudInv ==
    /\ \A a, b \in LBId : Listed(a) /\ Listed(b) => a = b
    /\ FirstLife /\ (\E lb \in LBId : lbStatus[lb] \in {"TERMINATING", "GONE"})
          => Leaving

\* What was recorded and runs is what the annotation says; no version names
\* anything that was not recorded; and what is published runs until deletion.
RecordInv ==
    /\ \A lb \in recorded : /\ lbStatus[lb] # "UNMADE"
                            /\ Alive(lb) => svc.lb = lb /\ svc.finalizer
    /\ svc.lb \in recorded \cup {None} /\ cache.lb \in recorded \cup {None}
    /\ \A i \in 1..Len(watch) : watch[i].lb \in recorded \cup {None}
    /\ svc.ingress # None =>
          svc.ingress = svc.lb /\ (~Alive(svc.ingress) => Leaving)

OwnershipInv == HeldInv /\ DeletionInv /\ WorkerInv /\ CloudInv /\ RecordInv

\* Nobody changes the Service's type or removes its annotations by hand.
LeftAlone == NeverRetyped /\ Limit["unannotate"] = 0

LEMMA NotUnannotated ==
  ASSUME LeftAlone, TypeInv
  PROVE  ~Spend("unannotate")
  BY DEF LeftAlone, TypeInv, TypeOK, Spend, Disturbances

\* Nothing was made or recorded before the Service.
LEMMA InitOwnershipInv == Init => OwnershipInv
  <1> SUFFICES ASSUME Init
               PROVE  OwnershipInv
    OBVIOUS
  <1>1. HeldInv
    BY InitHeldInv
  <1>2. /\ svc = NewService /\ cache = NewService /\ watch = <<>>
        /\ pc = "idle" /\ recorded = {} /\ 1..Len(watch) = {}
        /\ \A lb \in LBId : lbStatus[lb] = "UNMADE"
    BY DEF Init, KubeInit, CloudInit
  <1>3. DeletionInv /\ RecordInv
    BY <1>2 DEF DeletionInv, Binding, NewService, RecordInv
  <1>4. WorkerInv
    BY <1>2 DEF WorkerInv, Deleting, Creating
  <1>5. CloudInv
    BY <1>2 DEF CloudInv, Listed
  <1>6. QED  BY <1>1, <1>3, <1>4, <1>5 DEF OwnershipInv
-----------------------------------------------------------------------------
\* The Service is applied anew by the one step that says so.
LEMMA SpentFrame ==
  ASSUME TypeInv, [Next]_vars
  PROVE  \/ spent'["apply"] = spent["apply"]
         \/ User /\ Spend("apply") /\ Reapply
  <1>1. spent \in [Disturbances -> Nat]
    BY DEF TypeInv, TypeOK
  <1>2. \A d \in {"fault", "crash", "touch", "type", "unannotate"} :
           Spend(d) => spent'["apply"] = spent["apply"]
    BY <1>1 DEF Spend, Disturbances
  <1>3. CASE Worker
    <2>1. CASE StartNothing \/ StartCleanup \/ StartDeletion \/ StartFinalizer
               \/ StartCreation \/ StartRefresh
      BY <2>1 DEF StartNothing, StartCleanup, StartDeletion, StartFinalizer,
                  StartCreation, StartRefresh, Take
    <2>2. CASE Conflict \/ Fail \/ QuotaReached \/ Refresh
      BY <1>2, <2>2 DEF Conflict, ConflictOf, Fail, QuotaReached, Refresh
    <2>3. CASE MakeTG \/ FindTG \/ MakeLB \/ FindLB \/ Listen
      BY <1>2, <2>3 DEF MakeTG, FindTG, MakeLB, FindLB, Listen
    <2>4. CASE SkipLB \/ RemoveLB \/ LBMissing \/ RemoveTG \/ DeletionDone
      BY <1>2, <2>4 DEF SkipLB, RemoveLB, LBMissing, RemoveTG, DeletionDone
    <2>5. CASE AddFinalizer \/ DropFinalizer \/ RecordTG \/ RecordLB
               \/ Publish \/ Strip \/ ClearStatus
      BY <1>2, <2>5 DEF AddFinalizer, DropFinalizer, RecordTG, RecordLB, Publish,
                  Strip, ClearStatus
    <2>6. QED  BY <1>3, <2>1, <2>2, <2>3, <2>4, <2>5 DEF Worker
  <1>4. CASE User
    BY <1>2, <1>4 DEF User
  <1>5. CASE ~Worker /\ ~User
    BY <1>2, <1>5 DEF Next, Informer, PeriodicResync, Crash, CloudProgress, vars
  <1>6. QED  BY <1>3, <1>4, <1>5

\* The first Service of the name has always been the first.
LEMMA FirstStep ==
  ASSUME TypeInv, [Next]_vars, FirstLife'
  PROVE  FirstLife /\ ~Renewal
  <1>1. spent["apply"] \in Nat
    BY DEF TypeInv, TypeOK, Disturbances
  <1>2. Spend("apply") => spent'["apply"] = spent["apply"] + 1
    BY DEF TypeInv, TypeOK, Spend, Disturbances
  <1>3. ~Spend("apply")
    BY <1>1, <1>2 DEF FirstLife
  <1>4. QED  BY <1>3, SpentFrame DEF FirstLife, Renewal

\* A load balancer comes to run when it is made, and stops when its deletion
\* is asked for.
LEMMA AliveStep ==
  ASSUME TypeInv, [Next]_vars, NEW lb \in LBId
  PROVE  /\ lbStatus[lb] # "UNMADE" =>
               lbStatus'[lb] # "UNMADE" /\ (Alive(lb)' => Alive(lb))
         /\ Alive(lb)' /\ ~Alive(lb) => MakeLB
         /\ Alive(lb) /\ ~Alive(lb)' => RemoveLB /\ cp.lb = lb
         /\ Listed(lb)' /\ ~Listed(lb) => MakeLB
         /\ lbStatus'[lb] \in {"TERMINATING", "GONE"} =>
               \/ lbStatus[lb] \in {"TERMINATING", "GONE"}
               \/ Alive(lb) /\ RemoveLB /\ cp.lb = lb
  <1>1. lbStatus \in [LBId -> Status]
    BY DEF TypeInv, TypeOK, CloudTypeOK
  <1>2. CASE MakeLB
    <2>1. PICK new \in LBId : /\ lbStatus[new] = "UNMADE"
                              /\ lbStatus' = [lbStatus EXCEPT ![new] = "INIT"]
      BY <1>2 DEF MakeLB, CreateLB
    <2>2. QED  BY <1>1, <1>2, <2>1 DEF Alive, Listed
  <1>3. CASE RemoveLB
    <2>1. lbStatus' = IF Alive(cp.lb)
                      THEN [lbStatus EXCEPT ![cp.lb] = "TERMINATING"]
                      ELSE lbStatus
      BY <1>3 DEF RemoveLB, DeleteLB
    <2>2. QED  BY <1>1, <1>3, <2>1 DEF Alive, Listed
  <1>4. CASE \E b \in LBId : CloudProgress(b)
    <2>1. PICK b \in LBId :
             \/ /\ lbStatus[b] = "INIT"
                /\ lbStatus' = [lbStatus EXCEPT ![b] = "RUN"]
             \/ /\ lbStatus[b] = "TERMINATING"
                /\ lbStatus' = [lbStatus EXCEPT ![b] = "GONE"]
      BY <1>4 DEF CloudProgress, FinishBuild, FinishDelete
    <2>2. QED  BY <1>1, <2>1 DEF Alive, Listed
  <1>5. CASE UNCHANGED lbStatus
    BY <1>5 DEF Alive, Listed
  <1>6. QED  BY <1>2, <1>3, <1>4, <1>5, CloudFrame

\* A deletion that binds has bound ever since it was read, and none does once
\* the Service is applied anew.
LEMMA BindingStep ==
  ASSUME OwnershipInv, [Next]_vars, NEW o \in Object,
         o.lb \in recorded \cup {None},
         o.deleting /\ (FirstLife' \/ (o.lb # None /\ Alive(o.lb)'))
  PROVE  Binding(o) /\ ~Renewal
  <1>1. TypeInv /\ recorded \subseteq LBId
    BY DEF OwnershipInv, HeldInv, TypeInv, TypeOK
  <1>2. o.lb # None /\ Alive(o.lb)' => Alive(o.lb)
    <2> SUFFICES ASSUME o.lb # None, Alive(o.lb)'
                 PROVE  Alive(o.lb)
      OBVIOUS
    <2>1. o.lb \in recorded /\ o.lb \in LBId /\ lbStatus[o.lb] # "UNMADE"
      BY <1>1 DEF OwnershipInv, RecordInv
    <2>2. QED  BY <1>1, <2>1, AliveStep
  <1>3. FirstLife' => FirstLife /\ ~Renewal
    BY <1>1, FirstStep
  <1>4. o.lb # None /\ Alive(o.lb) => ~Renewal
    BY DEF OwnershipInv, HeldInv, RecordInv, ExistsInv, Renewal
  <1>5. QED  BY <1>2, <1>3, <1>4 DEF Binding

\* What becomes of the server's object while it is the same Service.
LEMMA ServiceStep ==
  ASSUME LeftAlone, OwnershipInv, [Next]_vars, ~Renewal
  PROVE  /\ svc.deleting => svc'.deleting
         /\ \/ svc'.lb = svc.lb
            \/ RecordLB /\ svc'.lb = lbId /\ svc.lb # lbId
                  /\ recorded' = recorded \cup {lbId}
         /\ svc'.ingress = svc.ingress \/ (Publish /\ svc'.ingress = lbId)
         /\ svc.finalizer => svc'.finalizer \/ (DropFinalizer /\ cp = svc)
  <1>1. NeverRetyped /\ HeldInv /\ ~Spend("unannotate")
    BY NotUnannotated DEF LeftAlone, OwnershipInv, HeldInv
  <1>2. CASE Writes
    BY <1>1, <1>2 DEF Writes, Wrote
  <1>3. CASE Informer \/ Crash
    BY <1>3 DEF Informer, Deliver, Crash, Relist
  <1>4. QED  BY <1>1, <1>2, <1>3, Written

\* Where the cache and what is on its way to it come from.
LEMMA VersionsFrom ==
  ASSUME NeverRetyped, HeldInv, [Next]_vars
  PROVE  \/ UNCHANGED <<svc, watch, cache>>
         \/ /\ cache' = cache /\ Len(watch') = Len(watch) + 1
            /\ watch'[Len(watch) + 1] = svc'
            /\ \A i \in 1..Len(watch) : watch'[i] = watch[i]
            /\ svc.exists \/ Renewal
         \/ /\ svc' = svc
            /\ 1 \in 1..Len(watch) /\ cache' = watch[1]
            /\ Len(watch') = Len(watch) - 1 /\ watch[Len(watch)] = svc
            /\ \A i \in 1..Len(watch') : watch'[i] = watch[i + 1]
         \/ svc' = svc /\ cache' = svc /\ Len(watch') = 0
  <1>1. watch \in Seq(Object)
    BY DEF HeldInv, TypeInv, TypeOK, KubeTypeOK
  <1>2. CASE \E d, f, l, i : Wrote(d, f, l, i) /\ (svc.exists \/ Renewal)
    BY <1>1, <1>2 DEF Wrote
  <1>3. CASE Deliver
    <2>1. /\ watch # <<>> /\ cache' = Head(watch) /\ watch' = Tail(watch)
          /\ svc' = svc
      BY <1>3 DEF Deliver
    <2>2. watch[Len(watch)] = svc
      BY <2>1 DEF HeldInv, VersionInv, CaughtUp
    <2>3. QED  BY <1>1, <2>1, <2>2
  <1>4. CASE Crash
    BY <1>4 DEF Crash, Relist
  <1>5. CASE svc.exists /\ Writes
    <2>1. \E d, f, l, i : Wrote(d, f, l, i)
      BY <1>5 DEF Writes
    <2>2. QED  BY <1>2, <1>5, <2>1
  <1>6. CASE Renewal
    <2>1. \E d, f, l, i : Wrote(d, f, l, i)
      BY <1>6 DEF Renewal
    <2>2. QED  BY <1>2, <1>6, <2>1
  <1>7. QED  BY <1>3, <1>4, <1>5, <1>6, Written

\* A deletion that shows everywhere goes on doing so.
LEMMA LeavingStep ==
  ASSUME LeftAlone, OwnershipInv, [Next]_vars, ~Renewal, Leaving
  PROVE  Leaving'
  <1>1. /\ NeverRetyped /\ HeldInv /\ svc'.deleting
        /\ Len(watch) \in Nat
    BY ServiceStep
       DEF LeftAlone, OwnershipInv, Leaving, HeldInv, TypeInv, TypeOK, KubeTypeOK
  <1>2. cache'.deleting /\ \A i \in 1..Len(watch') : watch'[i].deleting
    <2>1. CASE UNCHANGED <<svc, watch, cache>>
      BY <2>1 DEF Leaving
    <2>2. CASE /\ cache' = cache /\ Len(watch') = Len(watch) + 1
               /\ watch'[Len(watch) + 1] = svc'
               /\ \A i \in 1..Len(watch) : watch'[i] = watch[i]
      BY <1>1, <2>2 DEF Leaving
    <2>3. CASE /\ 1 \in 1..Len(watch) /\ cache' = watch[1]
               /\ Len(watch') = Len(watch) - 1
               /\ \A i \in 1..Len(watch') : watch'[i] = watch[i + 1]
      <3>1. \A i \in 1..Len(watch') : i + 1 \in 1..Len(watch)
        BY <1>1, <2>3
      <3>2. QED  BY <2>3, <3>1 DEF Leaving
    <2>4. CASE svc' = svc /\ cache' = svc /\ Len(watch') = 0
      BY <2>4 DEF Leaving
    <2>5. QED  BY <1>1, <2>1, <2>2, <2>3, <2>4, VersionsFrom
  <1>3. QED  BY <1>1, <1>2 DEF Leaving

\* The worker asks for a deletion only when it shows everywhere.
LEMMA Removed ==
  ASSUME OwnershipInv, RemoveLB, Alive(cp.lb)
  PROVE  Leaving /\ cp.lb \in recorded
  BY DEF OwnershipInv, HeldInv, PlaceInv, WorkerInv, RemoveLB, Deleting, Binding

\* A deletion that binds was read while it bound, and shows ever since.
LEMMA DeletionStep ==
  ASSUME LeftAlone, OwnershipInv, [Next]_vars
  PROVE  DeletionInv'
  <1> DEFINE Bound(o) ==
               /\ o.deleting
               /\ \/ FirstLife'
                  \/ o.lb # None /\ lbStatus'[o.lb] \in {"INIT", "RUN"}
  <1>1. /\ NeverRetyped /\ HeldInv /\ DeletionInv /\ RecordInv
        /\ cache \in Object /\ svc \in Object /\ Len(watch) \in Nat
        /\ \A i \in 1..Len(watch) : watch[i] \in Object
    BY DEF LeftAlone, OwnershipInv, HeldInv, TypeInv, TypeOK, KubeTypeOK
  <1>2. \A o \in Object : o.lb \in recorded \cup {None} /\ Bound(o)
                            => Binding(o) /\ ~Renewal
    BY BindingStep DEF Alive
  <1>3. /\ cache.lb \in recorded \cup {None} /\ svc.lb \in recorded \cup {None}
        /\ \A i \in 1..Len(watch) : watch[i].lb \in recorded \cup {None}
    BY <1>1 DEF RecordInv
  <1>4. ~Renewal /\ svc.deleting => svc'.deleting
    BY ServiceStep
  <1>5. ~Renewal /\ Binding(cache) => Leaving'
    BY <1>1, LeavingStep DEF DeletionInv
  <1> HIDE DEF Bound
  <1> SUFFICES /\ Bound(cache') => Leaving'
               /\ \A i \in 1..Len(watch') :
                     Bound(watch'[i]) =>
                       /\ svc'.deleting
                       /\ \A j \in (i + 1)..Len(watch') : watch'[j].deleting
    BY DEF DeletionInv, Binding, Bound, FirstLife, Alive
  <1>6. CASE UNCHANGED <<svc, watch, cache>>
    BY <1>1, <1>2, <1>3, <1>5, <1>6 DEF DeletionInv
  <1>7. CASE /\ cache' = cache /\ Len(watch') = Len(watch) + 1
             /\ watch'[Len(watch) + 1] = svc'
             /\ \A i \in 1..Len(watch) : watch'[i] = watch[i]
    <2>1. Bound(cache') => Leaving'
      BY <1>1, <1>2, <1>3, <1>5, <1>7
    <2>2. ASSUME NEW i \in 1..Len(watch'), Bound(watch'[i])
          PROVE  /\ svc'.deleting
                 /\ \A j \in (i + 1)..Len(watch') : watch'[j].deleting
      <3>1. CASE i \in 1..Len(watch)
        <4>1. Binding(watch[i]) /\ ~Renewal
          BY <1>1, <1>2, <1>3, <1>7, <2>2, <3>1
        <4>2. /\ svc'.deleting
              /\ \A j \in (i + 1)..Len(watch) : watch[j].deleting
          BY <1>1, <1>4, <3>1, <4>1 DEF DeletionInv
        <4>3. QED  BY <1>1, <1>7, <4>2
      <3>2. CASE i = Len(watch) + 1
        <4>1. svc'.deleting
          BY <1>7, <2>2, <3>2 DEF Bound
        <4>2. QED  BY <1>1, <1>7, <3>2, <4>1
      <3>3. QED  BY <1>1, <1>7, <3>1, <3>2
    <2>3. QED  BY <2>1, <2>2
  <1>8. CASE /\ svc' = svc
             /\ 1 \in 1..Len(watch) /\ cache' = watch[1]
             /\ Len(watch') = Len(watch) - 1
             /\ \A i \in 1..Len(watch') : watch'[i] = watch[i + 1]
    <2>1. \A i \in 0..Len(watch') : i + 1 \in 1..Len(watch)
      BY <1>1, <1>8
    <2>2. ASSUME NEW i \in 0..Len(watch'), Bound(watch[i + 1])
          PROVE  /\ svc'.deleting /\ watch[i + 1].deleting
                 /\ \A j \in (i + 1)..Len(watch') : watch'[j].deleting
      <3>1. /\ svc.deleting
            /\ \A j \in (i + 2)..Len(watch) : watch[j].deleting
        BY <1>1, <1>2, <1>3, <2>1, <2>2 DEF DeletionInv
      <3>2. \A j \in (i + 1)..Len(watch') : /\ j \in 1..Len(watch')
                                             /\ j + 1 \in (i + 2)..Len(watch)
        BY <1>1, <1>8
      <3>3. QED  BY <1>8, <2>2, <3>1, <3>2 DEF Bound
    <2>3. 0 \in 0..Len(watch') /\ 0 + 1 = 1
      BY <1>1, <1>8
    <2>4. Bound(cache') => Leaving'
      BY <1>8, <2>2, <2>3 DEF Leaving
    <2>5. \A i \in 1..Len(watch') : i \in 0..Len(watch')
      BY <1>1, <1>8
    <2>6. QED  BY <1>8, <2>2, <2>4, <2>5
  <1>9. CASE svc' = svc /\ cache' = svc /\ Len(watch') = 0
    <2>1. 1..Len(watch') = {}
      BY <1>9
    <2>2. QED  BY <1>9, <2>1 DEF Bound, Leaving
  <1>10. QED  BY <1>1, <1>6, <1>7, <1>8, <1>9, VersionsFrom

LEMMA CloudStep ==
  ASSUME LeftAlone, OwnershipInv, [Next]_vars
  PROVE  CloudInv'
  <1>1. TypeInv /\ CloudInv /\ lbStatus \in [LBId -> Status]
    BY DEF OwnershipInv, HeldInv, TypeInv, TypeOK, CloudTypeOK
  <1>2. ASSUME NEW a \in LBId, NEW b \in LBId, Listed(a)', Listed(b)'
        PROVE  a = b
    <2>1. CASE MakeLB
      <3>1. PICK new \in LBId : /\ \A other \in LBId : ~Listed(other)
                                /\ lbStatus' = [lbStatus EXCEPT ![new] = "INIT"]
        BY <2>1 DEF MakeLB, CreateLB
      <3>2. QED  BY <1>1, <1>2, <3>1 DEF Listed
    <2>2. CASE ~MakeLB
      BY <1>1, <1>2, <2>2, AliveStep DEF CloudInv
    <2>3. QED  BY <2>1, <2>2
  <1>3. ASSUME FirstLife', NEW lb \in LBId,
               lbStatus'[lb] \in {"TERMINATING", "GONE"}
        PROVE  Leaving'
    <2>1. FirstLife /\ ~Renewal
      BY <1>1, <1>3, FirstStep
    <2>2. Leaving
      BY <1>1, <1>3, <2>1, AliveStep, Removed DEF CloudInv
    <2>3. QED  BY <2>1, <2>2, LeavingStep
  <1>4. QED  BY <1>2, <1>3 DEF CloudInv

\* What was recorded grows by what RecordLB writes to the annotation.
LEMMA RecordedStep ==
  ASSUME LeftAlone, OwnershipInv, [Next]_vars
  PROVE  /\ recorded \subseteq recorded'
         /\ \A lb \in recorded' :
               \/ lb \in recorded
               \/ /\ RecordLB /\ lb = lbId /\ svc'.lb = lb
                  /\ svc'.finalizer = svc.finalizer
  <1>1. /\ TypeInv /\ HeldInv /\ cache \in Object /\ lbId \in LBId \cup {None}
    BY DEF OwnershipInv, HeldInv, TypeInv, TypeOK, KubeTypeOK, WorkerTypeOK
  <1>2. CASE RecordLB /\ recorded' # recorded
    <2> DEFINE o == [cache EXCEPT !.lb = lbId]
    <2>1. Current(cache) /\ Store(o) /\ recorded' = recorded \cup {lbId}
      BY <1>2 DEF RecordLB
    <2>2. cache = svc
      BY <1>1, <2>1, CurrentCache DEF Current
    <2>3. o \in Object /\ o.lb = lbId /\ o.finalizer = svc.finalizer
      BY <1>1, <2>2 DEF Object
    <2>4. svc'.lb = lbId /\ svc'.finalizer = svc.finalizer
      BY <1>1, <2>1, <2>3, StoreFields
    <2>5. QED  BY <1>2, <2>1, <2>4
  <1>3. QED  BY <1>2, CloudFrame

LEMMA RecordStep ==
  ASSUME LeftAlone, OwnershipInv, [Next]_vars
  PROVE  RecordInv'
  <1>1. /\ NeverRetyped /\ TypeInv /\ HeldInv /\ ExistsInv /\ PlaceInv
        /\ WorkerInv /\ RecordInv
        /\ recorded \subseteq LBId /\ Len(watch) \in Nat /\ None \notin LBId
    BY DEF LeftAlone, OwnershipInv, HeldInv, TypeInv, TypeOK, KubeTypeOK, None,
           LBId
  <1>2. RecordLB => pc = "recordLB" /\ pc \in Creating /\ lbId \in LBId
    BY <1>1 DEF RecordLB, Creating, TypeInv, LoopInv
  <1>3. \A lb \in recorded' : lb \in LBId /\ lbStatus[lb] # "UNMADE"
    BY <1>1, <1>2, RecordedStep DEF RecordInv, WorkerInv
  <1>4. ASSUME NEW lb \in recorded'
        PROVE  /\ lbStatus'[lb] # "UNMADE"
               /\ Alive(lb)' => svc'.lb = lb /\ svc'.finalizer
    <2>1. lbStatus'[lb] # "UNMADE" /\ (Alive(lb)' => Alive(lb))
      BY <1>1, <1>3, AliveStep
    <2>2. CASE lb \in recorded /\ Alive(lb)
      <3>1. svc.lb = lb /\ svc.finalizer /\ lb # None
        BY <1>1, <2>2 DEF RecordInv
      <3>2. ~Renewal
        BY <1>1, <3>1 DEF Renewal, ExistsInv
      <3>3. svc'.lb = svc.lb
        BY <1>1, <1>2, <2>2, <3>1, <3>2, ServiceStep DEF WorkerInv
      <3>4. ~(DropFinalizer /\ cp = svc)
        BY <1>1, <2>2, <3>1 DEF DropFinalizer, WorkerInv
      <3>5. QED  BY <2>1, <3>1, <3>2, <3>3, <3>4, ServiceStep
    <2>3. CASE lb \notin recorded
      <3>1. svc.finalizer
        BY <1>1, <1>2, <2>3, RecordedStep DEF PlaceInv, Making
      <3>2. QED  BY <2>1, <2>3, <3>1, RecordedStep
    <2>4. QED  BY <2>1, <2>2, <2>3
  <1>5. svc'.lb \in recorded' \cup {None}
    <2>1. CASE Renewal
      BY <2>1 DEF Renewal, Wrote
    <2>2. CASE ~Renewal
      BY <1>1, <2>2, ServiceStep, RecordedStep DEF RecordInv
    <2>3. QED  BY <2>1, <2>2
  <1>6. /\ cache'.lb \in recorded' \cup {None}
        /\ \A i \in 1..Len(watch') : watch'[i].lb \in recorded' \cup {None}
    <2>1. /\ cache.lb \in recorded' \cup {None}
          /\ \A i \in 1..Len(watch) : watch[i].lb \in recorded' \cup {None}
      BY <1>1, RecordedStep DEF RecordInv
    <2>2. CASE UNCHANGED <<svc, watch, cache>>
      BY <2>1, <2>2
    <2>3. CASE /\ cache' = cache /\ Len(watch') = Len(watch) + 1
               /\ watch'[Len(watch) + 1] = svc'
               /\ \A i \in 1..Len(watch) : watch'[i] = watch[i]
      BY <1>1, <1>5, <2>1, <2>3
    <2>4. CASE /\ 1 \in 1..Len(watch) /\ cache' = watch[1]
               /\ Len(watch') = Len(watch) - 1
               /\ \A i \in 1..Len(watch') : watch'[i] = watch[i + 1]
      <3>1. \A i \in 1..Len(watch') : i + 1 \in 1..Len(watch)
        BY <1>1, <2>4
      <3>2. QED  BY <2>1, <2>4, <3>1
    <2>5. CASE svc' = svc /\ cache' = svc /\ Len(watch') = 0
      BY <1>5, <2>5
    <2>6. QED  BY <1>1, <2>2, <2>3, <2>4, <2>5, VersionsFrom
  <1>7. ASSUME svc'.ingress # None
        PROVE  svc'.ingress = svc'.lb /\ (~Alive(svc.ingress)' => Leaving')
    <2>1. ~Renewal
      BY <1>7 DEF Renewal, Wrote
    <2>2. CASE svc'.ingress = svc.ingress
      <3>1. /\ svc.ingress = svc.lb /\ svc.lb \in LBId
            /\ ~Alive(svc.ingress) => Leaving
        BY <1>1, <1>7, <2>2 DEF RecordInv
      <3>2. svc'.lb = svc.lb
        BY <1>1, <1>2, <1>7, <2>1, <2>2, <3>1, ServiceStep DEF WorkerInv
      <3>3. lbStatus'[svc.lb] \notin {"INIT", "RUN"} => Leaving
        BY <1>1, <3>1, AliveStep, Removed DEF Alive
      <3>4. QED  BY <2>1, <2>2, <3>1, <3>2, <3>3, LeavingStep DEF Alive
    <2>3. CASE Publish /\ svc'.ingress = lbId
      <3>1. svc.lb = lbId /\ Alive(lbId)
        BY <1>1, <2>3 DEF Publish, WorkerInv
      <3>2. svc'.lb = svc.lb
        BY <1>2, <2>1, <2>3, ServiceStep DEF Publish
      <3>3. lbStatus'[lbId] \in {"INIT", "RUN"}
        BY <1>1, <2>3, <3>1 DEF Publish, cloudVars, Alive
      <3>4. QED  BY <2>3, <3>1, <3>2, <3>3 DEF Alive
    <2>4. QED  BY <2>1, <2>2, <2>3, ServiceStep
  <1>8. QED  BY <1>4, <1>5, <1>6, <1>7 DEF RecordInv, Alive
-----------------------------------------------------------------------------
\* How the worker gets from one place to another, and with what in hand.
LEMMA Moves ==
  ASSUME NeverRetyped, HeldInv, [Next]_vars
  PROVE  \/ pc' \in {"idle", "addFinalizer"}
         \/ StartDeletion /\ pc' = "deleteLB" /\ cp' = cache
         \/ StartCreation /\ pc' = "createTG"
         \/ StartRefresh /\ pc' = "refresh" /\ lbId' = cache.lb
         \/ pc \in Creating /\ pc' \in {"createTG", "recordTG", "createLB"}
         \/ (MakeLB \/ FindLB) /\ pc \in Creating /\ pc' = "listen"
         \/ /\ Listen /\ pc = "listen" /\ pc' \in {"listen", "recordLB"}
            /\ lbId' = lbId
         \/ (RecordLB \/ Refresh) /\ pc' = "publish" /\ lbId' = lbId
         \/ (SkipLB \/ RemoveLB) /\ pc' = "deleteTG" /\ cp' = cp
         \/ /\ pc = "deleteTG" /\ pc' \in {"deleteTG", "dropFinalizer"}
            /\ cp' = cp
         \/ UNCHANGED <<pc, cp, lbId>>
  <1>1. PlaceInv /\ VersionInv
    BY DEF HeldInv
  <1>2. CASE Worker
    <2>1. CASE StartNothing \/ StartDeletion \/ StartFinalizer
               \/ StartCreation \/ StartRefresh
      BY <2>1 DEF StartNothing, StartDeletion, StartFinalizer,
                  StartCreation, StartRefresh, Take, workerVars
    <2>2. ~StartCleanup
      BY <1>1 DEF StartCleanup, IsLB, VersionInv
    <2>3. CASE Conflict \/ Fail \/ QuotaReached \/ LBMissing
      BY <2>3 DEF Conflict, ConflictOf, Fail, QuotaReached, LBMissing, Retry,
                  Return
    <2>4. CASE AddFinalizer \/ DropFinalizer \/ Publish
      BY <2>4 DEF AddFinalizer, DropFinalizer, Publish, Done, Return
    <2>5. CASE MakeTG \/ FindTG \/ RecordTG
      BY <2>5 DEF MakeTG, FindTG, RecordTG, NextPort, Goto, Retry, Return,
                  Creating
    <2>6. CASE MakeLB \/ FindLB \/ Listen
      BY <2>6 DEF MakeLB, FindLB, Listen, NextPort, Goto, Retry, Return,
                  Creating
    <2>7. CASE RecordLB \/ Refresh
      BY <2>7 DEF RecordLB, Refresh, Goto, Retry, Return
    <2>8. CASE SkipLB \/ RemoveLB
      BY <2>8 DEF SkipLB, RemoveLB, Goto, Retry, Return
    <2>9. CASE RemoveTG
      BY <2>9 DEF RemoveTG, Goto
    <2>10. CASE DeletionDone
      <3>1. IsLB(cp)
        BY <1>1, <2>10 DEF DeletionDone, PlaceInv, IsLB
      <3>2. QED  BY <2>10, <3>1 DEF DeletionDone, Goto
    <2>11. ~Strip /\ ~ClearStatus
      BY <1>1 DEF PlaceInv, Strip, ClearStatus
    <2>12. QED
      BY <1>2, <2>1, <2>2, <2>3, <2>4, <2>5, <2>6, <2>7, <2>8, <2>9, <2>10,
         <2>11 DEF Worker
  <1>3. CASE Crash
    BY <1>3 DEF Crash, Return
  <1>4. CASE ~Worker /\ ~Crash
    BY <1>4 DEF Next, User, Informer, PeriodicResync, CloudProgress,
                workerVars, vars
  <1>5. QED  BY <1>2, <1>3, <1>4

LEMMA WorkerStep ==
  ASSUME LeftAlone, OwnershipInv, [Next]_vars
  PROVE  WorkerInv'
  <1>1. /\ NeverRetyped /\ TypeInv /\ HeldInv /\ ExistsInv /\ PlaceInv
        /\ WorkerInv /\ RecordInv /\ CloudInv /\ LoopInv
        /\ recorded \subseteq LBId /\ lbStatus \in [LBId -> Status]
        /\ cp \in Object /\ None \notin LBId
    BY DEF LeftAlone, OwnershipInv, HeldInv, TypeInv, TypeOK, CloudTypeOK,
           WorkerTypeOK, None, LBId
  <1>2. /\ RecordLB => pc = "recordLB"
        /\ Publish => pc = "publish"
        /\ RemoveLB => pc = "deleteLB"
    BY DEF RecordLB, Publish, RemoveLB
  <1>3. pc \in Making => ~Renewal
    BY <1>1 DEF PlaceInv, ExistsInv, Renewal
  <1>4. ASSUME pc' \in Deleting
        PROVE  /\ cp'.lb \in recorded' \cup {None}
               /\ Binding(cp)' => Leaving'
    <2>1. CASE StartDeletion /\ cp' = cache
      <3>1. cache' = cache
        BY <2>1 DEF StartDeletion, Take
      <3>2. Binding(cp)' => Leaving'
        BY <2>1, <3>1, DeletionStep DEF DeletionInv, Binding, Alive
      <3>3. QED  BY <1>1, <2>1, <3>2, RecordedStep DEF RecordInv
    <2>2. CASE pc \in Deleting /\ cp' = cp
      <3>1. cp.lb \in recorded \cup {None}
        BY <1>1, <2>2 DEF WorkerInv
      <3>2. Binding(cp)' => Binding(cp) /\ ~Renewal
        BY <1>1, <2>2, <3>1, BindingStep DEF Binding, Alive
      <3>3. Binding(cp)' => Leaving'
        BY <1>1, <2>2, <3>2, LeavingStep DEF WorkerInv
      <3>4. QED  BY <2>2, <3>1, <3>3, RecordedStep
    <2>3. SkipLB \/ RemoveLB => pc \in Deleting
      BY DEF SkipLB, RemoveLB, Deleting
    <2>4. QED  BY <1>1, <1>4, <2>1, <2>2, <2>3, Moves DEF Deleting
  <1>5. ASSUME pc' \in {"deleteTG", "dropFinalizer"}, cp'.lb # None
        PROVE  ~Alive(cp.lb)'
    <2>1. CASE SkipLB /\ cp' = cp
      BY <1>5, <2>1 DEF SkipLB
    <2>2. CASE RemoveLB /\ cp' = cp
      <3>1. cp.lb \in LBId
        BY <1>1, <1>5, <2>2 DEF Object
      <3>2. lbStatus'[cp.lb] \notin {"INIT", "RUN"}
        BY <1>1, <2>2, <3>1 DEF RemoveLB, DeleteLB, Alive
      <3>3. QED  BY <2>2, <3>2 DEF Alive
    <2>3. CASE pc \in {"deleteTG", "dropFinalizer"} /\ cp' = cp
      <3>1. cp.lb \in recorded /\ ~Alive(cp.lb)
        BY <1>1, <1>5, <2>3 DEF WorkerInv, Deleting
      <3>2. cp.lb \in LBId /\ lbStatus[cp.lb] # "UNMADE"
        BY <1>1, <3>1 DEF RecordInv
      <3>3. lbStatus'[cp.lb] \notin {"INIT", "RUN"}
        BY <1>1, <3>1, <3>2, AliveStep DEF Alive
      <3>4. QED  BY <2>3, <3>3 DEF Alive
    <2>4. QED  BY <1>1, <1>5, <2>1, <2>2, <2>3, Moves
  <1>6. ASSUME pc' \in Creating
        PROVE  /\ svc'.ingress # None => Alive(svc.ingress)'
               /\ FirstLife' =>
                     \A lb \in LBId : lbStatus'[lb] \notin {"TERMINATING", "GONE"}
    <2>1. CASE StartCreation
      <3>1. UNCHANGED <<svc, lbStatus>> /\ ~Leaving
        BY <2>1 DEF StartCreation, Take, cloudVars, Leaving
      <3>2. FirstLife' => FirstLife
        BY <1>1, FirstStep
      <3>3. svc.ingress # None => Alive(svc.ingress)
        BY <1>1, <3>1 DEF RecordInv
      <3>4. QED  BY <1>1, <3>1, <3>2, <3>3 DEF CloudInv, Alive
    <2>2. CASE pc \in Creating
      <3>1. ~Renewal /\ ~Publish /\ ~RemoveLB
        BY <1>2, <1>3, <2>2 DEF Making, Creating
      <3>2. svc'.ingress = svc.ingress
        BY <3>1, ServiceStep
      <3>3. ASSUME svc.ingress # None
            PROVE  lbStatus'[svc.ingress] \in {"INIT", "RUN"}
        <4>1. svc.ingress \in LBId /\ Alive(svc.ingress)
          BY <1>1, <2>2, <3>3 DEF WorkerInv, RecordInv
        <4>2. QED  BY <1>1, <3>1, <4>1, AliveStep DEF Alive
      <3>4. FirstLife' => FirstLife
        BY <1>1, FirstStep
      <3>5. QED
        BY <1>1, <2>2, <3>1, <3>2, <3>3, <3>4, AliveStep DEF WorkerInv, Alive
    <2>3. QED  BY <1>1, <1>6, <2>1, <2>2, Moves DEF Creating
  <1>7. ASSUME pc' \in {"listen", "recordLB"}
        PROVE  /\ lbStatus'[lbId'] # "UNMADE"
               /\ \A lb \in LBId : Alive(lb)' => lb = lbId'
    <2>1. CASE MakeLB
      <3>1. PICK lb \in LBId : /\ \A other \in LBId : ~Listed(other)
                               /\ lbStatus' = [lbStatus EXCEPT ![lb] = "INIT"]
                               /\ lbId' = lb
        BY <1>7, <2>1 DEF MakeLB, CreateLB, Retry, Return
      <3>2. QED  BY <1>1, <3>1 DEF Alive, Listed
    <2>2. CASE FindLB
      <3>1. lbId' \in LBId /\ Listed(lbId') /\ lbStatus' = lbStatus
        BY <2>2 DEF FindLB, cloudVars
      <3>2. QED  BY <1>1, <3>1 DEF CloudInv, Alive, Listed
    <2>3. CASE pc \in {"listen", "recordLB"} /\ lbId' = lbId /\ ~MakeLB
      <3>1. /\ lbId \in LBId /\ lbStatus[lbId] # "UNMADE"
            /\ \A lb \in LBId : Alive(lb) => lb = lbId
        BY <1>1, <2>3 DEF LoopInv, WorkerInv
      <3>2. /\ lbStatus'[lbId] # "UNMADE"
            /\ \A lb \in LBId : Alive(lb)' => Alive(lb)
        BY <1>1, <2>3, <3>1, AliveStep
      <3>3. QED  BY <2>3, <3>1, <3>2
    <2>4. QED  BY <1>1, <1>7, <2>1, <2>2, <2>3, Moves
  <1>8. ASSUME pc' = "refresh"
        PROVE  lbId' \in recorded'
    <2>1. CASE StartRefresh /\ lbId' = cache.lb
      BY <1>1, <2>1, RecordedStep DEF StartRefresh, RecordInv
    <2>2. CASE pc = "refresh" /\ lbId' = lbId
      BY <1>1, <2>2, RecordedStep DEF WorkerInv
    <2>3. QED  BY <1>1, <1>8, <2>1, <2>2, Moves
  <1>9. ASSUME pc' = "publish"
        PROVE  svc'.lb = lbId' /\ lbStatus'[lbId'] \in {"INIT", "RUN"}
    <2>1. CASE (RecordLB \/ Refresh) /\ lbId' = lbId
      <3>1. lbStatus'[lbId] = "RUN"
        BY <1>9, <2>1 DEF RecordLB, Refresh, Retry, Return, cloudVars
      <3>2. lbId \in recorded'
        <4>1. CASE Refresh
          BY <1>1, <4>1, RecordedStep DEF Refresh, WorkerInv
        <4>2. CASE RecordLB
          <5>1. lbId \in LBId
            BY <1>1, <4>2 DEF RecordLB, LoopInv
          <5>2. QED  BY <1>1, <4>2, <5>1, RecordedStep DEF RecordLB, RecordInv
        <4>3. QED  BY <2>1, <4>1, <4>2
      <3>3. svc'.lb = lbId
        BY <3>1, <3>2, RecordStep DEF RecordInv, Alive
      <3>4. QED  BY <2>1, <3>1, <3>3
    <2>2. CASE pc = "publish" /\ lbId' = lbId
      <3>1. svc.lb = lbId /\ Alive(lbId) /\ lbId \in LBId
        BY <1>1, <2>2 DEF WorkerInv, LoopInv
      <3>2. svc'.lb = svc.lb
        BY <1>2, <1>3, <2>2, ServiceStep DEF Making
      <3>3. lbStatus'[lbId] \in {"INIT", "RUN"}
        BY <1>1, <1>2, <2>2, <3>1, AliveStep DEF Alive
      <3>4. QED  BY <2>2, <3>1, <3>2, <3>3
    <2>3. QED  BY <1>1, <1>9, <2>1, <2>2, Moves
  <1>10. QED
    BY <1>4, <1>5, <1>6, <1>7, <1>8, <1>9 DEF WorkerInv, Alive
-----------------------------------------------------------------------------
LEMMA NextOwnershipInv ==
  ASSUME LeftAlone, OwnershipInv, [Next]_vars
  PROVE  OwnershipInv'
  <1>1. HeldInv'
    BY NextTypeInv, VersionStep, FinalizerStep, PlaceStep
       DEF LeftAlone, OwnershipInv, HeldInv
  <1>2. QED
    BY <1>1, DeletionStep, WorkerStep, CloudStep, RecordStep DEF OwnershipInv

\* The inductive invariant holds while the Service is left alone.
LEMMA OwnershipHolds == LeftAlone /\ Spec => []OwnershipInv
  <1>1. LeftAlone /\ OwnershipInv /\ [Next]_vars => OwnershipInv'
    BY NextOwnershipInv
  <1>2. LeftAlone => []LeftAlone
    <2>1. LeftAlone => LeftAlone'
      BY DEF LeftAlone, NeverRetyped
    <2>2. QED  BY <2>1, PTL
  <1>3. QED
    BY InitOwnershipInv, <1>1, <1>2, PTL DEF Spec

\* However often the API server, the cloud or the process fails, and however
\* often the Service is deleted and applied anew, a load balancer that was ever
\* recorded runs only while a Service names it and is held by the finalizer.
THEOREM RecordedOwned == LeftAlone /\ Spec => []RecordedLBOwned
  <1>1. OwnershipInv => RecordedLBOwned
    BY DEF OwnershipInv, HeldInv, ExistsInv, RecordInv, RecordedLBOwned
  <1>2. QED
    BY OwnershipHolds, <1>1, PTL

\* The published address is always that of the recorded load balancer.
THEOREM PublishedOwned == LeftAlone /\ Spec => []IngressOwned
  <1>1. OwnershipInv => IngressOwned
    BY DEF OwnershipInv, RecordInv, IngressOwned
  <1>2. QED
    BY OwnershipHolds, <1>1, PTL

\* Whoever writes the target-groups annotation writes what it says already,
\* with the one id added by RecordTG.
LEMMA GroupsNamed ==
  ASSUME LeftAlone, HeldInv, [Next]_vars
  PROVE  /\ Renewal => svc'.tgs = <<>>
         /\ ~Renewal => \/ svc'.tgs = svc.tgs
                        \/ /\ RecordTG /\ tgIds[idx] \in TGId
                           /\ svc'.tgs = Append(svc.tgs, tgIds[idx])
  <1>1. Renewal => svc'.tgs = <<>>
    BY DEF Renewal, Reapply, NewService
  <1>2. ASSUME ~Renewal
        PROVE  \/ svc'.tgs = svc.tgs
               \/ /\ RecordTG /\ tgIds[idx] \in TGId
                  /\ svc'.tgs = Append(svc.tgs, tgIds[idx])
    <2>1. /\ TypeInv /\ PlaceInv
          /\ svc \in Object /\ cache \in Object /\ cp \in Object
      BY DEF HeldInv, TypeInv, TypeOK, KubeTypeOK, WorkerTypeOK
    <2>2. CASE UNCHANGED svc
      BY <2>2
    <2>3. CASE AddFinalizer \/ DropFinalizer
      <3>1. cp = svc
        BY <2>3, CurrentCopy
           DEF AddFinalizer, DropFinalizer, Copied, Deleting
      <3>2. QED
        BY <2>1, <2>3, <3>1 DEF AddFinalizer, DropFinalizer, Store, Object
    <2>4. CASE (RecordTG \/ RecordLB \/ Publish) /\ ~UNCHANGED svc
      <3>1. cache = svc
        BY <2>4, CurrentCache DEF RecordTG, RecordLB, Publish, Current
      <3>2. CASE RecordTG
        <4>1. tgIds[idx] \in TGId
          BY <2>1, <3>2 DEF RecordTG, TypeInv, TypeOK, WorkerTypeOK, LoopInv,
                            Ports
        <4>2. svc'.tgs = Append(svc.tgs, tgIds[idx])
          BY <2>1, <2>4, <3>1, <3>2 DEF RecordTG, Store, Object
        <4>3. QED  BY <3>2, <4>1, <4>2
      <3>3. CASE RecordLB \/ Publish
        BY <2>1, <2>4, <3>1, <3>3 DEF RecordLB, Publish, Store, Object
      <3>4. QED  BY <2>4, <3>2, <3>3
    <2>5. CASE User /\ ~UNCHANGED svc
      <3>1. ~Spend("type") /\ ~Spend("unannotate")
        BY <2>1, NotUnannotated
           DEF LeftAlone, NeverRetyped, TypeInv, TypeOK, Spend, Disturbances
      <3>2. svc.exists
        BY <1>2, <2>5, Written
           DEF LeftAlone, Informer, Deliver, Crash, Relist
      <3>3. DeleteService \/ Touch
        BY <1>2, <2>5, <3>1, <3>2 DEF User, Reapply
      <3>4. QED
        BY <2>1, <3>3 DEF DeleteService, Touch, Store, Object
    <2>6. CASE Informer \/ Crash
      BY <2>2, <2>6 DEF Informer, Deliver, Crash, Relist
    <2>7. ~Strip /\ ~ClearStatus
      BY <2>1 DEF PlaceInv, Strip, ClearStatus
    <2>8. QED
      BY <2>2, <2>3, <2>4, <2>5, <2>6, <2>7, KubeFrame DEF KubeWrite
  <1>3. QED  BY <1>1, <1>2

\* Every writer rewrites the target-groups annotation whole, from a copy that
\* may even be of an earlier Service, and yet none ever takes an id out of it.
THEOREM KeptTargetGroups == LeftAlone /\ Spec => TargetGroupsKept
  <1> DEFINE Kept == \A i \in 1..Len(svc.tgs) :
                        i <= Len(svc'.tgs) /\ svc'.tgs[i] = svc.tgs[i]
  <1>1. LeftAlone /\ OwnershipInv /\ [Next]_vars => [svc.exists => Kept]_vars
    <2> SUFFICES ASSUME LeftAlone, OwnershipInv, [Next]_vars, svc.exists
                 PROVE  Kept
      OBVIOUS
    <2>1. /\ HeldInv /\ svc.tgs \in Seq(TGId)
      BY DEF OwnershipInv, HeldInv, TypeInv, TypeOK, KubeTypeOK, Object
    <2>2. ~Renewal
      BY DEF Renewal
    <2>3. QED  BY <2>1, <2>2, GroupsNamed
  <1>2. LeftAlone => []LeftAlone
    <2>1. LeftAlone => LeftAlone'
      BY DEF LeftAlone, NeverRetyped
    <2>2. QED  BY <2>1, PTL
  <1>3. QED
    BY OwnershipHolds, <1>1, <1>2, PTL DEF Spec, TargetGroupsKept
=============================================================================
