# A TLA+ verification of the Naver Cloud Service controller

The repository is a Kubernetes controller (Go, controller-runtime). For every
Service of type `LoadBalancer` it makes a *Network Proxy* load balancer in
Naver Cloud, with one target group and one listener per port, publishes the
load balancer's address in the Service's status, and takes everything down
again when the Service is deleted or its type changes.

Paths below are relative to the repository; `SC` stands for
`internal/controller/service_controller.go`.

## 1. The system

| Part | State | Operations | Correct when |
|---|---|---|---|
| Service reconciler (`SC` 81-915, 1038-1073) | none of its own between reconciles: finalizer, annotations `lb-id` and `target-groups` and the status live in the Service object | `Reconcile`, `reconcileNaverCloudLB`, `getLoadBalancerExternalAddress`, `deleteNaverCloudLB`, `updateServiceAnnotations` | what it makes in the cloud is owned by the Service from the moment it is made until it is removed; a Service gets an address; a deleted one goes away |
| Watch, cache, filter, queue (controller-runtime; `SC` 1005-1035) | cached object, pending events, the queued key | event filter, queueing, retry, resync, restart | no change that needs work is dropped |
| Naver Cloud (external; `internal/navercloud/client.go` wraps it) | load balancers with a status, target groups, listeners, targets | create, delete, list; asynchronous building and deletion | - |
| Listeners and waits (`SC` 746-804, 1825-2029) | - | `createListenersSequentially`, two polling waits | every port gets a listener |
| Target registration (`SC` 1076-1134, 1629-1821) | targets of a group | `addNodesToTargetGroup`, `addTargetsWithRetry`, `verifyTargetRegistration` | every worker node's instance becomes a target; the result says what happened |
| Node lookup (`SC` 1137-1367) | - | metadata, API by IP, fallback | the right instance for a node |
| Names (`SC` 918-981) | - | `generateValidName` | valid, and different for different resources |
| Credentials (`SC` 2033-2051, `secret_provider.go`, `secret_config.go`, `cmd/main.go` 203-243) | none that outlives a call | environment, OpenBao, Kubernetes Secret, ConfigMap supplement | what is handed out belongs together and is complete; a fallback has a cause |
| Manager (`cmd/main.go`) | - | flags, start | one active controller |
| Mock client, tests, manifests | - | - | - |

How they interact. The informer delivers versions of the Service to the cache
and, through the filter, queues its key. The worker takes the key, reads the
object *from the cache*, and works through one reconcile: cloud calls, minutes
of waiting, and writes to the API server. Each write carries the version of the
copy it was made from and is refused if the server has a newer one. Meanwhile the
user deletes the Service or changes its type, other controllers write it, the
cloud builds and deletes, and the process may die.

What is hard about it: a reconcile lasts for minutes and acts on copies that
may be old; each of the two systems it writes can refuse, or lose the answer;
an error is in some places returned (and the reconcile repeated), in others
logged and forgotten; what was made is known only from annotations written
after the fact, or from its name. `PROJECT.json` lists these hazards with the
line at which each bites and the properties that would catch it.

## 2. The modules

| Module | Models |
|---|---|
| `Resources` | ports and ids shared by the others, and the assumptions on their number |
| `KubeAPI` | one Service in the API server (`svc`), versions under way (`watch`), the informer's copy (`cache`), the queue's bit for the key (`queued`); optimistic concurrency, removal with the last finalizer, the event filter |
| `NaverCloud` | load balancers (`lbStatus`: UNMADE, INIT, RUN, TERMINATING, GONE), target groups (`tgPort`, `tgLive`), `listeners` |
| `ServiceController` | the worker: composes the two with `pc`, its copy `cp` of the object, loop index `idx`, `tgIds`, `lbId`; all other actors; fairness |
| `ServiceProperties` | the properties, those the code keeps and the documented ones it does not |
| `MCService` and the `.cfg` files | instances for TLC |
| `TwoServices` | two instances of `ServiceController` with one worker and one cloud between them, for two Services whose resources get the same names from `ResourceNames` |
| `MCTwoServices` and `shared_names.cfg` | two Services of one Helm chart |
| `ServiceProofs` | type correctness, proved |
| `QueueProofs` | no work is left with nothing under way to do it, and a reconcile comes to its end, proved |
| `OwnershipProofs` | the inductive ownership invariant in two layers, and four theorems, proved |
| `LBOwnership` | abstract specification: who may make, name and remove the load balancer, and when the Service may go, with no cache, worker or delay |
| `RefinementProofs` | `ServiceController` implements `LBOwnership`, proved |
| `TargetGroupProofs` | every listener leads to its own port's target group, and the target groups a Service named go with it, proved |
| `TargetRegistration` | one target group: the loop over the nodes, the lookup of each node's instance, the tries of `AddTarget`, the verification; its properties |
| `MCTargets` and `targets.cfg` | clusters for TLC |
| `TargetProofs` | types, result and length of target registration, proved |
| `ResourceNames` | `generateValidName`, step by step, on texts as sequences of characters; the names of a Service's load balancer and target groups |
| `MCNames` and `names.cfg` | an alphabet and words for TLC |
| `NamesProofs` | what `generateValidName` computes, for texts of any characters and length, proved |
| `Credentials` | `getCredentials`: modes, environment, the reads from OpenBao, the Secret and the ConfigMap, each a step, while administrators change them; its properties |
| `MCCredentials` and `credentials.cfg` | contents of the stores for TLC |
| `CredentialsProofs` | types and the three guarantees of a call, proved |

### Code and actions

| Code | Action(s) |
|---|---|
| `Reconcile` up to the first call, one action per branch | `StartNothing`, `StartCleanup`, `StartDeletion`, `StartFinalizer`, `StartCreation`, `StartRefresh` |
| adding and removing the finalizer | `AddFinalizer`, `DropFinalizer` |
| a refused write that ends the reconcile with an error | `Conflict` |
| credentials, a lookup or a call failing without effect | `Fail` |
| the loop over the ports: `CreateTargetGroup` or lookup by name, then the annotation | `MakeTG`, `FindTG`, `RecordTG` |
| `CreateLoadBalancerInstance`, or the holder of the name | `MakeLB`, `FindLB`, `QuotaReached` |
| `createListenersSequentially`, one port | `Listen` |
| search for the address, `updateServiceAnnotations`, PENDING or ACTIVE | `RecordLB` |
| the update path of `reconcileNaverCloudLB` | `Refresh` |
| `Status().Update` with the address | `Publish` |
| `deleteNaverCloudLB` | `SkipLB`, `RemoveLB`, `LBMissing`, `RemoveTG`, `DeletionDone` |
| after a type change: read again, strip, clear the status | `Strip`, `ClearStatus` |
| `addNodesToTargetGroup` (`TargetRegistration`) | `Call`, `List`, `Look`, `Looked` |
| `isMasterNode`, `getNodeInternalIP`, `getNaverCloudInstanceNo`, lookups by address | operators `IsWorker`, `Metadata`, `ByAddress` |
| `addTargetsWithRetry`, `verifyTargetRegistration` | `Begin`, `Add`, `Verify` with `NextTry` and `ReturnWith` |
| `generateValidName` (`ResourceNames`) | operators `Joined`, `Cleaned`, `Collapsed`, `Trimmed`, `Lettered`, `Cut`, `Lengthened`, composed in this order |
| naming what is about to be made | `NameResources` |
| `getCredentials` and the switch on the mode (`Credentials`) | `Call`, `FromEnv`, `Choose` |
| `getAppRoleCredentials`, `authenticateAppRole`, `readSecret` | `ReadAppRole`, `Login`, `ReadBao`, with `BaoFails` for their errors |
| `supplementFromConfigMap`, the Secret's provider | `SupplementFromConfigMap`, `ReadKube` |

Choices that need a word:

- A `Get` and the `Update` that directly follows it are one step. A write that
  slips in between refuses the `Update` just as one the cache had not seen
  would, and that case is there (`Conflict`, the second disjunct of `RecordTG`).
- A cloud call either has its effect and is answered, fails without effect, or
  has its effect while the answer is lost. A write to the API server that is
  applied although the client sees an error is not modelled apart: a crash right
  after the write gives the same states.
- `RecordTG`, `Listen` and `RemoveTG` go on after an error, as the code does,
  which only logs there.
- The waits have no duration. A wait for a load balancer to be ready may end in
  vain unless `PromptCloud` is TRUE, in which case the cloud settles within
  the code's waits. The sleeps, the three tries per listener and the
  USED/Changing status names are abstracted by that.
- `Status().Update` after a type change follows an `Update` that has refreshed
  the copy's status from the response; whether the ingress is cleared depends on
  the version of the API server, so `ClearStatus` leaves it open.
- The object that `Publish` hands to `Status().Update` carries the `lb-id` annotation as
  well (`SC` 245-248). A status endpoint that keeps metadata would store it; `Publish`
  stores the address only. The two differ only if somebody takes the annotation off
  by hand between the start of the reconcile or `RecordLB` and `Publish`, and the copy
  read there shows it: the write would then put the id back. (The controller itself
  takes the annotation off, or lets the Service go, only from the same single worker.)
  No checked property turns on it: those about the annotation are for Services whose
  annotations are left alone, and `Named` and `Exposed` would only be reached sooner.
- When an error is returned, controller-runtime ignores `RequeueAfter` and
  retries with its own delay; with no clock, both are `queued' = TRUE`.
- `DeleteMissingFails` says whether the cloud refuses to delete a load balancer
  that is already going or gone. Nothing in the repository fixes it, so
  safety is checked with the harsher answer (TRUE, `lifecycle`) and liveness,
  which needs the kinder one (as in `internal/navercloud/mock_client.go`), with FALSE.
- One worker (controller-runtime's default) and one manager (the manifests pass
  `--leader-elect`). One Service, except in `TwoServices`. It may be deleted and
  applied again (`Reapply`), as a new object that knows nothing of the old one; its
  versions are numbered on, so that a copy of the old object is never current.
- `Unannotate` is what docs/troubleshooting-pending-loadbalancer.md:159-163 advises
  for a Service that hangs: one of the two annotations is taken off by hand.
- The cloud tells target groups apart by their names alone, so `TGName`, the name
  of each port's, is a parameter; the load balancer's name is the only one in use
  in the models of one Service.
- `TwoServices` shares the worker's variables between two instances of
  `ServiceController`: an instance may act only while the worker is idle or at work
  for it. Both see the whole cloud, and both take what has the right name for
  their own. Nothing disturbs the two but the deletion by their users.
- `TargetRegistration` stands apart from the life cycle, which logs its result
  and goes on: composing the two would multiply states without a property that
  speaks of both. A node is what the code reads of it (`Node`); an instance
  number is that of the node's own server, of a server in another VPC with the
  same address, or of nothing (a provider ID of another form, whose last part is
  taken as it is). Targets are never removed by anyone while a call lasts.
- A text in `ResourceNames` is a sequence of characters, of which only the kind
  matters (letter, capital, digit, hyphen, anything else). The steps that drop
  characters say which positions they keep (`Kept`), so that they can be reasoned
  about without induction over the text.
- `Credentials`: an object that is missing, or cannot be read, is one without
  values, since each place that reads one treats both alike. The Secret and the
  ConfigMap are read through the client's cache and OpenBao directly, so each has
  its contents and each read its moment. `main` sets address, path and role
  of OpenBao unless the environment does, so `IsOpenBaoEnabled` is always true and
  `SECRET_MODE` decides; "" never reaches `GetSecretMode`. The token cache lives in a
  provider made anew for each call, so it never has anything, and is left out. In
  the life cycle credentials that cannot be had are a `Fail`, or in
  `createListenersSequentially` a fault for each port.
- `spent` counts disturbances against `Limit`; `recorded` is a history variable:
  the load balancers whose id was ever written to the annotation. So is `givenUp`:
  the target groups a deletion went past because a call failed, or because its five
  tries ran out while a load balancer on its way out still used the group. One that is
  skipped because a load balancer uses it that nobody has asked to go is not in it.

## 3. What is checked

`Limit` gives the number of faults (failed or lost calls), crashes, foreign
writes, type changes, annotations removed by hand and times the Service is applied
anew; each may strike at any step. Deletion by the user is
possible at any time, once in each life of the Service. Deadlock checking is off: once the Service is gone
the system rightly stops.

| Run | Instance | Shows |
|---|---|---|
| `lifecycle` | 2 ports, 2 LB ids, 3 TG ids; 1 fault, 1 crash or foreign write, applied anew once; slow cloud, missing deletions refused | `TypeOK`, `NothingForgotten`, `RecordedLBOwned`, `IngressOwned`, `ListenersMatch`, `NamedGroupsGo`, `CreatedUnderFinalizer`, `TargetGroupsKept`, `ImplementsOwnership`, `WorkerComesBack` |
| `progress` | same sizes; 1 fault, 1 crash, 2 annotations removed by hand; slow cloud; fair | `DeletionCompletes`, `Exposed`, `Named` |
| `retype` | 1 port, 2 LB ids, 2 TG ids; 3 type changes, applied anew once; slow cloud; fair | `NothingForgotten`, `CleanupCompletes` |
| `targets` | every list of up to 3 nodes of 8 kinds; 1 call; fair | `TypeOK`, `SettledWereSeen`, `NotSentAgain`, `WorkersCovered`, `NilMeansServed`, `CallComesToEnd`, `Returns` |
| `names` | all Services of words of up to 2 of 5 characters and one with a hyphen inside, in 14 namespaces, any two of them; bound 10 for 30 | `TypeOK`, `ValidNames`, `PortsApart`, `ServicesApart` |
| `credentials` | 5 modes, entries that lack one thing or another of 2 accounts; 2 changes, OpenBao and the AppRole Secret coming and going at will | `TypeOK`, `GrantedAsStored`, `UsableGrants`, `NoneWithoutCause` |

Why these bounds. Two ports are the fewest for which one target group is known
and another is not, and for which the loops' indices differ. A second load
balancer id is needed only for one to be made after the first was deleted, and a
third target group id for one to be remade. One
fault and one crash, or one fault and one foreign write (`CrashOrTouch`: all three at
once would not end in reasonable time), can strike the same reconcile or one after
the other, in any order, as can the user's deletion, and one new life of the Service
meets all that the first has left in the cache, in the worker's hands and in the
cloud; a fault in a retry, or a third life, is left to the proofs. Two removals allow
both annotations to go, one after the other, as the document advises; each is a
foreign write, too. Three type changes
allow the sequence LoadBalancer, other, LoadBalancer, other. Three targets
are the fewest of which a try can settle one, the next another, and the last
none; a second call, which meets a group that already has targets, is left to the
proofs. Scaled to 10, the bound on names cuts a load balancer's after the
namespace and a target group's before its suffix, while others just fit; with the
real bound, which `shared_names` has, the words would be longer and nothing else
different. The words with a hyphen inside let b-a in the default namespace meet a in b,
and b-a in a meet a in a-b, without a cut. Two changes allow a read to find the
first half of an update in one store and the second in another, or a store
changed and changed back. The proofs of section 4 drop all these bounds.

### The properties

- `RecordedLBOwned` - a load balancer whose id was ever recorded runs only while
  the Service exists, names it and has the finalizer.
- `IngressOwned` - the published address is the recorded load balancer's.
- `ListenersMatch` - a listener leads to the target group made for its own port.
- `CreatedUnderFinalizer` - nothing is made in the cloud at a moment when the
  server's object lacks the finalizer, although the copy the worker goes by may
  be old.
- `TargetGroupsKept` - while the Service exists, no write takes an id out of
  `target-groups`.
- `NamedGroupsGo` - once the Service is gone, each target group in its last annotation
  is gone, was given up (`givenUp`; the code logs that it is to be cleaned up by
  hand), or is used by a load balancer that nobody has asked to go. None is passed
  over silently, although the loop works from an old copy's annotation and may be
  broken off and begun again.
- `WorkerComesBack` - every step of a reconcile leaves it fewer steps to take
  (`StepsLeft`), and no one else's step gives it more: the single worker is free for
  another key after a bounded number of its own steps. A polling wait is one step of
  the model; the property bounds the steps, not the minutes.
- `NothingForgotten` - while the controller has something left to do for the Service
  (`Pending`: a deletion, a finalizer, an address, a clean-up), its key is queued, or a
  version is on its way to the cache, or the worker is busy. It is what the liveness
  properties need of the queue, as an invariant.
- `ImplementsOwnership` - every step is one of `LBOwnership` or changes nothing
  there: a load balancer is made only for a Service that is held and names none that
  runs, and only while none runs; named only while held; removed only if it is the one
  named and the deletion was asked for; and the Service goes only once what it
  names is gone. What the first Service of a name names stays named until then.
  `LBOwnership` allows two gaps, which are the code's: a load balancer not yet named
  may stay behind (`left_behind`), and a Service applied anew may come to name one
  that is going (`Adopt`; `reapplied` shows where that ends).
- `SettledWereSeen` - a target that is not tried again, or not counted as left
  over by a nil result, was found in the group by this call.
- `NotSentAgain` - what was found in the group is not sent again.
- `WorkersCovered` - each number sent was found for a listed worker (by its address it
  may be another server's, by its metadata none's), and a node that had to be skipped
  costs no other node its place.
- `NilMeansServed` - on a cluster with nodes nil means that the group has the own
  server of a listed worker; or, if a server of another VPC has such a worker's
  address, possibly that one in its place, which the lookup by address takes for it.
- `CallComesToEnd` - each step of a call of target registration leaves it fewer.
- `Returns` - a call of target registration ends.
- `DeletionCompletes`, `Exposed` - a deleted Service goes away; a Service gets
  an address unless deleted.
- `Named` - a Service names its load balancer unless deleted, and names it again
  after the annotation was taken off: the creation starts over and finds all that
  exists by its name. (The document that advises it speaks of forcing everything to be
  made anew; the code adopts what there is, and the property says no more.)
- `CleanupCompletes` - a Service that stays another type loses both annotations
  for good, although the filter drops most of its events.
- `ValidNames` - the rules in `generateValidName`'s comment hold of every name,
  whatever the words it is made from.
- `PortsApart` - the resources of one Service share a name only if it was cut.
- `ServicesApart` - the resources of two Services share a name that was not cut only if
  the Services are of different namespaces and the two words, joined by a hyphen, read
  the same: b-c in a and c in a-b, or (since "default" is left out) a-b in default and
  b in a. It speaks of Kubernetes names without two hyphens in a row; of several the
  names keep one, so a--b and a-b in one namespace coincide, too.
- `GrantedAsStored` - key and secret handed out were together in one store at one
  moment of the call; region, VPC and subnet are of the same entry wherever it has
  them, and else the default region or the ConfigMap's.
- `UsableGrants` - no error means a key, a secret and a region.
- `NoneWithoutCause` - in mode auto the Secret, and in any mode an error, comes only
  from a moment of that call at which the other stores were of no use.

`NothingForgotten` and `WorkerComesBack` hold whatever happens, and so does
`ListenersMatch` as long as the names of the ports' target groups differ
(`DistinctNames`), which they may not once they are cut. The other safety
properties of the life cycle hold for a Service whose type is not changed and, but for
`CreatedUnderFinalizer`, whose annotations are not removed by hand; `DeletionCompletes`
for one whose type is not changed. The runs below show what a type change does to
`RecordedLBOwned` and `DeletionCompletes`. `Exposed` holds for a Service that is not
applied anew (`reapplied`). A Service whose `lb-id` was taken off by hand and which is
deleted before the id is recorded again leaves its load balancer behind, for the reason
`left_behind` shows.

### Fairness

`FairSpec` assumes weak fairness of the worker (a goroutine that is always
scheduled; a returned error is retried by the rate-limited queue), of the
informer (the watch delivers what the server has) and, for each load balancer, of
the cloud (building and deletion end). Nothing is assumed of the user, of
crashes, of foreign writes or of the periodic resync: the properties do not
depend on the resync. `TargetRegistration` assumes only that a call that has
begun goes on; whether an accepted target is ever registered is left open.
`Credentials` assumes nothing and has no liveness property: a call is a straight line of
reads, so whether it ends is whether each read returns.

### Where the code and its documents differ

Each of these runs ends in a counterexample of TLC, quoted in `PROJECT.json`
with the sentence it contradicts.

| Run | What happens |
|---|---|
| `left_behind` | The Service is deleted while its load balancer is being made. The annotations are refused, for the target group with no more than a log line; the next reconcile knows neither, and removes the finalizer. Load balancer and target group are left running. No fault is needed. |
| `reapplied` | The Service is deleted and applied again while the cloud is still deleting the load balancer, which is therefore found under its name and recorded. From then on its address is asked for, for ever. |
| `shared_names` | `monitoring/kube-prometheus-grafana` and `monitoring/kube-prometheus-alertmanager` agree in the 30 characters that are kept. The second Service finds the first one's load balancer and publishes its address; deleting one takes it down for both. |
| `retype_race` | After a type change the worker deletes what its first read named, reads again, finds a newer annotation and strips it: that load balancer runs on, named by nothing. |
| `stuck_finalizer` | The type is changed after the finalizer was added and before anything was recorded. No path removes the finalizer any more, so the Service cannot be deleted. |
| `no_listener` | The load balancer is not ready in time, its listeners are refused, `lb-id` is saved, and all later reconciles take the update path, which makes no listeners. |

Seen in the code while modelling it, without a run of their own: the comment at
`SC` 2032 lists the environment as the last resort for credentials, and it comes
first. The comments at `secret_provider.go` 357 and 366 say that a missing region is
supplemented from the ConfigMap; the ConfigMap's is never used, because `readSecret` has
set the default by then (226). `GrantedAsStored` admits either source;
`ConfigRegionUnused`, a theorem, shows what the code does. `addTargetsWithRetry` may
report complete failure although all targets were registered. The comment at `SC` 1195
speaks of exact matching of address and instance, and the search takes the first match
of the region, whatever its VPC: a nil result may rest on another VPC's server alone,
the exception in `NilMeansServed`. And names that are joined by hyphens coincide without
a cut where `ServicesApart` and the theorem `HyphensShareNames` say; what follows is
what `shared_names` shows.

## 4. What is proved

With TLAPS, for every number of ports, every quota and every `Limit`, under the
assumptions named in `Resources`, `NaverCloud` and `ServiceController` (`NumPorts`
positive, `MaxLBs` and `MaxTGs` natural, `Limit` a function to naturals, the switches
Boolean, `TGName` a name for each port); for every node list and number of calls
under those of `TargetRegistration`; for all contents of the stores and any number
of changes under those of `Credentials`; for texts of any characters and length and
any bound of five or more under those of `ResourceNames` (the kinds of characters are
disjoint, and the letters of "tg", "k8s-lb" and "default" are among the letters).

`ServiceProofs`: `TypeCorrect == Spec => []TypeOK`. `TypeOK` is not inductive:
that `tgIds[idx]` is an id depends on where the loops stand. `LoopInv` says, for
each place in `Reconcile`, how `idx` and the length of `tgIds` relate, and
`TypeInv == TypeOK /\ LoopInv` is inductive. The module also has what the proofs
about the life cycle share: which actions write the Service (`KubeFrame`,
`StoreFields`), and that the informer misses nothing (`CaughtUp`, `WatchStep`,
`CaughtUpStep`).

`QueueProofs`: `NoLostWork == Spec => []NothingForgotten`, with no assumption on
what happens. The key leaves the queue when the worker takes it, before the
reconcile has read anything else, so the property is not inductive. What is:
while nothing is under way that would make the worker look again (`Unwoken`), the
cache is the server's object, the worker's copy is the cache's (`WakeInv`), and a
reconcile that ends with that copy and stores nothing has nothing left to do. It is
the safety half of `DeletionCompletes`, `Exposed` and `CleanupCompletes`; the other
half, that what is under way arrives, is fairness.

`WorkerReturns == Spec => WorkerComesBack` bounds a reconcile. The bound `StepsFrom`
says, for each place in `Reconcile`, how many steps can still follow; with the loops'
indices kept in range by `TypeInv`, each action lowers it. With fairness of the worker
this is why a reconcile ends; the half that needs no fairness is what is proved.

`OwnershipProofs`, for a Service whose type is not changed (`NeverRetyped`) and, but
for the third, whose annotations nobody removes (`LeftAlone`), however often it is
deleted and applied anew:

| Theorem | Statement |
|---|---|
| `RecordedOwned` | `LeftAlone /\ Spec => []RecordedLBOwned` |
| `PublishedOwned` | `LeftAlone /\ Spec => []IngressOwned` |
| `MadeUnderFinalizer` | `NeverRetyped /\ Spec => CreatedUnderFinalizer` |
| `KeptTargetGroups` | `LeftAlone /\ Spec => TargetGroupsKept` |

The assumptions are needed: `retype_race` refutes the first without them, the third
fails when a cached copy from before a cleanup still shows the finalizer, and an
annotation removed by hand is the end of the first, second or fourth.

The first layer of the argument, `HeldInv`, is about versions, and inductive under
`NeverRetyped` alone:

- `ExistsInv` - the object is gone exactly when it is under deletion without finalizer.
- `VersionInv` - the cache and what is on its way to it are the server's last
  versions, numbered without gaps. So a copy whose number is the server's *is* the
  server's object, with nothing on its way (`CurrentCache`, `CurrentCopy`), and
  `Written` lists what each accepted write makes of that object.
- `FinalizerInv` - a version on its way that shows the finalizer is right, and so is
  the cache unless it shows the deletion as well. This is what makes the finalizer
  readable from an old copy even after the Service was applied anew: `DropFinalizer`
  is accepted only when the cache has caught up.
- `PlaceInv` - what the worker's place in `Reconcile` says about its copy, and that
  the server's object has the finalizer while it creates.

The second layer, `OwnershipInv`, adds the load balancer. With renewed Services it is
no longer true that a deletion once seen is the server's: the cache may show that of
an earlier Service. A deletion still *binds* (`Binding`) if the Service was never
applied anew, or if what the copy names still runs; and it is `Leaving` when the
server, the cache and every version on its way show it.

- `DeletionInv` - a deletion that binds shows in every later version.
- `WorkerInv` - a worker that deletes what still runs is `Leaving`; one that creates
  finds no more than one load balancer running, the one it has in hand; one that
  publishes has the named one.
- `CloudInv` - one load balancer holds the name at a time, and the first Service's
  was asked to go only for its deletion.
- `RecordInv` - what was recorded and runs is what the annotation says, held by the
  finalizer; no version names anything that was not recorded; what is published is
  what is named, and runs until the deletion.

The heart of it is `DropFinalizer`: its `Update` succeeds only if the copy the
worker deleted by is the server's object, so nothing was recorded that it did
not delete. `DeletionStep`, `CloudStep`, `RecordStep` and `WorkerStep` prove one
part each; `BindingStep` says that a deletion that binds has bound since it was read,
`AliveStep`, `ServiceStep` and `VersionsFrom` what a step does to a load balancer,
to the object and to the versions under way. Both layers were checked by TLC
on the instance of `lifecycle` before they were proved.

`RefinementProofs`: `Refinement == LeftAlone /\ Spec => ImplementsOwnership`. The
mapping takes the four fields of the server's object, the set of load balancers
that are alive, and whether the Service was ever applied anew. `OwnerWrites` goes
through the writes, each of the server's own object by the first layer;
`OwnerCloud` through the cloud calls, justified by what the worker saw earlier
because the second layer says that it is still true; `OwnerStutter` disposes of all
that touches neither.

`TargetGroupProofs`: `PortsServed == DistinctNames /\ Spec => []ListenersMatch`, type
changes, removed annotations and renewed Services included. A listener is made from
`tgIds[idx]`, so the inductive part (`CollectedInv`) is that the ids collected are,
position by position, those of the ports; `DistinctNames`, that the target groups'
names differ, is needed where an id is found by name (`FindTG`), and is what
`PortsApart` says of names that are not cut.

`NamedGone == LeftAlone /\ Spec => []NamedGroupsGo`, in the same module, follows the
removal from the first group to the moment the Service goes. `GroupsInv` adds to the
ownership invariant that no version of the object, and no copy of the worker, names a
group that was never made (`MadeInv`), so that none it has dealt with can come to life
again; that a Service without the finalizer names none (`NamedInv`); that listeners
are of load balancers which are up or going (`ListeningInv`), so that a group in use is
used by one that stays or by one that leaves, and then given up; and how far the
removal has come along its copy's annotation (`ClearedInv`). What the copy named is
what the Service named, because `DropFinalizer` succeeds only if the copy is the
Service's last version; and after that no load balancer that still runs is asked to go
(`Removed`), so a group left to one stays with one. `GroupsNamed`, in
`OwnershipProofs`, says what each write makes of the annotation; `KeptTargetGroups`
rests on it, too. `UntroubledGone` adds that nothing is given up when no call fails and
the cloud settles in time (`Untroubled`): then crashes, conflicts and stale reads
leave nothing behind that the Service named. `left_behind` shows the other half,
what it had not come to name.

`TargetProofs`: `TargetTypes`, `NothingMissedSilently` (`SettledWereSeen`),
`NoTargetSentAgain` (`NotSentAgain`), `AllWorkersCovered` (`WorkersCovered`) and
`NilServes` (`NilMeansServed`); `OwnServed` adds that, where no server of another VPC has
a listed node's address, a nil result means a listed worker's own server. The inductive invariant `TargetInv` adds to the
types what holds at each place of a call: the nodes before `at` are covered while
the loop lasts, all are afterwards, and `Settled` holds while targets are sent
and in a nil result. `AfterTry` is shared by the three ways a try ends. `CallsBounded`
(`CallComesToEnd`) bounds a call's steps by its node list and the three tries.

`CredentialsProofs`: `CredentialTypes`, `OneEntryGranted` (`GrantedAsStored`),
`ConfigRegionUnused`, `ResultsUsable` (`UsableGrants`) and `CauseForFallback`
(`NoneWithoutCause`). The
inductive invariant `CredsInv` adds two things: what the stores hold now is among
what they held since the call began (`HeldInv`), and what each place of the call says
about the past (`PlaceInv`): that the entry being supplemented was OpenBao's at some
moment, and that the Secret is read in mode auto only after a lapse.

`NamesProofs`: `TypeCorrect` (every character of a name is allowed), `NamesAreValid`
(`ValidNames`), `PortsHaveNames` (`PortsApart`), `ServicesHaveNames`
(`ServicesApart`) and its converse `HyphensShareNames`. The name comes from a chain of steps that drop, keep or add
characters, so the lemmas say of each step which positions survive and in which
order; the existence of a first and a last position rests on the least element of a
set of naturals, not on induction over texts. What the first step makes certain (a
name begins with the prefix's letter and ends with the port or the word) is followed
through the later ones. Kubernetes names without two hyphens in a row are joined as they
are (`JoinedLabels`), and a name's ends tell its kind and port (`SameEnds`), so that two
equal names have the same middle (`SameMiddle`): namespace and name with a hyphen
between them, which within one namespace leaves no choice (`SameNamespace`).

Only model-checked: the liveness properties (`DeletionCompletes`, `Exposed`, `Named`,
`CleanupCompletes`, `Returns`), because fairness and ENABLED are beyond
the provers used here; and what the runs that end in counterexamples show, which are
facts of one instance.

## 5. Not modelled

The target group status report (`checkTargetGroupStatus`,
`checkInstanceNetworkInterface`) has no effect but log lines. The cloud client
wrapper and the mock pass calls through and are not used by the reconciler. Start-up,
apart from the environment that `Credentials` begins with, manifests and tests have
no behaviour of their own. Time is not modelled: how long a Service waits while the
single worker sleeps for another is a matter of minutes, of which `WorkerComesBack`
bounds only the number of waits and calls. Two managers at once
are ruled out by the manifests. Changes of a Service's ports, and nodes that join
after creation, reach no code that acts on them, and no document promises
more. Expiry of OpenBao's token plays no part, since no token is used twice.

## 6. Plan

Done: the life cycle with its disturbances, ownership and its refinement over any
number of lives of a Service, the queue, listeners, target registration, names, two
Services with the same names, credentials; the properties, runs and proofs named above.
Every safety property a run checks is a theorem.

What could follow:

1. What `left_behind` leaves, bounded: `NamedGroupsGo` and `RecordedLBOwned` say that
   what was named goes; which of the unnamed resources may stay behind, and how many,
   as an invariant that holds.
2. The part of ownership that survives type changes, as an invariant and a theorem.
3. Two Services with different names, as a theorem: what each does leaves the other's
   resources alone.
