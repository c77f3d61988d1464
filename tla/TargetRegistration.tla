-------------------------- MODULE TargetRegistration --------------------------
(***************************************************************************)
(* Registering the worker nodes' servers as targets of one target group:   *)
(* addNodesToTargetGroup, the instance lookup it does for each node,       *)
(* addTargetsWithRetry and verifyTargetRegistration.  It is called for     *)
(* every target group that a reconcile makes or finds, so more than once   *)
(* for the same group when creation is repeated.                           *)
(*                                                                         *)
(* The cloud (external) accepts a request and registers its targets later, *)
(* or not at all; it may refuse the request, and its answer may be lost.   *)
(***************************************************************************)
EXTENDS Naturals, Sequences

CONSTANTS
    NodeLists,   \* the node lists the API server may return
    MaxCalls     \* bound: calls for this target group

Tries == 3

\* What is read of a node, and `twin': a server of another VPC has the node's
\* internal address.
Providers == {"absent", "own", "foreign", "bare"}
Node == [master : BOOLEAN, address : BOOLEAN, provider : Providers,
         annotated : BOOLEAN, twin : BOOLEAN]

ASSUME ListsAssumption == NodeLists \subseteq Seq(Node)
ASSUME CallsAssumption == MaxCalls \in Nat

\* An instance number: of the i-th node's own server, of a server of another
\* VPC with its address, or of no server at all.
Number == (Nat \ {0}) \X {"own", "twin", "bogus"}
Real(targets) == {t \in targets : t[2] # "bogus"}

VARIABLES
    pc,         \* where the call is, "returned" between calls
    calls,      \* calls so far
    nodes,      \* nodeList.Items
    at,         \* index of the node being looked at
    targets,    \* targets
    remaining,  \* remainingTargets
    retry,      \* tries of AddTarget begun and not yet followed by another
    result,     \* what the last call returned
    pending,    \* numbers the cloud has accepted for this group
    inGroup,    \* the group's targets
    seen        \* history: targets this call's verifications found

callVars == <<calls, nodes, result>>
cloudVars == <<pending, inGroup>>
vars == <<pc, calls, nodes, at, targets, remaining, retry, result, pending,
          inGroup, seen>>

\* Types and ranges of all variables.
TypeOK ==
    /\ pc \in {"returned", "list", "look", "begin", "add", "verify"}
    /\ calls \in 0..MaxCalls
    /\ nodes \in Seq(Node)
    /\ at \in Nat \ {0}
    /\ targets \subseteq Number /\ remaining \subseteq targets
    /\ retry \in 0..(Tries - 1)
    /\ result \in {"none", "nil", "error"}
    /\ pending \subseteq Number /\ inGroup \subseteq Number
    /\ seen \subseteq targets

Init ==
    /\ pc = "returned" /\ calls = 0 /\ nodes = <<>> /\ at = 1
    /\ targets = {} /\ remaining = {} /\ retry = 0 /\ result = "none"
    /\ pending = {} /\ inGroup = {} /\ seen = {}

Return(value) == pc' = "returned" /\ result' = value

Call ==
    /\ pc = "returned" /\ calls < MaxCalls
    /\ calls' = calls + 1 /\ pc' = "list"
    /\ nodes' = <<>> /\ at' = 1 /\ targets' = {} /\ remaining' = {}
    /\ retry' = 0 /\ result' = "none" /\ seen' = {}
    /\ UNCHANGED cloudVars
-----------------------------------------------------------------------------
(* addNodesToTargetGroup.                                                  *)

List ==
    /\ pc = "list"
    /\ \/ \E list \in NodeLists :
             /\ nodes' = list
             /\ IF list = <<>> THEN Return("nil")
                               ELSE pc' = "look" /\ UNCHANGED result
       \/ Return("error") /\ UNCHANGED nodes
    /\ UNCHANGED <<calls, at, targets, remaining, retry, cloudVars, seen>>

\* The number in the node's metadata: the last part of a provider ID, if there
\* is one, else the annotation or a name that is a number.
Metadata(i) ==
    CASE nodes[i].provider = "own"     -> {<<i, "own">>}
      [] nodes[i].provider = "foreign" -> {<<i, "bogus">>}
      [] nodes[i].provider = "bare"    -> {}
      [] nodes[i].provider = "absent"  ->
            IF nodes[i].annotated THEN {<<i, "own">>} ELSE {}

\* What the lookup by address may find.  Only the fallback keeps to the VPC.
ByAddress(i) ==
    {<<i, "own">>} \cup (IF nodes[i].twin THEN {<<i, "twin">>} ELSE {})

IsWorker(i) == ~nodes[i].master /\ nodes[i].address

NextNode(found) ==
    /\ targets' = targets \cup found /\ at' = at + 1
    /\ UNCHANGED <<pc, callVars, remaining, retry, cloudVars, seen>>

\* Bug: a failed lookup ends the loop.
LookStopping ==
    /\ pc = "look" /\ at <= Len(nodes)
    /\ \/ ~IsWorker(at) /\ NextNode({})
       \/ IsWorker(at) /\ Metadata(at) # {} /\ NextNode(Metadata(at))
       \/ /\ IsWorker(at) /\ Metadata(at) = {}
          /\ \/ \E t \in ByAddress(at) : NextNode({t})
             \/ /\ at' = Len(nodes) + 1
                /\ UNCHANGED <<pc, callVars, targets, remaining, retry,
                               cloudVars, seen>>

\* One node: skipped, or its number found in its metadata, or by address
\* (which may fail, and then the node is skipped).
Look ==
    /\ pc = "look" /\ at <= Len(nodes)
    /\ \/ ~IsWorker(at) /\ NextNode({})
       \/ IsWorker(at) /\ Metadata(at) # {} /\ NextNode(Metadata(at))
       \/ /\ IsWorker(at) /\ Metadata(at) = {}
          /\ \/ \E t \in ByAddress(at) : NextNode({t})
             \/ NextNode({})

Looked ==
    /\ pc = "look" /\ at > Len(nodes)
    /\ IF targets = {} THEN Return("error")
                       ELSE pc' = "begin" /\ UNCHANGED result
    /\ UNCHANGED <<calls, nodes, at, targets, remaining, retry, cloudVars,
                   seen>>
-----------------------------------------------------------------------------
(* addTargetsWithRetry.                                                    *)

Begin ==
    /\ pc = "begin"
    /\ \/ /\ pc' = "add" /\ remaining' = targets
          /\ UNCHANGED result
       \/ Return("error") /\ UNCHANGED remaining   \* no credentials
    /\ UNCHANGED <<calls, nodes, at, targets, retry, cloudVars, seen>>

\* Bug: targets that are left are only logged.
ReturnAlwaysNil(left) == Return("nil")

\* The final check: an error only if all targets are left.
ReturnWith(left) == Return(IF left # {} /\ left = targets THEN "error" ELSE "nil")

\* Bug: a try after which the same targets are left does not count.
NextTryUncounted(left) ==
    IF left # {} /\ (left = remaining \/ retry < Tries - 1)
    THEN /\ pc' = "add" /\ UNCHANGED result
         /\ retry' = IF left = remaining THEN retry ELSE retry + 1
    ELSE ReturnWith(left) /\ UNCHANGED retry

\* Bug: the loop runs once too often.
NextTryLate(left) ==
    IF left # {} /\ retry < Tries
    THEN pc' = "add" /\ retry' = retry + 1 /\ UNCHANGED result
    ELSE ReturnWith(left) /\ UNCHANGED retry

\* The loop over the tries goes on, or is over.
NextTry(left) ==
    IF left # {} /\ retry < Tries - 1
    THEN pc' = "add" /\ retry' = retry + 1 /\ UNCHANGED result
    ELSE ReturnWith(left) /\ UNCHANGED retry

Accept(request) == pending' = pending \cup Real(request)

Add ==
    /\ pc = "add"
    /\ \/ /\ Accept(remaining)
          /\ pc' = "verify" /\ UNCHANGED <<retry, result>>
       \* refused, or accepted while the answer is lost
       \/ /\ Accept({}) \/ Accept(remaining)
          /\ NextTry(remaining)
    /\ UNCHANGED <<calls, nodes, at, targets, remaining, inGroup, seen>>

\* Bug: a verification that fails is taken for one that found everything.
VerifyTrusting ==
    /\ pc = "verify"
    /\ \/ /\ remaining' = remaining \ inGroup
          /\ seen' = seen \cup (remaining \cap inGroup)
       \/ remaining' = {} /\ UNCHANGED seen
    /\ NextTry(remaining')
    /\ UNCHANGED <<calls, nodes, at, targets, cloudVars>>

\* Bug: the next try is made with all targets again.
VerifyRestarting ==
    /\ pc = "verify"
    /\ \/ /\ remaining' = IF remaining \subseteq inGroup THEN {} ELSE targets
          /\ seen' = seen \cup (remaining \cap inGroup)
       \/ UNCHANGED <<remaining, seen>>
    /\ NextTry(remaining')
    /\ UNCHANGED <<calls, nodes, at, targets, cloudVars>>

\* The targets found in the group need no further try.  A verification that
\* fails (credentials, list call) leaves all of them for the next.
Verify ==
    /\ pc = "verify"
    /\ \/ /\ remaining' = remaining \ inGroup
          /\ seen' = seen \cup (remaining \cap inGroup)
       \/ UNCHANGED <<remaining, seen>>
    /\ NextTry(remaining')
    /\ UNCHANGED <<calls, nodes, at, targets, cloudVars>>
-----------------------------------------------------------------------------
\* The cloud registers a target it has accepted.
Register(t) ==
    /\ t \in pending
    /\ inGroup' = inGroup \cup {t} /\ pending' = pending \ {t}
    /\ UNCHANGED <<pc, callVars, at, targets, remaining, retry, seen>>

Worker == List \/ Look \/ Looked \/ Begin \/ Add \/ Verify
Next == Call \/ Worker \/ \E t \in pending : Register(t)

Spec == Init /\ [][Next]_vars

\* A call that has begun goes on; whether there are calls, and what becomes of
\* an accepted target, is left open.
FairSpec == Spec /\ WF_vars(Worker)
-----------------------------------------------------------------------------
(* What the code keeps.                                                    *)

\* A target that is not tried again, or that a call returning nil does not
\* count as left over, was found in the group by a verification of this call:
\* none is taken for registered because a request or a verification failed.
SettledWereSeen ==
    (pc \in {"add", "verify"} \/ (pc = "returned" /\ result = "nil")) =>
        targets \ remaining \subseteq seen \cap inGroup

\* What a verification has found in the group is not sent to the cloud again.
NotSentAgain == pc = "add" => remaining \cap seen = {}

\* When the numbers are sent, each was found for a listed worker node - in its
\* metadata or by its address, and may be another server's or none's - and the
\* nodes that had to be skipped cost no other node its place.
WorkersCovered ==
    pc \in {"begin", "add", "verify"} =>
        /\ \A t \in targets : t[1] \in 1..Len(nodes) /\ IsWorker(t[1])
        /\ \A i \in 1..Len(nodes) :
              IsWorker(i) => Metadata(i) \subseteq targets

\* "nil" means, unless the cluster had no nodes, that the group has the own
\* server of a listed worker - or, if a server of another VPC has that worker's
\* address, possibly that one in its place: the first lookup by address does
\* not look at the VPC.  Numbers that belong to no server do not count.
NilMeansServed ==
    pc = "returned" /\ result = "nil" /\ nodes # <<>> =>
        \E t \in targets \cap inGroup :
            /\ IsWorker(t[1])
            /\ t[2] = "own" \/ (t[2] = "twin" /\ nodes[t[1]].twin)

\* How many more steps a call can take that has its list of nodes.
StepsLeft ==
    CASE pc \in {"returned", "list"} -> 0
      [] pc = "verify" -> 2 * (Tries - retry) - 1
      [] pc = "add"    -> 2 * (Tries - retry)
      [] pc = "begin"  -> 2 * Tries + 1
      [] pc = "look"   -> Len(nodes) - at + 2 * Tries + 3

\* Each step of a call leaves it fewer, and nobody else can give it more: with
\* n nodes it is over after n + 8, however many targets are left again and
\* again.  (The single worker registers targets while a Service waits.)
CallComesToEnd ==
    [][pc \notin {"returned", "list"} =>
           /\ StepsLeft' \in 0..StepsLeft
           /\ Worker => StepsLeft' # StepsLeft]_vars

\* A call ends, whatever the cloud answers.
Returns == pc # "returned" ~> pc = "returned"
=============================================================================
