----------------------------- MODULE TargetProofs -----------------------------
(***************************************************************************)
(* Target registration, for node lists of any length and any number of     *)
(* calls: types, and what the result says about the targets.               *)
(*                                                                         *)
(* The invariants of TargetRegistration speak of some places of a call.    *)
(* CallInv says for each place what holds there, and is inductive.         *)
(***************************************************************************)
EXTENDS TargetRegistration, TLAPS

Sending == {"begin", "add", "verify"}

\* Each target was found for a listed worker, and the first `upto' nodes are
\* covered.
Covered(upto) ==
    /\ \A t \in targets : t[1] \in 1..Len(nodes) /\ IsWorker(t[1])
    /\ \A t \in targets : t[2] = "twin" => nodes[t[1]].twin
    /\ \A i \in 1..Len(nodes) :
          i < upto /\ IsWorker(i) => Metadata(i) \subseteq targets

Settled ==
    /\ targets \ remaining \subseteq seen \cap inGroup
    /\ remaining \cap seen = {}

CallInv ==
    /\ pc = "list" => targets = {} /\ at = 1
    /\ pc \in {"list", "look", "begin"} => remaining = {} /\ seen = {}
    /\ pc = "look" => Covered(at) /\ at <= Len(nodes) + 1
    /\ pc \in Sending => Covered(Len(nodes) + 1) /\ targets # {} /\ nodes # <<>>
    /\ pc \in {"add", "verify"} => Settled
    /\ pc = "returned" /\ result = "nil" =>
          /\ Settled
          /\ nodes = <<>> \/ (/\ targets # {} /\ remaining # targets
                              /\ Covered(Len(nodes) + 1))

TargetInv == TypeOK /\ CallInv

LEMMA InitTargets == Init => TargetInv
  BY CallsAssumption
     DEF Init, TargetInv, TypeOK, CallInv, Sending, Tries, Settled

\* What a node's metadata or address yields is a number for that node, and of a
\* server of another VPC only if one has its address.
LEMMA NumbersOfNode ==
  ASSUME TypeOK, NEW i \in 1..Len(nodes)
  PROVE  /\ Metadata(i) \subseteq Number /\ ByAddress(i) \subseteq Number
         /\ \A t \in Metadata(i) \cup ByAddress(i) :
               t[1] = i /\ (t[2] = "twin" => nodes[i].twin)
  <1>1. nodes[i].provider \in Providers /\ i \in Nat \ {0}
    <2>1. nodes \in Seq(Node) /\ Len(nodes) \in Nat
      BY DEF TypeOK
    <2>2. nodes[i] \in Node
      BY <2>1
    <2>3. QED  BY <2>1, <2>2 DEF Node
  <1>2. Metadata(i) \in SUBSET {<<i, "own">>, <<i, "bogus">>}
    BY <1>1 DEF Metadata, Providers
  <1>3. QED  BY <1>1, <1>2 DEF ByAddress, Number

\* The step after a try.
LEMMA AfterTry ==
  ASSUME TargetInv, pc \in {"add", "verify"}, NEW left, NextTry(left),
         remaining' = left, left \subseteq remaining, seen' \subseteq targets,
         seen \subseteq seen',
         UNCHANGED <<calls, nodes, at, targets, inGroup>>,
         targets \ left \subseteq seen' \cap inGroup, left \cap seen' = {},
         pending' \subseteq Number
  PROVE  TargetInv'
  <1>1. \/ pc' = "add" /\ retry' = retry + 1 /\ retry < Tries - 1
           /\ result' = result
        \/ /\ pc' = "returned" /\ retry' = retry
           /\ result' = IF left # {} /\ left = targets THEN "error" ELSE "nil"
    BY DEF NextTry, ReturnWith, Return
  <1>2. TypeOK'
    BY <1>1 DEF TargetInv, TypeOK, Tries
  <1>3. Settled'
    BY DEF Settled
  <1>4. Covered(Len(nodes) + 1)' /\ targets' # {} /\ nodes' # <<>>
    BY DEF TargetInv, CallInv, Sending, Covered, IsWorker, Metadata
  <1>5. CallInv'
    BY <1>1, <1>3, <1>4 DEF CallInv, Sending
  <1>6. QED  BY <1>2, <1>5 DEF TargetInv

LEMMA NextTargets == TargetInv /\ [Next]_vars => TargetInv'
  <1> SUFFICES ASSUME TargetInv, [Next]_vars PROVE TargetInv'
    OBVIOUS
  <1> USE DEF TargetInv
  <1>1. CASE UNCHANGED vars
    BY <1>1 DEF vars, TypeOK, CallInv, Covered, Settled, Sending, IsWorker,
                Metadata, Tries
  <1>2. CASE Call
    BY <1>2, CallsAssumption
       DEF Call, cloudVars, TypeOK, CallInv, Sending, Tries
  <1>3. CASE List
    <2>1. TypeOK'
      BY <1>3, ListsAssumption DEF List, Return, cloudVars, TypeOK
    <2>2. CallInv'
      <3>1. Len(nodes') \in Nat
        BY <2>1 DEF TypeOK
      <3>2. QED
        BY <1>3, <3>1 DEF List, Return, cloudVars, CallInv, TypeOK, Sending,
                          Covered, Settled
    <2>3. QED  BY <2>1, <2>2
  <1>4. CASE Look
    <2>1. PICK found :
             /\ NextNode(found) /\ pc = "look" /\ at \in 1..Len(nodes)
             /\ found \subseteq Number
             /\ \A t \in found : t[1] = at /\ (t[2] = "twin" => nodes[at].twin)
             /\ found # {} => IsWorker(at)
             /\ IsWorker(at) => Metadata(at) \subseteq found
      <3>1. pc = "look" /\ at \in 1..Len(nodes)
        BY <1>4 DEF Look, TypeOK
      <3>2. /\ Metadata(at) \subseteq Number /\ ByAddress(at) \subseteq Number
            /\ \A t \in Metadata(at) \cup ByAddress(at) :
                  t[1] = at /\ (t[2] = "twin" => nodes[at].twin)
        BY <3>1, NumbersOfNode
      <3>3. CASE ~IsWorker(at) /\ NextNode({})
        BY <3>1, <3>3
      <3>4. CASE IsWorker(at) /\ Metadata(at) # {} /\ NextNode(Metadata(at))
        BY <3>1, <3>2, <3>4
      <3>5. CASE /\ IsWorker(at) /\ Metadata(at) = {}
                 /\ \E t \in ByAddress(at) : NextNode({t})
        <4>1. PICK t \in ByAddress(at) : NextNode({t})
          BY <3>5
        <4>2. /\ {t} \subseteq Number
              /\ \A u \in {t} : u[1] = at /\ (u[2] = "twin" => nodes[at].twin)
          BY <3>2
        <4>3. QED  BY <3>1, <3>5, <4>1, <4>2
      <3>6. CASE IsWorker(at) /\ Metadata(at) = {} /\ NextNode({})
        BY <3>1, <3>6
      <3>7. QED  BY <1>4, <3>3, <3>4, <3>5, <3>6 DEF Look
    <2>2. /\ targets' = targets \cup found /\ at' = at + 1
          /\ UNCHANGED <<pc, calls, nodes, result, remaining, retry, pending,
                         inGroup, seen>>
      BY <2>1 DEF NextNode, callVars, cloudVars
    <2>3. TypeOK'
      BY <2>1, <2>2 DEF TypeOK
    <2>4. Covered(at)
      BY <2>1 DEF CallInv
    <2>5. \A i \in 1..Len(nodes) :
             /\ IsWorker(i)' = IsWorker(i) /\ Metadata(i)' = Metadata(i)
      BY <2>2 DEF IsWorker, Metadata
    <2>6. (\A t \in targets : /\ t[1] \in 1..Len(nodes) /\ IsWorker(t[1])
                              /\ t[2] = "twin" => nodes[t[1]].twin)'
      BY <2>1, <2>2, <2>4, <2>5 DEF Covered
    <2>7. \A i \in 1..Len(nodes) :
             i < at + 1 /\ IsWorker(i) => Metadata(i) \subseteq targets'
      <3> SUFFICES ASSUME NEW i \in 1..Len(nodes), i < at + 1, IsWorker(i)
                   PROVE  Metadata(i) \subseteq targets'
        OBVIOUS
      <3>1. CASE i = at
        BY <2>1, <2>2, <3>1
      <3>2. CASE i # at
        <4>1. i < at
          BY <3>2 DEF TypeOK
        <4>2. QED  BY <2>2, <2>4, <4>1 DEF Covered
      <3>3. QED  BY <3>1, <3>2
    <2>8. Covered(at)'
      BY <2>2, <2>5, <2>6, <2>7 DEF Covered
    <2>9. CallInv'
      <3>1. at' <= Len(nodes') + 1
        BY <2>1, <2>2
      <3>2. QED  BY <2>1, <2>2, <2>8, <3>1 DEF CallInv, Sending
    <2>10. QED  BY <2>3, <2>9
  <1>5. CASE Looked
    <2>1. TypeOK'
      BY <1>5 DEF Looked, Return, cloudVars, TypeOK
    <2>2. targets # {} => Covered(Len(nodes) + 1)' /\ nodes # <<>>
      <3>1. Covered(at) /\ at > Len(nodes) /\ at \in Nat /\ Len(nodes) \in Nat
        BY <1>5 DEF Looked, CallInv, TypeOK
      <3>2. Covered(Len(nodes) + 1)
        BY <3>1 DEF Covered
      <3>3. Covered(Len(nodes) + 1)'
        BY <1>5, <3>2 DEF Looked, Covered, IsWorker, Metadata
      <3>4. targets # {} => nodes # <<>>
        BY <3>1 DEF Covered
      <3>5. QED  BY <3>3, <3>4
    <2>3. CallInv'
      BY <1>5, <2>2 DEF Looked, Return, cloudVars, CallInv, Sending
    <2>4. QED  BY <2>1, <2>3
  <1>6. CASE Begin
    <2>1. TypeOK'
      BY <1>6 DEF Begin, Return, cloudVars, TypeOK
    <2>2. Covered(Len(nodes) + 1)' /\ targets' # {} /\ nodes' # <<>>
      BY <1>6 DEF Begin, cloudVars, CallInv, Sending, Covered, IsWorker, Metadata
    <2>3. CallInv'
      BY <1>6, <2>2 DEF Begin, Return, cloudVars, CallInv, Sending, Settled
    <2>4. QED  BY <2>1, <2>3
  <1>7. CASE Add
    <2>1. pending' \subseteq Number
      BY <1>7 DEF Add, Accept, Real, TypeOK
    <2>2. Settled
      BY <1>7 DEF Add, CallInv
    <2>3. CASE NextTry(remaining)
      BY <1>7, <2>1, <2>2, <2>3, AfterTry DEF Add, TypeOK, Settled
    <2>4. CASE pc' = "verify" /\ UNCHANGED <<retry, result>>
      <3>1. TypeOK'
        BY <1>7, <2>1, <2>4 DEF Add, TypeOK
      <3>2. Covered(Len(nodes) + 1)' /\ targets' # {} /\ nodes' # <<>>
        BY <1>7 DEF Add, CallInv, Sending, Covered, IsWorker, Metadata
      <3>3. Settled'
        BY <1>7, <2>2 DEF Add, Settled
      <3>4. CallInv'
        BY <2>4, <3>2, <3>3 DEF CallInv, Sending
      <3>5. QED  BY <3>1, <3>4
    <2>5. QED  BY <1>7, <2>3, <2>4 DEF Add
  <1>8. CASE Verify
    <2>1. Settled
      BY <1>8 DEF Verify, CallInv
    <2>2. /\ remaining' \subseteq remaining /\ seen \subseteq seen'
          /\ seen' \subseteq targets
          /\ targets \ remaining' \subseteq seen' \cap inGroup
          /\ remaining' \cap seen' = {}
      BY <1>8, <2>1 DEF Verify, Settled, TypeOK
    <2>3. QED  BY <1>8, <2>2, AfterTry DEF Verify, cloudVars, TypeOK
  <1>9. CASE \E t \in pending : Register(t)
    <2>1. /\ inGroup \subseteq inGroup' /\ inGroup' \subseteq Number
          /\ pending' \subseteq Number
          /\ UNCHANGED <<pc, calls, nodes, at, targets, remaining, retry,
                         result, seen>>
      BY <1>9 DEF Register, callVars, TypeOK
    <2>2. TypeOK'
      BY <2>1 DEF TypeOK
    <2>3. /\ Settled => Settled'
          /\ Covered(at) => Covered(at)'
          /\ Covered(Len(nodes) + 1) => Covered(Len(nodes) + 1)'
      BY <2>1 DEF Settled, Covered, IsWorker, Metadata
    <2>4. CallInv'
      BY <2>1, <2>3 DEF CallInv, Sending
    <2>5. QED  BY <2>2, <2>4
  <1>10. QED
    BY <1>1, <1>2, <1>3, <1>4, <1>5, <1>6, <1>7, <1>8, <1>9 DEF Next, Worker

\* The cloud takes only numbers of servers.
Servers == \A t \in pending \cup inGroup : t[2] # "bogus"

LEMMA ServersHold == Spec => []Servers
  <1>1. Init => Servers
    BY DEF Init, Servers
  <1>2. Servers /\ [Next]_vars => Servers'
    <2> SUFFICES ASSUME Servers, [Next]_vars PROVE Servers'
      OBVIOUS
    <2>1. CASE UNCHANGED cloudVars
      BY <2>1 DEF Servers, cloudVars
    <2>2. CASE Add
      BY <2>2 DEF Add, Accept, Real, Servers
    <2>3. CASE \E t \in pending : Register(t)
      BY <2>3 DEF Register, Servers
    <2>4. QED
      BY <2>1, <2>2, <2>3
         DEF Next, Worker, Call, List, Looked, Begin, Verify, Look, NextNode,
             cloudVars, vars
  <1>3. QED  BY <1>1, <1>2, PTL DEF Spec

LEMMA TargetsHold == Spec => []TargetInv
  BY InitTargets, NextTargets, PTL DEF Spec

\* Types and ranges hold in every reachable state.
THEOREM TargetTypes == Spec => []TypeOK
  <1>1. TargetInv => TypeOK
    BY DEF TargetInv
  <1>2. QED  BY <1>1, TargetsHold, PTL

\* Whatever is refused, lost or late: a target that is given up on, or that a
\* call returning nil does not count as left over, was found in the group.
THEOREM NothingMissedSilently == Spec => []SettledWereSeen
  <1>1. TargetInv => SettledWereSeen
    BY DEF TargetInv, CallInv, Settled, SettledWereSeen
  <1>2. QED  BY <1>1, TargetsHold, PTL

\* What was found in the group is not sent again.
THEOREM NoTargetSentAgain == Spec => []NotSentAgain
  <1>1. TargetInv => NotSentAgain
    BY DEF TargetInv, CallInv, Settled, NotSentAgain
  <1>2. QED  BY <1>1, TargetsHold, PTL

\* A node that has to be skipped costs no other node its place.
THEOREM AllWorkersCovered == Spec => []WorkersCovered
  <1>1. TargetInv => WorkersCovered
    BY DEF TargetInv, TypeOK, CallInv, Covered, Sending, WorkersCovered
  <1>2. QED  BY <1>1, TargetsHold, PTL

\* A call that returns nil leaves a group that has the own server of a listed
\* worker, or of a server of another VPC that has such a worker's address;
\* unless the cluster has no nodes.
THEOREM NilServes == Spec => []NilMeansServed
  <1>1. ASSUME TargetInv, Servers, pc = "returned", result = "nil", nodes # <<>>
        PROVE  \E t \in targets \cap inGroup :
                  /\ IsWorker(t[1])
                  /\ t[2] = "own" \/ (t[2] = "twin" /\ nodes[t[1]].twin)
    <2>1. /\ remaining \subseteq targets /\ remaining # targets
          /\ targets \ remaining \subseteq inGroup
      BY <1>1 DEF TargetInv, TypeOK, CallInv, Settled
    <2>2. PICK t \in targets : t \in inGroup
      BY <2>1
    <2>3. IsWorker(t[1]) /\ (t[2] = "twin" => nodes[t[1]].twin)
      BY <1>1, <2>1, <2>2 DEF TargetInv, CallInv, Covered
    <2>4. t[2] \in {"own", "twin"}
      BY <1>1, <2>2 DEF TargetInv, TypeOK, Number, Servers
    <2>5. QED  BY <2>2, <2>3, <2>4
  <1>2. TargetInv /\ Servers => NilMeansServed
    BY <1>1 DEF NilMeansServed
  <1>3. QED  BY <1>2, TargetsHold, ServersHold, PTL

\* Where no server of another VPC has a listed node's address, a call that
\* returns nil leaves a group that has the own server of a listed worker.
THEOREM OwnServed ==
  Spec => [](/\ pc = "returned" /\ result = "nil" /\ nodes # <<>>
             /\ \A i \in 1..Len(nodes) : ~nodes[i].twin
             => \E i \in 1..Len(nodes) : IsWorker(i) /\ <<i, "own">> \in inGroup)
  <1>1. ASSUME TargetInv, NilMeansServed, pc = "returned", result = "nil",
               nodes # <<>>, \A i \in 1..Len(nodes) : ~nodes[i].twin
        PROVE  \E i \in 1..Len(nodes) : IsWorker(i) /\ <<i, "own">> \in inGroup
    <2>1. PICK t \in targets \cap inGroup :
             /\ IsWorker(t[1])
             /\ t[2] = "own" \/ (t[2] = "twin" /\ nodes[t[1]].twin)
      BY <1>1 DEF NilMeansServed
    <2>2. t[1] \in 1..Len(nodes)
      BY <1>1 DEF TargetInv, CallInv, Covered
    <2>3. t = <<t[1], "own">>
      BY <1>1, <2>1, <2>2 DEF TargetInv, TypeOK, Number
    <2>4. QED  BY <2>1, <2>2, <2>3
  <1>2. QED  BY <1>1, TargetsHold, NilServes, PTL

\* A step of a call that has its list of nodes leaves it fewer.
LEMMA WorkerNears ==
  ASSUME TargetInv, pc \notin {"returned", "list"}
  PROVE  /\ StepsLeft \in Nat
         /\ Worker => StepsLeft' \in 0..(StepsLeft - 1)
  <1>1. /\ Len(nodes) \in Nat /\ at \in Nat \ {0} /\ retry \in 0..2 /\ Tries = 3
        /\ pc \in {"look", "begin", "add", "verify"}
        /\ pc = "look" => at <= Len(nodes) + 1
    BY DEF TargetInv, TypeOK, CallInv, Tries
  <1>2. StepsLeft \in Nat
    BY <1>1 DEF StepsLeft
  <1> SUFFICES ASSUME Worker
               PROVE  StepsLeft' \in 0..(StepsLeft - 1)
    BY <1>2
  <1>3. ASSUME NEW left, NextTry(left), pc \in {"add", "verify"}
        PROVE  StepsLeft' \in 0..(StepsLeft - 1)
    <2>1. \/ pc' = "returned"
          \/ pc' = "add" /\ retry' = retry + 1 /\ retry < 2
      BY <1>1, <1>3 DEF NextTry, ReturnWith, Return
    <2>2. StepsLeft = IF pc = "add" THEN 2 * (3 - retry) ELSE 2 * (3 - retry) - 1
      BY <1>1, <1>3 DEF StepsLeft
    <2>3. CASE pc' = "returned"
      BY <1>1, <2>2, <2>3 DEF StepsLeft
    <2>4. CASE pc' = "add" /\ retry' = retry + 1 /\ retry < 2
      BY <1>1, <2>2, <2>4 DEF StepsLeft
    <2>5. QED  BY <2>1, <2>3, <2>4
  <1>4. CASE Look
    <2>1. \A found : NextNode(found) =>
             pc' = pc /\ at' = at + 1 /\ nodes' = nodes
      BY DEF NextNode, callVars
    <2>2. pc = "look" /\ at <= Len(nodes) /\ \E found : NextNode(found)
      BY <1>4 DEF Look
    <2>3. pc' = "look" /\ at' = at + 1 /\ nodes' = nodes
      BY <2>1, <2>2
    <2>4. QED  BY <1>1, <2>2, <2>3 DEF StepsLeft
  <1>5. CASE Looked
    BY <1>1, <1>5 DEF Looked, Return, StepsLeft
  <1>6. CASE Begin
    <2>1. pc = "begin" /\ pc' \in {"add", "returned"} /\ retry' = retry
      BY <1>6 DEF Begin, Return
    <2>2. QED  BY <1>1, <2>1 DEF StepsLeft
  <1>7. CASE Add
    <2>1. CASE pc' = "verify" /\ retry' = retry
      BY <1>1, <1>7, <2>1 DEF Add, StepsLeft
    <2>2. CASE NextTry(remaining)
      <3>1. pc = "add"
        BY <1>7 DEF Add
      <3>2. QED  BY <1>3, <2>2, <3>1
    <2>3. QED  BY <1>7, <2>1, <2>2 DEF Add
  <1>8. CASE Verify
    <2>1. pc = "verify" /\ NextTry(remaining')
      BY <1>8 DEF Verify
    <2>2. QED  BY <1>3, <2>1
  <1>9. ~List
    BY DEF List
  <1>10. QED
    BY <1>4, <1>5, <1>6, <1>7, <1>8, <1>9 DEF Worker

\* A call is over after eight steps and one for each node, whatever is refused,
\* lost or left again: each of its steps leaves it fewer, and only they count.
THEOREM CallsBounded == Spec => CallComesToEnd
  <1>1. TargetInv /\ [Next]_vars =>
          [pc \notin {"returned", "list"} =>
              /\ StepsLeft' \in 0..StepsLeft
              /\ Worker => StepsLeft' # StepsLeft]_vars
    <2> SUFFICES ASSUME TargetInv, [Next]_vars,
                        pc \notin {"returned", "list"}
                 PROVE  /\ StepsLeft' \in 0..StepsLeft
                        /\ Worker => StepsLeft' # StepsLeft
      OBVIOUS
    <2>1. CASE Worker
      <3>1. StepsLeft' \in 0..(StepsLeft - 1) /\ StepsLeft \in Nat
        BY <2>1, WorkerNears
      <3>2. QED  BY <3>1
    <2>2. CASE ~Worker
      <3>1. UNCHANGED <<pc, nodes, at, retry>>
        BY <2>2 DEF Next, Call, Register, callVars, vars
      <3>2. StepsLeft' = StepsLeft
        BY <3>1 DEF StepsLeft
      <3>3. QED  BY <2>2, <3>2, WorkerNears
    <2>3. QED  BY <2>1, <2>2
  <1>2. QED
    BY TargetsHold, <1>1, PTL DEF Spec, CallComesToEnd
=============================================================================
