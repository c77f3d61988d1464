------------------------------ MODULE Resources ------------------------------
(***************************************************************************)
(* The identities shared by the Kubernetes side and the cloud side of the  *)
(* controller: the ports of the one Service under study, and the instance  *)
(* numbers Naver Cloud gives to load balancers and target groups.  An      *)
(* instance number is what the controller writes into the annotations      *)
(* naver.k-paas.org/lb-id and naver.k-paas.org/target-groups.              *)
(***************************************************************************)
EXTENDS Integers

CONSTANTS
    NumPorts,   \* length of spec.ports
    MaxLBs,     \* load balancers the account may ever create (bound: quota)
    MaxTGs      \* target groups the account may ever create (bound: quota)

\* A Service of type LoadBalancer has at least one port (API validation).
ASSUME NumPortsAssumption == NumPorts \in Nat \ {0}
ASSUME QuotaAssumption == MaxLBs \in Nat /\ MaxTGs \in Nat

Ports == 1..NumPorts
LBId  == 1..MaxLBs
TGId  == 1..MaxTGs

\* An absent annotation (the controller never writes an empty one).
None == 0
=============================================================================
