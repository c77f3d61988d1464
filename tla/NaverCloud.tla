----------------------------- MODULE NaverCloud -----------------------------
(***************************************************************************)
(* Naver Cloud's load balancer API as the controller uses it (external).   *)
(*                                                                         *)
(*  - creating something is atomic, and its name is unique while it lives: *)
(*    a second creation under the name is refused (service_controller.go   *)
(*    looks the holder up by name after such an error);                    *)
(*  - a new load balancer is INIT for a while before it is RUN, and a      *)
(*    deleted one is TERMINATING, and listed, for a while before it is     *)
(*    GONE with its listeners;                                             *)
(*  - a target group a listener points to cannot be deleted (1200059).     *)
(*                                                                         *)
(* The load balancer of the Service has one name, and each of its ports    *)
(* has one for its target group (ResourceNames says how they are made).    *)
(***************************************************************************)
EXTENDS Resources

CONSTANT TGName   \* the target group name of each port

ASSUME TGNameAssumption == DOMAIN TGName = Ports

VARIABLES
    lbStatus,   \* status of each load balancer id
    tgPort,     \* the port each target group id was made for, 0 if unmade
    tgLive,     \* the target groups that exist
    listeners   \* listeners, each of a load balancer, to a target group

cloudVars == <<lbStatus, tgPort, tgLive, listeners>>

Status == {"UNMADE", "INIT", "RUN", "TERMINATING", "GONE"}
Listener == [lb : LBId, port : Ports, tg : TGId]

CloudTypeOK ==
    /\ lbStatus \in [LBId -> Status]
    /\ tgPort \in [TGId -> Ports \cup {0}]
    /\ tgLive \subseteq {tg \in TGId : tgPort[tg] # 0}
    /\ listeners \subseteq Listener

CloudInit ==
    /\ lbStatus = [lb \in LBId |-> "UNMADE"]
    /\ tgPort = [tg \in TGId |-> 0]
    /\ tgLive = {}
    /\ listeners = {}

\* A load balancer nobody has asked to delete.
Alive(lb) == lbStatus[lb] \in {"INIT", "RUN"}

\* A load balancer the list calls return: it holds the name.
Listed(lb) == lbStatus[lb] \in {"INIT", "RUN", "TERMINATING"}

TGInUse(tg) == \E l \in listeners : l.tg = tg
Served(lb, port) == \E l \in listeners : l.lb = lb /\ l.port = port
-----------------------------------------------------------------------------
\* CreateLoadBalancerInstance succeeds with the next free number.
CreateLB(lb) ==
    /\ \A other \in LBId : ~Listed(other)
    /\ lbStatus[lb] = "UNMADE"
    /\ \A other \in LBId : other < lb => lbStatus[other] # "UNMADE"
    /\ lbStatus' = [lbStatus EXCEPT ![lb] = "INIT"]
    /\ UNCHANGED <<tgPort, tgLive, listeners>>

\* DeleteLoadBalancerInstances is accepted.  Deleting what is already being
\* deleted changes nothing.
DeleteLB(lb) ==
    /\ lbStatus' = IF Alive(lb) THEN [lbStatus EXCEPT ![lb] = "TERMINATING"]
                                ELSE lbStatus
    /\ UNCHANGED <<tgPort, tgLive, listeners>>

\* The target group holds the name meant for the port.
Holds(tg, port) == TGName[tgPort[tg]] = TGName[port]

\* CreateTargetGroup succeeds with the next free number.
CreateTG(tg, port) ==
    /\ \A other \in tgLive : ~Holds(other, port)
    /\ tgPort[tg] = 0
    /\ \A other \in TGId : other < tg => tgPort[other] # 0
    /\ tgPort' = [tgPort EXCEPT ![tg] = port]
    /\ tgLive' = tgLive \cup {tg}
    /\ UNCHANGED <<lbStatus, listeners>>

\* DeleteTargetGroups succeeds.
DeleteTG(tg) ==
    /\ ~TGInUse(tg)
    /\ tgLive' = tgLive \ {tg}
    /\ UNCHANGED <<lbStatus, tgPort, listeners>>

\* CreateLoadBalancerListener succeeds.
CreateListener(lb, port, tg) ==
    /\ lbStatus[lb] = "RUN" /\ ~Served(lb, port)
    /\ tg \in tgLive
    /\ listeners' = listeners \cup {[lb |-> lb, port |-> port, tg |-> tg]}
    /\ UNCHANGED <<lbStatus, tgPort, tgLive>>

\* The cloud finishes building a load balancer.
FinishBuild(lb) ==
    /\ lbStatus[lb] = "INIT"
    /\ lbStatus' = [lbStatus EXCEPT ![lb] = "RUN"]
    /\ UNCHANGED <<tgPort, tgLive, listeners>>

\* The cloud finishes deleting a load balancer, listeners included.
FinishDelete(lb) ==
    /\ lbStatus[lb] = "TERMINATING"
    /\ lbStatus' = [lbStatus EXCEPT ![lb] = "GONE"]
    /\ listeners' = {l \in listeners : l.lb # lb}
    /\ UNCHANGED <<tgPort, tgLive>>
=============================================================================
