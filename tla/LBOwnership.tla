----------------------------- MODULE LBOwnership -----------------------------
(***************************************************************************)
(* What the life cycle of a Service and its load balancer amounts to, with *)
(* no cache, no worker and no cloud delays: who may make, name and remove  *)
(* the load balancer, and when the Service may go.                         *)
(*                                                                         *)
(* The controller leaves two gaps.  A load balancer nobody has named yet    *)
(* may stay behind when the Service goes (Release), and a Service applied  *)
(* anew may come to name one that is going (Adopt).                        *)
(***************************************************************************)
EXTENDS Resources

VARIABLES
    present,   \* the Service exists
    leaving,   \* its deletion has been asked for
    held,      \* it carries the finalizer
    named,     \* the load balancer it names
    running,   \* the load balancers nobody has asked to go
    renewed    \* it is not the first Service of its name

ownerVars == <<present, leaving, held, named, running, renewed>>

Init ==
    /\ present = TRUE /\ leaving = FALSE /\ held = FALSE
    /\ named = None /\ running = {} /\ renewed = FALSE

\* The user asks for deletion; only the finalizer keeps the Service.
Ask ==
    /\ present /\ ~leaving
    /\ leaving' = TRUE /\ present' = held
    /\ UNCHANGED <<held, named, running, renewed>>

Hold ==
    /\ present /\ ~leaving /\ ~held
    /\ held' = TRUE
    /\ UNCHANGED <<present, leaving, named, running, renewed>>

\* What the first Service of the name names stays; a later one may have to
\* replace what it adopted.
Unnamed == named = None \/ (renewed /\ named \notin running)

\* Only for a Service that is held and names none, and only one.
Make ==
    /\ present /\ held /\ Unnamed
    /\ running = {}
    /\ \E lb \in LBId : running' = {lb}
    /\ UNCHANGED <<present, leaving, held, named, renewed>>

Name ==
    /\ present /\ held /\ Unnamed
    /\ named' \in running
    /\ UNCHANGED <<present, leaving, held, running, renewed>>

\* A load balancer of an earlier Service, asked to go, still has the name.
Adopt ==
    /\ present /\ held /\ Unnamed
    /\ renewed /\ running = {}
    /\ named' \in LBId
    /\ UNCHANGED <<present, leaving, held, running, renewed>>

\* Only the one that is named, and only for deletion.
Remove ==
    /\ present /\ leaving /\ held
    /\ named \in running
    /\ running' = running \ {named}
    /\ UNCHANGED <<present, leaving, held, named, renewed>>

\* The Service goes once what it names is gone.
Release ==
    /\ present /\ leaving /\ held
    /\ named \notin running
    /\ held' = FALSE /\ present' = FALSE
    /\ UNCHANGED <<leaving, named, running, renewed>>

\* A Service of the same name is made, with no trace of the old one.
Renew ==
    /\ ~present
    /\ present' = TRUE /\ leaving' = FALSE /\ held' = FALSE
    /\ named' = None /\ renewed' = TRUE
    /\ UNCHANGED running

Next ==
    \/ Ask \/ Hold \/ Make \/ Name \/ Adopt \/ Remove \/ Release \/ Renew

Spec == Init /\ [][Next]_ownerVars
=============================================================================
