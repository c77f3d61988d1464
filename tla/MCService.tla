------------------------------ MODULE MCService ------------------------------
(***************************************************************************)
(* Instances of the Service reconciler for TLC: how often each kind of     *)
(* disturbance may strike.                                                 *)
(***************************************************************************)
EXTENDS ServiceProperties

Disturb(faults, crashes, touches, types, applies, removals) ==
    [d \in Disturbances |->
        CASE d = "fault" -> faults [] d = "crash" -> crashes
          [] d = "touch" -> touches [] d = "type" -> types
          [] d = "apply" -> applies [] d = "unannotate" -> removals]

Undisturbed == Disturb(0, 0, 0, 0, 0, 0)
Hostile     == Disturb(1, 1, 1, 0, 1, 0)
Unlucky     == Disturb(1, 1, 0, 0, 0, 2)
Retyped     == Disturb(0, 0, 0, 1, 0, 0)
RetypedOften == Disturb(0, 0, 0, 3, 1, 0)
Reapplied   == Disturb(0, 0, 0, 0, 1, 0)

\* A crash or a foreign write, each with all the rest, but not both.
CrashOrTouch == spent["crash"] + spent["touch"] <= 1

\* Every port's target group has a name of its own.
OwnNames == [p \in Ports |-> p]
=============================================================================
