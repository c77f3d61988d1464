------------------------------ MODULE MCTargets ------------------------------
(***************************************************************************)
(* Clusters for TLC: the kinds of node the lookup tells apart, and lists   *)
(* of up to three of them.                                                 *)
(***************************************************************************)
EXTENDS TargetRegistration

Plain == [master |-> FALSE, address |-> TRUE, provider |-> "absent",
          annotated |-> FALSE, twin |-> FALSE]
Kinds == {Plain,
          [Plain EXCEPT !.master = TRUE],
          [Plain EXCEPT !.address = FALSE],
          [Plain EXCEPT !.provider = "own"],
          [Plain EXCEPT !.annotated = TRUE],
          [Plain EXCEPT !.provider = "bare", !.annotated = TRUE],
          [Plain EXCEPT !.provider = "foreign"],
          [Plain EXCEPT !.twin = TRUE]}

Lists(kinds, sizes) == UNION {[1..n -> kinds] : n \in sizes}

AnyCluster == Lists(Kinds, 0..3)
=============================================================================
