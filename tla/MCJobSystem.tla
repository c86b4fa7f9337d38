---------------------------- MODULE MCJobSystem -----------------------------
(***************************************************************************)
(* Instances of JobSystem for TLC.                                         *)
(***************************************************************************)
EXTENDS JobProperties, TLC

CONSTANTS p, c  (* A parent job and its child. *)

NeedsNothing == [j \in Jobs |-> {}]
ChildNeedsParent == [j \in Jobs |-> IF j = c THEN {p} ELSE {}]

Symmetry == Permutations(Workers)
=============================================================================
