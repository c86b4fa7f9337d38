------------------------------ MODULE MCFleet -------------------------------
(* One job with two attempts; each shard has another first choice among    *)
(* the members.                                                            *)
EXTENDS Fleet, TLC

NeedsNothing == [j \in Jobs |-> {}]

Scores ==
  [s \in Shards |-> [m \in Members |-> IF m = s THEN 10 ELSE m]]

Symmetry == Permutations(Workers)
=============================================================================
