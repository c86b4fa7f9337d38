---------------------------- MODULE Coordination ----------------------------
(***************************************************************************)
(* What the workers of a project agree on through Redis: who sweeps, and   *)
(* who polls which shard.  The two share no state, the models of both let  *)
(* Redis and the workers fail at any moment, and they are explored one at  *)
(* a time.                                                                 *)
(***************************************************************************)
EXTENDS SchedulerLock, ShardOwnership

VARIABLE part

coordination == <<part, lockVars, shardVars>>

CoordinationInit == part \in {"lock", "shards"} /\ LockInit /\ ShardInit

CoordinationNext ==
  \/ part = "lock" /\ LockNext /\ UNCHANGED <<part, shardVars>>
  \/ part = "shards" /\ ShardNext /\ UNCHANGED <<part, lockVars>>

CoordinationSpec == CoordinationInit /\ [][CoordinationNext]_coordination
=============================================================================
