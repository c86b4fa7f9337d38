------------------------------- MODULE Fleet --------------------------------
(***************************************************************************)
(* The fleet of workers: the jobs they share through the database, and     *)
(* what they agree on through Redis.  Neither reads what the other writes: *)
(* in JobSystem any worker sweeps and polls at any moment, whoever holds   *)
(* the lock or a shard by Coordination.  They are explored one at a time.  *)
(***************************************************************************)
EXTENDS JobProperties, Coordination

VARIABLE store

fleet == <<store, vars, coordination>>

FleetInit ==
  /\ Init /\ CoordinationInit /\ store \in {"database", "redis"}
  /\ store = "database" => part = "lock"

FleetNext ==
  \/ store = "database" /\ SteadyNext /\ UNCHANGED <<store, coordination>>
  \/ store = "redis" /\ CoordinationNext /\ UNCHANGED <<store, vars>>

FleetSpec == FleetInit /\ [][FleetNext]_fleet
=============================================================================
