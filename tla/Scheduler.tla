----------------------------- MODULE Scheduler ------------------------------
(***************************************************************************)
(* The statements of the scheduler's sweep (poller.go sweep).  Guard runs  *)
(* the sweep on one worker or, without Redis, on all of them, so each      *)
(* statement may happen at any moment, next to any step of anyone else.    *)
(*                                                                         *)
(* scheduleCronJobs selects completed or scheduled cron jobs whose         *)
(* next_run_at is NULL.  No statement of the system writes such a row      *)
(* (schedule() and handleSuccess set next_run_at with the status), so it   *)
(* never updates one and has no action here.                               *)
(***************************************************************************)
EXTENDS JobTable

(* Variant: a due job is promoted only once its dependencies are met.    *)
PromoteReadyJobs ==
  LET due == {j \in Jobs : status[j] = "scheduled" /\ wait[j] = 0 /\ Unmet(j) = {}} IN
  /\ due # {}
  /\ status' = Put(status, due, "queued")
  /\ UNCHANGED <<attempt, claimedBy, claimAge, wait, dlq, outcomes>>

PromoteDueJobs ==
  LET due == {j \in Jobs : status[j] = "scheduled" /\ wait[j] = 0} IN
  /\ due # {}
  /\ status' = Put(status, due, "queued")
  /\ UNCHANGED <<attempt, claimedBy, claimAge, wait, dlq, outcomes>>

(* Variant: an inner join, which loses jobs whose parents are purged.    *)
UnblockJoinedJobs ==
  LET ready == {j \in Jobs : status[j] = "blocked" /\ Parents(j) # {} /\ Unmet(j) = {}} IN
  /\ ready # {}
  /\ status' = Put(status, ready, "queued")
  /\ wait'   = Put(wait, ready, 0)
  /\ UNCHANGED <<attempt, claimedBy, claimAge, dlq, outcomes>>

UnblockSatisfiedJobs ==
  LET ready == {j \in Jobs : status[j] = "blocked" /\ Unmet(j) = {}} IN
  /\ ready # {}
  /\ status' = Put(status, ready, "queued")
  /\ wait'   = Put(wait, ready, 0)
  /\ UNCHANGED <<attempt, claimedBy, claimAge, dlq, outcomes>>

(* Variant: only dead parents doom a job, cancelled ones do not.         *)
CancelBehindDead ==
  LET doomed == {j \in Jobs : /\ status[j] = "blocked"
                              /\ \E p \in Parents(j) : status[p] = "dead"} IN
  /\ doomed # {}
  /\ status' = Put(status, doomed, "cancelled")
  /\ UNCHANGED <<attempt, claimedBy, claimAge, wait, dlq, outcomes>>

CancelUnsatisfiableJobs ==
  LET doomed == {j \in Jobs : status[j] = "blocked" /\ Doomed(j)} IN
  /\ doomed # {}
  /\ status' = Put(status, doomed, "cancelled")
  /\ UNCHANGED <<attempt, claimedBy, claimAge, wait, dlq, outcomes>>

(* Variant: only running jobs are reclaimed.                             *)
ReclaimRunningJobs ==
  LET stuck == {j \in Jobs : Overdue(j) /\ status[j] = "running"} IN
  /\ stuck # {}
  /\ status'    = Put(status, stuck, "queued")
  /\ claimedBy' = Put(claimedBy, stuck, NULL)
  /\ claimAge'  = Put(claimAge, stuck, NULL)
  /\ wait'      = Put(wait, stuck, 0)
  /\ UNCHANGED <<attempt, dlq, outcomes>>

ReclaimStuckJobs ==
  LET stuck == {j \in Jobs : Overdue(j)} IN
  /\ stuck # {}
  /\ status'    = Put(status, stuck, "queued")
  /\ claimedBy' = Put(claimedBy, stuck, NULL)
  /\ claimAge'  = Put(claimAge, stuck, NULL)
  /\ wait'      = Put(wait, stuck, 0)
  /\ UNCHANGED <<attempt, dlq, outcomes>>

Sweep == \/ PromoteDueJobs
         \/ UnblockSatisfiedJobs
         \/ CancelUnsatisfiableJobs
         \/ ReclaimStuckJobs
=============================================================================
