------------------------------ MODULE JobTable ------------------------------
(***************************************************************************)
(* The rows the API and the workers share: `jobs`, `job_dependencies`,     *)
(* `dead_letter_queue` and the outcomes recorded in `job_executions`       *)
(* (db/migrations/001, 003, 004).  Every action of the modules that extend *)
(* this one is one SQL statement, or one transaction, on these rows.       *)
(*                                                                         *)
(* Time is relative.  claimAge is now() - claimed_at, wait is              *)
(* max(0, run_at - now()); both are in ticks and move with Elapse.         *)
(***************************************************************************)
EXTENDS Naturals

CONSTANTS
  Jobs,         (* Job ids (uuids, or the idempotency keys standing for them). *)
  Workers,      (* Worker ids.                                                 *)
  Needs,        (* depends_on of each job's create request.                    *)
  CronJobs,     (* Jobs created with a cron expression that parses ...         *)
  BrokenCron,   (* ... and jobs whose cron expression does not parse.          *)
  MaxAttempts,  (* max_attempts.                                               *)
  AttemptCap,   (* Bound: attempt_count saturates here.                        *)
  Timeout,      (* timeout_secs, in ticks.                                     *)
  Grace,        (* reclaimGracePeriod, in ticks.                               *)
  MaxDelay,     (* Bound: the longest run_at delay, in ticks.                  *)
  NULL

ASSUME JobsAssumption == /\ Needs \in [Jobs -> SUBSET Jobs]
                         /\ CronJobs \subseteq Jobs
                         /\ BrokenCron \subseteq Jobs
                         /\ CronJobs \cap BrokenCron = {}
ASSUME LimitsAssumption == /\ MaxAttempts \in Nat \ {0}
                           /\ AttemptCap \in Nat /\ AttemptCap >= MaxAttempts
                           /\ Timeout \in Nat \ {0}
                           /\ Grace \in Nat
                           /\ MaxDelay \in Nat \ {0}
ASSUME NullAssumption == NULL \notin Nat /\ NULL \notin Workers /\ NULL \notin Jobs

VARIABLES
  status,     (* jobs.status; "absent" before the INSERT, "purged" after the DELETE. *)
  attempt,    (* jobs.attempt_count.                                                *)
  claimedBy,  (* jobs.claimed_by.                                                   *)
  claimAge,   (* Age of jobs.claimed_at, NULL if the column is.                     *)
  wait,       (* Time until jobs.run_at.                                            *)
  dlq,        (* The job's dead_letter_queue row (job_id is UNIQUE).                *)
  outcomes    (* Which outcomes its job_executions rows record.                     *)

table == <<status, attempt, claimedBy, claimAge, wait, dlq, outcomes>>

Stored == {"scheduled", "blocked", "queued", "claimed", "running",
           "completed", "failed", "dead", "cancelled"}
Statuses == Stored \cup {"absent", "purged"}

(* Beyond this age a claim is overdue whatever its status.                 *)
AgeCap == Timeout + Grace + 1

Exists(j) == status[j] \in Stored

(* SET col = v ... WHERE id IN S.                                          *)
Put(col, S, v) == [j \in Jobs |-> IF j \in S THEN v ELSE col[j]]

(* The dependency edges of j join the parent rows: purging either end      *)
(* deletes the edge (ON DELETE CASCADE), so an edge is in the table        *)
(* exactly while both jobs are.                                            *)
Parents(j) == {p \in Needs[j] : Exists(p)}
Unmet(j)   == {p \in Parents(j) : status[p] # "completed"}
Doomed(j)  == \E p \in Parents(j) : status[p] \in {"dead", "cancelled"}

(* Variant: no NOT EXISTS over the dependencies.                         *)
ClaimableBlindly(j) == status[j] = "queued" /\ wait[j] = 0

(* The WHERE clause of claimSQL: paused and unowned queues are left to     *)
(* the topology, which only ever removes candidates.                       *)
Claimable(j) == status[j] = "queued" /\ wait[j] = 0 /\ Unmet(j) = {}

(* Variant: a claim is overdue when the grace period ends, not after it. *)
OverdueEarly(j) ==
  /\ claimAge[j] # NULL
  /\ \/ status[j] = "claimed" /\ claimAge[j] >= Grace
     \/ status[j] = "running" /\ claimAge[j] > Timeout + Grace

(* The WHERE clause of reclaimStuckJobs.                                   *)
Overdue(j) ==
  /\ claimAge[j] # NULL
  /\ \/ status[j] = "claimed" /\ claimAge[j] > Grace
     \/ status[j] = "running" /\ claimAge[j] > Timeout + Grace

Bump(n) == IF n < AttemptCap THEN n + 1 ELSE n

TableInit ==
  /\ status    = [j \in Jobs |-> "absent"]
  /\ attempt   = [j \in Jobs |-> 0]
  /\ claimedBy = [j \in Jobs |-> NULL]
  /\ claimAge  = [j \in Jobs |-> NULL]
  /\ wait      = [j \in Jobs |-> 0]
  /\ dlq       = [j \in Jobs |-> "none"]
  /\ outcomes  = [j \in Jobs |-> {}]

(* One tick of now().                                                      *)
Elapse ==
  /\ claimAge' = [j \in Jobs |-> IF claimAge[j] = NULL \/ claimAge[j] = AgeCap
                                 THEN claimAge[j] ELSE claimAge[j] + 1]
  /\ wait' = [j \in Jobs |-> IF wait[j] = 0 THEN 0 ELSE wait[j] - 1]
  /\ UNCHANGED <<status, attempt, claimedBy, dlq, outcomes>>

TableTypeOK ==
  /\ status    \in [Jobs -> Statuses]
  /\ attempt   \in [Jobs -> 0..AttemptCap]
  /\ claimedBy \in [Jobs -> Workers \cup {NULL}]
  /\ claimAge  \in [Jobs -> (0..AgeCap) \cup {NULL}]
  /\ wait      \in [Jobs -> 0..MaxDelay]
  /\ dlq       \in [Jobs -> {"none", "open", "resolved"}]
  /\ outcomes  \in [Jobs -> SUBSET {"completed", "failed"}]
=============================================================================
