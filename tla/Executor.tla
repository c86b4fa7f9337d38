------------------------------ MODULE Executor ------------------------------
(***************************************************************************)
(* The worker's claim and its executor goroutines (poller.go poll and      *)
(* executor.go run).  A slot is one unit of the executor's semaphore; the  *)
(* goroutine in it performs one SQL statement per step, and the worker may *)
(* crash or the deadline may pass between any two of them.                 *)
(*                                                                         *)
(* Every statement but releaseClaim runs under the job's context, armed    *)
(* when run() starts; once it has expired (left = 0) the statement fails   *)
(* and the code, which drops the result of db.Exec, carries on.            *)
(***************************************************************************)
EXTENDS JobTable

CONSTANT Concurrency  (* cfg.Concurrency: slots per worker. *)
ASSUME ConcurrencyAssumption == Concurrency \in Nat \ {0}

VARIABLE run  (* What each slot executes: see Run. *)

Slots == Workers \X (1..Concurrency)
Host(s) == s[1]

(* pc names the statement the goroutine performs next; attempt is the      *)
(* attempt_count the claim returned; left is the rest of the deadline.     *)
Pcs == {"idle", "submitted", "insert", "start", "release", "handler",
        "succeeded", "complete", "unblock", "failed", "settle", "bury"}
Run == [pc : Pcs, job : Jobs \cup {NULL}, attempt : 0..AttemptCap, left : 0..Timeout]
Idle == [pc |-> "idle", job |-> NULL, attempt |-> 0, left |-> 0]

RunInit == run = [s \in Slots |-> Idle]

Goto(s, pc) == run' = [run EXCEPT ![s].pc = pc]
Finish(s)   == run' = [run EXCEPT ![s] = Idle]

(* A statement of s on its job's row takes effect.                         *)
Lands(s) == run[s].left > 0 /\ Exists(run[s].job)

(***************************************************************************)
(* Claiming and starting.                                                  *)
(***************************************************************************)

(* One row of the claim statement, and its Submit.  A poll that claims n   *)
(* rows is n of these in a row; which candidates are first is not a matter *)
(* of any property here.                                                   *)
Claim(s, j) ==
  /\ run[s].pc = "idle"
  /\ Claimable(j)
  /\ status'    = Put(status, {j}, "claimed")
  /\ claimedBy' = Put(claimedBy, {j}, Host(s))
  /\ claimAge'  = Put(claimAge, {j}, 0)
  /\ run' = [run EXCEPT ![s] = [pc |-> "submitted", job |-> j,
                                attempt |-> attempt[j], left |-> 0]]
  /\ UNCHANGED <<attempt, wait, dlq, outcomes>>

(* run() begins: context.WithTimeout.                                      *)
Arm(s) ==
  /\ run[s].pc = "submitted"
  /\ run' = [run EXCEPT ![s].pc = "insert", ![s].left = Timeout]
  /\ UNCHANGED table

(* The INSERT INTO job_executions of startExecution.                       *)
InsertExecution(s) ==
  /\ run[s].pc = "insert"
  /\ Lands(s)
  /\ Goto(s, "start")
  /\ UNCHANGED table

(* It fails: deadline, foreign key, or UNIQUE (job_id, attempt_number)     *)
(* against another execution that is starting.                             *)
InsertRefused(s) ==
  /\ run[s].pc = "insert"
  /\ \/ ~Lands(s)
     \/ \E t \in Slots \ {s} : run[t].pc = "start" /\ run[t].job = run[s].job
  /\ Goto(s, "release")
  /\ UNCHANGED table

(* Variant: each release waits longer than the last, without a cap.      *)
ReleaseClaimUncapped(s) ==
  LET row == {j \in {run[s].job} : status[j] = "claimed"} IN
  /\ run[s].pc = "release"
  /\ status'    = Put(status, row, "queued")
  /\ claimedBy' = Put(claimedBy, row, NULL)
  /\ claimAge'  = Put(claimAge, row, NULL)
  /\ wait' = [j \in Jobs |-> IF j \in row THEN wait[j] + MaxDelay + 1 ELSE wait[j]]
  /\ Finish(s)
  /\ UNCHANGED <<attempt, dlq, outcomes>>

(* releaseClaim, under context.Background().                               *)
ReleaseClaim(s) ==
  LET row == {j \in {run[s].job} : status[j] = "claimed"} IN
  /\ run[s].pc = "release"
  /\ status'    = Put(status, row, "queued")
  /\ claimedBy' = Put(claimedBy, row, NULL)
  /\ claimAge'  = Put(claimAge, row, NULL)
  /\ \E d \in 1..MaxDelay : wait' = Put(wait, row, d)
  /\ Finish(s)
  /\ UNCHANGED <<attempt, dlq, outcomes>>

(* Variant: the start leaves the claim columns to the claim.             *)
MarkRunningUnstamped(s) ==
  LET j == run[s].job IN
  /\ run[s].pc = "start"
  /\ Lands(s)
  /\ status'  = Put(status, {j}, "running")
  /\ attempt' = Put(attempt, {j}, Bump(attempt[j]))
  /\ Goto(s, "handler")
  /\ UNCHANGED <<claimedBy, claimAge, wait, dlq, outcomes>>

(* Variant: the start does not count the attempt.                        *)
MarkRunningUncounted(s) ==
  LET j == run[s].job IN
  /\ run[s].pc = "start"
  /\ Lands(s)
  /\ status'    = Put(status, {j}, "running")
  /\ claimedBy' = Put(claimedBy, {j}, Host(s))
  /\ claimAge'  = Put(claimAge, {j}, 0)
  /\ Goto(s, "handler")
  /\ UNCHANGED <<attempt, wait, dlq, outcomes>>

(* The UPDATE of startExecution, which has no guard but the id.            *)
MarkRunning(s) ==
  LET j == run[s].job IN
  /\ run[s].pc = "start"
  /\ Lands(s)
  /\ status'    = Put(status, {j}, "running")
  /\ attempt'   = Put(attempt, {j}, Bump(attempt[j]))
  /\ claimedBy' = Put(claimedBy, {j}, Host(s))
  /\ claimAge'  = Put(claimAge, {j}, 0)
  /\ Goto(s, "handler")
  /\ UNCHANGED <<wait, dlq, outcomes>>

(* The handler returns, panics or is missing; it may outlive its deadline. *)
HandlerReturns(s) ==
  /\ run[s].pc = "handler"
  /\ \E pc \in {"succeeded", "failed"} : Goto(s, pc)
  /\ UNCHANGED table

(***************************************************************************)
(* handleSuccess.                                                          *)
(***************************************************************************)
RecordCompleted(s) ==
  /\ run[s].pc = "succeeded"
  /\ Lands(s)
  /\ outcomes' = [outcomes EXCEPT ![run[s].job] = @ \cup {"completed"}]
  /\ Goto(s, "complete")
  /\ UNCHANGED <<status, attempt, claimedBy, claimAge, wait, dlq>>

(* Variant: the final UPDATE runs under a context without a deadline.    *)
CompleteInBackground(s) ==
  LET j == run[s].job IN
  /\ run[s].pc = "complete"
  /\ Exists(j)
  /\ status'    = Put(status, {j}, "completed")
  /\ claimedBy' = Put(claimedBy, {j}, NULL)
  /\ Goto(s, "unblock")
  /\ UNCHANGED <<attempt, claimAge, wait, dlq, outcomes>>

Complete(s) ==
  LET j == run[s].job IN
  /\ run[s].pc = "complete"
  /\ Lands(s)
  /\ \/ /\ j \notin CronJobs \cup BrokenCron
        /\ status' = Put(status, {j}, "completed")
        /\ UNCHANGED <<attempt, wait>>
     \/ /\ j \in CronJobs
        /\ status'  = Put(status, {j}, "scheduled")
        /\ attempt' = Put(attempt, {j}, 0)
        /\ \E d \in 1..MaxDelay : wait' = Put(wait, {j}, d)
     \/ /\ j \in BrokenCron
        /\ status' = Put(status, {j}, "failed")
        /\ UNCHANGED <<attempt, wait>>
  /\ claimedBy' = Put(claimedBy, {j}, NULL)
  /\ Goto(s, "unblock")
  /\ UNCHANGED <<claimAge, dlq, outcomes>>

(* unblockDependents: the blocked children of the job, parents all done.   *)
UnblockDependents(s) ==
  LET row == {c \in Jobs : /\ status[c] = "blocked"
                           /\ run[s].job \in Parents(c)
                           /\ Unmet(c) = {}} IN
  /\ run[s].pc = "unblock"
  /\ run[s].left > 0
  /\ status' = Put(status, row, "queued")
  /\ wait'   = Put(wait, row, 0)
  /\ Finish(s)
  /\ UNCHANGED <<attempt, claimedBy, claimAge, dlq, outcomes>>

(***************************************************************************)
(* handleFailure: the attempt it counts is the one the claim returned.     *)
(***************************************************************************)
Exhausted(s) == run[s].attempt + 1 >= MaxAttempts

RecordFailed(s) ==
  /\ run[s].pc = "failed"
  /\ Lands(s)
  /\ outcomes' = [outcomes EXCEPT ![run[s].job] = @ \cup {"failed"}]
  /\ Goto(s, "settle")
  /\ UNCHANGED <<status, attempt, claimedBy, claimAge, wait, dlq>>

(* Variant: the same slip for the last failure.                          *)
MarkDeadInBackground(s) ==
  LET j == run[s].job IN
  /\ run[s].pc = "settle"
  /\ Exists(j)
  /\ Exhausted(s)
  /\ status'    = Put(status, {j}, "dead")
  /\ claimedBy' = Put(claimedBy, {j}, NULL)
  /\ Goto(s, "bury")
  /\ UNCHANGED <<attempt, claimAge, wait, dlq, outcomes>>

MarkDead(s) ==
  LET j == run[s].job IN
  /\ run[s].pc = "settle"
  /\ Lands(s)
  /\ Exhausted(s)
  /\ status'    = Put(status, {j}, "dead")
  /\ claimedBy' = Put(claimedBy, {j}, NULL)
  /\ Goto(s, "bury")
  /\ UNCHANGED <<attempt, claimAge, wait, dlq, outcomes>>

Requeue(s) ==
  LET j == run[s].job IN
  /\ run[s].pc = "settle"
  /\ Lands(s)
  /\ ~Exhausted(s)
  /\ status'    = Put(status, {j}, "queued")
  /\ claimedBy' = Put(claimedBy, {j}, NULL)
  /\ \E d \in 0..MaxDelay : wait' = Put(wait, {j}, d)
  /\ Finish(s)
  /\ UNCHANGED <<attempt, claimAge, dlq, outcomes>>

(* INSERT INTO dead_letter_queue ... ON CONFLICT (job_id) DO UPDATE.       *)
Bury(s) ==
  /\ run[s].pc = "bury"
  /\ Lands(s)
  /\ dlq' = Put(dlq, {run[s].job}, "open")
  /\ Finish(s)
  /\ UNCHANGED <<status, attempt, claimedBy, claimAge, wait, outcomes>>

(***************************************************************************)
(* What a statement that does not take effect leads to.                    *)
(***************************************************************************)
CarryOn(s) ==
  /\ \/ run[s].pc = "start"     /\ Goto(s, "handler")
     \/ run[s].pc = "succeeded" /\ Goto(s, "complete")
     \/ run[s].pc = "complete"  /\ Goto(s, "unblock")
     \/ run[s].pc = "failed"    /\ Goto(s, "settle")
     \/ run[s].pc = "settle"    /\ Exhausted(s) /\ Goto(s, "bury")
     \/ run[s].pc = "settle"    /\ ~Exhausted(s) /\ Finish(s)
     \/ run[s].pc \in {"unblock", "bury"} /\ Finish(s)
  /\ UNCHANGED table

(* The deadline has passed, or the row is gone.                            *)
StatementLost(s) == ~Lands(s) /\ CarryOn(s)

(* The database fails a statement of a live context: the claimed row is    *)
(* not scanned, the INSERT or the release fails, or an UPDATE is dropped.  *)
DbError(s) ==
  \/ Lands(s) /\ CarryOn(s)
  \/ run[s].pc = "insert" /\ Lands(s) /\ Goto(s, "release") /\ UNCHANGED table
  \/ run[s].pc \in {"submitted", "release"} /\ Finish(s) /\ UNCHANGED table

(* The process dies, or Drain gives up on it at shutdown.                  *)
Crash(w) ==
  /\ \E s \in Slots : Host(s) = w /\ run[s].pc # "idle"
  /\ run' = [s \in Slots |-> IF Host(s) = w THEN Idle ELSE run[s]]
  /\ UNCHANGED table

(* One tick of every armed deadline.                                       *)
Countdown ==
  run' = [s \in Slots |-> IF run[s].left = 0 THEN run[s]
                          ELSE [run[s] EXCEPT !.left = @ - 1]]

RunTypeOK == run \in [Slots -> Run]
=============================================================================
