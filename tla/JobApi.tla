------------------------------- MODULE JobApi -------------------------------
(***************************************************************************)
(* The job and dead-letter handlers of the API (handler/job.go, dlq.go).   *)
(* A handler that reads first and writes later keeps what it read in its   *)
(* request; anything may happen in between, and the request may be         *)
(* abandoned (client gone, API crash) with only its first statement done.  *)
(***************************************************************************)
EXTENDS JobTable

CONSTANT Callers  (* Concurrent API requests. *)

VARIABLE call  (* What each request is about to write: see Call. *)

Call == [op : {"idle", "insert", "clear", "requeue"},
         jobs : SUBSET Jobs, blocked : SUBSET Jobs]
NoCall == [op |-> "idle", jobs |-> {}, blocked |-> {}]

CallInit == call = [c \in Callers |-> NoCall]

Reply(c) == call' = [call EXCEPT ![c] = NoCall]
Hold(c, op, jobs, blocked) ==
  /\ call[c] = NoCall
  /\ call' = [call EXCEPT ![c] = [op |-> op, jobs |-> jobs, blocked |-> blocked]]

(***************************************************************************)
(* Create (one job) and CreateBatch (B; dependencies inside B are refs).   *)
(***************************************************************************)
Outside(B) == UNION {Needs[j] : j \in B} \ B

(* validateDependencies: the job exists and may still complete.            *)
Satisfiable(p) == Exists(p) /\ status[p] \notin {"dead", "cancelled"}

(* What the request decides from dependencyStates, outside any transaction.*)
ReadDependencies(c, B) ==
  /\ B # {} /\ \A j \in B : status[j] = "absent"
  /\ \A p \in Outside(B) : Satisfiable(p)
  /\ Hold(c, "insert", B,
          {j \in B : \/ Needs[j] \cap B # {}
                     \/ \E p \in Needs[j] : status[p] # "completed"})
  /\ UNCHANGED table

(* The transaction: jobs whose key is taken are skipped, and the whole     *)
(* batch rolls back when one of the others depends on a skipped job, or on *)
(* a job that was purged since (foreign key).  Only an immediate job       *)
(* becomes blocked; one with a future scheduled_at stays scheduled.        *)
InsertJobs(c) ==
  LET fresh == {j \in call[c].jobs : status[j] = "absent"} IN
  /\ call[c].op = "insert"
  /\ \A j \in fresh : \A p \in Needs[j] :
       p \in fresh \/ (Exists(p) /\ p \notin call[c].jobs)
  /\ \E later \in SUBSET fresh :
       /\ status' = [j \in Jobs |-> IF j \notin fresh THEN status[j]
                                    ELSE IF j \in later THEN "scheduled"
                                    ELSE IF j \in call[c].blocked THEN "blocked"
                                    ELSE "queued"]
       /\ \E d \in 1..MaxDelay : wait' = Put(wait, later, d)
  /\ Reply(c)
  /\ UNCHANGED <<attempt, claimedBy, claimAge, dlq, outcomes>>

(***************************************************************************)
(* Cancel, Retry and Purge.                                                *)
(***************************************************************************)
Cancel(j) ==
  /\ status[j] \in {"queued", "scheduled", "blocked"}
  /\ status' = Put(status, {j}, "cancelled")
  /\ UNCHANGED <<attempt, claimedBy, claimAge, wait, dlq, outcomes, call>>

(* Variant: a completed job can be retried too.                          *)
RetryAnyJob(c, j) ==
  /\ status[j] \in {"failed", "dead", "cancelled", "completed"}
  /\ status'    = Put(status, {j}, IF Unmet(j) = {} THEN "queued" ELSE "blocked")
  /\ attempt'   = Put(attempt, {j}, 0)
  /\ claimedBy' = Put(claimedBy, {j}, NULL)
  /\ claimAge'  = Put(claimAge, {j}, NULL)
  /\ wait'      = Put(wait, {j}, 0)
  /\ Hold(c, "clear", {j}, {})
  /\ UNCHANGED <<dlq, outcomes>>

RetryJob(c, j) ==
  /\ status[j] \in {"failed", "dead", "cancelled"}
  /\ status'    = Put(status, {j}, IF Unmet(j) = {} THEN "queued" ELSE "blocked")
  /\ attempt'   = Put(attempt, {j}, 0)
  /\ claimedBy' = Put(claimedBy, {j}, NULL)
  /\ claimAge'  = Put(claimAge, {j}, NULL)
  /\ wait'      = Put(wait, {j}, 0)
  /\ Hold(c, "clear", {j}, {})
  /\ UNCHANGED <<dlq, outcomes>>

(* Retry's second statement, DELETE FROM dead_letter_queue.                *)
ClearEntry(c) ==
  /\ call[c].op = "clear"
  /\ dlq' = Put(dlq, call[c].jobs, "none")
  /\ Reply(c)
  /\ UNCHANGED <<status, attempt, claimedBy, claimAge, wait, outcomes>>

(* DELETE FROM jobs: one job (Purge), or those of a deleted queue, project *)
(* or organization; executions, entries and dependency edges cascade.      *)
Purge(S) ==
  /\ S # {} /\ \A j \in S : Exists(j)
  /\ status'    = Put(status, S, "purged")
  /\ attempt'   = Put(attempt, S, 0)
  /\ claimedBy' = Put(claimedBy, S, NULL)
  /\ claimAge'  = Put(claimAge, S, NULL)
  /\ wait'      = Put(wait, S, 0)
  /\ dlq'       = Put(dlq, S, "none")
  /\ outcomes'  = Put(outcomes, S, {})
  /\ UNCHANGED call

(***************************************************************************)
(* The dead-letter queue.                                                  *)
(***************************************************************************)

(* DLQHandler.Retry reads an unresolved entry; whether a live worker       *)
(* handles the type is left open.                                          *)
ReadEntry(c, j) ==
  /\ dlq[j] = "open"
  /\ Hold(c, "requeue", {j}, {})
  /\ UNCHANGED table

(* Its transaction, whose UPDATEs have no guard but the ids.               *)
RequeueEntry(c) ==
  LET row == {j \in call[c].jobs : Exists(j)} IN
  /\ call[c].op = "requeue"
  /\ status'    = Put(status, row, "queued")
  /\ attempt'   = Put(attempt, row, 0)
  /\ claimedBy' = Put(claimedBy, row, NULL)
  /\ claimAge'  = Put(claimAge, row, NULL)
  /\ wait'      = Put(wait, row, 0)
  /\ dlq' = Put(dlq, {j \in row : dlq[j] # "none"}, "resolved")
  /\ Reply(c)
  /\ UNCHANGED outcomes

(* RetryAll: one statement for the open entries S of handled types.        *)
RetryAll(S) ==
  /\ S # {} /\ \A j \in S : dlq[j] = "open"
  /\ status'    = Put(status, S, "queued")
  /\ attempt'   = Put(attempt, S, 0)
  /\ claimedBy' = Put(claimedBy, S, NULL)
  /\ wait'      = Put(wait, S, 0)
  /\ dlq'       = Put(dlq, S, "resolved")
  /\ UNCHANGED <<claimAge, outcomes, call>>

(* Discard of one entry, DiscardUnhandled of the open ones nobody handles. *)
Discard(S) ==
  /\ S # {} /\ \A j \in S : dlq[j] = "open"
  /\ dlq' = Put(dlq, S, "resolved")
  /\ UNCHANGED <<status, attempt, claimedBy, claimAge, wait, outcomes, call>>

(* A request is abandoned between two statements.                          *)
Abandon(c) ==
  /\ call[c] # NoCall
  /\ Reply(c)
  /\ UNCHANGED table

CallTypeOK == call \in [Callers -> Call]
=============================================================================
