--------------------------- MODULE JobProperties ----------------------------
(***************************************************************************)
(* What makes the job lifecycle correct.                                   *)
(***************************************************************************)
EXTENDS JobSystem

(***************************************************************************)
(* Safety of the lease, in steady operation.                               *)
(***************************************************************************)

(* A goroutine that can still change its job's status.                     *)
MayWrite(s) == Starting(s) \/ (Outcome(s) /\ run[s].left > 0)

(* No two goroutines can change the status of the same job: the reclaim of *)
(* a stuck job never overlaps with an attempt whose deadline is still      *)
(* running (reclaimStuckJobs against run's context).                       *)
OneWriter ==
  \A s, t \in Slots :
    (s # t /\ MayWrite(s) /\ MayWrite(t)) => run[s].job # run[t].job

(* The row says what the goroutine believes: whoever may write a job finds *)
(* it in the state it left it in, under its own worker's name, with the    *)
(* attempt_count its retry decision was computed from.                     *)
RowFollowsLease ==
  \A s \in Slots : (MayWrite(s) /\ Exists(run[s].job)) =>
    LET j == run[s].job IN
    /\ status[j] = IF Starting(s) THEN "claimed" ELSE "running"
    /\ claimedBy[j] = Host(s)
    /\ attempt[j] = IF Starting(s) THEN run[s].attempt ELSE Bump(run[s].attempt)

(* A job that a worker holds runs after its dependencies and stays so: no  *)
(* parent of a claimed or running job can lose its "completed" again.      *)
DependencyOrder ==
  \A j \in Jobs : status[j] \in {"claimed", "running"} => Unmet(j) = {}

(* A final status has its execution row: completed and dead jobs have an   *)
(* execution that recorded that outcome, although both statements share a  *)
(* deadline that may pass between them (handleSuccess, handleFailure).     *)
OutcomeRecorded ==
  \A j \in Jobs : /\ status[j] = "completed" => "completed" \in outcomes[j]
                  /\ status[j] = "dead" => "failed" \in outcomes[j]

(* What makes the lease inductive: a start finishes within the grace       *)
(* period of its claim, and the deadline of an attempt, armed before       *)
(* claimed_at was stamped, ends before the stamp is Timeout old.           *)
LeaseInv ==
  /\ OneWriter
  /\ RowFollowsLease
  /\ \A s \in Slots : LET j == run[s].job IN
       /\ run[s].pc # "idle" => j \in Jobs /\ status[j] # "absent"
       /\ (Starting(s) /\ Exists(j)) => claimAge[j] \in 0..Grace
       /\ (Outcome(s) /\ run[s].left > 0 /\ Exists(j)) =>
            claimAge[j] \in 0..Timeout /\ claimAge[j] + run[s].left <= Timeout

(* A job in the table, or once in it, has parents that were in it.         *)
ParentsKnown ==
  \A j \in Jobs : status[j] # "absent" => \A p \in Needs[j] : status[p] # "absent"

(* The outcome row precedes the outcome.                                   *)
OutcomeOrder ==
  \A s \in Slots : (run[s].left > 0 /\ Exists(run[s].job)) =>
    /\ run[s].pc = "complete" => "completed" \in outcomes[run[s].job]
    /\ run[s].pc = "settle" => "failed" \in outcomes[run[s].job]

SteadyInv == /\ LeaseInv
             /\ ParentsKnown /\ DependencyOrder
             /\ OutcomeOrder /\ OutcomeRecorded

(* The job table implements the documented state machine.                  *)
Contract == INSTANCE JobContract WITH state <- status
ContractSpec == Contract!Spec

(***************************************************************************)
(* Under every interleaving and fault.                                     *)
(***************************************************************************)

(* A claimed or running job can be found by the reclaim: its claimed_at is *)
(* set, whoever wrote the row last (startExecution, API retries, sweeps).  *)
ClaimIsStamped ==
  \A j \in Jobs : status[j] \in {"claimed", "running"} =>
                    claimAge[j] # NULL /\ claimedBy[j] # NULL

(***************************************************************************)
(* What the documentation says and the code does not do.                   *)
(***************************************************************************)

(* README.md and API.md: the dead_letter_queue row is written in the same  *)
(* transaction as "dead".  Here even less is asked: once no goroutine and  *)
(* no request is between two statements about it, a dead job has a row.    *)
DeadHasEntry ==
  \A j \in Jobs :
    \/ status[j] # "dead"
    \/ dlq[j] # "none"
    \/ \E s \in Slots : run[s].pc = "bury" /\ run[s].job = j
    \/ \E x \in Callers : j \in call[x].jobs

(* Tradeoffs.md: "never a double-run job".  Two attempts of one job, both  *)
(* within their deadlines, are never in their handlers together.           *)
NeverDoubleRun ==
  \A s, t \in Slots :
    (s # t /\ run[s].pc = "handler" /\ run[t].pc = "handler"
           /\ run[s].left > 0 /\ run[t].left > 0) => run[s].job # run[t].job

(* README.md: "failed --(attempts exhausted)--> dead".  A job is not       *)
(* started more often than max_attempts says.                              *)
AttemptsBounded == \A j \in Jobs : attempt[j] <= MaxAttempts

(* README.md: the scheduler cancels jobs whose upstream died permanently.  *)
(* A job does not wait for ever in the queue behind such a parent.         *)
QueuedNotDoomed == \A j \in Jobs : []<>~(status[j] = "queued" /\ Doomed(j))

(***************************************************************************)
(* Liveness: no row is stranded.                                           *)
(***************************************************************************)

(* Whatever happens to its worker, a job does not stay claimed or running  *)
(* for ever: reclaimStuckJobs finds it.                                    *)
ClaimsResolve ==
  \A j \in Jobs : status[j] \in {"claimed", "running"}
                     ~> status[j] \notin {"claimed", "running"}

(* A scheduled job whose time comes is promoted (unless it is cancelled or *)
(* purged first).                                                          *)
ScheduledPromoted == \A j \in Jobs : status[j] = "scheduled" ~> status[j] # "scheduled"

(* A blocked job whose dependencies are met does not stay blocked, even if *)
(* the goroutine that completed the last parent never reaches              *)
(* unblockDependents.                                                      *)
ReadyUnblocked == \A j \in Jobs : []<>~(status[j] = "blocked" /\ Unmet(j) = {})

(* A blocked job does not wait for ever behind a dead or cancelled parent. *)
BlockedNotDoomed == \A j \in Jobs : []<>~(status[j] = "blocked" /\ Doomed(j))
=============================================================================
