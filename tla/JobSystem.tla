----------------------------- MODULE JobSystem ------------------------------
(***************************************************************************)
(* The workers, the scheduler's sweep and the API around the job table.    *)
(*                                                                         *)
(* Spec admits everything: stalled processes, failing statements, crashes  *)
(* and every API call.  SteadySpec is the same system where no process     *)
(* stalls for longer than the grace period between claiming a job and      *)
(* marking it running, the database answers, and nobody requeues from the  *)
(* dead-letter queue: the conditions under which the lease the code builds *)
(* from claimed_at and the job's deadline excludes a second writer.        *)
(***************************************************************************)
EXTENDS Executor, Scheduler, JobApi

vars == <<table, run, call>>

Init == TableInit /\ RunInit /\ CallInit

Starting(s) == run[s].pc \in {"submitted", "insert", "start", "release"}
(* The pcs at which a goroutine may still write its job's status.          *)
Outcome(s) == run[s].pc \in {"handler", "succeeded", "complete", "failed", "settle"}

Tick == Elapse /\ Countdown /\ UNCHANGED call

Prompt == \A s \in Slots :
            (Starting(s) /\ Exists(run[s].job) /\ claimAge[run[s].job] # NULL)
              => claimAge[run[s].job] < Grace

(* From the claim to the handler.                                          *)
Begin(s) ==
  \/ Arm(s)
  \/ InsertExecution(s)
  \/ InsertRefused(s)
  \/ ReleaseClaim(s)
  \/ MarkRunning(s)
  \/ StatementLost(s)

(* The handler and what is written of its outcome.                         *)
Conclude(s) ==
  \/ HandlerReturns(s)
  \/ RecordCompleted(s)
  \/ Complete(s)
  \/ UnblockDependents(s)
  \/ RecordFailed(s)
  \/ MarkDead(s)
  \/ Requeue(s)
  \/ Bury(s)

Execute(s) == (\E j \in Jobs : Claim(s, j)) \/ Begin(s) \/ Conclude(s)

WorkerStep ==
  /\ \/ \E s \in Slots : Execute(s)
     \/ \E w \in Workers : Crash(w)
  /\ UNCHANGED call

SweepStep == Sweep /\ UNCHANGED <<run, call>>

JobRequest ==
  /\ \/ \E c \in Callers : \/ \E B \in SUBSET Jobs : ReadDependencies(c, B)
                           \/ InsertJobs(c)
                           \/ \E j \in Jobs : RetryJob(c, j)
                           \/ ClearEntry(c)
                           \/ Abandon(c)
     \/ \E j \in Jobs : Cancel(j)
     \/ \E S \in SUBSET Jobs : Purge(S) \/ Discard(S)
  /\ UNCHANGED run

RequeueRequest ==
  /\ \/ \E c \in Callers : \/ \E j \in Jobs : ReadEntry(c, j)
                           \/ RequeueEntry(c)
     \/ \E S \in SUBSET Jobs : RetryAll(S)
  /\ UNCHANGED run

Fault == (\E s \in Slots : DbError(s)) /\ UNCHANGED call

SteadyNext == (Prompt /\ Tick) \/ WorkerStep \/ SweepStep \/ JobRequest
Next       == Tick \/ WorkerStep \/ SweepStep \/ JobRequest \/ RequeueRequest \/ Fault

SteadySpec == Init /\ [][SteadyNext]_vars
Spec       == Init /\ [][Next]_vars

(***************************************************************************)
(* Fairness.  The clock runs, and some worker runs the sweep every five    *)
(* seconds (elected, or every one of them without Redis) and executes each *)
(* of its statements.  In steady operation a goroutine that has a claim    *)
(* also gets as far as its handler, or its process is gone.  Nothing is    *)
(* assumed of claims, handlers, outcomes or requests.                      *)
(***************************************************************************)
SweepFairness ==
  /\ WF_vars(PromoteDueJobs /\ UNCHANGED <<run, call>>)
  /\ WF_vars(UnblockSatisfiedJobs /\ UNCHANGED <<run, call>>)
  /\ WF_vars(CancelUnsatisfiableJobs /\ UNCHANGED <<run, call>>)
  /\ WF_vars(ReclaimStuckJobs /\ UNCHANGED <<run, call>>)

FairSpec == Spec /\ WF_vars(Tick) /\ SweepFairness

SteadyFairSpec ==
  /\ SteadySpec
  /\ WF_vars(Prompt /\ Tick)
  /\ SweepFairness
  /\ \A s \in Slots : WF_vars(Begin(s) /\ UNCHANGED call)

TypeOK == TableTypeOK /\ RunTypeOK /\ CallTypeOK
=============================================================================
