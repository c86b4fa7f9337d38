--------------------------- MODULE JobTypeProofs ----------------------------
(***************************************************************************)
(* Type correctness of JobSystem, and what every step of every interleaving*)
(* preserves.                                                              *)
(***************************************************************************)
EXTENDS JobProperties, TLAPS

(* A statement of a goroutine.                                             *)
LEMMA ExecuteType ==
  ASSUME TypeOK, NEW s \in Slots, Execute(s), UNCHANGED call
  PROVE  TypeOK'
<1> USE JobsAssumption, LimitsAssumption, NullAssumption, ConcurrencyAssumption
    DEF TypeOK, TableTypeOK, RunTypeOK, CallTypeOK, table, Goto, Finish, Lands, Exists
<1> run[s] \in Run
  OBVIOUS
<1> Host(s) \in Workers
  BY DEF Slots, Host
<1> Idle \in Run
  BY DEF Idle, Run, Pcs
<1> 0 \in (0..AgeCap) \cup {NULL} /\ 0 \in 0..AttemptCap /\ 0 \in 0..MaxDelay
  BY DEF AgeCap
<1>1. ASSUME NEW j \in Jobs, Claim(s, j) PROVE TypeOK'
  <2>1. [pc |-> "submitted", job |-> j, attempt |-> attempt[j], left |-> 0] \in Run
    BY DEF Run, Pcs
  <2>2. run' \in [Slots -> Run]
    BY <1>1, <2>1 DEF Claim
  <2>3. TableTypeOK'
    BY <1>1 DEF Put, Claim, Statuses, Stored
  <2>4. QED
    BY <1>1, <2>2, <2>3
<1>2. CASE Arm(s)
  <2>1. Timeout \in 0..Timeout
    OBVIOUS
  <2>2. run' \in [Slots -> Run]
    BY <1>2, <2>1 DEF Arm, Run, Pcs
  <2>3. QED
    BY <1>2, <2>2 DEF Arm
<1>3. CASE InsertExecution(s)
  BY <1>3 DEF InsertExecution, Run, Pcs
<1>4. CASE InsertRefused(s)
  BY <1>4 DEF InsertRefused, Run, Pcs
<1>5. CASE ReleaseClaim(s)
  BY <1>5 DEF Put, ReleaseClaim, Statuses, Stored, AgeCap
<1>6. CASE MarkRunning(s)
  <2>1. run' \in [Slots -> Run]
    BY <1>6 DEF MarkRunning, Run, Pcs
  <2>2. attempt' \in [Jobs -> 0..AttemptCap]
    BY <1>6 DEF MarkRunning, Put, Bump
  <2>3. TableTypeOK'
    BY <1>6, <2>2 DEF MarkRunning, Put, Statuses, Stored
  <2>4. QED
    BY <1>6, <2>1, <2>3
<1>7. CASE StatementLost(s)
  BY <1>7 DEF StatementLost, CarryOn, Run, Pcs
<1>8. CASE HandlerReturns(s)
  BY <1>8 DEF HandlerReturns, Run, Pcs
<1>9. CASE RecordCompleted(s)
  BY <1>9 DEF RecordCompleted, Run, Pcs
<1>10. CASE Complete(s)
  <2>1. run' \in [Slots -> Run]
    BY <1>10 DEF Complete, Run, Pcs
  <2>2. status' \in [Jobs -> Statuses]
    BY <1>10 DEF Complete, Put, Statuses, Stored
  <2>3. attempt' \in [Jobs -> 0..AttemptCap] /\ wait' \in [Jobs -> 0..MaxDelay]
    BY <1>10 DEF Complete, Put
  <2>4. TableTypeOK'
    BY <1>10, <2>2, <2>3 DEF Complete, Put
  <2>5. QED
    BY <1>10, <2>1, <2>4
<1>11. CASE UnblockDependents(s)
  BY <1>11 DEF Put, UnblockDependents, Statuses, Stored
<1>12. CASE RecordFailed(s)
  BY <1>12 DEF RecordFailed, Run, Pcs
<1>13. CASE MarkDead(s)
  BY <1>13 DEF Put, MarkDead, Statuses, Stored, Run, Pcs
<1>14. CASE Requeue(s)
  BY <1>14 DEF Put, Requeue, Statuses, Stored
<1>15. CASE Bury(s)
  BY <1>15 DEF Put, Bury
<1>16. QED
  BY <1>1, <1>2, <1>3, <1>4, <1>5, <1>6, <1>7, <1>8, <1>9, <1>10, <1>11, <1>12,
     <1>13, <1>14, <1>15 DEF Execute, Begin, Conclude

(* A tick, a crash, a failing statement.                                   *)
LEMMA EnvironmentType ==
  ASSUME TypeOK,
         Tick \/ (\E w \in Workers : Crash(w) /\ UNCHANGED call) \/ Fault
  PROVE  TypeOK'
<1> USE LimitsAssumption, NullAssumption
    DEF TypeOK, TableTypeOK, RunTypeOK, CallTypeOK, table, Goto, Finish, Lands, Exists
<1> Idle \in Run
  BY DEF Idle, Run, Pcs
<1>1. CASE Tick
  <2>1. claimAge' \in [Jobs -> (0..AgeCap) \cup {NULL}] /\ wait' \in [Jobs -> 0..MaxDelay]
    BY <1>1 DEF Tick, Elapse, AgeCap
  <2>2. \A s \in Slots : run[s].left # 0 => [run[s] EXCEPT !.left = @ - 1] \in Run
    BY DEF Run
  <2>3. run' \in [Slots -> Run]
    BY <1>1, <2>2 DEF Tick, Countdown
  <2>4. QED
    BY <1>1, <2>1, <2>3 DEF Tick, Elapse
<1>2. ASSUME NEW w \in Workers, Crash(w), UNCHANGED call PROVE TypeOK'
  BY <1>2 DEF Crash
<1>3. ASSUME NEW s \in Slots, DbError(s), UNCHANGED call PROVE TypeOK'
  <2>1. \E pc \in Pcs : Goto(s, pc) \/ Finish(s)
    BY <1>3 DEF DbError, CarryOn, Pcs
  <2>2. run' \in [Slots -> Run]
    BY <2>1 DEF Run
  <2>3. UNCHANGED table
    BY <1>3 DEF DbError, CarryOn
  <2>4. QED
    BY <1>3, <2>2, <2>3
<1>4. CASE Fault
  BY <1>3, <1>4 DEF Fault
<1>5. CASE \E w \in Workers : Crash(w) /\ UNCHANGED call
  BY <1>2, <1>5
<1>6. QED
  BY ONLY <1>1, <1>4, <1>5,
     Tick \/ (\E w \in Workers : Crash(w) /\ UNCHANGED call) \/ Fault

(* A statement of the sweep.                                               *)
LEMMA SweepType ==
  ASSUME TypeOK, SweepStep
  PROVE  TypeOK'
<1> USE LimitsAssumption
    DEF TypeOK, TableTypeOK, RunTypeOK, CallTypeOK, Put, Statuses, Stored, SweepStep
<1>1. CASE PromoteDueJobs
  BY <1>1 DEF PromoteDueJobs
<1>2. CASE UnblockSatisfiedJobs
  BY <1>2 DEF UnblockSatisfiedJobs
<1>3. CASE CancelUnsatisfiableJobs
  BY <1>3 DEF CancelUnsatisfiableJobs
<1>4. CASE ReclaimStuckJobs
  BY <1>4 DEF ReclaimStuckJobs
<1>5. QED
  BY <1>1, <1>2, <1>3, <1>4 DEF Sweep

(* A request to the API.                                                   *)
LEMMA RequestType ==
  ASSUME TypeOK, JobRequest \/ RequeueRequest
  PROVE  TypeOK'
<1> USE LimitsAssumption
    DEF TypeOK, TableTypeOK, RunTypeOK, CallTypeOK, table, JobRequest, RequeueRequest, Reply
<1> NoCall \in Call
  BY DEF NoCall, Call
<1>1. ASSUME NEW r \in Callers, NEW op \in {"insert", "clear", "requeue"},
             NEW js \in SUBSET Jobs, NEW bl \in SUBSET Jobs, Hold(r, op, js, bl)
      PROVE  call' \in [Callers -> Call]
  <2>1. [op |-> op, jobs |-> js, blocked |-> bl] \in Call
    BY DEF Call
  <2>2. QED
    BY <1>1, <2>1 DEF Hold
<1>2. ASSUME NEW r \in Callers, NEW B \in SUBSET Jobs, ReadDependencies(r, B), UNCHANGED run
      PROVE  TypeOK'
  <2>1. \E bl \in SUBSET Jobs : Hold(r, "insert", B, bl)
    BY <1>2 DEF ReadDependencies
  <2>2. call' \in [Callers -> Call]
    BY <1>1, <2>1
  <2>3. QED
    BY <1>2, <2>2 DEF ReadDependencies
<1>3. ASSUME NEW r \in Callers, InsertJobs(r), UNCHANGED run PROVE TypeOK'
  BY <1>3 DEF InsertJobs, Put, Statuses, Stored
<1>4. ASSUME NEW r \in Callers, NEW j \in Jobs, RetryJob(r, j), UNCHANGED run PROVE TypeOK'
  <2>1. TableTypeOK'
    BY <1>4 DEF RetryJob, Put, Statuses, Stored
  <2>2. call' \in [Callers -> Call]
    BY <1>1, <1>4 DEF RetryJob
  <2>3. QED
    BY <1>4, <2>1, <2>2
<1>5. ASSUME NEW r \in Callers, ClearEntry(r), UNCHANGED run PROVE TypeOK'
  BY <1>5 DEF ClearEntry, Put
<1>6. ASSUME NEW r \in Callers, Abandon(r), UNCHANGED run PROVE TypeOK'
  BY <1>6 DEF Abandon
<1>7. ASSUME NEW j \in Jobs, Cancel(j), UNCHANGED run PROVE TypeOK'
  BY <1>7 DEF Cancel, Put, Statuses, Stored
<1>8. ASSUME NEW S \in SUBSET Jobs, Purge(S), UNCHANGED run PROVE TypeOK'
  BY <1>8 DEF Purge, Put, Statuses
<1>9. ASSUME NEW S \in SUBSET Jobs, Discard(S), UNCHANGED run PROVE TypeOK'
  BY <1>9 DEF Discard, Put
<1>10. ASSUME NEW r \in Callers, NEW j \in Jobs, ReadEntry(r, j), UNCHANGED run PROVE TypeOK'
  <2>1. Hold(r, "requeue", {j}, {})
    BY <1>10 DEF ReadEntry
  <2>2. {j} \in SUBSET Jobs /\ {} \in SUBSET Jobs
    OBVIOUS
  <2>3. call' \in [Callers -> Call]
    BY ONLY <1>1, <2>1, <2>2
  <2>4. QED
    BY <1>10, <2>3 DEF ReadEntry
<1>11. ASSUME NEW r \in Callers, RequeueEntry(r), UNCHANGED run PROVE TypeOK'
  BY <1>11 DEF RequeueEntry, Put, Statuses, Stored
<1>12. ASSUME NEW S \in SUBSET Jobs, RetryAll(S), UNCHANGED run PROVE TypeOK'
  BY <1>12 DEF RetryAll, Put, Statuses, Stored
<1>13. CASE JobRequest
  BY ONLY <1>2, <1>3, <1>4, <1>5, <1>6, <1>7, <1>8, <1>9, <1>13 DEF JobRequest
<1>14. CASE RequeueRequest
  BY ONLY <1>10, <1>11, <1>12, <1>14 DEF RequeueRequest
<1>15. QED
  BY ONLY <1>13, <1>14, JobRequest \/ RequeueRequest

(* Types hold in every initial state.                                      *)
LEMMA InitType ==
  ASSUME Init
  PROVE  TypeOK
BY LimitsAssumption
   DEF Init, TableInit, RunInit, CallInit, TypeOK, TableTypeOK, RunTypeOK, CallTypeOK,
       Statuses, Idle, Run, Pcs, NoCall, Call

(* Every step keeps them.                                                  *)
LEMMA StepType ==
  ASSUME TypeOK, [Next]_vars
  PROVE  TypeOK'
<1>1. CASE WorkerStep
  BY <1>1, ExecuteType, EnvironmentType DEF WorkerStep
<1>2. CASE UNCHANGED vars
  BY <1>2 DEF vars, table, TypeOK, TableTypeOK, RunTypeOK, CallTypeOK
<1>3. QED
  BY <1>1, <1>2, EnvironmentType, SweepType, RequestType DEF Next

(* Every column, goroutine and request keeps its type under every          *)
(* interleaving and fault.                                                 *)
THEOREM TypeCorrect == Spec => []TypeOK
<1>1. Init => TypeOK
  BY InitType
<1>2. TypeOK /\ [Next]_vars => TypeOK'
  BY StepType
<1>3. QED
  BY <1>1, <1>2, PTL DEF Spec

-----------------------------------------------------------------------------
(* Under every interleaving and fault the reclaim can find every claim:    *)
(* each statement that writes "claimed" or "running" stamps the row, and   *)
(* each one that clears a stamp also takes the row out of these statuses.  *)

(* The statements of a goroutine leave no claimed or running row           *)
(* unstamped.                                                              *)
LEMMA ExecuteStamped ==
  ASSUME TypeOK, ClaimIsStamped, NEW s \in Slots,
         (\E j \in Jobs : Claim(s, j)) \/ Begin(s) \/ Conclude(s) \/ DbError(s)
  PROVE  ClaimIsStamped'
<1> USE NullAssumption DEF ClaimIsStamped, Put, table
<1> s[1] \in Workers
  BY DEF Slots
<1>1. ASSUME NEW j \in Jobs, Claim(s, j) PROVE ClaimIsStamped'
  BY <1>1 DEF Claim, Host
<1>2. CASE Arm(s) \/ InsertExecution(s) \/ InsertRefused(s) \/ HandlerReturns(s)
           \/ RecordCompleted(s) \/ RecordFailed(s) \/ Bury(s)
  BY <1>2 DEF Arm, InsertExecution, InsertRefused, HandlerReturns, RecordCompleted,
              RecordFailed, Bury
<1>3. CASE StatementLost(s) \/ DbError(s)
  BY <1>3 DEF StatementLost, DbError, CarryOn
<1>4. CASE ReleaseClaim(s)
  BY <1>4 DEF ReleaseClaim
<1>5. CASE MarkRunning(s)
  BY <1>5 DEF MarkRunning, Host
<1>6. CASE Complete(s)
  BY <1>6 DEF Complete
<1>7. CASE UnblockDependents(s)
  BY <1>7 DEF UnblockDependents
<1>8. CASE MarkDead(s)
  BY <1>8 DEF MarkDead
<1>9. CASE Requeue(s)
  BY <1>9 DEF Requeue
<1>10. QED
  BY <1>1, <1>2, <1>3, <1>4, <1>5, <1>6, <1>7, <1>8, <1>9 DEF Begin, Conclude

(* Nor do those of the sweep.                                              *)
LEMMA SweepStamped ==
  ASSUME ClaimIsStamped, SweepStep
  PROVE  ClaimIsStamped'
BY DEF ClaimIsStamped, Put, SweepStep, Sweep, PromoteDueJobs, UnblockSatisfiedJobs,
       CancelUnsatisfiableJobs, ReclaimStuckJobs

(* Nor those of the API, the unguarded requeue included.                   *)
LEMMA RequestStamped ==
  ASSUME TypeOK, ClaimIsStamped, JobRequest \/ RequeueRequest
  PROVE  ClaimIsStamped'
<1> USE DEF ClaimIsStamped, Put, table
<1>1. ASSUME NEW x \in Callers,
             (\E B \in SUBSET Jobs : ReadDependencies(x, B)) \/ ClearEntry(x) \/ Abandon(x)
             \/ (\E j \in Jobs : ReadEntry(x, j))
      PROVE  ClaimIsStamped'
  BY <1>1 DEF ReadDependencies, ClearEntry, Abandon, ReadEntry
<1>2. ASSUME NEW x \in Callers, InsertJobs(x) PROVE ClaimIsStamped'
  BY <1>2 DEF InsertJobs
<1>3. ASSUME NEW x \in Callers, NEW j \in Jobs, RetryJob(x, j) PROVE ClaimIsStamped'
  BY <1>3 DEF RetryJob
<1>4. ASSUME NEW x \in Callers, RequeueEntry(x) PROVE ClaimIsStamped'
  BY <1>4 DEF RequeueEntry
<1>5. ASSUME NEW j \in Jobs, Cancel(j) PROVE ClaimIsStamped'
  BY <1>5 DEF Cancel
<1>6. ASSUME NEW S \in SUBSET Jobs, Purge(S) \/ Discard(S) \/ RetryAll(S)
      PROVE  ClaimIsStamped'
  BY <1>6 DEF Purge, Discard, RetryAll
<1>7. QED
  BY ONLY <1>1, <1>2, <1>3, <1>4, <1>5, <1>6, JobRequest \/ RequeueRequest
     DEF JobRequest, RequeueRequest

(* A claimed or running row always has claimed_at and claimed_by, whatever *)
(* crashes, is lost, or is written by a goroutine that lost its claim.     *)
THEOREM StampedAlways == Spec => []ClaimIsStamped
<1>1. Init => ClaimIsStamped
  BY DEF Init, TableInit, ClaimIsStamped
<1>2. TypeOK /\ ClaimIsStamped /\ [Next]_vars => ClaimIsStamped'
  <2> SUFFICES ASSUME TypeOK, ClaimIsStamped, [Next]_vars PROVE ClaimIsStamped'
    OBVIOUS
  <2>1. CASE Tick
    BY <2>1, NullAssumption DEF Tick, Elapse, ClaimIsStamped, TypeOK, TableTypeOK
  <2>2. CASE WorkerStep
    BY <2>2, ExecuteStamped DEF WorkerStep, Execute, Crash, ClaimIsStamped, table
  <2>3. CASE Fault
    BY <2>3, ExecuteStamped DEF Fault
  <2>4. CASE UNCHANGED vars
    BY <2>4 DEF vars, table, ClaimIsStamped
  <2>5. QED
    BY <2>1, <2>2, <2>3, <2>4, SweepStamped, RequestStamped DEF Next
<1>3. QED
  BY <1>1, <1>2, TypeCorrect, PTL DEF Spec
=============================================================================
