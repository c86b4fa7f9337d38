-------------------------- MODULE JobSteadyProofs ---------------------------
(***************************************************************************)
(* In steady operation SteadyInv is inductive, and the job table           *)
(* implements JobContract.  The argument: a goroutine that may still write *)
(* a job is alone in that and its row is "claimed" or "running" with a     *)
(* claim too young to be reclaimed; so every unguarded UPDATE finds the    *)
(* status it expects, every step is a move of the contract, and a move     *)
(* never undoes a completed parent.                                        *)
(***************************************************************************)
EXTENDS JobTypeProofs

(* SteadyInv, slot by slot and job by job.                                 *)
SlotInv(t) ==
  LET j == run[t].job IN
  /\ run[t].pc # "idle" => j \in Jobs /\ status[j] # "absent"
  /\ (Starting(t) /\ Exists(j)) =>
       /\ status[j] = "claimed" /\ claimedBy[j] = Host(t) /\ attempt[j] = run[t].attempt
       /\ claimAge[j] \in 0..Grace
  /\ (Outcome(t) /\ run[t].left > 0 /\ Exists(j)) =>
       /\ status[j] = "running" /\ claimedBy[j] = Host(t)
       /\ attempt[j] = Bump(run[t].attempt)
       /\ claimAge[j] \in 0..Timeout /\ claimAge[j] + run[t].left <= Timeout
       /\ run[t].pc = "complete" => "completed" \in outcomes[j]
       /\ run[t].pc = "settle" => "failed" \in outcomes[j]

SlotsInv == OneWriter /\ \A t \in Slots : SlotInv(t)

(* What the invariant consists of, for the steps that need one part.       *)
LEMMA SteadyParts ==
  SteadyInv <=> SlotsInv /\ ParentsKnown /\ DependencyOrder /\ OutcomeRecorded
<1> USE DEF SlotsInv, SteadyInv, LeaseInv, RowFollowsLease, OutcomeOrder, SlotInv, MayWrite
<1>1. ASSUME NEW t \in Slots PROVE ~(Starting(t) /\ Outcome(t))
  BY DEF Starting, Outcome
<1>2. ASSUME NEW t \in Slots PROVE run[t].pc \in {"complete", "settle"} => Outcome(t)
  BY DEF Outcome
<1>3. QED
  BY <1>1, <1>2

(* What the types say of a slot. *)
LEMMA RunFacts ==
  ASSUME TypeOK, NEW t \in Slots
  PROVE  /\ run[t] \in Run /\ run[t].left \in 0..Timeout
         /\ run[t].attempt \in 0..AttemptCap
         /\ \A j \in Jobs : claimAge[j] \in (0..AgeCap) \cup {NULL}
BY DEF TypeOK, RunTypeOK, Run, TableTypeOK

(* A slot whose record stays, and whose row stays while it may write it.   *)
LEMMA SlotFrame ==
  ASSUME TypeOK, NEW t \in Slots, SlotInv(t),
         run'[t] = run[t],
         \A j \in Jobs : status'[j] = "absent" => status[j] = "absent",
         (MayWrite(t) /\ Exists(run[t].job)') =>
            LET j == run[t].job IN
            /\ Exists(j)
            /\ status'[j] = status[j] /\ claimedBy'[j] = claimedBy[j]
            /\ claimAge'[j] = claimAge[j] /\ attempt'[j] = attempt[j]
            /\ outcomes[j] \subseteq outcomes'[j]
  PROVE  SlotInv(t)'
BY DEF SlotInv, MayWrite, Starting, Outcome, Bump

(* Only one slot moves, it stays with its job and gains no right to write. *)
LEMMA OneWriterFrame ==
  ASSUME OneWriter, NEW s \in Slots,
         \A t \in Slots \ {s} : run'[t] = run[t],
         MayWrite(s)' => (MayWrite(s) /\ run'[s].job = run[s].job)
  PROVE  OneWriter'
BY DEF OneWriter, MayWrite, Starting, Outcome

(***************************************************************************)
(* The slots, step by step.                                                *)
(***************************************************************************)
(* A step of slot s that writes no row but its own job's, while it may:    *)
(* the others keep what they have, and s has to be looked at alone.        *)
LEMMA OwnStep ==
  ASSUME TypeOK, SlotsInv, NEW s \in Slots,
         \A t \in Slots \ {s} : run'[t] = run[t],
         MayWrite(s)' => (MayWrite(s) /\ run'[s].job = run[s].job),
         \A j \in Jobs : status'[j] = "absent" => status[j] = "absent",
         \A j \in Jobs : (j # run[s].job \/ ~MayWrite(s)) =>
            /\ status'[j] = status[j] /\ claimedBy'[j] = claimedBy[j]
            /\ claimAge'[j] = claimAge[j] /\ attempt'[j] = attempt[j]
            /\ outcomes[j] \subseteq outcomes'[j],
         SlotInv(s)'
  PROVE  SlotsInv'
<1>1. OneWriter'
  BY OneWriterFrame DEF SlotsInv
<1>2. ASSUME NEW t \in Slots \ {s} PROVE SlotInv(t)'
  <2>1. SlotInv(t) /\ run'[t] = run[t]
    BY DEF SlotsInv
  <2>2. MayWrite(t) => run[t].pc # "idle"
    BY DEF MayWrite, Starting, Outcome
  <2>3. MayWrite(t) => run[t].job \in Jobs /\ (run[t].job # run[s].job \/ ~MayWrite(s))
    BY <2>1, <2>2 DEF SlotsInv, OneWriter, SlotInv
  <2>4. QED
    BY <2>1, <2>3, SlotFrame DEF Exists
<1>3. QED
  BY <1>1, <1>2 DEF SlotsInv

(* A statement of a goroutine keeps what is said of every slot.            *)
LEMMA ExecuteSlots ==
  ASSUME TypeOK, SlotsInv, NEW s \in Slots, Execute(s)
  PROVE  SlotsInv'
<1> USE LimitsAssumption, NullAssumption
    DEF TypeOK, TableTypeOK, RunTypeOK, Run, table, Goto, Finish, Lands,
        MayWrite, Starting, Outcome, SlotInv
<1> SlotInv(s) /\ run[s] \in Run
  BY DEF SlotsInv
<1>1. ASSUME NEW j \in Jobs, Claim(s, j) PROVE SlotsInv'
  <2>1. ASSUME NEW t \in Slots, MayWrite(t) PROVE run[t].job # j
    BY <1>1, <2>1 DEF Claim, Claimable, Exists, Stored, SlotsInv
  <2>2. run'[s] = [pc |-> "submitted", job |-> j, attempt |-> attempt[j], left |-> 0]
        /\ \A t \in Slots \ {s} : run'[t] = run[t]
    BY <1>1 DEF Claim
  <2>3. OneWriter'
    BY <2>1, <2>2 DEF OneWriter, SlotsInv
  <2>4. SlotInv(s)'
    BY <1>1, <2>2 DEF Claim, Put, Exists
  <2>5. ASSUME NEW t \in Slots \ {s} PROVE SlotInv(t)'
    <3>1. SlotInv(t) /\ run'[t] = run[t]
      BY <2>2 DEF SlotsInv
    <3>2. \A k \in Jobs : status'[k] = "absent" => status[k] = "absent"
      BY <1>1 DEF Claim, Put
    <3>3. MayWrite(t) => run[t].job \in Jobs /\ run[t].job # j
      BY <2>1, <3>1
    <3>4. \A k \in Jobs \ {j} : /\ status'[k] = status[k] /\ claimedBy'[k] = claimedBy[k]
                                /\ claimAge'[k] = claimAge[k]
      BY <1>1 DEF Claim, Put
    <3>5. UNCHANGED <<attempt, outcomes>>
      BY <1>1 DEF Claim
    <3>6. QED
      BY <3>1, <3>2, <3>3, <3>4, <3>5, SlotFrame DEF Exists
  <2>6. QED
    BY <2>3, <2>4, <2>5 DEF SlotsInv
<1>2. CASE Arm(s)
  <2>1. SlotInv(s)'
    BY <1>2 DEF Arm, Exists
  <2>2. QED
    BY <1>2, <2>1, OwnStep DEF Arm
<1>3. CASE InsertExecution(s)
  <2>1. SlotInv(s)'
    BY <1>3 DEF InsertExecution, Exists
  <2>2. QED
    BY <1>3, <2>1, OwnStep DEF InsertExecution
<1>4. CASE InsertRefused(s)
  <2>1. SlotInv(s)'
    BY <1>4 DEF InsertRefused, Exists
  <2>2. QED
    BY <1>4, <2>1, OwnStep DEF InsertRefused
<1>5. CASE ReleaseClaim(s)
  <2>1. SlotInv(s)'
    BY <1>5 DEF ReleaseClaim, Idle
  <2>2. QED
    BY <1>5, <2>1, OwnStep DEF ReleaseClaim, Put, Idle
<1>6. CASE MarkRunning(s)
  <2>1. SlotInv(s)'
    BY <1>6 DEF MarkRunning, Put, Exists, Stored, Host
  <2>2. QED
    BY <1>6, <2>1, OwnStep DEF MarkRunning, Put
<1>7. CASE StatementLost(s)
  <2>1. SlotInv(s)'
    BY <1>7 DEF StatementLost, CarryOn, Idle, Exists
  <2>2. QED
    BY <1>7, <2>1, OwnStep DEF StatementLost, CarryOn, Idle
<1>8. CASE HandlerReturns(s)
  <2>1. SlotInv(s)'
    BY <1>8 DEF HandlerReturns, Exists
  <2>2. QED
    BY <1>8, <2>1, OwnStep DEF HandlerReturns
<1>9. CASE RecordCompleted(s)
  <2>1. SlotInv(s)'
    BY <1>9 DEF RecordCompleted, Exists
  <2>2. QED
    BY <1>9, <2>1, OwnStep DEF RecordCompleted
<1>10. CASE Complete(s)
  <2>1. SlotInv(s)'
    BY <1>10 DEF Complete, Put, Exists
  <2>2. QED
    BY <1>10, <2>1, OwnStep DEF Complete, Put
<1>12. CASE RecordFailed(s)
  <2>1. SlotInv(s)'
    BY <1>12 DEF RecordFailed, Exists
  <2>2. QED
    BY <1>12, <2>1, OwnStep DEF RecordFailed
<1>13. CASE MarkDead(s)
  <2>1. SlotInv(s)'
    BY <1>13 DEF MarkDead, Put, Exists
  <2>2. QED
    BY <1>13, <2>1, OwnStep DEF MarkDead, Put
<1>14. CASE Requeue(s)
  <2>1. SlotInv(s)'
    BY <1>14 DEF Requeue, Idle
  <2>2. QED
    BY <1>14, <2>1, OwnStep DEF Requeue, Put, Idle
<1>15. CASE Bury(s)
  <2>1. SlotInv(s)'
    BY <1>15 DEF Bury, Idle
  <2>2. QED
    BY <1>15, <2>1, OwnStep DEF Bury, Idle
<1>11. CASE UnblockDependents(s)
  <2>1. run'[s] = Idle /\ \A t \in Slots \ {s} : run'[t] = run[t]
    BY <1>11 DEF UnblockDependents
  <2>2. OneWriter'
    BY <2>1, OneWriterFrame DEF SlotsInv, Idle
  <2>3. \A j \in Jobs : status[j] # "blocked" => status'[j] = status[j]
    BY <1>11 DEF UnblockDependents, Put
  <2>4. \A j \in Jobs : status[j] = "blocked" => status'[j] \in {"blocked", "queued"}
    BY <1>11 DEF UnblockDependents, Put
  <2>5. ASSUME NEW t \in Slots \ {s} PROVE SlotInv(t)'
    <3>1. SlotInv(t) /\ run'[t] = run[t]
      BY <2>1 DEF SlotsInv
    <3>2. UNCHANGED <<claimedBy, claimAge, attempt, outcomes>>
      BY <1>11 DEF UnblockDependents
    <3>3. MayWrite(t) => run[t].job \in Jobs
      BY <3>1
    <3>4. (MayWrite(t) /\ Exists(run[t].job)) => status[run[t].job] # "blocked"
      BY <3>1
    <3>5. (MayWrite(t) /\ Exists(run[t].job)') => Exists(run[t].job)
      BY <2>3, <2>4, <3>1, <3>3 DEF Exists, Stored
    <3>6. QED
      BY <2>3, <2>4, <3>1, <3>2, <3>3, <3>4, <3>5, SlotFrame
  <2>6. SlotInv(s)'
    BY <2>1 DEF Idle
  <2>7. QED
    BY <2>2, <2>5, <2>6 DEF SlotsInv
<1>16. QED
  BY <1>1, <1>2, <1>3, <1>4, <1>5, <1>6, <1>7, <1>8, <1>9, <1>10, <1>11, <1>12,
     <1>13, <1>14, <1>15 DEF Execute, Begin, Conclude

(* A step that moves no goroutine (sweep, request) and writes no claimed   *)
(* or running row, unless to purge it.                                     *)
LEMMA RowStep ==
  ASSUME TypeOK, SlotsInv, UNCHANGED run,
         \A j \in Jobs : status'[j] = "absent" => status[j] = "absent",
         \A j \in Jobs : (status[j] \in {"claimed", "running"} /\ Exists(j)') =>
            /\ status'[j] = status[j] /\ claimedBy'[j] = claimedBy[j]
            /\ claimAge'[j] = claimAge[j] /\ attempt'[j] = attempt[j]
            /\ outcomes'[j] = outcomes[j],
         \A j \in Jobs : (status[j] # "absent" /\ Exists(j)') => Exists(j)
  PROVE  SlotsInv'
<1>1. OneWriter'
  BY DEF OneWriter, SlotsInv, MayWrite, Starting, Outcome
<1>2. ASSUME NEW t \in Slots PROVE SlotInv(t)'
  <2>1. SlotInv(t) /\ run'[t] = run[t]
    BY DEF SlotsInv
  <2>2. MayWrite(t) => run[t].job \in Jobs /\ status[run[t].job] # "absent"
    BY <2>1 DEF SlotInv, MayWrite, Starting, Outcome
  <2>3. (MayWrite(t) /\ Exists(run[t].job)) => status[run[t].job] \in {"claimed", "running"}
    BY <2>1 DEF SlotInv, MayWrite
  <2>4. QED
    BY <2>1, <2>2, <2>3, SlotFrame
<1>3. QED
  BY <1>1, <1>2 DEF SlotsInv

(* No job a goroutine may write is overdue: the reclaim is safe.  This is  *)
(* where the grace period and the deadline meet.                           *)
LEMMA WriterNotOverdue ==
  ASSUME TypeOK, SlotsInv, NEW t \in Slots, MayWrite(t), Exists(run[t].job)
  PROVE  ~Overdue(run[t].job)
BY LimitsAssumption, NullAssumption, RunFacts
   DEF SlotsInv, SlotInv, MayWrite, Starting, Outcome, Overdue

(* So does a statement of the sweep.                                       *)
LEMMA SweepSlots ==
  ASSUME TypeOK, SlotsInv, SweepStep
  PROVE  SlotsInv'
<1>1. CASE PromoteDueJobs /\ UNCHANGED <<run, call>>
  BY <1>1, RowStep DEF PromoteDueJobs, Put, Exists, Stored
<1>2. CASE UnblockSatisfiedJobs /\ UNCHANGED <<run, call>>
  BY <1>2, RowStep DEF UnblockSatisfiedJobs, Put, Exists, Stored
<1>3. CASE CancelUnsatisfiableJobs /\ UNCHANGED <<run, call>>
  BY <1>3, RowStep DEF CancelUnsatisfiableJobs, Put, Exists, Stored
<1>4. CASE ReclaimStuckJobs /\ UNCHANGED <<run, call>>
  <2>1. OneWriter'
    BY <1>4 DEF OneWriter, SlotsInv, MayWrite, Starting, Outcome
  <2>2. ASSUME NEW t \in Slots PROVE SlotInv(t)'
    <3>1. SlotInv(t) /\ run'[t] = run[t]
      BY <1>4 DEF SlotsInv
    <3>2. \A j \in Jobs : Overdue(j) => status[j] \in {"claimed", "running"} /\ status'[j] = "queued"
      BY <1>4 DEF ReclaimStuckJobs, Put, Overdue
    <3>3. \A j \in Jobs : ~Overdue(j) => /\ status'[j] = status[j]
                                         /\ claimedBy'[j] = claimedBy[j]
                                         /\ claimAge'[j] = claimAge[j]
      BY <1>4 DEF ReclaimStuckJobs, Put
    <3>4. UNCHANGED <<attempt, outcomes>>
      BY <1>4 DEF ReclaimStuckJobs
    <3>5. MayWrite(t) => run[t].job \in Jobs
      BY <3>1 DEF SlotInv, MayWrite, Starting, Outcome
    <3>6. (MayWrite(t) /\ Exists(run[t].job)) => ~Overdue(run[t].job)
      BY WriterNotOverdue
    <3>7. (MayWrite(t) /\ Exists(run[t].job)') => Exists(run[t].job)
      BY <3>1, <3>2, <3>3, <3>5 DEF Exists, Stored
    <3>8. \A j \in Jobs : status'[j] = "absent" => status[j] = "absent"
      BY <3>2, <3>3
    <3>9. (MayWrite(t) /\ Exists(run[t].job)') =>
            LET j == run[t].job IN
            /\ Exists(j)
            /\ status'[j] = status[j] /\ claimedBy'[j] = claimedBy[j]
            /\ claimAge'[j] = claimAge[j] /\ attempt'[j] = attempt[j]
            /\ outcomes[j] \subseteq outcomes'[j]
      BY <3>3, <3>4, <3>5, <3>6, <3>7
    <3>10. QED
      BY <3>1, <3>8, <3>9, SlotFrame
  <2>3. QED
    BY <2>1, <2>2 DEF SlotsInv
<1>5. QED
  BY <1>1, <1>2, <1>3, <1>4 DEF SweepStep, Sweep

(* So does a statement of an API handler.                                  *)
LEMMA RequestSlots ==
  ASSUME TypeOK, SlotsInv, JobRequest
  PROVE  SlotsInv'
<1> USE DEF Put, Exists, Stored, table
<1>1. ASSUME NEW r \in Callers, NEW B \in SUBSET Jobs, ReadDependencies(r, B), UNCHANGED run
      PROVE  SlotsInv'
  BY <1>1, RowStep DEF ReadDependencies
<1>2. ASSUME NEW r \in Callers, InsertJobs(r), UNCHANGED run PROVE SlotsInv'
  <2>1. \A j \in Jobs : status[j] # "absent" => status'[j] = status[j]
    BY <1>2 DEF InsertJobs
  <2>2. \A j \in Jobs : status'[j] = "absent" => status[j] = "absent"
    BY <2>1
  <2>3. UNCHANGED <<claimedBy, claimAge, attempt, outcomes>>
    BY <1>2 DEF InsertJobs
  <2>4. QED
    BY <1>2, <2>1, <2>2, <2>3, RowStep
<1>3. ASSUME NEW r \in Callers, NEW j \in Jobs, RetryJob(r, j), UNCHANGED run PROVE SlotsInv'
  BY <1>3, RowStep DEF RetryJob
<1>4. ASSUME NEW r \in Callers, ClearEntry(r), UNCHANGED run PROVE SlotsInv'
  BY <1>4, RowStep DEF ClearEntry
<1>5. ASSUME NEW r \in Callers, Abandon(r), UNCHANGED run PROVE SlotsInv'
  BY <1>5, RowStep DEF Abandon
<1>6. ASSUME NEW j \in Jobs, Cancel(j), UNCHANGED run PROVE SlotsInv'
  BY <1>6, RowStep DEF Cancel
<1>7. ASSUME NEW S \in SUBSET Jobs, Purge(S), UNCHANGED run PROVE SlotsInv'
  BY <1>7, RowStep DEF Purge
<1>8. ASSUME NEW S \in SUBSET Jobs, Discard(S), UNCHANGED run PROVE SlotsInv'
  BY <1>8, RowStep DEF Discard
<1>9. QED
  BY ONLY <1>1, <1>2, <1>3, <1>4, <1>5, <1>6, <1>7, <1>8, JobRequest DEF JobRequest

(* Time passes, or a worker dies: rights to write are only lost, and a     *)
(* claim that may still be written ages no faster than its deadline ends.  *)
LEMMA EnvironmentSlots ==
  ASSUME TypeOK, SlotsInv,
         (Prompt /\ Tick) \/ (\E w \in Workers : Crash(w))
  PROVE  SlotsInv'
<1>1. ASSUME NEW w \in Workers, Crash(w) PROVE SlotsInv'
  <2>1. \A t \in Slots : run'[t] = Idle \/ run'[t] = run[t]
    BY <1>1 DEF Crash
  <2>2. UNCHANGED table
    BY <1>1 DEF Crash
  <2>3. OneWriter'
    BY <2>1 DEF OneWriter, SlotsInv, MayWrite, Starting, Outcome, Idle
  <2>4. ASSUME NEW t \in Slots PROVE SlotInv(t)'
    <3>1. CASE run'[t] = run[t]
      BY <3>1, <2>2 DEF SlotsInv, SlotInv, Starting, Outcome, Exists, table
    <3>2. CASE run'[t] = Idle
      BY <3>2 DEF SlotInv, Starting, Outcome, Idle
    <3>3. QED
      BY <2>1, <3>1, <3>2
  <2>5. QED
    BY <2>3, <2>4 DEF SlotsInv
<1>2. CASE Prompt /\ Tick
  <2>1. ASSUME NEW t \in Slots
        PROVE  /\ run'[t].pc = run[t].pc /\ run'[t].job = run[t].job
               /\ run'[t].attempt = run[t].attempt
               /\ run'[t].left = IF run[t].left = 0 THEN 0 ELSE run[t].left - 1
               /\ run[t].left \in 0..Timeout
    BY <1>2, RunFacts, LimitsAssumption DEF Tick, Countdown, Run
  <2>2. \A t \in Slots : run'[t].left > 0 => run[t].left > 0
    BY <2>1, LimitsAssumption
  <2>3. OneWriter'
    BY <2>1, <2>2 DEF OneWriter, SlotsInv, MayWrite, Starting, Outcome
  <2>4. UNCHANGED <<status, attempt, claimedBy, outcomes>>
    BY <1>2 DEF Tick, Elapse
  <2>5. ASSUME NEW j \in Jobs, claimAge[j] \in 0..(Timeout + Grace)
        PROVE  claimAge'[j] = claimAge[j] + 1
    BY <1>2, <2>5, LimitsAssumption, NullAssumption DEF Tick, Elapse, AgeCap
  <2>6. ASSUME NEW t \in Slots PROVE SlotInv(t)'
    <3> USE LimitsAssumption
    <3> DEFINE j == run[t].job
    <3>1. SlotInv(t)
      BY DEF SlotsInv
    <3>2. run'[t].pc # "idle" => j \in Jobs /\ status'[j] # "absent"
      BY <2>1, <2>4, <3>1 DEF SlotInv
    <3>3. ASSUME Starting(t), Exists(j) PROVE j \in Jobs /\ claimAge'[j] \in 0..Grace
      <4>1. claimAge[j] \in 0..Grace /\ claimAge[j] < Grace /\ j \in Jobs
        BY <1>2, <3>1, <3>3, LimitsAssumption, NullAssumption DEF Prompt, SlotInv, Starting
      <4>2. QED
        BY <4>1, <2>5
    <3>4. ASSUME Outcome(t), run'[t].left > 0, Exists(j)
          PROVE  /\ j \in Jobs /\ claimAge'[j] \in 0..Timeout
                 /\ claimAge'[j] + run'[t].left <= Timeout
      <4>1. claimAge[j] \in 0..Timeout /\ claimAge[j] + run[t].left <= Timeout /\ j \in Jobs
        BY <2>2, <3>1, <3>4 DEF SlotInv, Outcome
      <4>2. claimAge'[j] = claimAge[j] + 1 /\ run'[t].left = run[t].left - 1
        BY <2>1, <2>2, <2>5, <3>4, <4>1
      <4>3. QED
        BY <2>1, <3>4, <4>1, <4>2
    <3>5. (Starting(t)' <=> Starting(t)) /\ (Outcome(t)' <=> Outcome(t))
          /\ (Exists(run[t].job)' <=> Exists(run[t].job))
      BY <2>1, <2>4 DEF Starting, Outcome, Exists
    <3>6. QED
      BY <2>1, <2>2, <2>4, <3>1, <3>2, <3>3, <3>4, <3>5 DEF SlotInv, Bump, Exists
  <2>7. QED
    BY <2>3, <2>6 DEF SlotsInv
<1>3. QED
  BY ONLY <1>1, <1>2, (Prompt /\ Tick) \/ (\E w \in Workers : Crash(w))
=============================================================================
