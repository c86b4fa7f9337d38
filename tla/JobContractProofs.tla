-------------------------- MODULE JobContractProofs --------------------------
(***************************************************************************)
(* In steady operation every step of the system is a step of JobContract,  *)
(* and from the moves the contract allows follow the rest of SteadyInv:    *)
(* parents stay known, a held job keeps its completed parents, and a final *)
(* status keeps its execution row.                                         *)
(***************************************************************************)
EXTENDS JobSteadyProofs

(* What a step does to one job's row, as far as SteadyInv depends on it.   *)
Moves(j) == /\ <<status[j], status'[j]>> \in Contract!Edges
            /\ status'[j] = "claimed" => Contract!Ready(j)

RowOK(j) ==
  /\ status'[j] = status[j] \/ Moves(j)
  /\ status'[j] # "purged" => outcomes[j] \subseteq outcomes'[j]
  /\ (status'[j] # status[j] /\ status'[j] = "completed") => "completed" \in outcomes'[j]
  /\ (status'[j] # status[j] /\ status'[j] = "dead") => "failed" \in outcomes'[j]
  /\ (status'[j] # status[j] /\ status[j] = "absent") =>
        \A p \in Needs[j] : status'[p] # "absent"

RowsOK == \A j \in Jobs : RowOK(j)

(* A step that leaves the statuses and keeps the outcomes.                 *)
LEMMA StillRows ==
  ASSUME UNCHANGED status, \A j \in Jobs : outcomes[j] \subseteq outcomes'[j]
  PROVE  RowsOK
BY DEF RowsOK, RowOK

(* A goroutine finds its row as it left it, and each of its statements is  *)
(* a move of the contract.                                                 *)
LEMMA ExecuteRows ==
  ASSUME TypeOK, SlotsInv, ParentsKnown, NEW s \in Slots, Execute(s)
  PROVE  RowsOK
<1> USE DEF table, Goto, Finish, Lands
<1> DEFINE k == run[s].job
<1>0. SlotInv(s)
  BY DEF SlotsInv
<1>1. ASSUME NEW j \in Jobs, Claim(s, j) PROVE RowsOK
  <2>1. status[j] = "queued" /\ Unmet(j) = {} /\ status' = Put(status, {j}, "claimed")
        /\ UNCHANGED outcomes
    BY <1>1 DEF Claim, Claimable
  <2>2. \A p \in Needs[j] : p \in Jobs /\ status[p] \in Statuses \ {"absent"}
    BY <2>1, JobsAssumption DEF ParentsKnown, TypeOK, TableTypeOK
  <2>3. Contract!Ready(j)
    BY <2>1, <2>2 DEF Unmet, Parents, Exists, Statuses, Contract!Ready
  <2>4. \A i \in Jobs : i # j => status'[i] = status[i]
    BY <2>1 DEF Put
  <2>5. status'[j] = "claimed"
    BY <2>1 DEF Put
  <2>6. Moves(j)
    BY <2>1, <2>3, <2>5 DEF Moves, Contract!Edges
  <2>7. QED
    BY <2>1, <2>4, <2>5, <2>6 DEF RowsOK, RowOK
<1>2. CASE Arm(s) \/ InsertExecution(s) \/ InsertRefused(s) \/ HandlerReturns(s) \/ Bury(s)
  BY <1>2, StillRows DEF Arm, InsertExecution, InsertRefused, HandlerReturns, Bury
<1>3. CASE StatementLost(s)
  BY <1>3, StillRows DEF StatementLost, CarryOn
<1>4. CASE RecordCompleted(s) \/ RecordFailed(s)
  BY <1>4, StillRows DEF RecordCompleted, RecordFailed, TypeOK, TableTypeOK
<1>5. CASE ReleaseClaim(s)
  BY <1>5 DEF ReleaseClaim, Put, RowsOK, RowOK, Moves, Contract!Edges
<1>6. CASE MarkRunning(s)
  <2>1. k \in Jobs /\ status[k] = "claimed"
    BY <1>0, <1>6 DEF MarkRunning, SlotInv, Starting
  <2>2. QED
    BY <1>6, <2>1 DEF MarkRunning, Put, RowsOK, RowOK, Moves, Contract!Edges
<1>7. CASE Complete(s)
  <2>1. k \in Jobs /\ status[k] = "running" /\ "completed" \in outcomes[k]
    BY <1>0, <1>7 DEF Complete, SlotInv, Outcome
  <2>2. QED
    BY <1>7, <2>1 DEF Complete, Put, RowsOK, RowOK, Moves, Contract!Edges
<1>8. CASE UnblockDependents(s)
  BY <1>8 DEF UnblockDependents, Put, RowsOK, RowOK, Moves, Contract!Edges
<1>9. CASE MarkDead(s)
  <2>1. k \in Jobs /\ status[k] = "running" /\ "failed" \in outcomes[k]
    BY <1>0, <1>9 DEF MarkDead, SlotInv, Outcome
  <2>2. QED
    BY <1>9, <2>1 DEF MarkDead, Put, RowsOK, RowOK, Moves, Contract!Edges
<1>10. CASE Requeue(s)
  <2>1. k \in Jobs /\ status[k] = "running"
    BY <1>0, <1>10 DEF Requeue, SlotInv, Outcome
  <2>2. QED
    BY <1>10, <2>1 DEF Requeue, Put, RowsOK, RowOK, Moves, Contract!Edges
<1>11. QED
  BY <1>1, <1>2, <1>3, <1>4, <1>5, <1>6, <1>7, <1>8, <1>9, <1>10 DEF Execute, Begin, Conclude

(* The sweep needs no invariant: its statements test the status they move. *)
LEMMA SweepRows ==
  ASSUME TypeOK, SweepStep
  PROVE  RowsOK
<1> USE DEF Put, RowsOK, RowOK, Moves, Contract!Edges
<1>1. CASE PromoteDueJobs
  BY <1>1 DEF PromoteDueJobs
<1>2. CASE UnblockSatisfiedJobs
  BY <1>2 DEF UnblockSatisfiedJobs
<1>3. CASE CancelUnsatisfiableJobs
  BY <1>3 DEF CancelUnsatisfiableJobs
<1>4. CASE ReclaimStuckJobs
  BY <1>4 DEF ReclaimStuckJobs, Overdue
<1>5. QED
  BY <1>1, <1>2, <1>3, <1>4 DEF SweepStep, Sweep

(* So do the requests.  An insert knows its parents: they are inserted     *)
(* with it, or the foreign key finds them.                                 *)
LEMMA RequestRows ==
  ASSUME TypeOK, JobRequest
  PROVE  RowsOK
<1> USE DEF Put, table
<1>1. ASSUME NEW x \in Callers, NEW B \in SUBSET Jobs, ReadDependencies(x, B) PROVE RowsOK
  BY <1>1, StillRows DEF ReadDependencies
<1>2. ASSUME NEW x \in Callers, InsertJobs(x) PROVE RowsOK
  <2> DEFINE fresh == {j \in call[x].jobs : status[j] = "absent"}
  <2>1. call[x].jobs \subseteq Jobs
    BY DEF TypeOK, CallTypeOK, Call
  <2>2. \A j \in fresh : \A p \in Needs[j] : p \in fresh \/ Exists(p)
    BY <1>2 DEF InsertJobs
  <2>3. \A j \in Jobs \ fresh : status'[j] = status[j]
    BY <1>2 DEF InsertJobs
  <2>4. \A j \in fresh : status'[j] \in {"scheduled", "blocked", "queued"}
    BY <1>2, <2>1 DEF InsertJobs
  <2>5. UNCHANGED outcomes
    BY <1>2 DEF InsertJobs
  <2>6. ASSUME NEW j \in fresh PROVE RowOK(j)
    <3>1. \A p \in Needs[j] : status'[p] # "absent"
      BY <2>2, <2>3, <2>4, <2>1, JobsAssumption DEF Exists, Stored
    <3>2. QED
      BY <2>4, <2>5, <3>1 DEF RowOK, Moves, Contract!Edges
  <2>7. ASSUME NEW j \in Jobs \ fresh PROVE RowOK(j)
    BY <2>3, <2>5 DEF RowOK
  <2>8. QED
    BY <2>6, <2>7 DEF RowsOK
<1>3. ASSUME NEW x \in Callers, NEW j \in Jobs, RetryJob(x, j) PROVE RowsOK
  <2>1. status'[j] \in {"queued", "blocked"} /\ UNCHANGED outcomes
        /\ \A i \in Jobs \ {j} : status'[i] = status[i]
    BY <1>3 DEF RetryJob
  <2>2. QED
    BY <1>3, <2>1 DEF RetryJob, RowsOK, RowOK, Moves, Contract!Edges
<1>4. ASSUME NEW x \in Callers, ClearEntry(x) \/ Abandon(x) PROVE RowsOK
  BY <1>4, StillRows DEF ClearEntry, Abandon
<1>5. ASSUME NEW j \in Jobs, Cancel(j) PROVE RowsOK
  BY <1>5 DEF Cancel, RowsOK, RowOK, Moves, Contract!Edges
<1>6. ASSUME NEW S \in SUBSET Jobs, Purge(S) PROVE RowsOK
  BY <1>6 DEF Purge, Exists, Stored, RowsOK, RowOK, Moves, Contract!Edges
<1>7. ASSUME NEW S \in SUBSET Jobs, Discard(S) PROVE RowsOK
  BY <1>7, StillRows DEF Discard
<1>8. QED
  BY ONLY <1>1, <1>2, <1>3, <1>4, <1>5, <1>6, <1>7, JobRequest DEF JobRequest

(* Time and crashes leave the rows.                                        *)
LEMMA EnvironmentRows ==
  ASSUME (Prompt /\ Tick) \/ (\E w \in Workers : Crash(w))
  PROVE  RowsOK
BY StillRows DEF Tick, Elapse, Crash, table

(***************************************************************************)
(* From the moves to the rest of the invariant.                            *)
(***************************************************************************)

(* Nothing returns to "absent".                                            *)
LEMMA KeepsParentsKnown ==
  ASSUME TypeOK, ParentsKnown, RowsOK
  PROVE  ParentsKnown'
<1>1. \A j \in Jobs : status[j] # "absent" => status'[j] # "absent"
  BY DEF RowsOK, RowOK, Moves, Contract!Edges
<1>2. ASSUME NEW j \in Jobs, status'[j] # "absent", NEW p \in Needs[j]
      PROVE  status'[p] # "absent"
  <2>1. CASE status[j] = "absent"
    BY <1>2, <2>1 DEF RowsOK, RowOK
  <2>2. CASE status[j] # "absent"
    BY <1>1, <1>2, <2>2, JobsAssumption DEF ParentsKnown
  <2>3. QED
    BY <2>1, <2>2
<1>3. QED
  BY <1>2 DEF ParentsKnown

(* A claim finds all parents completed or purged, and from there they can  *)
(* only be purged.                                                         *)
LEMMA KeepsDependencyOrder ==
  ASSUME TypeOK, TypeOK', ParentsKnown, DependencyOrder, RowsOK
  PROVE  DependencyOrder'
<1>1. \A p \in Jobs : status[p] \in {"completed", "purged"} => status'[p] \in {"completed", "purged"}
  BY DEF RowsOK, RowOK, Moves, Contract!Edges
<1>2. ASSUME NEW j \in Jobs, status'[j] \in {"claimed", "running"}
      PROVE  \A p \in Needs[j] : status[p] \in {"completed", "purged"}
  <2>1. CASE status[j] \in {"claimed", "running"}
    <3>1. \A p \in Needs[j] : status[p] \in Statuses \ {"absent"}
      BY <2>1, JobsAssumption DEF ParentsKnown, TypeOK, TableTypeOK
    <3>2. Unmet(j) = {}
      BY <2>1 DEF DependencyOrder
    <3>3. QED
      BY <3>1, <3>2 DEF Unmet, Parents, Exists, Statuses
  <2>2. CASE status[j] \notin {"claimed", "running"}
    <3>1. Moves(j)
      BY <1>2, <2>2 DEF RowsOK, RowOK
    <3>2. Contract!Ready(j)
      BY <1>2, <2>2, <3>1 DEF Moves, Contract!Edges
    <3>3. QED
      BY <3>2 DEF Contract!Ready
  <2>3. QED
    BY <2>1, <2>2
<1>3. ASSUME NEW j \in Jobs, status'[j] \in {"claimed", "running"} PROVE Unmet(j)' = {}
  <2>1. \A p \in Needs[j] : status'[p] \in {"completed", "purged"}
    BY <1>1, <1>2, <1>3, JobsAssumption
  <2>2. QED
    BY <2>1 DEF Unmet, Parents, Exists, Stored
<1>4. QED
  BY <1>3 DEF DependencyOrder

(* Executions are only deleted with their job.                             *)
LEMMA KeepsOutcomeRecorded ==
  ASSUME OutcomeRecorded, RowsOK
  PROVE  OutcomeRecorded'
BY DEF OutcomeRecorded, RowsOK, RowOK

(***************************************************************************)
(* The theorems.                                                           *)
(***************************************************************************)

(* Every step of the steady system is one of the steps above.              *)
LEMMA SteadyCases ==
  ASSUME SteadyNext
  PROVE  \/ \E s \in Slots : Execute(s)
         \/ (Prompt /\ Tick) \/ (\E w \in Workers : Crash(w))
         \/ SweepStep
         \/ JobRequest
BY DEF SteadyNext, WorkerStep

(* The invariant of steady operation holds in every initial state.         *)
LEMMA SteadyInit ==
  ASSUME Init
  PROVE  TypeOK /\ SteadyInv
<1>1. TypeOK
  BY InitType
<1>2. \A t \in Slots : run[t] = Idle
  BY DEF Init, RunInit
<1>3. \A j \in Jobs : status[j] = "absent"
  BY DEF Init, TableInit
<1>4. SlotsInv
  BY <1>2 DEF SlotsInv, SlotInv, OneWriter, MayWrite, Starting, Outcome, Idle
<1>5. ParentsKnown /\ DependencyOrder /\ OutcomeRecorded
  BY <1>3 DEF ParentsKnown, DependencyOrder, OutcomeRecorded
<1>6. QED
  BY <1>1, <1>4, <1>5, SteadyParts

(* Every step of steady operation keeps it.                                *)
LEMMA SteadyStep ==
  ASSUME TypeOK, TypeOK', SteadyInv, SteadyNext
  PROVE  SteadyInv' /\ RowsOK
<1>1. SlotsInv /\ ParentsKnown /\ DependencyOrder /\ OutcomeRecorded
  BY SteadyParts
<1>2. SlotsInv'
  BY <1>1, SteadyCases, ExecuteSlots, EnvironmentSlots, SweepSlots, RequestSlots
<1>3. RowsOK
  BY <1>1, SteadyCases, ExecuteRows, EnvironmentRows, SweepRows, RequestRows
<1>4. ParentsKnown' /\ DependencyOrder' /\ OutcomeRecorded'
  BY <1>1, <1>3, KeepsParentsKnown, KeepsDependencyOrder, KeepsOutcomeRecorded
<1>5. SteadyInv'
  BY <1>2, <1>4, SteadyParts, PTL
<1>6. QED
  BY <1>3, <1>5

(* Steady operation is a restriction of the whole system.                  *)
LEMMA SteadyIsSystem == SteadySpec => Spec
<1>1. [SteadyNext]_vars => [Next]_vars
  BY DEF SteadyNext, Next
<1>2. QED
  BY <1>1, PTL DEF SteadySpec, Spec

(* The lease excludes a second writer and the row agrees with the holder   *)
(* (reclaimStuckJobs, startExecution, handleSuccess, handleFailure), for   *)
(* any number of workers, slots, jobs, attempts and any timeout and grace. *)
THEOREM SteadyCorrect == SteadySpec => []SteadyInv
<1>1. Init => SteadyInv
  BY SteadyInit
<1>2. TypeOK /\ TypeOK' /\ SteadyInv /\ [SteadyNext]_vars => SteadyInv'
  <2> SUFFICES ASSUME TypeOK, TypeOK', SteadyInv, [SteadyNext]_vars PROVE SteadyInv'
    OBVIOUS
  <2>1. CASE SteadyNext
    BY <2>1, SteadyStep
  <2>2. CASE UNCHANGED vars
    <3>1. SlotsInv /\ ParentsKnown /\ DependencyOrder /\ OutcomeRecorded
      BY SteadyParts
    <3>2. UNCHANGED <<table, run>>
      BY <2>2 DEF vars
    <3>3. SlotsInv'
      BY <3>1, <3>2 DEF SlotsInv, OneWriter, SlotInv, MayWrite, Starting, Outcome, Exists, table
    <3>4. ParentsKnown' /\ DependencyOrder' /\ OutcomeRecorded'
      BY <3>1, <3>2 DEF ParentsKnown, DependencyOrder, OutcomeRecorded, Unmet, Parents, Exists, table
    <3>5. QED
      BY <3>3, <3>4, SteadyParts, PTL
  <2>3. QED
    BY <2>1, <2>2
<1>3. QED
  BY <1>1, <1>2, SteadyIsSystem, TypeCorrect, PTL DEF SteadySpec

(* No two goroutines can change the status of one job.                     *)
THEOREM SteadyOneWriter == SteadySpec => []OneWriter
<1>1. SteadyInv => OneWriter
  BY DEF SteadyInv, LeaseInv
<1>2. QED
  BY <1>1, SteadyCorrect, PTL

(* Whoever may write a job finds its row as it left it.                    *)
THEOREM SteadyRow == SteadySpec => []RowFollowsLease
<1>1. SteadyInv => RowFollowsLease
  BY DEF SteadyInv, LeaseInv
<1>2. QED
  BY <1>1, SteadyCorrect, PTL

(* A held job's dependencies have completed, whatever graph they form.     *)
THEOREM SteadyDependencies == SteadySpec => []DependencyOrder
<1>1. SteadyInv => DependencyOrder
  BY DEF SteadyInv
<1>2. QED
  BY <1>1, SteadyCorrect, PTL

(* A completed or dead job has an execution that recorded the outcome.     *)
THEOREM SteadyOutcomes == SteadySpec => []OutcomeRecorded
<1>1. SteadyInv => OutcomeRecorded
  BY DEF SteadyInv
<1>2. QED
  BY <1>1, SteadyCorrect, PTL

(* The job table implements the documented state machine.                  *)
THEOREM SteadyContract == SteadySpec => ContractSpec
<1>1. Init => Contract!Init
  BY DEF Init, TableInit, Contract!Init
<1>2. TypeOK /\ TypeOK' /\ SteadyInv /\ [SteadyNext]_vars => [Contract!Next]_status
  <2> SUFFICES ASSUME TypeOK, TypeOK', SteadyInv, [SteadyNext]_vars
               PROVE  [Contract!Next]_status
    OBVIOUS
  <2>1. CASE SteadyNext
    <3>1. \A j \in Jobs : status'[j] = status[j] \/ Contract!Move(j)
      BY <2>1, SteadyStep DEF RowsOK, RowOK, Moves, Contract!Move
    <3>2. status' \in [Jobs -> Statuses]
      BY DEF TypeOK, TableTypeOK
    <3>3. QED
      BY <3>1, <3>2 DEF Contract!Next, Statuses, Stored
  <2>2. CASE UNCHANGED vars
    BY <2>2 DEF vars, table
  <2>3. QED
    BY <2>1, <2>2
<1>3. QED
  BY <1>1, <1>2, SteadyCorrect, SteadyIsSystem, TypeCorrect, PTL
     DEF SteadySpec, ContractSpec, Contract!Spec
=============================================================================
