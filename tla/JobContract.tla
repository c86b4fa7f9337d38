---------------------------- MODULE JobContract -----------------------------
(***************************************************************************)
(* What the system promises about a job: it moves along the edges of the   *)
(* documented state machine (README.md, "Job Lifecycle"; API.md, "Job      *)
(* status FSM"), and it leaves the queue for a worker only when every job  *)
(* it depends on has completed (or was purged).  One step may move several *)
(* jobs: the sweep updates sets of rows.                                   *)
(***************************************************************************)
CONSTANTS Jobs, Needs
VARIABLE state

Edges ==
  ({"absent"} \X {"scheduled", "blocked", "queued"})
  \cup ({"scheduled", "blocked"} \X {"queued", "cancelled"})
  \cup ({"queued"} \X {"claimed", "cancelled"})
  \cup ({"claimed"} \X {"running", "queued"})
  \cup ({"running"} \X {"completed", "scheduled", "failed", "queued", "dead"})
  \cup ({"failed", "dead", "cancelled"} \X {"queued", "blocked"})
  \cup ({"scheduled", "blocked", "queued", "claimed", "running", "completed",
         "failed", "dead", "cancelled"} \X {"purged"})

Ready(j) == \A p \in Needs[j] : state[p] \in {"completed", "purged"}

Init == state = [j \in Jobs |-> "absent"]

Move(j) ==
  /\ <<state[j], state'[j]>> \in Edges
  /\ state'[j] = "claimed" => Ready(j)

Next ==
  /\ \E f \in [Jobs -> {"absent", "scheduled", "blocked", "queued", "claimed", "running",
                        "completed", "failed", "dead", "cancelled", "purged"}] : state' = f
  /\ \A j \in Jobs : state'[j] = state[j] \/ Move(j)

Spec == Init /\ [][Next]_state
=============================================================================
