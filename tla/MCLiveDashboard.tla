-------------------------- MODULE MCLiveDashboard ---------------------------
(* Every page with the keys that its screen or its commands need, and one  *)
(* key of every other rate, lane and event; see LiveDashboard.             *)
EXTENDS LiveDashboard

View(p, k) == [page |-> p, key |-> k]

MainViews == {View(p, Pages[p].main) : p \in {q \in DOMAIN Pages : Pages[q].main # NULL}}

OtherViews == {View("queue", k) : k \in QueueDetail.reads}
              \cup {View("job", "failure-summary"), View("analytics", "workers"),
                    View("workers", "running-jobs"), View("workers", "features")}

MostViews == MainViews \cup OtherViews
=============================================================================
