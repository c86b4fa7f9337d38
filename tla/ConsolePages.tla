---------------------------- MODULE ConsolePages ----------------------------
(***************************************************************************)
(* The dashboard's pages as data: the cache keys each page reads, how      *)
(* often they are polled, what its commands change and which keys they     *)
(* fetch again; and what the live events say to fetch.                     *)
(*                                                                         *)
(* Time is counted in ticks; what is shorter happens within a tick.        *)
(* "running-jobs" is the key of all-jobs for one status.                   *)
(***************************************************************************)
EXTENDS Naturals

CONSTANTS
  NULL,
  TickLength   (* In seconds.                                              *)

(* It divides the intervals of the polls and of a hidden tab.              *)
ASSUME TickDividesIntervals == TickLength \in {1, 5}

Ticks(seconds) == (seconds + TickLength - 1) \div TickLength

(* hooks/use-data.ts.  Static is five minutes there: any number above the  *)
(* other intervals does.                                                   *)
PollLive == Ticks(5)
PollSlow == Ticks(15)
PushSafetyNet == Ticks(45)
PollStatic == PushSafetyNet + 1

(* A poll or a focus so soon after another fetch is skipped: 2.5 seconds.  *)
DedupingInterval == Ticks(3)

JobLists == {"all-jobs", "running-jobs"}
OneJob == {"job", "job-execs", "job-logs", "job-deps"}
OneQueue == {"queue-stats", "queue-metrics"}

(* The two keys of queues/[id]/page.tsx keep their own intervals.          *)
OwnPolls == {"queue-jobs", "queue-dlq"}
LivePolls == {"queue-stats", "running-jobs", "project-metrics"} \cup OneJob
StaticPolls == {"features"}
Unpolled == {"failure-summary"}   (* refreshInterval: 0.                    *)

(* A failure of these fetches is caught, and what it leaves out is missing *)
(* without an error: the summary, a queue's part of the dead letters.      *)
Swallows == {"failure-summary", "all-dlq"}

Base(k) ==
  CASE k \in OwnPolls \cup LivePolls -> PollLive
    [] k \in StaticPolls -> PollStatic
    [] k \in Unpolled -> PollStatic + 1
    [] OTHER -> PollSlow

(* useRefresh; a live connection slows the polls down.                     *)
RefreshUnlessLive(k, live) == IF live THEN PollStatic + 1 ELSE Base(k)

RefreshInterval(k, live) ==
  IF live /\ k \notin OwnPolls /\ Base(k) < PushSafetyNet THEN PushSafetyNet ELSE Base(k)

-----------------------------------------------------------------------------
(* What happens on the server, what of it a page may show, and the event   *)
(* it publishes, if any (shared/events, and who publishes).  A job that is *)
(* enqueued, run, unblocked, retried or cancelled with its parent has      *)
(* "stepped"; jobs that the sweep promotes or reclaims are "promoted" by   *)
(* one event for all; one that is cancelled by a user or purged publishes  *)
(* nothing.  A summary is stale once the job has died again.               *)
JobKeys == JobLists \cup OneJob \cup OneQueue \cup {"project-metrics", "queue-jobs"}

Silent == [type |-> "none", named |-> FALSE]

Affects ==
  [stepped   |-> JobKeys,
   promoted  |-> JobKeys,
   cancelled |-> JobKeys,
   died      |-> JobKeys \cup {"all-dlq", "queue-dlq", "failure-summary"},
   summarized |-> {"failure-summary"},
   redriven  |-> JobKeys \cup {"all-dlq", "queue-dlq"},
   redrivenAll |-> JobKeys \cup {"all-dlq", "queue-dlq"},
   discarded |-> {"all-dlq", "queue-dlq"},
   paused    |-> {"queues", "queue", "queue-stats"},
   configured |-> {"queues", "queue"},
   beat      |-> {"workers", "worker"}]

Changes == DOMAIN Affects

(* The event, and whether it names a job and its queue; "job.enqueued" is  *)
(* any event about a job but the last, which handleEvent treats alike.     *)
Event ==
  [stepped   |-> [type |-> "job.enqueued", named |-> TRUE],
   cancelled |-> Silent,
   promoted  |-> [type |-> "job.enqueued", named |-> FALSE],
   died      |-> [type |-> "job.dead_lettered", named |-> TRUE],
   redriven  |-> [type |-> "job.enqueued", named |-> TRUE],
   redrivenAll |-> [type |-> "job.enqueued", named |-> FALSE],
   summarized |-> Silent,
   discarded |-> Silent,
   paused    |-> [type |-> "queue.paused", named |-> TRUE],
   configured |-> Silent,
   beat      |-> [type |-> "worker.heartbeat", named |-> TRUE]]

(* handleEvent: the keys an event schedules.                               *)
ScheduledWithoutStats(evt) ==
  CASE evt.type = "job.enqueued" -> JobLists \cup {"project-metrics"}
                                    \cup (IF evt.named THEN OneJob ELSE {})
    [] evt.type = "job.dead_lettered" -> JobLists \cup OneJob \cup {"project-metrics"}
    [] evt.type = "queue.paused" -> {"queues", "queue"}
    [] evt.type = "worker.heartbeat" -> {"workers", "worker", "project-metrics"}

Scheduled(evt) ==
  CASE evt.type = "job.enqueued" -> JobLists \cup {"project-metrics"}
                                    \cup (IF evt.named THEN OneJob \cup OneQueue ELSE {})
    [] evt.type = "job.dead_lettered" -> JobLists \cup OneJob \cup OneQueue
                                         \cup {"project-metrics", "all-dlq"}
    [] evt.type = "queue.paused" -> {"queues", "queue", "queue-stats"}
    [] evt.type = "worker.heartbeat" -> {"workers", "worker", "project-metrics"}

(* What whoever receives the event can know has changed: an event does not *)
(* tell that a dead-letter entry was resolved, and one for many jobs names *)
(* no job and no queue.  A summary is read on demand only.           *)
Announced ==
  [stepped   |-> JobKeys \ OwnPolls,
   promoted  |-> JobLists \cup {"project-metrics"},
   cancelled |-> {},
   died      |-> (JobKeys \cup {"all-dlq"}) \ OwnPolls,
   redriven  |-> JobKeys \ OwnPolls,
   redrivenAll |-> JobLists \cup {"project-metrics"},
   summarized |-> {},
   discarded |-> {},
   paused    |-> {"queues", "queue", "queue-stats"},
   configured |-> {},
   beat      |-> {"workers", "worker"}]

(* EXACT_KEY_PREFIXES and AGGREGATE_PREFIXES: the lane of a key.           *)
Aggregate == {"all-dlq", "queues", "workers", "project-metrics"} \cup JobLists \cup OneQueue

-----------------------------------------------------------------------------
(* A command: its change, the keys it fetches again, whether also when the *)
(* call has failed, and whether it shows its effect before the answer, or  *)
(* the answer instead of a fetch.                                          *)
Command(change, keys, always, optimistic) ==
  [change |-> change, keys |-> keys, always |-> always, optimistic |-> optimistic,
   answers |-> FALSE]

AfterSuccess(change, keys) == Command(change, keys, FALSE, FALSE)
AlwaysForgetful(change, keys) == Command(change, {}, TRUE, FALSE)
Always(change, keys) == Command(change, keys, TRUE, FALSE)

(* A page: the key it shows the error of, which the error screen's button  *)
(* fetches again, what else it reads, and its commands.                    *)
Page(main, reads, commands) ==
  [main |-> main, reads |-> {main} \cup reads, commands |-> commands, hides |-> TRUE]

(* No error is shown at all; the top bar reads all-jobs while its search   *)
(* is open.                                                                *)
NoScreen(reads) == [main |-> NULL, reads |-> reads, commands |-> {}, hides |-> FALSE]

TopBar == NoScreen({"queues", "all-jobs"})
Analytics == NoScreen({"project-metrics", "workers", "all-jobs"})

NoActiveWorkerBanner == {"workers"}

(* The error does not hide metrics that were fetched before.               *)
Dashboard == [Page("project-metrics", {"all-jobs"}, {}) EXCEPT !.hides = FALSE]

CreateBatch == AfterSuccess("stepped", {"all-jobs"})
Batches == Page("all-jobs", {"queues"} \cup NoActiveWorkerBanner, {CreateBatch})

ScheduledJobs ==
  Page("all-jobs", {}, {AfterSuccess("cancelled", {"all-jobs"})})

(* A deleted job's page is left.                                           *)
JobCommands == {AfterSuccess("stepped", {"job"}), AfterSuccess("cancelled", {"job"})}
DependencyGraph == {"job-deps"}

Generate == [AfterSuccess("summarized", {"failure-summary"}) EXCEPT !.answers = TRUE]
FailureSummaryCard == {"features", "failure-summary"}
JobDetail ==
  Page("job", {"job-logs", "job-execs", "queues"} \cup DependencyGraph \cup FailureSummaryCard,
       JobCommands \cup {Generate})

TogglePauseOnSuccess == Command("paused", {"queues"}, FALSE, TRUE)
TogglePause == Command("paused", {"queues"}, TRUE, TRUE)
RemoveQueue == Always("configured", {"queues"})
SaveQueue(k) == AfterSuccess("configured", {k})
QueueManager ==
  Page("queues", {"project-metrics"} \cup NoActiveWorkerBanner,
       {TogglePause, RemoveQueue, SaveQueue("queues")})

QueueDetail ==
  Page("queue", {"queue-stats", "queue-metrics", "queue-jobs", "queue-dlq"},
       {SaveQueue("queue"), Always("paused", {"queue"}),
        Always("redriven", {"queue-dlq", "queue-jobs"}), Always("discarded", {"queue-dlq"})})

RetryAll == Always("redrivenAll", {"all-dlq"})
DiscardUnhandled == Always("discarded", {"all-dlq"})
DLQEntryCommands == {Always("redriven", {"all-dlq"}), Always("discarded", {"all-dlq"})}
DLQ == Page("all-dlq", {"queues"}, {RetryAll, DiscardUnhandled} \cup DLQEntryCommands)

WorkerMonitor == Page("workers", {"running-jobs", "features"}, {})
WorkerDetail == Page("worker", {"running-jobs"}, {})

Pages == [topBar |-> TopBar, dashboard |-> Dashboard, analytics |-> Analytics,
          batches |-> Batches, scheduled |-> ScheduledJobs, job |-> JobDetail,
          queues |-> QueueManager, queue |-> QueueDetail, dlq |-> DLQ,
          workers |-> WorkerMonitor, worker |-> WorkerDetail]
=============================================================================
