# A verification of the job queue

TLA+ models of this repository's distributed job queue, model-checked with TLC
and, where it matters most, proved with TLAPS. The code is the reference; the
documentation is quoted only where a run shows that the code differs from it.

## The system

Go processes share one PostgreSQL database; Redis carries events, locks and the
shard registry. The life of a job is coordinated through rows: nothing is sent
between an API server and a worker that matters for it. Which worker sweeps, and
which polls a shard, is agreed on through Redis. The dashboard, a Next.js client,
keeps a session, a cache of what it fetched, and a socket that tells it what to
fetch again.

| Component | State it keeps | Operations | What makes it correct |
|---|---|---|---|
| Job table (`db/migrations`) | `jobs`, `job_dependencies`, `job_executions`, `dead_letter_queue` | the SQL below | a job moves along the documented statuses only |
| Poller (`poller.go` `poll`) | free slots, topology | claim eligible rows, submit them | a claim has one holder; dependencies come first |
| Executor (`executor.go`) | one goroutine per job, its context's deadline | start, handler, success, failure, unblock, release | the row agrees with the goroutine; outcomes are recorded |
| Scheduler (`poller.go` `sweep`) | none | promote, unblock, cancel, reclaim | no row is stranded; no live attempt is reclaimed |
| Job API (`job.go`) | requests in flight | create, batch, cancel, retry, purge | races with workers stay inside the state machine |
| Dead-letter API (`dlq.go`) | requests in flight | retry, retry all, discard | an entry and its job agree |
| Scheduler lock (`shared/lock`) | a Redis key, its TTL, a fence counter | acquire, refresh, release, guard | one holder; taken over after a loss |
| Shards (`shared/shard`) | the membership set | heartbeat, leave, owned | every shard is owned and served |
| Events, live hub (`shared/events`, `live.go`) | rooms, buffers | publish, subscribe, join, leave, broadcast | no leak, no send to the departed |
| Workflow graph (`workflow/graph.go`) | none | resolve, find a cycle | accepts exactly the acyclic batches |
| Authorization (`authz`) | a cache of grants | require, lookup, invalidate, evict | a revoked role stops working |
| Membership (`org.go`) | `organization_members` | add, remove | an owner remains |
| Sessions (`auth.go`) | `refresh_tokens` | login, refresh, logout | a token is exchanged once |
| Failure summaries | a cached row, a quota, a lock | generate | the quota bounds the calls |
| Web session (`web/lib/api.ts`, `auth-store.ts`, `auth-guard.tsx`, `project-bootstrap.tsx`, sign-in pages) | tokens in memory, the stored session, the refresh in flight | request, refresh, sign in, sign out, reload, look up a project | one user per session; a token is presented once; every request settles |
| Job explorer (`app/(app)/jobs/page.tsx`, `job-actions.ts`) | cached listings, cursor, selection, commands in flight | filter, page, select, retry, cancel, delete | what is shown converges on the server's jobs |
| Dialogs and sheets (`components/jobs`, `components/queues`) | what is typed, submissions in flight | open, type, submit, close | nothing is submitted twice or sent back reverted |
| Settings (`settings/page.tsx`) | lists, choices, the saved pair | list, choose, save, create | the saved project is the saved organization's |
| Dashboard pages and cache (`hooks/use-data.ts`, the pages) | one entry per key: data, error, fetch, timer | poll, focus, fetch again, command | what is shown is no older than promised |
| Live events client (`use-live-events.ts`, `live-status.ts`) | a socket, its backoff, two flush timers | connect, back off, schedule, flush, clean up | an announced change is shown; the socket comes back |
| Queues, projects, demo, heartbeat, metrics, UI components | rows, rates, none | create, update, delete, read | see "Not modelled" |

What is hard to test is the interleaving of SQL statements of several processes:
the executor's statements are separate, most have no guard but the id, all but
one run under the job's deadline, and their errors are dropped; a worker may die
between any two; the sweep may run on every worker at once; an API handler may
act on what it read some time ago. Around it, timers run against each other: the
lock's expiry against its holder's renewals, a worker's two refreshes of its
shards, the dashboard's polls against events, commands and the user. In the
browser a step is what runs between two awaits, and whatever was read before one
may be stale after it. `PROJECT.json` lists these hazards by line.

## The modules

- `JobTable` holds the rows as functions from jobs, and the SQL predicates the
  statements share: `Unmet` and `Doomed` (the `EXISTS` over dependencies),
  `Claimable`, `Overdue`.
- `Executor` is the worker: `Claim` is one row of a poll, and then a slot's `pc`
  names the SQL statement its goroutine performs next. `left` is what remains of
  the context's deadline; at zero every statement but `releaseClaim` fails and
  `StatementLost` says where the code goes on. `DbError` is a statement that
  fails in time, `Crash` the end of a process.
- `Scheduler` has one action per statement of `sweep`. `scheduleCronJobs` has
  none: it selects completed or scheduled recurring jobs whose `next_run_at` is
  NULL, and no statement leaves such a row.
- `JobApi` has the handlers. A handler with several statements keeps what it read
  in `call` between them and may be abandoned there. `Purge` takes a set: deleting
  a queue, a project or an organization deletes its jobs the same way.
- `JobSystem` composes them. `Spec` admits every interleaving and fault.
  `SteadySpec` is the same without three things: a start that takes longer than
  the grace period (`Prompt`), database errors on a live context, and the
  dead-letter requeue, whose `UPDATE` has no guard. These are what the lease
  built from `claimed_at` and the deadline rests on; `double_run` shows what
  happens without the first.
- `JobContract` is the abstract specification: one status per job, the edges of
  the state machine, and that a job is claimed only when its dependencies have
  completed or were purged. `JobSystem` implements it with `state <- status`.
- `JobProperties` states the properties, `MCJobSystem` and `MCFleet` the instances.
- `JobTypeProofs`, `JobSteadyProofs` and `JobContractProofs` hold the proofs.

What the workers agree on through Redis:

- `SchedulerLock` is `lock.go` with `RunScheduler`'s options: one action per
  outcome of `Acquire` (granted, held by another, unavailable, the fence refused),
  of a renewal and of the end of `runHeld`. A worker may stall for any time
  between two of them, crash, or start again; Redis may fail, lose the key or
  lose an answer. go-redis, whose default retries `NewRedis` keeps, sends a SETNX
  again when its answer was lost: the second one is refused by the key the first has
  set, so that `Guard` takes the key for another worker's and nobody sweeps before it
  expires (`GrantLost`). `late` remembers who stalled, `unkept` and `unswept` count the
  ticks the properties bound.
- `ShardOwnership` is `shard.go` with the poller's topology. A refresh reads the
  queues, sends a heartbeat, derives shards from the list it read and publishes
  them; the timer's and the event watcher's refreshes overlap (`derived`). The
  scores are a constant: any injective assignment per shard.
- `Coordination` puts both into one specification, as they run side by side in
  every worker and share nothing but Redis, whose failures both models allow at
  any moment; a behaviour explores one of the two.
- `Fleet` puts the jobs of `JobSystem` beside `Coordination`. Neither reads what the
  other writes: `JobSystem` lets any worker sweep and claim at any moment, which covers
  whoever holds the lock or the shard. A behaviour explores one of the two here, too.
- `CoordinationProofs` holds the proofs; `NumberSets` what they and those of the
  pages need of finite sets of numbers: a smallest and a greatest, and that each
  rank below the size of a set is some element's.

The dashboard:

- `AuthServer` is what the client sees of `auth.go`: pairs of tokens, which expire
  and which a refresh replaces in two statements, the second of which may be lost.
- `WebSession` is the client: memory (`mem`), auth store (`store`), localStorage
  (`disk`, shared by the tabs), the single refresh that concurrent requests await
  (`flight`), the requests, the sign-in forms and the bootstrap. `crossed` marks a
  session that began, or ended, while an earlier one's refresh was under way.
- `SwrCache` is the cache library as the pages use it (external): a fetch is
  dropped when a mutation began after it, a mutation can show a value ahead of
  its call and roll it back.
- `JobExplorer` runs optimistic commands on cached listings against polls, workers
  and other commands; `JobPager` has the cursor, the filters and the selection.
- `Forms` has the two kinds of dialog: one that starts afresh at every opening,
  and the queue sheet, which follows the fetched queue. react-hook-form compares new
  `values` with the last ones it was given, not with what the form shows, so `Refetch`
  resets the form only when the two fetches differ; `kept` remembers that a save's
  values stand in the form although no fetch has brought them.
- `Workspace` is the settings page. `Pages` composes these four: the router mounts
  one page at a time, and the pages that are not mounted stay as they are.
- `ConsolePages` is the table of all pages: the keys each reads and polls, at which
  rate, what its commands fetch again, and what an event announces and schedules.
  `Console` animates one page and one key of it: polls, fetches, flushes, focus,
  hidden tabs, the live flag, the error screen and the page's commands.
- `LiveSocket` is the socket of `useLiveEvents` with its backoff and its cleanup.
  `LiveDashboard` composes it with `Console`, in which the socket may come and go
  at any moment; a behaviour explores one of the two.
- `WebSessionProofs`, `PagesProofs` and `DashboardProofs` hold the proofs.

An operator marked "Variant", or directly above a definition that it does less carefully
(`RefreshBlindly`, `SubmitAgain`, ...) is a plausible slip in that definition; it
is no part of the model and serves to confirm that the properties notice it.

### What the model assumes

- A SQL statement, and a transaction of several, is atomic; `FOR UPDATE SKIP
  LOCKED` only makes a statement skip rows, which is one of the orders modelled.
- `now()` and the workers' clocks advance at the same rate: `Elapse` and
  `Countdown` are one `Tick`. Nothing else relates them.
- A job id, once purged, does not return. An idempotency key stands for its job:
  a second create with the key finds the row and is skipped.
- Pausing and sharding only remove candidates from a claim, so any claim the code
  can make is one of the model's.
- The pair of an `INSERT INTO job_executions` that is refused by its unique key
  and the one that wins is any two goroutines starting the same job.
- A tick of `SchedulerLock`, `ShardOwnership` and `LiveSocket` is five seconds, the
  greatest common divisor of their timers. `Console` and `ConsolePages` take the
  code's seconds in ticks of `TickLength` (`Ticks` rounds up): five in the passing
  run, one in the two runs on documented delays, and the proofs hold for both
  (`TickDividesIntervals`). What a process that is not
  stalled is due to do it does before the next tick, and a call it has made is
  answered, or has failed, by then; only `SchedulerLock` has stalls that break
  this. The focused lane's 350 ms are less than a tick in either. A poll within 2.5
  seconds of another fetch of its key is skipped (`dedupingInterval`, three ticks of a
  second or one of five), also across the boundary of a tick.
- A page of the dashboard runs one command at a time in `Console`, although the
  buttons of two rows can overlap; commands that overlap are `JobExplorer`'s subject.
  SWR's reaction to the browser going offline and back is not modelled: it only adds
  fetches, as a focus does.
- `use-live-events.ts` separates a prefix from an id by a NUL byte, for which some
  tools take it for binary; `tr -d '\000'` makes it readable without moving a line.
- Members that serve a queue all poll it, and its number of shards does not change.
- A browser call settles in the end (`RequestsSettle`, `ExplorerConverges`), in any
  order with any other.
- In `Forms` a value stands for anything that can be typed; in `Workspace` an
  organization has at most one project.

## The runs

| Run | Instance | Question |
|---|---|---|
| `steady` | 1 job, 2 workers, 2 attempts, timeout 2, grace 1, 2 requests; beside it 3 workers and TTL 6, renewal 2 (`lock.go`'s 30 s and 10 s), and 2 members, 2 shards scored oppositely, TTL 6, refresh 2 | the lease and the attempt number through retries and reclaims; who sweeps, that someone does, which shards are polled |
| `dependencies` | parent and recurring child, 1 worker with 1 slot, 2 attempts, timeout 1, grace 1 | dependency order, the contract, and that scheduled and blocked jobs move on |
| `faults` | 1 recurring job whose expression does not parse, 1 worker with 2 slots, grace 0 | claims stay visible to the reclaim and are resolved |
| `dead_row`, `double_run`, `attempts`, `doomed_queue` | 1 or 2 jobs | a documented claim the code does not keep |
| `polling`, `flush` | the worker list and a job's page, ticks of 1 second | a documented delay the code does not keep |
| `session` | 1 tab, 2 requests, 2 users (one the demo user), 2 pairs of tokens | sessions through refreshes, sign-ins and sign-outs in any order |
| `pages` | explorer with 2 filters, 2 commands or 2 jobs; 3 rows on pages of 1 or 2; 1 field of 2 values, 2 submissions; 2 organizations | the pages with state of their own |
| `dashboard` | every page with its main key, and one key of every other rate, lane and event | how old what is shown may be |

Two workers are enough for the races between holders of one job, and a parent and
a child for every predicate over dependencies, which quantify over single edges. The
two are checked apart: a child is claimed by what its parent's row says, whoever wrote
it, and a crashed or timed-out slot leaves a parent running while the next claim is
made. Both together, with 2 workers and one attempt, were checked as well, in a run of
its own without liveness. Timeout 1 with grace 1 lets a deadline pass before the job is started; timeout 2
lets an attempt outlive the grace period. Times are ticks, so 0 and 1 tell apart
every order of a deadline, a claim's age and a delay. `AttemptCap` bounds
`attempt_count`, `MaxDelay` the delay of `run_at`; `claimAge` stops at `AgeCap`,
beyond which every comparison has the same answer. Symmetry permutes workers and
is used in runs without liveness properties only. The theorems below remove the
bounds for everything `steady` checks, and for the safety properties of `dependencies`.

Three workers let a third take the lock between a holder that stalled and a
standby; the run uses the code's own ratio of expiry to renewal. Two users and two
pairs are what a crossing needs: the refresh of one session and the sign-in of
another; two requests share a refresh. `pages` gives the explorer one of three
scenes at a time - two filters (a command on a listing that is left), two commands
on one listing, a bulk command - since all at once adds states and no pair of steps
that the three do not have. A field of the sheet is independent of the others, so
one shows every case; two fields and four rows were checked as well, as were all
33 pairs of a page and a key it reads, which take longer than the runs may.
`MaxAttempt` is past the attempt from which the delay no longer grows; counters of
ticks stop one past what the property allows.

### Fairness

Liveness assumes that time passes and that each statement of the sweep is
executed again and again by some worker (`RunScheduler`: under the lock, or on
every worker when Redis is not available). It assumes nothing of claims, handlers,
outcomes or requests: a handler may hang and a worker may die. `SteadyFairSpec`
also lets a goroutine reach its handler, since otherwise `Prompt` would stop the
clock for it. `ClaimsResolve` needs none of this and is checked under `FairSpec`.

In the browser each call and each refresh in flight settles, and so do the
explorer's commands and fetches: promises do, and nothing else is assumed of the
user, the server's answers or the order. What the other new models say about time
is stated with clocks, as safety: `PollingKeepsUp`, `AnnouncedShown`, `SweepsGoOn`,
`ShardsSettle` and `LiveAgain` bound a count of ticks and need no fairness.

### What the properties leave out

- `SessionOfOneUser` and `ProjectOfUser` except a session that a refresh of an
  earlier one has crossed: `refreshAccessToken` stores what it gets without looking
  whether it is still wanted, so that a refresh that ends after a sign-out restores
  tokens, and one that ends after another sign-in replaces them. `crossed` says that
  this may happen; the properties hold through every other order.
- `PunctualKeepsKey` says nothing of a holder that has stalled or whose key Redis
  lost: two schedulers may then sweep at once, which the sweep's statements allow.
- `OneSubmissionPerOpening` starts from an opening without a submission under way,
  since the end of an earlier opening's call enables the button again.
- `UntouchedFieldsCurrent` excepts `LastValuesAgain`: after a save of this form, the
  next fetch brings what was there before it, because another operator has put that
  back, or because it was read between the storing and the answer. It equals the last
  `values`, so the form is not reset and keeps what it saved, and the next save may
  revert the other operator's change. No text of the repository promises otherwise, so
  this is a weakness, named by the model's operator, and not one of the findings.
- `PollingKeepsUp` says nothing of an entry whose last fetch reported an error, which
  the code does not poll again before a flush, a focus or a command fetches it
  (`shouldRetryOnError` is off): see the finding `polling`.
- `SweepsGoOn` counts anew when a process stops or stalls, and when a grant is lost
  between Redis and the client (`GrantLost`): each may cost one more expiry.
- `SavedPairBelongs` excepts a project chosen while the projects listed are still
  those of another organization, or displaced by a longer list.
- `AnnouncedShown` promises only what an event names: discarding a dead-letter
  entry, a user's cancelling a job and changing a queue publish nothing the client
  maps, and a failure summary is read on demand. It promises it in the time of the
  lane, four seconds or twenty after a hidden tab; that this is more than the
  documentation says is a finding (`flush`). An entry with an error is excused, and so is
  one with a "gap": the dead letters of a queue whose listing failed are missing
  from the page without an error (`use-data.ts:107`), until the next fetch.

### Findings

- `dead_row`: `handleFailure` writes `dead` and the dead-letter row in two
  statements whose results it ignores, so a deadline or a crash between them
  leaves a dead job without an entry. The README says they share a transaction.
- `double_run`: a goroutine that stalls between its claim and its start for longer
  than the grace period still starts, since the `UPDATE` of `startExecution` tests
  the id only; the job then runs twice at once, each run within its deadline.
- `attempts`: nothing compares `attempt_count` with `max_attempts` when a job is
  claimed or reclaimed, and an attempt that dies or times out is never settled.
  Such a job is started again without limit and never becomes `dead`.
- `doomed_queue`: a job with dependencies and a future `scheduled_at` is stored as
  `scheduled`, later `queued`, never `blocked`, so it is not cancelled with its
  parent and stays in the queue for ever.
- `polling`: SWR does not poll an entry that has an error, and `shouldRetryOnError`
  is off, so one failed fetch ends the polls of its key until something else fetches
  it. `Tradeoffs.md` calls polling the baseline that is "always correct". What is
  polled has intervals of 15 seconds (workers) or 45 (nearly all, while the page is
  live), where the workers page says "polling every 5s", `Tradeoffs.md` "5-second
  polling fallback" and the dashboard's card "refreshed every 2s".
- `flush`: the lists and metrics are flushed four seconds after the first event, not
  "once a second" with "up to a second of extra latency" (`Tradeoffs.md`), nor "in
  well under a second" (`README.md`).

## The proofs

Every safety property of a passing run is a theorem, for every value of the
constants that satisfies the named assumptions, which TLC evaluates on each run:

- `JobsAssumption`, `LimitsAssumption`, `NullAssumption`, `ConcurrencyAssumption`:
  any sets of jobs, workers and requests, any dependencies, any limits and times;
- `TimersAssumption` (a renewal before the expiry), `ScoreAssumption` (no two members
  share a score for a shard), `IntervalsAssumption` (a refresh before the expiry);
- `DemoIsUser` and those of `AuthServer`: any tabs, requests and users;
- `ExplorerParameters` and `PagesParameters`: any filters, jobs and commands, any
  number of rows, any page sizes above 0, any fields, values and calls, any
  organizations;
- `ViewsOfPages` and `TickDividesIntervals`: any pages with keys they read, out of the
  table of all pages, in ticks of one second or of five;
- `NullIsNoTime`, `NullIsNoListing` and the like: `NULL` is none of the values it
  stands beside, as in the code.

What the workers' database does:

- `TypeCorrect`: `Spec => []TypeOK`.
- `StampedAlways`: `Spec => []ClaimIsStamped`. Every statement that writes
  `claimed` or `running` also stamps the row, and every one that clears a stamp
  takes the row out of these statuses.
- `SteadyCorrect`: `SteadySpec => []SteadyInv`, and from it `SteadyOneWriter`,
  `SteadyRow`, `SteadyDependencies` and `SteadyOutcomes`.
- `SteadyContract`: `SteadySpec => ContractSpec`, the refinement.

`OneWriter` is not inductive. What makes it so is `LeaseInv`: a job that some
goroutine may still write is `claimed` or `running` under that worker's name; a
start has a claim no older than the grace period; and the age of a running claim
plus the rest of the attempt's deadline never exceed the timeout, because the
context is armed before `claimed_at` is stamped. Hence what may still be written
is not overdue (`WriterNotOverdue`), the reclaim takes no job from a writer, the
unguarded `UPDATE`s find the status they expect, and every step is a move of the
contract. `OutcomeOrder` (the execution's outcome is written first) gives
`OutcomeRecorded`; `ParentsKnown` (the foreign keys) and the fact that a completed
job can only be purged give `DependencyOrder`. The proofs follow that order: slots
(`JobSteadyProofs`), rows and theorems (`JobContractProofs`).

What the workers agree on:

- `LockInvariant`: `LockSpec => []LockInv`, and from it `LockPunctualKeepsKey`,
  `LockLossNoticed` and `LockSweepsGoOn`. A punctual holder's key outlasts its next
  renewal (`KeyOutlastsRenewal`), a holder without the key has no more running time
  than until that renewal (`RenewalIsDue`), and what a worker waits for - the key's
  expiry, its own retry - fits into what is left of `Quiet` (`SweepIsDue`). The key
  has one owner, hence `LockOneScheduler`: no two punctual workers sweep at once.
- `ShardInvariant`: `ShardSpec => []ShardInv`, and from it `ShardsSettleAlways` and
  `SettledShardsHaveOneOwner`. Once the departed have expired the list is that of
  the members running (`ListIsCurrent`); what a task derives from then on is final
  (`DerivedIsCurrent`); a refresh later every worker has published it, over whatever
  an older refresh may still put there (`OwnedIsCurrent`).
- `PollInvariant`: `ShardSpec => []PollInv`, and from it `ShardsAlwaysPolled`. The
  clock of an unpolled shard runs on when Redis fails or comes back, so `ShardInv`,
  which counts from the last change, does not help: the lists are not known. But
  after an expiry nobody departed is on one (`DepartedExpire`), and a list of running
  members, however incomplete, gives a worker at least the shards it is the best for
  among all of them (`DerivedHasBest`); a refresh later it polls these
  (`OwnedHasBest`), and every shard has a best worker (`BestExists`).
- `CoordinationKeepsAll`: the composition implements both parts, step by step, and
  so keeps what either promises.

In the browser:

- `SessionInvariant`: `Spec => []SessionInv`, and from it `SessionsHaveOneUser`,
  `ProjectsAreOfUser` and `TokensArePresentedOnce`. The heart is
  `FlightCarriesUser`: a refresh under way presents the token of the session it
  will end in, or that session is `crossed`. `SpentTokenDropped` makes a presented
  token one that the tab no longer holds. `WaitersHaveRefresh` stands on its own:
  a refresh that ends releases all who wait.
- `ExplorerInvariant`: `PagesSpec => []ExplorerInv`, and from it
  `SettledDeleteAlwaysHidden`. A listing is shown, fetched, kept to roll back to and
  shown ahead of its command, and a deleted job must be gone from all four
  (`BuriedAreGone`). It is, because a command that ran alone is still the latest of
  its key when it ends, so that its effect is stored and every answer read before is
  dropped (`AloneIsLatest`), and what it has had confirmed is gone from the table,
  which no id returns to (`ConfirmedAreGone`). `OptimismIsHeld` is what convergence
  rests on: no optimistic value, and no fetch that will be dropped, outlives the
  running command that will settle it. `OfferedAlwaysAccepted` needs the types only.
- `PagerInvariant`, and from it `TurningAlwaysShowsOthers`: the cursor is a multiple of
  the page size (`AtPageStart`). That the next page is not empty is a fact about ranks
  (`RankIsTaken`), since rows are counted among those that pass the filters.
- `DialogInvariant`, and from it `OneSubmissionAlways` (`OneUnderWay`: in an opening that
  began alone, whatever is under way keeps the button disabled) and
  `UntouchedStayCurrent` (`UntouchedIsKnown`: a field nobody typed into shows what the
  page knows, or what was saved while the page knows the last values fetched).
- `WorkspaceInvariant`, and from it `ListIsSelectedOrgs` and `SavedPairAlwaysBelongs`:
  an answer counts only for the organization that is selected (`CurrentCalls`), what
  is chosen is the user's (`OwnOrganizations`), and a project that was not picked from
  the selected organization's list is the stored one (`PickedPair`).
- `DashboardInvariant`: `DashboardSpec => [](ConsoleInv /\ SocketInv)`, and from it
  `PollingAlwaysKeepsUp`, `AnnouncedIsShown`, `OwnCommandIsSeen`,
  `OptimismAlwaysSettles` and `SocketLiveAgain`, for all 33 pairs of a page and a key
  it reads and both lengths of a tick (`TickValues`). The age of what is shown plus the
  time to the next poll never exceeds the interval, and a poll that is skipped follows
  a fetch that began less than `DedupingInterval` before (`PollIsNear`). The flush of an announced change is scheduled before the
  change is due (`FlushIsNear`), also when an answer read before the change arrives
  after it (`MissedIsScheduled`). `CommandsSound` goes through the table of pages: each
  command fetches again, or answers for, the keys it changes; `HopeIsHeld` and
  `OwnIsFetched` rest on it. While the socket is not joined, the delay left and the
  calm so far never exceed the longest backoff (`SocketInv`).

TLAPS does not handle fairness and `ENABLED`, so liveness is only model-checked:
`ClaimsResolve`, `ScheduledPromoted`, `ReadyUnblocked`, `BlockedNotDoomed`,
`RequestsSettle`, `RefusalEndsSession` and `ExplorerConverges`. The findings are
counterexamples of TLC.

## Not modelled

- The live hub (`live.go`): rooms, buffers and slow subscribers. For the dashboard
  a subscriber that is dropped is a socket that closes and events that are lost,
  both of which its models have. The kick channel of the poller: a claim is
  possible whenever a job is eligible, which covers every way to be woken.
- The authorization cache, membership, and the quota and lock behind a failure
  summary: they touch no job, and their own races are listed as hazards.
- The workflow graph and the backoff arithmetic, pure algorithms whose results the
  models leave open (any acyclic dependencies, any bounded delay).
- Workers that serve different queues, and a change of `shard_count`.
- Logout at the server, which no client calls; password hashing, JWTs, rate limits.
- Cron parsing, payloads, logs, metrics and heartbeat rows: I/O or data that no
  transition reads. The order in which a poll takes eligible jobs.
- Rendering: charts, menus, toasts, animation, the landing page, and the wording
  and layout of the pages, of which `ConsolePages` keeps the data they read and the
  commands they offer. Field validation of the forms.
- A banner's threshold against the polling that feeds it: presentation, though worth
  a look when either changes.

## Plan

1. Done: the job lifecycle (`JobTable` ... `JobContract`), its runs and proofs.
2. Done: `SchedulerLock` and `ShardOwnership`, their run and proofs.
3. Done: the dashboard - `WebSession`, the pages with state of their own, the cache
   and the socket - its runs and proofs.
4. `LiveHub`: rooms, buffers, slow subscribers. No room without members, a refused
   subscriber leaves nothing behind.
5. `AuthzCache` and `OrgMembership`: lookups and writes interleaved with changes of
   the same rows.
6. `WorkflowGraph` and `Backoff`: pure algorithms against reference definitions,
   `findCycle` and `Resolve` over all small graphs, `calcDelay` with its widths.
