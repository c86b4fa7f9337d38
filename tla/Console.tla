------------------------------ MODULE Console -------------------------------
(***************************************************************************)
(* One page of the dashboard, mounted, and one cache key it reads: the     *)
(* polls, the live events, the focus of the tab and the page's own         *)
(* commands all fetch it, and disturb each other's timers and answers.     *)
(*                                                                         *)
(* Assumed: a fetch is answered, or has failed, before the next tick.      *)
(***************************************************************************)
EXTENDS Integers, ConsolePages

CONSTANT Views    (* The pages and keys to look at.                        *)

ASSUME ViewsOfPages == \A v \in Views : v.page \in DOMAIN Pages /\ v.key \in Pages[v.page].reads
ASSUME NullIsNoTime == NULL \notin Int

VARIABLES
  view,
  shown,      (* What the page shows of the key: nothing, what is so now,  *)
              (* what was, what a command hopes for, or what a failure     *)
              (* that is not reported has left a gap in.                   *)
  err,
  fetch,      (* The fetch in flight.                                      *)
  recent,     (* Ticks for which a fetch begun counts as a moment ago.     *)
  due,        (* Ticks until the next poll.                                *)
  visible,
  late,       (* Ticks in view with what is shown outdated.                *)
  live,       (* useIsLive: the socket has joined its room (LiveSocket).   *)
  lane,       (* Ticks until the flush of the key's lane; NULL: no timer.  *)
  pending,    (* The flush will fetch the key.                             *)
  told,       (* Ticks by which an announced change is to be shown.        *)
  command,    (* The page's command under way.                             *)
  own         (* "due": a command succeeded, what is shown predates it.    *)

entry == <<shown, err, fetch, recent, due, late>>
lanes == <<lane, pending, told>>
commands == <<command, own>>
vars == <<view, visible, live, entry, lanes, commands>>

key == view.key
page == Pages[view.page]
Interval == RefreshInterval(key, live)

NoFetch == [pc |-> "none", missed |-> "nothing"]
Asked == [pc |-> "asked", missed |-> "nothing"]
Idle == [pc |-> "none", of |-> NULL]

HiddenFlush == Ticks(20)
AggregateFlush == Ticks(4)
FlushDelay == IF ~visible THEN HiddenFlush ELSE IF key \in Aggregate THEN AggregateFlush ELSE 0

(* The count of ticks stops one past every bound on it.                    *)
MaxLate == PollStatic + DedupingInterval + 2

TypeOK ==
  /\ view \in Views /\ visible \in BOOLEAN
  /\ shown \in {"none", "now", "old", "ahead", "gap"} /\ err \in BOOLEAN
  /\ fetch \in [pc : {"none", "asked", "read"}, missed : {"nothing", "change", "announced"}]
  /\ recent \in 0..(DedupingInterval + 1) /\ due \in 0..(PollStatic + 1)
  /\ late \in 0..MaxLate
  /\ live \in BOOLEAN
  /\ lane \in 0..HiddenFlush \cup {NULL} /\ pending \in BOOLEAN
  /\ told \in -1..HiddenFlush \cup {NULL}
  /\ command.pc \in {"none", "sent", "acted", "overtaken"}
  /\ own \in {"none", "due", "overdue"}

Init ==
  /\ view \in Views /\ visible = TRUE
  /\ shown \in {"none", "old"} /\ err = FALSE
  /\ fetch = Asked /\ recent = DedupingInterval + 1 /\ due = Base(key) /\ late = 0
  /\ live = FALSE
  /\ lane = NULL /\ pending = FALSE /\ told = NULL
  /\ command = Idle /\ own = "none"

(* When the flush is due of an event that arrives now.                     *)
Promised == IF lane # NULL THEN lane ELSE FlushDelay

-----------------------------------------------------------------------------
(* The fetches.  mutate() drops the one in flight; the others join it.     *)
Revalidate == fetch' = Asked /\ recent' = DedupingInterval + 1

ServerReads ==
  /\ fetch.pc = "asked" /\ fetch' = [fetch EXCEPT !.pc = "read"]
  /\ UNCHANGED <<view, visible, shown, err, recent, due, late, live, lanes, commands>>

Arrives ==
  /\ fetch.pc = "read" /\ fetch' = NoFetch
  /\ shown' = IF fetch.missed = "nothing" THEN "now" ELSE "old"
  /\ err' = FALSE /\ late' = 0
  /\ told' = IF fetch.missed = "announced" THEN Promised ELSE NULL
  /\ own' = "none"
  /\ UNCHANGED <<view, visible, recent, due, live, lane, pending, command>>

Fails ==
  /\ fetch.pc # "none" /\ fetch' = NoFetch
  /\ IF key \in Swallows THEN shown' = "gap" /\ err' = FALSE ELSE err' = TRUE /\ UNCHANGED shown
  /\ late' = 0
  /\ UNCHANGED <<view, visible, recent, due, live, lanes, commands>>

(* The poll timer runs on without a fetch while the entry has an error or  *)
(* the tab is hidden; a fetch begun a moment ago counts as this one.       *)
PollsOn == visible /\ key \notin Unpolled

Poll ==
  /\ due = 0 /\ due' = Interval
  /\ IF PollsOn /\ ~err /\ fetch.pc = "none"
       THEN Revalidate \/ (recent > 0 /\ UNCHANGED <<fetch, recent>>)
       ELSE UNCHANGED <<fetch, recent>>
  /\ UNCHANGED <<view, visible, shown, err, late, live, lanes, commands>>

(* Back in view, the entry is fetched, but not twice in thirty seconds.    *)
Hide ==
  /\ visible /\ visible' = FALSE /\ late' = 0
  /\ UNCHANGED <<view, shown, err, fetch, recent, due, live, lanes, commands>>

Focus ==
  /\ ~visible /\ visible' = TRUE
  /\ \/ fetch.pc = "none" /\ Revalidate
     \/ UNCHANGED <<fetch, recent>>
  /\ UNCHANGED <<view, shown, err, due, late, live, lanes, commands>>

(* The button of the error screen.                                         *)
RetryScreen ==
  /\ err /\ key = page.main /\ (page.hides \/ shown = "none")
  /\ Revalidate
  /\ UNCHANGED <<view, visible, shown, err, due, late, live, lanes, commands>>

-----------------------------------------------------------------------------
(* Something happens on the server, and its event arrives, if it has one   *)
(* and it is not lost: without Redis, or with a full buffer on the way.    *)
Outdate(change, announced) ==
  IF key \in Affects[change]
    THEN /\ shown' = IF shown = "now" THEN "old" ELSE shown
         /\ fetch' = IF fetch.pc # "read" THEN fetch
                     ELSE [fetch EXCEPT !.missed = IF announced /\ key \in Announced[change]
                                                     THEN "announced"
                                                     ELSE IF @ = "announced" THEN @ ELSE "change"]
    ELSE UNCHANGED <<shown, fetch>>

(* schedule: the timer of the key's lane, unless it runs already, for this *)
(* key or another of the lane.                                             *)
SameLane(k) == (k \in Aggregate) = (key \in Aggregate)

Schedule(change) ==
  /\ pending' = (pending \/ key \in Scheduled(Event[change]))
  /\ lane' = IF lane = NULL /\ \E k \in Scheduled(Event[change]) : SameLane(k)
               THEN FlushDelay ELSE lane

Happens(change, announced) ==
  /\ announced => live /\ Event[change] # Silent
  /\ Outdate(change, announced)
  /\ IF announced
       THEN /\ Schedule(change)
            /\ told' = IF told = NULL /\ key \in Announced[change] THEN Promised ELSE told
       ELSE UNCHANGED lanes

(* It may overtake an answer that is to be shown as it is.                 *)
ServerChanges ==
  /\ \E change \in Changes, announced \in BOOLEAN :
       /\ Happens(change, announced)
       /\ command' = IF command.pc = "acted" /\ command.of.answers /\ key \in Affects[change]
                       THEN [command EXCEPT !.pc = "overtaken"] ELSE command
  /\ UNCHANGED <<view, visible, err, recent, due, late, live, own>>

(* flush: each scheduled key is fetched, whether the tab is visible or not *)
(* and whether the entry has an error or not.                              *)
Flush ==
  /\ lane = 0 /\ lane' = NULL /\ pending' = FALSE
  /\ IF pending THEN Revalidate ELSE UNCHANGED <<fetch, recent>>
  /\ UNCHANGED <<view, visible, shown, err, due, late, live, told, commands>>

-----------------------------------------------------------------------------
(* The socket joins its room or loses it, at any time.  Where the refresh  *)
(* interval differs, the poll timer starts anew.                           *)
LiveFlips ==
  /\ live' = ~live
  /\ IF RefreshInterval(key, ~live) = Interval THEN UNCHANGED <<due, late>>
     ELSE due' = RefreshInterval(key, ~live) /\ late' = 0
  /\ UNCHANGED <<view, visible, shown, err, fetch, recent, lanes, commands>>

-----------------------------------------------------------------------------
(* A command: mutate(next, false) first when it is optimistic, and when it *)
(* is answered the fetch of its keys, or mutate(answer, false).            *)
Start(c) ==
  /\ command = Idle /\ command' = [pc |-> "sent", of |-> c]
  /\ IF c.optimistic /\ key \in c.keys
       THEN shown' = "ahead" /\ fetch' = NoFetch /\ err' = FALSE /\ late' = 0
       ELSE UNCHANGED <<shown, fetch, err, late>>
  /\ UNCHANGED <<view, visible, recent, due, live, lanes, own>>

Acts(announced) ==
  /\ command.pc = "sent" /\ command' = [command EXCEPT !.pc = "acted"]
  /\ Happens(command.of.change, announced)
  /\ UNCHANGED <<view, visible, err, recent, due, late, live, own>>

Answered(ok) ==
  /\ command.pc # "none" /\ (ok => command.pc \in {"acted", "overtaken"})
  /\ command' = Idle
  /\ LET fetched == key \in command.of.keys /\ (ok \/ command.of.always)
     IN  /\ IF fetched
              THEN IF command.of.answers
                     THEN /\ shown' = IF command.pc = "acted" THEN "now" ELSE "old"
                          /\ fetch' = NoFetch /\ err' = FALSE /\ late' = 0
                          /\ UNCHANGED recent
                     ELSE Revalidate /\ UNCHANGED <<shown, err, late>>
              ELSE UNCHANGED <<fetch, recent, shown, err, late>>
         /\ own' = IF /\ ok
                      /\ key \in Affects[command.of.change] \cap (command.of.keys \cup {page.main})
                     THEN IF command.of.answers THEN "none" ELSE "due" ELSE own
  /\ UNCHANGED <<view, visible, due, live, lanes>>

-----------------------------------------------------------------------------
(* A tick passes when nothing that takes less is to happen.                *)
Tick ==
  /\ fetch.pc = "none" /\ due > 0 /\ lane # 0
  /\ due' = (IF key \in Unpolled THEN due ELSE due - 1)
  /\ recent' = IF recent = 0 THEN 0 ELSE recent - 1
  /\ lane' = IF lane = NULL THEN NULL ELSE lane - 1
  /\ told' = IF told = NULL \/ told = -1 THEN told ELSE told - 1
  /\ late' = IF PollsOn /\ shown \in {"none", "old", "gap"} /\ late < MaxLate
               THEN late + 1 ELSE late
  /\ own' = IF own = "due" THEN "overdue" ELSE own
  /\ UNCHANGED <<view, visible, shown, live, err, fetch, pending, command>>

Next ==
  \/ ServerReads \/ Arrives \/ Fails \/ Poll \/ Hide \/ Focus \/ RetryScreen
  \/ ServerChanges \/ Flush \/ LiveFlips
  \/ \E c \in page.commands : Start(c)
  \/ \E b \in BOOLEAN : Acts(b) \/ Answered(b)
  \/ Tick

Spec == Init /\ [][Next]_vars

-----------------------------------------------------------------------------
(* Polling keeps up: what is shown is outdated for no longer than its key  *)
(* is polled at without a live connection, or the safety net with one, and *)
(* a poll that another fetch made skip, even if every event is lost.  It   *)
(* is counted since the tab came into view, the live status changed or a   *)
(* fetch failed, and says nothing of an entry whose last fetch reported    *)
(* failure: shouldRetryOnError is off, and SWR does not poll such an entry *)
(* until a flush, a command or the user fetches it (useRefresh,            *)
(* providers.tsx).  The interval is the code's: 15 seconds for workers and *)
(* 45 with a live connection, where texts of the repository say five.      *)
PollBound ==
  DedupingInterval
    + (IF live /\ key \notin OwnPolls \cup StaticPolls THEN PushSafetyNet ELSE Base(key))

PollingKeepsUp == err \/ late <= PollBound

(* Tradeoffs.md:87: "SWR's polling is the baseline - always correct".      *)
PollingAlwaysCorrect == late <= PollBound

(* The entry has an error, or a gap by one that was swallowed, or shows    *)
(* what a command under way hopes for.                                     *)
Excused == err \/ shown \in {"ahead", "gap"}

(* A change whose event arrives is on the page when the flush of its lane  *)
(* has been answered: a focused key's at once, an aggregate's in four      *)
(* seconds, and either in twenty when the tab was hidden.  Also when the   *)
(* flush drops a fetch that is under way, or a command or a poll drops the *)
(* flush's (handleEvent, schedule, flush).                                 *)
AnnouncedShown == told = -1 => Excused

(* Tradeoffs.md:380: events are "flushed once a second", which costs "up   *)
(* to a second of extra latency on a live update".                         *)
FlushedOnceASecond ==
  visible /\ shown = "old" /\ ~err /\ fetch = NoFetch /\ told # NULL => told <= Ticks(1)

(* What a command of the page has done is shown at once (the mutate()      *)
(* after each call of the pages, while polls, flushes and other commands   *)
(* fetch the same key).                                                    *)
OwnCommandSeen == own = "overdue" => Excused

(* What a command only hopes for is not shown for longer than the command  *)
(* and the fetch after it, when the API refuses (togglePause).             *)
OptimismSettles == shown = "ahead" => command # Idle \/ fetch # NoFetch \/ err
=============================================================================
