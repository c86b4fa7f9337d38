-------------------------- MODULE DashboardProofs ---------------------------
(***************************************************************************)
(* A page of the dashboard keeps up with the server through its polls, the *)
(* live events and its own commands, and the socket that carries the       *)
(* events comes back.                                                      *)
(***************************************************************************)
EXTENDS LiveDashboard, TLAPS

-----------------------------------------------------------------------------
(* The pages as data.                                                      *)

(* The delays in ticks, whatever the length of one: the safety net is      *)
(* further off than the other polls of use-data.ts, and no flush of        *)
(* use-live-events.ts than the one of a hidden tab.                        *)
LEMMA TickValues ==
  /\ PollLive \in 1..PollSlow /\ PollSlow \in Nat /\ PushSafetyNet \in Nat
  /\ PollSlow < PushSafetyNet
  /\ PollStatic = PushSafetyNet + 1 /\ PollStatic \in Nat
  /\ DedupingInterval \in Nat
  /\ HiddenFlush \in Nat /\ AggregateFlush \in 0..HiddenFlush
<1> USE DEF PollLive, PollSlow, PushSafetyNet, PollStatic, DedupingInterval, HiddenFlush,
            AggregateFlush, Ticks
<1>1. CASE TickLength = 1
  BY <1>1
<1>2. CASE TickLength = 5
  BY <1>2
<1>3. QED
  BY <1>1, <1>2, TickDividesIntervals

(* The intervals of use-data.ts: a poll is never further off than the      *)
(* longest, and a live connection slows down all but the keys that keep    *)
(* their own.                                                              *)
LEMMA Rates ==
  ASSUME NEW k, NEW l \in BOOLEAN
  PROVE  /\ Base(k) \in 1..(PollStatic + 1)
         /\ RefreshInterval(k, l) \in 1..(PollStatic + 1)
         /\ k \notin Unpolled =>
              RefreshInterval(k, l) = IF l /\ k \notin OwnPolls \cup StaticPolls
                                        THEN PushSafetyNet ELSE Base(k)
<1>1. /\ k \in OwnPolls \cup LivePolls => Base(k) = PollLive
      /\ k \in StaticPolls => Base(k) = PollStatic
      /\ k \in Unpolled => Base(k) = PollStatic + 1
      /\ k \notin OwnPolls \cup LivePolls \cup StaticPolls \cup Unpolled => Base(k) = PollSlow
  BY DEF Base, OwnPolls, LivePolls, OneJob, StaticPolls, Unpolled
<1>2. k \in OwnPolls => k \notin StaticPolls \cup Unpolled
  BY DEF OwnPolls, StaticPolls, Unpolled
<1>3. QED
  BY <1>1, <1>2, TickValues DEF RefreshInterval

(* What every command of every page is like: one that shows its effect     *)
(* early fetches whatever the answer is, and one that changes what its     *)
(* page is about fetches it.                                               *)
SoundCommand(p, c) ==
  /\ c.change \in Changes
  /\ c.optimistic => c.always /\ ~c.answers
  /\ c.answers => c.keys \subseteq Unpolled \cap Affects[c.change] /\ ~c.always
  /\ p.main \in Affects[c.change] => p.main \in c.keys

(* Each command of each page is of that kind (the mutate() calls after the *)
(* api calls in app/(app)).                                                *)
LEMMA CommandsSound ==
  \A p \in DOMAIN Pages : \A c \in Pages[p].commands : SoundCommand(Pages[p], c)
<1> USE DEF SoundCommand, Changes, Affects, JobKeys, JobLists, OneJob, OneQueue,
            AfterSuccess, Always, Command, Unpolled
<1>1. \A c \in ScheduledJobs.commands : SoundCommand(ScheduledJobs, c)
  BY DEF ScheduledJobs, Page
<1>2. \A c \in Batches.commands : SoundCommand(Batches, c)
  BY DEF Batches, CreateBatch, Page
<1>3. \A c \in JobDetail.commands : SoundCommand(JobDetail, c)
  BY DEF JobDetail, JobCommands, Generate, Page
<1>4. \A c \in QueueManager.commands : SoundCommand(QueueManager, c)
  BY DEF QueueManager, TogglePause, RemoveQueue, SaveQueue, Page
<1>5. \A c \in QueueDetail.commands : SoundCommand(QueueDetail, c)
  BY DEF QueueDetail, SaveQueue, Page
<1>6. \A c \in DLQ.commands : SoundCommand(DLQ, c)
  BY DEF DLQ, RetryAll, DiscardUnhandled, DLQEntryCommands, Page
<1>7. /\ TopBar.commands = {} /\ Dashboard.commands = {} /\ Analytics.commands = {}
      /\ WorkerMonitor.commands = {} /\ WorkerDetail.commands = {}
  BY DEF TopBar, Dashboard, Analytics, WorkerMonitor, WorkerDetail, NoScreen, Page
<1>8. QED
  BY ONLY <1>1, <1>2, <1>3, <1>4, <1>5, <1>6, <1>7 DEF Pages

(* An event schedules every key it tells to have changed (handleEvent).    *)
LEMMA AnnouncedScheduled ==
  ASSUME NEW change \in Changes, Event[change] # Silent
  PROVE  Announced[change] \subseteq Scheduled(Event[change]) \ Unpolled
<1> USE DEF Changes, Affects, Announced, Event, Scheduled, Silent, JobKeys, JobLists, OneJob,
            OneQueue, OwnPolls, Unpolled
<1>1. CASE change \in {"stepped", "promoted", "redriven", "redrivenAll"}
  BY <1>1
<1>2. CASE change = "died"
  BY <1>2
<1>3. CASE change \in {"paused", "beat"}
  BY <1>3
<1>4. QED
  BY <1>1, <1>2, <1>3

-----------------------------------------------------------------------------
(* The page.                                                               *)

(* The type invariant, by the actors that change its parts.                *)
EntryTyped ==
  /\ shown \in {"none", "now", "old", "ahead", "gap"} /\ err \in BOOLEAN
  /\ fetch \in [pc : {"none", "asked", "read"}, missed : {"nothing", "change", "announced"}]

TimersTyped ==
  /\ recent \in 0..(DedupingInterval + 1) /\ due \in 0..(PollStatic + 1)
  /\ late \in 0..MaxLate
  /\ lane \in 0..HiddenFlush \cup {NULL} /\ pending \in BOOLEAN
  /\ told \in -1..HiddenFlush \cup {NULL}

PageTyped ==
  /\ view \in Views /\ visible \in BOOLEAN /\ live \in BOOLEAN
  /\ command.pc \in {"none", "sent", "acted", "overtaken"}
  /\ own \in {"none", "due", "overdue"}

(* They are the type invariant.                                            *)
LEMMA TypedIsTypeOK == TypeOK <=> EntryTyped /\ TimersTyped /\ PageTyped
BY DEF TypeOK, EntryTyped, TimersTyped, PageTyped

(* No fetch and a new one are fetches.                                     *)
LEMMA FetchesTyped ==
  {NoFetch, Asked} \subseteq [pc : {"none", "asked", "read"},
                             missed : {"nothing", "change", "announced"}]
BY DEF NoFetch, Asked

(* The command under way is one of the page's.                             *)
CommandOfPage ==
  command \in {Idle} \cup [pc : {"sent", "acted", "overtaken"}, of : page.commands]

(* An answer read before an announced change leaves the flush to come.     *)
MissedIsScheduled ==
  /\ fetch.pc # "read" => fetch.missed = "nothing"
  /\ fetch.missed = "announced" => pending /\ lane # NULL /\ key \notin Unpolled

(* The next poll comes before the outdated entry is too old, unless a      *)
(* fetch is under way or a command's hope is shown; a poll can be skipped  *)
(* only while a fetch was answered a moment ago.                           *)
PollIsNear ==
  /\ PollsOn \/ late = 0
  /\ due <= Interval
  /\ ~err => late <= Interval + DedupingInterval
  /\ ~err /\ fetch.pc = "none" /\ shown # "ahead" /\ late > 0 =>
       /\ recent > 0 => late + recent <= DedupingInterval + 1
       /\ late + due <= Interval + DedupingInterval

(* The flush of an announced change comes before it is to be shown, unless *)
(* a fetch begun since is under way.                                       *)
FlushIsNear ==
  /\ told # NULL => key \notin Unpolled
  /\ told # NULL /\ told >= 0 =>
       fetch.pc # "none" \/ Excused \/ (pending /\ lane # NULL /\ lane <= told)
  /\ told = -1 => Excused

(* After a command of the page succeeded, its key is being fetched.        *)
OwnIsFetched ==
  /\ own = "due" => fetch.pc # "none" \/ Excused
  /\ own = "overdue" => Excused

(* The command that is hoped for, or the fetch after it, is under way.     *)
HopeIsHeld ==
  shown = "ahead" =>
    \/ command # Idle /\ command.of.optimistic /\ key \in command.of.keys
    \/ fetch.pc # "none"
    \/ err

ConsoleInv ==
  /\ TypeOK /\ CommandOfPage /\ MissedIsScheduled
  /\ PollIsNear /\ FlushIsNear /\ OwnIsFetched /\ HopeIsHeld

(* The count begins anew, and with it every delay of the poll.             *)
LEMMA CountFromNow ==
  ASSUME TypeOK', late' = 0, due' <= Interval'
  PROVE  PollIsNear'
<1>1. Interval' \in 1..(PollStatic + 1)
  <2>1. \A l \in BOOLEAN : RefreshInterval(key', l) \in 1..(PollStatic + 1)
    BY Rates
  <2>2. QED
    BY <2>1 DEF Interval, TypeOK
<1>2. \A i \in 1..(PollStatic + 1) : 0 <= i + DedupingInterval
  BY TickValues
<1>3. late' <= Interval' + DedupingInterval
  BY <1>1, <1>2
<1>4. ~(late' > 0)
  OBVIOUS
<1>5. QED
  BY <1>3, <1>4 DEF PollIsNear

(* A fetch that begins breaks nothing, and excuses every delay.            *)
LEMMA RevalidateKeepsInv ==
  ASSUME ConsoleInv, Revalidate,
         UNCHANGED <<view, shown, err, late, live, commands>>,
         due' = due \/ due' = Interval,
         visible' \in BOOLEAN, PollsOn => PollsOn',
         told' = told, pending' \in BOOLEAN, lane' \in {lane, NULL}
  PROVE  ConsoleInv'
<1> USE NullIsNoTime DEF ConsoleInv, Revalidate, Asked, commands
<1> Interval \in 1..(PollStatic + 1) /\ Interval' = Interval
  BY Rates DEF Interval, key, TypeOK
<1>1. TypeOK'
  BY DEF TypeOK
<1>2. PollIsNear'
  BY DEF PollIsNear, TypeOK
<1>3. CommandOfPage' /\ MissedIsScheduled' /\ FlushIsNear' /\ OwnIsFetched' /\ HopeIsHeld'
  BY DEF CommandOfPage, page, key, MissedIsScheduled, FlushIsNear, Excused, OwnIsFetched,
         HopeIsHeld
<1>4. QED
  BY <1>1, <1>2, <1>3

(* The fetches, the polls, and the tab's visibility keep the invariant.    *)
LEMMA FetchStepsKeepInv ==
  ASSUME ConsoleInv,
         ServerReads \/ Arrives \/ Fails \/ Poll \/ Hide \/ Focus \/ RetryScreen
  PROVE  ConsoleInv'
<1> TypeOK /\ CommandOfPage
  BY DEF ConsoleInv
<1> USE NullIsNoTime DEF ConsoleInv, lanes, commands
<1>1. Interval \in 1..(PollStatic + 1)
  BY Rates DEF Interval, TypeOK
<1>2. CASE ServerReads
  BY <1>1, <1>2 DEF ServerReads, TypeOK, CommandOfPage, MissedIsScheduled, PollIsNear, PollsOn,
     FlushIsNear, Excused, OwnIsFetched, HopeIsHeld, Interval, key, page
<1>3. CASE Arrives
  <2> USE <1>1, <1>3, TickValues DEF Arrives, NoFetch, Promised, FlushDelay
  <2>1. TypeOK'
    <3> EntryTyped /\ TimersTyped /\ PageTyped
      BY TypedIsTypeOK DEF ConsoleInv
    <3>1. EntryTyped'
      BY DEF EntryTyped
    <3>2. TimersTyped'
      BY TickValues DEF TimersTyped, MaxLate
    <3>3. PageTyped'
      BY DEF PageTyped
    <3>4. QED
      BY ONLY <3>1, <3>2, <3>3 DEF EntryTyped, TimersTyped, PageTyped, TypeOK
  <2>7. CommandOfPage'
    BY ONLY CommandOfPage, <1>3 DEF CommandOfPage, page, commands, Arrives
  <2>2. MissedIsScheduled'
    BY DEF TypeOK, MissedIsScheduled, key
  <2>3. PollIsNear'
    BY <2>1, CountFromNow DEF PollIsNear, Interval, key
  <2>4. FlushIsNear'
    BY DEF TypeOK, FlushIsNear, MissedIsScheduled, Excused, key
  <2>5. OwnIsFetched' /\ HopeIsHeld'
    BY DEF TypeOK, OwnIsFetched, HopeIsHeld, Excused, key
  <2>6. QED
    BY <2>1, <2>2, <2>3, <2>4, <2>5, <2>7
<1>4. CASE Fails
  <2> USE <1>1, <1>4 DEF Fails, NoFetch
  <2>1. TypeOK'
    <3> EntryTyped /\ TimersTyped /\ PageTyped
      BY TypedIsTypeOK DEF ConsoleInv
    <3>1. EntryTyped'
      BY DEF EntryTyped
    <3>2. TimersTyped'
      BY TickValues DEF TimersTyped, MaxLate
    <3>3. PageTyped'
      BY DEF PageTyped
    <3>4. QED
      BY ONLY <3>1, <3>2, <3>3 DEF EntryTyped, TimersTyped, PageTyped, TypeOK
  <2>7. CommandOfPage'
    BY ONLY CommandOfPage, <1>4 DEF CommandOfPage, page, commands, Fails
  <2>2. MissedIsScheduled'
    BY DEF TypeOK, MissedIsScheduled, key
  <2>3. PollIsNear'
    BY <2>1, CountFromNow DEF PollIsNear, Interval, key
  <2>4. FlushIsNear'
    BY DEF TypeOK, FlushIsNear, MissedIsScheduled, Excused, key
  <2>5. OwnIsFetched' /\ HopeIsHeld'
    BY DEF TypeOK, OwnIsFetched, HopeIsHeld, Excused, key
  <2>6. QED
    BY <2>1, <2>2, <2>3, <2>4, <2>5, <2>7
<1>5. CASE Poll
  <2>1. CASE Revalidate
    BY <1>1, <1>5, <2>1, RevalidateKeepsInv DEF Poll, PollsOn, key, TypeOK
  <2>2. CASE UNCHANGED <<fetch, recent>>
    <3> USE <1>5, <2>2 DEF Poll
    <3>1. TypeOK'
      BY <1>1 DEF TypeOK
    <3>2. PollIsNear'
      <4>1. Interval' = Interval /\ due' = Interval /\ late' = late /\ (PollsOn' <=> PollsOn)
        BY DEF Interval, PollsOn, key
      <4>2. late \in Nat /\ recent \in Nat
        BY TickValues DEF TypeOK, MaxLate
      <4>3. PollsOn /\ ~err /\ fetch.pc = "none" => recent > 0
        BY <4>2 DEF Revalidate, NoFetch, Asked
      <4>4. QED
        BY <1>1, <4>1, <4>2, <4>3, TickValues DEF PollIsNear
    <3>3. CommandOfPage' /\ MissedIsScheduled'
      BY DEF CommandOfPage, MissedIsScheduled, key, page
    <3>4. FlushIsNear' /\ OwnIsFetched' /\ HopeIsHeld'
      BY DEF FlushIsNear, Excused, OwnIsFetched, HopeIsHeld, key
    <3>5. QED
      BY <3>1, <3>2, <3>3, <3>4
  <2>3. QED
    BY <1>5, <2>1, <2>2 DEF Poll
<1>6. CASE Hide
  <2> USE <1>1, <1>6 DEF Hide
  <2>1. TypeOK'
    <3> EntryTyped /\ TimersTyped /\ PageTyped
      BY TypedIsTypeOK DEF ConsoleInv
    <3>1. EntryTyped'
      BY DEF EntryTyped
    <3>2. TimersTyped'
      BY TickValues DEF TimersTyped, MaxLate
    <3>3. PageTyped'
      BY DEF PageTyped
    <3>4. QED
      BY ONLY <3>1, <3>2, <3>3 DEF EntryTyped, TimersTyped, PageTyped, TypeOK
  <2>7. CommandOfPage'
    BY ONLY CommandOfPage, <1>6 DEF CommandOfPage, page, commands, Hide
  <2>2. MissedIsScheduled'
    BY DEF TypeOK, MissedIsScheduled, key
  <2>3. PollIsNear'
    BY <2>1, CountFromNow DEF PollIsNear, Interval, key
  <2>4. FlushIsNear'
    BY DEF TypeOK, FlushIsNear, MissedIsScheduled, Excused, key
  <2>5. OwnIsFetched' /\ HopeIsHeld'
    BY DEF TypeOK, OwnIsFetched, HopeIsHeld, Excused, key
  <2>6. QED
    BY <2>1, <2>2, <2>3, <2>4, <2>5, <2>7
<1>7. CASE Focus
  <2> USE <1>1, <1>7 DEF Focus, Revalidate, Asked
  <2>1. TypeOK'
    <3> EntryTyped /\ TimersTyped /\ PageTyped
      BY TypedIsTypeOK DEF ConsoleInv
    <3>1. EntryTyped'
      BY DEF EntryTyped
    <3>2. TimersTyped'
      BY TickValues DEF TimersTyped, MaxLate
    <3>3. PageTyped'
      BY DEF PageTyped
    <3>4. QED
      BY ONLY <3>1, <3>2, <3>3 DEF EntryTyped, TimersTyped, PageTyped, TypeOK
  <2>7. CommandOfPage'
    BY ONLY CommandOfPage, <1>7 DEF CommandOfPage, page, commands, Focus
  <2>2. MissedIsScheduled'
    BY DEF TypeOK, MissedIsScheduled, key
  <2>3. PollIsNear'
    BY DEF TypeOK, PollIsNear, PollsOn, Interval, key
  <2>4. FlushIsNear'
    BY DEF TypeOK, FlushIsNear, MissedIsScheduled, Excused, key
  <2>5. OwnIsFetched' /\ HopeIsHeld'
    BY DEF TypeOK, OwnIsFetched, HopeIsHeld, Excused, key
  <2>6. QED
    BY <2>1, <2>2, <2>3, <2>4, <2>5, <2>7
<1>8. CASE RetryScreen
  BY <1>8, RevalidateKeepsInv DEF RetryScreen, PollsOn, key, TypeOK
<1>9. QED
  BY <1>2, <1>3, <1>4, <1>5, <1>6, <1>7, <1>8

(* An event that arrives leaves the entry's timers as they are, and gives  *)
(* the change it announces a flush.                                        *)
LEMMA HappensKeeps ==
  ASSUME ConsoleInv, NEW change \in Changes, NEW announced \in BOOLEAN,
         Happens(change, announced), UNCHANGED <<view, visible, err, recent, due, late, live>>
  PROVE  /\ EntryTyped' /\ TimersTyped' /\ MissedIsScheduled' /\ PollIsNear' /\ FlushIsNear'
         /\ fetch'.pc = fetch.pc /\ (shown' = "ahead" <=> shown = "ahead")
         /\ (Excused' <=> Excused)
<1> USE NullIsNoTime DEF Happens, Outdate, Schedule, lanes
<1> EntryTyped /\ TimersTyped /\ visible \in BOOLEAN /\ live \in BOOLEAN
  BY DEF ConsoleInv, TypeOK, EntryTyped, TimersTyped
<1>1. announced /\ key \in Announced[change] =>
        key \in Scheduled(Event[change]) /\ key \notin Unpolled
  BY AnnouncedScheduled
<1>2. EntryTyped' /\ fetch'.pc = fetch.pc
  BY DEF EntryTyped
<1>3. TimersTyped'
  BY TickValues DEF TimersTyped, Promised, FlushDelay
<1>4. (shown' = "ahead" <=> shown = "ahead") /\ (Excused' <=> Excused)
  BY DEF Excused
<1>5. announced /\ key \in Announced[change] => pending' /\ lane' # NULL /\ lane' = Promised
  <2> SUFFICES ASSUME announced, key \in Announced[change]
               PROVE  pending' /\ lane' # NULL /\ lane' = Promised
    OBVIOUS
  <2>1. SameLane(key) /\ key \in Scheduled(Event[change])
    BY <1>1 DEF SameLane
  <2>2. pending' /\ lane' = IF lane = NULL THEN FlushDelay ELSE lane
    BY <2>1
  <2>3. FlushDelay # NULL
    BY TickValues DEF FlushDelay
  <2>4. QED
    BY <2>2, <2>3 DEF Promised
<1>6. (pending => pending') /\ (lane # NULL => lane' = lane)
  BY DEF TimersTyped
<1>7. MissedIsScheduled'
  BY <1>1, <1>2, <1>5, <1>6 DEF ConsoleInv, MissedIsScheduled, EntryTyped, key
<1>8. PollIsNear'
  BY <1>2, <1>4 DEF ConsoleInv, PollIsNear, PollsOn, Interval, key
<1>9. FlushIsNear'
  <2>1. CASE UNCHANGED told
    BY <1>2, <1>4, <1>6, <2>1 DEF ConsoleInv, FlushIsNear, key
  <2>2. CASE told = NULL /\ announced /\ key \in Announced[change] /\ told' = Promised
    BY <1>1, <1>5, <2>2, TickValues DEF FlushIsNear, key, TimersTyped, Promised, FlushDelay
  <2>3. QED
    BY <2>1, <2>2
<1>10. QED
  BY <1>2, <1>3, <1>4, <1>7, <1>8, <1>9

(* What happens on the server, by the page's command or not.               *)
LEMMA ServerKeepsInv ==
  ASSUME ConsoleInv, ServerChanges \/ \E b \in BOOLEAN : Acts(b)
  PROVE  ConsoleInv'
<1>1. ASSUME NEW change \in Changes, NEW announced \in BOOLEAN, Happens(change, announced),
             UNCHANGED <<view, visible, err, recent, due, late, live, own>>,
             command' = command \/ \E pc \in {"acted", "overtaken"} :
                                     /\ command.pc # "none"
                                     /\ command' = [command EXCEPT !.pc = pc]
      PROVE  ConsoleInv'
  <2>1. /\ EntryTyped' /\ TimersTyped' /\ MissedIsScheduled' /\ PollIsNear' /\ FlushIsNear'
        /\ fetch'.pc = fetch.pc /\ (shown' = "ahead" <=> shown = "ahead")
        /\ (Excused' <=> Excused)
    BY <1>1, HappensKeeps
  <2>2. CommandOfPage' /\ command'.pc \in {"none", "sent", "acted", "overtaken"}
        /\ (command # Idle => command' # Idle /\ command'.of = command.of)
    BY <1>1 DEF ConsoleInv, CommandOfPage, page, TypeOK, Idle
  <2>3. TypeOK'
    BY <1>1, <2>1, <2>2 DEF ConsoleInv, TypeOK, EntryTyped, TimersTyped
  <2>4. OwnIsFetched' /\ HopeIsHeld'
    BY <1>1, <2>1, <2>2 DEF ConsoleInv, OwnIsFetched, HopeIsHeld, key
  <2>5. QED
    BY <2>1, <2>2, <2>3, <2>4 DEF ConsoleInv
<1>2. CASE ServerChanges
  BY <1>1, <1>2 DEF ServerChanges
<1>3. ASSUME NEW b \in BOOLEAN, Acts(b) PROVE ConsoleInv'
  <2>1. command.of.change \in Changes
    BY <1>3, CommandsSound, ViewsOfPages
       DEF Acts, ConsoleInv, CommandOfPage, page, TypeOK, Idle, SoundCommand
  <2>2. QED
    BY <1>1, <1>3, <2>1 DEF Acts
<1>4. QED
  BY <1>2, <1>3

(* The flush of the lane, and the live status.                             *)
LEMMA LaneKeepsInv == ASSUME ConsoleInv, Flush \/ LiveFlips PROVE ConsoleInv'
<1> USE NullIsNoTime DEF ConsoleInv, lanes, commands
<1>1. CASE Flush
  <2>1. CASE pending
    BY <1>1, <2>1, RevalidateKeepsInv DEF Flush, PollsOn, key, TypeOK
  <2>2. CASE ~pending
    <3> USE <1>1, <2>2 DEF Flush
    <3>1. TypeOK' /\ CommandOfPage'
      <4>1. /\ lane' = NULL /\ pending' = FALSE
            /\ UNCHANGED <<view, visible, shown, err, fetch, recent, due, late, live, told, command, own>>
        BY ONLY <1>1, <2>2 DEF Flush, commands
      <4>2. TypeOK'
        <5>1. EntryTyped'
          BY ONLY <4>1, TypeOK DEF TypeOK, EntryTyped
        <5>2. TimersTyped'
          BY ONLY <4>1, TypeOK DEF TypeOK, TimersTyped
        <5>3. PageTyped'
          BY ONLY <4>1, TypeOK DEF TypeOK, PageTyped
        <5>4. QED
          BY <5>1, <5>2, <5>3 DEF TypeOK, EntryTyped, TimersTyped, PageTyped
      <4>3. CommandOfPage'
        BY ONLY <4>1, CommandOfPage DEF CommandOfPage, page
      <4>4. QED
        BY <4>2, <4>3
    <3>2. MissedIsScheduled' /\ PollIsNear'
      BY DEF MissedIsScheduled, PollIsNear, PollsOn, Interval, key
    <3>3. FlushIsNear' /\ OwnIsFetched' /\ HopeIsHeld'
      BY DEF FlushIsNear, OwnIsFetched, HopeIsHeld, Excused, key
    <3>4. QED
      BY <3>1, <3>2, <3>3
  <2>3. QED
    BY <2>1, <2>2 DEF TypeOK
<1>2. CASE LiveFlips
  <2> USE <1>2 DEF LiveFlips
  <2> TypeOK
    OBVIOUS
  <2>0. /\ RefreshInterval(key, live) \in 1..(PollStatic + 1)
        /\ RefreshInterval(key, ~live) \in 1..(PollStatic + 1)
    BY Rates DEF TypeOK
  <2>1. TypeOK'
    <3> EntryTyped /\ TimersTyped /\ PageTyped
      BY TypedIsTypeOK DEF ConsoleInv
    <3>1. EntryTyped'
      BY DEF EntryTyped
    <3>2. TimersTyped'
      BY <2>0, TickValues DEF TimersTyped, MaxLate
    <3>3. PageTyped'
      BY DEF PageTyped
    <3>4. QED
      BY ONLY <3>1, <3>2, <3>3 DEF EntryTyped, TimersTyped, PageTyped, TypeOK
  <2>2. CommandOfPage'
    BY DEF CommandOfPage, page
  <2>3. MissedIsScheduled'
    BY DEF TypeOK, MissedIsScheduled, key
  <2>4. PollIsNear'
    <3>1. CASE Interval' = Interval /\ UNCHANGED <<due, late>>
      BY <3>1 DEF PollIsNear, PollsOn, key
    <3>2. CASE due' = Interval' /\ late' = 0
      <4>1. due' <= Interval'
        BY <2>0, <3>2, TickValues DEF Interval, key
      <4>2. QED
        BY <2>1, <3>2, <4>1, CountFromNow
    <3>3. QED
      BY <3>1, <3>2 DEF Interval, key
  <2>5. FlushIsNear'
    BY DEF TypeOK, FlushIsNear, Excused, key
  <2>6. OwnIsFetched' /\ HopeIsHeld'
    BY DEF TypeOK, OwnIsFetched, HopeIsHeld, Excused, key
  <2>7. QED
    BY <2>1, <2>2, <2>3, <2>4, <2>5, <2>6
<1>3. QED
  BY <1>1, <1>2

(* A command that starts: its hope takes the place of the entry and of the *)
(* fetch.                                                                  *)
LEMMA StartKeepsInv ==
  ASSUME ConsoleInv, NEW c \in page.commands, Start(c)
  PROVE  ConsoleInv'
<1> USE NullIsNoTime DEF ConsoleInv, Start, NoFetch, lanes
<1> DEFINE hopes == c.optimistic /\ key \in c.keys
<1>1. /\ IF hopes THEN shown' = "ahead" /\ fetch' = NoFetch /\ err' = FALSE /\ late' = 0
         ELSE UNCHANGED <<shown, fetch, err, late>>
      /\ command = Idle /\ command' = [pc |-> "sent", of |-> c]
  OBVIOUS
<1>2. CommandOfPage'
  BY <1>1 DEF CommandOfPage, page
<1>3. command' # Idle /\ command'.of = c
  BY <1>1 DEF Idle
<1> HIDE DEF hopes
<1>4. TypeOK'
  <2> EntryTyped /\ TimersTyped /\ PageTyped
    BY TypedIsTypeOK DEF ConsoleInv
  <2>1. EntryTyped'
    BY ONLY EntryTyped, <1>1, FetchesTyped DEF EntryTyped
  <2>2. TimersTyped'
    BY TickValues DEF TimersTyped, MaxLate
  <2>3. PageTyped'
    BY <1>1 DEF PageTyped
  <2>4. QED
    BY ONLY <2>1, <2>2, <2>3 DEF EntryTyped, TimersTyped, PageTyped, TypeOK
<1>5. MissedIsScheduled' /\ PollIsNear'
  <2>1. Interval' = Interval /\ due' <= Interval'
    BY DEF PollIsNear, Interval, key
  <2>2. CASE hopes
    BY <1>1, <1>4, <2>1, <2>2, CountFromNow DEF MissedIsScheduled, key
  <2>3. CASE ~hopes
    BY <1>1, <2>3 DEF MissedIsScheduled, PollIsNear, PollsOn, Interval, key
  <2>4. QED
    BY <2>2, <2>3
<1>6. FlushIsNear' /\ OwnIsFetched'
  BY <1>1 DEF FlushIsNear, OwnIsFetched, Excused, key
<1>7. HopeIsHeld'
  <2>1. CASE hopes
    BY <1>3, <2>1 DEF hopes, HopeIsHeld, key
  <2>2. CASE ~hopes
    BY <1>1, <2>2 DEF HopeIsHeld
  <2>3. QED
    BY <2>1, <2>2
<1>8. QED
  BY <1>2, <1>4, <1>5, <1>6, <1>7

(* The answer of a command: its fetch, or the answer itself, replaces what *)
(* was hoped for.                                                          *)
LEMMA AnsweredKeepsInv ==
  ASSUME ConsoleInv, NEW ok \in BOOLEAN, Answered(ok)
  PROVE  ConsoleInv'
<1> USE NullIsNoTime DEF ConsoleInv, lanes
<1> DEFINE c == command.of
           fetched == key \in c.keys /\ (ok \/ c.always)
           answered == fetched /\ c.answers
<1>1. c \in page.commands /\ SoundCommand(page, c)
  BY CommandsSound, ViewsOfPages DEF Answered, CommandOfPage, Idle, page, TypeOK
<1>2. /\ command' = Idle /\ UNCHANGED <<view, visible, due, live, lane, pending, told>>
      /\ answered => /\ shown' \in {"now", "old"} /\ fetch' = NoFetch /\ err' = FALSE
                      /\ late' = 0 /\ UNCHANGED recent
      /\ fetched /\ ~answered => Revalidate /\ UNCHANGED <<shown, err, late>>
      /\ ~fetched => UNCHANGED <<fetch, recent, shown, err, late>>
  BY DEF Answered
<1>3. answered => key \in Unpolled \cap Affects[c.change] /\ ok
  BY <1>1 DEF SoundCommand
<1>4. /\ answered => own' = "none"
      /\ own' \in {own, "none"} \/ (own' = "due" /\ fetched)
  <2>1. CASE ok /\ key \in Affects[c.change] \cap (c.keys \cup {page.main})
    <3>1. fetched
      BY <1>1, <2>1 DEF SoundCommand
    <3>2. QED
      BY <2>1, <3>1 DEF Answered
  <2>2. CASE ~(ok /\ key \in Affects[c.change] \cap (c.keys \cup {page.main}))
    BY <1>3, <2>2 DEF Answered
  <2>3. QED
    BY <2>1, <2>2
<1>5. command.of.optimistic /\ key \in command.of.keys => fetched
  BY <1>1 DEF SoundCommand
<1> HIDE DEF c, fetched, answered
<1>6. CASE answered
  <2> USE <1>2, <1>3, <1>4, <1>6 DEF NoFetch
  <2>1. TypeOK'
    <3> EntryTyped /\ TimersTyped /\ PageTyped
      BY TypedIsTypeOK DEF ConsoleInv
    <3>1. EntryTyped'
      BY ONLY EntryTyped, <1>2, <1>6, FetchesTyped DEF EntryTyped
    <3>2. TimersTyped'
      BY TickValues DEF TimersTyped, MaxLate
    <3>3. PageTyped'
      BY DEF PageTyped, Idle
    <3>4. QED
      BY ONLY <3>1, <3>2, <3>3 DEF EntryTyped, TimersTyped, PageTyped, TypeOK
  <2>2. CommandOfPage'
    BY DEF CommandOfPage
  <2>3. MissedIsScheduled'
    BY DEF MissedIsScheduled, key
  <2>4. PollIsNear'
    BY <2>1, CountFromNow DEF PollIsNear, Interval, key
  <2>5. FlushIsNear' /\ OwnIsFetched' /\ HopeIsHeld'
    BY DEF FlushIsNear, OwnIsFetched, HopeIsHeld, key
  <2>6. QED
    BY <2>1, <2>2, <2>3, <2>4, <2>5
<1>7. CASE fetched /\ ~answered
  <2> USE <1>2, <1>4, <1>7 DEF Revalidate, Asked
  <2>1. TypeOK'
    <3> EntryTyped /\ TimersTyped /\ PageTyped
      BY TypedIsTypeOK DEF ConsoleInv
    <3>1. EntryTyped'
      BY DEF EntryTyped
    <3>2. TimersTyped'
      BY TickValues DEF TimersTyped, MaxLate
    <3>3. PageTyped'
      BY DEF PageTyped, Idle
    <3>4. QED
      BY ONLY <3>1, <3>2, <3>3 DEF EntryTyped, TimersTyped, PageTyped, TypeOK
  <2>2. CommandOfPage'
    BY DEF CommandOfPage
  <2>3. MissedIsScheduled' /\ PollIsNear'
    BY DEF MissedIsScheduled, PollIsNear, PollsOn, Interval, key
  <2>4. FlushIsNear' /\ OwnIsFetched' /\ HopeIsHeld'
    BY DEF FlushIsNear, OwnIsFetched, HopeIsHeld, Excused, key
  <2>5. QED
    BY <2>1, <2>2, <2>3, <2>4
<1>8. CASE ~fetched
  <2> USE <1>2, <1>4, <1>8
  <2>1. TypeOK'
    <3> EntryTyped /\ TimersTyped /\ PageTyped
      BY TypedIsTypeOK DEF ConsoleInv
    <3>1. EntryTyped'
      BY DEF EntryTyped
    <3>2. TimersTyped'
      BY TickValues DEF TimersTyped, MaxLate
    <3>3. PageTyped'
      BY DEF PageTyped, Idle
    <3>4. QED
      BY ONLY <3>1, <3>2, <3>3 DEF EntryTyped, TimersTyped, PageTyped, TypeOK
  <2>2. CommandOfPage'
    BY DEF CommandOfPage
  <2>3. MissedIsScheduled' /\ PollIsNear'
    BY DEF MissedIsScheduled, PollIsNear, PollsOn, Interval, key
  <2>4. FlushIsNear' /\ OwnIsFetched'
    BY DEF FlushIsNear, OwnIsFetched, Excused, key
  <2>5. HopeIsHeld'
    BY <1>5 DEF HopeIsHeld, key
  <2>6. QED
    BY <2>1, <2>2, <2>3, <2>4, <2>5
<1>9. QED
  BY <1>6, <1>7, <1>8 DEF answered

(* Five seconds bring every deadline nearer, and none has passed.          *)
LEMMA TickKeepsInv == ASSUME ConsoleInv, Tick PROVE ConsoleInv'
<1> USE NullIsNoTime DEF ConsoleInv, Tick
<1> EntryTyped /\ TimersTyped /\ PageTyped
  BY TypedIsTypeOK
<1>1. Interval \in 1..(PollStatic + 1) /\ Interval' = Interval
  BY Rates DEF Interval, key, PageTyped
<1>2. EntryTyped'
  BY DEF EntryTyped
<1>3. TimersTyped'
  <2> USE TickValues
  <2>0. recent' \in 0..(DedupingInterval + 1)
    BY DEF TimersTyped
  <2>1. due' \in 0..(PollStatic + 1)
    BY DEF TimersTyped
  <2>2. late' \in 0..MaxLate
    BY DEF TimersTyped, MaxLate
  <2>3. lane' \in 0..HiddenFlush \cup {NULL} /\ pending' \in BOOLEAN
    BY DEF TimersTyped
  <2>4. told' \in -1..HiddenFlush \cup {NULL}
    BY DEF TimersTyped
  <2>5. QED
    BY ONLY <2>0, <2>1, <2>2, <2>3, <2>4 DEF TimersTyped
<1>4. PageTyped'
  BY DEF PageTyped
<1>5. TypeOK'
  BY ONLY <1>2, <1>3, <1>4 DEF EntryTyped, TimersTyped, PageTyped, TypeOK
<1>6. CommandOfPage' /\ MissedIsScheduled'
  BY DEF CommandOfPage, page, MissedIsScheduled
<1>7. PollIsNear'
  BY <1>1, TickValues DEF TimersTyped, PollIsNear, PollsOn, key
<1>8. FlushIsNear'
  BY TickValues DEF TimersTyped, FlushIsNear, Excused, key
<1>9. OwnIsFetched' /\ HopeIsHeld'
  BY DEF OwnIsFetched, HopeIsHeld, Excused, key
<1>10. QED
  BY <1>5, <1>6, <1>7, <1>8, <1>9

(* The page and its entry satisfy the invariant at first, and every step   *)
(* keeps it.                                                               *)
LEMMA ConsoleInductive ==
  /\ Init => ConsoleInv
  /\ ConsoleInv /\ [Next]_vars => ConsoleInv'
<1>1. ASSUME Init PROVE ConsoleInv
  <2> USE NullIsNoTime, <1>1 DEF Init
  <2>1. /\ Base(key) \in 1..(PollStatic + 1) /\ RefreshInterval(key, live) \in 1..(PollStatic + 1)
        /\ RefreshInterval(key, live) = Base(key)
    BY Rates DEF RefreshInterval
  <2>2. EntryTyped
    BY FetchesTyped DEF EntryTyped
  <2>3. TimersTyped
    <3>1. due \in 0..(PollStatic + 1)
      BY <2>1, TickValues
    <3>2. late \in 0..MaxLate /\ recent \in 0..(DedupingInterval + 1)
      BY TickValues DEF MaxLate
    <3>3. QED
      BY <3>1, <3>2 DEF TimersTyped
  <2>4. PageTyped
    BY DEF PageTyped, Idle
  <2>5. CommandOfPage /\ MissedIsScheduled
    BY DEF CommandOfPage, MissedIsScheduled, Asked
  <2>6. PollIsNear
    BY <2>1, TickValues DEF PollIsNear, Interval
  <2>7. FlushIsNear /\ OwnIsFetched /\ HopeIsHeld
    BY DEF FlushIsNear, OwnIsFetched, HopeIsHeld
  <2>8. QED
    BY <2>2, <2>3, <2>4, <2>5, <2>6, <2>7, TypedIsTypeOK DEF ConsoleInv
<1>2. ASSUME ConsoleInv, Next PROVE ConsoleInv'
  BY <1>2, FetchStepsKeepInv, ServerKeepsInv, LaneKeepsInv, StartKeepsInv, AnsweredKeepsInv,
     TickKeepsInv DEF Next
<1>3. ASSUME ConsoleInv, UNCHANGED vars PROVE ConsoleInv'
  <2> USE <1>3 DEF ConsoleInv, vars, entry, lanes, commands
  <2>1. TypeOK' /\ CommandOfPage'
    BY DEF TypeOK, CommandOfPage, page
  <2>2. MissedIsScheduled' /\ PollIsNear'
    BY DEF MissedIsScheduled, PollIsNear, PollsOn, Interval, key
  <2>3. FlushIsNear' /\ OwnIsFetched' /\ HopeIsHeld'
    BY DEF FlushIsNear, OwnIsFetched, HopeIsHeld, Excused, key
  <2>4. QED
    BY <2>1, <2>2, <2>3
<1>4. QED
  BY <1>1, <1>2, <1>3

-----------------------------------------------------------------------------
(* The socket.                                                             *)

(* No delay is longer than the longest (Backoff, for every count of        *)
(* attempts).                                                              *)
LEMMA BackoffBounded == \A n \in 0..MaxAttempt : Backoff(n) \in 0..MaxBackoff
<1> SUFFICES ASSUME NEW n \in 0..5 PROVE <<1, 1, 1, 2, 3, 3>>[n + 1] \in 0..3
  BY DEF Backoff, MaxAttempt, MaxBackoff
<1>1. n = 0 \/ n = 1 \/ n = 2 \/ n = 3 \/ n = 4 \/ n = 5
  OBVIOUS
<1>2. QED
  BY <1>1

(* The status tells what the socket is, and the wait for the next attempt  *)
(* is over before the calm is.                                             *)
SocketInv ==
  /\ SocketTypeOK
  /\ link = "off" => status = "offline"
  /\ link = "joined" => status = "live"
  /\ ~up => calm = 0
  /\ link \in {"none", "opening", "open"} => wait + calm <= MaxBackoff

(* It holds through every loss, retry and cleanup of the socket (connect,  *)
(* close and the effect's cleanup in useLiveEvents).                       *)
LEMMA SocketInductive ==
  /\ SocketInit => SocketInv
  /\ SocketInv /\ [SocketNext]_socketVars => SocketInv'
<1> USE DEF SocketInv, SocketTypeOK, MaxAttempt, MaxBackoff
<1>1. SocketInit => SocketInv
  BY DEF SocketInit
<1>2. SocketInv /\ [SocketNext]_socketVars => SocketInv'
  <2> SUFFICES ASSUME SocketInv, [SocketNext]_socketVars PROVE SocketInv'
    OBVIOUS
  <2>1. CASE Connect \/ Opens \/ StreamReady
    BY <2>1 DEF Connect, Connecting, Opens, StreamReady
  <2>2. CASE Close
    BY <2>2, BackoffBounded DEF Close
  <2>3. CASE Outage
    BY <2>3 DEF Outage
  <2>4. CASE Rerun \/ SwitchOff
    BY <2>4 DEF Rerun, SwitchOff, CleanUp, Connecting
  <2>5. CASE SocketTick
    BY <2>5 DEF SocketTick
  <2>6. CASE UNCHANGED socketVars
    BY <2>6 DEF socketVars
  <2>7. QED
    BY <2>1, <2>2, <2>3, <2>4, <2>5, <2>6 DEF SocketNext
<1>3. QED
  BY <1>1, <1>2

-----------------------------------------------------------------------------
(* Both together.                                                          *)

(* The page and the socket keep their invariants, whichever of them takes  *)
(* the steps.                                                              *)
THEOREM DashboardInvariant == DashboardSpec => [](ConsoleInv /\ SocketInv)
<1>1. DashboardInit => ConsoleInv /\ SocketInv
  BY ConsoleInductive, SocketInductive DEF DashboardInit
<1>2. ConsoleInv /\ SocketInv /\ [DashboardNext]_dashboard => (ConsoleInv /\ SocketInv)'
  <2> SUFFICES ASSUME ConsoleInv, SocketInv, [DashboardNext]_dashboard
               PROVE  ConsoleInv' /\ SocketInv'
    OBVIOUS
  <2>1. [Next]_vars /\ [SocketNext]_socketVars
    BY DEF DashboardNext, dashboard
  <2>2. QED
    BY <2>1, ConsoleInductive, SocketInductive
<1>3. QED
  BY <1>1, <1>2, PTL DEF DashboardSpec

(* The states of the page and of the socket are of their types.            *)
THEOREM DashboardTypes == DashboardSpec => []DashboardTypeOK
<1>1. ConsoleInv /\ SocketInv => DashboardTypeOK
  BY DEF ConsoleInv, SocketInv, DashboardTypeOK
<1>2. QED
  BY <1>1, DashboardInvariant, PTL

(* What a page shows is never outdated for longer than its key's polls     *)
(* allow, whichever events are lost, or the fetch of its entry has failed  *)
(* and it is polled no more (useRefresh, shouldRetryOnError).              *)
THEOREM PollingAlwaysKeepsUp == DashboardSpec => []PollingKeepsUp
<1>1. ConsoleInv => PollingKeepsUp
  <2> SUFFICES ASSUME ConsoleInv, ~err PROVE late <= PollBound
    BY DEF PollingKeepsUp
  <2>1. live \in BOOLEAN /\ late \in Nat
    BY TickValues DEF ConsoleInv, TypeOK, MaxLate
  <2>2. Base(key) \in 1..(PollStatic + 1) /\ PollBound \in Nat
    BY <2>1, Rates, TickValues DEF PollBound
  <2>3. CASE key \in Unpolled
    BY <2>1, <2>2, <2>3 DEF ConsoleInv, PollIsNear, PollsOn
  <2>4. CASE key \notin Unpolled
    BY <2>1, <2>4, Rates, TickValues DEF ConsoleInv, PollIsNear, Interval, PollBound
  <2>5. QED
    BY <2>3, <2>4
<1>2. QED
  BY <1>1, DashboardInvariant, PTL

(* A change whose event arrives is shown when the flush of its lane has    *)
(* been answered, or the page has an excuse (handleEvent, flush).          *)
THEOREM AnnouncedIsShown == DashboardSpec => []AnnouncedShown
<1>1. ConsoleInv => AnnouncedShown
  BY DEF ConsoleInv, FlushIsNear, AnnouncedShown
<1>2. QED
  BY <1>1, DashboardInvariant, PTL

(* What the page's own command has done is shown with the fetch after it,  *)
(* or the page has an excuse (the mutate() after each call).               *)
THEOREM OwnCommandIsSeen == DashboardSpec => []OwnCommandSeen
<1>1. ConsoleInv => OwnCommandSeen
  BY DEF ConsoleInv, OwnIsFetched, OwnCommandSeen
<1>2. QED
  BY <1>1, DashboardInvariant, PTL

(* A hope outlives neither its command nor the fetch after it              *)
(* (togglePause).                                                          *)
THEOREM OptimismAlwaysSettles == DashboardSpec => []OptimismSettles
<1>1. ConsoleInv => OptimismSettles
  BY DEF ConsoleInv, HopeIsHeld, OptimismSettles, NoFetch
<1>2. QED
  BY <1>1, DashboardInvariant, PTL

(* After fifteen seconds of calm the connection is back (useLiveEvents).   *)
THEOREM SocketLiveAgain == DashboardSpec => []LiveAgain
<1>1. SocketInv => LiveAgain
  BY DEF SocketInv, SocketTypeOK, LiveAgain, MaxBackoff
<1>2. QED
  BY <1>1, DashboardInvariant, PTL
=============================================================================
