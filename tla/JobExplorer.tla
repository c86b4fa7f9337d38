---------------------------- MODULE JobExplorer -----------------------------
(***************************************************************************)
(* The job explorer's listing: a cached, filtered listing, and the retry,  *)
(* cancel and delete commands on it, which show their effect before the    *)
(* API has confirmed it.  JobPager has the pages and the selection.        *)
(*                                                                         *)
(* A listing is a function from the ids it holds to their status.          *)
(***************************************************************************)
EXTENDS SwrCache

CONSTANTS
  Jobs,
  Commands,     (* Bounds the commands that run at once.                   *)
  Scenes        (* What one behaviour uses of the three: a set of records. *)

ASSUME ExplorerParameters ==
  /\ Scenes # {}
  /\ Scenes \subseteq [keys : SUBSET Keys, jobs : SUBSET Jobs, commands : SUBSET Commands]
  /\ "all" \in Keys /\ NULL \notin Commands

VARIABLES
  scene,      (* The filters, jobs and commands of this behaviour.         *)
  table,      (* table: the server's jobs.                                 *)
  filter,     (* The state filter, and so the key of the listing.          *)
  laggy,      (* The listing last shown under another key.                 *)
  command,    (* command[c]: a retry, cancel or delete that is running.    *)
  latest,     (* latest[k]: the command that last mutated the key.         *)
  buried      (* buried[k]: deleted by a command with the key for itself.  *)

vars == <<cache, scene, table, filter, laggy, command, latest, buried>>

(* "running" stands for every status no command applies to.                *)
Status == {"queued", "running", "failed", "cancelled"}
Listing == UNION {[S -> Status] : S \in SUBSET Jobs}
NoRows == [j \in {} |-> "queued"]

ASSUME NullIsNoListing == NULL \notin Listing

(* What the API accepts (handler/job.go Retry, Cancel, Purge).             *)
Accepts(action, status) ==
  CASE action = "retry"  -> status \in {"failed", "cancelled"}
    [] action = "cancel" -> status = "queued"
    [] action = "delete" -> TRUE

(* lib/job-actions.ts.                                                     *)
CanRetryLive(status) == status \in {"failed", "cancelled", "running"}
CanRetry(status)  == status \in {"failed", "cancelled"}
CanCancel(status) == status = "queued"

EffectRetrying(rows, action, ids) ==
  CASE action = "delete" -> [j \in DOMAIN rows \ ids |-> rows[j]]
    [] action = "retry"  -> [j \in DOMAIN rows |-> IF j \in ids THEN "retrying" ELSE rows[j]]
    [] action = "cancel" -> [j \in DOMAIN rows |-> IF j \in ids THEN "cancelled" ELSE rows[j]]

Effect(rows, action, ids) ==
  CASE action = "delete" -> [j \in DOMAIN rows \ ids |-> rows[j]]
    [] action = "retry"  -> [j \in DOMAIN rows |-> IF j \in ids THEN "queued" ELSE rows[j]]
    [] action = "cancel" -> [j \in DOMAIN rows |-> IF j \in ids THEN "cancelled" ELSE rows[j]]

(* applyJobAction, on "current ?? []".                                     *)
ApplyDeleteLater(rows, action, ids) ==
  IF rows = NULL THEN NoRows ELSE IF action = "delete" THEN rows ELSE Effect(rows, action, ids)

ApplyJobAction(rows, action, ids) ==
  IF rows = NULL THEN NoRows ELSE Effect(rows, action, ids)

(* ListByProject under a state filter.                                     *)
Listed(k) == [j \in {i \in DOMAIN table : k = "all" \/ table[i] = k} |-> table[j]]

NoCommand == [pc |-> "none", action |-> "retry", key |-> "all", targets |-> {},
              todo |-> {}, failed |-> {}, base |-> NULL, alone |-> FALSE]

Running(c) == command[c].pc = "running"
Busy(k) == latest[k] # NULL

TypeOK ==
  /\ CacheTypeOK(Listing)
  /\ scene \in Scenes
  /\ table \in Listing
  /\ filter \in Keys
  /\ laggy \in Listing \cup {NULL}
  /\ command \in [Commands -> [pc : {"none", "running"}, action : {"retry", "cancel", "delete"},
                               key : Keys, targets : SUBSET Jobs, todo : SUBSET Jobs,
                               failed : SUBSET Jobs, base : Listing \cup {NULL}, alone : BOOLEAN]]
  /\ latest \in [Keys -> Commands \cup {NULL}]
  /\ buried \in [Keys -> SUBSET Jobs]

Init ==
  /\ CacheInit
  /\ scene \in Scenes
  /\ table \in [scene.jobs -> {"queued", "failed"}]
  /\ filter = "all" /\ laggy = NULL
  /\ command = [c \in Commands |-> NoCommand]
  /\ latest = [k \in Keys |-> NULL]
  /\ buried = [k \in Keys |-> {}]

-----------------------------------------------------------------------------
(* keepPreviousData: until the new key has data, the previous listing.     *)
Shown == IF data[filter] # NULL THEN data[filter] ELSE laggy

Rows == IF Shown = NULL THEN NoRows ELSE Shown

Ready == ~err[filter]

(* A new key: what was shown stays until it has data, and the entry is     *)
(* fetched unless it is being fetched already.                             *)
SetFilter(k) ==
  /\ Ready /\ k \in scene.keys \ {filter}
  /\ filter' = k
  /\ laggy' = Shown
  /\ fetch' = IF fetch[k].pc # "none" THEN fetch
              ELSE [fetch EXCEPT ![k] = Asked(Busy(k))]
  /\ UNCHANGED <<data, committed, err, scene, table, command, latest, buried>>

(* The refresh button, the retry button of the error screen, and mutate()  *)
(* when a job has been created.                                            *)
Refresh ==
  /\ Revalidate(filter, Busy(filter))
  /\ UNCHANGED <<data, committed, err, scene, table, filter, laggy, command, latest, buried>>

(* runAction: the optimistic listing at once, then a call for each target. *)
RunAction(c, action, targets) ==
  /\ ~Running(c) /\ c \in scene.commands /\ targets # {}
  /\ MutateStart(filter, ApplyJobAction(Base(filter), action, targets))
  /\ latest' = [latest EXCEPT ![filter] = c]
  /\ command' = [d \in Commands |->
       IF d = c
         THEN [pc |-> "running", action |-> action, key |-> filter, targets |-> targets,
               todo |-> targets, failed |-> {}, base |-> Base(filter),
               alone |-> \A e \in Commands : ~Running(e)]
         ELSE [command[d] EXCEPT !.alone = FALSE]]
  /\ UNCHANGED <<scene, table, filter, laggy, buried>>

Retryable(S)   == {j \in S : CanRetry(Rows[j])}
Cancellable(S) == {j \in S : CanCancel(Rows[j])}

(* A row's menu, or the bulk menu on any selected rows of the listing.     *)
UserCommand(c) ==
  /\ Ready
  /\ \E S \in SUBSET DOMAIN Rows : \/ RunAction(c, "retry", Retryable(S))
                                  \/ RunAction(c, "cancel", Cancellable(S))
                                  \/ RunAction(c, "delete", S)

ServerEffect(action, j) == table' = Effect(table, action, {j})

(* One of the calls is answered.  The API refuses a job whose status does  *)
(* not admit the action, or that is gone; a lost answer counts as refused, *)
(* whether or not the API acted.                                           *)
CallReturns(c, j) ==
  /\ Running(c) /\ j \in command[c].todo
  /\ LET ok == j \in DOMAIN table /\ Accepts(command[c].action, table[j])
     IN  \/ /\ ok /\ ServerEffect(command[c].action, j)
            /\ command' = [command EXCEPT ![c].todo = @ \ {j}]
         \/ /\ command' = [command EXCEPT ![c].todo = @ \ {j}, ![c].failed = @ \cup {j}]
            /\ \/ ok /\ ServerEffect(command[c].action, j)
               \/ UNCHANGED table
  /\ UNCHANGED <<cache, scene, filter, laggy, latest, buried>>

(* All calls are settled: the last mutation of the key shows its effect    *)
(* for good, or rolls all of it back when any call failed, and fetches; an *)
(* earlier one does nothing more.                                          *)
Finish(c) ==
  /\ Running(c) /\ command[c].todo = {}
  /\ LET k == command[c].key
         failed == command[c].failed # {}
         result == IF failed THEN command[c].base
                   ELSE ApplyJobAction(command[c].base, command[c].action, command[c].targets)
     IN  /\ IF latest[k] = c
               THEN MutateEnd(k, result, failed) /\ latest' = [latest EXCEPT ![k] = NULL]
               ELSE UNCHANGED <<cache, latest>>
         /\ buried' = [buried EXCEPT ![k] =
              IF command[c].action = "delete" /\ ~failed /\ command[c].alone
                THEN @ \cup command[c].targets ELSE @]
  /\ command' = [command EXCEPT ![c] = NoCommand]
  /\ UNCHANGED <<scene, table, filter, laggy>>

-----------------------------------------------------------------------------
(* useAllJobs polls the key that is mounted.                               *)
PollOnce(k) == data[k] = NULL /\ k = filter /\ Poll(k, Busy(k))
PollListing(k) == k = filter /\ Poll(k, Busy(k))

FetchStep(k) == ServerReads(k, Listed(k)) \/ Arrive(k) \/ FetchFails(k)

Fetching(k) ==
  /\ FetchStep(k) \/ PollListing(k)
  /\ UNCHANGED <<scene, table, filter, laggy, command, latest, buried>>

(* The workers, and the retention of old jobs.                             *)
Work(j) ==
  /\ j \in DOMAIN table
  /\ \/ table[j] = "queued" /\ table' = [table EXCEPT ![j] = "running"]
     \/ table[j] = "running" /\ table' = [table EXCEPT ![j] = "failed"]
     \/ table[j] = "running" /\ ServerEffect("delete", j)
  /\ UNCHANGED <<cache, scene, filter, laggy, command, latest, buried>>

CommandStep(c) == (\E j \in Jobs : CallReturns(c, j)) \/ Finish(c)

Next ==
  \/ \E k \in Keys : SetFilter(k) \/ Fetching(k)
  \/ Refresh
  \/ \E c \in Commands : UserCommand(c) \/ CommandStep(c)
  \/ \E j \in Jobs : Work(j)

Spec == Init /\ [][Next]_vars

(* The browser settles every call and fetch, and its timers fire.          *)
Fairness ==
  /\ \A c \in Commands : WF_vars(CommandStep(c))
  /\ \A k \in Keys : WF_vars(Fetching(k))

FairSpec == Spec /\ Fairness

-----------------------------------------------------------------------------
(* A job deleted by a command with the listing for itself is never shown   *)
(* in it again, whichever answers were on their way (runAction, applyJob-  *)
(* Action): ids are not reused, and the API has deleted the row.           *)
SettledDeleteStaysHidden ==
  \A k \in Keys : data[k] # NULL => buried[k] \cap DOMAIN data[k] = {}

(* What the menu of an up-to-date row offers, the API accepts              *)
(* (lib/job-actions.ts against handler/job.go).                            *)
OfferedCommandAccepted ==
  data[filter] = Listed(filter) =>
    \A j \in DOMAIN Rows : /\ CanRetry(Rows[j])  => Accepts("retry", table[j])
                           /\ CanCancel(Rows[j]) => Accepts("cancel", table[j])

(* Once the user only switches filters, the listing shows what the API     *)
(* has, or an error, again and again: no rolled back or dropped optimistic *)
(* value stays (runAction's rollback and revalidate, useAllJobs' polls).   *)
ListConverges ==
  (<>[](\A c \in Commands : ~Running(c)) /\ <>[][~Refresh]_vars)
    => []<>(err[filter] \/ data[filter] = Listed(filter))
=============================================================================
