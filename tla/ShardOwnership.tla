--------------------------- MODULE ShardOwnership ---------------------------
(***************************************************************************)
(* Which worker polls which shard of a sharded queue (shard.go, and the    *)
(* topology of poller.go).  The workers of a project meet in a Redis set,  *)
(* each under the time of its last heartbeat; each derives on its own,     *)
(* from the members it read, the shards for which it has the best score.   *)
(*                                                                         *)
(* A tick is five seconds.  Two goroutines of a worker refresh its         *)
(* topology, one every ten seconds and one for each event about a queue,   *)
(* and either may put its result over the other's.  What a refresh asks    *)
(* of Redis and of the database is answered before the next tick.          *)
(***************************************************************************)
EXTENDS Naturals

CONSTANTS
  Members,      (* The ids of the workers that serve the queue; a process  *)
                (* that starts again has a new one.                        *)
  Shards,
  Score,        (* shard.go's score, ties broken by the name.              *)
  MemberTTL,    (* membershipTTL in ticks.                                 *)
  RefreshEvery  (* topologyInterval in ticks.                              *)

ASSUME ScoreAssumption ==
  /\ Score \in [Shards -> [Members -> Nat]]
  /\ \A s \in Shards : \A w, x \in Members : Score[s][w] = Score[s][x] => w = x

ASSUME IntervalsAssumption ==
  MemberTTL \in Nat /\ RefreshEvery \in Nat \ {0} /\ RefreshEvery < MemberTTL

Tasks == {"timer", "event"}   (* watchTopology and watchEvents.            *)

VARIABLES
  seen,     (* Ticks since each member's heartbeat; MemberTTL: not listed. *)
  alive,    (* The workers whose poll loop runs.                           *)
  owned,    (* The shards of the queue that each polls.                    *)
  derived,  (* What a task of a worker derived and has not published: at   *)
            (* most one set of shards.                                     *)
  refreshIn, (* Ticks until a worker's topology ticker fires.              *)
  paused,   (* The queue is paused.                                        *)
  registry, (* Redis answers.                                              *)
  settled,  (* Ticks since anything but time happened.                     *)
  unpolled  (* Ticks a shard has had no owner, since a worker came or went *)
            (* or the queue was paused or resumed.                         *)

shardVars == <<seen, alive, owned, derived, refreshIn, paused, registry, settled, unpolled>>

Enough == MemberTTL + RefreshEvery

ShardTypeOK ==
  /\ seen \in [Members -> 0..MemberTTL] /\ alive \subseteq Members
  /\ owned \in [Members -> SUBSET Shards]
  /\ derived \in [Members -> [Tasks -> SUBSET (SUBSET Shards)]]
  /\ refreshIn \in [Members -> 0..RefreshEvery]
  /\ paused \in BOOLEAN /\ registry \in BOOLEAN
  /\ settled \in 0..(Enough + 1) /\ unpolled \in 0..(Enough + 1)

NothingDerived == [t \in Tasks |-> {}]

ShardInit ==
  /\ seen = [w \in Members |-> MemberTTL] /\ alive = {}
  /\ owned = [w \in Members |-> {}] /\ derived = [w \in Members |-> NothingDerived]
  /\ refreshIn = [w \in Members |-> 0]
  /\ paused = FALSE /\ registry = TRUE /\ settled = 0 /\ unpolled = 0

-----------------------------------------------------------------------------
Listed == {w \in Members : seen[w] < MemberTTL}

(* shard.Owned: the shards for which w has the best score among those it   *)
(* read and itself.                                                        *)
Owned(w, read) ==
  {s \in Shards : \A x \in read \cup {w} : Score[s][x] <= Score[s][w]}

NoShards(w) == {}
AllShards(w) == Shards   (* Rather two workers on a shard than none.       *)

(* RefreshTopology up to its lock: the heartbeat of the registry lists the *)
(* members, itself included, unless no sharded queue is left to poll.      *)
Heartbeat(w, t) ==
  /\ ~paused /\ registry
  /\ derived' = [derived EXCEPT ![w][t] = {Owned(w, Listed)}]
  /\ seen' = [seen EXCEPT ![w] = 0]

Unlisted(w, t) ==
  /\ derived' = [derived EXCEPT ![w][t] = {IF paused THEN {} ELSE AllShards(w)}]
  /\ UNCHANGED seen

Derive(w, t) == Heartbeat(w, t) \/ (Unlisted(w, t) /\ (paused \/ ~registry))

Unsettle == settled' = 0

(* watchTopology's ticker.                                                 *)
TimerRefresh(w) ==
  /\ w \in alive /\ refreshIn[w] = 0 /\ derived[w]["timer"] = {}
  /\ Derive(w, "timer")
  /\ refreshIn' = [refreshIn EXCEPT ![w] = RefreshEvery]
  /\ UNCHANGED <<alive, owned, paused, registry, settled, unpolled>>

(* The database, or once Redis, fails a refresh: the topology stays, or    *)
(* claims every shard; a heartbeat whose answer is lost may have counted.  *)
RefreshFails(w) ==
  /\ w \in alive /\ refreshIn[w] = 0 /\ derived[w]["timer"] = {}
  /\ \/ UNCHANGED <<derived, seen>>
     \/ Unlisted(w, "timer")
     \/ /\ ~paused /\ registry /\ seen' = [seen EXCEPT ![w] = 0]
        /\ derived' = [derived EXCEPT ![w]["timer"] = {AllShards(w)}]
  /\ refreshIn' = [refreshIn EXCEPT ![w] = RefreshEvery]
  /\ Unsettle /\ unpolled' = 0
  /\ UNCHANGED <<alive, owned, paused, registry>>

(* watchEvents, for queue.paused and queue.resumed; an event may come      *)
(* late, twice or never.                                                   *)
EventRefresh(w) ==
  /\ w \in alive /\ derived[w]["event"] = {}
  /\ Derive(w, "event")
  /\ UNCHANGED <<alive, owned, refreshIn, paused, registry, settled, unpolled>>

PublishMore(w, t) ==
  /\ w \in alive
  /\ \E o \in derived[w][t] : owned' = [owned EXCEPT ![w] = @ \cup o]
  /\ derived' = [derived EXCEPT ![w][t] = {}]
  /\ UNCHANGED <<seen, alive, refreshIn, paused, registry, settled, unpolled>>

(* The rest of RefreshTopology: under the lock, p.topo = next.             *)
Publish(w, t) ==
  /\ w \in alive
  /\ \E o \in derived[w][t] : owned' = [owned EXCEPT ![w] = o]
  /\ derived' = [derived EXCEPT ![w][t] = {}]
  /\ UNCHANGED <<seen, alive, refreshIn, paused, registry, settled, unpolled>>

(* Run refreshes the topology before it starts the two tasks.              *)
Join(w) ==
  /\ w \notin alive /\ seen[w] = MemberTTL
  /\ alive' = alive \cup {w}
  /\ IF paused \/ ~registry
       THEN owned' = [owned EXCEPT ![w] = IF paused THEN {} ELSE AllShards(w)]
            /\ UNCHANGED seen
       ELSE owned' = [owned EXCEPT ![w] = Owned(w, Listed)]
            /\ seen' = [seen EXCEPT ![w] = 0]
  /\ refreshIn' = [refreshIn EXCEPT ![w] = RefreshEvery]
  /\ Unsettle /\ unpolled' = 0
  /\ UNCHANGED <<derived, paused, registry>>

(* The poll loop and the tasks end: with the process, or on SIGTERM.       *)
Quit(w) ==
  /\ w \in alive /\ alive' = alive \ {w}
  /\ owned' = [owned EXCEPT ![w] = {}]
  /\ derived' = [derived EXCEPT ![w] = NothingDerived]
  /\ refreshIn' = [refreshIn EXCEPT ![w] = 0]
  /\ Unsettle /\ unpolled' = 0
  /\ UNCHANGED <<seen, paused, registry>>

(* Deregister, after the drain; it may fail, or the process end before it. *)
Leave(w) ==
  /\ w \notin alive /\ seen[w] < MemberTTL /\ registry
  /\ seen' = [seen EXCEPT ![w] = MemberTTL]
  /\ UNCHANGED <<alive, owned, derived, refreshIn, paused, registry, settled, unpolled>>

PauseOrResume ==
  /\ paused' = ~paused /\ Unsettle /\ unpolled' = 0
  /\ UNCHANGED <<seen, alive, owned, derived, refreshIn, registry>>

(* Redis goes away or comes back, with its data or without.                *)
RegistryFails ==
  /\ registry /\ registry' = FALSE /\ Unsettle
  /\ UNCHANGED <<seen, alive, owned, derived, refreshIn, paused, unpolled>>

RegistryBack ==
  /\ ~registry /\ registry' = TRUE /\ Unsettle
  /\ seen' \in {seen, [w \in Members |-> MemberTTL]}
  /\ UNCHANGED <<alive, owned, derived, refreshIn, paused, unpolled>>

-----------------------------------------------------------------------------
Polled(s) == {w \in alive : s \in owned[w]}

ShardTick ==
  /\ \A w \in alive : refreshIn[w] > 0 /\ derived[w] = NothingDerived
  /\ seen' = [w \in Members |-> IF seen[w] < MemberTTL THEN seen[w] + 1 ELSE MemberTTL]
  /\ refreshIn' = [w \in Members |-> IF w \in alive THEN refreshIn[w] - 1 ELSE 0]
  /\ settled' = IF settled <= Enough THEN settled + 1 ELSE settled
  /\ unpolled' = IF paused \/ alive = {} \/ \A s \in Shards : Polled(s) # {}
                 THEN 0 ELSE IF unpolled <= Enough THEN unpolled + 1 ELSE unpolled
  /\ UNCHANGED <<alive, owned, derived, paused, registry>>

ShardNext ==
  \/ \E w \in Members :
       \/ TimerRefresh(w) \/ RefreshFails(w) \/ EventRefresh(w)
       \/ \E t \in Tasks : Publish(w, t)
       \/ Join(w) \/ Quit(w) \/ Leave(w)
  \/ PauseOrResume \/ RegistryFails \/ RegistryBack \/ ShardTick

ShardSpec == ShardInit /\ [][ShardNext]_shardVars

-----------------------------------------------------------------------------
(* After a change of the workers, of the queue or of Redis, the shards are *)
(* settled once an expiry and a refresh have passed: each has one owner,   *)
(* or every worker while Redis fails, and a paused queue has none,         *)
(* although every worker decided alone, some from outdated lists           *)
(* (RefreshTopology, Owned).                                               *)
ShardsSettle ==
  settled > Enough =>
    \A s \in Shards, w \in alive :
      w \in Polled(s) <=>
        ~paused /\ (registry => \A x \in alive : Score[s][x] <= Score[s][w])

(* With a worker running, no shard of a queue that is not paused stays     *)
(* without an owner for longer than an expiry and a refresh, not even      *)
(* while Redis comes and goes (ownedShards claims all without it).         *)
ShardsPolled == unpolled <= Enough
=============================================================================
