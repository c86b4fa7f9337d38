--------------------------- MODULE SchedulerLock ----------------------------
(***************************************************************************)
(* The election of the worker that sweeps a project's jobs: a Redis key    *)
(* with an owner's token and an expiry (lock.go), and the loop that each   *)
(* worker runs around it (Guard with RunScheduler's options).              *)
(*                                                                         *)
(* A tick is the retry interval, five seconds.  A worker that is not       *)
(* stalled does what its tickers ask for before the next tick; a stalled   *)
(* one does nothing, for as long as it likes, and its tickers have fired   *)
(* when it goes on.  A worker is a process: its guard starts with it and   *)
(* a crash ends both.                                                      *)
(***************************************************************************)
EXTENDS Naturals

CONSTANTS
  Candidates, (* The workers, which compete for the key.                   *)
  NoOne,      (* The key does not exist.                                   *)
  Nobody,     (* It holds a token that no guard has any more.              *)
  LockTTL,    (* schedulerLockTTL in ticks.                                *)
  RenewEvery  (* A third of it: the renewal's ticker.                      *)

ASSUME TimersAssumption ==
  /\ {NoOne, Nobody} \cap Candidates = {} /\ NoOne # Nobody
  /\ LockTTL \in Nat /\ RenewEvery \in Nat
  /\ 0 < RenewEvery /\ RenewEvery < LockTTL

VARIABLES
  owner,      (* Whose token the key holds.                                *)
  left,       (* Ticks until the key expires.                              *)
  guard,      (* Each worker's place in Guard.                             *)
  due,        (* Ticks until the ticker it waits for fires.                *)
  stalled,    (* The workers that do not run at the moment.                *)
  redisUp,
  late,       (* Those that stalled, or whose key Redis lost, since they   *)
              (* acquired it.                                              *)
  unkept,     (* Ticks each has held the lock, running, without the key.   *)
  unswept     (* Ticks since a sweep, or since a process stopped or a      *)
              (* grant was lost.                                           *)

keyVars == <<owner, left>>
lockVars == <<owner, left, guard, due, stalled, redisUp, late, unkept, unswept>>

Quiet == LockTTL + 2   (* Bounds unswept, one tick past what it may be.    *)

LockTypeOK ==
  /\ owner \in Candidates \cup {NoOne, Nobody} /\ left \in 0..LockTTL
  /\ guard \in [Candidates -> {"down", "trying", "granted", "holding", "ending"}]
  /\ due \in [Candidates -> 0..RenewEvery]
  /\ stalled \subseteq Candidates /\ late \subseteq Candidates /\ redisUp \in BOOLEAN
  /\ unkept \in [Candidates -> 0..(RenewEvery + 1)] /\ unswept \in 0..Quiet

LockInit ==
  /\ owner = NoOne /\ left = 0
  /\ guard = [w \in Candidates |-> "down"] /\ due = [w \in Candidates |-> 0]
  /\ stalled = {} /\ late = {} /\ redisUp = TRUE
  /\ unkept = [w \in Candidates |-> 0] /\ unswept = 0

-----------------------------------------------------------------------------
Runs(w, place) == guard[w] = place /\ w \notin stalled

(* Guard's loop goes back to its ticker, which fires every tick.           *)
TryAgain(w) == due' = [due EXCEPT ![w] = 1]

SetKey(o) == owner' = o /\ left' = LockTTL
Free == owner' = NoOne /\ left' = 0

(* releaseScript: the key goes only if it holds this guard's token.        *)
ReleaseAny(w) == Free
Release(w) == IF owner = w THEN Free ELSE UNCHANGED keyVars

(* A release that does not reach Redis leaves the token to expire.         *)
AbandonKey(w) ==
  /\ owner' = IF owner = w THEN Nobody ELSE owner
  /\ UNCHANGED left

(* OnUnavailable: without the lock service every worker sweeps, unguarded. *)
StandBy(w) == UNCHANGED unswept
OnUnavailable(w) == unswept' = 0

(* schedulerLoop, every tick and when it starts.                           *)
SweepNow == unswept' = 0

-----------------------------------------------------------------------------
Start(w) ==
  /\ guard[w] = "down"
  /\ guard' = [guard EXCEPT ![w] = "trying"] /\ due' = [due EXCEPT ![w] = 0]
  /\ unswept' = 0
  /\ UNCHANGED <<keyVars, stalled, redisUp, late, unkept>>

(* SETNX: granted, refused, or unanswered (Redis has set the key or not).  *)
Acquire(w) ==
  /\ Runs(w, "trying") /\ due[w] = 0 /\ redisUp /\ owner = NoOne
  /\ SetKey(w)
  /\ guard' = [guard EXCEPT ![w] = "granted"]
  /\ late' = late \ {w}
  /\ UNCHANGED <<due, stalled, redisUp, unkept, unswept>>

ErrNotAcquired(w) ==
  /\ Runs(w, "trying") /\ due[w] = 0 /\ redisUp /\ owner # NoOne
  /\ TryAgain(w)
  /\ UNCHANGED <<keyVars, guard, stalled, redisUp, late, unkept, unswept>>

AcquireFails(w) ==
  /\ Runs(w, "trying") /\ due[w] = 0
  /\ \/ UNCHANGED keyVars
     \/ redisUp /\ owner = NoOne /\ SetKey(Nobody)
  /\ OnUnavailable(w) /\ TryAgain(w)
  /\ UNCHANGED <<guard, stalled, redisUp, late, unkept>>

(* The client sends a SETNX again when its answer is lost: the second one  *)
(* finds the key that the first has set, and Guard hears of a refusal, not *)
(* of a failure: the key belongs to nobody and nobody sweeps unguarded.    *)
GrantLost(w) ==
  /\ Runs(w, "trying") /\ due[w] = 0 /\ redisUp /\ owner = NoOne
  /\ SetKey(Nobody) /\ unswept' = 0
  /\ TryAgain(w)
  /\ UNCHANGED <<guard, stalled, redisUp, late, unkept>>

(* INCR of the fence; runHeld starts the renewal's ticker and the sweeps.  *)
OnAcquired(w) ==
  /\ Runs(w, "granted") /\ redisUp
  /\ guard' = [guard EXCEPT ![w] = "holding"]
  /\ due' = [due EXCEPT ![w] = RenewEvery]
  /\ unkept' = [unkept EXCEPT ![w] = 0]
  /\ SweepNow
  /\ UNCHANGED <<keyVars, stalled, redisUp, late>>

FenceFails(w) ==
  /\ Runs(w, "granted")
  /\ (redisUp /\ Release(w)) \/ AbandonKey(w)
  /\ guard' = [guard EXCEPT ![w] = "trying"]
  /\ OnUnavailable(w) /\ TryAgain(w)
  /\ UNCHANGED <<stalled, redisUp, late, unkept>>

(* PEXPIRE under the guard's token; ErrLost under another, or no answer:   *)
(* these cancel what runs under the lock.                                  *)
RefreshBlindly(w) ==
  /\ Runs(w, "holding") /\ due[w] = 0 /\ redisUp
  /\ IF owner = w THEN SetKey(w) ELSE UNCHANGED keyVars
  /\ due' = [due EXCEPT ![w] = RenewEvery]
  /\ UNCHANGED <<guard, stalled, redisUp, late, unkept, unswept>>

Refresh(w) ==
  /\ Runs(w, "holding") /\ due[w] = 0 /\ redisUp /\ owner = w
  /\ SetKey(w) /\ due' = [due EXCEPT ![w] = RenewEvery]
  /\ UNCHANGED <<guard, stalled, redisUp, late, unkept, unswept>>

OnLost(w) ==
  /\ Runs(w, "holding") /\ due[w] = 0
  /\ UNCHANGED keyVars \/ (redisUp /\ owner = w /\ SetKey(w))
  /\ guard' = [guard EXCEPT ![w] = "ending"]
  /\ unkept' = [unkept EXCEPT ![w] = 0]
  /\ UNCHANGED <<due, stalled, redisUp, late, unswept>>

(* The sweep under way ends, its context cancelled; then Guard releases    *)
(* the key.  The retry ticker fired while the lock was held.               *)
EndHeld(w) ==
  /\ Runs(w, "ending")
  /\ (redisUp /\ Release(w)) \/ AbandonKey(w)
  /\ guard' = [guard EXCEPT ![w] = "trying"] /\ due' = [due EXCEPT ![w] = 0]
  /\ UNCHANGED <<stalled, redisUp, late, unkept, unswept>>

(* SIGTERM cancels the worker's context: what it holds is released, or the *)
(* process ends before that.                                               *)
Stop(w) ==
  /\ guard[w] # "down"
  /\ \/ w \notin stalled /\ redisUp /\ Release(w)
     \/ AbandonKey(w)
  /\ guard' = [guard EXCEPT ![w] = "down"] /\ due' = [due EXCEPT ![w] = 0]
  /\ stalled' = stalled \ {w} /\ late' = late \ {w}
  /\ unkept' = [unkept EXCEPT ![w] = 0]
  /\ unswept' = 0 /\ UNCHANGED redisUp

Stall(w) ==
  /\ guard[w] # "down" /\ w \notin stalled
  /\ stalled' = stalled \cup {w} /\ late' = late \cup {w} /\ unswept' = 0
  /\ UNCHANGED <<keyVars, guard, due, redisUp, unkept>>

GoOn(w) ==
  /\ w \in stalled
  /\ stalled' = stalled \ {w} /\ due' = [due EXCEPT ![w] = 0] /\ unswept' = 0
  /\ UNCHANGED <<keyVars, guard, redisUp, late, unkept>>

RedisFails ==
  /\ redisUp /\ redisUp' = FALSE
  /\ UNCHANGED <<keyVars, guard, due, stalled, late, unkept, unswept>>

(* Redis answers again, with its keys or, after a restart, without.        *)
RedisBack ==
  /\ ~redisUp /\ redisUp' = TRUE
  /\ \/ UNCHANGED <<keyVars, late>>
     \/ Free /\ late' = late \cup {w \in Candidates : owner = w}
  /\ UNCHANGED <<guard, due, stalled, unkept, unswept>>

-----------------------------------------------------------------------------
Waits(w) ==
  \/ w \in stalled \/ guard[w] = "down"
  \/ guard[w] \in {"trying", "holding"} /\ due[w] > 0

LockTick ==
  /\ \A w \in Candidates : Waits(w)
  /\ left' = IF left = 0 THEN 0 ELSE left - 1
  /\ owner' = IF left = 1 THEN NoOne ELSE owner
  /\ due' = [w \in Candidates |-> IF due[w] = 0 THEN 0 ELSE due[w] - 1]
  /\ unkept' = [w \in Candidates |->
       IF Runs(w, "holding") /\ owner' # w /\ unkept[w] <= RenewEvery
       THEN unkept[w] + 1 ELSE unkept[w]]
  /\ unswept' =
       IF \/ \E w \in Candidates : Runs(w, "holding")
          \/ \A w \in Candidates : guard[w] = "down" \/ w \in stalled
       THEN 0
       ELSE IF unswept < Quiet THEN unswept + 1 ELSE unswept
  /\ UNCHANGED <<guard, stalled, redisUp, late>>

LockStep(w) ==
  \/ Start(w) \/ Acquire(w) \/ ErrNotAcquired(w) \/ AcquireFails(w)
  \/ GrantLost(w) \/ OnAcquired(w) \/ FenceFails(w) \/ Refresh(w) \/ OnLost(w)
  \/ EndHeld(w) \/ Stop(w) \/ Stall(w) \/ GoOn(w)

LockNext ==
  \/ \E w \in Candidates : LockStep(w)
  \/ RedisFails \/ RedisBack \/ LockTick

LockSpec == LockInit /\ [][LockNext]_lockVars

-----------------------------------------------------------------------------
(* A holder that runs on time keeps the key: only a stall of its own, or   *)
(* Redis losing its data, lets another worker become the scheduler next to *)
(* it; no failure, release or expiry of another guard takes it away        *)
(* (Acquire, Refresh, releaseScript).                                      *)
PunctualKeepsKey ==
  \A w \in Candidates : guard[w] = "holding" /\ w \notin late => owner = w

(* Whatever made a holder lose the key, it stops sweeping at its next      *)
(* renewal (runHeld's OnLost): two schedulers overlap for no longer.       *)
LossNoticed ==
  \A w \in Candidates : guard[w] = "holding" => unkept[w] <= RenewEvery

(* While a worker runs, the project is swept: by the holder, or by all     *)
(* while Redis fails, and otherwise after the expiry of an abandoned key   *)
(* and a retry at the latest (RunScheduler's OnUnavailable).  The count    *)
(* starts anew when a process stops, stalls or goes on, and when a grant   *)
(* is lost between Redis and the client: each costs one more expiry.       *)
SweepsGoOn == unswept < Quiet
=============================================================================
