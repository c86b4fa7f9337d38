------------------------ MODULE CoordinationProofs --------------------------
(***************************************************************************)
(* For any number of workers, shards and scores.  The scheduler's lock,    *)
(* with any expiry longer than the renewal's interval: a punctual holder   *)
(* keeps its key, one that lost it stops at its next renewal, and the      *)
(* sweeps go on.  The shards, with any expiry longer than the interval of  *)
(* the refresh: they settle after a change, no settled shard has two       *)
(* owners, and none goes unpolled for long.                                *)
(***************************************************************************)
EXTENDS Coordination, NumberSets, TLAPS

-----------------------------------------------------------------------------
(* The scheduler's lock.                                                   *)

USE TimersAssumption

(* Between two renewals, the key of a punctual holder has as much left as  *)
(* its expiry leaves after the ticks that have passed since the last.      *)
KeyOutlastsRenewal ==
  /\ stalled \subseteq late
  /\ \A w \in Candidates : w \notin late =>
       /\ guard[w] = "granted" => owner = w /\ left = LockTTL
       /\ guard[w] = "holding" => owner = w /\ left >= due[w] + (LockTTL - RenewEvery)

(* The ticks a holder has been without its key, and those until it asks    *)
(* for it, make up at most one interval.                                   *)
RenewalIsDue ==
  \A w \in Candidates : guard[w] = "holding" =>
    /\ unkept[w] + due[w] <= RenewEvery
    /\ unkept[w] > 0 => owner # w

(* A key that stands between the project and its next sweep expires, and a *)
(* worker that runs tries again, before the project went unswept for long. *)
KeyExpires == owner # NoOne => left > 0

HolderSweeps == \A w \in Candidates : Runs(w, "holding") => unswept = 0

ExpiryInTime ==
  (owner # NoOne /\ \A w \in Candidates : Runs(w, "granted") => owner # w)
     => unswept + left <= LockTTL + 1

RetryInTime ==
  \A w \in Candidates : guard[w] = "trying" =>
    /\ due[w] <= 1
    /\ (Runs(w, "trying") /\ owner = NoOne /\ \A x \in Candidates : ~Runs(x, "granted"))
         => unswept + due[w] <= LockTTL + 1

SweepIsDue ==
  unswept <= LockTTL + 1 /\ KeyExpires /\ HolderSweeps /\ ExpiryInTime /\ RetryInTime

LockInv == LockTypeOK /\ KeyOutlastsRenewal /\ RenewalIsDue /\ SweepIsDue

(* A clock of missed sweeps that starts again leaves time for every        *)
(* expiry.                                                                 *)
LEMMA SweptInTime ==
  ASSUME LockTypeOK', unswept' = 0 PROVE ExpiryInTime'
<1>1. left' \in Nat /\ left' <= LockTTL
  BY DEF LockTypeOK
<1>2. \A n \in Nat : n <= LockTTL => 0 + n <= LockTTL + 1
  OBVIOUS
<1>3. unswept' + left' <= LockTTL + 1
  BY <1>1, <1>2
<1>4. QED
  BY <1>3 DEF ExpiryInTime

(* What one step of a worker's guard leaves of the invariant.              *)
LEMMA LockStepKeepsInv ==
  ASSUME LockInv, NEW w \in Candidates, LockStep(w) PROVE LockInv'
<1> USE DEF LockInv, KeyOutlastsRenewal, RenewalIsDue, SweepIsDue,
      KeyExpires, HolderSweeps, ExpiryInTime, RetryInTime, Runs, keyVars
<1>1. LockTypeOK'
  BY DEF LockTypeOK, LockStep, Start, Acquire, ErrNotAcquired, AcquireFails, GrantLost,
    OnAcquired, FenceFails, Refresh, OnLost, EndHeld, Stop, Stall, GoOn, SetKey, Free, Release,
    AbandonKey, TryAgain, OnUnavailable, SweepNow, Quiet
<1> USE DEF LockTypeOK
<1>2. CASE Start(w)
  BY <1>1, <1>2 DEF Start
<1>3. CASE Acquire(w)
  BY <1>1, <1>3 DEF Acquire, SetKey
<1>4. CASE ErrNotAcquired(w)
  BY <1>1, <1>4 DEF ErrNotAcquired, TryAgain
<1>5. CASE AcquireFails(w)
  <2>1. KeyOutlastsRenewal'
    BY <1>1, <1>5 DEF AcquireFails, TryAgain, SetKey, OnUnavailable
  <2>2. RenewalIsDue'
    BY <1>1, <1>5 DEF AcquireFails, TryAgain, SetKey, OnUnavailable
  <2>3. (unswept <= LockTTL + 1)'
    BY <1>1, <1>5 DEF AcquireFails, TryAgain, SetKey, OnUnavailable
  <2>4. KeyExpires'
    BY <1>1, <1>5 DEF AcquireFails, TryAgain, SetKey, OnUnavailable
  <2>5. HolderSweeps'
    BY <1>1, <1>5 DEF AcquireFails, TryAgain, SetKey, OnUnavailable
  <2>6. ExpiryInTime'
    BY <1>1, <1>5, SweptInTime DEF AcquireFails, OnUnavailable
  <2>7. RetryInTime'
    BY <1>1, <1>5 DEF AcquireFails, TryAgain, SetKey, OnUnavailable
  <2>8. QED
    BY <1>1, <2>1, <2>2, <2>3, <2>4, <2>5, <2>6, <2>7
<1>14. CASE GrantLost(w)
  <2>1. AcquireFails(w)
    BY <1>14 DEF GrantLost, AcquireFails, OnUnavailable
  <2>2. QED
    BY <1>5, <2>1
<1>6. CASE OnAcquired(w)
  BY <1>1, <1>6 DEF OnAcquired, SweepNow
<1>7. CASE FenceFails(w)
  <2>1. KeyOutlastsRenewal'
    BY <1>1, <1>7 DEF FenceFails, Release, Free, AbandonKey, TryAgain, OnUnavailable
  <2>2. RenewalIsDue'
    BY <1>1, <1>7 DEF FenceFails, Release, Free, AbandonKey, TryAgain, OnUnavailable
  <2>3. (unswept <= LockTTL + 1)'
    BY <1>1, <1>7 DEF FenceFails, Release, Free, AbandonKey, TryAgain, OnUnavailable
  <2>4. KeyExpires'
    BY <1>1, <1>7 DEF FenceFails, Release, Free, AbandonKey, TryAgain, OnUnavailable
  <2>5. HolderSweeps'
    BY <1>1, <1>7 DEF FenceFails, Release, Free, AbandonKey, TryAgain, OnUnavailable
  <2>6. ExpiryInTime'
    BY <1>1, <1>7, SweptInTime DEF FenceFails, OnUnavailable
  <2>7. RetryInTime'
    BY <1>1, <1>7 DEF FenceFails, Release, Free, AbandonKey, TryAgain, OnUnavailable
  <2>8. QED
    BY <1>1, <2>1, <2>2, <2>3, <2>4, <2>5, <2>6, <2>7
<1>8. CASE Refresh(w)
  BY <1>1, <1>8 DEF Refresh, SetKey
<1>9. CASE OnLost(w)
  <2>1. KeyOutlastsRenewal'
    BY <1>1, <1>9 DEF OnLost, SetKey
  <2>2. RenewalIsDue'
    BY <1>1, <1>9 DEF OnLost, SetKey
  <2>3. (unswept <= LockTTL + 1)'
    BY <1>1, <1>9 DEF OnLost, SetKey
  <2>4. KeyExpires'
    BY <1>1, <1>9 DEF OnLost, SetKey
  <2>5. HolderSweeps'
    BY <1>1, <1>9 DEF OnLost, SetKey
  <2>6. ExpiryInTime'
    BY <1>1, <1>9, SweptInTime DEF OnLost
  <2>7. RetryInTime'
    BY <1>1, <1>9 DEF OnLost, SetKey
  <2>8. QED
    BY <1>1, <2>1, <2>2, <2>3, <2>4, <2>5, <2>6, <2>7
<1>10. CASE EndHeld(w)
  <2>1. KeyOutlastsRenewal'
    BY <1>1, <1>10 DEF EndHeld, Release, Free, AbandonKey
  <2>2. RenewalIsDue'
    BY <1>1, <1>10 DEF EndHeld, Release, Free, AbandonKey
  <2>3. (unswept <= LockTTL + 1)'
    BY <1>1, <1>10 DEF EndHeld, Release, Free, AbandonKey
  <2>4. KeyExpires'
    BY <1>1, <1>10 DEF EndHeld, Release, Free, AbandonKey
  <2>5. HolderSweeps'
    BY <1>1, <1>10 DEF EndHeld, Release, Free, AbandonKey
  <2>6. ExpiryInTime'
    <3>1. CASE owner' = owner
      BY <1>10, <3>1 DEF EndHeld, Release, Free, AbandonKey
    <3>2. CASE owner' = Nobody /\ owner = w
      <4>1. unswept + left <= LockTTL + 1
        BY <1>10, <3>2 DEF EndHeld
      <4>2. left' = left /\ unswept' = unswept
        BY <1>10, <3>2 DEF EndHeld, Release, Free, AbandonKey
      <4>3. QED
        BY <4>1, <4>2
    <3>3. QED
      BY <1>10, <3>1, <3>2 DEF EndHeld, Release, Free, AbandonKey
  <2>7. RetryInTime'
    BY <1>1, <1>10 DEF EndHeld, Release, Free, AbandonKey
  <2>8. QED
    BY <1>1, <2>1, <2>2, <2>3, <2>4, <2>5, <2>6, <2>7
<1>11. CASE Stop(w)
  <2>1. KeyOutlastsRenewal'
    BY <1>1, <1>11 DEF Stop, Release, Free, AbandonKey
  <2>2. RenewalIsDue'
    BY <1>1, <1>11 DEF Stop, Release, Free, AbandonKey
  <2>3. (unswept <= LockTTL + 1)'
    BY <1>1, <1>11 DEF Stop, Release, Free, AbandonKey
  <2>4. KeyExpires'
    BY <1>1, <1>11 DEF Stop, Release, Free, AbandonKey
  <2>5. HolderSweeps'
    BY <1>1, <1>11 DEF Stop, Release, Free, AbandonKey
  <2>6. ExpiryInTime'
    BY <1>1, <1>11, SweptInTime DEF Stop
  <2>7. RetryInTime'
    BY <1>1, <1>11 DEF Stop, Release, Free, AbandonKey
  <2>8. QED
    BY <1>1, <2>1, <2>2, <2>3, <2>4, <2>5, <2>6, <2>7
<1>12. CASE Stall(w)
  BY <1>1, <1>12 DEF Stall
<1>13. CASE GoOn(w)
  BY <1>1, <1>13 DEF GoOn
<1>15. QED
  BY <1>2, <1>3, <1>4, <1>5, <1>6, <1>7, <1>8, <1>9, <1>10, <1>11, <1>12, <1>13,
    <1>14 DEF LockStep

(* Time passes only when no running worker has a renewal to make.          *)
LEMMA LockTickKeepsInv ==
  ASSUME LockInv, LockTick PROVE LockInv'
<1> USE DEF LockInv, KeyOutlastsRenewal, RenewalIsDue, SweepIsDue,
      KeyExpires, HolderSweeps, ExpiryInTime, RetryInTime, Runs, LockTick, Waits
<1>1. LockTypeOK'
  BY DEF LockTypeOK, Quiet
<1>2. KeyOutlastsRenewal'
  BY DEF LockTypeOK
<1>3. RenewalIsDue'
  BY DEF LockTypeOK
<1>4. SweepIsDue'
  BY DEF LockTypeOK, Quiet
<1>5. QED
  BY <1>1, <1>2, <1>3, <1>4

(* Every step of the workers, of Redis and of time keeps the invariant.    *)
THEOREM LockInvariant == LockSpec => []LockInv
<1>1. LockInit => LockInv
  BY DEF LockInit, LockInv, LockTypeOK, KeyOutlastsRenewal, RenewalIsDue, SweepIsDue,
      KeyExpires, HolderSweeps, ExpiryInTime, RetryInTime, Runs, Quiet
<1>2. LockInv /\ [LockNext]_lockVars => LockInv'
  <2> SUFFICES ASSUME LockInv, [LockNext]_lockVars PROVE LockInv'
    OBVIOUS
  <2> USE DEF LockInv, LockTypeOK, KeyOutlastsRenewal, RenewalIsDue, SweepIsDue,
        KeyExpires, HolderSweeps, ExpiryInTime, RetryInTime, Runs, keyVars
  <2>1. CASE \E w \in Candidates : LockStep(w)
    BY <2>1, LockStepKeepsInv DEF LockInv
  <2>2. CASE RedisFails
    BY <2>2 DEF RedisFails
  <2>3. CASE RedisBack
    <3> USE <2>3 DEF RedisBack, Free
    <3>1. LockTypeOK'
      OBVIOUS
    <3>2. KeyOutlastsRenewal'
      OBVIOUS
    <3>3. RenewalIsDue'
      OBVIOUS
    <3>4. (unswept <= LockTTL + 1)' /\ KeyExpires' /\ HolderSweeps'
      OBVIOUS
    <3>5. ExpiryInTime'
      OBVIOUS
    <3>6. RetryInTime'
      OBVIOUS
    <3>7. QED
      BY <3>1, <3>2, <3>3, <3>4, <3>5, <3>6
  <2>4. CASE LockTick
    BY <2>4, LockTickKeepsInv
  <2>5. CASE UNCHANGED lockVars
    BY <2>5 DEF lockVars
  <2>6. QED
    BY <2>1, <2>2, <2>3, <2>4, <2>5 DEF LockNext
<1>3. QED
  BY <1>1, <1>2, PTL DEF LockSpec

(* A holder that runs on time keeps the key (Acquire, Refresh, the release *)
(* script, and an expiry of three renewals).                               *)
THEOREM LockPunctualKeepsKey == LockSpec => []PunctualKeepsKey
<1>1. LockInv => PunctualKeepsKey
  BY DEF LockInv, KeyOutlastsRenewal, PunctualKeepsKey
<1>2. QED
  BY <1>1, LockInvariant, PTL

(* No two workers that run on time sweep at once.                          *)
OneScheduler ==
  \A w, x \in Candidates \ late : guard[w] = "holding" /\ guard[x] = "holding" => w = x

(* The key has one owner, whom a punctual holder is (Acquire, Refresh).    *)
THEOREM LockOneScheduler == LockSpec => []OneScheduler
<1>1. LockInv => OneScheduler
  BY DEF LockInv, KeyOutlastsRenewal, OneScheduler
<1>2. QED
  BY <1>1, LockInvariant, PTL

(* A holder without its key stops within one renewal's interval (runHeld). *)
THEOREM LockLossNoticed == LockSpec => []LossNoticed
<1>1. LockInv => LossNoticed
  BY DEF LockInv, LockTypeOK, RenewalIsDue, LossNoticed
<1>2. QED
  BY <1>1, LockInvariant, PTL

(* With a worker running the project is swept at least once in an expiry   *)
(* and a retry, whatever Redis does (RunScheduler).                        *)
THEOREM LockSweepsGoOn == LockSpec => []SweepsGoOn
<1>1. LockInv => SweepsGoOn
  BY DEF LockInv, LockTypeOK, SweepIsDue, SweepsGoOn, Quiet
<1>2. QED
  BY <1>1, LockInvariant, PTL

HIDE TimersAssumption

-----------------------------------------------------------------------------
(* The shards.                                                             *)

USE IntervalsAssumption

(* What a worker polls once it knows of every change.                      *)
Target(w) ==
  IF paused THEN {}
  ELSE IF ~registry THEN Shards
  ELSE {s \in Shards : \A x \in alive : Score[s][x] <= Score[s][w]}

SinceRefresh(w) == RefreshEvery - refreshIn[w]

(* A worker that has left expires; one that runs is listed, once it has    *)
(* refreshed since the last change.                                        *)
ListIsCurrent ==
  /\ \A w \in Members \ alive : seen[w] >= settled \/ seen[w] = MemberTTL
  /\ \A w \in alive :
       settled > SinceRefresh(w) /\ registry /\ ~paused => seen[w] <= SinceRefresh(w)

(* After an expiry every task derives what the worker should poll, and by  *)
(* the refresh after that the worker polls it.                             *)
DerivedIsCurrent ==
  \A w \in alive : settled >= MemberTTL => \A t \in Tasks : derived[w][t] \subseteq {Target(w)}

OwnedIsCurrent ==
  \A w \in alive :
    (settled > Enough \/ (settled >= MemberTTL + SinceRefresh(w) /\ derived[w]["timer"] = {}))
       => owned[w] = Target(w)

ShardInv == ShardTypeOK /\ ListIsCurrent /\ DerivedIsCurrent /\ OwnedIsCurrent

(* Whatever list it is given, Owned answers with shards of the queue.      *)
LEMMA OwnedIsTyped == \A w, read : Owned(w, read) \in SUBSET Shards
BY DEF Owned

(* A worker that starts is typed as the others are: it takes shards of the *)
(* queue, whatever it could read of it (Run's first RefreshTopology).      *)
LEMMA JoinTypes == ASSUME ShardTypeOK, NEW w \in Members, Join(w) PROVE ShardTypeOK'
<1>1. PICK S \in SUBSET Shards : owned' = [owned EXCEPT ![w] = S]
  <2>1. CASE paused \/ ~registry
    <3>1. owned' = [owned EXCEPT ![w] = IF paused THEN {} ELSE AllShards(w)]
      BY ONLY <2>1, Join(w) DEF Join
    <3>2. (IF paused THEN {} ELSE AllShards(w)) \in SUBSET Shards
      BY ONLY TRUE DEF AllShards
    <3>3. QED
      BY ONLY <3>1, <3>2
  <2>2. CASE ~(paused \/ ~registry)
    <3>1. owned' = [owned EXCEPT ![w] = Owned(w, Listed)]
      BY ONLY <2>2, Join(w) DEF Join
    <3>2. QED
      BY ONLY <3>1, OwnedIsTyped
  <2>3. QED
    BY ONLY <2>1, <2>2
<1>2. seen' = seen \/ seen' = [seen EXCEPT ![w] = 0]
  BY ONLY Join(w) DEF Join
<1>3. /\ alive' = alive \cup {w}
      /\ refreshIn' = [refreshIn EXCEPT ![w] = RefreshEvery]
      /\ settled' = 0 /\ unpolled' = 0
      /\ derived' = derived /\ paused' = paused /\ registry' = registry
  BY ONLY Join(w) DEF Join, Unsettle
<1>4. seen' \in [Members -> 0..MemberTTL]
  BY ONLY <1>2, ShardTypeOK, IntervalsAssumption DEF ShardTypeOK
<1>5. owned' \in [Members -> SUBSET Shards]
  BY ONLY <1>1, ShardTypeOK DEF ShardTypeOK
<1>6. refreshIn' \in [Members -> 0..RefreshEvery]
  BY ONLY <1>3, ShardTypeOK, IntervalsAssumption DEF ShardTypeOK
<1>7. settled' \in 0..(Enough + 1) /\ unpolled' \in 0..(Enough + 1)
  BY ONLY <1>3, IntervalsAssumption DEF Enough
<1>8. alive' \subseteq Members /\ paused' \in BOOLEAN /\ registry' \in BOOLEAN
  BY ONLY <1>3, ShardTypeOK, w \in Members DEF ShardTypeOK
<1>9. derived' \in [Members -> [Tasks -> SUBSET (SUBSET Shards)]]
  BY ONLY <1>3, ShardTypeOK DEF ShardTypeOK
<1>10. QED
  BY ONLY <1>4, <1>5, <1>6, <1>7, <1>8, <1>9 DEF ShardTypeOK

(* The states are typed.                                                   *)
LEMMA ShardTypes == ShardTypeOK /\ [ShardNext]_shardVars => ShardTypeOK'
<1> SUFFICES ASSUME ShardTypeOK, [ShardNext]_shardVars PROVE ShardTypeOK'
  OBVIOUS
<1> USE DEF ShardTypeOK, Enough, AllShards, NothingDerived, Tasks
<1>1. ASSUME NEW w \in Members, TimerRefresh(w) PROVE ShardTypeOK'
  <2>1. derived' \in [Members -> [Tasks -> SUBSET (SUBSET Shards)]]
    BY <1>1, OwnedIsTyped DEF TimerRefresh, Derive, Heartbeat, Unlisted
  <2>2. seen' \in [Members -> 0..MemberTTL] /\ refreshIn' \in [Members -> 0..RefreshEvery]
    BY <1>1 DEF TimerRefresh, Derive, Heartbeat, Unlisted
  <2>3. QED
    BY <1>1, <2>1, <2>2 DEF TimerRefresh
<1>2. ASSUME NEW w \in Members, RefreshFails(w) PROVE ShardTypeOK'
  BY <1>2 DEF RefreshFails, Unlisted, Unsettle
<1>3. ASSUME NEW w \in Members, EventRefresh(w) PROVE ShardTypeOK'
  BY <1>3, OwnedIsTyped DEF EventRefresh, Derive, Heartbeat, Unlisted
<1>4. ASSUME NEW w \in Members, NEW t \in Tasks, Publish(w, t) PROVE ShardTypeOK'
  BY <1>4 DEF Publish
<1>5. ASSUME NEW w \in Members, Join(w) PROVE ShardTypeOK'
  BY ONLY <1>5, ShardTypeOK, JoinTypes
<1>6. ASSUME NEW w \in Members, Quit(w) PROVE ShardTypeOK'
  BY <1>6 DEF Quit, Unsettle
<1>7. ASSUME NEW w \in Members, Leave(w) PROVE ShardTypeOK'
  BY <1>7 DEF Leave
<1>8. CASE PauseOrResume \/ RegistryFails \/ RegistryBack
  <2>1. seen' \in [Members -> 0..MemberTTL]
    BY <1>8 DEF PauseOrResume, RegistryFails, RegistryBack
  <2>2. settled' = 0 /\ unpolled' \in {0, unpolled} /\ paused' \in BOOLEAN /\ registry' \in BOOLEAN
    BY <1>8 DEF PauseOrResume, RegistryFails, RegistryBack, Unsettle
  <2>3. UNCHANGED <<alive, owned, derived, refreshIn>>
    BY <1>8 DEF PauseOrResume, RegistryFails, RegistryBack
  <2>4. QED
    BY <2>1, <2>2, <2>3
<1>9. CASE ShardTick
  BY <1>9 DEF ShardTick
<1>10. CASE UNCHANGED shardVars
  BY <1>10 DEF shardVars
<1>11. QED
  BY <1>1, <1>2, <1>3, <1>4, <1>5, <1>6, <1>7, <1>8, <1>9, <1>10 DEF ShardNext

(* The workers start with nothing.                                         *)
LEMMA ShardStartsTyped == ShardInit => ShardTypeOK
<1> SUFFICES ASSUME ShardInit PROVE ShardTypeOK
  OBVIOUS
<1>1. NothingDerived \in [Tasks -> SUBSET (SUBSET Shards)]
  BY DEF NothingDerived
<1>2. derived \in [Members -> [Tasks -> SUBSET (SUBSET Shards)]]
  BY <1>1 DEF ShardInit
<1>3. MemberTTL \in 0..MemberTTL /\ 0 \in 0..RefreshEvery /\ 0 \in 0..(Enough + 1)
  BY DEF Enough
<1>4. QED
  BY <1>2, <1>3 DEF ShardInit, ShardTypeOK

(* Once an expiry has passed since a change, the list is the workers that  *)
(* run, and what is derived from it what should be.                        *)
LEMMA ListedAreAlive ==
  ASSUME ShardTypeOK, ListIsCurrent, registry, ~paused, settled >= MemberTTL, NEW w \in alive
  PROVE  Listed = alive /\ Owned(w, Listed) = Target(w)
<1> USE DEF ShardTypeOK, ListIsCurrent, SinceRefresh
<1>1. ASSUME NEW x \in alive PROVE seen[x] < MemberTTL
  <2>1. settled > SinceRefresh(x)
    OBVIOUS
  <2>2. QED
    BY <2>1
<1>2. ASSUME NEW x \in Members \ alive PROVE ~(seen[x] < MemberTTL)
  OBVIOUS
<1>3. Listed = alive
  BY <1>1, <1>2 DEF Listed
<1>4. alive \cup {w} = alive
  OBVIOUS
<1>5. QED
  BY <1>3, <1>4 DEF Owned, Target

(* Once the departed have expired, the list read is the list of those      *)
(* running, and what is derived from it is final (Heartbeat, Owned).       *)
LEMMA DerivesTarget ==
  ASSUME ShardTypeOK, ListIsCurrent, settled >= MemberTTL,
         NEW w \in alive, NEW t \in Tasks, Derive(w, t)
  PROVE  derived' = [derived EXCEPT ![w][t] = {Target(w)}]
<1>1. CASE Heartbeat(w, t)
  BY <1>1, ListedAreAlive DEF Heartbeat
<1>2. CASE Unlisted(w, t) /\ (paused \/ ~registry)
  BY <1>2 DEF Unlisted, AllShards, Target
<1>3. QED
  BY <1>1, <1>2 DEF Derive

(* A change starts the count again.                                        *)
LEMMA ChangeKeepsInv ==
  ASSUME ShardTypeOK', settled' = 0 PROVE ListIsCurrent' /\ DerivedIsCurrent' /\ OwnedIsCurrent'
<1> USE DEF ShardTypeOK, SinceRefresh, Enough
<1>1. ListIsCurrent'
  BY DEF ListIsCurrent
<1>2. DerivedIsCurrent'
  BY DEF DerivedIsCurrent
<1>3. OwnedIsCurrent'
  BY DEF OwnedIsCurrent
<1>4. QED
  BY <1>1, <1>2, <1>3

(* A refresh: what it derives and what it leaves.                          *)
LEMMA DeriveKeepsInv ==
  ASSUME ShardInv, ShardTypeOK', NEW w \in alive, NEW t \in Tasks, Derive(w, t),
         derived[w][t] = {}, UNCHANGED <<alive, owned, paused, registry, settled>>,
         \/ t = "timer" /\ refreshIn' = [refreshIn EXCEPT ![w] = RefreshEvery]
         \/ t = "event" /\ UNCHANGED refreshIn
  PROVE  ShardInv'
<1> USE DEF ShardInv, ShardTypeOK, SinceRefresh, Enough
<1>1. \A x \in Members : Target(x)' = Target(x)
  BY DEF Target
<1>2. ListIsCurrent'
  <2>1. CASE UNCHANGED seen /\ (paused \/ ~registry)
    BY <2>1 DEF ListIsCurrent
  <2>2. CASE seen' = [seen EXCEPT ![w] = 0]
    BY <2>2 DEF ListIsCurrent
  <2>3. QED
    BY <2>1, <2>2 DEF Derive, Heartbeat, Unlisted
<1>3. DerivedIsCurrent'
  BY <1>1, DerivesTarget DEF DerivedIsCurrent
<1>4. OwnedIsCurrent'
  <2> SUFFICES ASSUME NEW x \in alive,
                      \/ settled > Enough
                      \/ settled >= MemberTTL + SinceRefresh(x)' /\ derived'[x]["timer"] = {}
               PROVE  owned[x] = Target(x)
    BY <1>1 DEF OwnedIsCurrent
  <2>1. CASE settled > Enough
    BY <2>1 DEF OwnedIsCurrent
  <2>2. CASE settled >= MemberTTL + SinceRefresh(x)' /\ derived'[x]["timer"] = {}
    <3>1. settled >= MemberTTL
      BY <2>2
    <3>2. derived' = [derived EXCEPT ![w][t] = {Target(w)}]
      BY <3>1, DerivesTarget
    <3>3. ~(x = w /\ t = "timer")
      BY <2>2, <3>2 DEF Tasks
    <3>4. derived[x]["timer"] = {} /\ refreshIn'[x] = refreshIn[x]
      BY <2>2, <3>2, <3>3 DEF Tasks
    <3>5. QED
      BY <2>2, <3>4 DEF OwnedIsCurrent
  <2>3. QED
    BY <2>1, <2>2
<1>5. QED
  BY <1>2, <1>3, <1>4

(* The second half of a refresh.                                           *)
LEMMA PublishKeepsInv ==
  ASSUME ShardInv, ShardTypeOK', NEW w \in Members, NEW t \in Tasks, Publish(w, t)
  PROVE  ShardInv'
<1> USE DEF ShardInv, ShardTypeOK, SinceRefresh, Enough
<1>1. \A x \in Members : Target(x)' = Target(x)
  BY DEF Target, Publish
<1>2. ListIsCurrent'
  BY DEF ListIsCurrent, Publish
<1>3. DerivedIsCurrent'
  BY <1>1 DEF DerivedIsCurrent, Publish
<1>4. ASSUME settled >= MemberTTL PROVE owned'[w] = Target(w)
  BY <1>4 DEF Publish, DerivedIsCurrent
<1>5. OwnedIsCurrent'
  BY <1>1, <1>4 DEF OwnedIsCurrent, Publish
<1>6. QED
  BY <1>2, <1>3, <1>5

(* Time passes when every refresh that was due has been made.              *)
LEMMA TickKeepsInv == ASSUME ShardInv, ShardTypeOK', ShardTick PROVE ShardInv'
<1> USE DEF ShardInv, ShardTypeOK, SinceRefresh, Enough, ShardTick
<1>1. \A x \in Members : Target(x)' = Target(x)
  BY DEF Target
<1>2. ListIsCurrent'
  BY DEF ListIsCurrent
<1>3. DerivedIsCurrent'
  BY DEF DerivedIsCurrent, NothingDerived, Tasks
<1>4. OwnedIsCurrent'
  BY <1>1 DEF OwnedIsCurrent, NothingDerived, Tasks
<1>5. QED
  BY <1>2, <1>3, <1>4

(* The invariant holds under every interleaving of the two tasks, whoever  *)
(* comes, goes or crashes, and through every outage (RefreshTopology).     *)
THEOREM ShardInvariant == ShardSpec => []ShardInv
<1>1. ShardInit => ShardInv
  <2> SUFFICES ASSUME ShardInit PROVE ShardInv
    OBVIOUS
  <2>1. ShardTypeOK
    BY ShardStartsTyped
  <2>2. ListIsCurrent /\ DerivedIsCurrent /\ OwnedIsCurrent
    BY DEF ShardInit, ListIsCurrent, DerivedIsCurrent, OwnedIsCurrent
  <2>3. QED
    BY <2>1, <2>2 DEF ShardInv
<1>2. ShardInv /\ [ShardNext]_shardVars => ShardInv'
  <2> SUFFICES ASSUME ShardInv, [ShardNext]_shardVars PROVE ShardInv'
    OBVIOUS
  <2> ShardTypeOK'
    BY ShardTypes DEF ShardInv
  <2>1. ASSUME NEW w \in Members, TimerRefresh(w) PROVE ShardInv'
    BY <2>1, DeriveKeepsInv DEF TimerRefresh, Tasks
  <2>2. ASSUME NEW w \in Members, RefreshFails(w) \/ Join(w) \/ Quit(w) PROVE ShardInv'
    BY <2>2, ChangeKeepsInv DEF RefreshFails, Join, Quit, Unsettle, ShardInv
  <2>3. ASSUME NEW w \in Members, EventRefresh(w) PROVE ShardInv'
    BY <2>3, DeriveKeepsInv DEF EventRefresh, Tasks
  <2>4. ASSUME NEW w \in Members, NEW t \in Tasks, Publish(w, t) PROVE ShardInv'
    BY <2>4, PublishKeepsInv
  <2>5. ASSUME NEW w \in Members, Leave(w) PROVE ShardInv'
    <3>1. \A x \in Members : Target(x)' = Target(x)
      BY <2>5 DEF Target, Leave
    <3>2. ListIsCurrent'
      BY <2>5 DEF Leave, ListIsCurrent, ShardInv, ShardTypeOK, SinceRefresh
    <3>3. DerivedIsCurrent' /\ OwnedIsCurrent'
      BY <2>5, <3>1 DEF Leave, ShardInv, ShardTypeOK, SinceRefresh, DerivedIsCurrent, OwnedIsCurrent
    <3>4. QED
      BY <3>2, <3>3 DEF ShardInv
  <2>6. CASE PauseOrResume \/ RegistryFails \/ RegistryBack
    BY <2>6, ChangeKeepsInv DEF PauseOrResume, RegistryFails, RegistryBack, Unsettle, ShardInv
  <2>7. CASE ShardTick
    BY <2>7, TickKeepsInv
  <2>8. CASE UNCHANGED shardVars
    <3>1. \A x \in Members : Target(x)' = Target(x) /\ SinceRefresh(x)' = SinceRefresh(x)
      BY <2>8 DEF shardVars, Target, SinceRefresh
    <3>2. ListIsCurrent'
      BY <2>8, <3>1 DEF shardVars, ListIsCurrent, ShardInv, ShardTypeOK
    <3>3. DerivedIsCurrent' /\ OwnedIsCurrent'
      BY <2>8, <3>1 DEF shardVars, ShardInv, ShardTypeOK, DerivedIsCurrent, OwnedIsCurrent
    <3>4. QED
      BY <3>2, <3>3 DEF ShardInv
  <2>9. QED
    BY <2>1, <2>2, <2>3, <2>4, <2>5, <2>6, <2>7, <2>8 DEF ShardNext
<1>3. QED
  BY <1>1, <1>2, PTL DEF ShardSpec

(* After any change every running worker polls, within an expiry and a     *)
(* refresh, the shards it is the best member for, and no other             *)
(* (RefreshTopology with Heartbeat and Owned).                             *)
THEOREM ShardsSettleAlways == ShardSpec => []ShardsSettle
<1>1. ShardInv => ShardsSettle
  BY DEF ShardInv, ShardTypeOK, OwnedIsCurrent, ShardsSettle, Polled, Target
<1>2. QED
  BY <1>1, ShardInvariant, PTL

(* While Redis answers, no settled shard has two owners.                   *)
OneOwner ==
  settled > Enough /\ registry =>
    \A s \in Shards : \A w, x \in Polled(s) : w = x

(* Distinct scores of the members make the best one unique (shard.Owned).  *)
THEOREM SettledShardsHaveOneOwner == ShardSpec => []OneOwner
<1>1. ShardInv => OneOwner
  <2> SUFFICES ASSUME ShardInv, settled > Enough, registry,
                      NEW s \in Shards, NEW w \in Polled(s), NEW x \in Polled(s)
               PROVE  w = x
    BY DEF OneOwner
  <2>1. w \in alive /\ x \in alive /\ alive \subseteq Members
    BY DEF Polled, ShardInv, ShardTypeOK
  <2>2. s \in Target(w) /\ s \in Target(x)
    BY <2>1 DEF ShardInv, OwnedIsCurrent, Polled
  <2>3. Score[s][x] <= Score[s][w] /\ Score[s][w] <= Score[s][x]
    BY <2>1, <2>2 DEF Target
  <2>4. Score[s][w] \in Nat /\ Score[s][x] \in Nat
    BY <2>1, ScoreAssumption
  <2>5. QED
    BY <2>1, <2>3, <2>4, ScoreAssumption
<1>2. QED
  BY <1>1, ShardInvariant, PTL

-----------------------------------------------------------------------------
(* No shard goes unpolled for long.  The clock of an unpolled shard does   *)
(* not start again when Redis fails or comes back, so that the lists       *)
(* are not known, only that nobody departed is on them after an expiry.    *)

Best(w) == {s \in Shards : \A x \in alive : Score[s][x] <= Score[s][w]}

DepartedExpire ==
  /\ IsFiniteSet(alive)
  /\ \A w \in Members \ alive : seen[w] >= unpolled \/ seen[w] = MemberTTL
  /\ unpolled > 0 => ~paused

(* From then on a worker derives at least the shards it is the best for,   *)
(* and by the refresh after that it polls them.                            *)
DerivedHasBest ==
  unpolled >= MemberTTL =>
    \A w \in alive : \A t \in Tasks : \A o \in derived[w][t] : Best(w) \subseteq o

OwnedHasBest ==
  \A w \in alive :
    (unpolled >= MemberTTL + SinceRefresh(w) /\ derived[w]["timer"] = {})
      => Best(w) \subseteq owned[w]

PollInv ==
  ShardTypeOK /\ DepartedExpire /\ DerivedHasBest /\ OwnedHasBest /\ ShardsPolled

(* Every shard has a best worker among those that run.                     *)
LEMMA BestExists ==
  ASSUME ShardTypeOK, IsFiniteSet(alive), alive # {}, NEW s \in Shards
  PROVE  \E w \in alive : s \in Best(w)
<1> DEFINE f == [w \in alive |-> Score[s][w]]
<1>1. f \in [alive -> Nat]
  BY ScoreAssumption DEF ShardTypeOK
<1>2. PICK w \in alive : \A x \in alive : f[x] <= f[w]
  <2> HIDE DEF f
  <2>1. QED
    BY <1>1, GreatestExists
<1>3. QED
  BY <1>2 DEF Best

(* A worker that refreshes after an expiry derives what it is best for.    *)
LEMMA DerivesBest ==
  ASSUME ShardTypeOK, DepartedExpire, unpolled >= MemberTTL,
         NEW w \in alive, NEW t \in Tasks, Derive(w, t)
  PROVE  \E o \in SUBSET Shards : derived' = [derived EXCEPT ![w][t] = {o}] /\ Best(w) \subseteq o
<1>1. ~paused
  BY DEF DepartedExpire, ShardTypeOK
<1>2. Listed \subseteq alive
  BY DEF Listed, DepartedExpire, ShardTypeOK
<1>3. Best(w) \subseteq Owned(w, Listed)
  BY <1>2 DEF Owned, Best
<1>4. CASE Heartbeat(w, t)
  BY <1>3, <1>4, OwnedIsTyped DEF Heartbeat
<1>5. CASE Unlisted(w, t)
  BY <1>1, <1>5 DEF Unlisted, AllShards, Best
<1>6. QED
  BY <1>4, <1>5 DEF Derive

(* A refresh of either task.                                               *)
LEMMA DeriveKeepsPolled ==
  ASSUME PollInv, ShardTypeOK', NEW w \in alive, NEW t \in Tasks, Derive(w, t),
         derived[w][t] = {}, UNCHANGED <<alive, owned, paused, registry, unpolled>>,
         \/ t = "timer" /\ refreshIn' = [refreshIn EXCEPT ![w] = RefreshEvery]
         \/ t = "event" /\ UNCHANGED refreshIn
  PROVE  PollInv'
<1> USE DEF PollInv, ShardTypeOK, SinceRefresh, Enough
<1>1. \A x \in alive : Best(x)' = Best(x)
  BY DEF Best
<1>2. seen' \in {seen, [seen EXCEPT ![w] = 0]}
  BY DEF Derive, Heartbeat, Unlisted
<1>3. DepartedExpire' /\ ShardsPolled'
  BY <1>2 DEF DepartedExpire, ShardsPolled
<1>4. CASE unpolled >= MemberTTL
  <2>1. PICK o \in SUBSET Shards :
          derived' = [derived EXCEPT ![w][t] = {o}] /\ Best(w) \subseteq o
    BY <1>4, DerivesBest
  <2>2. DerivedHasBest'
    BY <1>1, <1>4, <2>1 DEF DerivedHasBest
  <2>3. OwnedHasBest'
    BY <1>1, <2>1 DEF OwnedHasBest, Tasks
  <2>4. QED
    BY <1>3, <2>2, <2>3
<1>5. CASE ~(unpolled >= MemberTTL)
  BY <1>3, <1>5 DEF DerivedHasBest, OwnedHasBest
<1>6. QED
  BY <1>4, <1>5

(* Time passes when every refresh that was due has been made: then a shard *)
(* that has been unpolled for an expiry and a refresh has its best worker. *)
LEMMA TickKeepsPolled == ASSUME PollInv, ShardTypeOK', ShardTick PROVE PollInv'
<1> USE DEF PollInv, ShardTypeOK, SinceRefresh, Enough
<1>1. \A x \in alive : Best(x)' = Best(x) /\ derived[x] = NothingDerived /\ refreshIn'[x] = refreshIn[x] - 1
  BY DEF Best, ShardTick
<1>2. DepartedExpire'
  BY DEF ShardTick, DepartedExpire, ShardsPolled
<1>3. DerivedHasBest'
  BY <1>1 DEF ShardTick, DerivedHasBest, NothingDerived, Tasks
<1>4. OwnedHasBest'
  <2> SUFFICES ASSUME NEW w \in alive, unpolled' >= MemberTTL + SinceRefresh(w)'
               PROVE  Best(w) \subseteq owned[w]
    BY <1>1 DEF ShardTick, OwnedHasBest
  <2>1. unpolled' \in {0, unpolled + 1}
    BY DEF ShardTick, ShardsPolled
  <2>2. unpolled >= MemberTTL + SinceRefresh(w)
    BY <1>1, <2>1
  <2>3. QED
    BY <1>1, <2>2 DEF OwnedHasBest, NothingDerived, Tasks
<1>5. ShardsPolled'
  <2>1. CASE unpolled < Enough
    BY <2>1 DEF ShardTick, ShardsPolled
  <2>2. CASE unpolled = Enough
    <3>1. \A w \in alive : Best(w) \subseteq owned[w]
      BY <1>1, <2>2 DEF ShardTick, OwnedHasBest, NothingDerived, Tasks
    <3>2. alive = {} \/ \A s \in Shards : Polled(s) # {}
      BY <3>1, BestExists DEF DepartedExpire, Polled
    <3>3. QED
      BY <3>2 DEF ShardTick, ShardsPolled
  <2>3. QED
    BY <2>1, <2>2 DEF ShardsPolled
<1>6. QED
  BY <1>2, <1>3, <1>4, <1>5

(* It holds under every interleaving of the two tasks and through every    *)
(* outage of Redis.                                                        *)
THEOREM PollInvariant == ShardSpec => []PollInv
<1>1. ShardInit => PollInv
  <2> SUFFICES ASSUME ShardInit PROVE PollInv
    OBVIOUS
  <2>1. ShardTypeOK
    BY ShardStartsTyped
  <2>2. DepartedExpire /\ ShardsPolled
    BY FS_EmptySet DEF ShardInit, DepartedExpire, ShardsPolled, Enough
  <2>3. DerivedHasBest /\ OwnedHasBest
    BY DEF ShardInit, DerivedHasBest, OwnedHasBest
  <2>4. QED
    BY <2>1, <2>2, <2>3 DEF PollInv
<1>2. PollInv /\ [ShardNext]_shardVars => PollInv'
  <2> SUFFICES ASSUME PollInv, [ShardNext]_shardVars PROVE PollInv'
    OBVIOUS
  <2> ShardTypeOK'
    BY ShardTypes DEF PollInv
  <2> USE DEF PollInv
  <2>0. ASSUME unpolled' = 0, IsFiniteSet(alive') PROVE PollInv'
    <3>1. DepartedExpire' /\ ShardsPolled'
      BY <2>0 DEF DepartedExpire, ShardsPolled, ShardTypeOK, Enough
    <3>2. DerivedHasBest' /\ OwnedHasBest'
      BY <2>0 DEF DerivedHasBest, OwnedHasBest, SinceRefresh, ShardTypeOK
    <3>3. QED
      BY <3>1, <3>2
  <2>1. ASSUME NEW w \in Members, TimerRefresh(w) PROVE PollInv'
    BY <2>1, DeriveKeepsPolled DEF TimerRefresh, Tasks
  <2>2. ASSUME NEW w \in Members, EventRefresh(w) PROVE PollInv'
    BY <2>2, DeriveKeepsPolled DEF EventRefresh, Tasks
  <2>3. ASSUME NEW w \in Members, RefreshFails(w) \/ Join(w) \/ Quit(w) PROVE PollInv'
    <3>1. alive' \in {alive, alive \cup {w}, alive \ {w}} /\ unpolled' = 0
      BY <2>3 DEF RefreshFails, Join, Quit
    <3>2. IsFiniteSet(alive')
      BY <3>1, FS_AddElement, FS_RemoveElement DEF DepartedExpire
    <3>3. QED
      BY <2>0, <3>1, <3>2
  <2>4. ASSUME NEW w \in Members, NEW t \in Tasks, Publish(w, t) PROVE PollInv'
    <3> USE <2>4 DEF Publish, ShardTypeOK, SinceRefresh
    <3>1. \A x \in alive : Best(x)' = Best(x)
      BY DEF Best
    <3>2. DepartedExpire' /\ ShardsPolled'
      BY DEF DepartedExpire, ShardsPolled, Enough
    <3>3. DerivedHasBest'
      BY <3>1 DEF DerivedHasBest
    <3>4. OwnedHasBest'
      <4>1. unpolled >= MemberTTL => Best(w) \subseteq owned'[w]
        BY DEF DerivedHasBest
      <4>2. QED
        BY <3>1, <4>1 DEF OwnedHasBest
    <3>5. QED
      BY <3>2, <3>3, <3>4
  <2>5. ASSUME NEW w \in Members, Leave(w) PROVE PollInv'
    <3> USE <2>5 DEF Leave, ShardTypeOK
    <3>1. DepartedExpire' /\ ShardsPolled'
      BY DEF DepartedExpire, ShardsPolled, Enough
    <3>2. DerivedHasBest' /\ OwnedHasBest'
      BY DEF DerivedHasBest, OwnedHasBest, SinceRefresh, Best
    <3>3. QED
      BY <3>1, <3>2
  <2>6. CASE PauseOrResume
    BY <2>0, <2>6 DEF PauseOrResume, DepartedExpire
  <2>7. CASE RegistryFails \/ RegistryBack \/ UNCHANGED shardVars
    <3> USE <2>7 DEF RegistryFails, RegistryBack, shardVars, ShardTypeOK
    <3>1. DepartedExpire' /\ ShardsPolled'
      BY DEF DepartedExpire, ShardsPolled, Enough
    <3>2. DerivedHasBest' /\ OwnedHasBest'
      BY DEF DerivedHasBest, OwnedHasBest, SinceRefresh, Best
    <3>3. QED
      BY <3>1, <3>2
  <2>8. CASE ShardTick
    BY <2>8, TickKeepsPolled
  <2>9. QED
    BY <2>1, <2>2, <2>3, <2>4, <2>5, <2>6, <2>7, <2>8 DEF ShardNext
<1>3. QED
  BY <1>1, <1>2, PTL DEF ShardSpec

(* No shard of a queue that is not paused goes without an owner for longer *)
(* than an expiry and a refresh, while a worker runs (ownedShards).        *)
THEOREM ShardsAlwaysPolled == ShardSpec => []ShardsPolled
<1>1. PollInv => ShardsPolled
  BY DEF PollInv
<1>2. QED
  BY <1>1, PollInvariant, PTL

-----------------------------------------------------------------------------
(* The lock and the shards keep what they promise when they are composed,  *)
(* as the workers of a project run both.                                   *)
THEOREM CoordinationKeepsAll ==
  CoordinationSpec =>
    [](/\ PunctualKeepsKey /\ OneScheduler /\ LossNoticed /\ SweepsGoOn
       /\ ShardsSettle /\ OneOwner /\ ShardsPolled)
<1>1. CoordinationInit => LockInit /\ ShardInit
  BY DEF CoordinationInit
<1>2. [CoordinationNext]_coordination => [LockNext]_lockVars /\ [ShardNext]_shardVars
  BY DEF CoordinationNext, coordination
<1>3. CoordinationSpec => LockSpec /\ ShardSpec
  BY <1>1, <1>2, PTL DEF CoordinationSpec, LockSpec, ShardSpec
<1>4. QED
  BY <1>3, LockPunctualKeepsKey, LockOneScheduler, LockLossNoticed, LockSweepsGoOn,
     ShardsSettleAlways, SettledShardsHaveOneOwner, ShardsAlwaysPolled, PTL
=============================================================================
