------------------------------ MODULE SwrCache ------------------------------
(***************************************************************************)
(* The cache the dashboard's pages read through (the swr package, as       *)
(* hooks/use-data.ts and the pages use it): one entry per key, at most one *)
(* fetch in flight that counts, and optimistic mutations.                  *)
(*                                                                         *)
(* A value is whatever the fetch of the key returns; NULL is undefined.    *)
(***************************************************************************)
EXTENDS Naturals, FiniteSets

CONSTANTS Keys, NULL

VARIABLES
  data,       (* data[k]: what the entry holds, optimistic or not.         *)
  committed,  (* committed[k]: what it held before the pending mutations.  *)
  err,        (* err[k]: the last fetch failed.                            *)
  fetch       (* fetch[k]: the fetch in flight.                            *)

cache == <<data, committed, err, fetch>>

(* read is what the server has answered, once it has; void is set when a   *)
(* mutation of the key started or ended after the fetch did.               *)
NoFetch == [pc |-> "none", read |-> NULL, void |-> FALSE]
Asked(void) == [pc |-> "asked", read |-> NULL, void |-> void]

CacheTypeOK(Values) ==
  /\ data \in [Keys -> Values \cup {NULL}]
  /\ committed \in [Keys -> Values \cup {NULL}]
  /\ err \in [Keys -> BOOLEAN]
  /\ fetch \in [Keys -> [pc : {"none", "asked", "read"}, read : Values \cup {NULL},
                         void : BOOLEAN]]

CacheInit ==
  /\ data = [k \in Keys |-> NULL]
  /\ committed = [k \in Keys |-> NULL]
  /\ err = [k \in Keys |-> FALSE]
  /\ fetch = [k \in Keys |-> NoFetch]

(* mutate() without data forgets the fetch in flight and starts another;   *)
(* busy says that a mutation of the key is still running.                  *)
Revalidate(k, busy) == fetch' = [fetch EXCEPT ![k] = Asked(busy)]

(* A poll joins the fetch in flight, and does nothing while the entry has  *)
(* an error: only a mutate or a focus fetches again then.                  *)
Poll(k, busy) ==
  /\ fetch[k].pc = "none" /\ ~err[k]
  /\ Revalidate(k, busy)
  /\ UNCHANGED <<data, committed, err>>

Focus(k, busy) ==
  /\ fetch[k].pc = "none"
  /\ Revalidate(k, busy)
  /\ UNCHANGED <<data, committed, err>>

ServerReads(k, value) ==
  /\ fetch[k].pc = "asked"
  /\ fetch' = [fetch EXCEPT ![k].pc = "read", ![k].read = value]
  /\ UNCHANGED <<data, committed, err>>

(* The answer arrives: dropped when void, and the error is cleared.        *)
Arrive(k) ==
  /\ fetch[k].pc = "read"
  /\ data' = [data EXCEPT ![k] = IF fetch[k].void THEN @ ELSE fetch[k].read]
  /\ err' = [err EXCEPT ![k] = FALSE]
  /\ fetch' = [fetch EXCEPT ![k] = NoFetch]
  /\ UNCHANGED committed

FetchFails(k) ==
  /\ fetch[k].pc # "none"
  /\ err' = [err EXCEPT ![k] = TRUE]
  /\ fetch' = [fetch EXCEPT ![k] = NoFetch]
  /\ UNCHANGED <<data, committed>>

(* What the next mutation takes as current data.                           *)
Base(k) == IF committed[k] # NULL THEN committed[k] ELSE data[k]

(* mutate(fn, {optimisticData}) shows the optimistic value at once.        *)
MutateStart(k, value) ==
  /\ data' = [data EXCEPT ![k] = value]
  /\ committed' = [committed EXCEPT ![k] = Base(k)]
  /\ fetch' = [fetch EXCEPT ![k].void = @ \/ fetch[k].pc # "none"]
  /\ UNCHANGED err

(* The last mutation of the key ends with a value, or rolls back to the    *)
(* committed one; either way a fetch starts.                               *)
MutateEnd(k, value, failed) ==
  /\ data' = [data EXCEPT ![k] = value]
  /\ committed' = [committed EXCEPT ![k] = NULL]
  /\ err' = [err EXCEPT ![k] = failed /\ @]
  /\ fetch' = [fetch EXCEPT ![k] = Asked(FALSE)]
=============================================================================
