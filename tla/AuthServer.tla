----------------------------- MODULE AuthServer -----------------------------
(***************************************************************************)
(* The token endpoints of the API.  A sign-in or a refresh issues a pair:  *)
(* a signed access token, good until it expires, and a refresh token, a    *)
(* row of refresh_tokens, good until it is redeemed, revoked or expires.   *)
(***************************************************************************)
EXTENDS Naturals

CONSTANTS Users, MaxPairs, NULL  (* MaxPairs bounds the pairs ever issued. *)

ASSUME NullIsNoUser == NULL \notin Users
ASSUME PairsBounded == MaxPairs \in Nat /\ NULL \notin 1..MaxPairs

VARIABLES
  owner,    (* The user a pair was issued to; NULL while it is not issued. *)
  stale,    (* The pairs whose access token has expired.                   *)
  dead      (* The pairs whose refresh token is revoked or expired.        *)

server == <<owner, stale, dead>>

Pairs == 1..MaxPairs

ServerTypeOK ==
  /\ owner \in [Pairs -> Users \cup {NULL}]
  /\ stale \subseteq Pairs
  /\ dead \subseteq Pairs

ServerInit ==
  /\ owner = [p \in Pairs |-> NULL]
  /\ stale = {}
  /\ dead = {}

(* The next pair that generateTokens makes.                                *)
Fresh(p) == owner[p] = NULL /\ \A q \in Pairs : q < p => owner[q] # NULL

(* The middleware lets a request through.                                  *)
Authorized(p) == p # NULL /\ p \notin stale

(* Refresh's SELECT finds the row, not revoked and not expired.            *)
Redeemable(p) == owner[p] # NULL /\ p \notin dead

Issue(u, p) ==
  /\ Fresh(p)
  /\ owner' = [owner EXCEPT ![p] = u]

(* Refresh after its SELECT: the UPDATE that revokes the presented token   *)
(* says nothing of the row's state, so it also passes when another request *)
(* redeemed the token since; then the new pair is stored.                  *)
Rotate(p, q) ==
  /\ Issue(owner[p], q)
  /\ dead' = dead \cup {p}
  /\ UNCHANGED stale

(* The same with a failing INSERT: the old token is gone, the answer 500.  *)
RotateHalfway(p) ==
  /\ dead' = dead \cup {p}
  /\ UNCHANGED <<owner, stale>>

ExpireAccess(p) ==
  /\ owner[p] # NULL /\ p \notin stale
  /\ stale' = stale \cup {p}
  /\ UNCHANGED <<owner, dead>>

(* The row's expires_at passes, days after the access token expired.  The  *)
(* dashboard never calls Logout, which would retire the token earlier.     *)
Retire(p) ==
  /\ Redeemable(p) /\ p \in stale
  /\ dead' = dead \cup {p}
  /\ UNCHANGED <<owner, stale>>
=============================================================================
