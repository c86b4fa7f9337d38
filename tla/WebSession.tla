----------------------------- MODULE WebSession -----------------------------
(***************************************************************************)
(* The dashboard's session in the tabs of one browser: the tokens in the   *)
(* memory of lib/api.ts, the persisted auth store, the single-flight       *)
(* refresh that concurrent requests share, the sign-in pages, the two      *)
(* "sign out" controls, the guard in front of the app's pages and the      *)
(* bootstrap that selects a project.                                       *)
(*                                                                         *)
(* A step is what runs between two awaits.  In lib/api.ts both tokens are  *)
(* always set together, so a tab's memory is one pair.                     *)
(***************************************************************************)
EXTENDS AuthServer, FiniteSets

CONSTANTS Tabs, Reqs, DemoUser  (* Reqs bounds a tab's concurrent requests. *)

ASSUME DemoIsUser == DemoUser \in Users

VARIABLES
  mem,        (* mem[t]: the pair lib/api.ts sends.                        *)
  store,      (* store[t]: the auth store.                                 *)
  disk,       (* The store as localStorage has it, shared by the tabs.     *)
  route,      (* route[t]: a page behind the guard, or one of sign-in.     *)
  flight,     (* flight[t]: the refresh that "refreshing" refers to.       *)
  req,        (* req[t][r]: a call of req().                               *)
  signin,     (* signin[t]: the sign-in form being submitted.              *)
  presented   (* presented[t]: the refresh tokens this page load presented. *)

client == <<mem, store, disk, route, flight, req, signin, presented>>
vars == <<server, client>>

MaybePair == Pairs \cup {NULL}
MaybeUser == Users \cup {NULL}

(* A project is named by the user whose organization owns it.  crossed is  *)
(* a history variable: the session began or ended while a refresh that an  *)
(* earlier session had started was still under way, or took over what the  *)
(* same user had in such a session.                                        *)
StoreState == [pair : MaybePair, user : MaybeUser, project : MaybeUser, crossed : BOOLEAN]

SignedOut == [pair |-> NULL, user |-> NULL, project |-> NULL, crossed |-> FALSE]

FlightState == [pc : {"none", "sent", "found", "rotated", "refused"},
                old : MaybePair, new : MaybePair]
NoFlight == [pc |-> "none", old |-> NULL, new |-> NULL]

ReqState == [pc : {"idle", "sent", "waiting"},
             kind : {"page", "boot"}, pair : MaybePair, again : BOOLEAN]
IdleReq == [pc |-> "idle", kind |-> "page", pair |-> NULL, again |-> FALSE]

SigninState == [kind : {"none", "login", "register", "demo"}, user : MaybeUser]
NoSignin == [kind |-> "none", user |-> NULL]

TypeOK ==
  /\ ServerTypeOK
  /\ mem \in [Tabs -> MaybePair]
  /\ store \in [Tabs -> StoreState]
  /\ disk \in StoreState
  /\ route \in [Tabs -> {"app", "signin"}]
  /\ flight \in [Tabs -> FlightState]
  /\ req \in [Tabs -> [Reqs -> ReqState]]
  /\ signin \in [Tabs -> SigninState]
  /\ presented \in [Tabs -> SUBSET Pairs]

Init ==
  /\ ServerInit
  /\ mem = [t \in Tabs |-> NULL]
  /\ store = [t \in Tabs |-> SignedOut]
  /\ disk = SignedOut
  /\ route = [t \in Tabs |-> "signin"]
  /\ flight = [t \in Tabs |-> NoFlight]
  /\ req = [t \in Tabs |-> [r \in Reqs |-> IdleReq]]
  /\ signin = [t \in Tabs |-> NoSignin]
  /\ presented = [t \in Tabs |-> {}]

InFlight(t) == flight[t].pc # "none"

(* A set of the auth store, which zustand's persist writes to the disk.    *)
Persist(t, s) ==
  /\ store' = [store EXCEPT ![t] = s]
  /\ disk' = s

(* clear: tokens, user and project go, in memory and in the store.         *)
ClearStoreOnly(t) ==
  /\ Persist(t, [SignedOut EXCEPT !.crossed = InFlight(t)])
  /\ UNCHANGED mem

Clear(t) ==
  /\ mem' = [mem EXCEPT ![t] = NULL]
  /\ Persist(t, [SignedOut EXCEPT !.crossed = InFlight(t)])

(* What onAuthFailure registered: nothing when the store has no token.     *)
AuthLost(t) ==
  IF store[t].pair = NULL THEN UNCHANGED <<mem, store, disk>> ELSE Clear(t)

(* setAuth keeps the project only for the user who had selected it; a demo *)
(* sign-in then selects the demo project.                                  *)
SetAuthKeepingUser(t, p, u, kind) ==
  /\ mem' = [mem EXCEPT ![t] = p]
  /\ Persist(t, [pair |-> p, project |-> store[t].project, crossed |-> InFlight(t),
                 user |-> IF store[t].user = NULL THEN u ELSE store[t].user])

SetAuth(t, p, u, kind) ==
  LET same == store[t].user = u
  IN  /\ mem' = [mem EXCEPT ![t] = p]
      /\ Persist(t, [pair |-> p, user |-> u,
                     crossed |-> InFlight(t) \/ (same /\ store[t].crossed),
                     project |-> CASE kind = "demo" -> DemoUser
                                   [] kind # "demo" /\ same -> store[t].project
                                   [] OTHER -> NULL])

(* The requests of a tab once the bootstrap effect is torn down: its lookup *)
(* goes on, but its answer is dropped, as a page's would be.               *)
NeverCancelled(rs) == rs

Cancelled(rs) == [r \in Reqs |-> [rs[r] EXCEPT !.kind = "page"]]

-----------------------------------------------------------------------------
(* req() and refreshAccessToken().  The server's answer to a request and   *)
(* its arrival are one step: an access token never becomes valid again, so *)
(* an answer that is late is one that the server gave later.               *)

Rendered(t) == route[t] = "app" /\ store[t].pair # NULL

Sent(kind, p, again) == [pc |-> "sent", kind |-> kind, pair |-> p, again |-> again]

(* A page or a command behind the guard calls the API.                     *)
Request(t, r) ==
  /\ Rendered(t)
  /\ req[t][r].pc = "idle"
  /\ req' = [req EXCEPT ![t][r] = Sent("page", mem[t], FALSE)]
  /\ UNCHANGED <<server, mem, store, disk, route, flight, signin, presented>>

(* fetch rejects: the error reaches the page, the session is untouched.    *)
Unreachable(t, r) ==
  /\ req[t][r].pc = "sent"
  /\ req' = [req EXCEPT ![t][r] = IdleReq]
  /\ UNCHANGED <<server, mem, store, disk, route, flight, signin, presented>>

Unauthorized(t, r) == req[t][r].pc = "sent" /\ ~Authorized(req[t][r].pair)

Granted(t, r) ==
  /\ req[t][r].pc = "sent" /\ req[t][r].kind = "page"
  /\ Authorized(req[t][r].pair)
  /\ req' = [req EXCEPT ![t][r] = IdleReq]
  /\ UNCHANGED <<server, mem, store, disk, route, flight, signin, presented>>

(* The first 401 waits for the tab's refresh, which it starts when none is *)
(* under way, whatever session that one belongs to.                        *)
AwaitRefreshAlone(t, r) ==
  /\ Unauthorized(t, r) /\ ~req[t][r].again /\ mem[t] # NULL
  /\ req' = [req EXCEPT ![t][r].pc = "waiting"]
  /\ flight' = [flight EXCEPT ![t] = [pc |-> "sent", old |-> mem[t], new |-> NULL]]
  /\ presented' = [presented EXCEPT ![t] = @ \cup {mem[t]}]
  /\ UNCHANGED <<server, mem, store, disk, route, signin>>

AwaitRefresh(t, r) ==
  /\ Unauthorized(t, r) /\ ~req[t][r].again /\ mem[t] # NULL
  /\ req' = [req EXCEPT ![t][r].pc = "waiting"]
  /\ \/ /\ InFlight(t)
        /\ UNCHANGED <<flight, presented>>
     \/ /\ ~InFlight(t)
        /\ flight' = [flight EXCEPT ![t] = [pc |-> "sent", old |-> mem[t], new |-> NULL]]
        /\ presented' = [presented EXCEPT ![t] = @ \cup {mem[t]}]
  /\ UNCHANGED <<server, mem, store, disk, route, signin>>

(* A 401 that cannot be retried.                                           *)
Denied(t, r) ==
  /\ Unauthorized(t, r) /\ (req[t][r].again \/ mem[t] = NULL)
  /\ AuthLost(t)
  /\ req' = [req EXCEPT ![t] = Cancelled([@ EXCEPT ![r] = IdleReq])]
  /\ UNCHANGED <<server, route, flight, signin, presented>>

RefreshSelect(t) ==
  /\ flight[t].pc = "sent"
  /\ flight' = [flight EXCEPT ![t].pc = IF Redeemable(flight[t].old) THEN "found" ELSE "refused"]
  /\ UNCHANGED <<server, mem, store, disk, route, req, signin, presented>>

RefreshRotate(t) ==
  /\ flight[t].pc = "found"
  /\ \/ \E q \in Pairs : /\ Rotate(flight[t].old, q)
                         /\ flight' = [flight EXCEPT ![t].pc = "rotated", ![t].new = q]
     \/ /\ RotateHalfway(flight[t].old)
        /\ flight' = [flight EXCEPT ![t].pc = "refused"]
  /\ UNCHANGED <<mem, store, disk, route, req, signin, presented>>

(* The answer is lost: the catch of refreshAccessToken.                    *)
RefreshLost(t) ==
  /\ flight[t].pc \in {"sent", "rotated"}
  /\ flight' = [flight EXCEPT ![t].pc = "refused", ![t].new = NULL]
  /\ UNCHANGED <<server, mem, store, disk, route, req, signin, presented>>

(* The promise resolves: memory and store take the new tokens, whoever is  *)
(* signed in by now, and every request that waited is sent again; or it    *)
(* resolves to null, and they all fail after the session is cleared.       *)
SettleForgetful(t) ==
  /\ \/ /\ flight[t].pc = "rotated"
        /\ mem' = [mem EXCEPT ![t] = flight[t].new]
        /\ Persist(t, [store[t] EXCEPT !.pair = flight[t].new])
     \/ /\ flight[t].pc = "refused"
        /\ AuthLost(t)
  /\ flight' = [flight EXCEPT ![t] = NoFlight]
  /\ UNCHANGED <<server, route, req, signin, presented>>

SettleKeepingSession(t) ==
  /\ flight[t].pc \in {"rotated", "refused"}
  /\ IF flight[t].pc = "refused"
       THEN UNCHANGED <<mem, store, disk>>
       ELSE /\ mem' = [mem EXCEPT ![t] = flight[t].new]
            /\ Persist(t, [store[t] EXCEPT !.pair = flight[t].new])
  /\ req' = [req EXCEPT ![t] = [r \in Reqs |->
              IF @[r].pc = "waiting" THEN IdleReq ELSE @[r]]]
  /\ flight' = [flight EXCEPT ![t] = NoFlight]
  /\ UNCHANGED <<server, route, signin, presented>>

Settle(t) ==
  /\ \/ /\ flight[t].pc = "rotated"
        /\ mem' = [mem EXCEPT ![t] = flight[t].new]
        /\ Persist(t, [store[t] EXCEPT !.pair = flight[t].new])
        /\ req' = [req EXCEPT ![t] = Cancelled([r \in Reqs |->
                    IF @[r].pc = "waiting" THEN Sent("page", flight[t].new, TRUE) ELSE @[r]])]
     \/ /\ flight[t].pc = "refused"
        /\ IF store[t].pair = NULL
             THEN UNCHANGED <<mem, store, disk>>
             ELSE Persist(t, SignedOut) /\ mem' = [mem EXCEPT ![t] = NULL]
        /\ req' = [req EXCEPT ![t] = Cancelled([r \in Reqs |->
                    IF @[r].pc = "waiting" THEN IdleReq ELSE @[r]])]
  /\ flight' = [flight EXCEPT ![t] = NoFlight]
  /\ UNCHANGED <<server, route, signin, presented>>

-----------------------------------------------------------------------------
(* ProjectBootstrap: while no project is selected, look one up.  The two   *)
(* listings it makes are one request here: a new token, a sign-out or a    *)
(* page change between them cancels it.                                    *)

BootStart(t, r) ==
  /\ Rendered(t) /\ store[t].project = NULL
  /\ req[t][r].pc = "idle"
  /\ req' = [req EXCEPT ![t] = [Cancelled(@) EXCEPT ![r] = Sent("boot", mem[t], FALSE)]]
  /\ UNCHANGED <<server, mem, store, disk, route, flight, signin, presented>>

(* The lookup finds a project of the user whose token it presented, or     *)
(* finds none (or could not list any) and leads to the settings page.      *)
BootFound(t, r) ==
  /\ req[t][r].pc = "sent" /\ req[t][r].kind = "boot"
  /\ Authorized(req[t][r].pair)
  /\ req' = [req EXCEPT ![t] = Cancelled([@ EXCEPT ![r] = IdleReq])]
  /\ \/ Persist(t, [store[t] EXCEPT !.project = owner[req[t][r].pair]])
     \/ UNCHANGED <<store, disk>>
  /\ UNCHANGED <<server, mem, route, flight, signin, presented>>

-----------------------------------------------------------------------------
(* The sign-in pages.  A form is submitted once at a time (isSubmitting,   *)
(* demo.starting), and its promise outlives the page.                      *)

Submit(t, kind, u) ==
  /\ route[t] = "signin" /\ signin[t] = NoSignin
  /\ signin' = [signin EXCEPT ![t] = [kind |-> kind, user |-> u]]
  /\ UNCHANGED <<server, mem, store, disk, route, flight, req, presented>>

LoginPage(t) == \E u \in Users : Submit(t, "login", u)
(* The account is new: nobody holds a pair of it yet.                      *)
RegisterPage(t) ==
  \E u \in Users \ {DemoUser} : /\ \A p \in Pairs : owner[p] # u
                                /\ Submit(t, "register", u)
DemoButton(t) == Submit(t, "demo", DemoUser)

(* Login, Register or DemoLogin stores a new pair and its answer arrives.  *)
SignedIn(t) ==
  /\ signin[t] # NoSignin
  /\ \E p \in Pairs : /\ Issue(signin[t].user, p)
                      /\ SetAuth(t, p, signin[t].user, signin[t].kind)
  /\ req' = [req EXCEPT ![t] = Cancelled(@)]
  /\ route' = [route EXCEPT ![t] = "app"]
  /\ signin' = [signin EXCEPT ![t] = NoSignin]
  /\ UNCHANGED <<stale, dead, flight, presented>>

(* A refused password is a 401, and a 401 ends the session the tab still   *)
(* has; the other failures only show on the form.                          *)
SigninRefused(t) ==
  /\ signin[t] # NoSignin
  /\ \/ signin[t].kind = "login" /\ AuthLost(t)
     \/ UNCHANGED <<mem, store, disk>>
  /\ signin' = [signin EXCEPT ![t] = NoSignin]
  /\ req' = [req EXCEPT ![t] = IF mem'[t] = mem[t] THEN @ ELSE Cancelled(@)]
  /\ UNCHANGED <<server, route, flight, presented>>

-----------------------------------------------------------------------------
(* Sign-out, navigation and the guard.                                     *)

(* The sidebar's button: clear, then push.                                 *)
SignOut(t) ==
  /\ Rendered(t)
  /\ Clear(t)
  /\ route' = [route EXCEPT ![t] = "signin"]
  /\ req' = [req EXCEPT ![t] = Cancelled(@)]
  /\ UNCHANGED <<server, flight, signin, presented>>

(* The top bar's "Sign out" is a link to the sign-in page and nothing more. *)
MenuSignOut(t) ==
  /\ Rendered(t)
  /\ route' = [route EXCEPT ![t] = "signin"]
  /\ req' = [req EXCEPT ![t] = Cancelled(@)]
  /\ UNCHANGED <<server, mem, store, disk, flight, signin, presented>>

OpenApp(t) ==
  /\ route[t] = "signin"
  /\ route' = [route EXCEPT ![t] = "app"]
  /\ UNCHANGED <<server, mem, store, disk, flight, req, signin, presented>>

AuthGuard(t) ==
  /\ route[t] = "app" /\ store[t].pair = NULL
  /\ route' = [route EXCEPT ![t] = "signin"]
  /\ UNCHANGED <<server, mem, store, disk, flight, req, signin, presented>>

(* The page is loaded anew: the store and the memory start from the disk,  *)
(* and what was under way is gone, except at the server, which may have    *)
(* redeemed the token.                                                     *)
Reload(t) ==
  /\ store' = [store EXCEPT ![t] = disk]
  /\ mem' = [mem EXCEPT ![t] = disk.pair]
  /\ flight' = [flight EXCEPT ![t] = NoFlight]
  /\ req' = [req EXCEPT ![t] = [r \in Reqs |-> IdleReq]]
  /\ signin' = [signin EXCEPT ![t] = NoSignin]
  /\ presented' = [presented EXCEPT ![t] = {}]
  /\ \/ UNCHANGED dead
     \/ flight[t].pc \in {"sent", "found"} /\ dead' = dead \cup {flight[t].old}
  /\ UNCHANGED <<owner, stale, disk, route>>

-----------------------------------------------------------------------------
RequestStep(t, r) ==
  \/ Unreachable(t, r) \/ Granted(t, r) \/ BootFound(t, r)
  \/ AwaitRefresh(t, r) \/ Denied(t, r)

RefreshStep(t) == RefreshSelect(t) \/ RefreshRotate(t) \/ RefreshLost(t) \/ Settle(t)

SigninStep(t) == SignedIn(t) \/ SigninRefused(t)

UserStep(t) ==
  \/ LoginPage(t) \/ RegisterPage(t) \/ DemoButton(t)
  \/ SignOut(t) \/ MenuSignOut(t) \/ OpenApp(t) \/ Reload(t)
  \/ \E r \in Reqs : Request(t, r) \/ BootStart(t, r)

ServerStep ==
  /\ \E p \in Pairs : ExpireAccess(p) \/ Retire(p)
  /\ UNCHANGED client

Next ==
  \/ \E t \in Tabs : \/ UserStep(t) \/ SigninStep(t) \/ RefreshStep(t) \/ AuthGuard(t)
                     \/ \E r \in Reqs : RequestStep(t, r)
  \/ ServerStep

Spec == Init /\ [][Next]_vars

(***************************************************************************)
(* Fairness.  The browser settles every fetch, with an answer or with an   *)
(* error, promises resume, and React runs the guard's effect.  Nothing is  *)
(* assumed of the user, of expiry, or of which answer a fetch gets.        *)
(***************************************************************************)
Fairness ==
  \A t \in Tabs :
    /\ WF_vars(RefreshStep(t))
    /\ WF_vars(SigninStep(t))
    /\ WF_vars(AuthGuard(t))
    /\ \A r \in Reqs : WF_vars(RequestStep(t, r))

FairSpec == Spec /\ Fairness

-----------------------------------------------------------------------------
(* A session that no refresh of an earlier one ran into is of one user:    *)
(* the tokens the tab sends are the tokens of the user it shows            *)
(* (auth-store.ts setAuth, clear and onTokensRefreshed).                   *)
SessionOfOneUser ==
  \A t \in Tabs : (store[t].pair # NULL /\ ~store[t].crossed)
                     => store[t].user = owner[store[t].pair]

(* In such a session the selected project is one of that user's, however   *)
(* late a bootstrap lookup of the previous user is answered.               *)
ProjectOfUser ==
  \A t \in Tabs : (store[t].project # NULL /\ ~store[t].crossed)
                     => store[t].project = store[t].user

(* What a tab sends is what its store holds, for every step of every       *)
(* handler: a request never carries a token the store has already dropped. *)
CopiesAgree == \A t \in Tabs : mem[t] = store[t].pair

(* When a refresh has ended the tab no longer holds the token it presented. *)
SpentTokenDropped ==
  \A t \in Tabs : mem[t] \in presented[t]
                     => InFlight(t) /\ flight[t].old = mem[t]

(* Concurrent 401s redeem a refresh token once, and a page never presents  *)
(* a token again that it has presented (refreshAccessToken's "??=", and    *)
(* what becomes of the tokens when it ends).                               *)
PresentedOnce ==
  [][\A t \in Tabs : (flight'[t].pc = "sent" /\ flight'[t] # flight[t])
                         => flight'[t].old \notin presented[t]]_vars

(* The inductive invariant behind them.  A session without a crossing, on  *)
(* the disk or in a tab, has the tokens of its user; a refresh under way   *)
(* in it carries that user on; a bootstrap lookup that still counts was    *)
(* sent with the tokens the tab has; a form names a user.                  *)
Clean(s) ==
  /\ s.pair # NULL => owner[s.pair] # NULL
  /\ (s.pair # NULL /\ ~s.crossed) => s.user = owner[s.pair]
  /\ (s.project # NULL /\ ~s.crossed) => s.project = s.user

FlightCarriesUser(t) ==
  /\ InFlight(t) => /\ flight[t].old # NULL
                    /\ owner[flight[t].old] # NULL
                    /\ flight[t].old \in presented[t]
  /\ (InFlight(t) /\ ~store[t].crossed)
       => store[t].pair = flight[t].old
  /\ flight[t].pc = "rotated" => /\ flight[t].new \in Pairs
                                 /\ owner[flight[t].new] = owner[flight[t].old]
                                 /\ flight[t].new \notin presented[t]

LookupIsCurrent(t) ==
  \A r \in Reqs : req[t][r].kind = "boot" => req[t][r].pair = mem[t] /\ mem[t] # NULL

SigninNamesUser(t) ==
  signin[t] = NoSignin \/
    signin[t].user \in (IF signin[t].kind = "demo" THEN {DemoUser} ELSE Users)

SessionInv ==
  /\ TypeOK
  /\ CopiesAgree
  /\ SpentTokenDropped
  /\ Clean(disk)
  /\ \A t \in Tabs : /\ Clean(store[t])
                       /\ FlightCarriesUser(t)
                       /\ LookupIsCurrent(t)
                       /\ SigninNamesUser(t)
                       /\ \A p \in presented[t] : owner[p] # NULL

(* A request waits only for a refresh that is under way.                   *)
AwaitedRefreshRuns ==
  \A t \in Tabs, r \in Reqs : req[t][r].pc = "waiting" => InFlight(t)

(* Every call of req() settles: it cannot loop between 401s and refreshes, *)
(* nor wait for a refresh that is over.                                    *)
RequestsSettle ==
  \A t \in Tabs, r \in Reqs : req[t][r].pc # "idle" ~> req[t][r].pc = "idle"

(* A refused refresh leads the tab to the sign-in page, unless another     *)
(* session begins in it, or the page is loaded anew, before that.          *)
RefusalEndsSession ==
  \A t \in Tabs, p \in Pairs :
    (flight[t].pc = "refused" /\ flight[t].old = p)
      ~> (route[t] = "signin" \/ store[t].pair \notin {NULL, p} \/ p \notin presented[t])
=============================================================================
