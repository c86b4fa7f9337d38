-------------------------- MODULE WebSessionProofs --------------------------
(***************************************************************************)
(* For any number of tabs, requests, users and pairs: SessionInv is        *)
(* inductive, and with it a session that no refresh of an earlier one ran  *)
(* into has the tokens and the project of its user, and a page presents a  *)
(* refresh token once.                                                     *)
(***************************************************************************)
EXTENDS WebSession, TLAPS

USE NullIsNoUser, PairsBounded, DemoIsUser

(* What SessionInv says of one tab.                                        *)
TabInv(t) ==
  /\ mem[t] = store[t].pair
  /\ mem[t] \in presented[t] => InFlight(t) /\ flight[t].old = mem[t]
  /\ Clean(store[t])
  /\ FlightCarriesUser(t)
  /\ LookupIsCurrent(t)
  /\ SigninNamesUser(t)
  /\ \A p \in presented[t] : owner[p] # NULL

(* The invariant is one of the disk and one of each tab.                   *)
LEMMA SessionByTabs ==
  SessionInv <=> TypeOK /\ Clean(disk) /\ \A t \in Tabs : TabInv(t)
BY DEF SessionInv, TabInv, CopiesAgree, SpentTokenDropped

(* The server never takes an issued pair back.                             *)
OwnersStay == \A p \in Pairs : owner[p] # NULL => owner'[p] = owner[p]

(* A null token is none of those the server issues.                        *)
LEMMA NullIsNoPair == NULL \notin Pairs
BY DEF Pairs

(* What a step of one tab leaves of the others.                            *)
SameTab(t) ==
  /\ mem'[t] = mem[t] /\ store'[t] = store[t] /\ flight'[t] = flight[t]
  /\ req'[t] = req[t] /\ presented'[t] = presented[t] /\ signin'[t] = signin[t]

(* What a step leaves of a tab keeps the tab's invariant: the server only  *)
(* adds owners.                                                            *)
LEMMA OtherTab ==
  ASSUME TypeOK, NEW t \in Tabs, TabInv(t), OwnersStay, SameTab(t)
  PROVE  TabInv(t)'
<1> USE NullIsNoPair DEF TypeOK, SameTab
<1>1. store[t] \in StoreState /\ flight[t] \in FlightState /\ presented[t] \subseteq Pairs
  OBVIOUS
<1>2. Clean(store[t])'
  <2>1. Clean(store[t])
    BY DEF TabInv
  <2>2. QED
    BY <1>1, <2>1 DEF Clean, OwnersStay, StoreState, MaybePair
<1>3. FlightCarriesUser(t)'
  BY <1>1 DEF TabInv, FlightCarriesUser, InFlight, OwnersStay, FlightState, MaybePair
<1>4. LookupIsCurrent(t)'
  BY DEF TabInv, LookupIsCurrent
<1>5. \A p \in presented[t] : owner'[p] # NULL
  BY <1>1 DEF TabInv, OwnersStay
<1>6. QED
  BY <1>2, <1>3, <1>4, <1>5 DEF TabInv, InFlight, SigninNamesUser

(* So that an action is left with its tab, the disk and the types.         *)
LEMMA OneTab ==
  ASSUME SessionInv, NEW t \in Tabs, OwnersStay,
         \A u \in Tabs \ {t} : SameTab(u),
         TypeOK', Clean(disk)', TabInv(t)'
  PROVE  SessionInv'
<1>1. \A u \in Tabs \ {t} : TabInv(u)'
  BY OtherTab, SessionByTabs
<1>2. QED
  BY <1>1 DEF SessionInv, TabInv, CopiesAgree, SpentTokenDropped

-----------------------------------------------------------------------------
(* Types, action by action.                                                *)

(* A step of the browser alone leaves the server's tables.                 *)
LEMMA ServerKept ==
  ASSUME ServerTypeOK, UNCHANGED server PROVE ServerTypeOK' /\ OwnersStay
BY DEF ServerTypeOK, server, OwnersStay

(* Types under the steps of req().                                         *)
LEMMA RequestTypes ==
  ASSUME TypeOK, NEW t \in Tabs, NEW r \in Reqs,
         Request(t, r) \/ BootStart(t, r) \/ RequestStep(t, r)
  PROVE  TypeOK' /\ OwnersStay
<1> USE DEF TypeOK
<1> req[t] \in [Reqs -> ReqState] /\ mem[t] \in MaybePair /\ store[t] \in StoreState
  OBVIOUS
<1> IdleReq \in ReqState
  BY DEF IdleReq, ReqState, MaybePair
<1>0. UNCHANGED server
  BY DEF Request, BootStart, RequestStep, Unreachable, Granted, BootFound, AwaitRefresh, Denied
<1>1. ServerTypeOK' /\ OwnersStay
  BY <1>0, ServerKept
<1>2. UNCHANGED <<route, signin>>
  BY DEF Request, BootStart, RequestStep, Unreachable, Granted, BootFound, AwaitRefresh, Denied
<1>3. \A rs \in [Reqs -> ReqState] : Cancelled(rs) \in [Reqs -> ReqState]
  BY DEF Cancelled, ReqState
<1>4. Sent("page", mem[t], FALSE) \in ReqState /\ Sent("boot", mem[t], FALSE) \in ReqState
  BY DEF Sent, ReqState
<1>5. req' \in [Tabs -> [Reqs -> ReqState]]
  <2>1. CASE Request(t, r)
    BY <2>1, <1>4 DEF Request
  <2>2. CASE BootStart(t, r)
    BY <2>2, <1>3, <1>4 DEF BootStart
  <2>3. CASE Unreachable(t, r) \/ Granted(t, r)
    BY <2>3 DEF Unreachable, Granted
  <2>4. CASE BootFound(t, r) \/ Denied(t, r)
    <3>1. [req[t] EXCEPT ![r] = IdleReq] \in [Reqs -> ReqState]
      OBVIOUS
    <3>2. req' = [req EXCEPT ![t] = Cancelled([req[t] EXCEPT ![r] = IdleReq])]
      BY <2>4 DEF BootFound, Denied
    <3>3. QED
      BY <3>1, <3>2, <1>3
  <2>5. CASE AwaitRefresh(t, r)
    <3>1. [req[t][r] EXCEPT !.pc = "waiting"] \in ReqState
      BY DEF ReqState
    <3>2. req' = [req EXCEPT ![t][r] = [req[t][r] EXCEPT !.pc = "waiting"]]
      BY <2>5 DEF AwaitRefresh
    <3>3. QED
      BY <3>1, <3>2
  <2>6. QED
    BY <2>1, <2>2, <2>3, <2>4, <2>5 DEF RequestStep
<1>6. flight' \in [Tabs -> FlightState] /\ presented' \in [Tabs -> SUBSET Pairs]
  <2>1. CASE AwaitRefresh(t, r)
    <3>1. mem[t] \in Pairs
      BY <2>1 DEF AwaitRefresh, MaybePair
    <3>2. [pc |-> "sent", old |-> mem[t], new |-> NULL] \in FlightState
      BY <3>1 DEF FlightState, MaybePair
    <3>3. flight' \in [Tabs -> FlightState]
      BY <2>1, <3>2 DEF AwaitRefresh
    <3>4. presented' \in [Tabs -> SUBSET Pairs]
      BY <2>1, <3>1 DEF AwaitRefresh
    <3>5. QED
      BY <3>3, <3>4
  <2>2. CASE ~AwaitRefresh(t, r)
    BY <2>2 DEF Request, BootStart, RequestStep, Unreachable, Granted, BootFound, Denied
  <2>3. QED
    BY <2>1, <2>2
<1>7. /\ mem' \in [Tabs -> MaybePair] /\ store' \in [Tabs -> StoreState]
      /\ disk' \in StoreState
  <2>1. CASE BootFound(t, r)
    <3>1. req[t][r].pair \in Pairs
      BY <2>1 DEF BootFound, Authorized, ReqState, MaybePair
    <3>2. owner[req[t][r].pair] \in MaybeUser
      BY <3>1 DEF ServerTypeOK, MaybeUser
    <3>3. [store[t] EXCEPT !.project = owner[req[t][r].pair]] \in StoreState
      BY <3>2 DEF StoreState
    <3>4. QED
      BY <2>1, <3>3 DEF BootFound, Persist
  <2>2. CASE Denied(t, r)
    <3>1. [SignedOut EXCEPT !.crossed = InFlight(t)] \in StoreState
      BY DEF SignedOut, StoreState, MaybePair, MaybeUser, InFlight
    <3>2. NULL \in MaybePair
      BY DEF MaybePair
    <3>3. QED
      BY <2>2, <3>1, <3>2 DEF Denied, AuthLost, Clear, Persist
  <2>3. CASE ~BootFound(t, r) /\ ~Denied(t, r)
    BY <2>3 DEF Request, BootStart, RequestStep, Unreachable, Granted, AwaitRefresh
  <2>4. QED
    BY <2>1, <2>2, <2>3
<1>8. QED
  BY <1>1, <1>2, <1>5, <1>6, <1>7

(* Types under the steps of refreshAccessToken.                            *)
LEMMA RefreshTypes ==
  ASSUME TypeOK, NEW t \in Tabs, RefreshStep(t), FlightCarriesUser(t)
  PROVE  TypeOK' /\ OwnersStay
<1> USE DEF TypeOK
<1> req[t] \in [Reqs -> ReqState] /\ flight[t] \in FlightState /\ store[t] \in StoreState
  OBVIOUS
<1> IdleReq \in ReqState /\ NoFlight \in FlightState /\ NULL \in MaybePair
  BY DEF IdleReq, NoFlight, FlightState, ReqState, MaybePair
<1>1. ServerTypeOK' /\ OwnersStay
  <2>1. CASE RefreshRotate(t)
    <3>1. flight[t].old \in Pairs /\ owner[flight[t].old] \in Users
      BY <2>1, NullIsNoPair DEF RefreshRotate, FlightCarriesUser, InFlight, FlightState,
        MaybePair, ServerTypeOK
    <3>2. CASE \E q \in Pairs : Rotate(flight[t].old, q)
      BY <3>1, <3>2 DEF Rotate, Issue, Fresh, ServerTypeOK, OwnersStay
    <3>3. CASE RotateHalfway(flight[t].old)
      BY <3>1, <3>3 DEF RotateHalfway, ServerTypeOK, OwnersStay
    <3>4. QED
      BY <2>1, <3>2, <3>3 DEF RefreshRotate
  <2>2. CASE UNCHANGED server
    BY <2>2, ServerKept
  <2>3. QED
    BY <2>1, <2>2 DEF RefreshStep, RefreshSelect, RefreshLost, Settle
<1>2. UNCHANGED <<route, signin, presented>>
  BY DEF RefreshStep, RefreshSelect, RefreshRotate, RefreshLost, Settle
<1>3. flight' \in [Tabs -> FlightState]
  <2>1. CASE RefreshSelect(t)
    <3>1. \A c \in {"found", "refused"} : [flight[t] EXCEPT !.pc = c] \in FlightState
      BY DEF FlightState
    <3>2. QED
      BY <2>1, <3>1 DEF RefreshSelect
  <2>2. CASE RefreshRotate(t)
    <3>1. \A q \in Pairs : [flight[t] EXCEPT !.pc = "rotated", !.new = q] \in FlightState
      BY DEF FlightState, MaybePair
    <3>2. [flight[t] EXCEPT !.pc = "refused"] \in FlightState
      BY DEF FlightState
    <3>3. QED
      BY <2>2, <3>1, <3>2 DEF RefreshRotate
  <2>3. CASE RefreshLost(t)
    <3>1. [flight[t] EXCEPT !.pc = "refused", !.new = NULL] \in FlightState
      BY DEF FlightState
    <3>2. QED
      BY <2>3, <3>1 DEF RefreshLost
  <2>4. CASE Settle(t)
    BY <2>4 DEF Settle
  <2>5. QED
    BY <2>1, <2>2, <2>3, <2>4 DEF RefreshStep
<1>4. CASE Settle(t)
  <2>1. \A rs \in [Reqs -> ReqState] : Cancelled(rs) \in [Reqs -> ReqState]
    BY DEF Cancelled, ReqState
  <2>2. flight[t].new \in MaybePair /\ Sent("page", flight[t].new, TRUE) \in ReqState
    BY DEF FlightState, Sent, ReqState
  <2>3. req' \in [Tabs -> [Reqs -> ReqState]]
    <3>1. \A e \in ReqState :
            [r \in Reqs |-> IF req[t][r].pc = "waiting" THEN e ELSE req[t][r]] \in [Reqs -> ReqState]
      OBVIOUS
    <3>2. \E e \in ReqState : req' = [req EXCEPT ![t] = Cancelled(
            [r \in Reqs |-> IF req[t][r].pc = "waiting" THEN e ELSE req[t][r]])]
      BY <1>4, <2>2 DEF Settle
    <3>3. \E rs \in [Reqs -> ReqState] : req' = [req EXCEPT ![t] = Cancelled(rs)]
      BY <3>1, <3>2
    <3>4. QED
      BY <2>1, <3>3
  <2>4. [store[t] EXCEPT !.pair = flight[t].new] \in StoreState /\ SignedOut \in StoreState
    BY <2>2 DEF StoreState, SignedOut, MaybeUser
  <2>5. mem' \in [Tabs -> MaybePair] /\ store' \in [Tabs -> StoreState] /\ disk' \in StoreState
    <3>1. \/ UNCHANGED <<mem, store, disk>>
          \/ \E p \in MaybePair, s \in StoreState :
               /\ mem' = [mem EXCEPT ![t] = p]
               /\ store' = [store EXCEPT ![t] = s] /\ disk' = s
      <4>1. CASE flight[t].pc = "rotated"
        BY ONLY <1>4, <2>2, <2>4, <4>1 DEF Settle, Persist
      <4>2. CASE flight[t].pc # "rotated"
        <5>1. NULL \in MaybePair
          BY ONLY TRUE DEF MaybePair
        <5>2. QED
          BY ONLY <1>4, <2>4, <4>2, <5>1 DEF Settle, Persist
      <4>3. QED
        BY ONLY <4>1, <4>2
    <3>2. QED
      BY ONLY <3>1, TypeOK DEF TypeOK
  <2>6. QED
    BY <1>1, <1>2, <1>3, <2>3, <2>5
<1>5. CASE ~Settle(t)
  BY <1>1, <1>2, <1>3, <1>5 DEF RefreshStep, RefreshSelect, RefreshRotate, RefreshLost
<1>6. QED
  BY <1>4, <1>5

(* Types under the sign-in pages and the demo button.                      *)
LEMMA SigninTypes ==
  ASSUME TypeOK, NEW t \in Tabs, SigninStep(t) PROVE TypeOK' /\ OwnersStay
<1> USE DEF TypeOK
<1> req[t] \in [Reqs -> ReqState] /\ signin[t] \in SigninState /\ store[t] \in StoreState
  OBVIOUS
<1>1. UNCHANGED <<flight, presented>>
  BY DEF SigninStep, SignedIn, SigninRefused
<1>2. NoSignin \in SigninState
  BY DEF NoSignin, SigninState, MaybeUser
<1>3. Cancelled(req[t]) \in [Reqs -> ReqState]
  BY DEF Cancelled, ReqState
<1>4. /\ signin' \in [Tabs -> SigninState] /\ req' \in [Tabs -> [Reqs -> ReqState]]
      /\ route' \in [Tabs -> {"app", "signin"}]
  BY <1>2, <1>3 DEF SigninStep, SignedIn, SigninRefused
<1>5. CASE SignedIn(t)
  <2>1. signin[t].user \in MaybeUser
    BY DEF SigninState
  <2>2. ServerTypeOK' /\ OwnersStay
    BY <1>5, <2>1 DEF SignedIn, Issue, Fresh, ServerTypeOK, OwnersStay, MaybeUser
  <2>3. PICK p \in Pairs : SetAuth(t, p, signin[t].user, signin[t].kind)
    BY <1>5 DEF SignedIn
  <2>4. p \in MaybePair
    BY DEF MaybePair
  <2>5. \E s \in StoreState : Persist(t, s)
    BY <2>1, <2>3, <2>4 DEF SetAuth, StoreState, InFlight, MaybeUser
  <2>6. mem' \in [Tabs -> MaybePair] /\ store' \in [Tabs -> StoreState] /\ disk' \in StoreState
    BY <2>3, <2>4, <2>5 DEF SetAuth, Persist
  <2>7. QED
    BY <1>1, <1>4, <2>2, <2>6
<1>6. CASE SigninRefused(t)
  <2>1. ServerTypeOK' /\ OwnersStay
    BY <1>6, ServerKept DEF SigninRefused
  <2>2. [SignedOut EXCEPT !.crossed = InFlight(t)] \in StoreState /\ NULL \in MaybePair
    BY DEF SignedOut, StoreState, MaybePair, MaybeUser, InFlight
  <2>3. mem' \in [Tabs -> MaybePair] /\ store' \in [Tabs -> StoreState] /\ disk' \in StoreState
    BY <1>6, <2>2 DEF SigninRefused, AuthLost, Clear, Persist
  <2>4. QED
    BY <1>1, <1>4, <2>1, <2>3
<1>7. QED
  BY <1>5, <1>6 DEF SigninStep

(* Users, the guard and the passing of time.                               *)
LEMMA OtherTypes ==
  ASSUME TypeOK, NEW t \in Tabs, FlightCarriesUser(t),
         \/ LoginPage(t) \/ RegisterPage(t) \/ DemoButton(t) \/ SignOut(t) \/ MenuSignOut(t)
         \/ OpenApp(t) \/ Reload(t) \/ AuthGuard(t)
  PROVE  TypeOK' /\ OwnersStay
<1> USE DEF TypeOK
<1> req[t] \in [Reqs -> ReqState] /\ store[t] \in StoreState /\ flight[t] \in FlightState
  OBVIOUS
<1>1. CASE LoginPage(t) \/ RegisterPage(t) \/ DemoButton(t)
  <2>1. UNCHANGED <<server, mem, store, disk, route, flight, req, presented>>
    BY <1>1 DEF LoginPage, RegisterPage, DemoButton, Submit
  <2>2. \E k \in {"login", "register", "demo"}, u \in Users :
          signin' = [signin EXCEPT ![t] = [kind |-> k, user |-> u]]
    BY <1>1 DEF LoginPage, RegisterPage, DemoButton, Submit
  <2>3. signin' \in [Tabs -> SigninState]
    BY <2>2 DEF SigninState, MaybeUser
  <2>4. QED
    BY <2>1, <2>3, ServerKept
<1>2. CASE SignOut(t) \/ MenuSignOut(t)
  <2>1. Cancelled(req[t]) \in [Reqs -> ReqState]
    BY DEF Cancelled, ReqState
  <2>2. [SignedOut EXCEPT !.crossed = InFlight(t)] \in StoreState /\ NULL \in MaybePair
    BY DEF SignedOut, StoreState, MaybePair, MaybeUser, InFlight
  <2>3. mem' \in [Tabs -> MaybePair] /\ store' \in [Tabs -> StoreState] /\ disk' \in StoreState
    BY <1>2, <2>2 DEF SignOut, MenuSignOut, Clear, Persist
  <2>4. req' \in [Tabs -> [Reqs -> ReqState]] /\ route' \in [Tabs -> {"app", "signin"}]
    BY <1>2, <2>1 DEF SignOut, MenuSignOut
  <2>5. QED
    BY <1>2, <2>3, <2>4, ServerKept DEF SignOut, MenuSignOut
<1>3. CASE OpenApp(t) \/ AuthGuard(t)
  BY <1>3, ServerKept DEF OpenApp, AuthGuard
<1>4. CASE Reload(t)
  <2>1. IdleReq \in ReqState /\ NoFlight \in FlightState /\ NoSignin \in SigninState
    BY DEF IdleReq, ReqState, NoFlight, FlightState, NoSignin, SigninState, MaybePair, MaybeUser
  <2>2. disk.pair \in MaybePair
    BY DEF StoreState
  <2>3. dead' \subseteq Pairs
    <3>1. dead \subseteq Pairs
      BY DEF ServerTypeOK
    <3>2. QED
      BY <1>4, <3>1 DEF Reload, InFlight, FlightCarriesUser, FlightState, MaybePair
  <2>4. ServerTypeOK' /\ OwnersStay
    BY <1>4, <2>3 DEF Reload, ServerTypeOK, OwnersStay
  <2>5. QED
    BY <1>4, <2>1, <2>2, <2>4 DEF Reload
<1>5. QED
  BY <1>1, <1>2, <1>3, <1>4

-----------------------------------------------------------------------------
(* What each action leaves of its tab.                                     *)

(* A step that leaves the store and the disk keeps what is said of both.   *)
LEMMA StoreKept ==
  ASSUME TypeOK, NEW t \in Tabs, Clean(disk), Clean(store[t]), OwnersStay,
         disk' = disk, store'[t] = store[t]
  PROVE  Clean(disk)' /\ Clean(store[t])'
<1>1. store[t] \in StoreState /\ disk \in StoreState
  BY DEF TypeOK
<1>2. QED
  BY <1>1, NullIsNoPair DEF Clean, OwnersStay, StoreState, MaybePair

(* A session cleared, in the store and on the disk.                        *)
LEMMA ClearKeepsTab ==
  ASSUME TypeOK, TypeOK', NEW t \in Tabs, TabInv(t), Clear(t),
         UNCHANGED <<owner, flight, presented>>,
         \A r \in Reqs : req'[t][r].kind # "boot", SigninNamesUser(t)'
  PROVE  Clean(disk)' /\ TabInv(t)'
<1> USE NullIsNoPair DEF TypeOK
<1>1. mem'[t] = NULL /\ store'[t] = [SignedOut EXCEPT !.crossed = InFlight(t)] /\ disk' = store'[t]
  BY DEF Clear, Persist
<1>2. mem'[t] = store'[t].pair /\ store'[t].project = NULL /\ store'[t].crossed = InFlight(t)
  BY <1>1 DEF SignedOut
<1>3. Clean(disk)' /\ Clean(store[t])'
  BY <1>1, <1>2 DEF Clean
<1>4. FlightCarriesUser(t)'
  BY <1>2 DEF TabInv, FlightCarriesUser, InFlight
<1>5. LookupIsCurrent(t)'
  BY DEF LookupIsCurrent
<1>6. mem'[t] \notin presented'[t]
  BY <1>1
<1>7. QED
  BY <1>2, <1>3, <1>4, <1>5, <1>6 DEF TabInv

(* The steps of req() keep the invariant of their tab.                     *)
LEMMA RequestKeepsTab ==
  ASSUME SessionInv, TypeOK', OwnersStay, NEW t \in Tabs, NEW r \in Reqs,
         Request(t, r) \/ BootStart(t, r) \/ RequestStep(t, r)
  PROVE  Clean(disk)' /\ TabInv(t)'
<1> TypeOK /\ Clean(disk) /\ TabInv(t)
  BY SessionByTabs
<1> SigninNamesUser(t)'
  BY DEF TabInv, SigninNamesUser, Request, BootStart, RequestStep, Unreachable, Granted, BootFound,
    AwaitRefresh, Denied
<1> USE NullIsNoPair DEF TypeOK
<1> req[t] \in [Reqs -> ReqState] /\ req'[t] \in [Reqs -> ReqState]
  OBVIOUS
<1>0. UNCHANGED owner
  BY DEF Request, BootStart, RequestStep, Unreachable, Granted, BootFound, AwaitRefresh, Denied,
    server
<1>1. CASE Request(t, r) \/ Unreachable(t, r) \/ Granted(t, r)
  <2>1. UNCHANGED <<mem, store, disk, flight, presented>>
    BY <1>1 DEF Request, Unreachable, Granted
  <2>2. LookupIsCurrent(t)'
    <3>1. \A x \in Reqs : req'[t][x] = req[t][x] \/ req'[t][x].kind = "page"
      BY <1>1 DEF Request, Unreachable, Granted, Sent, IdleReq
    <3>2. QED
      BY <2>1, <3>1 DEF LookupIsCurrent, TabInv
  <2>3. QED
    BY <1>0, <2>1, <2>2, StoreKept DEF TabInv, FlightCarriesUser, InFlight
<1>2. CASE BootStart(t, r)
  <2>1. UNCHANGED <<mem, store, disk, flight, presented>>
    BY <1>2 DEF BootStart
  <2>2. LookupIsCurrent(t)'
    <3>1. mem[t] # NULL
      BY <1>2 DEF BootStart, Rendered, TabInv
    <3>2. \A x \in Reqs : x # r => req'[t][x].kind = "page"
      BY <1>2 DEF BootStart, Cancelled, ReqState
    <3>3. req'[t][r].pair = mem[t]
      BY <1>2 DEF BootStart, Cancelled, Sent
    <3>4. QED
      BY <2>1, <3>1, <3>2, <3>3 DEF LookupIsCurrent
  <2>3. QED
    BY <1>0, <2>1, <2>2, StoreKept DEF TabInv, FlightCarriesUser, InFlight
<1>3. CASE BootFound(t, r)
  <2>1. UNCHANGED <<mem, flight, presented>>
    BY <1>3 DEF BootFound
  <2>2. req[t][r].pair = store[t].pair /\ store[t].pair # NULL
    BY <1>3 DEF BootFound, TabInv, LookupIsCurrent
  <2>3. \A x \in Reqs : req'[t][x].kind # "boot"
    BY <1>3 DEF BootFound, Cancelled, ReqState
  <2>4. CASE Persist(t, [store[t] EXCEPT !.project = owner[req[t][r].pair]])
    <3>1. /\ store'[t] = [store[t] EXCEPT !.project = owner[store[t].pair]]
          /\ disk' = store'[t] /\ store[t] \in StoreState
      BY <2>2, <2>4 DEF Persist
    <3>2. /\ store'[t].pair = store[t].pair /\ store'[t].user = store[t].user
          /\ store'[t].crossed = store[t].crossed /\ store'[t].project = owner[store[t].pair]
      BY <3>1 DEF StoreState
    <3>3. Clean(disk)' /\ Clean(store[t])'
      BY <1>0, <2>2, <3>1, <3>2 DEF Clean, TabInv
    <3>4. FlightCarriesUser(t)'
      BY <1>0, <2>1, <3>2 DEF FlightCarriesUser, InFlight, TabInv
    <3>5. QED
      BY <1>0, <2>1, <2>3, <3>2, <3>3, <3>4 DEF TabInv, LookupIsCurrent, InFlight
  <2>5. CASE UNCHANGED <<store, disk>>
    BY <1>0, <2>1, <2>3, <2>5, StoreKept DEF TabInv, FlightCarriesUser, InFlight, LookupIsCurrent
  <2>6. QED
    BY <1>3, <2>4, <2>5 DEF BootFound
<1>4. CASE AwaitRefresh(t, r)
  <2>1. UNCHANGED <<mem, store, disk>>
    BY <1>4 DEF AwaitRefresh
  <2>2. LookupIsCurrent(t)'
    BY <1>4, <2>1 DEF AwaitRefresh, LookupIsCurrent, TabInv, ReqState
  <2>3. CASE UNCHANGED <<flight, presented>>
    BY <1>0, <2>1, <2>2, <2>3, StoreKept DEF TabInv, FlightCarriesUser, InFlight
  <2>4. CASE ~InFlight(t) /\ ~UNCHANGED <<flight, presented>>
    <3>1. /\ flight'[t] = [pc |-> "sent", old |-> mem[t], new |-> NULL]
          /\ presented'[t] = presented[t] \cup {mem[t]}
          /\ mem[t] # NULL /\ mem[t] = store[t].pair
      BY <1>4, <2>4 DEF AwaitRefresh, TabInv
    <3>2. owner[mem[t]] # NULL
      BY <3>1 DEF TabInv, Clean
    <3>3. FlightCarriesUser(t)'
      BY <1>0, <2>1, <3>1, <3>2 DEF FlightCarriesUser, InFlight
    <3>4. QED
      BY <1>0, <2>1, <2>2, <3>1, <3>2, <3>3, StoreKept DEF TabInv, InFlight
  <2>5. QED
    BY <1>4, <2>3, <2>4 DEF AwaitRefresh
<1>5. CASE Denied(t, r)
  <2>1. UNCHANGED <<flight, presented>>
    BY <1>5 DEF Denied
  <2>2. \A x \in Reqs : req'[t][x].kind # "boot"
    BY <1>5 DEF Denied, Cancelled, ReqState
  <2>3. CASE store[t].pair = NULL
    <3>1. UNCHANGED <<mem, store, disk>>
      BY <1>5, <2>3 DEF Denied, AuthLost
    <3>2. FlightCarriesUser(t)'
      BY <1>0, <2>1, <3>1 DEF TabInv, FlightCarriesUser, InFlight
    <3>3. LookupIsCurrent(t)'
      BY <2>2 DEF LookupIsCurrent
    <3>4. QED
      BY <1>0, <2>1, <3>1, <3>2, <3>3, StoreKept DEF TabInv, InFlight
  <2>4. CASE store[t].pair # NULL
    BY <1>0, <1>5, <2>1, <2>2, <2>4, ClearKeepsTab DEF Denied, AuthLost
  <2>5. QED
    BY <2>3, <2>4
<1>6. QED
  BY <1>1, <1>2, <1>3, <1>4, <1>5 DEF RequestStep

(* So do the steps of the shared refresh, whichever session it ends in.    *)
LEMMA RefreshKeepsTab ==
  ASSUME SessionInv, TypeOK', OwnersStay, NEW t \in Tabs, RefreshStep(t)
  PROVE  Clean(disk)' /\ TabInv(t)'
<1> TypeOK /\ Clean(disk) /\ TabInv(t)
  BY SessionByTabs
<1> SigninNamesUser(t)'
  BY DEF TabInv, SigninNamesUser, RefreshStep, RefreshSelect, RefreshRotate, RefreshLost, Settle
<1> USE NullIsNoPair DEF TypeOK
<1> /\ flight[t] \in FlightState /\ store[t] \in StoreState /\ presented[t] \subseteq Pairs
    /\ req[t] \in [Reqs -> ReqState]
  OBVIOUS
<1>1. CASE RefreshSelect(t) \/ RefreshLost(t) \/ RefreshRotate(t)
  <2>1. UNCHANGED <<mem, store, disk, req, presented>>
    BY <1>1 DEF RefreshSelect, RefreshLost, RefreshRotate
  <2>2. InFlight(t) /\ InFlight(t)' /\ flight'[t].old = flight[t].old
    BY <1>1 DEF RefreshSelect, RefreshLost, RefreshRotate, InFlight, FlightState
  <2>3. flight[t].old \in Pairs /\ owner'[flight[t].old] = owner[flight[t].old]
    BY <2>2 DEF TabInv, FlightCarriesUser, FlightState, MaybePair, OwnersStay
  <2>4. flight'[t].pc = "rotated" =>
          /\ flight'[t].new \in Pairs /\ owner[flight'[t].new] = NULL
          /\ owner'[flight'[t].new] = owner[flight[t].old]
    <3>1. CASE RefreshRotate(t)
      BY <2>3, <3>1 DEF RefreshRotate, Rotate, RotateHalfway, Issue, Fresh, FlightState, ServerTypeOK
    <3>2. CASE ~RefreshRotate(t)
      BY <1>1, <3>2 DEF RefreshSelect, RefreshLost, FlightState
    <3>3. QED
      BY <3>1, <3>2
  <2>5. FlightCarriesUser(t)'
    BY <2>1, <2>2, <2>3, <2>4 DEF FlightCarriesUser, TabInv
  <2>6. LookupIsCurrent(t)' /\ \A p \in presented[t] : owner'[p] # NULL
    BY <2>1 DEF TabInv, LookupIsCurrent, OwnersStay
  <2>7. QED
    BY <2>1, <2>2, <2>5, <2>6, StoreKept DEF TabInv
<1>2. CASE Settle(t)
  <2>1. UNCHANGED <<owner, presented>> /\ flight'[t] = NoFlight /\ ~InFlight(t)' /\ InFlight(t)
    BY <1>2 DEF Settle, server, InFlight, NoFlight
  <2>2. LookupIsCurrent(t)'
    <3>1. PICK rs : req' = [req EXCEPT ![t] = Cancelled(rs)]
      BY <1>2 DEF Settle
    <3>2. \A r \in Reqs : req'[t][r].kind # "boot"
      <4>1. req'[t] = Cancelled(rs) /\ req'[t] \in [Reqs -> ReqState]
        BY <3>1
      <4>2. req'[t] = [r \in Reqs |-> [rs[r] EXCEPT !.kind = "page"]]
        BY <4>1 DEF Cancelled
      <4>3. \A r \in Reqs : req'[t][r] = [rs[r] EXCEPT !.kind = "page"] /\ req'[t][r] \in ReqState
        BY <4>1, <4>2
      <4>4. QED
        BY <4>3 DEF ReqState
    <3>3. QED
      BY <3>2 DEF LookupIsCurrent
  <2>3. FlightCarriesUser(t)'
    BY <2>1 DEF FlightCarriesUser, InFlight, NoFlight
  <2>4. CASE flight[t].pc = "rotated"
    <3>1. /\ flight[t].new \in Pairs /\ flight[t].new \notin presented[t] /\ flight[t].old # NULL
          /\ owner[flight[t].new] = owner[flight[t].old] /\ owner[flight[t].old] # NULL
          /\ ~store[t].crossed => store[t].pair = flight[t].old
      BY <2>1, <2>4 DEF TabInv, FlightCarriesUser
    <3>2. /\ mem'[t] = flight[t].new /\ disk' = store'[t]
          /\ store'[t] = [store[t] EXCEPT !.pair = flight[t].new]
      BY <1>2, <2>4 DEF Settle, Persist
    <3>3. /\ store'[t].pair = flight[t].new /\ store'[t].user = store[t].user
          /\ store'[t].project = store[t].project /\ store'[t].crossed = store[t].crossed
      BY <3>2 DEF StoreState
    <3>4. Clean(disk)' /\ Clean(store[t])'
      <4>1. store'[t].pair # NULL /\ owner'[store'[t].pair] = owner[flight[t].old]
        BY <2>1, <3>1, <3>3
      <4>2. ~store[t].crossed => store[t].user = owner[flight[t].old]
        BY <3>1, NullIsNoPair DEF Clean, TabInv, FlightState, MaybePair, ServerTypeOK
      <4>3. Clean(store[t])'
        BY <3>1, <3>3, <4>1, <4>2 DEF Clean, TabInv
      <4>4. QED
        BY <3>2, <4>3 DEF Clean
    <3>5. QED
      BY <2>1, <2>2, <2>3, <3>1, <3>2, <3>3, <3>4 DEF TabInv
  <2>5. CASE flight[t].pc = "refused" /\ store[t].pair = NULL
    <3>1. UNCHANGED <<mem, store, disk>>
      BY <1>2, <2>5 DEF Settle
    <3>2. mem[t] \notin presented[t]
      BY <2>5 DEF TabInv
    <3>3. QED
      BY <2>1, <2>2, <2>3, <3>1, <3>2, StoreKept DEF TabInv
  <2>6. CASE flight[t].pc = "refused" /\ store[t].pair # NULL
    <3>1. mem'[t] = NULL /\ store'[t] = SignedOut /\ disk' = SignedOut
      BY <1>2, <2>6 DEF Settle, Persist
    <3>2. Clean(disk)' /\ Clean(store[t])'
      BY <3>1 DEF Clean, SignedOut
    <3>3. QED
      BY <2>1, <2>2, <2>3, <3>1, <3>2 DEF TabInv, SignedOut
  <2>7. QED
    BY <1>2, <2>4, <2>5, <2>6 DEF Settle
<1>3. QED
  BY <1>1, <1>2 DEF RefreshStep

(* So does signing in, over whatever session there was.                    *)
LEMMA SigninKeepsTab ==
  ASSUME SessionInv, TypeOK', OwnersStay, NEW t \in Tabs, SigninStep(t)
  PROVE  Clean(disk)' /\ TabInv(t)'
<1> TypeOK /\ Clean(disk) /\ TabInv(t)
  BY SessionByTabs
<1> USE NullIsNoPair DEF TypeOK
<1> /\ flight[t] \in FlightState /\ store[t] \in StoreState /\ presented[t] \subseteq Pairs
    /\ req[t] \in [Reqs -> ReqState]
  OBVIOUS
<1>1. UNCHANGED <<flight, presented>> /\ SigninNamesUser(t)'
  BY DEF SigninStep, SignedIn, SigninRefused, SigninNamesUser
<1>2. CASE SignedIn(t)
  <2> DEFINE u == signin[t].user
  <2>1. PICK p \in Pairs : Issue(u, p) /\ SetAuth(t, p, u, signin[t].kind)
    BY <1>2 DEF SignedIn
  <2>2. u \in Users /\ (signin[t].kind = "demo" => u = DemoUser)
    BY <1>2 DEF SignedIn, TabInv, SigninNamesUser
  <2>3. owner[p] = NULL /\ owner'[p] = u /\ u # NULL
    BY <2>1, <2>2 DEF Issue, Fresh, ServerTypeOK
  <2>4. /\ mem'[t] = p /\ store'[t].pair = p /\ store'[t].user = u /\ disk' = store'[t]
        /\ InFlight(t) => store'[t].crossed
        /\ \/ store'[t].project = NULL
           \/ store'[t].project = DemoUser /\ signin[t].kind = "demo"
           \/ store'[t].project = store[t].project /\ store[t].user = u
                /\ (store[t].crossed => store'[t].crossed)
    BY <2>1 DEF SetAuth, Persist
  <2>5. Clean(disk)' /\ Clean(store[t])'
    BY <2>2, <2>3, <2>4 DEF Clean, TabInv
  <2>6. FlightCarriesUser(t)'
    BY <1>1, <2>4 DEF FlightCarriesUser, InFlight, TabInv, OwnersStay, FlightState, MaybePair
  <2>7. LookupIsCurrent(t)'
    BY <1>2 DEF SignedIn, Cancelled, LookupIsCurrent
  <2>8. p \notin presented[t] /\ \A q \in presented[t] : owner'[q] # NULL
    BY <2>3 DEF TabInv, OwnersStay
  <2>9. QED
    BY <1>1, <2>4, <2>5, <2>6, <2>7, <2>8 DEF TabInv
<1>3. CASE SigninRefused(t)
  <2>1. UNCHANGED owner
    BY <1>3 DEF SigninRefused, server
  <2>2. CASE UNCHANGED <<mem, store, disk>>
    <3>1. FlightCarriesUser(t)' /\ LookupIsCurrent(t)'
      BY <1>1, <1>3, <2>1, <2>2
      DEF SigninRefused, FlightCarriesUser, InFlight, LookupIsCurrent, TabInv
    <3>2. QED
      BY <1>1, <2>1, <2>2, <3>1, StoreKept DEF TabInv, InFlight
  <2>3. CASE Clear(t) /\ mem[t] # NULL
    <3>1. \A r \in Reqs : req'[t][r].kind # "boot"
      BY <1>3, <2>3 DEF SigninRefused, Clear, Cancelled
    <3>2. QED
      BY <1>1, <2>1, <2>3, <3>1, ClearKeepsTab
  <2>4. QED
    BY <1>3, <2>2, <2>3 DEF SigninRefused, AuthLost, TabInv
<1>4. QED
  BY <1>2, <1>3 DEF SigninStep

(* So do signing out, the guard, a reload and opening the app.             *)
LEMMA OtherKeepsTab ==
  ASSUME SessionInv, TypeOK', OwnersStay, NEW t \in Tabs,
         \/ LoginPage(t) \/ RegisterPage(t) \/ DemoButton(t) \/ SignOut(t) \/ MenuSignOut(t)
         \/ OpenApp(t) \/ Reload(t) \/ AuthGuard(t)
  PROVE  Clean(disk)' /\ TabInv(t)'
<1> TypeOK /\ Clean(disk) /\ TabInv(t)
  BY SessionByTabs
<1> USE NullIsNoPair DEF TypeOK
<1>0. UNCHANGED owner
  BY DEF LoginPage, RegisterPage, DemoButton, Submit, SignOut, MenuSignOut, OpenApp, Reload,
    AuthGuard, server
<1>1. CASE LoginPage(t) \/ RegisterPage(t) \/ DemoButton(t)
  <2>1. UNCHANGED <<mem, store, disk, flight, req, presented>>
    BY <1>1 DEF LoginPage, RegisterPage, DemoButton, Submit
  <2>2. SigninNamesUser(t)'
    BY <1>1 DEF LoginPage, RegisterPage, DemoButton, Submit, SigninNamesUser
  <2>3. QED
    BY <1>0, <2>1, <2>2, StoreKept DEF TabInv, FlightCarriesUser, LookupIsCurrent, InFlight
<1>2. CASE SignOut(t)
  <2>1. \A r \in Reqs : req'[t][r].kind # "boot"
    BY <1>2 DEF SignOut, Cancelled
  <2>2. SigninNamesUser(t)'
    BY <1>2 DEF SignOut, TabInv, SigninNamesUser
  <2>3. QED
    BY <1>0, <1>2, <2>1, <2>2, ClearKeepsTab DEF SignOut
<1>3. CASE MenuSignOut(t) \/ OpenApp(t) \/ AuthGuard(t)
  <2>1. UNCHANGED <<mem, store, disk, flight, signin, presented>>
    BY <1>3 DEF MenuSignOut, OpenApp, AuthGuard
  <2>2. LookupIsCurrent(t)'
    <3>1. CASE MenuSignOut(t)
      <4>1. \A r \in Reqs : req'[t][r].kind # "boot"
        BY <3>1 DEF MenuSignOut, Cancelled
      <4>2. QED
        BY <4>1 DEF LookupIsCurrent
    <3>2. CASE UNCHANGED req
      BY <2>1, <3>2 DEF LookupIsCurrent, TabInv
    <3>3. QED
      BY <1>3, <3>1, <3>2 DEF OpenApp, AuthGuard
  <2>3. QED
    BY <1>0, <2>1, <2>2, StoreKept DEF TabInv, FlightCarriesUser, InFlight, SigninNamesUser
<1>4. CASE Reload(t)
  <2>1. /\ store'[t] = disk /\ mem'[t] = disk.pair /\ disk' = disk /\ flight'[t] = NoFlight
        /\ presented'[t] = {} /\ signin'[t] = NoSignin /\ req'[t] = [r \in Reqs |-> IdleReq]
    BY <1>4 DEF Reload
  <2>2. Clean(disk)' /\ Clean(store[t])'
    BY <1>0, <2>1 DEF Clean
  <2>3. QED
    BY <2>1, <2>2
    DEF TabInv, FlightCarriesUser, InFlight, NoFlight, LookupIsCurrent, IdleReq, SigninNamesUser
<1>5. QED
  BY <1>1, <1>2, <1>3, <1>4

-----------------------------------------------------------------------------
(* Steps of a tab touch no other tab.                                      *)
TabStep(t) ==
  \/ UserStep(t) \/ SigninStep(t) \/ RefreshStep(t) \/ AuthGuard(t)
  \/ \E r \in Reqs : RequestStep(t, r)

(* A tab's step leaves the memory, store and calls of the others alone.    *)
LEMMA TabStepIsLocal ==
  ASSUME TypeOK, NEW t \in Tabs, TabStep(t), NEW u \in Tabs \ {t} PROVE SameTab(u)
<1> USE DEF TypeOK, SameTab, Persist, AuthLost, Clear
<1>1. CASE UserStep(t)
  BY <1>1 DEF UserStep, LoginPage, RegisterPage, DemoButton, Submit, SignOut, MenuSignOut, OpenApp,
    Reload, Request, BootStart
<1>2. CASE SigninStep(t)
  BY <1>2 DEF SigninStep, SignedIn, SigninRefused, SetAuth
<1>3. CASE RefreshStep(t)
  BY <1>3 DEF RefreshStep, RefreshSelect, RefreshRotate, RefreshLost, Settle
<1>4. CASE AuthGuard(t)
  BY <1>4 DEF AuthGuard
<1>5. CASE \E r \in Reqs : RequestStep(t, r)
  BY <1>5 DEF RequestStep, Unreachable, Granted, BootFound, AwaitRefresh, Denied
<1>6. QED
  BY <1>1, <1>2, <1>3, <1>4, <1>5 DEF TabStep

(* Hence a step of any tab keeps the invariant of all.                     *)
LEMMA TabStepKeepsInv ==
  ASSUME SessionInv, NEW t \in Tabs, TabStep(t) PROVE SessionInv'
<1> TypeOK /\ FlightCarriesUser(t)
  BY DEF SessionInv
<1>1. TypeOK' /\ OwnersStay
  BY RequestTypes, RefreshTypes, SigninTypes, OtherTypes DEF TabStep, UserStep
<1>2. Clean(disk)' /\ TabInv(t)'
  BY <1>1, RequestKeepsTab, RefreshKeepsTab, SigninKeepsTab, OtherKeepsTab DEF TabStep, UserStep
<1>3. QED
  BY <1>1, <1>2, TabStepIsLocal, OneTab

(* An access token's or a refresh token's expiry tells no tab anything.    *)
LEMMA ServerStepKeepsInv == ASSUME SessionInv, ServerStep PROVE SessionInv'
<1>1. TypeOK /\ Clean(disk) /\ \A t \in Tabs : TabInv(t)
  BY SessionByTabs
<1>2. UNCHANGED owner /\ UNCHANGED client
  BY DEF ServerStep, ExpireAccess, Retire
<1>3. OwnersStay
  BY <1>2 DEF OwnersStay
<1>4. TypeOK'
  BY <1>1, <1>2 DEF TypeOK, client, ServerTypeOK, ServerStep, ExpireAccess, Retire
<1>5. \A t \in Tabs : TabInv(t)'
  BY <1>1, <1>2, <1>3, OtherTab DEF client, SameTab
<1>6. Clean(disk)'
  BY <1>1, <1>2 DEF client, Clean
<1>7. QED
  BY <1>4, <1>5, <1>6 DEF SessionInv, TabInv, CopiesAgree, SpentTokenDropped

(* Nor does a step that changes nothing.                                   *)
LEMMA StutterKeepsInv == ASSUME SessionInv, UNCHANGED vars PROVE SessionInv'
<1>1. TypeOK /\ Clean(disk) /\ \A t \in Tabs : TabInv(t)
  BY SessionByTabs
<1>2. UNCHANGED owner /\ UNCHANGED client /\ UNCHANGED server
  BY DEF vars, server
<1>3. OwnersStay
  BY <1>2 DEF OwnersStay
<1>4. TypeOK'
  BY <1>1, <1>2 DEF TypeOK, client, server, ServerTypeOK
<1>5. \A t \in Tabs : TabInv(t)'
  BY <1>1, <1>2, <1>3, OtherTab DEF client, SameTab
<1>6. Clean(disk)'
  BY <1>1, <1>2 DEF client, Clean
<1>7. QED
  BY <1>4, <1>5, <1>6 DEF SessionInv, TabInv, CopiesAgree, SpentTokenDropped

(* The states are typed; memory and store agree; tokens and projects are   *)
(* those of the user, in every session without a crossing (api.ts,         *)
(* auth-store.ts, project-bootstrap.tsx).                                  *)
THEOREM SessionInvariant == Spec => []SessionInv
<1>1. Init => SessionInv
  <2> SUFFICES ASSUME Init PROVE SessionInv
    OBVIOUS
  <2> USE DEF Init, ServerInit
  <2>1. TypeOK
    <3>1. SignedOut \in StoreState /\ NoFlight \in FlightState /\ IdleReq \in ReqState
          /\ NoSignin \in SigninState /\ NULL \in MaybePair
      BY DEF SignedOut, StoreState, NoFlight, FlightState, IdleReq, ReqState, NoSignin, SigninState,
        MaybePair, MaybeUser
    <3>2. QED
      BY <3>1 DEF TypeOK, ServerTypeOK
  <2>2. Clean(disk)
    BY DEF Clean, SignedOut
  <2>3. \A t \in Tabs : TabInv(t)
    BY DEF TabInv, Clean, SignedOut, FlightCarriesUser, InFlight, NoFlight, LookupIsCurrent, IdleReq,
      SigninNamesUser
  <2>4. QED
    BY <2>1, <2>2, <2>3, SessionByTabs
<1>2. SessionInv /\ [Next]_vars => SessionInv'
  BY TabStepKeepsInv, ServerStepKeepsInv, StutterKeepsInv DEF Next, TabStep
<1>3. QED
  BY <1>1, <1>2, PTL DEF Spec

(* The tokens a tab sends are those of the user it shows.                  *)
THEOREM SessionsHaveOneUser == Spec => []SessionOfOneUser
<1>1. SessionInv => SessionOfOneUser
  BY DEF SessionInv, Clean, SessionOfOneUser
<1>2. QED
  BY <1>1, SessionInvariant, PTL

(* The selected project is one of the user's.                              *)
THEOREM ProjectsAreOfUser == Spec => []ProjectOfUser
<1>1. SessionInv => ProjectOfUser
  BY DEF SessionInv, Clean, ProjectOfUser
<1>2. QED
  BY <1>1, SessionInvariant, PTL

(* A page presents a refresh token once (refreshAccessToken).              *)
THEOREM TokensArePresentedOnce == Spec => PresentedOnce
<1>1. SessionInv /\ [Next]_vars =>
        \A t \in Tabs : (flight'[t].pc = "sent" /\ flight'[t] # flight[t])
                         => flight'[t].old \notin presented[t]
  <2> SUFFICES ASSUME SessionInv, [Next]_vars, NEW t \in Tabs,
                      flight'[t].pc = "sent", flight'[t] # flight[t]
               PROVE  flight'[t].old \notin presented[t]
    OBVIOUS
  <2> TypeOK
    BY DEF SessionInv
  <2>1. TabStep(t)
    <3>1. CASE ServerStep \/ UNCHANGED vars
      BY <3>1 DEF ServerStep, vars, client
    <3>2. ASSUME NEW u \in Tabs, TabStep(u) PROVE u = t
      BY <3>2, TabStepIsLocal DEF SameTab
    <3>3. QED
      BY <3>1, <3>2 DEF Next, TabStep
  <2>2. PICK r \in Reqs : AwaitRefresh(t, r)
    <3>1. CASE UserStep(t) \/ SigninStep(t) \/ AuthGuard(t)
      <4>1. UNCHANGED flight \/ flight' = [flight EXCEPT ![t] = NoFlight]
        BY <3>1 DEF UserStep, LoginPage, RegisterPage, DemoButton, Submit, SignOut, MenuSignOut,
          OpenApp, Reload, Request, BootStart, SigninStep, SignedIn, SigninRefused, AuthGuard
      <4>2. flight'[t] = flight[t] \/ flight'[t] = NoFlight
        BY <4>1 DEF TypeOK
      <4>3. QED
        BY <4>2 DEF NoFlight
    <3>2. CASE RefreshStep(t)
      <4>1. flight'[t].pc \in {"found", "rotated", "refused", "none"}
        BY <3>2 DEF RefreshStep, RefreshSelect, RefreshRotate, RefreshLost, Settle, NoFlight, TypeOK,
          FlightState
      <4>2. QED
        BY <4>1
    <3>3. CASE \E r \in Reqs : RequestStep(t, r)
      BY <3>3 DEF RequestStep, Unreachable, Granted, BootFound, Denied
    <3>4. QED
      BY <2>1, <3>1, <3>2, <3>3 DEF TabStep
  <2>3. ~InFlight(t) /\ flight'[t].old = mem[t]
    BY <2>2 DEF AwaitRefresh, TypeOK
  <2>4. QED
    BY <2>3 DEF SessionInv, SpentTokenDropped
<1>2. QED
  BY <1>1, SessionInvariant, PTL DEF Spec, PresentedOnce

-----------------------------------------------------------------------------
(* A request that waits for a refresh waits for one that is under way:     *)
(* whatever ends the refresh takes its waiters along.                      *)
LEMMA WaitersStay ==
  ASSUME SessionInv, AwaitedRefreshRuns, NEW t \in Tabs, TabStep(t)
  PROVE  \A r \in Reqs : req'[t][r].pc = "waiting" => InFlight(t)'
<1> TypeOK
  BY DEF SessionInv
<1> USE DEF TypeOK
<1> req[t] \in [Reqs -> ReqState] /\ flight[t] \in FlightState
  OBVIOUS
<1> DEFINE NoNewWaiter == \A r \in Reqs : req'[t][r].pc = "waiting" => req[t][r].pc = "waiting"
<1>0. ASSUME NoNewWaiter, InFlight(t) => InFlight(t)'
      PROVE  \A r \in Reqs : req'[t][r].pc = "waiting" => InFlight(t)'
  BY <1>0 DEF AwaitedRefreshRuns
<1>1. \A rs \in [Reqs -> ReqState], r \in Reqs : Cancelled(rs)[r].pc = rs[r].pc
  BY DEF Cancelled, ReqState
<1>2. CASE Settle(t)
  <2>1. \E e \in ReqState : e.pc # "waiting" /\ req' = [req EXCEPT ![t] = Cancelled(
          [r \in Reqs |-> IF req[t][r].pc = "waiting" THEN e ELSE req[t][r]])]
    <3>1. IdleReq \in ReqState /\ IdleReq.pc # "waiting"
      BY DEF IdleReq, ReqState, MaybePair
    <3>2. Sent("page", flight[t].new, TRUE) \in ReqState
          /\ Sent("page", flight[t].new, TRUE).pc # "waiting"
      BY DEF Sent, ReqState, FlightState
    <3>3. QED
      BY <1>2, <3>1, <3>2 DEF Settle
  <2>2. PICK e \in ReqState : e.pc # "waiting" /\ req' = [req EXCEPT ![t] = Cancelled(
          [r \in Reqs |-> IF req[t][r].pc = "waiting" THEN e ELSE req[t][r]])]
    BY <2>1
  <2>3. [r \in Reqs |-> IF req[t][r].pc = "waiting" THEN e ELSE req[t][r]] \in [Reqs -> ReqState]
    OBVIOUS
  <2>4. QED
    BY <1>1, <2>2, <2>3
<1>3. CASE Reload(t)
  BY <1>3 DEF Reload, IdleReq
<1>4. CASE \E r \in Reqs : AwaitRefresh(t, r)
  BY <1>4 DEF AwaitRefresh, InFlight
<1>5. CASE RefreshSelect(t) \/ RefreshRotate(t) \/ RefreshLost(t)
  <2>1. UNCHANGED req /\ flight'[t].pc # "none"
    BY <1>5 DEF RefreshSelect, RefreshRotate, RefreshLost, FlightState
  <2>2. QED
    BY <1>0, <2>1 DEF InFlight
<1>6. ASSUME UNCHANGED flight, NoNewWaiter
      PROVE  \A r \in Reqs : req'[t][r].pc = "waiting" => InFlight(t)'
  BY <1>0, <1>6 DEF InFlight
<1>7. CASE \/ LoginPage(t) \/ RegisterPage(t) \/ DemoButton(t) \/ SignOut(t) \/ MenuSignOut(t)
           \/ OpenApp(t) \/ AuthGuard(t) \/ SigninStep(t)
  <2>1. UNCHANGED flight /\ req'[t] \in {req[t], Cancelled(req[t])}
    BY <1>7 DEF LoginPage, RegisterPage, DemoButton, Submit, SignOut, MenuSignOut, OpenApp,
      AuthGuard, SigninStep, SignedIn, SigninRefused
  <2>2. NoNewWaiter
    BY <1>1, <2>1
  <2>3. QED
    BY <1>6, <2>1, <2>2
<1>8. ASSUME NEW r \in Reqs, Request(t, r) \/ BootStart(t, r) \/ Unreachable(t, r)
                             \/ Granted(t, r) \/ BootFound(t, r) \/ Denied(t, r)
      PROVE  \A x \in Reqs : req'[t][x].pc = "waiting" => InFlight(t)'
  <2>1. UNCHANGED flight
    BY <1>8 DEF Request, BootStart, Unreachable, Granted, BootFound, Denied
  <2>2. IdleReq \in ReqState /\ Sent("boot", mem[t], FALSE) \in ReqState
    BY DEF IdleReq, Sent, ReqState, MaybePair
  <2>3. NoNewWaiter
    <3>1. CASE Request(t, r) \/ Unreachable(t, r) \/ Granted(t, r)
      <4>1. \E e \in ReqState : e.pc # "waiting" /\ req' = [req EXCEPT ![t][r] = e]
        <5>1. Sent("page", mem[t], FALSE) \in ReqState /\ Sent("page", mem[t], FALSE).pc # "waiting"
          BY DEF Sent, ReqState
        <5>2. IdleReq.pc # "waiting"
          BY DEF IdleReq
        <5>3. QED
          BY <2>2, <3>1, <5>1, <5>2 DEF Request, Unreachable, Granted
      <4>2. QED
        BY <4>1
    <3>2. CASE BootStart(t, r)
      <4>1. Cancelled(req[t]) = [x \in Reqs |-> [req[t][x] EXCEPT !.kind = "page"]]
        BY DEF Cancelled
      <4>2. req'[t] = [Cancelled(req[t]) EXCEPT ![r] = Sent("boot", mem[t], FALSE)]
        BY <3>2 DEF BootStart
      <4>3. Sent("boot", mem[t], FALSE).pc # "waiting"
        BY DEF Sent
      <4>4. \A x \in Reqs : x # r => req'[t][x].pc = req[t][x].pc
        BY <1>1, <4>1, <4>2
      <4>5. req'[t][r] = Sent("boot", mem[t], FALSE)
        BY <4>1, <4>2
      <4>6. QED
        BY <4>3, <4>4, <4>5
    <3>3. CASE BootFound(t, r) \/ Denied(t, r)
      <4>1. [req[t] EXCEPT ![r] = IdleReq] \in [Reqs -> ReqState]
        BY <2>2
      <4>2. req'[t] = Cancelled([req[t] EXCEPT ![r] = IdleReq])
        BY <3>3 DEF BootFound, Denied
      <4>3. \A x \in Reqs : req'[t][x].pc = [req[t] EXCEPT ![r] = IdleReq][x].pc
        BY <1>1, <4>1, <4>2
      <4>4. QED
        BY <4>3 DEF IdleReq
    <3>4. QED
      BY <1>8, <3>1, <3>2, <3>3
  <2>4. QED
    BY <1>6, <2>1, <2>3
<1>9. QED
  BY <1>2, <1>3, <1>4, <1>5, <1>7, <1>8 DEF TabStep, UserStep, RefreshStep, RequestStep

(* A request waits only for a refresh under way, in every tab, for any     *)
(* number of requests: the one that ends wakes all ("refreshing" in        *)
(* lib/api.ts).                                                            *)
THEOREM WaitersHaveRefresh == Spec => []AwaitedRefreshRuns
<1>1. Init => AwaitedRefreshRuns
  BY DEF Init, AwaitedRefreshRuns, IdleReq
<1>2. SessionInv /\ AwaitedRefreshRuns /\ [Next]_vars => AwaitedRefreshRuns'
  <2> SUFFICES ASSUME SessionInv, AwaitedRefreshRuns, [Next]_vars,
                      NEW u \in Tabs, NEW r \in Reqs, req'[u][r].pc = "waiting"
               PROVE  InFlight(u)'
    BY DEF AwaitedRefreshRuns
  <2> TypeOK
    BY DEF SessionInv
  <2>1. CASE ServerStep \/ UNCHANGED vars
    BY <2>1 DEF ServerStep, vars, client, AwaitedRefreshRuns, InFlight
  <2>2. ASSUME NEW t \in Tabs, TabStep(t) PROVE InFlight(u)'
    <3>1. CASE u = t
      BY <2>2, <3>1, WaitersStay
    <3>2. CASE u # t
      BY <2>2, <3>2, TabStepIsLocal DEF SameTab, AwaitedRefreshRuns, InFlight
    <3>3. QED
      BY <3>1, <3>2
  <2>3. QED
    BY <2>1, <2>2 DEF Next, TabStep
<1>3. QED
  BY <1>1, <1>2, SessionInvariant, PTL DEF Spec
=============================================================================
