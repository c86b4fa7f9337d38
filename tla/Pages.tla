------------------------------- MODULE Pages --------------------------------
(***************************************************************************)
(* The pages with a behaviour of their own, composed by the router: one    *)
(* page is mounted at a time, so that its steps interleave with no other   *)
(* page's.  Which one is chosen at first, and the others stay as they are. *)
(***************************************************************************)
EXTENDS JobExplorer

CONSTANTS MaxRow, PageSizes, Fields, Values, Calls, Orgs, NONE, EMPTY

(* What JobPager, Forms and Workspace take their constants to be.          *)
ASSUME PagesParameters ==
  /\ MaxRow \in Nat /\ PageSizes \subseteq Nat \ {0}
  /\ Values # {} /\ IsFiniteSet(Calls)
  /\ Orgs \subseteq Nat /\ IsFiniteSet(Orgs)
  /\ NONE \notin Orgs /\ EMPTY \notin Orgs /\ NONE # EMPTY

VARIABLES
  route,
  rows, narrow, cursor, pageSize, selection,
  form, queue, fetched, typed, touched, open, submitting, call, known, kept, alone,
  owned, ready, orgList, orgsAsked, orgsLoaded, projectList, projectsFor, listing,
  orgChoice, projectChoice, early, creating, stored

Pager == INSTANCE JobPager WITH listing <- rows
Dialog == INSTANCE Forms
Settings == INSTANCE Workspace

explorerPage == <<cache, scene, table, filter, laggy, command, latest, buried>>
pagerPage == <<rows, narrow, cursor, pageSize, selection>>
formPage == <<form, queue, fetched, typed, touched, open, submitting, call, known, kept,
              alone>>
settingsPage == <<owned, ready, orgList, orgsAsked, orgsLoaded, projectList, projectsFor, listing,
                  orgChoice, projectChoice, early, creating, stored>>
allVars == <<route, explorerPage, pagerPage, formPage, settingsPage>>

Routes == {"jobs", "pager", "form", "settings"}

(* A page that is not mounted has one initial state of its own.            *)
Parked ==
  /\ route # "jobs" => table = NoRows
  /\ route # "pager" => rows = {} /\ pageSize = CHOOSE n \in PageSizes : TRUE
  /\ route # "form" => form = "create"
  /\ route # "settings" => owned = {} /\ ready = {}

PagesInit ==
  /\ route \in Routes
  /\ IF route = "jobs" THEN Init
     ELSE /\ CacheInit
          /\ scene = CHOOSE s \in Scenes : TRUE
          /\ table = NoRows /\ filter = "all" /\ laggy = NULL
          /\ command = [c \in Commands |-> NoCommand]
          /\ latest = [k \in Keys |-> NULL] /\ buried = [k \in Keys |-> {}]
  /\ Pager!PagerInit /\ Dialog!FormInit /\ Settings!WorkspaceInit
  /\ Parked

Explore(A) == route = "jobs" /\ A /\ UNCHANGED <<route, pagerPage, formPage, settingsPage>>
Turn(A) == route = "pager" /\ A /\ UNCHANGED <<route, explorerPage, formPage, settingsPage>>
Fill(A) == route = "form" /\ A /\ UNCHANGED <<route, explorerPage, pagerPage, settingsPage>>
Choose(A) == route = "settings" /\ A /\ UNCHANGED <<route, explorerPage, pagerPage, formPage>>

PagesNext ==
  \/ Explore(Next)
  \/ Turn(Pager!PagerNext)
  \/ Fill(Dialog!FormNext)
  \/ Choose(Settings!WorkspaceNext)

(* The browser settles every call and fetch, and its timers fire.          *)
PagesFairness ==
  /\ \A c \in Commands : WF_allVars(Explore(CommandStep(c)))
  /\ \A k \in Keys : WF_allVars(Explore(Fetching(k)))

PagesSpec == PagesInit /\ [][PagesNext]_allVars /\ PagesFairness

-----------------------------------------------------------------------------
(* The states of every page.                                               *)
PagesTypeOK ==
  /\ route \in Routes
  /\ TypeOK /\ Pager!PagerTypeOK /\ Dialog!FormTypeOK /\ Settings!WorkspaceTypeOK

(* The properties of the pages, each said where its page is modelled.      *)

(* Forms!OneSubmissionPerOpening: no double submission of a dialog.        *)
OneSubmissionPerOpening == Dialog!OneSubmissionPerOpening

(* Forms!UntouchedFieldsCurrent: no fetched change is sent back reverted.  *)
UntouchedFieldsCurrent == Dialog!UntouchedFieldsCurrent

(* JobPager!TurningShowsOtherRows: paging skips back over nothing shown.   *)
TurningShowsOtherRows == Pager!TurningShowsOtherRows

(* Workspace!ListOfSelectedOrg: late answers for another organization.     *)
ListOfSelectedOrg == Settings!ListOfSelectedOrg

(* Workspace!SavedPairBelongs: the saved project is the organization's.    *)
SavedPairBelongs == Settings!SavedPairBelongs

(* JobExplorer!ListConverges: the explorer's listing settles on the API's. *)
ExplorerConverges == route = "jobs" => ListConverges
=============================================================================
