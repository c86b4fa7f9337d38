----------------------------- MODULE Workspace ------------------------------
(***************************************************************************)
(* The settings page: the organizations and projects it lists, the pair    *)
(* that is saved, and the creation of a first organization and project.    *)
(*                                                                         *)
(* Organizations are numbered in the order of their creation, and one owns *)
(* at most one project here, with its number.  NONE is null, a choice not  *)
(* made; EMPTY the blank option of a select.                               *)
(***************************************************************************)
EXTENDS Naturals, FiniteSets

CONSTANTS Orgs, NONE, EMPTY

VARIABLES
  owned,         (* The user's organizations, at the API.                  *)
  ready,         (* Those that have a project.                             *)
  orgList, orgsAsked, orgsLoaded,
  projectList, projectsFor,
  listing,       (* listing[o]: its calls of projects.list in flight.      *)
  orgChoice, projectChoice,
  early,         (* The project chosen is from another organization's list *)
                 (* than the selected one's.                               *)
  creating,      (* createWorkspace: the await it is at, and its org.      *)
  stored         (* projectId and orgId of the auth store.                 *)

page == <<orgList, orgsAsked, orgsLoaded, projectList, projectsFor, listing,
          orgChoice, projectChoice, early, creating>>
wsVars == <<owned, ready, page, stored>>

Idle == [pc |-> "none", org |-> NONE]

WorkspaceTypeOK ==
  /\ owned \subseteq Orgs /\ ready \subseteq owned
  /\ orgList \subseteq Orgs /\ orgsAsked \in BOOLEAN /\ orgsLoaded \in BOOLEAN
  /\ projectList \subseteq Orgs /\ projectsFor \in Orgs \cup {NONE}
  /\ listing \in [Orgs -> SUBSET {"current", "stale"}]
  /\ orgChoice \in Orgs \cup {NONE, EMPTY} /\ projectChoice \in Orgs \cup {NONE, EMPTY}
  /\ early \in BOOLEAN
  /\ creating \in [pc : {"none", "org", "project"}, org : Orgs \cup {NONE}]
  /\ stored \in [org : Orgs \cup {NONE}, project : Orgs \cup {NONE}, early : BOOLEAN]

(* selectedOrg: what was chosen, else what is stored, else the newest.     *)
Selected(choice, s, list) ==
  CASE choice # NONE -> choice
    [] choice = NONE /\ s.org # NONE -> s.org
    [] choice = NONE /\ s.org = NONE /\ list # {} -> CHOOSE o \in list : \A p \in list : p <= o
    [] OTHER -> EMPTY

selectedOrg == Selected(orgChoice, stored, orgList)
selectedProject == IF projectChoice # NONE THEN projectChoice
                   ELSE IF stored.project # NONE THEN stored.project ELSE EMPTY

loading == ~orgsLoaded
needsOrg == orgsLoaded /\ orgList = {}
needsProject == /\ ~needsOrg /\ selectedOrg # EMPTY
                /\ projectsFor = selectedOrg /\ projectList = {}
onboarding == needsOrg \/ needsProject

(* The effect of another selectedOrg or token: the calls in flight no      *)
(* longer count, and the organization's projects are asked for.            *)
Asking(calls, o) ==
  [p \in Orgs |-> (IF calls[p] = {} THEN {} ELSE {"stale"}) \cup (IF p = o THEN {"current"} ELSE {})]

NoCalls == [o \in Orgs |-> {}]

Mount(s) ==
  /\ orgList' = {} /\ orgsAsked' = TRUE /\ orgsLoaded' = FALSE
  /\ projectList' = {} /\ projectsFor' = NONE
  /\ listing' = Asking(NoCalls, s.org)
  /\ orgChoice' = NONE /\ projectChoice' = NONE /\ early' = FALSE
  /\ creating' = Idle

WorkspaceInit ==
  /\ owned \in SUBSET Orgs /\ ready \in SUBSET owned
  /\ stored \in {[org |-> o, project |-> o, early |-> FALSE] : o \in ready \cup {NONE}}
  /\ orgList = {} /\ orgsAsked = TRUE /\ orgsLoaded = FALSE
  /\ projectList = {} /\ projectsFor = NONE
  /\ listing = Asking(NoCalls, stored.org)
  /\ orgChoice = NONE /\ projectChoice = NONE /\ early = FALSE
  /\ creating = Idle

-----------------------------------------------------------------------------
(* A change of the selected organization runs the effect again.            *)
Reselect(choice, list) ==
  listing' = LET o == Selected(choice, stored, list)
             IN  IF o = selectedOrg THEN listing ELSE Asking(listing, o)

(* A longer list may select another organization under a chosen project.   *)
Adrift(list) == projectChoice \in Orgs /\ Selected(orgChoice, stored, list) # selectedOrg

(* orgs.list settles: a failure leaves the list as it is, and it counts as *)
(* loaded either way.                                                      *)
OrgsAnswer ==
  /\ orgsAsked /\ orgsAsked' = FALSE
  /\ orgsLoaded' = TRUE
  /\ \/ /\ orgList' = owned /\ Reselect(orgChoice, owned)
        /\ early' = (early \/ Adrift(owned))
     \/ UNCHANGED <<orgList, listing, early>>
  /\ UNCHANGED <<owned, ready, stored, projectList, projectsFor, orgChoice, projectChoice,
                 creating>>

ProjectsOf(o) == ready \cap {o}

(* projects.list settles: only the call of the last effect counts, and a   *)
(* failure counts as an organization without projects.                     *)
ProjectsAnswerAny(o) ==
  /\ \E kind \in listing[o] : listing' = [listing EXCEPT ![o] = @ \ {kind}]
  /\ projectsFor' = o
  /\ projectList' \in {ProjectsOf(o), {}}
  /\ UNCHANGED <<owned, ready, stored, orgList, orgsAsked, orgsLoaded, orgChoice,
                 projectChoice, early, creating>>

ProjectsAnswer(o) ==
  /\ \E kind \in listing[o] :
       /\ listing' = [listing EXCEPT ![o] = @ \ {kind}]
       /\ IF kind = "current"
            THEN projectsFor' = o /\ projectList' \in {ProjectsOf(o), {}}
            ELSE UNCHANGED <<projectList, projectsFor>>
  /\ UNCHANGED <<owned, ready, stored, orgList, orgsAsked, orgsLoaded, orgChoice,
                 projectChoice, early, creating>>

(* A refreshed token runs both effects again.                              *)
NewToken ==
  /\ orgsAsked' = TRUE
  /\ listing' = Asking(listing, selectedOrg)
  /\ UNCHANGED <<owned, ready, stored, orgList, orgsLoaded, projectList, projectsFor,
                 orgChoice, projectChoice, early, creating>>

ChooseOrgOnly(o) ==
  /\ ~loading /\ ~onboarding
  /\ orgChoice' = o /\ Reselect(o, orgList)
  /\ UNCHANGED <<owned, ready, stored, orgList, orgsAsked, orgsLoaded, projectList,
                 projectsFor, projectChoice, early, creating>>

(* The organization's select also blanks the project.                      *)
ChooseOrg(o) ==
  /\ ~loading /\ ~onboarding
  /\ orgChoice' = o /\ projectChoice' = EMPTY /\ early' = FALSE
  /\ Reselect(o, orgList)
  /\ UNCHANGED <<owned, ready, stored, orgList, orgsAsked, orgsLoaded, projectList,
                 projectsFor, creating>>

(* The project's select offers the last list that arrived.                 *)
ChooseProject(p) ==
  /\ ~loading /\ ~onboarding /\ selectedOrg # EMPTY
  /\ projectChoice' = p
  /\ early' = (projectsFor # selectedOrg)
  /\ UNCHANGED <<owned, ready, stored, orgList, orgsAsked, orgsLoaded, projectList,
                 projectsFor, listing, orgChoice, creating>>

(* save, and the page is left; it starts anew when it is next visited.     *)
Save ==
  /\ ~loading /\ ~onboarding
  /\ selectedOrg # EMPTY /\ selectedProject # EMPTY
  /\ stored' = [org |-> selectedOrg, project |-> selectedProject,
                early |-> early \/ (projectChoice = NONE /\ stored.early)]
  /\ Mount(stored')
  /\ UNCHANGED <<owned, ready>>

(* createWorkspace: an organization when none is listed, then a project.   *)
CreateWorkspace ==
  /\ ~loading /\ onboarding /\ creating = Idle
  /\ creating' = IF needsOrg THEN [pc |-> "org", org |-> NONE]
                 ELSE [pc |-> "project", org |-> selectedOrg]
  /\ UNCHANGED <<owned, ready, stored, orgList, orgsAsked, orgsLoaded, projectList,
                 projectsFor, listing, orgChoice, projectChoice, early>>

OrgCreated ==
  /\ creating.pc = "org"
  /\ \E o \in Orgs : /\ \A p \in owned : p < o
                  /\ owned' = owned \cup {o}
                  /\ creating' = [pc |-> "project", org |-> o]
  /\ UNCHANGED <<ready, stored, orgList, orgsAsked, orgsLoaded, projectList, projectsFor,
                 listing, orgChoice, projectChoice, early>>

ProjectCreated ==
  /\ creating.pc = "project"
  /\ ready' = ready \cup {creating.org}
  /\ stored' = [org |-> creating.org, project |-> creating.org, early |-> FALSE]
  /\ Mount(stored')
  /\ UNCHANGED owned

(* A refusal ("already exists" included) or a lost answer.                 *)
CreateFails ==
  /\ creating # Idle /\ creating' = Idle
  /\ UNCHANGED <<owned, ready, stored, orgList, orgsAsked, orgsLoaded, projectList,
                 projectsFor, listing, orgChoice, projectChoice, early>>

CreateStep == OrgCreated \/ ProjectCreated \/ CreateFails

WorkspaceNext ==
  \/ OrgsAnswer \/ NewToken \/ Save \/ CreateWorkspace \/ CreateStep
  \/ \E o \in Orgs : ProjectsAnswer(o)
  \/ \E o \in orgList \cup {EMPTY} : ChooseOrg(o)
  \/ \E p \in projectList \cup {EMPTY} : ChooseProject(p)

-----------------------------------------------------------------------------
(* When no call for the selected organization is under way, the projects   *)
(* listed are its own, in whichever order the answers for others arrived   *)
(* (the "stale" flag of the effect in settings/page.tsx).                  *)
ListOfSelectedOrg ==
  (selectedOrg \in Orgs /\ "current" \notin listing[selectedOrg])
    => projectsFor = selectedOrg /\ projectList \subseteq {selectedOrg}

(* The saved project belongs to the saved organization, unless it was      *)
(* picked before the organization's projects had been listed, or under     *)
(* another one that a longer list has displaced (save, and the onChange of *)
(* the two selects).                                                       *)
SavedPairBelongs ==
  (stored.project # NONE /\ ~stored.early) => stored.project = stored.org
=============================================================================
