---------------------------- MODULE PagesProofs -----------------------------
(***************************************************************************)
(* What the pages with a behaviour of their own keep to, whichever of them *)
(* is mounted.                                                             *)
(***************************************************************************)
EXTENDS Pages, NumberSets, TLAPS

-----------------------------------------------------------------------------
(* The dialogs and the sheet.                                              *)

(* An opening of a create dialog that began alone keeps the button         *)
(* disabled while its one submission is under way.                         *)
OneUnderWay ==
  (form = "create" /\ alone) =>
    /\ \A c \in Calls : call[c] # Dialog!NoCall => submitting
    /\ \A c, d \in Calls : call[c] # Dialog!NoCall /\ call[d] # Dialog!NoCall => c = d

(* The fields not typed into hold what the page has learned of, which is   *)
(* what it fetched unless the form has stored its values since; but a      *)
(* fetch that returns the last values again leaves the form as it is.      *)
UntouchedIsKnown ==
  form = "sheet" =>
    /\ kept \/ known = fetched
    /\ (\A f \in Fields \ touched : typed[f] = known[f]) \/ Dialog!LastValuesAgain

DialogInv == Dialog!FormTypeOK /\ OneUnderWay /\ UntouchedIsKnown

(* The default of a form, a stored value for each field, is a body.        *)
LEMMA DefaultIsBody == Dialog!Default \in Dialog!Body
BY PagesParameters DEF Dialog!Default, Dialog!Body

(* Every step of the forms keeps it.                                       *)
LEMMA DialogInductive ==
  /\ Dialog!FormInit => DialogInv
  /\ DialogInv /\ [Dialog!FormNext]_formPage => DialogInv'
<1> USE DefaultIsBody DEF DialogInv
<1>1. ASSUME Dialog!FormInit PROVE DialogInv
  BY <1>1 DEF Dialog!FormInit, Dialog!FormTypeOK, OneUnderWay, UntouchedIsKnown,
     Dialog!LastValuesAgain, Dialog!NoCall
<1>2. ASSUME DialogInv, [Dialog!FormNext]_formPage PROVE Dialog!FormTypeOK'
  <2> DEFINE Submission == [pc : {"none", "sent", "stored"}, body : Dialog!Body, own : BOOLEAN]
  <2> Dialog!NoCall \in Submission
    BY DEF Dialog!NoCall
  <2> HIDE DEF Submission
  <2> USE <1>2 DEF Dialog!FormTypeOK, Dialog!Reset
  <2>0. call \in [Calls -> Submission]
    BY DEF Submission
  <2>1. CASE Dialog!OpenForm \/ Dialog!CloseForm
    <3>1. \A d \in Submission : [d EXCEPT !.own = FALSE] \in Submission
      BY ONLY TRUE DEF Submission
    <3>2. call' \in [Calls -> Submission]
      BY <2>0, <2>1, <3>1 DEF Dialog!OpenForm, Dialog!CloseForm
    <3>3. QED
      BY <2>1, <3>2 DEF Dialog!OpenForm, Dialog!CloseForm, Submission
  <2>2. CASE Dialog!OtherOperator \/ Dialog!Refetch
    BY <2>2 DEF Dialog!OtherOperator, Dialog!Refetch, Dialog!Body
  <2>3. ASSUME NEW f \in Fields, NEW v \in Values, Dialog!Type(f, v) PROVE Dialog!FormTypeOK'
    BY <2>3 DEF Dialog!Type, Dialog!Body
  <2>4. ASSUME NEW c \in Calls, Dialog!Submit(c) \/ Dialog!ApiStores(c)  PROVE Dialog!FormTypeOK'
    <3>1. call[c] \in Submission /\ call[c].body \in Dialog!Body
      BY <2>0 DEF Submission
    <3>2. \E d \in Submission : call' = [call EXCEPT ![c] = d]
      BY <2>4, <3>1 DEF Dialog!Submit, Dialog!ApiStores, Submission
    <3>3. call' \in [Calls -> Submission]
      BY <2>0, <3>2
    <3>4. QED
      BY <2>4, <3>1, <3>3 DEF Dialog!Submit, Dialog!ApiStores, Submission
  <2>5. ASSUME NEW c \in Calls, Dialog!Succeeds(c) \/ Dialog!Fails(c)  PROVE Dialog!FormTypeOK'
    <3>1. call[c] \in Submission /\ call[c].body \in Dialog!Body
      BY <2>0 DEF Submission
    <3>3. call' \in [Calls -> Submission]
      BY <2>0, <2>5 DEF Dialog!Succeeds, Dialog!Fails
    <3>4. QED
      BY <2>5, <3>1, <3>3 DEF Dialog!Succeeds, Dialog!Fails, Submission
  <2>6. CASE UNCHANGED formPage
    BY <2>6 DEF formPage
  <2>7. QED
    BY <2>1, <2>2, <2>3, <2>4, <2>5, <2>6 DEF Dialog!FormNext
<1>3. ASSUME DialogInv, [Dialog!FormNext]_formPage PROVE OneUnderWay' /\ UntouchedIsKnown'
  <2> USE <1>3 DEF OneUnderWay, UntouchedIsKnown, Dialog!LastValuesAgain, Dialog!FormTypeOK,
                   Dialog!Reset
  <2>1. CASE Dialog!OpenForm
    <3>1. \A c \in Calls : call[c] = Dialog!NoCall => call'[c] = Dialog!NoCall
      <4>1. ASSUME NEW r \in [pc : {"none", "sent", "stored"}, body : Dialog!Body, own : BOOLEAN],
                   r.own = FALSE
            PROVE  [r EXCEPT !.own = FALSE] = r
        BY ONLY <4>1
      <4>2. Dialog!NoCall \in [pc : {"none", "sent", "stored"}, body : Dialog!Body, own : BOOLEAN]
            /\ Dialog!NoCall.own = FALSE
        BY DEF Dialog!NoCall
      <4>3. [Dialog!NoCall EXCEPT !.own = FALSE] = Dialog!NoCall
        BY ONLY <4>1, <4>2
      <4>4. QED
        BY <2>1, <4>3 DEF Dialog!OpenForm
    <3>2. QED
      BY <2>1, <3>1 DEF Dialog!OpenForm
  <2>2. CASE Dialog!CloseForm \/ Dialog!OtherOperator \/ Dialog!Refetch
    BY <2>2 DEF Dialog!CloseForm, Dialog!OtherOperator, Dialog!Refetch
  <2>3. ASSUME NEW f \in Fields, NEW v \in Values, Dialog!Type(f, v)
        PROVE  OneUnderWay' /\ UntouchedIsKnown'
    BY <2>3 DEF Dialog!Type, Dialog!Body
  <2>4. ASSUME NEW c \in Calls, Dialog!Submit(c)
        PROVE  OneUnderWay' /\ UntouchedIsKnown'
    BY <2>4 DEF Dialog!Submit
  <2>5. ASSUME NEW c \in Calls, Dialog!ApiStores(c)
        PROVE  OneUnderWay' /\ UntouchedIsKnown'
    <3>1. \A d \in Calls : call'[d] # Dialog!NoCall => call[d] # Dialog!NoCall
      <4>1. call[c] # Dialog!NoCall
        BY <2>5 DEF Dialog!ApiStores, Dialog!NoCall
      <4>2. \A d \in Calls \ {c} : call'[d] = call[d]
        BY <2>5 DEF Dialog!ApiStores
      <4>3. QED
        BY <4>1, <4>2
    <3>2. QED
      BY <2>5, <3>1 DEF Dialog!ApiStores
  <2>6. ASSUME NEW c \in Calls, Dialog!Succeeds(c) \/ Dialog!Fails(c)
        PROVE  OneUnderWay' /\ UntouchedIsKnown'
    <3>1. call[c] # Dialog!NoCall
      BY <2>6 DEF Dialog!Succeeds, Dialog!Fails, Dialog!NoCall
    <3>2. OneUnderWay'
      BY <2>6, <3>1 DEF Dialog!Succeeds, Dialog!Fails
    <3>3. CASE Dialog!Succeeds(c)
      <4>1. form' = "sheet" => kept' /\ typed' = known'
        BY <3>3 DEF Dialog!Succeeds
      <4>2. QED
        BY ONLY <3>2, <4>1 DEF UntouchedIsKnown
    <3>4. CASE Dialog!Fails(c)
      BY <3>2, <3>4 DEF Dialog!Fails
    <3>5. QED
      BY <2>6, <3>3, <3>4
  <2>7. CASE UNCHANGED formPage
    BY <2>7 DEF formPage
  <2>8. QED
    BY <2>1, <2>2, <2>3, <2>4, <2>5, <2>6, <2>7 DEF Dialog!FormNext
<1>4. QED
  BY <1>1, <1>2, <1>3

(* The dialogs keep their invariant, whichever page is mounted.            *)
THEOREM DialogInvariant == PagesSpec => []DialogInv
<1>1. PagesInit => DialogInv
  BY DialogInductive DEF PagesInit
<1>2. DialogInv /\ [PagesNext]_allVars => DialogInv'
  <2>1. [PagesNext]_allVars => [Dialog!FormNext]_formPage
    BY DEF PagesNext, Explore, Turn, Fill, Choose, allVars
  <2>2. QED
    BY <2>1, DialogInductive
<1>3. QED
  BY <1>1, <1>2, PTL DEF PagesSpec

(* No opening of a create dialog that began with no submission under way   *)
(* has two of its own (isSubmitting).                                      *)
THEOREM OneSubmissionAlways == PagesSpec => []OneSubmissionPerOpening
<1>1. DialogInv => OneSubmissionPerOpening
  <2> DEFINE own == {c \in Calls : call[c] # Dialog!NoCall /\ call[c].own}
  <2> SUFFICES ASSUME DialogInv, form = "create" /\ alone PROVE Dialog!Cardinality(own) <= 1
    BY DEF OneSubmissionPerOpening, Dialog!OneSubmissionPerOpening
  <2>1. own = {} \/ \E c : own = {c}
    <3>1. \A c, d \in own : c = d
      BY DEF DialogInv, OneUnderWay
    <3>2. QED
      BY <3>1
  <2> HIDE DEF own
  <2>2. Cardinality(own) <= 1
    <3>1. CASE own = {}
      BY <3>1, FS_EmptySet
    <3>2. ASSUME NEW c, own = {c} PROVE Cardinality(own) <= 1
      <4>1. Cardinality({c}) = 1
        BY FS_Singleton
      <4>2. QED
        BY ONLY <3>2, <4>1
    <3>3. QED
      BY <2>1, <3>1, <3>2
  <2>3. QED
    BY ONLY <2>2 DEF Cardinality, Dialog!Cardinality
<1>2. QED
  BY <1>1, DialogInvariant, PTL

(* The sheet sends a field that was not typed into as the page knows it,   *)
(* unless its last "values" have come again after it stored others         *)
(* (queue-config-sheet.tsx).                                               *)
THEOREM UntouchedStayCurrent == PagesSpec => UntouchedFieldsCurrent
<1>1. DialogInv /\ [PagesNext]_allVars =>
        [\A c \in Calls :
           (form = "sheet" /\ call[c].pc = "none" /\ call'[c].pc = "sent") =>
             \/ \A f \in Fields \ touched : call'[c].body[f] = known[f]
             \/ Dialog!LastValuesAgain]_(Dialog!formVars)
  <2> SUFFICES ASSUME DialogInv, Dialog!FormNext,
                      NEW c \in Calls, form = "sheet", call[c].pc = "none", call'[c].pc = "sent",
                      ~Dialog!LastValuesAgain, NEW f \in Fields \ touched
               PROVE  call'[c].body[f] = known[f]
    BY DEF PagesNext, Explore, Turn, Fill, Choose, allVars, formPage, Dialog!formVars
  <2> call \in [Calls -> [pc : {"none", "sent", "stored"}, body : Dialog!Body, own : BOOLEAN]]
    BY DEF DialogInv, Dialog!FormTypeOK
  <2>1. PICK d \in Calls : Dialog!Submit(d)
    <3>1. ~Dialog!OpenForm
      BY DEF Dialog!OpenForm
    <3>2. ~(Dialog!CloseForm \/ Dialog!OtherOperator \/ Dialog!Refetch)
      BY DEF Dialog!CloseForm, Dialog!OtherOperator, Dialog!Refetch
    <3>3. \A g \in Fields, v \in Values : ~Dialog!Type(g, v)
      BY DEF Dialog!Type
    <3>4. \A d \in Calls : ~Dialog!ApiStores(d)
      BY DEF Dialog!ApiStores
    <3>5. \A d \in Calls : ~(Dialog!Succeeds(d) \/ Dialog!Fails(d))
      BY DEF Dialog!Succeeds, Dialog!Fails, Dialog!NoCall
    <3>6. QED
      BY <3>1, <3>2, <3>3, <3>4, <3>5 DEF Dialog!FormNext
  <2>2. call'[c].body = typed
    BY <2>1 DEF Dialog!Submit
  <2>3. QED
    BY <2>2 DEF DialogInv, UntouchedIsKnown
<1>2. QED
  BY <1>1, DialogInvariant, PTL DEF PagesSpec, UntouchedFieldsCurrent, Dialog!UntouchedFieldsCurrent

-----------------------------------------------------------------------------
(* The settings.                                                           *)

(* What is chosen, listed and stored is the user's.                        *)
OwnOrganizations ==
  /\ orgList \subseteq owned
  /\ stored.org \in owned \cup {NONE}
  /\ orgChoice \in owned \cup {NONE, EMPTY}
  /\ creating.pc = "project" => creating.org \in owned

(* Only the calls for the selected organization count, and the list is of  *)
(* one organization's projects.                                            *)
CurrentCalls ==
  /\ \A o \in Orgs : "current" \in listing[o] => o = Settings!selectedOrg
  /\ projectList \subseteq {projectsFor}

(* A project that was picked from the selected organization's list is of   *)
(* that organization, and one that was not picked is the stored one.       *)
PickedPair ==
  /\ projectChoice = NONE => orgChoice = NONE
  /\ projectChoice \in Orgs /\ ~early => projectChoice = Settings!selectedOrg

WorkspaceInv ==
  /\ Settings!WorkspaceTypeOK /\ OwnOrganizations /\ CurrentCalls /\ PickedPair
  /\ ListOfSelectedOrg /\ SavedPairBelongs

(* What is selected is the user's, or nothing: the newest of a listing is  *)
(* one of it.                                                              *)
LEMMA SelectedIsOwned ==
  ASSUME NEW own \in SUBSET Orgs, NEW choice \in own \cup {NONE, EMPTY},
         NEW s, s.org \in own \cup {NONE}, NEW list \in SUBSET own
  PROVE  Settings!Selected(choice, s, list) \in own \cup {EMPTY}
<1>1. list # {} => \E o \in list : \A p \in list : p <= o
  <2>1. list \subseteq Nat /\ list \subseteq Orgs /\ IsFiniteSet(Orgs)
    BY PagesParameters
  <2>2. list \subseteq Nat /\ IsFiniteSet(list)
    BY <2>1, FS_Subset
  <2>3. QED
    BY <2>2, LargestExists
<1>2. list # {} => (CHOOSE o \in list : \A p \in list : p <= o) \in list
  BY <1>1
<1>3. QED
  BY <1>2 DEF Settings!Selected

(* The calls after the effect has run.                                     *)
LEMMA AskingTyped ==
  ASSUME NEW calls \in [Orgs -> SUBSET {"current", "stale"}], NEW o
  PROVE  /\ Settings!Asking(calls, o) \in [Orgs -> SUBSET {"current", "stale"}]
         /\ \A p \in Orgs : "current" \in Settings!Asking(calls, o)[p] <=> p = o
BY DEF Settings!Asking

(* The page starts anew for a stored pair of the user's.                   *)
LEMMA MountKeepsInv ==
  ASSUME Settings!Mount(stored'), (owned \subseteq Orgs /\ ready \subseteq owned)',
         stored' \in [org : Orgs \cup {NONE}, project : Orgs \cup {NONE}, early : BOOLEAN],
         (stored.org \in owned \cup {NONE})', SavedPairBelongs'
  PROVE  WorkspaceInv'
<1> USE DEF Settings!Mount
<1>1. Settings!NoCalls \in [Orgs -> SUBSET {"current", "stale"}]
  BY DEF Settings!NoCalls
<1>2. /\ listing' \in [Orgs -> SUBSET {"current", "stale"}]
      /\ \A p \in Orgs : "current" \in listing'[p] <=> p = stored'.org
  BY <1>1, AskingTyped
<1>3. Settings!selectedOrg' = IF stored'.org # NONE THEN stored'.org ELSE EMPTY
  BY PagesParameters DEF Settings!selectedOrg, Settings!Selected
<1>4. Settings!WorkspaceTypeOK'
  BY <1>2, PagesParameters DEF Settings!WorkspaceTypeOK, Settings!Idle
<1>5. OwnOrganizations'
  BY DEF OwnOrganizations, Settings!Idle
<1>6. CurrentCalls'
  BY <1>2, <1>3, PagesParameters DEF CurrentCalls
<1>7. PickedPair'
  BY PagesParameters DEF PickedPair
<1>8. ListOfSelectedOrg'
  BY <1>2, <1>3, PagesParameters DEF ListOfSelectedOrg, Settings!ListOfSelectedOrg
<1>9. QED
  BY <1>4, <1>5, <1>6, <1>7, <1>8 DEF WorkspaceInv

(* Another selection runs the effect again: then the list on the page is   *)
(* waiting for the selected organization's.                                *)
LEMMA ReselectKeeps ==
  ASSUME WorkspaceInv, UNCHANGED <<projectList, projectsFor>>,
         \/ listing' = listing /\ Settings!selectedOrg' = Settings!selectedOrg
         \/ listing' = Settings!Asking(listing, Settings!selectedOrg')
  PROVE  /\ listing' \in [Orgs -> SUBSET {"current", "stale"}]
         /\ CurrentCalls' /\ ListOfSelectedOrg'
<1> USE DEF WorkspaceInv
<1>1. listing \in [Orgs -> SUBSET {"current", "stale"}]
  BY DEF Settings!WorkspaceTypeOK
<1>2. CASE listing' = listing /\ Settings!selectedOrg' = Settings!selectedOrg
  BY <1>1, <1>2 DEF CurrentCalls, ListOfSelectedOrg, Settings!ListOfSelectedOrg
<1>3. CASE listing' = Settings!Asking(listing, Settings!selectedOrg')
  <2>1. /\ listing' \in [Orgs -> SUBSET {"current", "stale"}]
        /\ \A p \in Orgs : "current" \in listing'[p] <=> p = Settings!selectedOrg'
    BY <1>1, <1>3, AskingTyped
  <2>2. QED
    BY <2>1 DEF WorkspaceInv, CurrentCalls, ListOfSelectedOrg, Settings!ListOfSelectedOrg
<1>4. QED
  BY <1>2, <1>3

(* Every step of the settings keeps the invariant.                         *)
LEMMA WorkspaceInductive ==
  /\ Settings!WorkspaceInit => WorkspaceInv
  /\ WorkspaceInv /\ [Settings!WorkspaceNext]_settingsPage => WorkspaceInv'
<1> DEFINE sel == Settings!selectedOrg
<1>1. ASSUME Settings!WorkspaceInit PROVE WorkspaceInv
  <2> USE <1>1 DEF Settings!WorkspaceInit
  <2>1. Settings!NoCalls \in [Orgs -> SUBSET {"current", "stale"}]
    BY DEF Settings!NoCalls
  <2>2. /\ listing \in [Orgs -> SUBSET {"current", "stale"}]
        /\ \A p \in Orgs : "current" \in listing[p] <=> p = stored.org
    BY <2>1, AskingTyped
  <2>3. /\ stored \in [org : Orgs \cup {NONE}, project : Orgs \cup {NONE}, early : BOOLEAN]
        /\ stored.org \in owned \cup {NONE} /\ stored.project = stored.org
    <3>1. PICK o \in ready \cup {NONE} : stored = [org |-> o, project |-> o, early |-> FALSE]
      OBVIOUS
    <3>2. ready \subseteq owned /\ owned \subseteq Orgs
      OBVIOUS
    <3>3. QED
      BY <3>1, <3>2
  <2>4. sel = IF stored.org # NONE THEN stored.org ELSE EMPTY
    BY PagesParameters DEF Settings!selectedOrg, Settings!Selected
  <2>5. Settings!WorkspaceTypeOK
    BY <2>2, <2>3, PagesParameters DEF Settings!WorkspaceTypeOK, Settings!Idle
  <2>6. OwnOrganizations
    BY <2>3 DEF OwnOrganizations, Settings!Idle
  <2>7. CurrentCalls /\ PickedPair
    BY <2>2, <2>4, PagesParameters DEF CurrentCalls, PickedPair
  <2>8. ListOfSelectedOrg /\ SavedPairBelongs
    BY <2>2, <2>3, <2>4, PagesParameters
       DEF ListOfSelectedOrg, Settings!ListOfSelectedOrg,
           SavedPairBelongs, Settings!SavedPairBelongs
  <2>9. QED
    BY <2>5, <2>6, <2>7, <2>8 DEF WorkspaceInv
<1>2. ASSUME WorkspaceInv PROVE sel \in owned \cup {EMPTY} /\ sel \in Orgs \cup {EMPTY}
  BY <1>2, SelectedIsOwned
     DEF WorkspaceInv, Settings!WorkspaceTypeOK, OwnOrganizations, Settings!selectedOrg
<1>3. ASSUME WorkspaceInv, Settings!OrgsAnswer PROVE WorkspaceInv'
  <2> USE <1>3 DEF Settings!OrgsAnswer, WorkspaceInv
  <2>1. CASE UNCHANGED <<orgList, listing, early>>
    <3>1. sel' = sel
      BY <2>1 DEF Settings!selectedOrg
    <3>2. CurrentCalls' /\ ListOfSelectedOrg'
      BY <2>1, <3>1, ReselectKeeps
    <3>3. QED
      BY <2>1, <3>1, <3>2
         DEF Settings!WorkspaceTypeOK, OwnOrganizations, PickedPair,
             SavedPairBelongs, Settings!SavedPairBelongs
  <2>2. CASE /\ orgList' = owned /\ Settings!Reselect(orgChoice, owned)
             /\ early' = (early \/ Settings!Adrift(owned))
    <3>1. sel' = Settings!Selected(orgChoice, stored, owned)
      BY <2>2 DEF Settings!selectedOrg
    <3>2. /\ listing' \in [Orgs -> SUBSET {"current", "stale"}]
          /\ CurrentCalls' /\ ListOfSelectedOrg'
      BY <2>2, <3>1, ReselectKeeps DEF Settings!Reselect
    <3>3. PickedPair'
      BY <2>2, <3>1 DEF PickedPair, Settings!Adrift, Settings!WorkspaceTypeOK
    <3>4. QED
      BY <2>2, <3>2, <3>3
         DEF Settings!WorkspaceTypeOK, OwnOrganizations, Settings!Adrift,
             SavedPairBelongs, Settings!SavedPairBelongs
  <2>3. QED
    BY <2>1, <2>2
<1>4. ASSUME WorkspaceInv, NEW o \in Orgs, Settings!ProjectsAnswer(o) PROVE WorkspaceInv'
  <2> USE <1>4 DEF Settings!ProjectsAnswer, WorkspaceInv
  <2>1. sel' = sel
    BY DEF Settings!selectedOrg
  <2>2. PICK kind \in listing[o] :
          /\ listing' = [listing EXCEPT ![o] = @ \ {kind}]
          /\ IF kind = "current"
               THEN projectsFor' = o /\ projectList' \in {Settings!ProjectsOf(o), {}}
               ELSE UNCHANGED <<projectList, projectsFor>>
    OBVIOUS
  <2>3. listing \in [Orgs -> SUBSET {"current", "stale"}]
    BY DEF Settings!WorkspaceTypeOK
  <2>4. listing' \in [Orgs -> SUBSET {"current", "stale"}]
    BY <2>2, <2>3
  <2>5. /\ projectsFor' \in Orgs \cup {NONE} /\ projectList' \subseteq Orgs
        /\ projectList' \subseteq {projectsFor'}
    BY <2>2 DEF CurrentCalls, Settings!WorkspaceTypeOK, Settings!ProjectsOf
  <2>6. CurrentCalls'
    BY <2>1, <2>2, <2>3, <2>5 DEF CurrentCalls
  <2>7. ListOfSelectedOrg'
    <3>1. CASE kind = "current"
      <4>1. o = sel
        BY <2>2, <3>1 DEF CurrentCalls
      <4>2. QED
        BY <2>1, <2>2, <2>5, <3>1, <4>1 DEF ListOfSelectedOrg, Settings!ListOfSelectedOrg
    <3>2. CASE kind # "current"
      <4>1. \A p \in Orgs : "current" \notin listing'[p] => "current" \notin listing[p]
        BY <2>2, <2>3, <3>2
      <4>2. QED
        BY <2>1, <2>2, <3>2, <4>1 DEF ListOfSelectedOrg, Settings!ListOfSelectedOrg
    <3>3. QED
      BY <3>1, <3>2
  <2>8. QED
    BY <2>1, <2>4, <2>5, <2>6, <2>7
       DEF Settings!WorkspaceTypeOK, OwnOrganizations, PickedPair,
           SavedPairBelongs, Settings!SavedPairBelongs
<1>5. ASSUME WorkspaceInv, Settings!NewToken PROVE WorkspaceInv'
  <2> USE <1>5 DEF Settings!NewToken, WorkspaceInv
  <2>1. sel' = sel
    BY DEF Settings!selectedOrg
  <2>2. /\ listing' \in [Orgs -> SUBSET {"current", "stale"}]
        /\ CurrentCalls' /\ ListOfSelectedOrg'
    BY <2>1, ReselectKeeps
  <2>3. QED
    BY <2>1, <2>2
       DEF Settings!WorkspaceTypeOK, OwnOrganizations, PickedPair,
           SavedPairBelongs, Settings!SavedPairBelongs
<1>6. ASSUME WorkspaceInv, NEW o \in orgList \cup {EMPTY}, Settings!ChooseOrg(o)
      PROVE  WorkspaceInv'
  <2> USE <1>6 DEF Settings!ChooseOrg, WorkspaceInv
  <2>1. sel' = Settings!Selected(o, stored, orgList)
    BY DEF Settings!selectedOrg
  <2>2. /\ listing' \in [Orgs -> SUBSET {"current", "stale"}]
        /\ CurrentCalls' /\ ListOfSelectedOrg'
    BY <2>1, ReselectKeeps DEF Settings!Reselect
  <2>3. PickedPair'
    BY PagesParameters DEF PickedPair
  <2>4. QED
    BY <2>2, <2>3
       DEF Settings!WorkspaceTypeOK, OwnOrganizations,
           SavedPairBelongs, Settings!SavedPairBelongs
<1>7. ASSUME WorkspaceInv, NEW p \in projectList \cup {EMPTY}, Settings!ChooseProject(p)
      PROVE  WorkspaceInv'
  <2> USE <1>7 DEF Settings!ChooseProject, WorkspaceInv
  <2>1. sel' = sel
    BY DEF Settings!selectedOrg
  <2>2. CurrentCalls' /\ ListOfSelectedOrg'
    BY <2>1, ReselectKeeps
  <2>3. p # NONE
    BY PagesParameters DEF Settings!WorkspaceTypeOK
  <2>4. PickedPair'
    BY <2>1, <2>3, PagesParameters DEF PickedPair, CurrentCalls
  <2>5. QED
    BY <2>2, <2>4
       DEF Settings!WorkspaceTypeOK, OwnOrganizations,
           SavedPairBelongs, Settings!SavedPairBelongs
<1>8. ASSUME WorkspaceInv, Settings!Save PROVE WorkspaceInv'
  <2> USE <1>8 DEF Settings!Save, WorkspaceInv
  <2>1. sel \in owned /\ owned \subseteq Orgs
    BY <1>2 DEF Settings!WorkspaceTypeOK
  <2>2. Settings!selectedProject \in Orgs
    BY PagesParameters DEF Settings!selectedProject, Settings!WorkspaceTypeOK
  <2>3. /\ stored'.org = sel /\ stored'.project = Settings!selectedProject
        /\ stored'.early = (early \/ (projectChoice = NONE /\ stored.early))
        /\ stored' \in [org : Orgs \cup {NONE}, project : Orgs \cup {NONE}, early : BOOLEAN]
    BY <2>1, <2>2 DEF Settings!WorkspaceTypeOK
  <2>4. ~stored'.early => Settings!selectedProject = sel
    <3>1. CASE projectChoice # NONE
      BY <2>2, <2>3, <3>1 DEF PickedPair, Settings!selectedProject
    <3>2. CASE projectChoice = NONE
      <4>1. stored.project # NONE /\ Settings!selectedProject = stored.project
        BY <2>2, <3>2, PagesParameters DEF Settings!selectedProject
      <4>2. ~stored.early => stored.org = stored.project
        BY <4>1 DEF SavedPairBelongs, Settings!SavedPairBelongs
      <4>3. stored.org # NONE => sel = stored.org
        BY <3>2 DEF PickedPair, Settings!selectedOrg, Settings!Selected
      <4>4. QED
        BY <2>3, <3>2, <4>1, <4>2, <4>3
    <3>3. QED
      BY <3>1, <3>2
  <2>5. SavedPairBelongs'
    BY <2>3, <2>4 DEF SavedPairBelongs, Settings!SavedPairBelongs
  <2>6. (owned \subseteq Orgs /\ ready \subseteq owned)' /\ (stored.org \in owned \cup {NONE})'
    BY <2>1, <2>3 DEF Settings!WorkspaceTypeOK
  <2>7. Settings!Mount(stored')
    OBVIOUS
  <2>8. QED
    BY ONLY <2>3, <2>5, <2>6, <2>7, MountKeepsInv
<1>9. ASSUME WorkspaceInv, Settings!CreateWorkspace \/ Settings!OrgCreated \/ Settings!CreateFails
      PROVE  WorkspaceInv'
  <2> USE <1>9 DEF Settings!CreateWorkspace, Settings!OrgCreated, Settings!CreateFails, WorkspaceInv
  <2>1. sel' = sel
    BY DEF Settings!selectedOrg
  <2>2. CurrentCalls' /\ ListOfSelectedOrg'
    BY <2>1, ReselectKeeps
  <2>3. /\ creating' \in [pc : {"none", "org", "project"}, org : Orgs \cup {NONE}]
        /\ owned \subseteq owned' /\ owned' \subseteq Orgs
        /\ creating'.pc = "project" => creating'.org \in owned'
    <3>1. CASE Settings!CreateWorkspace
      <4>1. Settings!needsProject => sel \in owned
        BY <1>2 DEF Settings!needsProject
      <4>2. ~Settings!needsOrg => sel \in owned
        BY <3>1, <4>1 DEF Settings!onboarding
      <4>3. QED
        BY <3>1, <4>2 DEF Settings!WorkspaceTypeOK
    <3>2. CASE Settings!OrgCreated
      BY <3>2 DEF Settings!WorkspaceTypeOK
    <3>3. CASE Settings!CreateFails
      BY <3>3 DEF Settings!WorkspaceTypeOK, Settings!Idle
    <3>4. QED
      BY <3>1, <3>2, <3>3
  <2>4. QED
    BY <2>1, <2>2, <2>3
       DEF Settings!WorkspaceTypeOK, OwnOrganizations, PickedPair,
           SavedPairBelongs, Settings!SavedPairBelongs
<1>10. ASSUME WorkspaceInv, Settings!ProjectCreated PROVE WorkspaceInv'
  <2> USE <1>10 DEF Settings!ProjectCreated, WorkspaceInv
  <2>1. creating.org \in owned /\ owned \subseteq Orgs /\ ready \subseteq owned
    BY DEF OwnOrganizations, Settings!WorkspaceTypeOK
  <2>2. /\ stored' \in [org : Orgs \cup {NONE}, project : Orgs \cup {NONE}, early : BOOLEAN]
        /\ (stored.org \in owned \cup {NONE})' /\ stored'.project = stored'.org
        /\ (owned \subseteq Orgs /\ ready \subseteq owned)'
    BY <2>1
  <2>3. SavedPairBelongs'
    BY <2>2 DEF SavedPairBelongs, Settings!SavedPairBelongs
  <2>4. Settings!Mount(stored')
    OBVIOUS
  <2>5. QED
    BY ONLY <2>2, <2>3, <2>4, MountKeepsInv
<1>11. ASSUME WorkspaceInv, UNCHANGED settingsPage PROVE WorkspaceInv'
  <2>1. sel' = sel
    BY <1>11 DEF settingsPage, Settings!selectedOrg
  <2>2. QED
    BY <1>11, <2>1
       DEF settingsPage, WorkspaceInv, Settings!WorkspaceTypeOK, OwnOrganizations, CurrentCalls,
           PickedPair, ListOfSelectedOrg, Settings!ListOfSelectedOrg,
           SavedPairBelongs, Settings!SavedPairBelongs
<1>12. QED
  BY <1>1, <1>3, <1>4, <1>5, <1>6, <1>7, <1>8, <1>9, <1>10, <1>11
     DEF Settings!WorkspaceNext, Settings!CreateStep

(* The settings keep their invariant, whichever page is mounted.           *)
THEOREM WorkspaceInvariant == PagesSpec => []WorkspaceInv
<1>1. PagesInit => WorkspaceInv
  BY WorkspaceInductive DEF PagesInit
<1>2. WorkspaceInv /\ [PagesNext]_allVars => WorkspaceInv'
  <2>1. [PagesNext]_allVars => [Settings!WorkspaceNext]_settingsPage
    BY DEF PagesNext, Explore, Turn, Fill, Choose, allVars
  <2>2. QED
    BY <2>1, WorkspaceInductive
<1>3. QED
  BY <1>1, <1>2, PTL DEF PagesSpec

(* Late answers for another organization never show as the selected one's  *)
(* (settings/page.tsx).                                                    *)
THEOREM ListIsSelectedOrgs == PagesSpec => []ListOfSelectedOrg
<1>1. WorkspaceInv => ListOfSelectedOrg
  BY DEF WorkspaceInv
<1>2. QED
  BY <1>1, WorkspaceInvariant, PTL

(* What is saved is a project of the saved organization, or was picked     *)
(* early (save).                                                           *)
THEOREM SavedPairAlwaysBelongs == PagesSpec => []SavedPairBelongs
<1>1. WorkspaceInv => SavedPairBelongs
  BY DEF WorkspaceInv
<1>2. QED
  BY <1>1, WorkspaceInvariant, PTL

-----------------------------------------------------------------------------
(* The pager.                                                              *)

(* The cursor is at the start of a page, whatever the list has become.     *)
AtPageStart == \E n \in Nat : cursor = n * pageSize

PagerInv == Pager!PagerTypeOK /\ AtPageStart

(* Every step of the pager keeps it.                                       *)
LEMMA PagerInductive ==
  /\ Pager!PagerInit => PagerInv
  /\ PagerInv /\ [Pager!PagerNext]_pagerPage => PagerInv'
<1> USE DEF PagerInv, Pager!PagerTypeOK
<1>0. \A s \in PageSizes : s \in Nat /\ s > 0
  BY PagesParameters
<1>1. ASSUME Pager!PagerInit PROVE PagerInv
  <2>1. cursor = 0 * pageSize
    BY <1>0, <1>1 DEF Pager!PagerInit
  <2>2. QED
    BY <1>1, <2>1 DEF Pager!PagerInit, AtPageStart
<1>2. ASSUME PagerInv, [Pager!PagerNext]_pagerPage PROVE PagerInv'
  <2> USE <1>2
  <2>1. CASE Pager!Previous
    <3>1. PICK n \in Nat : cursor = n * pageSize
      BY DEF AtPageStart
    <3>2. CASE cursor > pageSize
      <4>1. n \in Nat \ {0}
        BY <1>0, <3>1, <3>2
      <4>2. cursor - pageSize = (n - 1) * pageSize /\ cursor - pageSize \in Nat
        BY <1>0, <3>1, <3>2
      <4>3. QED
        BY <2>1, <3>2, <4>1, <4>2 DEF Pager!Previous, AtPageStart
    <3>3. CASE ~(cursor > pageSize)
      <4>1. 0 = 0 * pageSize
        BY <1>0
      <4>2. QED
        BY <2>1, <3>3, <4>1 DEF Pager!Previous, AtPageStart
    <3>4. QED
      BY <3>2, <3>3
  <2>2. CASE Pager!NextPage
    <3>1. PICK n \in Nat : cursor = n * pageSize
      BY DEF AtPageStart
    <3>2. cursor + pageSize = (n + 1) * pageSize /\ cursor + pageSize \in Nat
      BY <1>0, <3>1
    <3>3. QED
      BY <2>2, <3>2 DEF Pager!NextPage, AtPageStart
  <2>3. CASE Pager!ClearBadge \/ Pager!Select \/ Pager!Bulk \/ Pager!Relist
    <3>1. Pager!Page \subseteq Pager!AllRows
      BY DEF Pager!Page, Pager!Filtered
    <3>2. QED
      BY <2>3, <3>1
         DEF Pager!ClearBadge, Pager!Select, Pager!Bulk, Pager!Relist, AtPageStart
  <2>4. ASSUME NEW s \in PageSizes, Pager!SetPageSize(s) PROVE PagerInv'
    <3>1. 0 = 0 * s
      BY <1>0
    <3>2. QED
      BY <2>4, <3>1 DEF Pager!SetPageSize, AtPageStart
  <2>5. ASSUME NEW S \in SUBSET Pager!AllRows, Pager!Narrow(S) PROVE PagerInv'
    <3>1. 0 = 0 * pageSize
      BY <1>0
    <3>2. QED
      BY <2>5, <3>1 DEF Pager!Narrow, AtPageStart
  <2>6. CASE UNCHANGED pagerPage
    BY <2>6 DEF pagerPage, AtPageStart
  <2>7. QED
    BY <2>1, <2>2, <2>3, <2>4, <2>5, <2>6 DEF Pager!PagerNext
<1>3. QED
  BY <1>1, <1>2

(* The pager keeps its invariant, whichever page is mounted.               *)
THEOREM PagerInvariant == PagesSpec => []PagerInv
<1>1. PagesInit => PagerInv
  BY PagerInductive DEF PagesInit
<1>2. PagerInv /\ [PagesNext]_allVars => PagerInv'
  <2>1. [PagesNext]_allVars => [Pager!PagerNext]_pagerPage
    BY DEF PagesNext, Explore, Turn, Fill, Choose, allVars
  <2>2. QED
    BY <2>1, PagerInductive
<1>3. QED
  BY <1>1, <1>2, PTL DEF PagesSpec

(* "Previous" and "Next" show rows that were not on the page, and "Next"   *)
(* shows some (the pager of jobs/page.tsx).                                *)
THEOREM TurningAlwaysShowsOthers == PagesSpec => TurningShowsOtherRows
<1>1. PagerInv /\ [PagesNext]_allVars =>
        [/\ Pager!Previous \/ Pager!NextPage => Pager!Page' \cap Pager!Page = {}
         /\ Pager!NextPage => Pager!Page' # {}]_(Pager!pagerVars)
  <2> SUFFICES ASSUME PagerInv, Pager!Previous \/ Pager!NextPage
               PROVE  /\ Pager!Page' \cap Pager!Page = {}
                      /\ Pager!NextPage => Pager!Page' # {}
    OBVIOUS
  <2>0. cursor \in Nat /\ pageSize \in Nat /\ pageSize > 0
    BY PagesParameters DEF PagerInv, Pager!PagerTypeOK
  <2>1. Pager!Filtered' = Pager!Filtered /\ pageSize' = pageSize
    BY DEF Pager!Previous, Pager!NextPage, Pager!Filtered
  <2>2. Pager!Filtered \in SUBSET Nat /\ IsFiniteSet(Pager!Filtered)
    <3>1. Pager!Filtered \subseteq 1..MaxRow
      BY DEF PagerInv, Pager!PagerTypeOK, Pager!Filtered, Pager!AllRows
    <3>2. IsFiniteSet(1..MaxRow)
      BY PagesParameters, FS_Interval
    <3>3. 1..MaxRow \subseteq Nat
      BY PagesParameters
    <3>4. QED
      BY <3>1, <3>2, <3>3, FS_Subset
  <2> DEFINE Position(j) == Cardinality({i \in Pager!Filtered : i > j})
  <2>3. \A j \in Pager!Filtered : Pager!Before(j) = Position(j) /\ Position(j) \in Nat
    <3>1. \A j \in Pager!Filtered : Pager!Before(j) = Position(j)
      BY DEF Pager!Before, Cardinality, Pager!Cardinality
    <3>2. \A j \in Pager!Filtered : IsFiniteSet({i \in Pager!Filtered : i > j})
      BY <2>2, FS_Subset
    <3>3. QED
      BY <3>1, <3>2, FS_CardinalityType
  <2>4. Pager!Cardinality(Pager!Filtered) = Cardinality(Pager!Filtered)
    BY DEF Cardinality, Pager!Cardinality
  <2> HIDE DEF Position
  <2>5. Pager!Page = {j \in Pager!Filtered : cursor <= Position(j) /\ Position(j) < cursor + pageSize}
    BY <2>3 DEF Pager!Page
  <2>6. Pager!Page' = {j \in Pager!Filtered : cursor' <= Position(j) /\ Position(j) < cursor' + pageSize}
    <3>1. \A j : Pager!Before(j)' = Pager!Before(j)
      BY <2>1 DEF Pager!Before
    <3>2. QED
      BY <2>1, <2>3, <3>1 DEF Pager!Page
  <2>7. CASE Pager!Previous
    <3>1. cursor' = IF cursor > pageSize THEN cursor - pageSize ELSE 0
      BY <2>7 DEF Pager!Previous
    <3>2. cursor >= pageSize
      <4>1. PICK n \in Nat : cursor = n * pageSize
        BY DEF PagerInv, AtPageStart
      <4>2. n # 0
        BY <2>0, <2>7, <4>1 DEF Pager!Previous, Pager!CanPrevious
      <4>3. QED
        BY <2>0, <4>1, <4>2
    <3>3. cursor' = cursor - pageSize /\ cursor' \in Nat
      BY <2>0, <3>1, <3>2
    <3>4. Pager!Page' \cap Pager!Page = {}
      <4>1. \A n \in Nat : ~(cursor <= n /\ n < cursor' + pageSize)
        BY <2>0, <3>3
      <4>2. QED
        BY <2>3, <2>5, <2>6, <4>1
    <3>5. ~Pager!NextPage
      <4>1. cursor' # cursor + pageSize
        BY ONLY <2>0, <3>3
      <4>2. QED
        BY <4>1 DEF Pager!NextPage
    <3>6. QED
      BY <3>4, <3>5
  <2>8. CASE Pager!NextPage
    <3>1. cursor' = cursor + pageSize /\ cursor' \in Nat /\ cursor' < Cardinality(Pager!Filtered)
      BY <2>0, <2>4, <2>8 DEF Pager!NextPage, Pager!CanNext
    <3>2. Pager!Page' \cap Pager!Page = {}
      <4>1. \A n \in Nat : ~(cursor' <= n /\ n < cursor + pageSize)
        BY <2>0, <3>1
      <4>2. QED
        BY <2>3, <2>5, <2>6, <4>1
    <3>3. \E j \in Pager!Filtered : Position(j) = cursor'
      BY <2>2, <3>1, RankIsTaken DEF Position
    <3>4. Pager!Page' # {}
      BY <2>0, <2>6, <3>1, <3>3
    <3>5. QED
      BY <3>2, <3>4
  <2>9. QED
    BY <2>7, <2>8
<1>2. QED
  BY <1>1, PagerInvariant, PTL DEF PagesSpec, TurningShowsOtherRows, Pager!TurningShowsOtherRows

-----------------------------------------------------------------------------
(* The explorer.                                                           *)

(* A buried job is gone from the table, from all that may still be shown   *)
(* under its key, and from what the commands of the key may roll back to.  *)
BuriedAreGone ==
  \A k \in Keys :
    /\ buried[k] \cap DOMAIN table = {}
    /\ data[k] # NULL => buried[k] \cap DOMAIN data[k] = {}
    /\ committed[k] # NULL => buried[k] \cap DOMAIN committed[k] = {}
    /\ fetch[k].read # NULL => buried[k] \cap DOMAIN fetch[k].read = {}
    /\ \A c \in Commands :
         (Running(c) /\ command[c].key = k /\ command[c].base # NULL)
           => buried[k] \cap DOMAIN command[c].base = {}

(* A command that began alone and still is will end its mutation.          *)
AloneIsLatest ==
  \A c \in Commands :
    (Running(c) /\ command[c].alone) =>
      /\ latest[command[c].key] = c
      /\ \A d \in Commands : Running(d) => d = c

(* What a delete has had confirmed is no longer in the table.              *)
ConfirmedAreGone ==
  \A c \in Commands :
    (Running(c) /\ command[c].action = "delete") =>
      (command[c].targets \ (command[c].todo \cup command[c].failed)) \cap DOMAIN table = {}

ExplorerInv == TypeOK /\ BuriedAreGone /\ AloneIsLatest /\ ConfirmedAreGone

Fetches == [pc : {"none", "asked", "read"}, read : Listing \cup {NULL}, void : BOOLEAN]
CommandStates == [pc : {"none", "running"}, action : {"retry", "cancel", "delete"},
                  key : Keys, targets : SUBSET Jobs, todo : SUBSET Jobs,
                  failed : SUBSET Jobs, base : Listing \cup {NULL}, alone : BOOLEAN]

(* A listing holds jobs, each with a status.                               *)
LEMMA Listings ==
  /\ \A list \in Listing : DOMAIN list \in SUBSET Jobs /\ list \in [DOMAIN list -> Status]
  /\ \A S \in SUBSET Jobs : [S -> Status] \subseteq Listing
  /\ NoRows \in Listing /\ DOMAIN NoRows = {}
<1>1. \A S \in SUBSET Jobs : [S -> Status] \subseteq Listing
  BY DEF Listing
<1>2. \A list \in Listing : DOMAIN list \in SUBSET Jobs /\ list \in [DOMAIN list -> Status]
  BY DEF Listing
<1>3. NoRows \in [{} -> Status] /\ DOMAIN NoRows = {}
  BY DEF NoRows
<1>4. QED
  BY <1>1, <1>2, <1>3

(* An effect adds no row, and that of a delete keeps none of its targets.  *)
LEMMA EffectsShrink ==
  ASSUME NEW list \in Listing, NEW action \in {"retry", "cancel", "delete"}, NEW ids
  PROVE  /\ Effect(list, action, ids) \in Listing
         /\ DOMAIN Effect(list, action, ids) \subseteq DOMAIN list
         /\ action = "delete" => DOMAIN Effect(list, action, ids) \cap ids = {}
<1>1. DOMAIN list \in SUBSET Jobs /\ list \in [DOMAIN list -> Status]
  BY Listings
<1>2. \A S \in SUBSET Jobs : [S -> Status] \subseteq Listing
  BY Listings
<1>3. CASE action = "delete"
  <2>1. Effect(list, action, ids) = [j \in DOMAIN list \ ids |-> list[j]]
    BY <1>3 DEF Effect
  <2>2. [j \in DOMAIN list \ ids |-> list[j]] \in [DOMAIN list \ ids -> Status]
    BY <1>1
  <2>3. QED
    BY <1>1, <1>2, <2>1, <2>2
<1>4. CASE action = "retry"
  <2>1. Effect(list, action, ids) \in [DOMAIN list -> Status]
    BY <1>1, <1>4 DEF Effect, Status
  <2>2. QED
    BY <1>1, <1>2, <1>4, <2>1
<1>5. CASE action = "cancel"
  <2>1. Effect(list, action, ids) \in [DOMAIN list -> Status]
    BY <1>1, <1>5 DEF Effect, Status
  <2>2. QED
    BY <1>1, <1>2, <1>5, <2>1
<1>6. QED
  BY <1>3, <1>4, <1>5

(* What the API lists is of the table.                                     *)
LEMMA ListedShrinks ==
  ASSUME table \in Listing, NEW k
  PROVE  Listed(k) \in Listing /\ DOMAIN Listed(k) \subseteq DOMAIN table
<1> DEFINE S == {i \in DOMAIN table : k = "all" \/ table[i] = k}
<1>1. S \in SUBSET Jobs /\ Listed(k) \in [S -> Status]
  BY Listings DEF Listed
<1>2. QED
  BY <1>1, Listings

(* The states of a fetch.                                                  *)
LEMMA FetchesTyped ==
  /\ NoFetch \in Fetches /\ NoFetch.read = NULL
  /\ \A b \in BOOLEAN : Asked(b) \in Fetches /\ Asked(b).read = NULL
  /\ \A f \in Fetches, r \in Listing \cup {NULL} :
       LET g == [f EXCEPT !.pc = "read", !.read = r] IN g \in Fetches /\ g.read = r
  /\ \A f \in Fetches, b \in BOOLEAN :
       LET g == [f EXCEPT !.void = b] IN g \in Fetches /\ g.read = f.read
<1>1. NoFetch \in Fetches /\ NoFetch.read = NULL
  BY DEF Fetches, NoFetch
<1>2. \A b \in BOOLEAN : Asked(b) \in Fetches /\ Asked(b).read = NULL
  BY DEF Fetches, Asked
<1>3. ASSUME NEW f \in Fetches, NEW r \in Listing \cup {NULL}
      PROVE  LET g == [f EXCEPT !.pc = "read", !.read = r] IN g \in Fetches /\ g.read = r
  BY ONLY TRUE DEF Fetches
<1>4. ASSUME NEW f \in Fetches, NEW b \in BOOLEAN
      PROVE  LET g == [f EXCEPT !.void = b] IN g \in Fetches /\ g.read = f.read
  BY ONLY TRUE DEF Fetches
<1>5. QED
  BY <1>1, <1>2, <1>3, <1>4

(* The states of a command.                                                *)
LEMMA CommandsTyped ==
  /\ NoCommand \in CommandStates /\ NoCommand.pc = "none"
  /\ \A d \in CommandStates :
       LET e == [d EXCEPT !.alone = FALSE] IN
       /\ e \in CommandStates /\ ~e.alone
       /\ e.pc = d.pc /\ e.action = d.action /\ e.key = d.key /\ e.base = d.base
       /\ e.targets = d.targets /\ e.todo = d.todo /\ e.failed = d.failed
<1>1. NoCommand \in CommandStates /\ NoCommand.pc = "none"
  BY ExplorerParameters DEF CommandStates, NoCommand
<1>2. ASSUME NEW d \in CommandStates
      PROVE  LET e == [d EXCEPT !.alone = FALSE] IN
             /\ e \in CommandStates /\ ~e.alone
             /\ e.pc = d.pc /\ e.action = d.action /\ e.key = d.key /\ e.base = d.base
             /\ e.targets = d.targets /\ e.todo = d.todo /\ e.failed = d.failed
  BY ONLY TRUE DEF CommandStates
<1>3. QED
  BY <1>1, <1>2

(* The explorer starts with nothing known and nothing under way.           *)
LEMMA ExplorerStarts == PagesInit => ExplorerInv
<1> SUFFICES ASSUME PagesInit PROVE ExplorerInv
  OBVIOUS
<1>1. /\ CacheInit /\ scene \in Scenes /\ table \in Listing
      /\ filter = "all" /\ laggy = NULL /\ command = [c \in Commands |-> NoCommand]
      /\ latest = [k \in Keys |-> NULL] /\ buried = [k \in Keys |-> {}]
  <2>1. CASE Init
    <3>1. scene.jobs \in SUBSET Jobs /\ {"queued", "failed"} \subseteq Status
      BY <2>1, ExplorerParameters DEF Init, Status
    <3>2. table \in [scene.jobs -> Status]
      BY <2>1, <3>1 DEF Init
    <3>3. QED
      BY <2>1, <3>1, <3>2, Listings DEF Init
  <2>2. CASE ~Init
    BY <2>2, ExplorerParameters, Listings DEF PagesInit
  <2>3. QED
    BY <2>1, <2>2
<1>2. \A c \in Commands : command[c] \in CommandStates /\ ~Running(c)
  BY <1>1, CommandsTyped DEF Running
<1>3. \A k \in Keys : fetch[k] \in Fetches /\ fetch[k].read = NULL
  BY <1>1, FetchesTyped DEF CacheInit
<1>4. TypeOK
  <2>1. command \in [Commands -> CommandStates]
    BY <1>1, <1>2
  <2>2. fetch \in [Keys -> Fetches]
    BY <1>1, <1>3 DEF CacheInit
  <2>3. QED
    BY <1>1, <2>1, <2>2, ExplorerParameters
       DEF TypeOK, CacheTypeOK, CacheInit, CommandStates, Fetches
<1>5. BuriedAreGone
  BY <1>1 DEF BuriedAreGone
<1>6. QED
  BY <1>2, <1>4, <1>5 DEF ExplorerInv, AloneIsLatest, ConfirmedAreGone

(* A change of the fetches that brings at most what the server has keeps   *)
(* the invariant.                                                          *)
LEMMA FetchedKeepsInv ==
  ASSUME ExplorerInv, UNCHANGED <<committed, scene, table, command, latest, buried>>,
         filter' \in Keys, laggy' \in Listing \cup {NULL}, err' \in [Keys -> BOOLEAN],
         NEW k \in Keys, NEW f \in Fetches, fetch' = [fetch EXCEPT ![k] = f],
         f.read # NULL => f.read = Listed(k),
         NEW v \in {data[k], fetch[k].read},
         data' = [data EXCEPT ![k] = v]
  PROVE  ExplorerInv'
<1> USE DEF ExplorerInv
<1>1. /\ data \in [Keys -> Listing \cup {NULL}] /\ fetch \in [Keys -> Fetches]
      /\ table \in Listing
  BY DEF TypeOK, CacheTypeOK, Fetches
<1>2. fetch' \in [Keys -> Fetches]
  BY <1>1
<1>3. fetch[k].read \in Listing \cup {NULL}
  BY <1>1 DEF Fetches
<1>4. data' \in [Keys -> Listing \cup {NULL}]
  BY <1>1, <1>3
<1>5. TypeOK'
  BY <1>2, <1>4 DEF TypeOK, CacheTypeOK, Fetches
<1>6. BuriedAreGone'
  <2> SUFFICES ASSUME NEW l \in Keys
               PROVE  /\ buried[l] \cap DOMAIN table = {}
                      /\ data'[l] # NULL => buried[l] \cap DOMAIN data'[l] = {}
                      /\ committed[l] # NULL => buried[l] \cap DOMAIN committed[l] = {}
                      /\ fetch'[l].read # NULL => buried[l] \cap DOMAIN fetch'[l].read = {}
                      /\ \A c \in Commands :
                           (Running(c) /\ command[c].key = l /\ command[c].base # NULL)
                             => buried[l] \cap DOMAIN command[c].base = {}
    BY DEF BuriedAreGone, Running
  <2>1. data'[l] # NULL => buried[l] \cap DOMAIN data'[l] = {}
    BY <1>1 DEF BuriedAreGone
  <2>2. fetch'[l].read # NULL => buried[l] \cap DOMAIN fetch'[l].read = {}
    BY <1>1, ListedShrinks DEF BuriedAreGone
  <2>3. QED
    BY <2>1, <2>2 DEF BuriedAreGone
<1>7. AloneIsLatest' /\ ConfirmedAreGone'
  BY DEF AloneIsLatest, ConfirmedAreGone, Running
<1>8. QED
  BY <1>5, <1>6, <1>7

(* Another filter, the fetches and the polls.                              *)
LEMMA ReadingKeepsInv ==
  ASSUME ExplorerInv, Refresh \/ \E k \in Keys : SetFilter(k) \/ Fetching(k)
  PROVE  ExplorerInv'
<1>0. /\ data \in [Keys -> Listing \cup {NULL}] /\ fetch \in [Keys -> Fetches]
      /\ err \in [Keys -> BOOLEAN] /\ table \in Listing
      /\ filter \in Keys /\ laggy \in Listing \cup {NULL}
      /\ \A k \in Keys : Busy(k) \in BOOLEAN
  BY DEF ExplorerInv, TypeOK, CacheTypeOK, Fetches, Busy
<1>1. \A k \in Keys : data = [data EXCEPT ![k] = data[k]] /\ fetch = [fetch EXCEPT ![k] = fetch[k]]
  BY <1>0
<1>2. ASSUME NEW k \in Keys, Revalidate(k, Busy(k)), UNCHANGED data,
             UNCHANGED <<committed, scene, table, command, latest, buried>>,
             filter' \in Keys, laggy' \in Listing \cup {NULL}, err' \in [Keys -> BOOLEAN]
      PROVE  ExplorerInv'
  <2>1. Asked(Busy(k)) \in Fetches /\ Asked(Busy(k)).read = NULL
    BY <1>0, FetchesTyped
  <2>2. fetch' = [fetch EXCEPT ![k] = Asked(Busy(k))] /\ data' = [data EXCEPT ![k] = data[k]]
    BY <1>1, <1>2 DEF Revalidate
  <2>3. QED
    BY ONLY ExplorerInv, <1>2, <2>1, <2>2, FetchedKeepsInv
<1>3. CASE Refresh
  BY <1>0, <1>2, <1>3 DEF Refresh
<1>4. ASSUME NEW k \in Keys, SetFilter(k) PROVE ExplorerInv'
  <2>1. /\ filter' \in Keys /\ laggy' \in Listing \cup {NULL} /\ err' \in [Keys -> BOOLEAN]
        /\ UNCHANGED <<data, committed, scene, table, command, latest, buried>>
    BY <1>0, <1>4 DEF SetFilter, Shown
  <2>2. CASE fetch[k].pc # "none"
    <3>1. fetch' = fetch
      BY <1>4, <2>2 DEF SetFilter
    <3>2. QED
      BY <2>1, <3>1
         DEF ExplorerInv, TypeOK, CacheTypeOK, BuriedAreGone, AloneIsLatest, ConfirmedAreGone,
             Running
  <2>3. CASE fetch[k].pc = "none"
    BY <1>2, <1>4, <2>1, <2>3 DEF SetFilter, Revalidate
  <2>4. QED
    BY <2>2, <2>3
<1>5. ASSUME NEW k \in Keys, Fetching(k) PROVE ExplorerInv'
  <2>0. UNCHANGED <<scene, table, filter, laggy, command, latest, buried>>
    BY <1>5 DEF Fetching
  <2>1. CASE ServerReads(k, Listed(k))
    <3> DEFINE f == [fetch[k] EXCEPT !.pc = "read", !.read = Listed(k)]
    <3>1. f \in Fetches /\ f.read = Listed(k)
      BY <1>0, FetchesTyped, ListedShrinks
    <3>2. fetch' = [fetch EXCEPT ![k] = f]
      BY <1>0, <2>1 DEF ServerReads
    <3>3. UNCHANGED <<data, committed, err>> /\ data' = [data EXCEPT ![k] = data[k]]
      BY <1>1, <2>1 DEF ServerReads
    <3> HIDE DEF f
    <3>4. QED
      BY <1>0, <2>0, <3>1, <3>2, <3>3, FetchedKeepsInv
  <2>2. CASE Arrive(k)
    <3>1. NoFetch \in Fetches /\ NoFetch.read = NULL
      BY FetchesTyped
    <3>2. fetch' = [fetch EXCEPT ![k] = NoFetch] /\ err' \in [Keys -> BOOLEAN]
      BY <1>0, <2>2 DEF Arrive
    <3>3. PICK v \in {data[k], fetch[k].read} : data' = [data EXCEPT ![k] = v]
      BY <1>0, <2>2 DEF Arrive
    <3>4. QED
      BY <1>0, <2>0, <2>2, <3>1, <3>2, <3>3, FetchedKeepsInv DEF Arrive
  <2>3. CASE FetchFails(k)
    <3>1. NoFetch \in Fetches /\ NoFetch.read = NULL
      BY FetchesTyped
    <3>2. fetch' = [fetch EXCEPT ![k] = NoFetch] /\ err' \in [Keys -> BOOLEAN]
          /\ data' = [data EXCEPT ![k] = data[k]] /\ UNCHANGED committed
      BY <1>0, <1>1, <2>3 DEF FetchFails
    <3>3. QED
      BY <1>0, <2>0, <3>1, <3>2, FetchedKeepsInv
  <2>4. CASE PollListing(k)
    BY <1>0, <1>2, <2>0, <2>4 DEF PollListing, Poll
  <2>5. QED
    BY <1>5, <2>1, <2>2, <2>3, <2>4 DEF Fetching, FetchStep
<1>6. QED
  BY <1>3, <1>4, <1>5

(* A command starts: its optimistic listing is the base less its targets.  *)
LEMMA RunActionKeepsInv ==
  ASSUME ExplorerInv, NEW c \in Commands, NEW action \in {"retry", "cancel", "delete"},
         NEW targets \in SUBSET Jobs, RunAction(c, action, targets)
  PROVE  ExplorerInv'
<1> DEFINE base == Base(filter)
           result == ApplyJobAction(base, action, targets)
<1> USE DEF ExplorerInv
<1>1. /\ data \in [Keys -> Listing \cup {NULL}] /\ committed \in [Keys -> Listing \cup {NULL}]
      /\ fetch \in [Keys -> Fetches] /\ command \in [Commands -> CommandStates]
      /\ latest \in [Keys -> Commands \cup {NULL}] /\ filter \in Keys
  BY DEF TypeOK, CacheTypeOK, Fetches, CommandStates
<1>2. base \in {data[filter], committed[filter]} /\ base \in Listing \cup {NULL}
  BY <1>1 DEF Base
<1>3. /\ result \in Listing
      /\ base # NULL => DOMAIN result \subseteq DOMAIN base
      /\ base = NULL => DOMAIN result = {}
  BY <1>2, EffectsShrink, Listings DEF ApplyJobAction
<1>4. /\ data' = [data EXCEPT ![filter] = result]
      /\ committed' = [committed EXCEPT ![filter] = base]
      /\ latest' = [latest EXCEPT ![filter] = c]
      /\ UNCHANGED <<err, scene, table, filter, laggy, buried>>
      /\ ~Running(c)
  BY DEF RunAction, MutateStart
<1>5. fetch' \in [Keys -> Fetches] /\ \A k \in Keys : fetch'[k].read = fetch[k].read
  <2> DEFINE f == [fetch[filter] EXCEPT !.void = @ \/ fetch[filter].pc # "none"]
  <2>1. fetch' = [fetch EXCEPT ![filter] = f]
    BY <1>1 DEF RunAction, MutateStart
  <2>2. fetch[filter] \in Fetches /\ fetch[filter].void \in BOOLEAN
    BY <1>1 DEF Fetches
  <2>3. f \in Fetches /\ f.read = fetch[filter].read
    BY <2>2, FetchesTyped
  <2> HIDE DEF f
  <2>4. QED
    BY <1>1, <2>1, <2>3
<1>6. /\ command'[c] = [pc |-> "running", action |-> action, key |-> filter,
                        targets |-> targets, todo |-> targets, failed |-> {}, base |-> base,
                        alone |-> \A e \in Commands : ~Running(e)]
      /\ command'[c] \in CommandStates
  <2>1. command'[c] = [pc |-> "running", action |-> action, key |-> filter,
                       targets |-> targets, todo |-> targets, failed |-> {}, base |-> base,
                       alone |-> \A e \in Commands : ~Running(e)]
    BY DEF RunAction
  <2>2. (\A e \in Commands : ~Running(e)) \in BOOLEAN
    BY Zenon
  <2> HIDE DEF base
  <2>3. QED
    BY <1>1, <1>2, <2>1, <2>2 DEF CommandStates
<1>7. ASSUME NEW d \in Commands \ {c}
      PROVE  /\ command'[d] \in CommandStates /\ ~command'[d].alone
             /\ command'[d].pc = command[d].pc /\ command'[d].action = command[d].action
             /\ command'[d].key = command[d].key /\ command'[d].base = command[d].base
             /\ command'[d].targets = command[d].targets /\ command'[d].todo = command[d].todo
             /\ command'[d].failed = command[d].failed
  <2>1. command'[d] = [command[d] EXCEPT !.alone = FALSE] /\ command[d] \in CommandStates
    BY <1>1 DEF RunAction
  <2>2. QED
    BY <2>1, CommandsTyped
<1> HIDE DEF base, result
<1>8. TypeOK'
  <2>1. command' \in [Commands -> CommandStates]
    <3>1. DOMAIN command' = Commands /\ command' = [d \in Commands |-> command'[d]]
      BY DEF RunAction
    <3>2. QED
      BY <1>6, <1>7, <3>1
  <2>2. QED
    BY <1>1, <1>2, <1>3, <1>4, <1>5, <2>1
       DEF TypeOK, CacheTypeOK, Fetches, CommandStates
<1>9. BuriedAreGone'
  <2>1. ASSUME NEW l \in Keys
        PROVE  /\ data'[l] # NULL => buried[l] \cap DOMAIN data'[l] = {}
               /\ committed'[l] # NULL => buried[l] \cap DOMAIN committed'[l] = {}
    BY <1>1, <1>2, <1>3, <1>4 DEF BuriedAreGone
  <2>2. ASSUME NEW l \in Keys, NEW d \in Commands, Running(d)', command'[d].key = l,
               command'[d].base # NULL
        PROVE  buried[l] \cap DOMAIN command'[d].base = {}
    <3>1. CASE d = c
      BY <1>2, <1>6, <2>2, <3>1 DEF BuriedAreGone
    <3>2. CASE d # c
      BY <1>7, <2>2, <3>2 DEF BuriedAreGone, Running
    <3>3. QED
      BY <3>1, <3>2
  <2>3. QED
    BY <1>4, <1>5, <2>1, <2>2 DEF BuriedAreGone
<1>10. AloneIsLatest'
  BY <1>1, <1>4, <1>6, <1>7 DEF AloneIsLatest, Running
<1>11. ConfirmedAreGone'
  BY <1>4, <1>6, <1>7 DEF ConfirmedAreGone, Running
<1>12. QED
  BY <1>8, <1>9, <1>10, <1>11

(* The workers, and the calls of the commands, add no row to the table.    *)
LEMMA TableKeepsInv ==
  ASSUME ExplorerInv,
         \/ \E j \in Jobs : Work(j)
         \/ \E c \in Commands, j \in Jobs : CallReturns(c, j)
  PROVE  ExplorerInv'
<1> USE DEF ExplorerInv
<1>1. table \in Listing /\ command \in [Commands -> CommandStates]
  BY DEF TypeOK, CommandStates
<1>2. ASSUME NEW j \in Jobs, Work(j) PROVE ExplorerInv'
  <2>1. table' \in Listing /\ DOMAIN table' \subseteq DOMAIN table
    <3>1. DOMAIN table \in SUBSET Jobs /\ table \in [DOMAIN table -> Status]
      BY <1>1, Listings
    <3>2. CASE ServerEffect("delete", j)
      BY <1>1, <3>2, EffectsShrink DEF ServerEffect
    <3>3. CASE \E s \in Status : table' = [table EXCEPT ![j] = s]
      BY <3>1, <3>3, Listings
    <3>4. QED
      BY <1>2, <3>2, <3>3 DEF Work, Status
  <2>2. UNCHANGED <<cache, scene, filter, laggy, command, latest, buried>>
    BY <1>2 DEF Work
  <2>3. TypeOK'
    BY <2>1, <2>2 DEF TypeOK, CacheTypeOK, cache
  <2>4. BuriedAreGone' /\ AloneIsLatest' /\ ConfirmedAreGone'
    BY <2>1, <2>2 DEF BuriedAreGone, AloneIsLatest, ConfirmedAreGone, Running, cache
  <2>5. QED
    BY <2>3, <2>4
<1>3. ASSUME NEW c \in Commands, NEW j \in Jobs, CallReturns(c, j) PROVE ExplorerInv'
  <2> DEFINE action == command[c].action
  <2>0. command[c] \in CommandStates /\ action \in {"retry", "cancel", "delete"}
    BY <1>1 DEF CommandStates
  <2>1. /\ Running(c) /\ j \in command[c].todo
        /\ UNCHANGED <<cache, scene, filter, laggy, latest, buried>>
    BY <1>3 DEF CallReturns
  <2>2. table' \in Listing /\ DOMAIN table' \subseteq DOMAIN table
    BY <1>1, <1>3, <2>0, EffectsShrink DEF CallReturns, ServerEffect
  <2>3. PICK e \in CommandStates :
          /\ command' = [command EXCEPT ![c] = e]
          /\ e.pc = command[c].pc /\ e.action = action /\ e.key = command[c].key
          /\ e.base = command[c].base /\ e.alone = command[c].alone
          /\ e.targets = command[c].targets /\ e.todo = command[c].todo \ {j}
          /\ \/ e.failed = command[c].failed /\ ServerEffect(action, j)
             \/ e.failed = command[c].failed \cup {j}
    <3>1. CASE /\ command' = [command EXCEPT ![c].todo = @ \ {j}]
               /\ ServerEffect(action, j)
      <4> DEFINE e == [command[c] EXCEPT !.todo = @ \ {j}]
      <4>1. /\ e \in CommandStates
            /\ e.pc = command[c].pc /\ e.action = action /\ e.key = command[c].key
            /\ e.base = command[c].base /\ e.alone = command[c].alone
            /\ e.targets = command[c].targets /\ e.todo = command[c].todo \ {j}
            /\ e.failed = command[c].failed
        BY ONLY <2>0 DEF CommandStates
      <4>2. command' = [command EXCEPT ![c] = e]
        BY ONLY <1>1, <3>1
      <4> HIDE DEF e
      <4>3. QED
        BY <3>1, <4>1, <4>2
    <3>2. CASE command' = [command EXCEPT ![c].todo = @ \ {j}, ![c].failed = @ \cup {j}]
      <4> DEFINE e == [command[c] EXCEPT !.todo = @ \ {j}, !.failed = @ \cup {j}]
      <4>1. /\ e \in CommandStates
            /\ e.pc = command[c].pc /\ e.action = action /\ e.key = command[c].key
            /\ e.base = command[c].base /\ e.alone = command[c].alone
            /\ e.targets = command[c].targets /\ e.todo = command[c].todo \ {j}
            /\ e.failed = command[c].failed \cup {j}
        BY ONLY <2>0, j \in Jobs DEF CommandStates
      <4>2. command' = [command EXCEPT ![c] = e]
        BY ONLY <1>1, <3>2
      <4> HIDE DEF e
      <4>3. QED
        BY <4>1, <4>2
    <3>3. QED
      BY <1>3, <3>1, <3>2 DEF CallReturns
  <2>4. command' \in [Commands -> CommandStates] /\ command'[c] = e
        /\ \A d \in Commands \ {c} : command'[d] = command[d]
    BY <1>1, <2>3
  <2>5. TypeOK'
    BY <2>1, <2>2, <2>4 DEF TypeOK, CacheTypeOK, cache, CommandStates
  <2>6. \A d \in Commands : /\ command'[d].pc = command[d].pc /\ command'[d].key = command[d].key
                            /\ command'[d].base = command[d].base
                            /\ command'[d].alone = command[d].alone
    BY <2>3, <2>4
  <2>7. BuriedAreGone' /\ AloneIsLatest'
    BY <2>1, <2>2, <2>6 DEF BuriedAreGone, AloneIsLatest, Running, cache
  <2>8. ConfirmedAreGone'
    <3> SUFFICES ASSUME NEW d \in Commands, Running(d)', command'[d].action = "delete"
                 PROVE  (command'[d].targets \ (command'[d].todo \cup command'[d].failed))
                          \cap DOMAIN table' = {}
      BY DEF ConfirmedAreGone
    <3>1. CASE d # c
      BY <2>2, <2>4, <3>1 DEF ConfirmedAreGone, Running
    <3>2. CASE d = c /\ e.failed = command[c].failed \cup {j}
      BY <2>1, <2>2, <2>3, <2>4, <3>2 DEF ConfirmedAreGone, Running
    <3>3. CASE d = c /\ e.failed = command[c].failed /\ ServerEffect(action, j)
      <4>1. action = "delete" /\ j \notin DOMAIN table'
        BY <1>1, <2>0, <2>3, <2>4, <3>3, EffectsShrink DEF ServerEffect
      <4>2. QED
        BY <2>1, <2>2, <2>3, <2>4, <3>3, <4>1 DEF ConfirmedAreGone, Running
    <3>4. QED
      BY <2>3, <3>1, <3>2, <3>3
  <2>9. QED
    BY <2>5, <2>7, <2>8
<1>4. QED
  BY <1>2, <1>3

(* A command ends: what it buries was confirmed, and the command is the    *)
(* last of its key, so that nothing else is left to show it.               *)
LEMMA FinishKeepsInv ==
  ASSUME ExplorerInv, NEW c \in Commands, Finish(c)
  PROVE  ExplorerInv'
<1> DEFINE k == command[c].key
           action == command[c].action
           base == command[c].base
           failed == command[c].failed # {}
           result == IF failed THEN base ELSE ApplyJobAction(base, action, command[c].targets)
           buries == action = "delete" /\ ~failed /\ command[c].alone
<1> USE DEF ExplorerInv
<1>1. /\ data \in [Keys -> Listing \cup {NULL}] /\ committed \in [Keys -> Listing \cup {NULL}]
      /\ fetch \in [Keys -> Fetches] /\ command \in [Commands -> CommandStates]
      /\ latest \in [Keys -> Commands \cup {NULL}] /\ err \in [Keys -> BOOLEAN]
      /\ buried \in [Keys -> SUBSET Jobs]
  BY DEF TypeOK, CacheTypeOK, Fetches, CommandStates
<1>2. /\ command[c] \in CommandStates
      /\ k \in Keys /\ action \in {"retry", "cancel", "delete"}
      /\ base \in Listing \cup {NULL} /\ command[c].targets \in SUBSET Jobs
  BY <1>1 DEF CommandStates
<1>3. /\ result \in Listing \cup {NULL}
      /\ result # NULL => \/ base = NULL /\ DOMAIN result = {}
                          \/ base # NULL /\ DOMAIN result \subseteq DOMAIN base
      /\ result # NULL /\ buries => command[c].targets \cap DOMAIN result = {}
  <2> HIDE DEF k
  <2>1. CASE failed
    BY <1>2, <2>1
  <2>2. CASE ~failed /\ base = NULL
    BY <1>2, <2>2, Listings DEF ApplyJobAction
  <2>3. CASE ~failed /\ base # NULL
    BY <1>2, <2>3, EffectsShrink DEF ApplyJobAction
  <2>4. QED
    BY <2>1, <2>2, <2>3
<1>4. /\ Running(c) /\ command[c].todo = {}
      /\ command' = [command EXCEPT ![c] = NoCommand]
      /\ UNCHANGED <<scene, table, filter, laggy>>
      /\ buried' = [buried EXCEPT ![k] = IF buries THEN @ \cup command[c].targets ELSE @]
      /\ IF latest[k] = c
           THEN MutateEnd(k, result, failed) /\ latest' = [latest EXCEPT ![k] = NULL]
           ELSE UNCHANGED <<cache, latest>>
  BY DEF Finish
<1>5. /\ command' \in [Commands -> CommandStates] /\ ~Running(c)'
      /\ \A d \in Commands \ {c} : command'[d] = command[d]
  BY <1>1, <1>4, CommandsTyped DEF Running
<1>6. buries => /\ command[c].targets \cap DOMAIN table = {} /\ latest[k] = c
                /\ \A d \in Commands : ~Running(d)'
  BY <1>4, <1>5 DEF ConfirmedAreGone, AloneIsLatest, Running
<1>7. CASE latest[k] = c
  <2>1. /\ data' = [data EXCEPT ![k] = result]
        /\ committed' = [committed EXCEPT ![k] = NULL]
        /\ err' = [err EXCEPT ![k] = failed /\ @]
        /\ fetch' = [fetch EXCEPT ![k] = Asked(FALSE)]
        /\ latest' = [latest EXCEPT ![k] = NULL]
    BY <1>4, <1>7 DEF MutateEnd
  <2>2. Asked(FALSE) \in Fetches /\ Asked(FALSE).read = NULL
    BY FetchesTyped
  <2> HIDE DEF result, buries, failed, base, action
  <2>3. TypeOK'
    <3>1. /\ data' \in [Keys -> Listing \cup {NULL}] /\ committed' \in [Keys -> Listing \cup {NULL}]
          /\ fetch' \in [Keys -> Fetches]
          /\ latest' \in [Keys -> Commands \cup {NULL}]
      BY <1>1, <1>2, <1>3, <2>1, <2>2
    <3>2. buried' \in [Keys -> SUBSET Jobs]
      BY <1>1, <1>2, <1>4
    <3>3. err' \in [Keys -> BOOLEAN]
      BY <1>1, <2>1 DEF failed
    <3>4. QED
      BY <1>4, <1>5, <3>1, <3>2, <3>3 DEF TypeOK, CacheTypeOK, Fetches, CommandStates
  <2>4. BuriedAreGone'
    <3> SUFFICES ASSUME NEW l \in Keys
                 PROVE  /\ buried'[l] \cap DOMAIN table' = {}
                        /\ data'[l] # NULL => buried'[l] \cap DOMAIN data'[l] = {}
                        /\ committed'[l] # NULL => buried'[l] \cap DOMAIN committed'[l] = {}
                        /\ fetch'[l].read # NULL => buried'[l] \cap DOMAIN fetch'[l].read = {}
                        /\ \A d \in Commands :
                             (Running(d)' /\ command'[d].key = l /\ command'[d].base # NULL)
                               => buried'[l] \cap DOMAIN command'[d].base = {}
      BY DEF BuriedAreGone
    <3>1. CASE l # k
      <4>1. /\ buried'[l] = buried[l] /\ data'[l] = data[l] /\ committed'[l] = committed[l]
            /\ fetch'[l] = fetch[l] /\ table' = table
        BY <1>1, <1>4, <2>1, <3>1
      <4>2. QED
        BY <1>5, <4>1 DEF BuriedAreGone, Running
    <3>2. CASE l = k
      <4>1. /\ buried'[k] = (IF buries THEN buried[k] \cup command[c].targets ELSE buried[k])
            /\ data'[k] = result /\ committed'[k] = NULL /\ fetch'[k].read = NULL
            /\ table' = table
        BY <1>1, <1>2, <1>4, <2>1, <2>2
      <4>2. base # NULL => buried[k] \cap DOMAIN base = {}
        BY <1>2, <1>4 DEF BuriedAreGone, base
      <4>3. buried'[k] \cap DOMAIN table' = {}
        BY <1>2, <1>6, <4>1 DEF BuriedAreGone
      <4>4. result # NULL => buried'[k] \cap DOMAIN result = {}
        BY <1>3, <4>1, <4>2
      <4>5. ASSUME NEW d \in Commands, Running(d)', command'[d].key = k, command'[d].base # NULL
            PROVE  buried'[k] \cap DOMAIN command'[d].base = {}
        <5>1. d # c /\ command'[d] = command[d] /\ Running(d)
          BY <1>5, <4>5 DEF Running
        <5>2. ~buries
          BY <1>6, <4>5
        <5>3. QED
          BY <4>1, <4>5, <5>1, <5>2, <1>2 DEF BuriedAreGone
      <4>6. QED
        BY <3>2, <4>1, <4>3, <4>4, <4>5
    <3>3. QED
      BY <3>1, <3>2
  <2>5. AloneIsLatest'
    <3>1. ASSUME NEW d \in Commands, Running(d)', command'[d].alone PROVE FALSE
      <4>1. d # c /\ Running(d) /\ command[d].alone
        BY <1>5, <3>1 DEF Running
      <4>2. QED
        BY <1>4, <4>1 DEF AloneIsLatest
    <3>2. QED
      BY <3>1 DEF AloneIsLatest
  <2>6. ConfirmedAreGone'
    BY <1>4, <1>5 DEF ConfirmedAreGone, Running
  <2>7. QED
    BY <2>3, <2>4, <2>5, <2>6
<1>8. CASE latest[k] # c
  <2>1. ~buries
    BY <1>6, <1>8
  <2>2. UNCHANGED <<cache, latest>> /\ buried' = buried
    BY <1>1, <1>4, <1>8, <2>1
  <2> HIDE DEF buries, k
  <2>3. TypeOK'
    BY <1>4, <1>5, <2>2 DEF TypeOK, CacheTypeOK, CommandStates, cache
  <2>4. BuriedAreGone' /\ AloneIsLatest' /\ ConfirmedAreGone'
    BY <1>4, <1>5, <2>2 DEF BuriedAreGone, AloneIsLatest, ConfirmedAreGone, Running, cache
  <2>5. QED
    BY <2>3, <2>4
<1>9. QED
  BY <1>7, <1>8

(* Every step of the explorer keeps the invariant.                         *)
LEMMA ExplorerInductive == ExplorerInv /\ [Next]_explorerPage => ExplorerInv'
<1>1. ASSUME ExplorerInv, NEW c \in Commands, UserCommand(c) PROVE ExplorerInv'
  <2>1. DOMAIN Rows \in SUBSET Jobs
    <3>1. Rows \in Listing
      BY <1>1, Listings DEF ExplorerInv, TypeOK, CacheTypeOK, Rows, Shown
    <3>2. QED
      BY <3>1, Listings
  <2>2. \A S \in SUBSET DOMAIN Rows : /\ S \in SUBSET Jobs /\ Retryable(S) \in SUBSET Jobs
                                      /\ Cancellable(S) \in SUBSET Jobs
    BY <2>1 DEF Retryable, Cancellable
  <2>3. QED
    BY <1>1, <2>2, RunActionKeepsInv DEF UserCommand
<1>2. ASSUME ExplorerInv, UNCHANGED explorerPage PROVE ExplorerInv'
  <2> USE <1>2 DEF explorerPage, cache, ExplorerInv
  <2>1. TypeOK'
    BY DEF TypeOK, CacheTypeOK
  <2>2. BuriedAreGone' /\ AloneIsLatest' /\ ConfirmedAreGone'
    BY DEF BuriedAreGone, AloneIsLatest, ConfirmedAreGone, Running
  <2>3. QED
    BY <2>1, <2>2
<1>3. QED
  BY <1>1, <1>2, ReadingKeepsInv, TableKeepsInv, FinishKeepsInv DEF Next, CommandStep

(* The explorer keeps its invariant, whichever page is mounted.            *)
THEOREM ExplorerInvariant == PagesSpec => []ExplorerInv
<1>1. ExplorerInv /\ [PagesNext]_allVars => ExplorerInv'
  <2>1. [PagesNext]_allVars => [Next]_explorerPage
    BY DEF PagesNext, Explore, Turn, Fill, Choose, allVars
  <2>2. QED
    BY <2>1, ExplorerInductive
<1>2. QED
  BY <1>1, ExplorerStarts, PTL DEF PagesSpec

(* A job deleted by a command with the listing for itself never shows in   *)
(* it again (runAction, applyJobAction).                                   *)
THEOREM SettledDeleteAlwaysHidden == PagesSpec => []SettledDeleteStaysHidden
<1>1. ExplorerInv => SettledDeleteStaysHidden
  BY DEF ExplorerInv, BuriedAreGone, SettledDeleteStaysHidden
<1>2. QED
  BY <1>1, ExplorerInvariant, PTL

(* The menu of an up-to-date row offers what the API accepts               *)
(* (lib/job-actions.ts, handler/job.go).                                   *)
THEOREM OfferedAlwaysAccepted == PagesSpec => []OfferedCommandAccepted
<1>1. ExplorerInv => OfferedCommandAccepted
  <2> SUFFICES ASSUME ExplorerInv, data[filter] = Listed(filter), NEW j \in DOMAIN Rows
               PROVE  /\ CanRetry(Rows[j])  => Accepts("retry", table[j])
                      /\ CanCancel(Rows[j]) => Accepts("cancel", table[j])
    BY DEF OfferedCommandAccepted
  <2>1. table \in Listing
    BY DEF ExplorerInv, TypeOK
  <2>2. Rows = Listed(filter)
    BY <2>1, ListedShrinks, NullIsNoListing DEF Rows, Shown
  <2>3. Rows[j] = table[j]
    BY <2>2 DEF Listed
  <2>4. QED
    BY <2>3 DEF CanRetry, CanCancel, Accepts
<1>2. QED
  BY <1>1, ExplorerInvariant, PTL

-----------------------------------------------------------------------------
(* What the explorer shows ahead of the API, and each answer it will drop, *)
(* is held by a command of the key that is running, and whose end will     *)
(* settle the value and fetch again: a mutation that another one replaced, *)
(* or whose slot is used anew, leaves nothing behind (runAction).          *)
HeldByCommand ==
  \A k \in Keys :
    /\ latest[k] # NULL => Running(latest[k]) /\ command[latest[k]].key = k
    /\ committed[k] # NULL \/ fetch[k].void => latest[k] # NULL

(* Every step of the explorer keeps it.                                    *)
LEMMA HeldStays ==
  ExplorerInv /\ ExplorerInv' /\ HeldByCommand /\ [Next]_explorerPage => HeldByCommand'
<1> SUFFICES ASSUME ExplorerInv, ExplorerInv', HeldByCommand, [Next]_explorerPage
             PROVE  HeldByCommand'
  OBVIOUS
<1>1. /\ fetch \in [Keys -> Fetches] /\ command \in [Commands -> CommandStates]
      /\ committed \in [Keys -> Listing \cup {NULL}]
      /\ latest \in [Keys -> Commands \cup {NULL}] /\ filter \in Keys
  BY DEF ExplorerInv, TypeOK, CacheTypeOK, Fetches, CommandStates
<1>2. ASSUME UNCHANGED <<committed, command, latest>>,
             \A k \in Keys : fetch'[k].void => fetch[k].void \/ Busy(k)
      PROVE  HeldByCommand'
  BY <1>2 DEF HeldByCommand, Running, Busy
<1>3. ASSUME NEW k \in Keys, NEW f \in Fetches, fetch' = [fetch EXCEPT ![k] = f],
             f.void => fetch[k].void \/ Busy(k), UNCHANGED <<committed, command, latest>>
      PROVE  HeldByCommand'
  BY <1>1, <1>2, <1>3
<1>4. ASSUME NEW k \in Keys, Revalidate(k, Busy(k)), UNCHANGED <<committed, command, latest>>
      PROVE  HeldByCommand'
  <2>1. Asked(Busy(k)) \in Fetches /\ Asked(Busy(k)).void = Busy(k)
    BY DEF Asked, Fetches, Busy
  <2>2. QED
    BY <1>3, <1>4, <2>1 DEF Revalidate
<1>5. CASE Refresh
  BY <1>1, <1>4, <1>5 DEF Refresh
<1>6. ASSUME NEW k \in Keys, SetFilter(k) PROVE HeldByCommand'
  BY <1>2, <1>4, <1>6 DEF SetFilter, Revalidate
<1>7. ASSUME NEW k \in Keys, Fetching(k) PROVE HeldByCommand'
  <2>1. CASE ServerReads(k, Listed(k))
    <3>1. Listed(k) \in Listing /\ fetch[k] \in Fetches
      BY <1>1, ListedShrinks DEF ExplorerInv, TypeOK
    <3>2. ASSUME NEW f \in Fetches, NEW r \in Listing
          PROVE  LET g == [f EXCEPT !.pc = "read", !.read = r] IN g \in Fetches /\ g.void = f.void
      BY ONLY TRUE DEF Fetches
    <3> DEFINE g == [fetch[k] EXCEPT !.pc = "read", !.read = Listed(k)]
    <3>3. g \in Fetches /\ g.void = fetch[k].void
      BY <3>1, <3>2
    <3>4. fetch' = [fetch EXCEPT ![k] = g] /\ UNCHANGED <<committed, command, latest>>
      BY <1>1, <1>7, <2>1 DEF ServerReads, Fetching
    <3> HIDE DEF g
    <3>5. QED
      BY <1>3, <3>3, <3>4
  <2>2. CASE Arrive(k) \/ FetchFails(k)
    <3>1. NoFetch \in Fetches /\ ~NoFetch.void
      BY DEF NoFetch, Fetches
    <3>2. QED
      BY <1>3, <1>7, <2>2, <3>1 DEF Arrive, FetchFails, Fetching
  <2>3. CASE PollListing(k)
    BY <1>4, <1>7, <2>3 DEF PollListing, Poll, Fetching
  <2>4. QED
    BY <1>7, <2>1, <2>2, <2>3 DEF Fetching, FetchStep
<1>8. ASSUME NEW c \in Commands, UserCommand(c) PROVE HeldByCommand'
  <2>1. PICK action \in {"retry", "cancel", "delete"} : \E S : RunAction(c, action, S)
    BY <1>8 DEF UserCommand
  <2>2. /\ latest' = [latest EXCEPT ![filter] = c] /\ ~Running(c)
        /\ \A k \in Keys \ {filter} : fetch'[k] = fetch[k] /\ committed'[k] = committed[k]
    BY <1>1, <2>1 DEF RunAction, MutateStart
  <2>3. command'[c].pc = "running" /\ command'[c].key = filter
    BY <2>1 DEF RunAction
  <2>4. ASSUME NEW d \in Commands \ {c}
        PROVE  command'[d].pc = command[d].pc /\ command'[d].key = command[d].key
    <3>1. command'[d] = [command[d] EXCEPT !.alone = FALSE] /\ command[d] \in CommandStates
      BY <1>1, <2>1 DEF RunAction
    <3>2. ASSUME NEW r \in CommandStates
          PROVE  [r EXCEPT !.alone = FALSE].pc = r.pc /\ [r EXCEPT !.alone = FALSE].key = r.key
      BY ONLY TRUE DEF CommandStates
    <3>3. QED
      BY <3>1, <3>2
  <2>5. ASSUME NEW k \in Keys
        PROVE  /\ latest'[k] # NULL => /\ command'[latest'[k]].pc = "running"
                                       /\ command'[latest'[k]].key = k
               /\ committed'[k] # NULL \/ fetch'[k].void => latest'[k] # NULL
    <3>1. CASE k = filter
      BY <1>1, <2>2, <2>3, <3>1, ExplorerParameters
    <3>2. CASE k # filter
      <4>1. latest'[k] = latest[k] /\ fetch'[k] = fetch[k] /\ committed'[k] = committed[k]
        BY <1>1, <2>2, <3>2
      <4>2. latest[k] # NULL => latest[k] \in Commands \ {c}
        BY <1>1, <2>2 DEF HeldByCommand, Running
      <4>3. QED
        BY <2>4, <4>1, <4>2 DEF HeldByCommand, Running
    <3>3. QED
      BY <3>1, <3>2
  <2>6. QED
    BY <2>5 DEF HeldByCommand, Running
<1>9. ASSUME NEW c \in Commands, NEW j \in Jobs, CallReturns(c, j) PROVE HeldByCommand'
  <2>1. UNCHANGED <<committed, latest, fetch>>
    BY <1>9 DEF CallReturns, cache
  <2>2. ASSUME NEW d \in Commands
        PROVE  command'[d].pc = command[d].pc /\ command'[d].key = command[d].key
    <3>1. \/ command' = [command EXCEPT ![c].todo = @ \ {j}]
          \/ command' = [command EXCEPT ![c].todo = @ \ {j}, ![c].failed = @ \cup {j}]
      BY <1>9 DEF CallReturns
    <3>2. CASE d # c
      BY ONLY <1>1, <3>1, <3>2, c \in Commands, d \in Commands
    <3>3. CASE d = c
      <4>1. command \in [Commands -> CommandStates] /\ c \in Commands
        BY <1>1
      <4>2. CASE command' = [command EXCEPT ![c].todo = @ \ {j}]
        BY ONLY <4>1, <4>2, <3>3 DEF CommandStates
      <4>3. CASE command' = [command EXCEPT ![c].todo = @ \ {j}, ![c].failed = @ \cup {j}]
        BY ONLY <4>1, <4>3, <3>3 DEF CommandStates
      <4>4. QED
        BY <3>1, <4>2, <4>3
    <3>4. QED
      BY <3>2, <3>3
  <2>3. QED
    BY <1>1, <2>1, <2>2 DEF HeldByCommand, Running
<1>10. ASSUME NEW c \in Commands, Finish(c) PROVE HeldByCommand'
  <2>1. Running(c) /\ \A d \in Commands \ {c} : command'[d] = command[d]
    BY <1>1, <1>10 DEF Finish
  <2>2. PICK k \in Keys : k = command[c].key
    BY <1>1 DEF CommandStates
  <2>3. c # NULL /\ \A l \in Keys : latest[l] = c => l = k
    BY <2>2, ExplorerParameters DEF HeldByCommand
  <2>4. CASE latest[k] = c
    <3>1. /\ latest' = [latest EXCEPT ![k] = NULL]
          /\ committed' = [committed EXCEPT ![k] = NULL]
          /\ fetch' = [fetch EXCEPT ![k] = Asked(FALSE)]
      BY <1>10, <2>2, <2>4 DEF Finish, MutateEnd
    <3>2. ASSUME NEW l \in Keys \ {k}
          PROVE  /\ latest'[l] = latest[l] /\ latest[l] # c
                 /\ committed'[l] = committed[l] /\ fetch'[l] = fetch[l]
      BY <1>1, <2>3, <3>1
    <3>3. latest'[k] = NULL /\ committed'[k] = NULL /\ ~fetch'[k].void
      BY <1>1, <3>1 DEF Asked
    <3>4. QED
      BY <1>1, <2>1, <3>2, <3>3 DEF HeldByCommand, Running
  <2>5. CASE latest[k] # c
    <3>1. UNCHANGED <<latest, committed, fetch>>
      BY <1>10, <2>2, <2>5 DEF Finish, cache
    <3>2. \A l \in Keys : latest[l] # c
      BY <2>3, <2>5
    <3>3. QED
      BY <1>1, <2>1, <3>1, <3>2 DEF HeldByCommand, Running
  <2>6. QED
    BY <2>4, <2>5
<1>11. ASSUME NEW j \in Jobs, Work(j) PROVE HeldByCommand'
  BY <1>2, <1>11 DEF Work, cache
<1>12. CASE UNCHANGED explorerPage
  BY <1>2, <1>12 DEF explorerPage, cache
<1>13. QED
  BY <1>5, <1>6, <1>7, <1>8, <1>9, <1>10, <1>11, <1>12 DEF Next, CommandStep

(* No optimistic value and no dropped answer is left to itself: the safety *)
(* that the convergence of the listing rests on (runAction, Finish).       *)
THEOREM OptimismIsHeld == PagesSpec => []HeldByCommand
<1>1. PagesInit => HeldByCommand
  <2> SUFFICES ASSUME PagesInit, NEW k \in Keys
               PROVE  latest[k] = NULL /\ committed[k] = NULL /\ ~fetch[k].void
    BY DEF HeldByCommand
  <2>1. CacheInit /\ latest = [l \in Keys |-> NULL]
    BY DEF PagesInit, Init
  <2>2. QED
    BY <2>1 DEF CacheInit, NoFetch
<1>2. ExplorerInv /\ ExplorerInv' /\ HeldByCommand /\ [PagesNext]_allVars => HeldByCommand'
  <2>1. [PagesNext]_allVars => [Next]_explorerPage
    BY DEF PagesNext, Explore, Turn, Fill, Choose, allVars
  <2>2. QED
    BY <2>1, HeldStays
<1>3. QED
  BY <1>1, <1>2, ExplorerInvariant, PTL DEF PagesSpec

-----------------------------------------------------------------------------
(* Every page is in one of its states, whichever is mounted.               *)
THEOREM PagesTypes == PagesSpec => []PagesTypeOK
<1>1. PagesInit => route \in Routes
  BY DEF PagesInit
<1>2. route \in Routes /\ [PagesNext]_allVars => (route \in Routes)'
  BY DEF PagesNext, Explore, Turn, Fill, Choose, allVars
<1>3. route \in Routes /\ ExplorerInv /\ PagerInv /\ DialogInv /\ WorkspaceInv => PagesTypeOK
  BY DEF ExplorerInv, PagerInv, DialogInv, WorkspaceInv, PagesTypeOK
<1>4. QED
  BY <1>1, <1>2, <1>3, ExplorerInvariant, PagerInvariant, DialogInvariant, WorkspaceInvariant, PTL
     DEF PagesSpec
=============================================================================
