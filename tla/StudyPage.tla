----------------------------- MODULE StudyPage -----------------------------
(***************************************************************************)
(* The page of a study in the researcher's browser: the URL (sceneLogic),  *)
(* the loaded study (studyLogic) and the tabs that edit it, of which one   *)
(* is mounted: the brief wizard, the settings and the recruitment plan.    *)
(*                                                                         *)
(* A draft follows the study: whenever a study is loaded, every draft of   *)
(* the mounted tab is overwritten with its fields.  Loads and saves are    *)
(* requests in flight; the server serves them, and the browser hears of    *)
(* it, in any order.                                                       *)
(*                                                                         *)
(* A text is known by the study it was written for and by the edit that    *)
(* wrote it.  Left out: validation of the brief (an invalid form stays),   *)
(* the list of broadcasts, the other tabs, which are one here.             *)
(***************************************************************************)
EXTENDS Naturals

CONSTANTS
  Study,        \* identifiers
  None,
  MaxEdits,     \* bound on texts typed
  MaxRequests,  \* bound on requests in flight
  Patient       \* the researcher waits for every answer before the next click

ASSUME StudyPageAssumption ==
  /\ MaxEdits \in Nat
  /\ MaxRequests \in Nat
  /\ Patient \in BOOLEAN

VARIABLES
  db,        \* the studies on the server
  url,       \* sceneParams: the study, or None on another page, and the tab
  study,     \* studyLogic: the record that was loaded last
  draft,     \* of the mounted tab; a field of another tab is blank
  step,      \* of the brief wizard
  editing,   \* section of the settings that is being edited, or None
  saving,    \* isBriefSubmitting, isSavingSettings, savedAtLoading
  launching,
  requests,  \* in flight
  edits

vars == <<db, url, study, draft, step, editing, saving, launching, requests, edits>>

tabState == <<draft, step, editing, saving, launching>>

-----------------------------------------------------------------------------

Tab == {"brief", "settings", "recruit", "other"}

(* The drafts of a tab; settings keeps one per section. *)
Fields == [brief |-> {"brief"}, settings |-> {"name", "objectives"},
           recruit |-> {"plan"}, other |-> {}]

Field == {"brief", "name", "objectives", "plan"}

Text == [of : Study, edit : 0 .. MaxEdits]

Record == [Field -> Text]

Done == 5   \* WIZARD_STEPS: goal, mode, plan, review, done
Review == 4

Loaded == [id : Study, record : Record]

(* None is none of the values it stands beside. *)
ASSUME NoneAssumption == None \notin Study \cup Text \cup Loaded

(* A load carries the record once the server has read it; a save carries   *)
(* the fields it patches and the drafts they come from.                    *)
Load == [id : 1 .. MaxRequests, kind : {"load"}, study : Study, record : Record \cup {None}]
Save == [id : 1 .. MaxRequests, kind : {"save"}, study : Study, tab : Tab,
         draft : [Field -> Text \cup {None}], served : BOOLEAN]
Launch == [id : 1 .. MaxRequests, kind : {"launch"}, study : Study]

FreeIds(rs) == (1 .. MaxRequests) \ {r.id : r \in rs}

Blank == [f \in Field |-> None]

(* hydrateFromStudy of the mounted tab *)
Hydrated(tab, record) == [f \in Field |-> IF f \in Fields[tab] THEN record[f] ELSE None]

Init ==
  /\ db = [s \in Study |-> [f \in Field |-> [of |-> s, edit |-> 0]]]
  /\ url = [study |-> None, tab |-> "other"]
  /\ study = None
  /\ draft = Blank
  /\ step = 1
  /\ editing = None
  /\ saving = FALSE
  /\ launching = FALSE
  /\ requests = {}
  /\ edits = 0

(* loadStudy asks for the study of the URL.  Without one nothing is asked. *)
LoadStudy(u, rs) ==
  IF u.study = None
    THEN requests' = rs
    ELSE \E i \in FreeIds(rs) :
           /\ \A j \in FreeIds(rs) : i <= j
           /\ requests' = rs \cup
                {[id |-> i, kind |-> "load", study |-> u.study, record |-> None]}

Clicks == Patient => requests = {}

-----------------------------------------------------------------------------
(* Navigation *)

(* setScene: a study other than the loaded one is asked for; until it has  *)
(* come the old one stays.  A tab that leaves loses its drafts; one that   *)
(* comes shows the study that is there.                                    *)
Open(s, tab) ==
  /\ Clicks
  /\ url' = [study |-> s, tab |-> tab]
  /\ IF study = None THEN LoadStudy(url', requests)
     ELSE IF study.id # s THEN LoadStudy(url', requests)
     ELSE UNCHANGED requests
  /\ IF tab = url.tab /\ url.study # None
       THEN UNCHANGED tabState
       ELSE /\ draft' = IF study = None THEN Blank ELSE Hydrated(tab, study.record)
            /\ step' = 1 /\ editing' = None /\ saving' = FALSE /\ launching' = FALSE
  /\ UNCHANGED <<db, study, edits>>

(* Another page: the study is forgotten. *)
Leave ==
  /\ Clicks
  /\ url.study # None
  /\ url' = [study |-> None, tab |-> "other"]
  /\ study' = None
  /\ draft' = Blank
  /\ step' = 1 /\ editing' = None /\ saving' = FALSE /\ launching' = FALSE
  /\ UNCHANGED <<db, requests, edits>>

-----------------------------------------------------------------------------
(* Editing.  A tab shows its controls once there is a study. *)

Shows(tab) == url.study # None /\ url.tab = tab /\ study # None

Typed(f) ==
  /\ edits < MaxEdits
  /\ edits' = edits + 1
  /\ draft' = [draft EXCEPT ![f] = [of |-> study.id, edit |-> edits + 1]]
  /\ UNCHANGED <<db, url, study, step, editing, saving, launching, requests>>

TypeBrief(k) == Clicks /\ Shows("brief") /\ step = k /\ Typed("brief")

(* The steps of the wizard that have a form *)
StepGoal == TypeBrief(1)

StepMode == TypeBrief(2)

StepPlan == TypeBrief(3)

TypeSettings == Clicks /\ Shows("settings") /\ editing # None /\ Typed(editing)

TypePlan == Clicks /\ Shows("recruit") /\ Typed("plan")

GoToStep(k) ==
  /\ step' = k
  /\ UNCHANGED <<db, url, study, draft, editing, saving, launching, requests, edits>>

(* StepForwardButton before the review *)
Continue == Shows("brief") /\ step < Review /\ GoToStep(step + 1)

Back == Shows("brief") /\ step \in 2 .. Review /\ GoToStep(step - 1)

(* StepIndicator: a step that was passed.  "Edit again" is its first one. *)
ClickStep(k) == Shows("brief") /\ k < step /\ GoToStep(k)

StartEdit(section) ==
  /\ Shows("settings") /\ editing # section
  /\ editing' = section
  /\ UNCHANGED <<db, url, study, draft, step, saving, launching, requests, edits>>

(* Cancel closes the section and keeps its draft. *)
CancelEdit ==
  /\ Shows("settings") /\ editing # None /\ ~saving
  /\ editing' = None
  /\ UNCHANGED <<db, url, study, draft, step, saving, launching, requests, edits>>

-----------------------------------------------------------------------------
(* Saving *)

(* The fields that are sent: a name that was not changed is not. *)
Sent ==
  IF url.tab = "settings" /\ draft["name"] = study.record["name"]
    THEN [draft EXCEPT !["name"] = None] ELSE draft

SaveDraft(s) ==
  /\ Clicks /\ ~saving
  /\ saving' = TRUE
  /\ \E i \in FreeIds(requests) :
       /\ \A j \in FreeIds(requests) : i <= j
       /\ requests' = requests \cup
            {[id |-> i, kind |-> "save", study |-> s, tab |-> url.tab,
              draft |-> Sent, served |-> FALSE]}
  /\ UNCHANGED <<db, url, study, draft, step, editing, launching, edits>>

(* Wrong variant: to the study of the URL. *)
SubmitBriefToUrl == Shows("brief") /\ step = Review /\ SaveDraft(url.study)

(* The brief is saved to the study it shows ... *)
SubmitBrief == Shows("brief") /\ step = Review /\ SaveDraft(study.id)

(* ... settings and plan to the study of the URL. *)
SaveAll == Shows("settings") /\ editing # None /\ SaveDraft(url.study)

UnsavedPlan == draft["plan"] # study.record["plan"]

SaveRecruitmentPlan == Shows("recruit") /\ UnsavedPlan /\ SaveDraft(url.study)

(* "Start recruitment" is disabled while the plan is unsaved. *)
LaunchRecruitment ==
  /\ Clicks /\ Shows("recruit") /\ ~UnsavedPlan /\ ~launching
  /\ launching' = TRUE
  /\ \E i \in FreeIds(requests) :
       /\ \A j \in FreeIds(requests) : i <= j
       /\ requests' = requests \cup {[id |-> i, kind |-> "launch", study |-> url.study]}
  /\ UNCHANGED <<db, url, study, draft, step, editing, saving, edits>>

-----------------------------------------------------------------------------
(* The server *)

ServeLoad(r) ==
  /\ r \in requests /\ r.kind = "load" /\ r.record = None
  /\ requests' = (requests \ {r}) \cup {[r EXCEPT !.record = db[r.study]]}
  /\ UNCHANGED <<db, url, study, tabState, edits>>

ServeSave(r) ==
  /\ r \in requests /\ r.kind = "save" /\ ~r.served
  /\ db' = [db EXCEPT ![r.study] = [f \in Field |->
              IF f \in Fields[r.tab] /\ r.draft[f] # None THEN r.draft[f] ELSE @[f]]]
  /\ requests' = (requests \ {r}) \cup {[r EXCEPT !.served = TRUE]}
  /\ UNCHANGED <<url, study, tabState, edits>>

-----------------------------------------------------------------------------
(* Answers.  They reach the logics that are mounted by then. *)

(* Wrong variant: drafts are filled in once, with the first study. *)
LoadAnsweredOnce(r) ==
  /\ r \in requests /\ r.kind = "load" /\ r.record # None
  /\ requests' = requests \ {r}
  /\ IF url.study = None
       THEN UNCHANGED <<study, draft>>
       ELSE /\ study' = [id |-> r.study, record |-> r.record]
            /\ draft' = IF study = None THEN Hydrated(url.tab, r.record) ELSE draft
  /\ UNCHANGED <<db, url, step, editing, saving, launching, edits>>

(* loadStudySuccess, and the effects of the tab on [study] *)
LoadAnswered(r) ==
  /\ r \in requests /\ r.kind = "load" /\ r.record # None
  /\ requests' = requests \ {r}
  /\ IF url.study = None
       THEN UNCHANGED <<study, draft>>
       ELSE /\ study' = [id |-> r.study, record |-> r.record]
            /\ draft' = Hydrated(url.tab, r.record)
  /\ UNCHANGED <<db, url, step, editing, saving, launching, edits>>

LoadFailed(r) ==
  /\ r \in requests /\ r.kind = "load"
  /\ requests' = requests \ {r}
  /\ UNCHANGED <<db, url, study, tabState, edits>>

(* The study of the URL is loaded again; the wizard goes to its last step, *)
(* the settings close their section.                                       *)
SaveAnswered(r) ==
  /\ r \in requests /\ r.kind = "save" /\ r.served
  /\ LoadStudy(url, requests \ {r})
  /\ step' = IF r.tab = url.tab /\ r.tab = "brief" THEN Done ELSE step
  /\ editing' = IF r.tab = url.tab /\ r.tab = "settings" THEN None ELSE editing
  /\ saving' = IF r.tab = url.tab THEN FALSE ELSE saving
  /\ UNCHANGED <<db, url, study, draft, launching, edits>>

SaveFailed(r) ==
  /\ r \in requests /\ r.kind = "save"
  /\ requests' = requests \ {r}
  /\ saving' = IF r.tab = url.tab THEN FALSE ELSE saving
  /\ UNCHANGED <<db, url, study, draft, step, editing, launching, edits>>

(* setLaunching(false), in the tab that is open. *)
LaunchOver == launching' = IF url.tab = "recruit" THEN FALSE ELSE launching

LaunchAnswered(r) ==
  /\ r \in requests /\ r.kind = "launch"
  /\ LoadStudy(url, requests \ {r})
  /\ LaunchOver
  /\ UNCHANGED <<db, url, study, draft, step, editing, saving, edits>>

LaunchFailed(r) ==
  /\ r \in requests /\ r.kind = "launch"
  /\ requests' = requests \ {r}
  /\ LaunchOver
  /\ UNCHANGED <<db, url, study, draft, step, editing, saving, edits>>

-----------------------------------------------------------------------------

(* The tabs and the clicks they offer *)

BriefTab ==
  \/ StepGoal \/ StepMode \/ StepPlan
  \/ Continue \/ Back \/ SubmitBrief
  \/ \E k \in 1 .. Done : ClickStep(k)

SettingsTab ==
  \/ \E section \in Fields["settings"] : StartEdit(section)
  \/ TypeSettings \/ CancelEdit \/ SaveAll

RecruitTab == TypePlan \/ SaveRecruitmentPlan \/ LaunchRecruitment

Researcher ==
  \/ \E s \in Study, tab \in Tab : Open(s, tab)
  \/ Leave
  \/ BriefTab \/ SettingsTab \/ RecruitTab

Network(r) ==
  \/ ServeLoad(r) \/ ServeSave(r)
  \/ LoadAnswered(r) \/ LoadFailed(r) \/ SaveAnswered(r) \/ SaveFailed(r)
  \/ LaunchAnswered(r) \/ LaunchFailed(r)

Next == Researcher \/ \E r \in requests : Network(r)

Spec == Init /\ [][Next]_vars

-----------------------------------------------------------------------------

(* Types of the variables. *)
TypeOK ==
  /\ db \in [Study -> Record]
  /\ url \in [study : Study \cup {None}, tab : Tab]
  /\ study \in Loaded \cup {None}
  /\ draft \in [Field -> Text \cup {None}]
  /\ step \in 1 .. Done
  /\ editing \in {None, "name", "objectives"}
  /\ saving \in BOOLEAN /\ launching \in BOOLEAN
  /\ requests \subseteq Load \cup Save \cup Launch
  /\ edits \in 0 .. MaxEdits

(* What a tab shows belongs to the study it shows (the effects on [study]  *)
(* of the tabs): a draft is the loaded field, or was typed over it, in     *)
(* whatever order loads are answered and tabs opened.                      *)
DraftIsOfStudy ==
  /\ study = None => draft = Blank
  /\ study # None =>
       \A f \in Fields[url.tab] :
         draft[f] # None /\ (draft[f] = study.record[f] \/ draft[f].of = study.id)

(* submit of briefWizardLogic patches values.study.id: no study ever gets  *)
(* the brief that was written for another one.                             *)
BriefIsOwn == \A s \in Study : db[s]["brief"].of = s

(* The same of every field a tab saves (saveRecruitmentPlan "PATCHes the   *)
(* study"; the drafts are the study's).  Violated: while another study     *)
(* loads the drafts are those of the one before.                           *)
TextsAreOwn == \A s \in Study, f \in Field : db[s][f].of = s

(* "Save the recruitment plan before sending outreach": what goes out is   *)
(* the plan the researcher sees (violated: the launch is of the URL's      *)
(* study, the plan of the loaded one).                                     *)
LaunchesWhatIsShown ==
  [][\A r \in requests' \ requests :
        r.kind = "launch" => db[r.study]["plan"] = draft["plan"]]_vars

(* A section that was closed by Cancel is not saved: a save of the         *)
(* settings sends the section under edit, and of the other what the        *)
(* server's record has ("only the fields that actually changed",           *)
(* "isolated edit state").  Violated: Cancel keeps the draft.              *)
SavesTheSection ==
  [][\A r \in requests' \ requests :
        r.kind = "save" /\ r.tab = "settings" =>
          \A f \in Fields["settings"] \ {editing} : r.draft[f] \in {None, study.record[f]}]_vars

=============================================================================
