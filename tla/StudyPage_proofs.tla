--------------------------- MODULE StudyPage_proofs ---------------------------
(***************************************************************************)
(* What the study page shows and saves, for any number of studies, edits   *)
(* and requests in flight.  TypeOK, DraftIsOfStudy and BriefIsOwn are      *)
(* inductive together with what is said of the values under way: the       *)
(* loaded study has its own brief, so has every answer to a load, and a    *)
(* save of a brief goes to the study it was written for.                   *)
(***************************************************************************)
EXTENDS StudyPage, TLAPS

StudyIsWhole == study # None => study.record["brief"].of = study.id

(* A request that carries a brief carries that of its study. *)
OwnRequest(r) ==
  /\ r.kind = "load" /\ r.record # None => r.record["brief"].of = r.study
  /\ r.kind = "save" /\ r.tab = "brief" =>
       r.draft["brief"] # None /\ r.draft["brief"].of = r.study

RequestsAreOwn == \A r \in requests : OwnRequest(r)

IInv == TypeOK /\ DraftIsOfStudy /\ BriefIsOwn /\ StudyIsWhole /\ RequestsAreOwn

Request == Load \cup Save \cup Launch

Drafts == [Field -> Text \cup {None}]

-----------------------------------------------------------------------------
(* Operators *)

(* A tab's drafts are fields of a study. *)
LEMMA FieldsOfTab ==
  ASSUME NEW tab \in Tab
  PROVE  Fields[tab] \subseteq Field
BY DEF Tab, Fields, Field

(* Only the wizard has the brief. *)
LEMMA BriefOfTab ==
  ASSUME NEW tab \in Tab, "brief" \in Fields[tab]
  PROVE  tab = "brief"
BY DEF Tab, Fields

(* hydrateFromStudy fills every draft of the tab, with the record's text. *)
LEMMA HydratedDrafts ==
  ASSUME NEW tab \in Tab, NEW record \in Record
  PROVE  /\ Hydrated(tab, record) \in Drafts
         /\ \A f \in Fields[tab] :
              Hydrated(tab, record)[f] = record[f] /\ record[f] # None
<1>1. \A f \in Field : record[f] \in Text /\ record[f] # None
  BY NoneAssumption DEF Record
<1>2. Hydrated(tab, record) \in Drafts
  BY <1>1 DEF Hydrated, Drafts
<1>3. ASSUME NEW f \in Fields[tab]
      PROVE  Hydrated(tab, record)[f] = record[f] /\ record[f] # None
  BY <1>1, FieldsOfTab DEF Hydrated
<1> QED BY <1>2, <1>3

(* What loadStudy adds to the requests is a load that nothing has served. *)
LEMMA LoadStudyAdds ==
  ASSUME NEW u \in [study : Study \cup {None}, tab : Tab],
         NEW rs, rs \subseteq Request, \A r \in rs : OwnRequest(r),
         LoadStudy(u, rs)
  PROVE  requests' \subseteq Request /\ \A r \in requests' : OwnRequest(r)
<1>1. CASE u.study = None
  BY <1>1 DEF LoadStudy
<1>2. CASE u.study # None
  <2>1. PICK i \in FreeIds(rs) :
          requests' = rs \cup {[id |-> i, kind |-> "load", study |-> u.study, record |-> None]}
    BY <1>2 DEF LoadStudy
  <2> DEFINE q == [id |-> i, kind |-> "load", study |-> u.study, record |-> None]
  <2>2. i \in 1 .. MaxRequests /\ u.study \in Study
    BY <1>2 DEF FreeIds
  <2>3. q \in Load
    BY <2>2 DEF Load
  <2>4. OwnRequest(q)
    BY DEF OwnRequest
  <2> QED BY <2>1, <2>3, <2>4 DEF Request
<1> QED BY <1>1, <1>2

-----------------------------------------------------------------------------
(* Steps *)

(* The page begins with drafts of the study it shows. *)
LEMMA Initially == Init => IInv
<1> SUFFICES ASSUME Init PROVE IInv
  OBVIOUS
<1>1. db \in [Study -> Record] /\ \A s \in Study : db[s]["brief"].of = s
  BY StudyPageAssumption DEF Init, Record, Text, Field
<1>2. draft \in [Field -> Text \cup {None}]
  BY DEF Init, Blank
<1>3. url \in [study : Study \cup {None}, tab : Tab] /\ step \in 1 .. Done
  BY DEF Init, Tab, Done
<1>4. edits \in 0 .. MaxEdits
  BY StudyPageAssumption DEF Init
<1>5. saving \in BOOLEAN /\ launching \in BOOLEAN
  BY DEF Init
<1>6. TypeOK
  BY <1>1, <1>2, <1>3, <1>4, <1>5 DEF Init, TypeOK
<1>7. DraftIsOfStudy /\ StudyIsWhole /\ RequestsAreOwn
  BY DEF Init, DraftIsOfStudy, StudyIsWhole, RequestsAreOwn
<1> QED BY <1>1, <1>6, <1>7 DEF IInv, BriefIsOwn

(* A study that is there, read out of the invariant. *)
LEMMA LoadedStudy ==
  ASSUME TypeOK, study # None
  PROVE  study.id \in Study /\ study.record \in Record
BY DEF TypeOK, Loaded

(* Typing: the text is one of the study the tab shows. *)
LEMMA TypedKeeps ==
  ASSUME IInv, study # None, NEW f \in Fields[url.tab], Typed(f)
  PROVE  IInv'
<1> USE DEF Typed
<1> DEFINE text == [of |-> study.id, edit |-> edits + 1]
<1>1. url.tab \in Tab /\ f \in Field
  BY FieldsOfTab DEF IInv, TypeOK
<1>2. text \in Text /\ text # None /\ edits + 1 \in 0 .. MaxEdits
  <2>1. edits + 1 \in 0 .. MaxEdits
    BY StudyPageAssumption DEF IInv, TypeOK
  <2> QED BY <2>1, LoadedStudy, NoneAssumption DEF IInv, Text
<1>3. draft' \in Drafts /\ draft' = [draft EXCEPT ![f] = text]
  BY <1>2 DEF IInv, TypeOK, Drafts
<1>4. TypeOK'
  BY <1>2, <1>3 DEF IInv, TypeOK, Drafts
<1>5. DraftIsOfStudy'
  <2> SUFFICES ASSUME NEW g \in Fields[url.tab]
               PROVE  draft'[g] # None /\ (draft'[g] = study.record[g] \/ draft'[g].of = study.id)
    BY DEF DraftIsOfStudy
  <2>1. g \in Field
    BY <1>1, FieldsOfTab
  <2>2. CASE g = f
    BY <1>2, <1>3, <2>1, <2>2 DEF IInv, TypeOK
  <2>3. CASE g # f
    BY <1>3, <2>1, <2>3 DEF IInv, TypeOK, DraftIsOfStudy
  <2> QED BY <2>2, <2>3
<1>6. BriefIsOwn' /\ StudyIsWhole' /\ RequestsAreOwn'
  BY DEF IInv, BriefIsOwn, StudyIsWhole, RequestsAreOwn
<1> QED BY <1>4, <1>5, <1>6 DEF IInv

(* A step that moves nothing but the wizard's step, the edited section and *)
(* the flags.                                                              *)
LEMMA ControlsKeep ==
  ASSUME IInv, UNCHANGED <<db, url, study, draft, requests, edits>>,
         step' \in 1 .. Done, editing' \in {None, "name", "objectives"},
         saving' \in BOOLEAN, launching' \in BOOLEAN
  PROVE  IInv'
<1>1. TypeOK'
  BY DEF IInv, TypeOK
<1>2. DraftIsOfStudy' /\ BriefIsOwn' /\ StudyIsWhole' /\ RequestsAreOwn'
  BY DEF IInv, DraftIsOfStudy, BriefIsOwn, StudyIsWhole, RequestsAreOwn
<1> QED BY <1>1, <1>2 DEF IInv

(* The same with other requests: what is sent, refused or forgotten. *)
LEMMA RequestsKeep ==
  ASSUME IInv, UNCHANGED <<db, url, study, draft, edits>>,
         step' \in 1 .. Done, editing' \in {None, "name", "objectives"},
         saving' \in BOOLEAN, launching' \in BOOLEAN,
         requests' \subseteq Request, \A r \in requests' : OwnRequest(r)
  PROVE  IInv'
<1>1. TypeOK'
  BY DEF IInv, TypeOK, Request
<1>2. DraftIsOfStudy' /\ BriefIsOwn' /\ StudyIsWhole'
  BY DEF IInv, DraftIsOfStudy, BriefIsOwn, StudyIsWhole
<1>3. RequestsAreOwn'
  BY DEF RequestsAreOwn, OwnRequest
<1> QED BY <1>1, <1>2, <1>3 DEF IInv

(* A save goes to any study, but the brief's to the loaded one. *)
LEMMA SaveDraftKeeps ==
  ASSUME IInv, study # None, NEW s \in Study, url.tab = "brief" => s = study.id, SaveDraft(s)
  PROVE  IInv'
<1> USE DEF SaveDraft
<1>1. PICK i \in FreeIds(requests) :
        requests' = requests \cup
          {[id |-> i, kind |-> "save", study |-> s, tab |-> url.tab,
            draft |-> Sent, served |-> FALSE]}
  OBVIOUS
<1> DEFINE q == [id |-> i, kind |-> "save", study |-> s, tab |-> url.tab,
                 draft |-> Sent, served |-> FALSE]
<1>2. Sent \in Drafts
  BY DEF IInv, TypeOK, Sent, Drafts
<1>3. q \in Save
  BY <1>2 DEF IInv, TypeOK, FreeIds, Save, Drafts
<1>4. OwnRequest(q)
  <2> SUFFICES ASSUME url.tab = "brief"
               PROVE  Sent["brief"] # None /\ Sent["brief"].of = s
    BY DEF OwnRequest
  <2>1. Sent = draft /\ "brief" \in Fields[url.tab]
    BY DEF Sent, Fields
  <2>2. \/ draft["brief"] = study.record["brief"]
        \/ draft["brief"].of = study.id
    BY <2>1 DEF IInv, DraftIsOfStudy
  <2> QED BY <2>1, <2>2 DEF IInv, DraftIsOfStudy, StudyIsWhole
<1>5. requests' \subseteq Request /\ \A r \in requests' : OwnRequest(r)
  BY <1>1, <1>3, <1>4 DEF IInv, TypeOK, RequestsAreOwn, Request
<1> QED BY <1>5, RequestsKeep DEF IInv, TypeOK

(* Navigation: a tab that is opened is filled from the study that is there. *)
LEMMA OpenKeeps ==
  ASSUME IInv, NEW s \in Study, NEW tab \in Tab, Open(s, tab)
  PROVE  IInv'
<1> USE DEF Open
<1>1. url' \in [study : Study \cup {None}, tab : Tab] /\ url'.tab = tab
  OBVIOUS
<1>2. requests' \subseteq Request /\ \A r \in requests' : OwnRequest(r)
  <2>1. requests \subseteq Request /\ \A r \in requests : OwnRequest(r)
    BY DEF IInv, TypeOK, RequestsAreOwn, Request
  <2>2. CASE LoadStudy(url', requests)
    BY <1>1, <2>1, <2>2, LoadStudyAdds
  <2>3. CASE UNCHANGED requests
    BY <2>1, <2>3
  <2> QED BY <2>2, <2>3
<1>3. BriefIsOwn' /\ StudyIsWhole' /\ RequestsAreOwn'
  BY <1>2 DEF IInv, BriefIsOwn, StudyIsWhole, RequestsAreOwn, OwnRequest
<1>4. CASE tab = url.tab /\ url.study # None
  <2>1. UNCHANGED <<draft, step, editing, saving, launching>>
    BY <1>4 DEF tabState
  <2>2. TypeOK'
    BY <1>1, <1>2, <2>1 DEF IInv, TypeOK, Request
  <2>3. DraftIsOfStudy'
    BY <1>1, <1>4, <2>1 DEF IInv, DraftIsOfStudy
  <2> QED BY <1>3, <2>2, <2>3 DEF IInv
<1>5. CASE ~(tab = url.tab /\ url.study # None)
  <2>1. /\ draft' = IF study = None THEN Blank ELSE Hydrated(tab, study.record)
        /\ step' = 1 /\ editing' = None /\ saving' = FALSE /\ launching' = FALSE
    BY <1>5
  <2>2. step' \in 1 .. Done
    BY <2>1 DEF Done
  <2>3. draft' \in Drafts /\ DraftIsOfStudy'
    <3>1. CASE study = None
      BY <1>1, <2>1, <3>1 DEF DraftIsOfStudy, Blank, Drafts
    <3>2. CASE study # None
      <4>1. study.record \in Record
        BY <3>2, LoadedStudy DEF IInv
      <4> QED BY <1>1, <2>1, <3>2, <4>1, HydratedDrafts DEF DraftIsOfStudy
    <3> QED BY <3>1, <3>2
  <2>4. TypeOK'
    BY <1>1, <1>2, <2>1, <2>2, <2>3 DEF IInv, TypeOK, Request, Drafts
  <2> QED BY <1>3, <2>3, <2>4 DEF IInv
<1> QED BY <1>4, <1>5

(* Leaving the page drops its drafts. *)
LEMMA LeaveKeeps ==
  ASSUME IInv, Leave
  PROVE  IInv'
<1> USE DEF Leave
<1>1. draft' \in Drafts
  BY DEF Blank, Drafts
<1>2. url' \in [study : Study \cup {None}, tab : Tab] /\ step' \in 1 .. Done
  BY DEF Tab, Done
<1>3. TypeOK'
  BY <1>1, <1>2 DEF IInv, TypeOK, Drafts
<1>4. DraftIsOfStudy' /\ BriefIsOwn' /\ StudyIsWhole' /\ RequestsAreOwn'
  BY DEF IInv, DraftIsOfStudy, BriefIsOwn, StudyIsWhole, RequestsAreOwn
<1> QED BY <1>3, <1>4 DEF IInv

(* The server reads a study with its own brief ... *)
LEMMA ServeLoadKeeps ==
  ASSUME IInv, NEW r \in requests, ServeLoad(r)
  PROVE  IInv'
<1> USE DEF ServeLoad
<1> DEFINE q == [r EXCEPT !.record = db[r.study]]
<1>1. r \in Load
  BY DEF IInv, TypeOK, Save, Launch
<1>2. q \in Load /\ q.kind = "load" /\ q.record["brief"].of = q.study
  BY <1>1 DEF IInv, TypeOK, Load, BriefIsOwn
<1>3. q \in Request /\ OwnRequest(q)
  BY <1>2 DEF Request, OwnRequest
<1>4. requests' \subseteq Request /\ \A p \in requests' : OwnRequest(p)
  BY <1>3 DEF IInv, TypeOK, RequestsAreOwn, Request
<1> QED BY <1>4, RequestsKeep DEF IInv, TypeOK, tabState

(* ... and writes what a save carries: a brief to its own study. *)
LEMMA ServeSaveKeeps ==
  ASSUME IInv, NEW r \in requests, ServeSave(r)
  PROVE  IInv'
<1> USE DEF ServeSave
<1> DEFINE q == [r EXCEPT !.served = TRUE]
<1>1. r \in Save
  BY DEF IInv, TypeOK, Load, Launch
<1>2. q \in Save /\ OwnRequest(q)
  BY <1>1 DEF Save, IInv, RequestsAreOwn, OwnRequest
<1>3. requests' \subseteq Request /\ \A p \in requests' : OwnRequest(p)
  BY <1>2 DEF IInv, TypeOK, RequestsAreOwn, Request
<1> DEFINE written == [f \in Field |->
             IF f \in Fields[r.tab] /\ r.draft[f] # None THEN r.draft[f] ELSE db[r.study][f]]
<1>4. r.study \in Study /\ db' = [db EXCEPT ![r.study] = written]
  BY <1>1 DEF Save
<1>5. written \in Record
  BY <1>1, <1>4 DEF IInv, TypeOK, Save, Record
<1>6. written["brief"].of = r.study
  <2>1. "brief" \in Field
    BY DEF Field
  <2>2. CASE "brief" \in Fields[r.tab] /\ r.draft["brief"] # None
    <3>1. r.tab = "brief"
      BY <1>1, <2>2, BriefOfTab DEF Save
    <3> QED BY <1>1, <2>1, <2>2, <3>1 DEF IInv, RequestsAreOwn, OwnRequest, Save
  <2>3. CASE ~("brief" \in Fields[r.tab] /\ r.draft["brief"] # None)
    BY <1>4, <2>1, <2>3 DEF IInv, BriefIsOwn
  <2> QED BY <2>2, <2>3
<1>7. TypeOK'
  BY <1>3, <1>4, <1>5 DEF IInv, TypeOK, Request, tabState
<1>8. BriefIsOwn'
  BY <1>4, <1>6 DEF IInv, TypeOK, BriefIsOwn
<1>9. DraftIsOfStudy' /\ StudyIsWhole' /\ RequestsAreOwn'
  BY <1>3 DEF IInv, DraftIsOfStudy, StudyIsWhole, RequestsAreOwn, OwnRequest, tabState
<1> QED BY <1>7, <1>8, <1>9 DEF IInv

(* A loaded study overwrites the drafts of the tab that is mounted. *)
LEMMA LoadAnsweredKeeps ==
  ASSUME IInv, NEW r \in requests, LoadAnswered(r)
  PROVE  IInv'
<1> USE DEF LoadAnswered
<1>1. requests' \subseteq requests /\ RequestsAreOwn'
  BY DEF IInv, RequestsAreOwn, OwnRequest
<1>2. CASE url.study = None
  <2>1. requests' \subseteq Request /\ \A p \in requests' : OwnRequest(p)
    BY <1>1 DEF IInv, TypeOK, Request, RequestsAreOwn
  <2> QED BY <1>2, <2>1, RequestsKeep DEF IInv, TypeOK
<1>3. CASE url.study # None
  <2>1. r \in Load
    BY DEF IInv, TypeOK, Save, Launch
  <2>2. /\ r.record \in Record /\ r.study \in Study
        /\ r.record["brief"].of = r.study
    BY <2>1 DEF Load, IInv, RequestsAreOwn, OwnRequest
  <2>3. /\ study' = [id |-> r.study, record |-> r.record]
        /\ draft' = Hydrated(url.tab, r.record)
    BY <1>3
  <2>4. study' \in Loaded /\ study' # None
    BY <2>2, <2>3, NoneAssumption DEF Loaded
  <2>5. /\ draft' \in Drafts
        /\ \A f \in Fields[url.tab] : draft'[f] = r.record[f] /\ draft'[f] # None
    BY <2>2, <2>3, HydratedDrafts DEF IInv, TypeOK
  <2>6. TypeOK'
    BY <1>1, <2>4, <2>5 DEF IInv, TypeOK, Drafts
  <2>7. DraftIsOfStudy' /\ StudyIsWhole'
    BY <2>2, <2>3, <2>4, <2>5 DEF DraftIsOfStudy, StudyIsWhole
  <2>8. BriefIsOwn'
    BY DEF IInv, BriefIsOwn
  <2> QED BY <1>1, <2>6, <2>7, <2>8 DEF IInv
<1> QED BY <1>2, <1>3

(* An answer after which the study of the URL is loaded again. *)
LEMMA ReloadKeeps ==
  ASSUME IInv, NEW r \in requests, LoadStudy(url, requests \ {r}),
         UNCHANGED <<db, url, study, draft, edits>>,
         step' \in 1 .. Done, editing' \in {None, "name", "objectives"},
         saving' \in BOOLEAN, launching' \in BOOLEAN
  PROVE  IInv'
<1>1. requests \ {r} \subseteq Request /\ \A p \in requests \ {r} : OwnRequest(p)
  BY DEF IInv, TypeOK, RequestsAreOwn, Request
<1>2. requests' \subseteq Request /\ \A p \in requests' : OwnRequest(p)
  BY <1>1, LoadStudyAdds DEF IInv, TypeOK
<1> QED BY <1>2, RequestsKeep

(* A failure: the request is gone. *)
LEMMA FailureKeeps ==
  ASSUME IInv, NEW r \in requests, requests' = requests \ {r},
         UNCHANGED <<db, url, study, draft, step, editing, edits>>,
         saving' \in BOOLEAN, launching' \in BOOLEAN
  PROVE  IInv'
<1>1. requests' \subseteq Request /\ \A p \in requests' : OwnRequest(p)
  BY DEF IInv, TypeOK, RequestsAreOwn, Request
<1> QED BY <1>1, RequestsKeep DEF IInv, TypeOK

-----------------------------------------------------------------------------
(* All steps *)

(* Every click and key of the researcher keeps the invariant. *)
LEMMA ResearcherKeeps ==
  ASSUME IInv, Researcher
  PROVE  IInv'
<1> USE DEF Shows
<1>1. TypeOK /\ url.tab \in Tab /\ step \in 1 .. Done
  BY DEF IInv, TypeOK
<1>2. ASSUME NEW s \in Study, NEW tab \in Tab, Open(s, tab)
      PROVE  IInv'
  BY <1>2, OpenKeeps
<1>3. CASE Leave
  BY <1>3, LeaveKeeps
<1>4. CASE BriefTab
  <2>1. ASSUME NEW k \in {1, 2, 3}, TypeBrief(k)
        PROVE  IInv'
    BY <2>1, TypedKeeps DEF TypeBrief, Fields
  <2>2. ASSUME NEW k \in 1 .. Done, GoToStep(k)
        PROVE  IInv'
    BY <1>1, <2>2, ControlsKeep DEF GoToStep, IInv, TypeOK
  <2>3. CASE Continue
    <3>1. step + 1 \in 1 .. Done
      BY <1>1, <2>3 DEF Continue, Review, Done
    <3> QED BY <2>2, <2>3, <3>1 DEF Continue
  <2>4. CASE Back
    <3>1. step - 1 \in 1 .. Done
      BY <1>1, <2>4 DEF Back, Review, Done
    <3> QED BY <2>2, <2>4, <3>1 DEF Back
  <2>5. CASE SubmitBrief
    BY <1>1, <2>5, LoadedStudy, SaveDraftKeeps DEF SubmitBrief
  <2>6. CASE \E k \in 1 .. Done : ClickStep(k)
    BY <2>2, <2>6 DEF ClickStep
  <2> QED BY <1>4, <2>1, <2>3, <2>4, <2>5, <2>6 DEF BriefTab, StepGoal, StepMode, StepPlan
<1>5. CASE SettingsTab
  <2>1. CASE \E section \in Fields["settings"] : StartEdit(section)
    <3>1. editing' \in {None, "name", "objectives"}
      BY <2>1 DEF StartEdit, Fields
    <3> QED BY <2>1, <3>1, ControlsKeep DEF StartEdit, IInv, TypeOK
  <2>2. CASE TypeSettings
    <3>1. editing \in Fields[url.tab]
      BY <1>1, <2>2 DEF TypeSettings, Fields, TypeOK
    <3> QED BY <2>2, <3>1, TypedKeeps DEF TypeSettings
  <2>3. CASE CancelEdit
    BY <2>3, ControlsKeep DEF CancelEdit, IInv, TypeOK
  <2>4. CASE SaveAll
    BY <1>1, <2>4, SaveDraftKeeps DEF SaveAll, TypeOK
  <2> QED BY <1>5, <2>1, <2>2, <2>3, <2>4 DEF SettingsTab
<1>6. CASE RecruitTab
  <2>1. CASE TypePlan
    BY <2>1, TypedKeeps DEF TypePlan, Fields
  <2>2. CASE SaveRecruitmentPlan
    BY <1>1, <2>2, SaveDraftKeeps DEF SaveRecruitmentPlan, TypeOK
  <2>3. CASE LaunchRecruitment
    <3> USE DEF LaunchRecruitment
    <3>1. PICK i \in FreeIds(requests) :
            requests' = requests \cup {[id |-> i, kind |-> "launch", study |-> url.study]}
      BY <2>3
    <3>2. url.study \in Study
      BY <1>1, <2>3 DEF TypeOK
    <3> DEFINE q == [id |-> i, kind |-> "launch", study |-> url.study]
    <3>3. q \in Launch /\ OwnRequest(q)
      BY <3>2 DEF Launch, FreeIds, OwnRequest
    <3>4. requests' \subseteq Request /\ \A r \in requests' : OwnRequest(r)
      BY <3>1, <3>3 DEF IInv, TypeOK, RequestsAreOwn, Request
    <3> QED BY <2>3, <3>4, RequestsKeep DEF IInv, TypeOK
  <2> QED BY <1>6, <2>1, <2>2, <2>3 DEF RecruitTab
<1> QED BY <1>2, <1>3, <1>4, <1>5, <1>6 DEF Researcher

(* So does every answer of the server, *)
LEMMA NetworkKeeps ==
  ASSUME IInv, NEW r \in requests, Network(r)
  PROVE  IInv'
<1>1. TypeOK
  BY DEF IInv
<1>2. CASE ServeLoad(r)
  BY <1>2, ServeLoadKeeps
<1>3. CASE ServeSave(r)
  BY <1>3, ServeSaveKeeps
<1>4. CASE LoadAnswered(r)
  BY <1>4, LoadAnsweredKeeps
<1>5. CASE LoadFailed(r)
  BY <1>1, <1>5, FailureKeeps DEF LoadFailed, tabState, TypeOK
<1>6. CASE SaveAnswered(r)
  <2>1. step' \in 1 .. Done
    BY <1>1, <1>6 DEF SaveAnswered, TypeOK, Done
  <2>2. editing' \in {None, "name", "objectives"} /\ saving' \in BOOLEAN
    BY <1>1, <1>6 DEF SaveAnswered, TypeOK
  <2> QED BY <1>1, <1>6, <2>1, <2>2, ReloadKeeps DEF SaveAnswered, TypeOK
<1>7. CASE SaveFailed(r)
  <2>1. saving' \in BOOLEAN
    BY <1>1, <1>7 DEF SaveFailed, TypeOK
  <2> QED BY <1>1, <1>7, <2>1, FailureKeeps DEF SaveFailed, TypeOK
<1>8. CASE LaunchAnswered(r)
  <2>1. launching' \in BOOLEAN
    BY <1>1, <1>8 DEF LaunchAnswered, LaunchOver, TypeOK
  <2> QED BY <1>1, <1>8, <2>1, ReloadKeeps DEF LaunchAnswered, TypeOK
<1>9. CASE LaunchFailed(r)
  <2>1. launching' \in BOOLEAN
    BY <1>1, <1>9 DEF LaunchFailed, LaunchOver, TypeOK
  <2> QED BY <1>1, <1>9, <2>1, FailureKeeps DEF LaunchFailed, TypeOK
<1> QED BY <1>2, <1>3, <1>4, <1>5, <1>6, <1>7, <1>8, <1>9 DEF Network

(* and a step that changes nothing. *)
LEMMA StutterKeeps ==
  ASSUME IInv, UNCHANGED vars
  PROVE  IInv'
BY DEF IInv, TypeOK, DraftIsOfStudy, BriefIsOwn, StudyIsWhole, RequestsAreOwn, OwnRequest, vars

-----------------------------------------------------------------------------

(* The strengthened invariant holds in every reachable state: whatever the *)
(* researcher opens, types and saves, in whatever order the network        *)
(* answers.                                                                *)
THEOREM Invariance == Spec => []IInv
<1>1. IInv /\ [Next]_vars => IInv'
  BY ResearcherKeeps, NetworkKeeps, StutterKeeps DEF Next
<1> QED BY Initially, <1>1, PTL DEF Spec

(* Every variable of the study page keeps its type. *)
THEOREM TypeCorrect == Spec => []TypeOK
<1>1. IInv => TypeOK
  BY DEF IInv
<1> QED BY Invariance, <1>1, PTL

(* What a tab shows is of the study it shows: the drafts are the loaded    *)
(* study's, or typed over them, however loads overtake one another.        *)
THEOREM DraftsFollowTheStudy == Spec => []DraftIsOfStudy
<1>1. IInv => DraftIsOfStudy
  BY DEF IInv
<1> QED BY Invariance, <1>1, PTL

(* No study gets the brief that was written for another one (submit of     *)
(* briefWizardLogic saves to the study the wizard shows).                  *)
THEOREM BriefsStayTheirOwn == Spec => []BriefIsOwn
<1>1. IInv => BriefIsOwn
  BY DEF IInv
<1> QED BY Invariance, <1>1, PTL

=============================================================================
