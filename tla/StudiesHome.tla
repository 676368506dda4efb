----------------------------- MODULE StudiesHome -----------------------------
(***************************************************************************)
(* The home page with its list of studies (HomePage.tsx, homeLogic.ts) and *)
(* studiesLogic, which loads the list, pages it and creates studies, also  *)
(* for the sidebar and the command palette.                                *)
(*                                                                         *)
(* Only numbers of studies matter here: how many of each status there are. *)
(* A study created in this window is known by its number.  A place is a    *)
(* scene: the home page, a study created here, or another.                 *)
(***************************************************************************)
EXTENDS Integers, FiniteSets

CONSTANTS
  Stock,        \* numbers of studies, by status, to start with
  MaxCreated,   \* bound on studies created
  MaxTurns      \* bound on pages turned and sizes chosen

VARIABLES
  db,                            \* number of studies of each status
  studies, studiesLoading,       \* the list, by status
  stats,                         \* numbers on the home page, or 0
  place,
  filterTab, page, pageSize,
  newStudyLoading, creating,     \* requests under way
  created,
  fallbacks,                     \* created studies whose 300 ms run
  turns

listVars == <<studies, studiesLoading, stats>>
pageVars == <<filterTab, page, pageSize, turns>>
createVars == <<newStudyLoading, creating, created, fallbacks>>
vars == <<db, place, listVars, pageVars, createVars>>

-----------------------------------------------------------------------------

Status == {"draft", "live", "closed"}
NoStudies == [s \in Status |-> 0]
Total(list) == list["draft"] + list["live"] + list["closed"]

Home == 0
Elsewhere == -1

Init ==
  /\ db \in Stock
  /\ studies = NoStudies /\ studiesLoading = TRUE /\ stats = 0
  /\ place = Home
  /\ filterTab = "all" /\ page = 0 /\ pageSize = 20 /\ turns = 0
  /\ newStudyLoading = FALSE /\ creating = 0 /\ created = 0 /\ fallbacks = {}

(* loadStudies of studiesLogic: once per document, and a failure leaves    *)
(* nothing.  What was created meanwhile may or may not be in the answer,   *)
(* which holds 50 at most (the server ignores the page size asked for).    *)
StudiesAnswered(list) ==
  /\ studiesLoading
  /\ studiesLoading' = FALSE
  /\ studies' = list
  /\ UNCHANGED <<db, place, stats, pageVars, createVars>>

(* loadStats of homeLogic *)
StatsAnswered ==
  /\ place = Home
  /\ stats' = Total(db)
  /\ UNCHANGED <<db, place, studies, studiesLoading, pageVars, createVars>>

-----------------------------------------------------------------------------
(* HomePage *)

visible ==
  CASE filterTab = "all"      -> Total(studies)
    [] filterTab = "active"   -> studies["live"]
    [] filterTab = "drafts"   -> studies["draft"]
    [] filterTab = "archived" -> studies["closed"]

(* Positions, from 0, of the studies on a page. *)
pagedStudies(p) == {i \in 0 .. visible - 1 : p * pageSize <= i /\ i < p * pageSize + pageSize}

effectivePageCount ==
  IF visible = 0 THEN 1 ELSE (visible + pageSize - 1) \div pageSize

ListShown == place = Home /\ visible > 0

(* The bar is there when there is more than one page. *)
PaginationBar == ListShown /\ visible > pageSize

(* Wrong variant: the page of the tab before. *)
SetFilterTabOnly(t) ==
  /\ place = Home /\ t # filterTab
  /\ filterTab' = t
  /\ UNCHANGED <<db, place, listVars, page, pageSize, turns, createVars>>

SetFilterTab(t) ==
  /\ place = Home /\ t # filterTab
  /\ filterTab' = t
  /\ page' = 0
  /\ UNCHANGED <<db, place, listVars, pageSize, turns, createVars>>

Count == turns < MaxTurns /\ turns' = turns + 1

(* The page stays, though it may be past the end now. *)
setPageSize(size) ==
  /\ PaginationBar /\ Count
  /\ pageSize' = IF size < 10 THEN 10 ELSE IF size > 100 THEN 100 ELSE size
  /\ UNCHANGED <<db, place, listVars, filterTab, page, createVars>>

PreviousPage ==
  /\ PaginationBar /\ page # 0 /\ Count
  /\ page' = page - 1
  /\ UNCHANGED <<db, place, listVars, filterTab, pageSize, createVars>>

NextPage ==
  /\ PaginationBar /\ page < effectivePageCount - 1 /\ Count
  /\ page' = page + 1
  /\ UNCHANGED <<db, place, listVars, filterTab, pageSize, createVars>>

(* Home is left with its tab, and mounted again its effect goes to the     *)
(* first page; the size stays.                                             *)
Navigate(p) ==
  /\ place' = p
  /\ IF p = Home /\ place # Home
     THEN filterTab' = "all" /\ page' = 0 /\ stats' = 0
     ELSE UNCHANGED <<filterTab, page, stats>>
  /\ UNCHANGED <<pageSize, turns>>

GoTo(p) ==
  /\ p # place
  /\ Navigate(p)
  /\ UNCHANGED <<db, studies, studiesLoading, createVars>>

-----------------------------------------------------------------------------
(* Creating a study *)

createStudy ==
  /\ created + creating < MaxCreated
  /\ creating' = creating + 1
  /\ newStudyLoading' = TRUE
  /\ UNCHANGED <<db, place, listVars, pageVars, created, fallbacks>>

(* The buttons of the page and the sidebar wait for an answer. *)
ClickNewStudy == ~newStudyLoading /\ createStudy

(* The palette's command does not. *)
RunNewStudy == createStudy

(* The list does not get the new study. *)
createStudySuccess ==
  /\ creating > 0
  /\ creating' = creating - 1
  /\ created' = created + 1
  /\ db' = [db EXCEPT !["draft"] = @ + 1]
  /\ newStudyLoading' = FALSE
  /\ Navigate(created')
  /\ fallbacks' = fallbacks \cup {created'}
  /\ UNCHANGED <<studies, studiesLoading>>

createStudyFailure ==
  /\ creating > 0
  /\ creating' = creating - 1
  /\ newStudyLoading' = FALSE
  /\ UNCHANGED <<db, place, listVars, pageVars, created, fallbacks>>

(* After 300 ms, a researcher who is not at the new study is taken there   *)
(* by loading a document; of the requests under way it gets no answers,    *)
(* though the server may create what they ask for.                         *)
Fallback(study) ==
  /\ study \in fallbacks
  /\ IF place = study
     THEN /\ fallbacks' = fallbacks \ {study}
          /\ UNCHANGED <<db, place, listVars, pageVars, newStudyLoading, creating, created>>
     ELSE /\ place' = study
          /\ studies' = NoStudies /\ studiesLoading' = TRUE /\ stats' = 0
          /\ filterTab' = "all" /\ page' = 0 /\ pageSize' = 20
          /\ newStudyLoading' = FALSE /\ creating' = 0 /\ fallbacks' = {}
          /\ \E n \in 0 .. creating : db' = [db EXCEPT !["draft"] = @ + n]
          /\ UNCHANGED <<created, turns>>

Next ==
  \/ \E list \in {db, NoStudies} : StudiesAnswered(list)
  \/ StatsAnswered
  \/ \E t \in {"all", "active", "drafts", "archived"} : SetFilterTab(t)
  \/ \E size \in {10, 20, 50} : setPageSize(size)
  \/ PreviousPage \/ NextPage
  \/ \E p \in {Home, Elsewhere} \cup 1 .. created : GoTo(p)
  \/ ClickNewStudy \/ RunNewStudy \/ createStudySuccess \/ createStudyFailure
  \/ \E study \in fallbacks : Fallback(study)

Spec == Init /\ [][Next]_vars

-----------------------------------------------------------------------------

EmptyPage == ListShown /\ pagedStudies(page) = {}

(* A page is not empty while there are studies (violated: choosing a       *)
(* larger size on a later page leaves the page where it is, past the end,  *)
(* and may take the bar with its buttons away).                            *)
PageIsNotEmpty == ~EmptyPage

(* Nothing but that leads to an empty page: not a tab with fewer studies,  *)
(* not a list that comes late, not the way back from another scene or a    *)
(* document that is loaded (HomePage.tsx:62-64, 144, 263-275).             *)
OnlySizesOvershoot == [][~EmptyPage /\ EmptyPage' => pageSize' > pageSize]_vars

=============================================================================
