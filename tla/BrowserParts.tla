---------------------------- MODULE BrowserParts ----------------------------
(***************************************************************************)
(* The smaller parts of the two browsers, each on its own: they share      *)
(* nothing with one another but what their modules model themselves.  One  *)
(* area is open and takes all the steps; x1 .. x13 hold the state of the   *)
(* part that is mounted in it, and the ones it has no use for hold None.   *)
(***************************************************************************)
EXTENDS Integers

CONSTANTS
  None,
  OptionValue, MaxRenders,                              \* SelectBox
  Dimension, MaxSegments, MaxQuotas,                    \* RecruitQuotas
  MaxEntries, MaxForms, MaxFormRequests,                \* SettingsForms
  Window, Study, Listed, MinWidth, DefaultWidth,        \* AppSidebar
  MaxWidth, DragTo, Earlier, MaxChanges,
  Query, MaxRuns,                                       \* CommandPalette
  Stock, MaxCreated, MaxTurns,                          \* StudiesHome
  Pitches,                                              \* SignIn
  Concept, Camera, MaxFiles, MaxImports,                \* RoomStage
  Report, MaxAdded, MaxQuestionLoads,                   \* ReportQuestions
  SessionStudy, Session, SessionOf, StartedAt, Column,  \* StudySessions
  Searched, MaxSessionRequests, MaxCopies, MaxTimers,
  PageSize, MaxItems, MaxInboxRequests                  \* Inbox

ASSUME PartsAssumption ==
  /\ (Study \cup Listed) \cap {"login", "missing", "crashed"} = {}
  /\ Stock \subseteq [{"draft", "live", "closed"} -> Nat]
  /\ None \notin Nat
  /\ 0 \notin Camera

VARIABLES
  area,
  x1, x2, x3, x4, x5, x6, x7, x8, x9, x10, x11, x12, x13

vars == <<area, x1, x2, x3, x4, x5, x6, x7, x8, x9, x10, x11, x12, x13>>

Selecting == INSTANCE SelectBox WITH
  options <- x1, value <- x2, disabled <- x3, isOpen <- x4, activeIndex <- x5,
  renders <- x6, chosen <- x7, Value <- OptionValue, NoValue <- None

Quotas == INSTANCE RecruitQuotas WITH
  stored <- x1, draftQuotas <- x2, dialogOpen <- x3, editingIndex <- x4,
  stagedQuota <- x5, working <- x6

Settings == INSTANCE SettingsForms WITH
  db <- x1, section <- x2, panels <- x3, forms <- x4, settings <- x5,
  MaxRequests <- MaxFormRequests

Shell == INSTANCE AppSidebar WITH
  session <- x1, user <- x2, place <- x3, recentStudyIds <- x4, isCollapsed <- x5,
  sidePanel <- x6, drag <- x7, language <- x8, storage <- x9, changes <- x10,
  document <- x11

Palette == INSTANCE CommandPalette WITH
  user <- x1, studies <- x2, open <- x3, query <- x4, focusIndex <- x5,
  fading <- x6, waiting <- x7, entered <- x8

Home == INSTANCE StudiesHome WITH
  db <- x1, studies <- x2, studiesLoading <- x3, stats <- x4, place <- x5,
  filterTab <- x6, page <- x7, pageSize <- x8, newStudyLoading <- x9,
  creating <- x10, created <- x11, fallbacks <- x12, turns <- x13

SigningIn == INSTANCE SignIn WITH
  session <- x1, cookie <- x2, scene <- x3, user <- x4, form <- x5, login <- x6,
  pitchIndex <- x7

Stage == INSTANCE RoomStage WITH
  view <- x1, mode <- x2, connected <- x3, activeStimulus <- x4, imports <- x5,
  stage <- x6, camera <- x7, cameras <- x8, attachments <- x9, urls <- x10,
  draft <- x11, texts <- x12

Questions == INSTANCE ReportQuestions WITH
  rows <- x1, detail <- x2, view <- x3, added <- x4, asked <- x5,
  MaxLoads <- MaxQuestionLoads

Sessions == INSTANCE StudySessions WITH
  server <- x1, studyId <- x2, tab <- x3, share <- x4, sessions <- x5, table <- x6,
  broadcasts <- x7, transcript <- x8, copies <- x9, timers <- x10, requests <- x11,
  Study <- SessionStudy, MaxRequests <- MaxSessionRequests, Query <- Searched

Unread == INSTANCE Inbox WITH
  stored <- x1, colleague <- x2, page <- x3, items <- x4, loading <- x5,
  requests <- x6, MaxRequests <- MaxInboxRequests

-----------------------------------------------------------------------------

(* The slots from the k-th on, and that they are not in use *)
From13 == <<x13>>
From12 == <<x12, From13>>
From11 == <<x11, From12>>
From10 == <<x10, From11>>
From9 == <<x9, From10>>
From8 == <<x8, From9>>
From7 == <<x7, From8>>
From6 == <<x6, From7>>

NoneFrom13 == x13 = None
NoneFrom12 == x12 = None /\ NoneFrom13
NoneFrom11 == x11 = None /\ NoneFrom12
NoneFrom10 == x10 = None /\ NoneFrom11
NoneFrom9 == x9 = None /\ NoneFrom10
NoneFrom8 == x8 = None /\ NoneFrom9
NoneFrom7 == x7 = None /\ NoneFrom8
NoneFrom6 == x6 = None /\ NoneFrom7

Init ==
  \/ area = "select" /\ Selecting!Init /\ NoneFrom8
  \/ area = "quotas" /\ Quotas!Init /\ NoneFrom7
  \/ area = "settings" /\ Settings!Init /\ NoneFrom6
  \/ area = "shell" /\ Shell!Init /\ NoneFrom12
  \/ area = "palette" /\ Palette!Init /\ NoneFrom9
  \/ area = "home" /\ Home!Init
  \/ area = "signIn" /\ SigningIn!Init /\ NoneFrom8
  \/ area = "stage" /\ Stage!Init /\ NoneFrom13
  \/ area = "report" /\ Questions!Init /\ NoneFrom6
  \/ area = "sessions" /\ Sessions!Init /\ NoneFrom12
  \/ area = "inbox" /\ Unread!Init /\ NoneFrom7

Within(a) == area = a /\ UNCHANGED area

InSelecting == Within("select") /\ Selecting!Next /\ UNCHANGED From8

InQuotas == Within("quotas") /\ Quotas!Next /\ UNCHANGED From7

InSettings == Within("settings") /\ Settings!Next /\ UNCHANGED From6

InShell == Within("shell") /\ Shell!Next /\ UNCHANGED From12

InPalette == Within("palette") /\ Palette!Next /\ UNCHANGED From9

InHome == Within("home") /\ Home!Next

InSigningIn == Within("signIn") /\ SigningIn!Next /\ UNCHANGED From8

InStage == Within("stage") /\ Stage!Next /\ UNCHANGED From13

InQuestions == Within("report") /\ Questions!Next /\ UNCHANGED From6

InSessions == Within("sessions") /\ Sessions!Next /\ UNCHANGED From12

InUnread == Within("inbox") /\ Unread!Next /\ UNCHANGED From7

Next ==
  \/ InSelecting \/ InQuotas \/ InSettings \/ InShell \/ InPalette \/ InHome
  \/ InSigningIn \/ InStage \/ InQuestions \/ InSessions \/ InUnread

Spec == Init /\ [][Next]_vars

-----------------------------------------------------------------------------

(* What the keyboard takes is what is highlighted: a choice of a select    *)
(* box (SelectBox), a command of the palette (CommandPalette).             *)
EnterTakesHighlighted ==
  /\ area = "select" => Selecting!KeyboardChoosesOffered
  /\ area = "palette" => Palette!EnterRunsHighlighted

(* The segments of quotas are whole (RecruitQuotas). *)
SegmentsAreWhole == area = "quotas" => Quotas!SegmentsAreWhole

(* A form is sent once (SettingsForms), and as the server takes it         *)
(* (SignIn).                                                               *)
FormsAreSentWell ==
  /\ area = "settings" => Settings!FormsCreateOnce
  /\ area = "signIn" => SigningIn!LoginCarriesToken

(* Nothing is dragged but a handle that is on the screen (AppSidebar). *)
DragHasItsHandle == area = "shell" => Shell!DragHasItsHandle

(* Only a larger size leads past the last page of studies (StudiesHome). *)
OnlySizesOvershoot ==
  [][area = "home" /\ ~Home!EmptyPage /\ Home!EmptyPage' => x8' > x8]_vars

(* Cameras and object URLs are those of the room's stage, whatever becomes *)
(* of it (RoomStage).                                                      *)
HoldsWhatItShows == [][area = "stage" => Stage!HoldsStep]_vars

(* A question that was added is shown or loading (ReportQuestions). *)
AddedQuestionsShow == area = "report" => Questions!AddedQuestionsShow

(* Nothing loads forever (StudySessions). *)
NothingHangs == area = "sessions" => Sessions!NothingHangs

(* What is marked read was seen (Inbox). *)
MarksAreSeen == area = "inbox" => Unread!MarksAreSeen

=============================================================================
