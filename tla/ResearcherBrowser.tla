-------------------------- MODULE ResearcherBrowser --------------------------
(***************************************************************************)
(* The researcher's browser, but for the study page and its drafts         *)
(* (StudyPage).  The scenes and tabs modelled here share nothing but the   *)
(* server, each its own resources of it: the one that is open takes all    *)
(* the steps.                                                              *)
(***************************************************************************)
EXTENDS Naturals

CONSTANTS
  MaxSections, MaxQuestions, MaxEdits,            \* OutlineEditor
  MaxOptions, MaxScreener, MaxScreenerLoads,      \* ScreenerEditor
  Block, Concept, MaxConceptRequests, Patient,    \* ConceptBlocks
  Study, None,
  MaxPageLoads,                                   \* InsightsPage, ReportsPage
  Report, ReportStudy, StudyOf,                   \* ReportsPage
  MaxChats, MaxChatAsked, MaxChatRequests,        \* DecisionsPage
  MaxAsked                                        \* AskMerism

ASSUME ResearcherAssumption ==
  /\ {MaxSections, MaxQuestions, MaxEdits, MaxOptions, MaxScreener} \subseteq Nat
  /\ StudyOf \in [Report -> ReportStudy]
  /\ None \notin Study \cup Report \cup ReportStudy
  /\ None \notin [status : {"pending", "generating", "ready", "failed"}, found : BOOLEAN]
  /\ None \notin [of : Report, status : {"draft", "generating", "ready", "failed"}]

VARIABLES
  area,
  tab, sections, selectedSection, selectedQuestion, draftRevision, savedRevision, loading,
  saving, guideError, timer, loads, saves, questions, screener, screenerLoads, stored, shown,
  requests, stale,
  insightsServer, insightsPage, insightsIntervals, insightsLoads,
  reportsServer, reportsPage, reportsIntervals, reportsLoads,
  chatsStored, chatsHistory, messages, conversationId, title, chat, chats, stream, asked,
  chatsRequests,
  askPage, askPanel, ask, tabStudy, reportStudy, report

Editors == INSTANCE StudyEditors WITH
  MaxLoads <- MaxScreenerLoads, MaxRequests <- MaxConceptRequests

Insights == INSTANCE InsightsPage WITH
  server <- insightsServer, page <- insightsPage, intervals <- insightsIntervals,
  loads <- insightsLoads, MaxLoads <- MaxPageLoads

Reports == INSTANCE ReportsPage WITH
  server <- reportsServer, page <- reportsPage, intervals <- reportsIntervals,
  loads <- reportsLoads, Study <- ReportStudy, MaxLoads <- MaxPageLoads

Decisions == INSTANCE DecisionsPage WITH
  stored <- chatsStored, history <- chatsHistory, requests <- chatsRequests,
  MaxAsked <- MaxChatAsked, MaxRequests <- MaxChatRequests

Asking == INSTANCE AskMerism WITH page <- askPage, panel <- askPanel

editorsVars ==
  <<tab, sections, selectedSection, selectedQuestion, draftRevision, savedRevision, loading,
    saving, guideError, timer, loads, saves, questions, screener, screenerLoads, stored,
    shown, requests, stale>>
insightsVars == <<insightsServer, insightsPage, insightsIntervals, insightsLoads>>
reportsVars == <<reportsServer, reportsPage, reportsIntervals, reportsLoads>>
decisionsVars ==
  <<chatsStored, chatsHistory, messages, conversationId, title, chat, chats, stream, asked,
    chatsRequests>>
askingVars == <<askPage, askPanel, ask, tabStudy, reportStudy, report>>
vars == <<area, editorsVars, insightsVars, reportsVars, decisionsVars, askingVars>>

-----------------------------------------------------------------------------

(* The variables of an area that is not open have no values. *)

NoEditors ==
  /\ tab = None /\ sections = None /\ selectedSection = None /\ selectedQuestion = None
  /\ draftRevision = None /\ savedRevision = None /\ loading = None /\ saving = None
  /\ guideError = None /\ timer = None /\ loads = None /\ saves = None
  /\ questions = None /\ screener = None /\ screenerLoads = None /\ stored = None
  /\ shown = None /\ requests = None /\ stale = None

NoInsights ==
  /\ insightsServer = None /\ insightsPage = None /\ insightsIntervals = None
  /\ insightsLoads = None

NoReports ==
  /\ reportsServer = None /\ reportsPage = None /\ reportsIntervals = None
  /\ reportsLoads = None

NoDecisions ==
  /\ chatsStored = None /\ chatsHistory = None /\ messages = None
  /\ conversationId = None /\ title = None /\ chat = None /\ chats = None
  /\ stream = None /\ asked = None /\ chatsRequests = None

NoAsking ==
  /\ askPage = None /\ askPanel = None /\ ask = None /\ tabStudy = None
  /\ reportStudy = None /\ report = None

Init ==
  \/ /\ area = "editors" /\ Editors!Init
     /\ NoInsights /\ NoReports /\ NoDecisions /\ NoAsking
  \/ /\ area = "insights" /\ Insights!Init
     /\ NoEditors /\ NoReports /\ NoDecisions /\ NoAsking
  \/ /\ area = "reports" /\ Reports!Init
     /\ NoEditors /\ NoInsights /\ NoDecisions /\ NoAsking
  \/ /\ area = "decisions" /\ Decisions!Init
     /\ NoEditors /\ NoInsights /\ NoReports /\ NoAsking
  \/ /\ area = "asking" /\ Asking!Init
     /\ NoEditors /\ NoInsights /\ NoReports /\ NoDecisions

InEditors ==
  /\ area = "editors" /\ Editors!Next
  /\ UNCHANGED <<area, insightsVars, reportsVars, decisionsVars, askingVars>>

InInsights ==
  /\ area = "insights" /\ Insights!Next
  /\ UNCHANGED <<area, editorsVars, reportsVars, decisionsVars, askingVars>>

InReports ==
  /\ area = "reports" /\ Reports!Next
  /\ UNCHANGED <<area, editorsVars, insightsVars, decisionsVars, askingVars>>

InDecisions ==
  /\ area = "decisions" /\ Decisions!Next
  /\ UNCHANGED <<area, editorsVars, insightsVars, reportsVars, askingVars>>

InAsking ==
  /\ area = "asking" /\ Asking!Next
  /\ UNCHANGED <<area, editorsVars, insightsVars, reportsVars, decisionsVars>>

Next == InEditors \/ InInsights \/ InReports \/ InDecisions \/ InAsking

Spec == Init /\ [][Next]_vars

-----------------------------------------------------------------------------

(* The outline's identifiers are unique, its selection agrees, and only    *)
(* choices have options (OutlineEditor).                                   *)
OutlineIsSound == area = "editors" => Editors!OutlineIsSound

(* Pass marks of the screener refer to options (ScreenerEditor). *)
PassMarksAreOptions == area = "editors" => Editors!PassMarksAreOptions

(* The stimuli tab shows what is stored (ConceptBlocks). *)
ShownIsStored == area = "editors" => Editors!ShownIsStored

(* The pages of insights and of a report poll while these are generated    *)
(* (InsightsPage, ReportsPage).                                            *)
GenerationIsPolled ==
  /\ area = "insights" => Insights!InsightsArePolled
  /\ area = "reports" => Reports!ReportsArePolled

(* A stored conversation is one conversation (DecisionsPage). *)
ConversationsAreWhole == area = "decisions" => Decisions!ConversationsAreWhole

(* An answer stands under its question (AskMerism). *)
AnswersFitQuestions == area = "asking" => Asking!AnswersFitQuestions

=============================================================================
