----------------------------- MODULE AskMerism -----------------------------
(***************************************************************************)
(* The two chats that ask about interviews: askLogic.ts, which the page    *)
(* and the side panel share and which lives while one of them is open,     *)
(* each with a ChatPanel.tsx and a draft of its own, and                   *)
(* customReportLogic.ts, about one study, whose analysis tab nothing       *)
(* mounts any more.  The answer of a question replaces its placeholder,    *)
(* found by its identifier.                                                *)
(*                                                                         *)
(* A listener runs on when its logic is unmounted, and what it dispatches  *)
(* reaches the logic if it is mounted again by then.  Deltas change        *)
(* nothing: the server (ask_views.py) calls the text "partial", and        *)
(* parseAskStream looks for "text".  Left out: charts and citations, a     *)
(* draft that is erased again, the drafts of the custom report.            *)
(***************************************************************************)
EXTENDS Naturals, Sequences, Functions

CONSTANTS
  Study,
  None,
  MaxAsked   \* bound on questions of a chat

VARIABLES
  page, panel,   \* AskPage and AskSidePanel, with what is typed in their ChatPanel
  ask,           \* the chat of askLogic
  tabStudy,      \* study whose analysis tab is open, or None
  reportStudy,   \* studyId of customReportLogic: its sidebar is open
  report         \* the chat of customReportLogic

askVars == <<page, panel, ask>>
reportVars == <<tabStudy, reportStudy, report>>
vars == <<askVars, reportVars>>

-----------------------------------------------------------------------------
(* A chat.  streams are the requests in flight. *)

Silent == [messages |-> <<>>, isSending |-> FALSE, streams |-> {}, asked |-> 0]

(* The user's message and the placeholder of its answer are one. *)
Message(id, of) == [id |-> id, of |-> of, state |-> "streaming", content |-> None, pinned |-> FALSE]

CanAsk(chat) == ~chat.isSending /\ chat.asked < MaxAsked

CanSend(view, chat) == view.draft /\ ~chat.isSending

AskQuestion(chat, of) ==
  LET id == chat.asked + 1
  IN  [messages |-> Append(chat.messages, Message(id, of)), isSending |-> TRUE,
       streams |-> chat.streams \cup {id}, asked |-> id]

(* Wrong variant: of the last message. *)
UpdateLast(chat, id, state, content) ==
  [i \in DOMAIN chat.messages |->
     IF i = Len(chat.messages)
       THEN [chat.messages[i] EXCEPT !.state = state, !.content = content]
       ELSE chat.messages[i]]

UpdateMessage(chat, id, state, content) ==
  [i \in DOMAIN chat.messages |->
     IF chat.messages[i].id = id
       THEN [chat.messages[i] EXCEPT !.state = state, !.content = content]
       ELSE chat.messages[i]]

(* parseAskStream: an error counts even after the answer; without either   *)
(* the answer is what the deltas have brought, nothing.                    *)
Outcome(events) ==
  IF "error" \in events THEN "errored" ELSE IF "done" \in events THEN "answered" ELSE "empty"

(* The listener's end: the answer, or what went wrong. *)
Ended(chat, id, state) ==
  [chat EXCEPT !.messages = UpdateMessage(chat, id, state, id),
               !.isSending = FALSE, !.streams = @ \ {id}]

(* The same while the logic is not mounted. *)
Unheard(chat, id) == [chat EXCEPT !.streams = @ \ {id}]

Unmounted(chat) == [chat EXCEPT !.messages = <<>>, !.isSending = FALSE]

-----------------------------------------------------------------------------

NoAnswer == 0

(* toChatMessage and ChatBubble: dots while it streams, then the text. *)
Bubble(m) ==
  [answers |-> m.id, dots |-> m.state = "streaming",
   text |-> IF m.state \in {"answered", "errored"} THEN m.content ELSE NoAnswer]

Bubbles(chat) == [i \in DOMAIN chat.messages |-> Bubble(chat.messages[i])]

Closed == [open |-> FALSE, tab |-> "chat", draft |-> FALSE]

Init ==
  /\ page = Closed /\ panel = Closed
  /\ ask = Silent
  /\ tabStudy = None /\ reportStudy = None
  /\ report = Silent

(* Ask Merism *)

Show(onPage, inPanel) ==
  /\ page' = onPage /\ panel' = inPanel
  /\ ask' = IF onPage.open \/ inPanel.open THEN ask ELSE Unmounted(ask)
  /\ UNCHANGED reportVars

TogglePage == Show([Closed EXCEPT !.open = ~page.open], panel)

TogglePanel == Show(page, [Closed EXCEPT !.open = ~panel.open])

(* The other tabs have no chat, and its draft goes with it. *)
SetTab(tab) ==
  /\ page.open /\ tab # page.tab
  /\ Show([page EXCEPT !.tab = tab, !.draft = FALSE], panel)

Shown(view) == view.open /\ view.tab = "chat"

(* The input is disabled while an answer comes. *)
SetDraft(view) == Shown(view) /\ ~view.draft /\ ~ask.isSending

TypeOnPage == SetDraft(page) /\ Show([page EXCEPT !.draft = TRUE], panel)

TypeInPanel == SetDraft(panel) /\ Show(page, [panel EXCEPT !.draft = TRUE])

(* The listener drops a question while an answer comes. *)
Asking == ask' = IF ask.isSending THEN ask ELSE AskQuestion(ask, None)

HandleSubmit(view) == Shown(view) /\ CanSend(view, ask) /\ ask.asked < MaxAsked /\ Asking

AskPage ==
  /\ HandleSubmit(page)
  /\ page' = [page EXCEPT !.draft = FALSE]
  /\ UNCHANGED <<panel, reportVars>>

AskSidePanel ==
  /\ HandleSubmit(panel)
  /\ panel' = [panel EXCEPT !.draft = FALSE]
  /\ UNCHANGED <<page, reportVars>>

(* An example of the empty chat; the draft stays. *)
AskExample ==
  /\ Shown(page) /\ ask.messages = <<>> /\ ask.asked < MaxAsked
  /\ Asking
  /\ UNCHANGED <<page, panel, reportVars>>

(* A response that is not ok is an error, too. *)
AskAnswered(id) ==
  /\ id \in ask.streams
  /\ \E events \in SUBSET {"delta", "done", "error"} :
       ask' = IF page.open \/ panel.open THEN Ended(ask, id, Outcome(events))
              ELSE Unheard(ask, id)
  /\ UNCHANGED <<page, panel, reportVars>>

(* The custom report *)

(* Another study is asked about in a new analysis tab (studyLogic's study  *)
(* changes, the tab stays), or the tab is left.                            *)
OpenTab(s) ==
  /\ s # tabStudy
  /\ tabStudy' = s
  /\ UNCHANGED <<askVars, reportStudy, report>>

LeaveTab ==
  /\ tabStudy # None
  /\ tabStudy' = None /\ reportStudy' = None
  /\ report' = Unmounted(report)
  /\ UNCHANGED askVars

(* openFor empties the chat; it does not reset isSending. *)
HandleAsk ==
  /\ tabStudy # None
  /\ reportStudy' = tabStudy
  /\ report' = [report EXCEPT !.messages = <<>>]
  /\ UNCHANGED <<askVars, tabStudy>>

Close ==
  /\ reportStudy # None
  /\ reportStudy' = None
  /\ UNCHANGED <<askVars, tabStudy, report>>

AskReport ==
  /\ reportStudy # None /\ CanAsk(report)
  /\ report' = AskQuestion(report, reportStudy)
  /\ UNCHANGED <<askVars, tabStudy, reportStudy>>

(* In the footer of an answer *)
TogglePin(i) ==
  /\ reportStudy # None /\ report.messages[i].state = "answered"
  /\ report' = [report EXCEPT !.messages[i].pinned = ~@]
  /\ UNCHANGED <<askVars, tabStudy, reportStudy>>

ReportAnswered(id) ==
  /\ id \in report.streams
  /\ \E state \in {"answered", "errored"} :
       report' = IF tabStudy # None THEN Ended(report, id, state) ELSE Unheard(report, id)
  /\ UNCHANGED <<askVars, tabStudy, reportStudy>>

-----------------------------------------------------------------------------

CustomReportSidebar ==
  Close \/ AskReport \/ \E i \in DOMAIN report.messages : TogglePin(i)

AnalysisTab == LeaveTab \/ HandleAsk \/ CustomReportSidebar

Next ==
  \/ TogglePage \/ TogglePanel \/ \E tab \in {"chat", "history", "saved"} : SetTab(tab)
  \/ TypeOnPage \/ TypeInPanel \/ AskPage \/ AskSidePanel \/ AskExample
  \/ \E id \in 1 .. MaxAsked : AskAnswered(id) \/ ReportAnswered(id)
  \/ AnalysisTab \/ \E s \in Study : OpenTab(s)

Spec == Init /\ [][Next]_vars

-----------------------------------------------------------------------------

(* An answer stands under the question it answers, a report's under one    *)
(* about the study its sidebar is open for; a placeholder that streams     *)
(* still has its request, so that the dots end, and the input is disabled  *)
(* only while a request is in flight: also when a chat is closed and       *)
(* opened again in between, which lets two streams run at a time.          *)
AnswersFitQuestions ==
  /\ \A chat \in {ask, report} :
       /\ \A b \in Range(Bubbles(chat)) :
            IF b.dots THEN b.answers \in chat.streams
            ELSE b.text \in {b.answers, NoAnswer}
       /\ chat.isSending => chat.streams # {}
  /\ reportStudy # None =>
       \A i \in DOMAIN report.messages : report.messages[i].of = reportStudy

=============================================================================
