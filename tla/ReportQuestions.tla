-------------------------- MODULE ReportQuestions --------------------------
(***************************************************************************)
(* The questions of a custom report: ReportDetailPage.tsx with its tabs,   *)
(* its dialog and its blocks, and the questions and segments of            *)
(* reportDetailLogic.ts, which lives on while the list is in front.  The   *)
(* report itself, whose loading and generating hide the page, is           *)
(* ReportsPage's: here it may hide the page at any time.                   *)
(*                                                                         *)
(* A report has one segment, called by the report's name, and came with a  *)
(* question about it.                                                      *)
(***************************************************************************)
EXTENDS Naturals, FiniteSetsExt

CONSTANTS
  Report,
  MaxAdded,   \* bound on questions that are added
  MaxLoads,   \* bound on requests in flight
  None

VARIABLES
  rows,    \* ReportQuestion rows on the server
  detail,  \* values of reportDetailLogic
  view,    \* ReportDetailPage: the report it is open for, its tab, its dialog
  added,   \* number of questions submitted
  asked    \* requests in flight

vars == <<rows, detail, view, added, asked>>

-----------------------------------------------------------------------------

(* typed: the report on whose page the title was typed; 0 is the question  *)
(* the report came with, the only one that has been analysed.              *)
Question(id, of, number, segment, typed) ==
  [id |-> id, of |-> of, number |-> number, segment |-> segment, typed |-> typed,
   status |-> IF id = 0 THEN "ready" ELSE "pending"]

NoPage == [of |-> None, tab |-> None, showAddQ |-> FALSE, newQTitle |-> None]

Mounted ==
  [reportId |-> None, questions |-> {}, segments |-> {}, activeSegment |-> None,
   busy |-> FALSE, loading |-> FALSE]

Init ==
  /\ rows = {Question(0, r, 1, r, r) : r \in Report}
  /\ detail = Mounted
  /\ view = NoPage
  /\ added = 0
  /\ asked = {}

Room(n) == Cardinality(asked) + n <= MaxLoads

Asked(qs, kind, of, answer) ==
  qs \cup {[id |-> Min((1 .. MaxLoads) \ {q.id : q \in qs}), kind |-> kind, of |-> of,
            served |-> FALSE, answer |-> answer]}

(* isLoading and isGenerating: instead of the page a message.  The tabs    *)
(* start on "all" (None) when they are shown again; the dialog's state is  *)
(* the page's own and stays.                                               *)
IsHidden(d) == d.busy \/ d.loading

Tabs(d, v) == IF IsHidden(d) THEN [v EXCEPT !.tab = None] ELSE v

Shows(d, v) == detail' = d /\ view' = Tabs(d, v)

(* Wrong variant: only the questions of the segment. *)
FilteredOnly(d) ==
  IF d.activeSegment = None THEN d.questions
  ELSE {q \in d.questions : q.segment = d.activeSegment}

FilteredQuestions(d) ==
  IF d.activeSegment = None THEN d.questions
  ELSE {q \in d.questions : q.segment \in {d.activeSegment, None}}

(* The summary, the chart, the themes and the quotes are shown once there  *)
(* are any; of any other question the header only.                         *)
QuestionBlock(q) ==
  [question |-> q.id, number |-> q.number, status |-> q.status,
   body |-> IF q.status = "ready" THEN "analysis" ELSE "none"]

Blocks == {QuestionBlock(q) : q \in FilteredQuestions(detail)}

-----------------------------------------------------------------------------

(* setReportId leaves the segment and the questions of an earlier report. *)
SelectReport(r) ==
  /\ view.of = None /\ Room(2)
  /\ Shows([detail EXCEPT !.reportId = r, !.loading = TRUE, !.busy = TRUE],
           [NoPage EXCEPT !.of = r])
  /\ asked' = Asked(Asked(asked, "questions", r, {}), "segments", r, {})
  /\ UNCHANGED <<rows, added>>

Back ==
  /\ view.of # None /\ ~IsHidden(detail)
  /\ view' = NoPage
  /\ UNCHANGED <<rows, detail, added, asked>>

SetActiveSegment(s) ==
  /\ view.of # None /\ ~IsHidden(detail) /\ s # view.tab
  /\ detail' = [detail EXCEPT !.activeSegment = s]
  /\ view' = [view EXCEPT !.tab = s]
  /\ UNCHANGED <<rows, added, asked>>

(* The report's own loads, its buttons and its being generated *)
Busy ==
  /\ detail.reportId # None
  /\ Shows([detail EXCEPT !.busy = ~@], view)
  /\ UNCHANGED <<rows, added, asked>>

(* By the timer, or after generateReport *)
LoadQuestions ==
  /\ detail.reportId # None /\ Room(1)
  /\ Shows([detail EXCEPT !.loading = TRUE], view)
  /\ asked' = Asked(asked, "questions", detail.reportId, {})
  /\ UNCHANGED <<rows, added>>

(* The dialog *)

InDialog(v) ==
  /\ view.of # None /\ ~IsHidden(detail)
  /\ view' = v
  /\ UNCHANGED <<rows, detail, added, asked>>

SetShowAddQ(show) == show # view.showAddQ /\ InDialog([view EXCEPT !.showAddQ = show])

SetNewQTitle(title) == view.showAddQ /\ InDialog([view EXCEPT !.newQTitle = title])

AddQuestion ==
  /\ view.of # None /\ ~IsHidden(detail) /\ view.showAddQ /\ view.newQTitle # None
  /\ Room(1) /\ added < MaxAdded
  /\ added' = added + 1
  /\ asked' = Asked(asked, "create", detail.reportId,
                    {Question(added', detail.reportId, Cardinality(detail.questions) + 1, None,
                              view.newQTitle)})
  /\ view' = [view EXCEPT !.newQTitle = None, !.showAddQ = FALSE]
  /\ UNCHANGED <<rows, detail>>

(* ReportsPage is left, with both logics; what is under way may be         *)
(* answered when it is open again.                                         *)
Leave ==
  /\ detail' = Mounted
  /\ view' = NoPage
  /\ UNCHANGED <<rows, added, asked>>

-----------------------------------------------------------------------------

(* The server.  answer of a question to be created is its row. *)
Serve(q) ==
  /\ q \in asked /\ ~q.served
  /\ rows' = IF q.kind = "create" THEN rows \cup q.answer ELSE rows
  /\ asked' = (asked \ {q}) \cup
       {[q EXCEPT !.served = TRUE,
                  !.answer = IF q.kind = "questions" THEN {row \in rows : row.of = q.of}
                             ELSE IF q.kind = "segments" THEN {q.of} ELSE {}]}
  /\ UNCHANGED <<detail, view, added>>

QuestionsAnswered(q) ==
  /\ q.kind = "questions" /\ q.served
  /\ Shows([detail EXCEPT !.questions = q.answer, !.loading = FALSE], view)
  /\ asked' = asked \ {q}
  /\ UNCHANGED <<rows, added>>

SegmentsAnswered(q) ==
  /\ q.kind = "segments" /\ q.served
  /\ detail' = [detail EXCEPT !.segments = q.answer]
  /\ asked' = asked \ {q}
  /\ UNCHANGED <<rows, view, added>>

(* The questions of the report by then, none without one *)
QuestionAdded(q) ==
  /\ q.kind = "create" /\ q.served
  /\ IF detail.reportId = None
       THEN /\ Shows([detail EXCEPT !.questions = {}], view)
            /\ asked' = asked \ {q}
       ELSE /\ Shows([detail EXCEPT !.loading = TRUE], view)
            /\ asked' = Asked(asked \ {q}, "questions", detail.reportId, {})
  /\ UNCHANGED <<rows, added>>

Unheard(q) ==
  /\ view.of = None /\ detail.reportId = None
  /\ asked' = asked \ {q}
  /\ UNCHANGED <<rows, detail, view, added>>

(* The title of a question that was not created is lost. *)
Failed(q) ==
  /\ q \in asked
  /\ IF q.kind = "questions" THEN Shows([detail EXCEPT !.loading = FALSE], view)
     ELSE UNCHANGED <<detail, view>>
  /\ asked' = asked \ {q}
  /\ UNCHANGED <<rows, added>>

-----------------------------------------------------------------------------

Next ==
  \/ \E r \in Report : SelectReport(r)
  \/ \E s \in detail.segments \cup {None} : SetActiveSegment(s)
  \/ \E show \in BOOLEAN : SetShowAddQ(show)
  \/ \E title \in {None, view.of} : SetNewQTitle(title)
  \/ Back \/ AddQuestion \/ Busy \/ LoadQuestions \/ Leave
  \/ \E q \in asked :
       Serve(q) \/ QuestionsAnswered(q) \/ SegmentsAnswered(q) \/ QuestionAdded(q) \/ Failed(q)
       \/ Unheard(q)

Spec == Init /\ [][Next]_vars

-----------------------------------------------------------------------------

(* A question the researcher adds is one of the report whose page it was   *)
(* typed on, and the page shows it whenever it is loaded, although the     *)
(* segment that filters the questions may be one chosen before, or another *)
(* report's, and the tabs say "all".                                       *)
AddedQuestionsShow ==
  /\ \A row \in rows : row.typed = row.of
  /\ \A q \in detail.questions : q.id # 0 => \E b \in Blocks : b.question = q.id

(* Questions of a report have numbers of their own (violated: the number   *)
(* is the one after those that are shown).                                 *)
NumbersAreOwn == \A p, q \in rows : p.of = q.of /\ p.number = q.number => p = q

(* The tab that is shown is the segment that filters (violated: the        *)
(* segment outlives the tabs).                                             *)
TabIsSegment == view.of # None /\ ~IsHidden(detail) => view.tab = detail.activeSegment

=============================================================================
