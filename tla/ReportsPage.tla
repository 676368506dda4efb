---------------------------- MODULE ReportsPage ----------------------------
(***************************************************************************)
(* Custom reports in the researcher's browser: reportsLogic.ts with the    *)
(* list of a study's reports, reportDetailLogic.ts with the one that is    *)
(* open, and their pages.  Both logics live as long as ReportsPage, so the *)
(* detail goes on polling, and listening, behind the list.                 *)
(*                                                                         *)
(* Left out: titles and contents; the questions and segments of a report   *)
(* with their loads are in ReportQuestions.                                *)
(***************************************************************************)
EXTENDS Naturals, FiniteSetsExt

CONSTANTS
  Report,    \* reports that may exist
  Study,
  StudyOf,   \* StudyOf[r]: the study of report r
  None,
  MaxLoads   \* bound on requests in flight

VARIABLES
  server,     \* status of the reports on the server, None when there is no such report
  page,       \* values of the two logics and of ReportsPage
  intervals,  \* timers that run
  loads       \* requests in flight

vars == <<server, page, intervals, loads>>

-----------------------------------------------------------------------------

(* selected is selectedReportId, reportId the one of reportDetailLogic;    *)
(* failed: no load of a report succeeded since the last one failed.        *)
Closed ==
  [mounted |-> FALSE, studyId |-> None, reports |-> {}, selected |-> None,
   reportId |-> None, report |-> None, loading |-> {}, polls |-> FALSE, failed |-> FALSE]

Init ==
  /\ server = [r \in Report |-> None]
  /\ page = Closed
  /\ intervals = 0
  /\ loads = {}

Of(kind) == {q \in loads : q.kind = kind}

Room(n) == Cardinality(loads) + n <= MaxLoads

Asked(qs, kind, of) ==
  qs \cup {[id |-> Min((1 .. MaxLoads) \ {q.id : q \in qs}), kind |-> kind, of |-> of,
            served |-> FALSE, answer |-> None]}

IsGenerating == page.report # None /\ page.report.status = "generating"

Held == IF page.polls THEN 1 ELSE 0

-----------------------------------------------------------------------------
(* The page and the list *)

Open(s) ==
  /\ ~page.mounted /\ Room(IF s = None THEN 0 ELSE 2)
  /\ page' = [Closed EXCEPT !.mounted = TRUE, !.studyId = s,
                            !.loading = IF s = None THEN {} ELSE {"reports"}]
  /\ loads' = IF s = None THEN loads
              ELSE Asked(Asked(loads, "reports", s), "reports", s)
  /\ UNCHANGED <<server, intervals>>

Leave ==
  /\ page.mounted
  /\ page' = Closed
  /\ intervals' = intervals - Held
  /\ UNCHANGED <<server, loads>>

(* A report that is open stays open. *)
SetStudyId(s) ==
  /\ page.mounted /\ s # page.studyId /\ Room(1)
  /\ page' = [page EXCEPT !.studyId = s, !.loading = @ \cup {"reports"}]
  /\ loads' = Asked(loads, "reports", s)
  /\ UNCHANGED <<server, intervals>>

Requested(kind, of) ==
  /\ Room(1)
  /\ loads' = Asked(loads, kind, of)
  /\ UNCHANGED <<server, page, intervals>>

CreateReport == Requested("create", page.studyId)

DeleteReport(r) == Requested("delete", r)

StopPolling == intervals' = intervals - Held

(* handleSelectReport, setReportId *)
SelectReport(r) ==
  /\ Room(1)
  /\ page' = [page EXCEPT !.selected = r, !.reportId = r, !.polls = FALSE,
                          !.loading = @ \cup {"report"}]
  /\ StopPolling
  /\ loads' = Asked(loads, "report", r)
  /\ UNCHANGED server

-----------------------------------------------------------------------------
(* A report.  Its buttons act on reportId. *)

Back ==
  /\ page' = [page EXCEPT !.selected = None]
  /\ UNCHANGED <<server, intervals, loads>>

GenerateReport == Requested("generate", page.reportId)

TogglePublic == Requested("toggle", page.reportId)

(* Without a report, as after the page was left and opened again, loadReport *)
(* is null at once.                                                          *)
LoadReport(qs) ==
  IF page.reportId = None
    THEN /\ page' = [page EXCEPT !.report = None, !.polls = FALSE, !.failed = FALSE,
                                 !.loading = @ \ {"report"}]
         /\ StopPolling
         /\ loads' = qs
    ELSE /\ page' = [page EXCEPT !.loading = @ \cup {"report"}]
         /\ loads' = Asked(qs, "report", page.reportId)
         /\ UNCHANGED intervals

PollTick ==
  /\ intervals > 0 /\ page.mounted /\ Room(1)
  /\ LoadReport(loads)
  /\ UNCHANGED server

-----------------------------------------------------------------------------
(* The server *)

Existing(s) == {r \in Report : server[r] # None /\ StudyOf[r] = s}

Read(q) ==
  IF q.kind = "reports" THEN Existing(q.of)
  ELSE IF q.kind = "report" THEN [of |-> q.of, status |-> server[q.of]]
  ELSE None

Serve(q) ==
  /\ q \in loads /\ ~q.served
  /\ q.kind \in {"report", "generate", "toggle"} => server[q.of] # None
  /\ \/ q.kind \in {"reports", "report", "toggle"} /\ UNCHANGED server
     \/ q.kind = "delete" /\ server' = [server EXCEPT ![q.of] = None]
     \/ q.kind = "generate" /\ server' = [server EXCEPT ![q.of] = "generating"]
     \/ /\ q.kind = "create"
        /\ \E r \in Report :
             /\ StudyOf[r] = q.of /\ server[r] = None
             /\ server' = [server EXCEPT ![r] = "draft"]
  /\ loads' = (loads \ {q}) \cup {[q EXCEPT !.served = TRUE, !.answer = Read(q)]}
  /\ UNCHANGED <<page, intervals>>

(* A run of generate_report_task ends.  One that failed is retried, and    *)
(* two may have been asked for, so that it need not be the last.           *)
Generated(r) ==
  /\ server[r] \in {"generating", "ready", "failed"}
  /\ \E status \in {"ready", "failed"} : server' = [server EXCEPT ![r] = status]
  /\ UNCHANGED <<page, intervals, loads>>

-----------------------------------------------------------------------------
(* Answers *)

ReportsAnswered(q) ==
  /\ q \in Of("reports") /\ q.served /\ page.mounted
  /\ page' = [page EXCEPT !.reports = q.answer, !.loading = @ \ {"reports"}]
  /\ loads' = loads \ {q}
  /\ UNCHANGED <<server, intervals>>

(* The list of the study by then *)
ListChanged(q) ==
  /\ q \in Of("create") \cup Of("delete") /\ q.served /\ page.mounted
  /\ IF page.studyId = None THEN loads' = loads \ {q} /\ UNCHANGED page
     ELSE /\ page' = [page EXCEPT !.loading = @ \cup {"reports"}]
          /\ loads' = Asked(loads \ {q}, "reports", page.studyId)
  /\ UNCHANGED <<server, intervals>>

StartPolling == intervals' = intervals - Held + 1

ReportAnswered(q) ==
  /\ q \in Of("report") /\ q.served /\ page.mounted
  /\ LET generating == q.answer.status = "generating"
     IN  /\ page' = [page EXCEPT !.report = q.answer, !.failed = FALSE,
                                 !.polls = generating, !.loading = @ \ {"report"}]
         /\ IF generating THEN StartPolling ELSE StopPolling
  /\ loads' = loads \ {q}
  /\ UNCHANGED server

(* The report that is open by then, if any *)
ReportChanged(q) ==
  /\ q \in Of("generate") \cup Of("toggle") /\ q.served /\ page.mounted
  /\ LoadReport(loads \ {q})
  /\ UNCHANGED server

Failed(q) ==
  /\ q \in loads /\ page.mounted
  /\ page' = [page EXCEPT !.loading = @ \ {q.kind}, !.failed = @ \/ q.kind = "report"]
  /\ loads' = loads \ {q}
  /\ UNCHANGED <<server, intervals>>

Unheard(q) ==
  /\ q \in loads /\ ~page.mounted
  /\ loads' = loads \ {q}
  /\ UNCHANGED <<server, page, intervals>>

-----------------------------------------------------------------------------
(* The components and the clicks they offer *)

ReportCard(r) == SelectReport(r) \/ DeleteReport(r)

ReportsListPage ==
  /\ "reports" \notin page.loading
  /\ CreateReport \/ \E r \in page.reports : ReportCard(r)

ReportDetailPage ==
  /\ "report" \notin page.loading /\ ~IsGenerating
  /\ Back \/ GenerateReport \/ TogglePublic

Reports ==
  \/ \E s \in Study : SetStudyId(s)
  \/ /\ page.studyId # None
     /\ \/ page.selected = None /\ ReportsListPage
        \/ page.selected # None /\ ReportDetailPage

Researcher == Leave \/ Reports \/ \E s \in Study \cup {None} : Open(s)

Network(q) ==
  \/ Serve(q) \/ ReportsAnswered(q) \/ ListChanged(q) \/ ReportAnswered(q)
  \/ ReportChanged(q) \/ Failed(q) \/ Unheard(q)

Next ==
  \/ Researcher \/ PollTick
  \/ \E r \in Report : Generated(r)
  \/ \E q \in loads : Network(q)

Spec == Init /\ [][Next]_vars

-----------------------------------------------------------------------------

(* The timer follows the report that was answered last: one timer runs     *)
(* while it is being generated and none otherwise, also when the list is   *)
(* in front, another report is opened, the page left, or a button's answer *)
(* comes late; and a report that stays on "generating" is asked for, or    *)
(* the last load failed.                                                   *)
ReportsArePolled ==
  /\ intervals = Held
  /\ page.polls => IsGenerating
  /\ IsGenerating => page.polls \/ Of("report") # {} \/ page.failed

=============================================================================
