---------------------- MODULE ResearcherBrowser_proofs ----------------------
(***************************************************************************)
(* What the researcher's browser keeps in each of its areas, for any       *)
(* number of studies, reports, edits, questions and requests in flight.    *)
(***************************************************************************)
EXTENDS ResearcherBrowser, Lemmas

(* A request is a record of these fields, whatever is in them. *)
IsLoad(r) ==
  r \in [id : {r.id}, kind : {r.kind}, of : {r.of}, served : {r.served}, answer : {r.answer}]

(* Serving a request leaves its kind and what it is of. *)
ServedWith(r, x) == [r EXCEPT !.served = TRUE, !.answer = x]

(* So it leaves the shape of the request. *)
LEMMA ServedLoad ==
  ASSUME NEW r, IsLoad(r), NEW x
  PROVE  /\ IsLoad(ServedWith(r, x))
         /\ ServedWith(r, x).kind = r.kind /\ ServedWith(r, x).of = r.of
         /\ ServedWith(r, x).served = TRUE /\ ServedWith(r, x).answer = x
BY DEF IsLoad, ServedWith

-----------------------------------------------------------------------------
(* Insights *)

Stored == [status : Insights!Status, found : BOOLEAN]

InsightsAnswer == {None} \cup [of : Study, status : Insights!Status]

InsightsPageType ==
  [mounted : BOOLEAN, studyId : Study \cup {None}, insights : InsightsAnswer,
   findings : SUBSET Study, expandedFindings : SUBSET Study,
   loading : SUBSET {"insights", "details", "rerun"}, polls : BOOLEAN, failed : BOOLEAN]

(* A request asks for insights, their findings or a rerun, of a study, and *)
(* has such an answer.                                                     *)
InsightsLoadOk(r) ==
  /\ IsLoad(r)
  /\ r.kind \in {"insights", "details", "rerun"} /\ r.of \in Study \cup {None}
  /\ r.kind # "insights" => r.of \in Study
  /\ r.kind = "insights" => r.answer \in InsightsAnswer /\ (r.answer # None => r.of \in Study)
  /\ r.kind = "details" /\ r.served => r.answer \subseteq Study

InsightsTyped ==
  /\ insightsServer \in [Study -> {None} \cup Stored]
  /\ insightsPage \in InsightsPageType
  /\ \A r \in insightsLoads : InsightsLoadOk(r)

(* What was answered, or is generated again, is on the server. *)
InsightsExist ==
  /\ insightsPage.insights # None => insightsServer[insightsPage.insights.of] # None
  /\ \A r \in insightsLoads :
       /\ r.kind = "insights" /\ r.answer # None => insightsServer[r.answer.of] # None
       /\ r.kind = "rerun" => insightsServer[r.of] # None

InsightsInv ==
  /\ InsightsTyped
  /\ InsightsExist
  /\ Insights!InsightsArePolled
  /\ ~insightsPage.mounted => insightsPage = Insights!Closed

(* The insights page begins closed. *)
LEMMA InsightsInit == Insights!Init => InsightsInv
<1> SUFFICES ASSUME Insights!Init PROVE InsightsInv
  OBVIOUS
<1>1. insightsServer \in [Study -> {None} \cup Stored]
  <2>1. /\ Insights!Insights("pending", FALSE) \in Stored
        /\ Insights!Insights("ready", TRUE) \in Stored
    BY DEF Insights!Insights, Stored, Insights!Status
  <2> QED BY <2>1 DEF Insights!Init
<1>2. insightsPage = Insights!Closed /\ insightsIntervals = 0 /\ insightsLoads = {}
  BY DEF Insights!Init
<1>3. insightsPage \in InsightsPageType
  BY <1>2 DEF Insights!Closed, InsightsPageType, InsightsAnswer
<1>4. Insights!InsightsArePolled
  BY <1>2 DEF Insights!Closed, Insights!InsightsArePolled, Insights!Held, Insights!IsGenerating,
     Insights!Shown, Insights!NoInsights
<1> QED BY <1>1, <1>2, <1>3, <1>4 DEF InsightsInv, InsightsTyped, InsightsExist, Insights!Closed

(* A load that has just been asked for, of a study it may be of, is fine.  *)
InsightsNew(q, kind, s) ==
  IsLoad(q) /\ q.kind = kind /\ q.of = s /\ ~q.served /\ q.answer = None

(* Asking adds one load, without an answer. *)
LEMMA InsightsAsked ==
  ASSUME NEW ls, NEW kind, NEW s
  PROVE  \E q : Insights!Asked(ls, kind, s) = ls \cup {q} /\ InsightsNew(q, kind, s)
<1> DEFINE q == [id |-> Insights!Min((1 .. MaxPageLoads) \ {r.id : r \in ls}), kind |-> kind,
                 of |-> s, served |-> FALSE, answer |-> None]
<1>1. InsightsNew(q, kind, s)
  BY DEF InsightsNew, IsLoad
<1>2. Insights!Asked(ls, kind, s) = ls \cup {q}
  BY DEF Insights!Asked
<1> HIDE DEF q
<1> QED BY <1>1, <1>2

(* A new request is one there may be. *)
LEMMA InsightsNewOk ==
  ASSUME NEW q, NEW kind \in {"insights", "details", "rerun"}, NEW s \in Study \cup {None},
         kind # "insights" => s \in Study, InsightsNew(q, kind, s)
  PROVE  InsightsLoadOk(q)
BY DEF InsightsNew, InsightsLoadOk, InsightsAnswer

(* The status of insights that are stored may change. *)
LEMMA StatusChanges ==
  ASSUME NEW sv \in [Study -> {None} \cup Stored], NEW s \in Study, sv[s] # None,
         NEW status \in Insights!Status
  PROVE  /\ [sv EXCEPT ![s].status = status] \in [Study -> {None} \cup Stored]
         /\ \A t \in Study : sv[t] # None => [sv EXCEPT ![s].status = status][t] # None
<1> DEFINE new == [sv[s] EXCEPT !.status = status]
<1>1. new \in Stored
  BY DEF Stored
<1>2. Stored \cap {None} = {}
  BY ResearcherAssumption DEF Stored, Insights!Status
<1>3. [sv EXCEPT ![s].status = status] = [sv EXCEPT ![s] = new]
  OBVIOUS
<1> HIDE DEF new
<1> QED BY <1>1, <1>2, <1>3

(* What is shown and asked for determines whether the page polls as it      *)
(* should.                                                                 *)
LEMMA InsightsNext == InsightsInv /\ Insights!Next => InsightsInv'
<1> SUFFICES ASSUME InsightsInv, Insights!Next PROVE InsightsInv'
  OBVIOUS
<1> USE ResearcherAssumption
     DEF InsightsInv, InsightsTyped, InsightsExist, Insights!InsightsArePolled, Insights!Held,
         Insights!IsGenerating, Insights!Shown, Insights!NoInsights, Insights!Of
<1>0. insightsIntervals \in {0, 1}
  OBVIOUS
<1>c. Insights!Closed \in InsightsPageType
  BY DEF Insights!Closed, InsightsPageType, InsightsAnswer
<1>1. ASSUME NEW s \in Study \cup {None}, Insights!Open(s)
      PROVE InsightsInv'
  <2>1. /\ insightsPage' = [Insights!Closed EXCEPT !.mounted = TRUE, !.studyId = s,
                              !.loading = IF s = None THEN {} ELSE {"insights"}]
        /\ UNCHANGED <<insightsServer, insightsIntervals>>
        /\ ~insightsPage.mounted
    BY <1>1 DEF Insights!Open
  <2>2. insightsPage' \in InsightsPageType
    BY <1>c, <2>1 DEF InsightsPageType
  <2>3. /\ insightsPage'.mounted = TRUE /\ insightsPage'.insights = None
        /\ insightsPage'.polls = FALSE /\ insightsPage.polls = FALSE
    BY <2>1 DEF Insights!Closed
  <2>4. \A r \in insightsLoads' : r \in insightsLoads \/ InsightsNew(r, "insights", s)
    <3>1. CASE s = None
      BY <1>1, <3>1 DEF Insights!Open
    <3>2. CASE s # None
      <4> DEFINE once == Insights!Asked(insightsLoads, "insights", s)
      <4>1. PICK q : once = insightsLoads \cup {q} /\ InsightsNew(q, "insights", s)
        BY InsightsAsked
      <4>2. insightsLoads' = Insights!Asked(once, "insights", s)
        BY <1>1, <3>2 DEF Insights!Open
      <4> HIDE DEF once
      <4>3. PICK p : insightsLoads' = once \cup {p} /\ InsightsNew(p, "insights", s)
        BY <4>2, InsightsAsked
      <4> QED BY <4>1, <4>3
    <3> QED BY <3>1, <3>2
  <2>5. \A r \in insightsLoads' :
          r \in insightsLoads \/ (InsightsLoadOk(r) /\ r.kind = "insights" /\ r.answer = None)
    BY <2>4, InsightsNewOk DEF InsightsNew
  <2> QED BY <2>1, <2>2, <2>3, <2>5
<1>2. CASE Insights!Leave
  BY <1>0, <1>c, <1>2 DEF Insights!Leave, Insights!Closed
<1>3. ASSUME NEW s \in Study, Insights!SetStudyId(s)
      PROVE InsightsInv'
  <2>1. PICK q : insightsLoads' = insightsLoads \cup {q} /\ InsightsNew(q, "insights", s)
    BY <1>3, InsightsAsked DEF Insights!SetStudyId
  <2>2. InsightsLoadOk(q) /\ q.kind = "insights" /\ q.answer = None
    BY <2>1, InsightsNewOk DEF InsightsNew
  <2>3. /\ insightsPage.mounted /\ insightsIntervals' = 0 /\ UNCHANGED insightsServer
        /\ insightsPage' = [insightsPage EXCEPT !.studyId = s, !.polls = FALSE,
                                                !.loading = @ \cup {"insights"}]
    BY <1>0, <1>3 DEF Insights!SetStudyId
  <2> QED BY <2>1, <2>2, <2>3 DEF InsightsPageType
<1>4. CASE Insights!RerunInsights
  <2>1. insightsPage.insights.of \in Study
    BY <1>4 DEF Insights!RerunInsights, InsightsAnswer, InsightsPageType
  <2>2. PICK q : /\ insightsLoads' = insightsLoads \cup {q}
                 /\ InsightsNew(q, "rerun", insightsPage.insights.of)
    BY <1>4, InsightsAsked DEF Insights!RerunInsights
  <2>3. InsightsLoadOk(q) /\ q.kind = "rerun" /\ q.of = insightsPage.insights.of
    BY <2>1, <2>2, InsightsNewOk DEF InsightsNew
  <2> QED BY <1>4, <2>2, <2>3 DEF Insights!RerunInsights
<1>5. ASSUME NEW f \in Study, Insights!ToggleFinding(f), insightsPage.mounted
      PROVE InsightsInv'
  BY <1>5 DEF Insights!ToggleFinding, InsightsPageType
<1>6. CASE Insights!PollTick
  <2>1. PICK q : /\ insightsLoads' = insightsLoads \cup {q}
                 /\ InsightsNew(q, "insights", insightsPage.studyId)
    BY <1>6, InsightsAsked DEF Insights!PollTick, Insights!LoadInsights
  <2>2. InsightsLoadOk(q) /\ q.kind = "insights" /\ q.answer = None
    BY <2>1, InsightsNewOk DEF InsightsNew, InsightsPageType
  <2> QED BY <1>6, <2>1, <2>2 DEF Insights!PollTick, Insights!LoadInsights, InsightsPageType
<1>7. ASSUME NEW s \in Study, Insights!Generated(s)
      PROVE InsightsInv'
  <2>1. /\ insightsServer' \in [Study -> {None} \cup Stored]
        /\ \A t \in Study : insightsServer[t] # None => insightsServer'[t] # None
    BY <1>7, StatusChanges DEF Insights!Generated, Insights!Status
  <2>2. UNCHANGED <<insightsPage, insightsIntervals, insightsLoads>>
    BY <1>7 DEF Insights!Generated
  <2> QED BY <2>1, <2>2 DEF InsightsLoadOk, InsightsAnswer, InsightsPageType
<1>8. ASSUME NEW r \in insightsLoads, Insights!Serve(r)
      PROVE InsightsInv'
  <2> DEFINE x == CASE r.kind = "details" -> Insights!Findings(r.of)
                    [] r.kind = "insights" /\ r.of # None ->
                         IF insightsServer[r.of] = None THEN None
                         ELSE [of |-> r.of, status |-> insightsServer[r.of].status]
                    [] OTHER -> None
             q == ServedWith(r, x)
  <2>1. InsightsLoadOk(r)
    OBVIOUS
  <2>2. q.kind = r.kind /\ q.of = r.of /\ q.answer = x /\ IsLoad(q)
    <3>1. IsLoad(r)
      BY <2>1 DEF InsightsLoadOk
    <3> HIDE ResearcherAssumption DEF x, InsightsInv
    <3>2. /\ IsLoad(ServedWith(r, x))
          /\ ServedWith(r, x).kind = r.kind /\ ServedWith(r, x).of = r.of
          /\ ServedWith(r, x).served = TRUE /\ ServedWith(r, x).answer = x
      BY <3>1, ServedLoad, Zenon
    <3> QED BY <3>2
  <2>3. r.kind = "insights" =>
          /\ x \in InsightsAnswer
          /\ x # None => r.of \in Study /\ x.of = r.of /\ insightsServer[r.of] # None
    BY <2>1 DEF InsightsLoadOk, InsightsAnswer, Stored
  <2>4. r.kind = "details" => x \subseteq Study
    BY <2>1 DEF InsightsLoadOk, Insights!Findings
  <2>5. insightsLoads' = (insightsLoads \ {r}) \cup {q}
    BY <1>8 DEF Insights!Serve, ServedWith
  <2>6. /\ insightsServer' \in [Study -> {None} \cup Stored]
        /\ \A s \in Study : insightsServer[s] # None => insightsServer'[s] # None
    <3>1. CASE r.kind = "rerun"
      <4>1. r.of \in Study /\ insightsServer[r.of] # None
        BY <2>1, <3>1 DEF InsightsLoadOk
      <4>2. insightsServer' = [insightsServer EXCEPT ![r.of].status = "generating"]
        BY <1>8, <3>1 DEF Insights!Serve
      <4> QED BY <4>1, <4>2, StatusChanges DEF Insights!Status
    <3>2. CASE r.kind # "rerun"
      BY <1>8, <3>2 DEF Insights!Serve
    <3> QED BY <3>1, <3>2
  <2>7. UNCHANGED <<insightsPage, insightsIntervals>>
    BY <1>8 DEF Insights!Serve
  <2> HIDE DEF q, x
  <2>8. InsightsLoadOk(q)
    BY <2>1, <2>2, <2>3, <2>4 DEF InsightsLoadOk
  <2>9. InsightsExist'
    BY <2>1, <2>2, <2>3, <2>5, <2>6, <2>7, <2>8 DEF InsightsLoadOk, InsightsAnswer, InsightsPageType
  <2> QED BY <2>2, <2>5, <2>6, <2>7, <2>8, <2>9
<1>9. ASSUME NEW r \in insightsLoads, Insights!InsightsAnswered(r)
      PROVE InsightsInv'
  <2> DEFINE generating == r.answer # None /\ r.answer.status = "generating"
             details == r.answer # None /\ ~generating
  <2>1. /\ InsightsLoadOk(r) /\ r.kind = "insights" /\ r.answer \in InsightsAnswer
        /\ insightsPage.mounted
    BY <1>9 DEF Insights!InsightsAnswered, InsightsLoadOk
  <2>2. insightsPage' = [insightsPage EXCEPT
              !.insights = r.answer, !.failed = FALSE, !.polls = generating,
              !.loading = (@ \ {"insights"}) \cup (IF details THEN {"details"} ELSE {})]
    BY <1>9 DEF Insights!InsightsAnswered
  <2>3. insightsIntervals' = IF generating THEN 1 ELSE 0
    BY <1>0, <1>9 DEF Insights!InsightsAnswered, Insights!StartPolling, Insights!StopPolling
  <2>4. \A q \in insightsLoads' : q \in insightsLoads \/ InsightsNew(q, "details", r.of)
    <3>1. CASE details
      <4>1. PICK q : /\ insightsLoads' = (insightsLoads \ {r}) \cup {q}
                       /\ InsightsNew(q, "details", r.of)
        BY <1>9, <3>1, InsightsAsked DEF Insights!InsightsAnswered
      <4> QED BY <4>1
    <3>2. CASE ~details
      BY <1>9, <3>2 DEF Insights!InsightsAnswered
    <3> QED BY <3>1, <3>2
  <2>5. r.of \notin Study => ~details
    BY <2>1 DEF InsightsLoadOk
  <2>6. \A q \in insightsLoads' :
          q \in insightsLoads \/ (InsightsLoadOk(q) /\ q.answer = None /\ q.kind = "details")
    <3>1. CASE r.of \in Study
      BY <2>4, <3>1, InsightsNewOk DEF InsightsNew
    <3>2. CASE r.of \notin Study
      BY <1>9, <2>5, <3>2 DEF Insights!InsightsAnswered
    <3> QED BY <3>1, <3>2
  <2>7. UNCHANGED insightsServer
    BY <1>9 DEF Insights!InsightsAnswered
  <2>8. /\ insightsPage' \in InsightsPageType /\ insightsPage'.mounted
        /\ insightsPage'.insights = r.answer /\ insightsPage'.polls = generating
    <3> HIDE DEF details, generating
    <3>1. generating \in BOOLEAN
      BY DEF generating
    <3>2. (insightsPage.loading \ {"insights"}) \cup (IF details THEN {"details"} ELSE {})
            \in SUBSET {"insights", "details", "rerun"}
      BY DEF InsightsPageType
    <3> QED BY <2>1, <2>2, <3>1, <3>2 DEF InsightsPageType
  <2> QED BY <2>1, <2>3, <2>6, <2>7, <2>8
<1>10. ASSUME NEW r \in insightsLoads, Insights!DetailsAnswered(r)
      PROVE InsightsInv'
  BY <1>10 DEF Insights!DetailsAnswered, InsightsLoadOk, InsightsPageType
<1>11. ASSUME NEW r \in insightsLoads, Insights!RerunAnswered(r)
      PROVE InsightsInv'
  <2>1. CASE insightsPage.studyId = None
    BY <1>11, <2>1 DEF Insights!RerunAnswered, InsightsPageType
  <2>2. CASE insightsPage.studyId # None
    <3>1. PICK q : /\ insightsLoads' = (insightsLoads \ {r}) \cup {q}
                   /\ InsightsNew(q, "insights", insightsPage.studyId)
      BY <1>11, <2>2, InsightsAsked DEF Insights!RerunAnswered
    <3>2. InsightsLoadOk(q) /\ q.kind = "insights" /\ q.answer = None
      BY <3>1, InsightsNewOk DEF InsightsNew, InsightsPageType
    <3> QED BY <1>11, <2>2, <3>1, <3>2 DEF Insights!RerunAnswered, InsightsPageType
  <2> QED BY <2>1, <2>2
<1>12. ASSUME NEW r \in insightsLoads, Insights!Failed(r)
      PROVE InsightsInv'
  BY <1>12 DEF Insights!Failed, InsightsLoadOk, InsightsPageType
<1>13. ASSUME NEW r \in insightsLoads, Insights!Unheard(r)
      PROVE InsightsInv'
  BY <1>13 DEF Insights!Unheard, Insights!Closed
<1> QED
  BY <1>1, <1>2, <1>3, <1>4, <1>5, <1>6, <1>7, <1>8, <1>9, <1>10, <1>11, <1>12, <1>13
     DEF Insights!Next, Insights!Researcher, Insights!InsightsView, Insights!FindingRow,
         Insights!IsReady, Insights!Network, Insights!Closed, InsightsPageType

-----------------------------------------------------------------------------
(* Reports *)

ReportStatus == {"draft", "generating", "ready", "failed"}

ReportAnswer == [of : Report, status : ReportStatus]

ReportsLoading == {"reports", "report", "create", "delete", "generate", "toggle"}

ReportsPageType ==
  [mounted : BOOLEAN, studyId : ReportStudy \cup {None}, reports : SUBSET Report,
   selected : Report \cup {None}, reportId : Report \cup {None},
   report : ReportAnswer \cup {None}, loading : SUBSET ReportsLoading, polls : BOOLEAN,
   failed : BOOLEAN]

(* A request is of a study or of a report, and has such an answer. *)
ReportsLoadOk(q) ==
  /\ IsLoad(q)
  /\ q.kind \in ReportsLoading
  /\ q.kind \in {"reports", "create"} => q.of \in ReportStudy
  /\ q.kind \notin {"reports", "create"} => q.of \in Report
  /\ q.kind = "reports" /\ q.served => q.answer \subseteq Report
  /\ q.kind = "report" /\ q.served => q.answer \in ReportAnswer

ReportsTyped ==
  /\ reportsServer \in [Report -> {None} \cup ReportStatus]
  /\ reportsPage \in ReportsPageType
  /\ \A q \in reportsLoads : ReportsLoadOk(q)

ReportsInv ==
  /\ ReportsTyped
  /\ Reports!ReportsArePolled
  /\ reportsPage.selected # None => reportsPage.reportId # None
  /\ ~reportsPage.mounted => reportsPage = Reports!Closed

(* The page of reports starts closed, with no timer. *)
LEMMA ReportsInit == Reports!Init => ReportsInv
<1> SUFFICES ASSUME Reports!Init PROVE ReportsInv
  OBVIOUS
<1>1. reportsServer \in [Report -> {None} \cup ReportStatus]
  BY DEF Reports!Init
<1>2. reportsPage = Reports!Closed /\ reportsIntervals = 0 /\ reportsLoads = {}
  BY DEF Reports!Init
<1>3. reportsPage \in ReportsPageType
  BY <1>2 DEF Reports!Closed, ReportsPageType
<1>4. Reports!ReportsArePolled
  BY <1>2 DEF Reports!Closed, Reports!ReportsArePolled, Reports!Held, Reports!IsGenerating
<1> QED BY <1>1, <1>2, <1>3, <1>4 DEF ReportsInv, ReportsTyped, Reports!Closed

(* A request that has just been made *)
IsNewLoad(q, kind, of) == IsLoad(q) /\ q.kind = kind /\ q.of = of /\ ~q.served

(* Asking adds one request, without an answer. *)
LEMMA ReportsAsked ==
  ASSUME NEW ls, NEW kind, NEW of
  PROVE  \E q : Reports!Asked(ls, kind, of) = ls \cup {q} /\ IsNewLoad(q, kind, of)
<1> DEFINE q == [id |-> Reports!Min((1 .. MaxPageLoads) \ {r.id : r \in ls}), kind |-> kind,
                 of |-> of, served |-> FALSE, answer |-> None]
<1>1. IsNewLoad(q, kind, of)
  BY DEF IsNewLoad, IsLoad
<1>2. Reports!Asked(ls, kind, of) = ls \cup {q}
  BY DEF Reports!Asked
<1> HIDE DEF q
<1> QED BY <1>1, <1>2

(* A new request of a study or of a report, as its kind wants, is fine. *)
LEMMA ReportsNewOk ==
  ASSUME NEW q, NEW kind \in ReportsLoading, NEW of, IsNewLoad(q, kind, of),
         kind \in {"reports", "create"} => of \in ReportStudy,
         kind \notin {"reports", "create"} => of \in Report
  PROVE  ReportsLoadOk(q) /\ q.kind = kind
BY DEF IsNewLoad, ReportsLoadOk

(* Loading the report that is open, if any, keeps what is claimed of the    *)
(* page, whatever other request ended.                                      *)
LEMMA LoadReportKeeps ==
  ASSUME ReportsInv, NEW qs \in SUBSET reportsLoads, reportsPage.mounted,
         Reports!LoadReport(qs), UNCHANGED reportsServer,
         qs # reportsLoads =>
           \E q \in reportsLoads : q.kind # "report" /\ qs = reportsLoads \ {q}
  PROVE  ReportsInv'
<1> USE DEF ReportsInv, ReportsTyped, Reports!ReportsArePolled, Reports!Held,
            Reports!IsGenerating, Reports!Of
<1>1. CASE reportsPage.reportId = None
  <2>1. /\ reportsPage' = [reportsPage EXCEPT !.report = None, !.polls = FALSE,
                             !.failed = FALSE, !.loading = @ \ {"report"}]
        /\ reportsIntervals' = reportsIntervals - Reports!Held
        /\ reportsLoads' = qs
    BY <1>1 DEF Reports!LoadReport, Reports!StopPolling
  <2>2. reportsIntervals' = 0
    BY <2>1
  <2>3. reportsPage' \in ReportsPageType /\ reportsPage'.report = None
        /\ reportsPage'.polls = FALSE /\ reportsPage'.mounted
        /\ reportsPage'.reportId = None /\ reportsPage'.selected = reportsPage.selected
    BY <1>1, <2>1 DEF ReportsPageType
  <2> QED BY <1>1, <2>1, <2>2, <2>3
<1>2. CASE reportsPage.reportId # None
  <2>1. /\ reportsPage' = [reportsPage EXCEPT !.loading = @ \cup {"report"}]
        /\ UNCHANGED reportsIntervals
    BY <1>2 DEF Reports!LoadReport
  <2>2. PICK q : /\ reportsLoads' = qs \cup {q}
                 /\ IsNewLoad(q, "report", reportsPage.reportId)
    BY <1>2, ReportsAsked DEF Reports!LoadReport
  <2>3. ReportsLoadOk(q) /\ q.kind = "report"
    BY <1>2, <2>2, ReportsNewOk DEF ReportsPageType, ReportsLoading
  <2>4. /\ reportsPage' \in ReportsPageType /\ reportsPage'.mounted
        /\ reportsPage'.report = reportsPage.report /\ reportsPage'.polls = reportsPage.polls
        /\ reportsPage'.reportId = reportsPage.reportId
        /\ reportsPage'.selected = reportsPage.selected
    BY <2>1 DEF ReportsPageType, ReportsLoading
  <2> QED BY <2>1, <2>2, <2>3, <2>4
<1> QED BY <1>1, <1>2

(* One step in the area of reports keeps the timer with the report. *)
LEMMA ReportsNext == ReportsInv /\ Reports!Next => ReportsInv'
<1> SUFFICES ASSUME ReportsInv, Reports!Next PROVE ReportsInv'
  OBVIOUS
<1> USE ResearcherAssumption DEF ReportsInv, ReportsTyped, Reports!ReportsArePolled,
        Reports!Held, Reports!IsGenerating, Reports!Of
<1>0. reportsIntervals \in {0, 1}
  OBVIOUS
<1>c. Reports!Closed \in ReportsPageType
  BY DEF Reports!Closed, ReportsPageType
<1>1. ASSUME NEW s \in ReportStudy \cup {None}, Reports!Open(s)
      PROVE ReportsInv'
  <2>1. /\ reportsPage' = [Reports!Closed EXCEPT !.mounted = TRUE, !.studyId = s,
                             !.loading = IF s = None THEN {} ELSE {"reports"}]
        /\ UNCHANGED <<reportsServer, reportsIntervals>>
        /\ ~reportsPage.mounted
    BY <1>1 DEF Reports!Open
  <2>2. reportsPage' \in ReportsPageType
    BY <1>c, <2>1 DEF ReportsPageType, ReportsLoading
  <2>3. /\ reportsPage'.mounted = TRUE /\ reportsPage'.report = None
        /\ reportsPage'.polls = FALSE /\ reportsPage.polls = FALSE
        /\ reportsPage'.selected = None
    BY <2>1 DEF Reports!Closed
  <2>4. \A r \in reportsLoads' : r \in reportsLoads \/ (s # None /\ IsNewLoad(r, "reports", s))
    <3>1. CASE s = None
      BY <1>1, <3>1 DEF Reports!Open
    <3>2. CASE s # None
      <4> DEFINE once == Reports!Asked(reportsLoads, "reports", s)
      <4>1. PICK q : once = reportsLoads \cup {q} /\ IsNewLoad(q, "reports", s)
        BY ReportsAsked
      <4>2. reportsLoads' = Reports!Asked(once, "reports", s)
        BY <1>1, <3>2 DEF Reports!Open
      <4> HIDE DEF once
      <4>3. PICK p : reportsLoads' = once \cup {p} /\ IsNewLoad(p, "reports", s)
        BY <4>2, ReportsAsked
      <4> QED BY <3>2, <4>1, <4>3
    <3> QED BY <3>1, <3>2
  <2>5. \A r \in reportsLoads' : ReportsLoadOk(r)
    BY <2>4, ReportsNewOk DEF ReportsLoading
  <2> QED BY <2>1, <2>2, <2>3, <2>5
<1>2. CASE Reports!Leave
  BY <1>0, <1>c, <1>2 DEF Reports!Leave, Reports!Closed
<1>3. ASSUME NEW s \in ReportStudy, Reports!SetStudyId(s)
      PROVE ReportsInv'
  <2>1. PICK q : reportsLoads' = reportsLoads \cup {q} /\ IsNewLoad(q, "reports", s)
    BY <1>3, ReportsAsked DEF Reports!SetStudyId
  <2>2. ReportsLoadOk(q)
    BY <2>1, ReportsNewOk DEF ReportsLoading
  <2> QED BY <1>3, <2>1, <2>2 DEF Reports!SetStudyId, ReportsPageType, ReportsLoading
<1>4. ASSUME NEW kind \in ReportsLoading, NEW of, Reports!Requested(kind, of),
             kind \in {"reports", "create"} => of \in ReportStudy,
             kind \notin {"reports", "create"} => of \in Report
      PROVE ReportsInv'
  <2>1. PICK q : reportsLoads' = reportsLoads \cup {q} /\ IsNewLoad(q, kind, of)
    BY <1>4, ReportsAsked DEF Reports!Requested
  <2>2. ReportsLoadOk(q)
    BY <1>4, <2>1, ReportsNewOk
  <2>3. UNCHANGED <<reportsServer, reportsPage, reportsIntervals>>
    BY <1>4 DEF Reports!Requested
  <2> QED BY <2>1, <2>2, <2>3
<1>5. ASSUME NEW r \in Report, Reports!SelectReport(r), reportsPage.mounted
      PROVE ReportsInv'
  <2>1. PICK q : reportsLoads' = reportsLoads \cup {q} /\ IsNewLoad(q, "report", r)
    BY <1>5, ReportsAsked DEF Reports!SelectReport
  <2>2. ReportsLoadOk(q) /\ q.kind = "report"
    BY <2>1, ReportsNewOk DEF ReportsLoading
  <2>3. /\ reportsPage' = [reportsPage EXCEPT !.selected = r, !.reportId = r, !.polls = FALSE,
                             !.loading = @ \cup {"report"}]
        /\ reportsIntervals' = 0 /\ UNCHANGED reportsServer
    BY <1>0, <1>5 DEF Reports!SelectReport, Reports!StopPolling
  <2>4. /\ reportsPage' \in ReportsPageType /\ reportsPage'.mounted
        /\ reportsPage'.polls = FALSE /\ reportsPage'.reportId = r
    BY <1>5, <2>3 DEF ReportsPageType, ReportsLoading
  <2> QED BY <2>1, <2>2, <2>3, <2>4
<1>6. CASE Reports!Back /\ reportsPage.mounted
  BY <1>6 DEF Reports!Back, ReportsPageType
<1>7. CASE Reports!PollTick
  BY <1>7, LoadReportKeeps DEF Reports!PollTick
<1>8. ASSUME NEW r \in Report, Reports!Generated(r)
      PROVE ReportsInv'
  BY <1>8 DEF Reports!Generated, ReportStatus
<1>9. ASSUME NEW q \in reportsLoads, Reports!Serve(q)
      PROVE ReportsInv'
  <2> DEFINE x == Reports!Read(q)
             p == ServedWith(q, x)
  <2>1. ReportsLoadOk(q) /\ IsLoad(q)
    BY DEF ReportsLoadOk
  <2>2. p.kind = q.kind /\ p.of = q.of /\ p.answer = Reports!Read(q) /\ IsLoad(p)
    <3>1. p.kind = q.kind /\ p.of = q.of /\ p.answer = x /\ IsLoad(p)
      <4> HIDE ResearcherAssumption DEF x, ReportsInv
      <4> QED BY <2>1, ServedLoad, Zenon
    <3> QED BY <3>1
  <2>3. reportsLoads' = (reportsLoads \ {q}) \cup {p}
    BY <1>9 DEF Reports!Serve, ServedWith
  <2> HIDE DEF p
  <2>4. UNCHANGED <<reportsPage, reportsIntervals>>
    BY <1>9 DEF Reports!Serve
  <2>5. reportsServer' \in [Report -> {None} \cup ReportStatus]
    BY <1>9, <2>1 DEF Reports!Serve, ReportsLoadOk, ReportStatus
  <2>6. q.kind = "reports" => Reports!Read(q) \subseteq Report
    BY DEF Reports!Read, Reports!Existing
  <2>7. q.kind = "report" => Reports!Read(q) \in ReportAnswer
    <3>1. q.kind = "report" => q.of \in Report /\ reportsServer[q.of] \in ReportStatus
      BY <1>9, <2>1 DEF Reports!Serve, ReportsLoadOk
    <3> QED BY <3>1 DEF Reports!Read, ReportAnswer
  <2>8. ReportsLoadOk(p)
    BY <2>1, <2>2, <2>6, <2>7 DEF ReportsLoadOk
  <2> QED BY <2>2, <2>3, <2>4, <2>5, <2>8
<1>10. ASSUME NEW q \in reportsLoads, Reports!ReportsAnswered(q)
       PROVE ReportsInv'
  BY <1>10 DEF Reports!ReportsAnswered, ReportsLoadOk, ReportsPageType
<1>11. ASSUME NEW q \in reportsLoads, Reports!ListChanged(q)
       PROVE ReportsInv'
  <2>1. CASE reportsPage.studyId = None
    BY <1>11, <2>1 DEF Reports!ListChanged
  <2>2. CASE reportsPage.studyId # None
    <3>1. PICK p : /\ reportsLoads' = (reportsLoads \ {q}) \cup {p}
                   /\ IsNewLoad(p, "reports", reportsPage.studyId)
      BY <1>11, <2>2, ReportsAsked DEF Reports!ListChanged
    <3>2. ReportsLoadOk(p)
      BY <2>2, <3>1, ReportsNewOk DEF ReportsPageType, ReportsLoading
    <3> QED BY <1>11, <2>2, <3>1, <3>2 DEF Reports!ListChanged, ReportsPageType, ReportsLoading
  <2> QED BY <2>1, <2>2
<1>12. ASSUME NEW q \in reportsLoads, Reports!ReportAnswered(q)
       PROVE ReportsInv'
  <2> DEFINE generating == q.answer.status = "generating"
  <2>1. q.answer \in ReportAnswer /\ q.answer # None /\ reportsPage.mounted
    BY <1>12 DEF Reports!ReportAnswered, ReportsLoadOk, ReportAnswer, ReportStatus
  <2>2. reportsPage' = [reportsPage EXCEPT !.report = q.answer, !.failed = FALSE,
                          !.polls = generating, !.loading = @ \ {"report"}]
    BY <1>12 DEF Reports!ReportAnswered
  <2>3. reportsIntervals' = IF generating THEN 1 ELSE 0
    BY <1>0, <1>12 DEF Reports!ReportAnswered, Reports!StartPolling, Reports!StopPolling
  <2>4. reportsLoads' = reportsLoads \ {q} /\ UNCHANGED reportsServer
    BY <1>12 DEF Reports!ReportAnswered
  <2>5. /\ reportsPage' \in ReportsPageType /\ reportsPage'.mounted
        /\ reportsPage'.report = q.answer /\ reportsPage'.polls = generating
        /\ reportsPage'.selected = reportsPage.selected
        /\ reportsPage'.reportId = reportsPage.reportId
    <3> HIDE DEF generating
    <3>1. generating \in BOOLEAN
      BY DEF generating
    <3> QED BY <2>1, <2>2, <3>1 DEF ReportsPageType
  <2> QED BY <2>1, <2>3, <2>4, <2>5
<1>13. ASSUME NEW q \in reportsLoads, Reports!ReportChanged(q)
       PROVE ReportsInv'
  BY <1>13, LoadReportKeeps DEF Reports!ReportChanged
<1>14. ASSUME NEW q \in reportsLoads, Reports!Failed(q)
       PROVE ReportsInv'
  <2>1. reportsPage' \in ReportsPageType
    BY <1>14 DEF Reports!Failed, ReportsPageType
  <2> QED BY <1>14, <2>1 DEF Reports!Failed, ReportsPageType
<1>15. ASSUME NEW q \in reportsLoads, Reports!Unheard(q)
       PROVE ReportsInv'
  BY <1>15 DEF Reports!Unheard, Reports!Closed
<1>16. ASSUME Reports!Reports PROVE ReportsInv'
  <2>1. reportsPage.studyId # None => reportsPage.mounted
    BY DEF Reports!Closed
  <2>2. CASE reportsPage.studyId # None /\ reportsPage.selected = None /\ Reports!ReportsListPage
    <3>1. CASE Reports!CreateReport
      BY <1>4, <2>2, <3>1 DEF Reports!CreateReport, ReportsPageType, ReportsLoading
    <3>2. ASSUME NEW r \in Report, Reports!DeleteReport(r) PROVE ReportsInv'
      BY <1>4, <3>2 DEF Reports!DeleteReport, ReportsLoading
    <3> QED BY <1>5, <2>1, <2>2, <3>1, <3>2
            DEF Reports!ReportsListPage, Reports!ReportCard, ReportsPageType
  <2>3. CASE reportsPage.studyId # None /\ reportsPage.selected # None /\ Reports!ReportDetailPage
    <3>1. reportsPage.reportId \in Report
      BY <2>3 DEF ReportsPageType
    <3>2. CASE Reports!GenerateReport
      BY <1>4, <3>1, <3>2 DEF Reports!GenerateReport, ReportsLoading
    <3>3. CASE Reports!TogglePublic
      BY <1>4, <3>1, <3>3 DEF Reports!TogglePublic, ReportsLoading
    <3> QED BY <1>6, <2>1, <2>3, <3>2, <3>3 DEF Reports!ReportDetailPage
  <2> QED BY <1>3, <1>16, <2>2, <2>3 DEF Reports!Reports
<1> QED
  BY <1>1, <1>2, <1>7, <1>8, <1>9, <1>10, <1>11, <1>12, <1>13, <1>14, <1>15, <1>16
     DEF Reports!Next, Reports!Researcher, Reports!Network

-----------------------------------------------------------------------------
(* Insights and reports in the browser *)

PollingInv ==
  /\ area = "insights" => InsightsInv
  /\ area = "reports" => ReportsInv

(* The page of insights and the page of reports each poll while, and only   *)
(* while, the answer shown says "generating", whatever number of studies,   *)
(* reports and requests there are.                                          *)
THEOREM GeneratedIsPolled == Spec => []GenerationIsPolled
<1>1. Init => PollingInv
  BY InsightsInit, ReportsInit DEF Init, PollingInv
<1>2. PollingInv /\ [Next]_vars => PollingInv'
  <2> SUFFICES ASSUME PollingInv, [Next]_vars PROVE PollingInv'
    OBVIOUS
  <2>1. CASE InInsights
    BY <2>1, InsightsNext DEF InInsights, PollingInv
  <2>2. CASE InReports
    BY <2>2, ReportsNext DEF InReports, PollingInv
  <2>3. CASE InEditors \/ InDecisions \/ InAsking
    BY <2>3 DEF InEditors, InDecisions, InAsking, PollingInv
  <2>4. CASE UNCHANGED vars
    <3>1. UNCHANGED <<area, insightsServer, insightsPage, insightsIntervals, insightsLoads,
                      reportsServer, reportsPage, reportsIntervals, reportsLoads>>
      BY <2>4 DEF vars, insightsVars, reportsVars
    <3>2. InsightsInv' <=> InsightsInv
      BY <3>1 DEF InsightsInv, InsightsTyped, InsightsExist, Insights!InsightsArePolled,
         Insights!Held, Insights!IsGenerating, Insights!Shown, Insights!NoInsights, Insights!Of
    <3>3. ReportsInv' <=> ReportsInv
      BY <3>1 DEF ReportsInv, ReportsTyped, Reports!ReportsArePolled,
         Reports!Held, Reports!IsGenerating, Reports!Of
    <3> QED BY <3>1, <3>2, <3>3 DEF PollingInv
  <2> QED BY <2>1, <2>2, <2>3, <2>4 DEF Next
<1>3. PollingInv => GenerationIsPolled
  BY DEF PollingInv, GenerationIsPolled, InsightsInv, ReportsInv
<1> QED BY <1>1, <1>2, <1>3, PTL DEF Spec

-----------------------------------------------------------------------------
(* The chats that ask about interviews *)

Messages ==
  [id : Nat, of : Study \cup {None}, state : {"streaming", "answered", "errored", "empty"},
   content : Nat \cup {None}, pinned : BOOLEAN]

Chats == [messages : Seq(Messages), isSending : BOOLEAN, streams : SUBSET Nat, asked : Nat]

(* A placeholder has its request, an answer is that of its own question. *)
MessageOk(m, streams) ==
  /\ m.state = "streaming" => m.id \in streams
  /\ m.state \in {"answered", "errored"} => m.content = m.id

ChatOk(c) ==
  /\ c \in Chats
  /\ \A i \in DOMAIN c.messages : MessageOk(c.messages[i], c.streams)
  /\ c.isSending => c.streams # {}

Empty(c) == c.messages = <<>> /\ ~c.isSending

Views == [open : BOOLEAN, tab : {"chat", "history", "saved"}, draft : BOOLEAN]

(* A chat that is not mounted is empty; a report's questions are about the  *)
(* study its sidebar is open for.                                           *)
AskingInv ==
  /\ askPage \in Views /\ askPanel \in Views
  /\ ChatOk(ask) /\ ChatOk(report)
  /\ ~(askPage.open \/ askPanel.open) => Empty(ask)
  /\ tabStudy = None => Empty(report) /\ reportStudy = None
  /\ tabStudy \in Study \cup {None} /\ reportStudy \in Study \cup {None}
  /\ reportStudy # None =>
       \A i \in DOMAIN report.messages : report.messages[i].of = reportStudy

(* Asking adds one message, about what is asked, that streams. *)
LEMMA AskedOk ==
  ASSUME NEW c, ChatOk(c), NEW of \in Study \cup {None}
  PROVE  /\ ChatOk(Asking!AskQuestion(c, of))
         /\ (\A i \in DOMAIN c.messages : c.messages[i].of = of) =>
              \A i \in DOMAIN Asking!AskQuestion(c, of).messages :
                Asking!AskQuestion(c, of).messages[i].of = of
<1> DEFINE m == Asking!Message(c.asked + 1, of)
           ms == Append(c.messages, m)
<1>1. /\ c.messages \in Seq(Messages) /\ c.asked \in Nat /\ c.streams \in SUBSET Nat
      /\ \A i \in DOMAIN c.messages : MessageOk(c.messages[i], c.streams)
  BY DEF ChatOk, Chats
<1>2. m \in Messages /\ m.state = "streaming" /\ m.id = c.asked + 1 /\ m.of = of
  BY <1>1 DEF Asking!Message, Messages
<1>3. Asking!AskQuestion(c, of) = [messages |-> ms, isSending |-> TRUE,
                                   streams |-> c.streams \cup {c.asked + 1},
                                   asked |-> c.asked + 1]
  BY DEF Asking!AskQuestion
<1> HIDE DEF m
<1>4. ms \in Seq(Messages)
  BY <1>1, <1>2
<1>5. \A i \in DOMAIN ms : ms[i] = m \/ (i \in DOMAIN c.messages /\ ms[i] = c.messages[i])
  BY <1>1, <1>2
<1> HIDE DEF ms
<1> DEFINE new == [messages |-> ms, isSending |-> TRUE,
                   streams |-> c.streams \cup {c.asked + 1}, asked |-> c.asked + 1]
<1>6. /\ new \in Chats /\ new.messages = ms /\ new.streams = c.streams \cup {c.asked + 1}
      /\ new.isSending = TRUE
  BY <1>1, <1>4 DEF Chats
<1> HIDE DEF new
<1>7. \A i \in DOMAIN ms : MessageOk(ms[i], new.streams)
  BY <1>1, <1>2, <1>5, <1>6 DEF MessageOk
<1>8. ChatOk(new)
  BY <1>6, <1>7 DEF ChatOk
<1>9. (\A i \in DOMAIN c.messages : c.messages[i].of = of) =>
        \A i \in DOMAIN new.messages : new.messages[i].of = of
  BY <1>2, <1>5, <1>6
<1> QED BY <1>3, <1>8, <1>9 DEF new

(* The end of a stream settles the message of its question and no other. *)
LEMMA EndedOk ==
  ASSUME NEW c, ChatOk(c), NEW id \in Nat, NEW state \in {"answered", "errored", "empty"}
  PROVE  /\ ChatOk(Asking!Ended(c, id, state))
         /\ DOMAIN Asking!Ended(c, id, state).messages = DOMAIN c.messages
         /\ \A i \in DOMAIN c.messages :
              Asking!Ended(c, id, state).messages[i].of = c.messages[i].of
<1> DEFINE ms == Asking!UpdateMessage(c, id, state, id)
           new == [c EXCEPT !.messages = ms, !.isSending = FALSE, !.streams = @ \ {id}]
<1>1. /\ c \in Chats /\ c.messages \in Seq(Messages) /\ c.streams \in SUBSET Nat
      /\ \A i \in DOMAIN c.messages : MessageOk(c.messages[i], c.streams)
  BY DEF ChatOk, Chats
<1>2. \A m \in Messages : LET n == [m EXCEPT !.state = state, !.content = id]
        IN  /\ n \in Messages /\ n.state = state /\ n.content = id
            /\ n.id = m.id /\ n.of = m.of
  BY DEF Messages
<1>3. \A i \in DOMAIN c.messages : c.messages[i] \in Messages
  BY <1>1
<1>4. \A i \in DOMAIN c.messages :
        /\ ms[i] \in Messages /\ ms[i].id = c.messages[i].id /\ ms[i].of = c.messages[i].of
        /\ c.messages[i].id # id => ms[i] = c.messages[i]
        /\ c.messages[i].id = id => ms[i].state = state /\ ms[i].content = id
  BY <1>2, <1>3 DEF Asking!UpdateMessage
<1>5. DOMAIN ms = DOMAIN c.messages
  BY DEF Asking!UpdateMessage
<1>6. ms \in Seq(Messages)
  <2>1. ms = [i \in DOMAIN ms |-> ms[i]]
    BY DEF Asking!UpdateMessage
  <2> HIDE DEF ms
  <2>2. \A i \in 1 .. Len(c.messages) : ms[i] \in Messages
    BY <1>1, <1>4
  <2>3. ms \in [1 .. Len(c.messages) -> Messages]
    BY <1>1, <1>5, <2>1, <2>2
  <2> QED BY <1>1, <2>3
<1> HIDE DEF ms
<1>7. /\ new \in Chats /\ new.messages = ms /\ new.streams = c.streams \ {id}
      /\ new.isSending = FALSE
  BY <1>1, <1>6 DEF Chats
<1>8. Asking!Ended(c, id, state) = new
  BY DEF Asking!Ended, ms
<1> HIDE DEF new
<1>9. \A i \in DOMAIN ms : MessageOk(ms[i], new.streams)
  <2> SUFFICES ASSUME NEW i \in DOMAIN c.messages PROVE MessageOk(ms[i], new.streams)
    BY <1>5
  <2>1. CASE c.messages[i].id = id
    BY <1>4, <2>1 DEF MessageOk
  <2>2. CASE c.messages[i].id # id
    BY <1>1, <1>4, <1>7, <2>2 DEF MessageOk
  <2> QED BY <2>1, <2>2
<1>10. ChatOk(new)
  BY <1>7, <1>9 DEF ChatOk
<1> QED BY <1>4, <1>5, <1>7, <1>8, <1>10

(* The end of a stream nobody hears, of a chat that is empty *)
LEMMA UnheardOk ==
  ASSUME NEW c, ChatOk(c), Empty(c), NEW id
  PROVE  ChatOk(Asking!Unheard(c, id)) /\ Empty(Asking!Unheard(c, id))
<1> DEFINE new == [c EXCEPT !.streams = @ \ {id}]
<1>1. new \in Chats /\ new.messages = <<>> /\ new.isSending = FALSE
  BY DEF ChatOk, Chats, Empty
<1>2. Asking!Unheard(c, id) = new
  BY DEF Asking!Unheard
<1> HIDE DEF new
<1> QED BY <1>1, <1>2 DEF ChatOk, Empty

(* A chat whose messages go *)
LEMMA EmptiedOk ==
  ASSUME NEW c, ChatOk(c)
  PROVE  /\ ChatOk(Asking!Unmounted(c)) /\ Empty(Asking!Unmounted(c))
         /\ ChatOk([c EXCEPT !.messages = <<>>]) /\ [c EXCEPT !.messages = <<>>].messages = <<>>
<1> DEFINE un == [c EXCEPT !.messages = <<>>, !.isSending = FALSE]
           new == [c EXCEPT !.messages = <<>>]
<1>0. <<>> \in Seq(Messages) /\ c \in Chats
  BY DEF ChatOk
<1>1. un \in Chats /\ un.messages = <<>> /\ un.isSending = FALSE
  BY <1>0 DEF Chats
<1>2. /\ new \in Chats /\ new.messages = <<>> /\ new.isSending = c.isSending
      /\ new.streams = c.streams
  BY <1>0 DEF Chats
<1>3. Asking!Unmounted(c) = un
  BY DEF Asking!Unmounted
<1> HIDE DEF un, new
<1>4. c.isSending => c.streams # {}
  BY DEF ChatOk
<1>5. ChatOk(new)
  BY <1>2, <1>4 DEF ChatOk
<1> QED BY <1>1, <1>2, <1>3, <1>5 DEF ChatOk, Empty, new

(* A pin changes nothing else. *)
LEMMA PinOk ==
  ASSUME NEW c, ChatOk(c), NEW i \in DOMAIN c.messages
  PROVE  LET new == [c EXCEPT !.messages[i].pinned = ~@]
         IN  /\ ChatOk(new) /\ DOMAIN new.messages = DOMAIN c.messages
             /\ \A j \in DOMAIN c.messages : new.messages[j].of = c.messages[j].of
<1> DEFINE m == [c.messages[i] EXCEPT !.pinned = ~@]
           ms == [c.messages EXCEPT ![i] = m]
           new == [c EXCEPT !.messages = ms]
<1>1. /\ c \in Chats /\ c.messages \in Seq(Messages)
      /\ \A j \in DOMAIN c.messages : MessageOk(c.messages[j], c.streams)
      /\ c.isSending => c.streams # {}
  BY DEF ChatOk, Chats
<1>2. c.messages[i] \in Messages
  BY <1>1
<1>3. /\ m \in Messages /\ m.id = c.messages[i].id /\ m.of = c.messages[i].of
      /\ m.state = c.messages[i].state /\ m.content = c.messages[i].content
  BY <1>2 DEF Messages
<1>4. [c EXCEPT !.messages[i].pinned = ~@] = new
  BY <1>1 DEF Chats
<1> HIDE DEF m
<1>5. /\ ms \in Seq(Messages) /\ DOMAIN ms = DOMAIN c.messages /\ ms[i] = m
      /\ \A j \in DOMAIN c.messages : j # i => ms[j] = c.messages[j]
  BY <1>1, <1>3
<1> HIDE DEF ms
<1>6. /\ new \in Chats /\ new.messages = ms /\ new.streams = c.streams
      /\ new.isSending = c.isSending
  BY <1>1, <1>5 DEF Chats
<1> HIDE DEF new
<1>7. \A j \in DOMAIN ms : MessageOk(ms[j], new.streams)
  BY <1>1, <1>3, <1>5, <1>6 DEF MessageOk
<1> QED BY <1>1, <1>3, <1>4, <1>5, <1>6, <1>7 DEF ChatOk

(* Both chats are silent at first. *)
LEMMA AskingInit == Asking!Init => AskingInv
<1> SUFFICES ASSUME Asking!Init PROVE AskingInv
  OBVIOUS
<1>1. Asking!Silent \in Chats /\ Asking!Silent.messages = <<>> /\ Asking!Silent.isSending = FALSE
  BY DEF Asking!Silent, Chats
<1>2. ChatOk(Asking!Silent) /\ Empty(Asking!Silent)
  BY <1>1 DEF ChatOk, Empty
<1>3. Asking!Closed \in Views
  BY DEF Asking!Closed, Views
<1> QED BY <1>2, <1>3 DEF Asking!Init, AskingInv

(* One step of the page, the panel, the report's sidebar or a stream *)
LEMMA AskingNext == AskingInv /\ Asking!Next => AskingInv'
<1> SUFFICES ASSUME AskingInv, Asking!Next PROVE AskingInv'
  OBVIOUS
<1> USE ResearcherAssumption DEF AskingInv
<1>0. Asking!Closed \in Views
  BY DEF Asking!Closed, Views
<1>1. ASSUME NEW onPage \in Views, NEW inPanel \in Views, Asking!Show(onPage, inPanel),
             askPage.open \/ askPanel.open \/ Empty(ask)
      PROVE  AskingInv'
  <2>1. CASE onPage.open \/ inPanel.open
    BY <1>1, <2>1 DEF Asking!Show, Asking!reportVars
  <2>2. CASE ~(onPage.open \/ inPanel.open)
    BY <1>1, <2>2, EmptiedOk DEF Asking!Show, Asking!reportVars
  <2> QED BY <2>1, <2>2
<1>2. CASE Asking!Asking /\ (askPage.open \/ askPanel.open)
           /\ UNCHANGED <<askPage.open, askPanel.open, tabStudy, reportStudy, report>>
           /\ askPage' \in Views /\ askPanel' \in Views
  BY <1>2, AskedOk DEF Asking!Asking
<1>3. ASSUME NEW id, Asking!AskAnswered(id)
      PROVE  AskingInv'
  <2>1. id \in Nat
    BY <1>3 DEF Asking!AskAnswered, ChatOk, Chats
  <2>2. PICK events \in SUBSET {"delta", "done", "error"} :
          ask' = IF askPage.open \/ askPanel.open
                   THEN Asking!Ended(ask, id, Asking!Outcome(events))
                   ELSE Asking!Unheard(ask, id)
    BY <1>3 DEF Asking!AskAnswered
  <2>3. Asking!Outcome(events) \in {"answered", "errored", "empty"}
    BY DEF Asking!Outcome
  <2>4. CASE askPage.open \/ askPanel.open
    BY <1>3, <2>1, <2>2, <2>3, <2>4, EndedOk DEF Asking!AskAnswered, Asking!reportVars
  <2>5. CASE ~(askPage.open \/ askPanel.open)
    BY <1>3, <2>2, <2>5, UnheardOk DEF Asking!AskAnswered, Asking!reportVars
  <2> QED BY <2>4, <2>5
<1>4. ASSUME NEW id, Asking!ReportAnswered(id)
      PROVE  AskingInv'
  <2>1. id \in Nat
    BY <1>4 DEF Asking!ReportAnswered, ChatOk, Chats
  <2>2. PICK state \in {"answered", "errored"} :
          report' = IF tabStudy # None THEN Asking!Ended(report, id, state)
                    ELSE Asking!Unheard(report, id)
    BY <1>4 DEF Asking!ReportAnswered
  <2>3. UNCHANGED <<askPage, askPanel, ask, tabStudy, reportStudy>>
    BY <1>4 DEF Asking!ReportAnswered, Asking!askVars
  <2>4. CASE tabStudy # None
    <3>1. report' = Asking!Ended(report, id, state)
      BY <2>2, <2>4
    <3> DEFINE new == Asking!Ended(report, id, state)
    <3>2. /\ ChatOk(new) /\ DOMAIN new.messages = DOMAIN report.messages
          /\ \A i \in DOMAIN report.messages : new.messages[i].of = report.messages[i].of
      <4>1. ChatOk(report) /\ state \in {"answered", "errored", "empty"}
        OBVIOUS
      <4> HIDE ResearcherAssumption DEF AskingInv
      <4> QED BY <2>1, <4>1, EndedOk, Zenon
    <3> HIDE DEF new
    <3> QED BY <2>3, <2>4, <3>1, <3>2 DEF new
  <2>5. CASE tabStudy = None
    BY <2>2, <2>3, <2>5, UnheardOk
  <2> QED BY <2>4, <2>5
<1>5. ASSUME NEW s \in Study, Asking!OpenTab(s)
      PROVE  AskingInv'
  BY <1>5 DEF Asking!OpenTab, Asking!askVars
<1>6. CASE Asking!LeaveTab
  BY <1>6, EmptiedOk DEF Asking!LeaveTab, Asking!askVars
<1>7. CASE Asking!HandleAsk
  <2>1. /\ report' = [report EXCEPT !.messages = <<>>]
        /\ reportStudy' = tabStudy /\ tabStudy # None
        /\ UNCHANGED <<askPage, askPanel, ask, tabStudy>>
    BY <1>7 DEF Asking!HandleAsk, Asking!askVars
  <2>2. ChatOk(report') /\ report'.messages = <<>>
    BY <2>1, EmptiedOk
  <2> QED BY <2>1, <2>2
<1>8. CASE Asking!Close
  BY <1>8 DEF Asking!Close, Asking!askVars
<1>9. CASE Asking!AskReport
  <2>1. /\ report' = Asking!AskQuestion(report, reportStudy) /\ reportStudy # None
        /\ UNCHANGED <<askPage, askPanel, ask, tabStudy, reportStudy>>
    BY <1>9 DEF Asking!AskReport, Asking!askVars
  <2>2. ChatOk(report') /\ \A i \in DOMAIN report'.messages : report'.messages[i].of = reportStudy
    BY <2>1, AskedOk
  <2> QED BY <2>1, <2>2
<1>10. ASSUME NEW i \in DOMAIN report.messages, Asking!TogglePin(i)
       PROVE  AskingInv'
  <2>1. /\ report' = [report EXCEPT !.messages[i].pinned = ~@] /\ reportStudy # None
        /\ UNCHANGED <<askPage, askPanel, ask, tabStudy, reportStudy>>
    BY <1>10 DEF Asking!TogglePin, Asking!askVars
  <2>2. ChatOk(report') /\ DOMAIN report'.messages = DOMAIN report.messages
        /\ \A j \in DOMAIN report.messages : report'.messages[j].of = report.messages[j].of
    BY <2>1, PinOk
  <2> QED BY <2>1, <2>2
<1>11. CASE Asking!TogglePage
  <2>1. [Asking!Closed EXCEPT !.open = ~askPage.open] \in Views
    BY <1>0 DEF Views
  <2> QED BY <1>1, <1>11, <2>1 DEF Asking!TogglePage
<1>12. CASE Asking!TogglePanel
  <2>1. [Asking!Closed EXCEPT !.open = ~askPanel.open] \in Views
    BY <1>0 DEF Views
  <2> QED BY <1>1, <1>12, <2>1 DEF Asking!TogglePanel
<1>13. ASSUME NEW to \in {"chat", "history", "saved"}, Asking!SetTab(to)
       PROVE  AskingInv'
  <2>1. [askPage EXCEPT !.tab = to, !.draft = FALSE] \in Views
    BY DEF Views
  <2> QED BY <1>1, <1>13, <2>1 DEF Asking!SetTab
<1>14. CASE Asking!TypeOnPage \/ Asking!TypeInPanel
  <2>1. /\ [askPage EXCEPT !.draft = TRUE] \in Views
        /\ [askPanel EXCEPT !.draft = TRUE] \in Views
    BY DEF Views
  <2> QED BY <1>1, <1>14, <2>1
          DEF Asking!TypeOnPage, Asking!TypeInPanel, Asking!SetDraft, Asking!Shown
<1>15. CASE Asking!AskPage
  <2>1. /\ askPage' = [askPage EXCEPT !.draft = FALSE]
        /\ askPage' \in Views /\ askPage'.open = askPage.open /\ askPage.open
    BY <1>15 DEF Asking!AskPage, Asking!HandleSubmit, Asking!Shown, Views
  <2> QED BY <1>2, <1>15, <2>1
          DEF Asking!AskPage, Asking!HandleSubmit, Asking!Shown, Asking!Asking,
              Asking!reportVars
<1>16. CASE Asking!AskSidePanel
  <2>1. /\ askPanel' = [askPanel EXCEPT !.draft = FALSE]
        /\ askPanel' \in Views /\ askPanel'.open = askPanel.open /\ askPanel.open
    BY <1>16 DEF Asking!AskSidePanel, Asking!HandleSubmit, Asking!Shown, Views
  <2> QED BY <1>2, <1>16, <2>1
          DEF Asking!AskSidePanel, Asking!HandleSubmit, Asking!Shown, Asking!Asking,
              Asking!reportVars
<1>17. CASE Asking!AskExample
  BY <1>2, <1>17 DEF Asking!AskExample, Asking!Shown, Asking!reportVars
<1> QED
  BY <1>3, <1>4, <1>5, <1>6, <1>7, <1>8, <1>9, <1>10, <1>11, <1>12, <1>13, <1>14, <1>15,
     <1>16, <1>17 DEF Asking!Next, Asking!AnalysisTab, Asking!CustomReportSidebar

-----------------------------------------------------------------------------
(* The assistant's conversations *)

Exchange == [id : Nat, of : Nat, answered : {"streaming", "yes", "no"}]

Sent == [id : Nat, of : Nat, answered : BOOLEAN]

(* Exchanges of conversation c in the order in which they were asked *)
Whole(es, c) ==
  /\ \A i \in DOMAIN es : es[i].of = c /\ es[i].id <= asked
  /\ \A i, j \in DOMAIN es : i < j => es[i].id < es[j].id

IsConversation(v, c) == v.exchanges \in Seq(Sent) /\ Whole(v.exchanges, c)

(* The fields of a request *)
IsRequest(r) ==
  r \in [id : {r.id}, kind : {r.kind}, of : {r.of}, content : {r.content}, served : {r.served}]

(* What a save will store, or a load has brought, is whole. *)
RequestOk(r) ==
  /\ IsRequest(r)
  /\ r.kind = "save" /\ ~r.served => IsConversation(r.content, r.of)
  /\ r.kind = "load" => r.of \in Decisions!Chat
  /\ r.kind = "load" /\ r.served /\ r.content # None => IsConversation(r.content, r.of)

(* The page shows one conversation, under its own identifier or none. *)
DecisionsInv ==
  /\ asked \in Nat /\ chat \in Nat /\ chats \in Nat
  /\ conversationId \in {None, chat}
  /\ messages \in Seq(Exchange) /\ Whole(messages, chat)
  /\ chatsStored = [c \in Decisions!Chat |-> chatsStored[c]]
  /\ \A c \in Decisions!Chat : chatsStored[c] # None => IsConversation(chatsStored[c], c)
  /\ \A r \in chatsRequests : RequestOk(r)

(* Nothing is chatsStored, shown or sent at first. *)
LEMMA DecisionsInit == Decisions!Init => DecisionsInv
<1> SUFFICES ASSUME Decisions!Init PROVE DecisionsInv
  OBVIOUS
<1>1. \A r \in chatsRequests : RequestOk(r)
  <2> DEFINE q == [id |-> 1, kind |-> "history", of |-> None, content |-> None, served |-> FALSE]
  <2>1. RequestOk(q)
    BY DEF RequestOk, IsRequest
  <2>2. chatsRequests = {q}
    BY DEF Decisions!Init
  <2> HIDE DEF q
  <2> QED BY <2>1, <2>2
<1>2. /\ chatsStored = [c \in Decisions!Chat |-> chatsStored[c]]
      /\ \A c \in Decisions!Chat : chatsStored[c] = None
  BY DEF Decisions!Init
<1>3. messages \in Seq(Exchange) /\ Whole(messages, chat)
  BY DEF Decisions!Init, Whole
<1>4. asked \in Nat /\ chat \in Nat /\ chats \in Nat /\ conversationId = None
  BY DEF Decisions!Init
<1> QED BY <1>1, <1>2, <1>3, <1>4 DEF DecisionsInv

(* A new request *)
IsNewRequest(r, kind, of, content) ==
  IsRequest(r) /\ r.kind = kind /\ r.of = of /\ r.content = content /\ ~r.served

(* Asking adds one request. *)
LEMMA DecisionsAsked ==
  ASSUME NEW rs, NEW kind, NEW of, NEW content
  PROVE  \E r : /\ Decisions!Asked(rs, kind, of, content) = rs \cup {r}
                /\ IsNewRequest(r, kind, of, content)
<1> DEFINE r == [id |-> Decisions!Min((1 .. MaxChatRequests) \ {q.id : q \in rs}),
                 kind |-> kind, of |-> of, content |-> content, served |-> FALSE]
<1>1. IsNewRequest(r, kind, of, content)
  BY DEF IsNewRequest, IsRequest
<1>2. Decisions!Asked(rs, kind, of, content) = rs \cup {r}
  BY DEF Decisions!Asked
<1> HIDE DEF r
<1> QED BY <1>1, <1>2

(* Sequences with the identifiers and conversations of others are as whole. *)
LEMMA SameWhole ==
  ASSUME NEW es, NEW fs, NEW c, Whole(es, c), DOMAIN fs = DOMAIN es,
         \A i \in DOMAIN es : fs[i].id = es[i].id /\ fs[i].of = es[i].of
  PROVE  Whole(fs, c)
BY DEF Whole

(* A function made from a sequence, element by element, is a sequence. *)
LEMMA MappedIsSeq ==
  ASSUME NEW S, NEW T, NEW es \in Seq(S), NEW fs, DOMAIN fs = DOMAIN es,
         fs = [i \in DOMAIN fs |-> fs[i]], \A i \in DOMAIN es : fs[i] \in T
  PROVE  fs \in Seq(T)
<1>1. DOMAIN es = 1 .. Len(es)
  OBVIOUS
<1>2. fs \in [1 .. Len(es) -> T]
  BY <1>1
<1> QED BY <1>2

(* What is sent are the same exchanges. *)
LEMMA ContentWhole ==
  ASSUME NEW ms \in Seq(Exchange), NEW c, Whole(ms, c)
  PROVE  Decisions!Content(ms) \in Seq(Sent) /\ Whole(Decisions!Content(ms), c)
<1> DEFINE fs == Decisions!Content(ms)
<1>1. \A m \in Exchange : LET n == [m EXCEPT !.answered = @ = "yes"]
        IN  n \in Sent /\ n.id = m.id /\ n.of = m.of
  <2> SUFFICES ASSUME NEW m \in Exchange
               PROVE  LET n == [m EXCEPT !.answered = @ = "yes"]
                      IN  n \in Sent /\ n.id = m.id /\ n.of = m.of
    OBVIOUS
  <2> DEFINE yes == m.answered = "yes"
  <2>1. yes \in BOOLEAN /\ [m EXCEPT !.answered = @ = "yes"] = [m EXCEPT !.answered = yes]
    BY DEF Exchange
  <2> HIDE DEF yes
  <2>2. \A b \in BOOLEAN : LET n == [m EXCEPT !.answered = b]
          IN  n \in Sent /\ n.id = m.id /\ n.of = m.of
    BY DEF Exchange, Sent
  <2> QED BY <2>1, <2>2
<1>2. \A i \in DOMAIN ms : ms[i] \in Exchange
  OBVIOUS
<1>3. DOMAIN fs = DOMAIN ms /\ fs = [i \in DOMAIN fs |-> fs[i]]
  BY DEF Decisions!Content
<1>4. \A i \in DOMAIN ms : fs[i] \in Sent /\ fs[i].id = ms[i].id /\ fs[i].of = ms[i].of
  BY <1>1, <1>2 DEF Decisions!Content
<1> HIDE DEF fs
<1>5. fs \in Seq(Sent)
  BY <1>3, <1>4, MappedIsSeq
<1>6. Whole(fs, c)
  BY <1>3, <1>4, SameWhole
<1> QED BY <1>5, <1>6 DEF fs

(* Requests and conversations are kept by a step that asks nothing more. *)
LEMMA RequestsStay ==
  ASSUME asked' = asked, NEW r, RequestOk(r)
  PROVE  RequestOk(r)'
BY DEF RequestOk, IsConversation, Whole, Decisions!Chat

(* The effect on new messages that are whole, under an identifier that is   *)
(* theirs or none                                                           *)
LEMMA SaveEffectKeeps ==
  ASSUME DecisionsInv, NEW ms \in Seq(Exchange), NEW id, NEW ttl, NEW rs \in SUBSET chatsRequests,
         Decisions!SaveEffect(ms, id, ttl, rs),
         chat' \in Nat, chats' \in Nat, asked' = asked, chatsStored' = chatsStored,
         Whole(ms, chat'), id \in {None, chat'}
  PROVE  DecisionsInv'
<1> DEFINE save == ms # <<>> /\ Decisions!Last(ms).answered = "yes"
           content == [title |-> IF ttl = None THEN chat' ELSE ttl,
                       exchanges |-> Decisions!Content(ms)]
<1>1. /\ messages' = ms
      /\ conversationId' = IF save /\ id = None THEN chat' ELSE id
      /\ chatsRequests' = IF save THEN Decisions!Asked(rs, "save", conversationId', content) ELSE rs
  BY Zenon DEF Decisions!SaveEffect
<1> HIDE DEF save
<1>2. conversationId' \in {None, chat'} /\ (save => conversationId' = chat')
  BY <1>1
<1>3. content.exchanges = Decisions!Content(ms)
  OBVIOUS
<1>4. IsConversation(content, chat')
  BY <1>3, ContentWhole DEF IsConversation
<1> HIDE DEF content
<1>5. \A r \in chatsRequests' : RequestOk(r)
  <2>1. CASE save
    <3>1. PICK r : /\ chatsRequests' = rs \cup {r}
                   /\ IsNewRequest(r, "save", chat', content)
      BY <1>1, <1>2, <2>1, DecisionsAsked
    <3>2. RequestOk(r)
      BY <1>4, <3>1 DEF RequestOk, IsNewRequest
    <3> QED BY <3>1, <3>2 DEF DecisionsInv
  <2>2. CASE ~save
    BY <1>1, <2>2 DEF DecisionsInv
  <2> QED BY <2>1, <2>2
<1>6. \A r \in chatsRequests' : RequestOk(r)'
  BY <1>5, RequestsStay
<1>7. (\A c \in Decisions!Chat : chatsStored[c] # None => IsConversation(chatsStored[c], c))'
  BY DEF DecisionsInv, IsConversation, Whole, Decisions!Chat
<1>8. (chatsStored = [c \in Decisions!Chat |-> chatsStored[c]])'
  BY DEF DecisionsInv, Decisions!Chat
<1>9. messages' \in Seq(Exchange) /\ Whole(messages, chat)'
  BY <1>1 DEF Whole
<1> QED BY <1>2, <1>6, <1>7, <1>8, <1>9 DEF DecisionsInv

(* Requests may be dropped. *)
LEMMA DroppedKeeps ==
  ASSUME DecisionsInv, chatsRequests' \in SUBSET chatsRequests,
         UNCHANGED <<chatsStored, messages, conversationId, chat, chats, asked>>
  PROVE  DecisionsInv'
BY DEF DecisionsInv, RequestOk, IsConversation, Whole, Decisions!Chat

(* A request that stores nothing may be added. *)
LEMMA AskedKeeps ==
  ASSUME DecisionsInv, NEW r, chatsRequests' = chatsRequests \cup {r}, IsRequest(r),
         r.kind = "history" \/ (r.kind = "load" /\ r.of \in Decisions!Chat /\ ~r.served),
         UNCHANGED <<chatsStored, messages, conversationId, chat, chats, asked>>
  PROVE  DecisionsInv'
<1>1. RequestOk(r)
  BY DEF RequestOk
<1>2. \A q \in chatsRequests' : RequestOk(q)
  BY <1>1 DEF DecisionsInv
<1> QED BY <1>2 DEF DecisionsInv, RequestOk, IsConversation, Whole, Decisions!Chat

(* A new conversation begins empty. *)
LEMMA BegunKeeps ==
  ASSUME DecisionsInv, chat' = chats + 1, chats' = chats + 1, messages' = <<>>,
         conversationId' = None, UNCHANGED <<chatsStored, asked>>,
         \A r \in chatsRequests' : RequestOk(r)
  PROVE  DecisionsInv'
<1>1. messages' \in Seq(Exchange) /\ Whole(messages, chat)'
  BY DEF Whole
<1>2. chat' \in Nat /\ chats' \in Nat
  BY DEF DecisionsInv
<1> QED BY <1>1, <1>2 DEF DecisionsInv, RequestOk, IsConversation, Whole, Decisions!Chat

(* What reaches one exchange leaves the conversation whole. *)
LEMMA PatchedWhole ==
  ASSUME DecisionsInv, NEW answered \in {"streaming", "yes"}
  PROVE  Decisions!Patched(answered) \in Seq(Exchange) /\ Whole(Decisions!Patched(answered), chat)
<1> DEFINE fs == Decisions!Patched(answered)
<1>1. messages \in Seq(Exchange) /\ Whole(messages, chat)
  BY DEF DecisionsInv
<1>2. \A m \in Exchange : LET n == [m EXCEPT !.answered = answered]
        IN  n \in Exchange /\ n.id = m.id /\ n.of = m.of
  BY DEF Exchange
<1>3. \A i \in DOMAIN messages : messages[i] \in Exchange
  BY <1>1
<1>4. DOMAIN fs = DOMAIN messages /\ fs = [i \in DOMAIN fs |-> fs[i]]
  BY DEF Decisions!Patched
<1>5. \A i \in DOMAIN messages :
        fs[i] \in Exchange /\ fs[i].id = messages[i].id /\ fs[i].of = messages[i].of
  BY <1>2, <1>3 DEF Decisions!Patched
<1> HIDE DEF fs
<1>6. fs \in Seq(Exchange)
  BY <1>1, <1>4, <1>5, MappedIsSeq
<1>7. Whole(fs, chat)
  BY <1>1, <1>4, <1>5, SameWhole
<1> QED BY <1>6, <1>7 DEF fs

(* What a load has brought is shown as it was stored. *)
LoadedExchanges(es) ==
  [i \in DOMAIN es |-> [es[i] EXCEPT !.answered = IF @ THEN "yes" ELSE "no"]]

(* A conversation that was loaded is as whole as the stored one. *)
LEMMA LoadedWhole ==
  ASSUME NEW v, NEW c, IsConversation(v, c)
  PROVE  LoadedExchanges(v.exchanges) \in Seq(Exchange) /\ Whole(LoadedExchanges(v.exchanges), c)
<1> DEFINE es == v.exchanges
           fs == LoadedExchanges(es)
<1>1. es \in Seq(Sent) /\ Whole(es, c)
  BY DEF IsConversation
<1> HIDE DEF es
<1>2. \A m \in Sent : LET n == [m EXCEPT !.answered = IF @ THEN "yes" ELSE "no"]
        IN  n \in Exchange /\ n.id = m.id /\ n.of = m.of
  BY DEF Exchange, Sent
<1>3. \A i \in DOMAIN es : es[i] \in Sent
  BY <1>1
<1>4. DOMAIN fs = DOMAIN es /\ fs = [i \in DOMAIN fs |-> fs[i]]
  BY DEF LoadedExchanges
<1>5. \A i \in DOMAIN es :
        fs[i] \in Exchange /\ fs[i].id = es[i].id /\ fs[i].of = es[i].of
  BY <1>2, <1>3 DEF LoadedExchanges
<1> HIDE DEF fs
<1>6. fs \in Seq(Exchange)
  BY <1>1, <1>4, <1>5, MappedIsSeq
<1>7. Whole(fs, c)
  BY <1>1, <1>4, <1>5, SameWhole
<1> QED BY <1>6, <1>7 DEF fs, es

(* One step of the page, a stream or the server *)
LEMMA DecisionsNext == DecisionsInv /\ Decisions!Next => DecisionsInv'
<1> SUFFICES ASSUME DecisionsInv, Decisions!Next PROVE DecisionsInv'
  OBVIOUS
<1>1. CASE Decisions!StartNew
  <2>1. \A r \in chatsRequests' : RequestOk(r)
    BY <1>1 DEF Decisions!StartNew, DecisionsInv
  <2> QED BY <1>1, <2>1, BegunKeeps DEF Decisions!StartNew
<1>2. CASE Decisions!Reopen
  <2> DEFINE kept == {r \in chatsRequests : r.kind = "save"}
  <2>1. PICK r : chatsRequests' = kept \cup {r} /\ IsNewRequest(r, "history", None, None)
    BY <1>2, DecisionsAsked DEF Decisions!Reopen
  <2>2. \A q \in chatsRequests' : RequestOk(q)
    BY <2>1 DEF RequestOk, IsNewRequest, DecisionsInv
  <2> QED BY <1>2, <2>2, BegunKeeps DEF Decisions!Reopen
<1>3. CASE Decisions!Send
  <2> DEFINE m == [id |-> asked + 1, of |-> chat, answered |-> "streaming"]
             ms == Append(messages, m)
  <2>1. /\ messages' = ms /\ asked' = asked + 1
        /\ UNCHANGED <<chatsStored, conversationId, chat, chats, chatsRequests>>
    BY <1>3 DEF Decisions!Send
  <2>2. /\ asked \in Nat /\ chat \in Nat /\ messages \in Seq(Exchange)
        /\ \A i \in DOMAIN messages : messages[i].of = chat /\ messages[i].id <= asked
        /\ \A i, j \in DOMAIN messages : i < j => messages[i].id < messages[j].id
    BY DEF DecisionsInv, Whole
  <2>3. m \in Exchange /\ m.id = asked + 1 /\ m.of = chat
    BY <2>2 DEF Exchange
  <2> HIDE DEF m
  <2>4. /\ ms \in Seq(Exchange) /\ DOMAIN ms = 1 .. Len(messages) + 1
        /\ ms[Len(messages) + 1] = m
        /\ \A i \in 1 .. Len(messages) : i \in DOMAIN messages /\ ms[i] = messages[i]
    BY <2>2, <2>3
  <2>5. \A i \in DOMAIN messages : messages[i].id \in Nat
    <3>1. \A i \in DOMAIN messages : messages[i] \in Exchange
      BY <2>2
    <3> QED BY <3>1 DEF Exchange
  <2> HIDE DEF ms
  <2>6. \A i \in DOMAIN ms : ms[i].of = chat /\ ms[i].id <= asked + 1
    BY <2>2, <2>3, <2>4, <2>5
  <2>7. \A i, j \in DOMAIN ms : i < j => ms[i].id < ms[j].id
    <3> SUFFICES ASSUME NEW i \in DOMAIN ms, NEW j \in DOMAIN ms, i < j
                 PROVE  ms[i].id < ms[j].id
      OBVIOUS
    <3>1. Len(messages) \in Nat /\ i \in 1 .. Len(messages)
      BY <2>2, <2>4
    <3>2. CASE j \in 1 .. Len(messages)
      BY <2>2, <2>4, <3>1, <3>2
    <3>3. CASE j = Len(messages) + 1
      BY <2>2, <2>3, <2>4, <2>5, <3>1, <3>3
    <3> QED BY <2>4, <3>1, <3>2, <3>3
  <2>8. Whole(messages, chat)'
    BY <2>1, <2>6, <2>7 DEF Whole
  <2>9. \A v, c : IsConversation(v, c) =>
          /\ v.exchanges \in Seq(Sent)
          /\ \A i \in DOMAIN v.exchanges : v.exchanges[i].of = c /\ v.exchanges[i].id <= asked + 1
          /\ \A i, j \in DOMAIN v.exchanges : i < j => v.exchanges[i].id < v.exchanges[j].id
    <3> SUFFICES ASSUME NEW v, NEW c, IsConversation(v, c)
                 PROVE  /\ v.exchanges \in Seq(Sent)
                        /\ \A i \in DOMAIN v.exchanges :
                             v.exchanges[i].of = c /\ v.exchanges[i].id <= asked + 1
                        /\ \A i, j \in DOMAIN v.exchanges :
                             i < j => v.exchanges[i].id < v.exchanges[j].id
      OBVIOUS
    <3>1. v.exchanges \in Seq(Sent) /\ Whole(v.exchanges, c)
      BY DEF IsConversation
    <3>2. \A i \in DOMAIN v.exchanges : v.exchanges[i].id \in Nat
      <4>1. \A i \in DOMAIN v.exchanges : v.exchanges[i] \in Sent
        BY <3>1
      <4> QED BY <4>1 DEF Sent
    <3> QED BY <2>2, <3>1, <3>2 DEF Whole
  <2>10. \A r \in chatsRequests : RequestOk(r)'
    <3> SUFFICES ASSUME NEW r \in chatsRequests PROVE RequestOk(r)'
      OBVIOUS
    <3>1. RequestOk(r)
      BY DEF DecisionsInv
    <3>2. IsConversation(r.content, r.of) => IsConversation(r.content, r.of)'
      <4> DEFINE v == r.content
                 c == r.of
      <4> HIDE DEF v, c
      <4>1. IsConversation(v, c) => IsConversation(v, c)'
        BY <2>1, <2>9 DEF IsConversation, Whole
      <4> QED BY <4>1 DEF v, c
    <3> QED BY <3>1, <3>2 DEF RequestOk, Decisions!Chat
  <2>11. (\A c \in Decisions!Chat : chatsStored[c] # None => IsConversation(chatsStored[c], c))'
    <3> SUFFICES ASSUME NEW c \in Decisions!Chat, chatsStored[c] # None
                 PROVE  IsConversation(chatsStored[c], c)'
      BY <2>1 DEF Decisions!Chat
    <3> DEFINE v == chatsStored[c]
    <3>1. IsConversation(v, c)
      BY DEF DecisionsInv
    <3>2. v' = v
      BY <2>1
    <3> HIDE DEF v
    <3>3. IsConversation(v, c)'
      BY <2>1, <2>9, <3>1, <3>2 DEF IsConversation, Whole
    <3> QED BY <3>3 DEF v
  <2> QED BY <2>1, <2>2, <2>4, <2>8, <2>10, <2>11 DEF DecisionsInv, Decisions!Chat
<1>4. ASSUME NEW c \in Decisions!Chat, Decisions!LoadConversation(c)
      PROVE  DecisionsInv'
  <2>1. PICK r : chatsRequests' = chatsRequests \cup {r} /\ IsNewRequest(r, "load", c, None)
    BY <1>4, DecisionsAsked DEF Decisions!LoadConversation
  <2>2. UNCHANGED <<chatsStored, messages, conversationId, chat, chats, asked>>
    BY <1>4 DEF Decisions!LoadConversation, Decisions!pageVars
  <2> QED BY <2>1, <2>2, AskedKeeps DEF IsNewRequest
<1>5. CASE Decisions!Delta
  <2>1. Decisions!SaveEffect(Decisions!Patched("streaming"), conversationId, title, chatsRequests)
    BY <1>5 DEF Decisions!Delta
  <2>2. UNCHANGED <<chatsStored, chat, chats, asked>>
    BY <1>5 DEF Decisions!Delta
  <2>3. chat' \in Nat /\ chats' \in Nat /\ conversationId \in {None, chat'}
    BY <2>2 DEF DecisionsInv
  <2> QED BY <2>1, <2>2, <2>3, PatchedWhole, SaveEffectKeeps
<1>6. CASE Decisions!Settle
  <2>1. PICK ttl :
          Decisions!SaveEffect(Decisions!Patched("yes"), conversationId, ttl, chatsRequests)
    BY <1>6 DEF Decisions!Settle
  <2>2. UNCHANGED <<chatsStored, chat, chats, asked>>
    BY <1>6 DEF Decisions!Settle
  <2>3. chat' \in Nat /\ chats' \in Nat /\ conversationId \in {None, chat'}
    BY <2>2 DEF DecisionsInv
  <2> QED BY <2>1, <2>2, <2>3, PatchedWhole, SaveEffectKeeps
<1>7. CASE Decisions!EndWithoutDone
  BY <1>7, DroppedKeeps DEF Decisions!EndWithoutDone
<1>8. ASSUME NEW r \in chatsRequests, Decisions!Serve(r)
      PROVE  DecisionsInv'
  <2> DEFINE x == IF r.kind = "history" THEN {c \in Decisions!Chat : chatsStored[c] # None}
                  ELSE IF r.kind = "load" THEN chatsStored[r.of] ELSE None
             q == [r EXCEPT !.served = TRUE, !.content = x]
  <2>1. RequestOk(r)
    BY DEF DecisionsInv
  <2>2. /\ IsRequest(q) /\ q.kind = r.kind /\ q.of = r.of /\ q.content = x
        /\ q.served = TRUE
    <3> HIDE DEF x
    <3> QED BY <2>1 DEF RequestOk, IsRequest
  <2>3. chatsRequests' = (chatsRequests \ {r}) \cup {q}
    BY <1>8 DEF Decisions!Serve
  <2>4. r.kind = "load" => r.of \in Decisions!Chat /\ x = chatsStored[r.of]
    BY <2>1 DEF RequestOk
  <2> HIDE DEF q, x
  <2>5. RequestOk(q)
    BY <2>2, <2>4 DEF RequestOk, DecisionsInv
  <2>6. UNCHANGED <<messages, conversationId, chat, chats, asked>>
    BY <1>8 DEF Decisions!Serve, Decisions!pageVars
  <2>7. /\ (chatsStored = [c \in Decisions!Chat |-> chatsStored[c]])'
        /\ \A c \in Decisions!Chat : chatsStored'[c] # None => IsConversation(chatsStored'[c], c)
    <3>1. CASE r.kind = "save"
      <4>1. chatsStored' = [chatsStored EXCEPT ![r.of] = r.content]
        BY <1>8, <3>1 DEF Decisions!Serve
      <4>2. IsConversation(r.content, r.of)
        BY <1>8, <2>1, <3>1 DEF Decisions!Serve, RequestOk
      <4>3. /\ chatsStored = [c \in Decisions!Chat |-> chatsStored[c]]
            /\ \A c \in Decisions!Chat : chatsStored[c] # None => IsConversation(chatsStored[c], c)
        BY DEF DecisionsInv
      <4>4. \A c \in Decisions!Chat :
              chatsStored'[c] = IF c = r.of THEN r.content ELSE chatsStored[c]
        BY <4>1, <4>3
      <4> QED BY <4>1, <4>2, <4>3, <4>4 DEF Decisions!Chat
    <3>2. CASE r.kind # "save"
      BY <1>8, <3>2 DEF Decisions!Serve, DecisionsInv, Decisions!Chat
    <3> QED BY <3>1, <3>2
  <2>8. \A p \in chatsRequests' : RequestOk(p)
    BY <2>3, <2>5 DEF DecisionsInv
  <2> QED BY <2>6, <2>7, <2>8 DEF DecisionsInv, RequestOk, IsConversation, Whole, Decisions!Chat
<1>9. ASSUME NEW r \in chatsRequests, Decisions!HistoryAnswered(r)
      PROVE  DecisionsInv'
  BY <1>9, DroppedKeeps DEF Decisions!HistoryAnswered
<1>10. ASSUME NEW r \in chatsRequests, Decisions!SaveAnswered(r)
       PROVE  DecisionsInv'
  <2> DEFINE rs == chatsRequests \ {r}
  <2>1. PICK q : chatsRequests' = rs \cup {q} /\ IsNewRequest(q, "history", None, None)
    BY <1>10, DecisionsAsked DEF Decisions!SaveAnswered
  <2>2. UNCHANGED <<chatsStored, messages, conversationId, chat, chats, asked>>
    BY <1>10 DEF Decisions!SaveAnswered, Decisions!pageVars
  <2>4. IsRequest(q) /\ q.kind = "history"
    BY <2>1 DEF IsNewRequest
  <2>5. chatsRequests' = rs \cup {q}
    BY <2>1
  <2>6. RequestOk(q)
    BY <2>4 DEF RequestOk
  <2>7. \A p \in chatsRequests' : RequestOk(p)
    BY <2>5, <2>6 DEF DecisionsInv
  <2> QED BY <2>2, <2>7 DEF DecisionsInv, RequestOk, IsConversation, Whole, Decisions!Chat
<1>11. ASSUME NEW r \in chatsRequests, Decisions!LoadAnswered(r)
       PROVE  DecisionsInv'
  <2>1. IsConversation(r.content, r.of) /\ r.of \in Decisions!Chat
    BY <1>11 DEF Decisions!LoadAnswered, DecisionsInv, RequestOk
  <2>2. Decisions!SaveEffect(LoadedExchanges(r.content.exchanges), r.of, r.content.title,
                             chatsRequests \ {r})
    BY <1>11 DEF Decisions!LoadAnswered, LoadedExchanges
  <2>3. chat' = r.of /\ UNCHANGED <<chatsStored, chats, asked>>
    BY <1>11 DEF Decisions!LoadAnswered
  <2>4. chat' \in Nat /\ chats' \in Nat
    BY <2>1, <2>3 DEF DecisionsInv, Decisions!Chat
  <2> QED BY <2>1, <2>2, <2>3, <2>4, LoadedWhole, SaveEffectKeeps
<1>12. ASSUME NEW r \in chatsRequests, Decisions!Failed(r)
       PROVE  DecisionsInv'
  BY <1>12, DroppedKeeps DEF Decisions!Failed, Decisions!pageVars
<1> QED
  BY <1>1, <1>2, <1>3, <1>4, <1>5, <1>6, <1>7, <1>8, <1>9, <1>10, <1>11, <1>12
     DEF Decisions!Next, Decisions!Researcher, Decisions!Network

-----------------------------------------------------------------------------
(* The chats and the conversations in the browser *)

ChatsInv ==
  /\ area = "asking" => AskingInv
  /\ area = "decisions" => DecisionsInv

(* The chats and the conversations keep their invariants. *)
LEMMA ChatsInvariant == Spec => []ChatsInv
<1>1. Init => ChatsInv
  BY AskingInit, DecisionsInit DEF Init, ChatsInv
<1>2. ChatsInv /\ [Next]_vars => ChatsInv'
  <2> SUFFICES ASSUME ChatsInv, [Next]_vars PROVE ChatsInv'
    OBVIOUS
  <2>1. CASE InAsking
    BY <2>1, AskingNext DEF InAsking, ChatsInv
  <2>2. CASE InDecisions
    BY <2>2, DecisionsNext DEF InDecisions, ChatsInv
  <2>3. CASE InEditors \/ InInsights \/ InReports
    BY <2>3 DEF InEditors, InInsights, InReports, ChatsInv
  <2>4. CASE UNCHANGED vars
    <3>1. AskingInv' <=> AskingInv
      BY <2>4 DEF vars, askingVars, AskingInv
    <3>2. DecisionsInv' <=> DecisionsInv
      BY <2>4 DEF vars, decisionsVars, DecisionsInv, RequestOk, IsConversation, Whole,
         Decisions!Chat
    <3> QED BY <2>4, <3>1, <3>2 DEF vars, ChatsInv
  <2> QED BY <2>1, <2>2, <2>3, <2>4 DEF Next
<1> QED BY <1>1, <1>2, PTL DEF Spec

(* An answer stands under the question it answers, whatever streams run at  *)
(* a time and however often the chats are closed and opened in between.     *)
THEOREM AnswersStand == Spec => []AnswersFitQuestions
<1>1. ASSUME NEW c, ChatOk(c)
      PROVE  /\ \A b \in Asking!Range(Asking!Bubbles(c)) :
                  IF b.dots THEN b.answers \in c.streams
                  ELSE b.text \in {b.answers, Asking!NoAnswer}
             /\ c.isSending => c.streams # {}
  <2>1. ASSUME NEW i \in DOMAIN c.messages
        PROVE  LET b == Asking!Bubble(c.messages[i])
               IN  IF b.dots THEN b.answers \in c.streams
                   ELSE b.text \in {b.answers, Asking!NoAnswer}
    BY <1>1, <2>1 DEF ChatOk, MessageOk, Asking!Bubble
  <2> QED BY <1>1, <2>1 DEF ChatOk, Asking!Range, Asking!Bubbles
<1>2. ChatsInv => AnswersFitQuestions
  BY <1>1 DEF ChatsInv, AskingInv, AnswersFitQuestions, Asking!AnswersFitQuestions
<1> QED BY <1>2, ChatsInvariant, PTL

(* A stored conversation is one conversation, in the order in which its     *)
(* questions were asked, whatever loads, saves and streams overtake each    *)
(* other.                                                                  *)
THEOREM ConversationsStayWhole == Spec => []ConversationsAreWhole
<1>1. ChatsInv => ConversationsAreWhole
  BY DEF ChatsInv, DecisionsInv, IsConversation, Whole, ConversationsAreWhole,
     Decisions!ConversationsAreWhole
<1> QED BY <1>1, ChatsInvariant, PTL

-----------------------------------------------------------------------------
(* The screener *)

(* Marks are of options the question has; free text has none. *)
Gradable(q) ==
  /\ q \in [id : {q.id}, type : {"single_choice", "multi_choice", "free_text"}, options : Nat,
            pass : SUBSET Nat]
  /\ \A k \in q.pass : k < q.options
  /\ q.type = "free_text" => q.options = 0

AllGradable(qs) == IsSeq(qs) /\ \A i \in DOMAIN qs : Gradable(qs[i])

ScreenerInv == AllGradable(questions) /\ AllGradable(screener)

(* A question of a choice with marks of its options is gradable. *)
LEMMA ChoiceGradable ==
  ASSUME NEW id, NEW type \in {"single_choice", "multi_choice"}, NEW options \in Nat,
         NEW pass \in SUBSET Nat, \A k \in pass : k < options
  PROVE  Gradable(Editors!Screener!Question(id, type, options, pass))
BY DEF Editors!Screener!Question, Gradable

(* The questions the tab begins with are gradable. *)
LEMMA DefaultGradable == AllGradable(Editors!Screener!DefaultQuestions)
<1> DEFINE q == Editors!Screener!Question(1, "single_choice", 4, {0, 1, 2})
           r == Editors!Screener!Question(2, "single_choice", 2, {0})
<1>1. Gradable(q) /\ Gradable(r)
  BY ChoiceGradable
<1>2. Editors!Screener!DefaultQuestions = <<q, r>>
  BY DEF Editors!Screener!DefaultQuestions
<1> HIDE DEF q, r
<1>3. <<q, r>> \in Seq({q, r}) /\ \A i \in DOMAIN <<q, r>> : <<q, r>>[i] \in {q, r}
  OBVIOUS
<1>4. IsSeq(<<q, r>>)
  BY <1>3, SeqIsSeq
<1> QED BY <1>1, <1>2, <1>3, <1>4 DEF AllGradable

(* So are the stored ones. *)
LEMMA ScreenerInit == Editors!Screener!Init => ScreenerInv
<1> SUFFICES ASSUME Editors!Screener!Init PROVE ScreenerInv
  OBVIOUS
<1>3. AllGradable(<<>>)
  <2>1. <<>> \in Seq({}) /\ DOMAIN <<>> = {}
    OBVIOUS
  <2>2. IsSeq(<<>>)
    BY <2>1, SeqIsSeq
  <2> QED BY <2>1, <2>2 DEF AllGradable
<1>4. AllGradable(<< Editors!Screener!Question(1, "multi_choice", 3, {2}) >>)
  <2> DEFINE q == Editors!Screener!Question(1, "multi_choice", 3, {2})
  <2>1. Gradable(q)
    BY ChoiceGradable
  <2> HIDE DEF q
  <2>2. <<q>> \in Seq({q}) /\ \A i \in DOMAIN <<q>> : <<q>>[i] \in {q}
    OBVIOUS
  <2>3. IsSeq(<<q>>)
    BY <2>2, SeqIsSeq
  <2> QED BY <2>1, <2>2, <2>3 DEF AllGradable, q
<1> QED BY <1>3, <1>4, DefaultGradable
        DEF Editors!Screener!Init, Editors!Screener!NoScreener, ScreenerInv

(* A change of one question that leaves it gradable *)
LEMMA QuestionChanged ==
  ASSUME NEW qs, AllGradable(qs), NEW i \in DOMAIN qs, NEW q, Gradable(q)
  PROVE  AllGradable([qs EXCEPT ![i] = q])
<1> DEFINE t == [qs EXCEPT ![i] = q]
<1>1. /\ IsSeq(t) /\ DOMAIN t = DOMAIN qs
      /\ \A j \in DOMAIN qs : t[j] = IF j = i THEN q ELSE qs[j]
  BY ChangedElement DEF AllGradable
<1> HIDE DEF t
<1>2. AllGradable(t)
  BY <1>1 DEF AllGradable
<1> QED BY <1>2 DEF t

(* A change of a question's type takes its marks. *)
LEMMA RetypedGradable ==
  ASSUME NEW q, Gradable(q), NEW type \in {"single_choice", "multi_choice", "free_text"}
  PROVE  Gradable(Editors!Screener!Retyped(q, type))
<1> DEFINE n == IF type = "free_text" THEN 0 ELSE IF q.options > 0 THEN q.options ELSE 2
           new == [q EXCEPT !.type = type, !.pass = {}, !.options = n]
<1>1. n \in Nat /\ (type = "free_text" => n = 0)
  BY DEF Gradable
<1>2. Editors!Screener!Retyped(q, type) = new
  BY DEF Gradable, Editors!Screener!Retyped
<1> HIDE DEF n
<1>3. Gradable(new)
  BY <1>1 DEF Gradable
<1> QED BY <1>2, <1>3

(* A change of its options takes the marks of those that are gone. *)
LEMMA ResizedGradable ==
  ASSUME NEW q, Gradable(q), NEW n \in Nat, q.type # "free_text"
  PROVE  Gradable(Editors!Screener!Resized(q, n))
BY DEF Gradable, Editors!Screener!Resized

(* A mark is put on an option there is, or taken off. *)
LEMMA ToggledGradable ==
  ASSUME NEW q, Gradable(q), NEW k \in Nat, k < q.options
  PROVE  Gradable([q EXCEPT !.pass = (@ \ {k}) \cup ({k} \ @)])
BY DEF Gradable

(* One step of the screener's tab, or of a load *)
LEMMA ScreenerNext == ScreenerInv /\ Editors!Screener!Next => ScreenerInv'
<1> SUFFICES ASSUME ScreenerInv, Editors!Screener!Next PROVE ScreenerInv'
  OBVIOUS
<1>0. /\ AllGradable(questions) /\ AllGradable(screener)
      /\ IsSeq(questions) /\ Len(questions) \in Nat /\ DOMAIN questions = 1 .. Len(questions)
  BY SeqIsSeq DEF ScreenerInv, AllGradable, IsSeq
<1>1. ASSUME NEW i \in DOMAIN screenerLoads,
             Editors!Screener!ScreenerListed(i) \/ Editors!Screener!LoadQuestions(i)
      PROVE  ScreenerInv'
  BY <1>1 DEF Editors!Screener!ScreenerListed, Editors!Screener!LoadQuestions, ScreenerInv,
     AllGradable, IsSeq
<1>2. CASE Editors!Screener!Reopen
  <2>1. AllGradable(Editors!Screener!DefaultQuestions)
    BY DefaultGradable
  <2>2. questions' = Editors!Screener!DefaultQuestions /\ UNCHANGED screener
    BY <1>2 DEF Editors!Screener!Reopen
  <2> QED BY <1>0, <2>1, <2>2 DEF ScreenerInv
<1>3. CASE Editors!Screener!AddQuestion
  <2> DEFINE q == Editors!Screener!Question(Editors!Screener!NewId, "single_choice", 2, {})
  <2>1. questions' = Append(questions, q) /\ UNCHANGED screener
    BY <1>3 DEF Editors!Screener!AddQuestion, Editors!Screener!Edits
  <2>2. Gradable(q)
    BY DEF Gradable, Editors!Screener!Question
  <2> HIDE DEF q
  <2> DEFINE t == Append(questions, q)
  <2>3. IsSeq(t) /\ \A j \in DOMAIN t : t[j] = q \/ \E k \in DOMAIN questions : t[j] = questions[k]
    BY <1>0, AppendedElement
  <2> HIDE DEF t
  <2>4. AllGradable(t)
    BY <1>0, <2>2, <2>3 DEF AllGradable
  <2> QED BY <1>0, <2>1, <2>4 DEF ScreenerInv, t
<1>4. ASSUME NEW i \in DOMAIN questions, Editors!Screener!RemoveQuestion(i)
      PROVE  ScreenerInv'
  <2> DEFINE t == Without(questions, i)
  <2>1. questions' = t /\ UNCHANGED screener
    BY <1>4 DEF Editors!Screener!RemoveQuestion, Editors!Screener!Edits, Editors!Screener!RemoveAt,
       Without
  <2>2. IsSeq(t) /\ \A j \in DOMAIN t : \E k \in DOMAIN questions : t[j] = questions[k]
    BY <1>0, WithoutElement
  <2> HIDE DEF t
  <2>3. AllGradable(t)
    BY <1>0, <2>2 DEF AllGradable
  <2> QED BY <1>0, <2>1, <2>3 DEF ScreenerInv
<1>5. ASSUME NEW i \in DOMAIN questions, NEW j \in DOMAIN questions,
             Editors!Screener!MoveQuestion(i, j)
      PROVE  ScreenerInv'
  <2> DEFINE s == Without(questions, i)
             t == With(s, j, questions[i])
  <2>1. questions' = t /\ UNCHANGED screener
    BY <1>5 DEF Editors!Screener!MoveQuestion, Editors!Screener!Edits,
       Editors!Screener!RemoveAt, Editors!Screener!InsertAt, With, Without
  <2>2. IsSeq(s) /\ \A k \in DOMAIN s : \E l \in DOMAIN questions : s[k] = questions[l]
    BY <1>0, WithoutElement
  <2>3. Len(s) = Len(questions) - 1
    BY <1>0, RemovedAt DEF IsSeq, Without
  <2> HIDE DEF s
  <2>4. j \in 1 .. Len(s) + 1
    BY <1>0, <2>3
  <2>5. IsSeq(t) /\ \A k \in DOMAIN t : t[k] = questions[i] \/ \E l \in DOMAIN s : t[k] = s[l]
    BY <2>2, <2>4, WithElement
  <2> HIDE DEF t
  <2>6. AllGradable(t)
    BY <1>0, <2>2, <2>5 DEF AllGradable
  <2> QED BY <1>0, <2>1, <2>6 DEF ScreenerInv
<1>6. ASSUME NEW i \in DOMAIN questions,
             NEW type \in {"single_choice", "multi_choice", "free_text"},
             Editors!Screener!SetType(i, type)
      PROVE  ScreenerInv'
  <2>1. /\ questions' = [questions EXCEPT ![i] = Editors!Screener!Retyped(@, type)]
        /\ UNCHANGED screener
    BY <1>6 DEF Editors!Screener!SetType, Editors!Screener!Edits
  <2>2. Gradable(Editors!Screener!Retyped(questions[i], type))
    BY <1>0, RetypedGradable DEF AllGradable
  <2> QED BY <1>0, <2>1, <2>2, QuestionChanged DEF ScreenerInv
<1>7. ASSUME NEW i \in DOMAIN questions, NEW n \in Nat, questions[i].type # "free_text",
             Editors!Screener!SetOptions(i, n)
      PROVE  ScreenerInv'
  <2>1. /\ questions' = [questions EXCEPT ![i] = Editors!Screener!Resized(@, n)]
        /\ UNCHANGED screener
    BY <1>7 DEF Editors!Screener!SetOptions, Editors!Screener!Edits
  <2>2. Gradable(Editors!Screener!Resized(questions[i], n))
    BY <1>0, <1>7, ResizedGradable DEF AllGradable
  <2> QED BY <1>0, <2>1, <2>2, QuestionChanged DEF ScreenerInv
<1>8. ASSUME NEW i \in DOMAIN questions, NEW k \in 0 .. MaxOptions - 1,
             Editors!Screener!TogglePassOption(i, k)
      PROVE  ScreenerInv'
  <2> DEFINE q == [questions[i] EXCEPT !.pass = (@ \ {k}) \cup ({k} \ @)]
  <2>1. /\ questions' = [questions EXCEPT ![i].pass = (@ \ {k}) \cup ({k} \ @)]
        /\ UNCHANGED screener /\ k < questions[i].options
    BY <1>8 DEF Editors!Screener!TogglePassOption, Editors!Screener!Edits
  <2>2. [questions EXCEPT ![i].pass = (@ \ {k}) \cup ({k} \ @)] = [questions EXCEPT ![i] = q]
    OBVIOUS
  <2>3. Gradable(q)
    BY <1>0, <2>1, ToggledGradable, ResearcherAssumption DEF AllGradable
  <2> HIDE DEF q
  <2> QED BY <1>0, <2>1, <2>2, <2>3, QuestionChanged DEF ScreenerInv
<1>9. ASSUME NEW i \in DOMAIN questions, Editors!Screener!OptionsList(i)
      PROVE  ScreenerInv'
  <2>1. Gradable(questions[i]) /\ questions[i].options \in Nat
    BY <1>0 DEF AllGradable, Gradable
  <2>2. questions[i].type \in Editors!Screener!Choice => questions[i].type # "free_text"
    BY DEF Editors!Screener!Choice
  <2>3. CASE Editors!Screener!AddOption(i)
    BY <1>7, <2>1, <2>2, <2>3 DEF Editors!Screener!AddOption
  <2>4. CASE Editors!Screener!RemoveOption(i)
    BY <1>7, <2>1, <2>2, <2>4 DEF Editors!Screener!RemoveOption
  <2> QED BY <1>8, <1>9, <2>3, <2>4 DEF Editors!Screener!OptionsList
<1> QED
  BY <1>1, <1>2, <1>3, <1>4, <1>5, <1>6, <1>9
     DEF Editors!Screener!Next, Editors!Screener!ScreenerTab, Editors!Screener!ScreenerCard,
         Editors!Screener!Choice

(* Questions that are gradable are counted as the summary says. *)
LEMMA GradableCounts == ScreenerInv => Editors!Screener!PassMarksAreOptions
<1> SUFFICES ASSUME ScreenerInv PROVE Editors!Screener!PassMarksAreOptions
  OBVIOUS
<1>1. ASSUME NEW i \in DOMAIN questions
      PROVE  /\ \A k \in questions[i].pass : k < questions[i].options
             /\ questions[i].type = "free_text" => questions[i].options = 0
             /\ Editors!Screener!HasPassLogic(questions[i]) <=>
                  \/ questions[i].type = "free_text"
                  \/ \E k \in 0 .. questions[i].options - 1 : k \in questions[i].pass
  BY DEF ScreenerInv, AllGradable, Gradable, Editors!Screener!HasPassLogic
<1>2. {i \in DOMAIN questions : Editors!Screener!HasPassLogic(questions[i])} =
        {i \in DOMAIN questions :
           \/ questions[i].type = "free_text"
           \/ \E k \in 0 .. questions[i].options - 1 : k \in questions[i].pass}
  BY <1>1
<1>3. Editors!Screener!ScreenerSummary =
        Editors!Screener!Cardinality(
          {i \in DOMAIN questions : Editors!Screener!HasPassLogic(questions[i])})
  BY DEF Editors!Screener!ScreenerSummary, Editors!Screener!Quantify
<1> QED BY <1>1, <1>2, <1>3 DEF Editors!Screener!PassMarksAreOptions

-----------------------------------------------------------------------------
(* The stimuli *)

(* A request is a record of these fields. *)
IsChange(r) == r \in [id : {r.id}, steps : {r.steps}, failed : {r.failed}, result : {r.result}]

(* Two changes are under way: the researcher clicked before an answer. *)
Overlap == \E q, r \in requests : q # r

(* With at most one request in flight, what a load has brought is stored. *)
StimuliInv ==
  /\ \A r \in requests : requests = {r} /\ IsChange(r)
  /\ \A r \in requests : [kind |-> "loaded"] \in r.steps =>
       r.steps = {[kind |-> "loaded"]} /\ r.result = stored
  /\ Editors!Stimuli!ShownIsStored

(* The tab begins with what is stored, and nothing in flight. *)
LEMMA StimuliInit == Editors!Stimuli!Init => StimuliInv
BY DEF Editors!Stimuli!Init, StimuliInv, Editors!Stimuli!ShownIsStored

(* Asking for changes, when nothing else is in flight afterwards *)
LEMMA AskKeeps ==
  ASSUME StimuliInv, ~Overlap', NEW steps, [kind |-> "loaded"] \notin steps,
         Editors!Stimuli!Ask(steps)
  PROVE  StimuliInv'
<1> DEFINE r == [id |-> Editors!Stimuli!NewRequest(requests), steps |-> steps, failed |-> FALSE,
                 result |-> Editors!Stimuli!NoBlocks]
<1>1. requests' = requests \cup {r} /\ UNCHANGED <<stored, shown, stale>>
  BY DEF Editors!Stimuli!Ask
<1>2. r.steps = steps /\ IsChange(r)
  BY DEF IsChange
<1> HIDE DEF r
<1>3. requests' = {r}
  BY <1>1 DEF Overlap
<1> QED BY <1>1, <1>2, <1>3 DEF StimuliInv, Editors!Stimuli!ShownIsStored

(* One click in the tab, or one step of a request *)
LEMMA StimuliNext == StimuliInv /\ ~Overlap' /\ Editors!Stimuli!Next => StimuliInv'
<1> SUFFICES ASSUME StimuliInv, ~Overlap', Editors!Stimuli!Next PROVE StimuliInv'
  OBVIOUS
<1> USE DEF Editors!Stimuli!ShownIsStored
<1>1. CASE Editors!Stimuli!StimuliTab
  <2>1. CASE Editors!Stimuli!CreateBlock
    BY <2>1, AskKeeps DEF Editors!Stimuli!CreateBlock
  <2>2. ASSUME NEW b, Editors!Stimuli!DeleteBlock(b) PROVE StimuliInv'
    BY <2>2, AskKeeps DEF Editors!Stimuli!DeleteBlock
  <2>3. ASSUME NEW b, Editors!Stimuli!SetRotation(b) PROVE StimuliInv'
    BY <2>3, AskKeeps DEF Editors!Stimuli!SetRotation
  <2>4. ASSUME NEW b, Editors!Stimuli!AddConcept(b) PROVE StimuliInv'
    BY <2>4, AskKeeps DEF Editors!Stimuli!AddConcept
  <2>5. ASSUME NEW b, NEW from, NEW to, Editors!Stimuli!ReorderConcept(b, from, to)
        PROVE  StimuliInv'
    <3> DEFINE all == Editors!Stimuli!In(b, shown)
               moved == {e \in all : Editors!Stimuli!Moved(e, from, to) # e.rank}
               steps == {[kind |-> "rank", id |-> d.id,
                          rank |-> Editors!Stimuli!Moved(d, from, to)] : d \in moved}
    <3>1. Editors!Stimuli!Ask(steps)
      BY <2>5 DEF Editors!Stimuli!ReorderConcept
    <3>2. \A x \in steps : x.kind = "rank"
      OBVIOUS
    <3> HIDE DEF steps
    <3>3. [kind |-> "loaded"] \notin steps
      BY <3>2
    <3> QED BY <3>1, <3>3, AskKeeps
  <2>6. ASSUME NEW c, Editors!Stimuli!RemoveConcept(c) PROVE StimuliInv'
    BY <2>6, AskKeeps DEF Editors!Stimuli!RemoveConcept
  <2> QED BY <1>1, <2>1, <2>2, <2>3, <2>4, <2>5, <2>6
          DEF Editors!Stimuli!StimuliTab, Editors!Stimuli!BlockCard,
              Editors!Stimuli!AddConceptForm, Editors!Stimuli!ConceptRowCard
<1>2. CASE Editors!Stimuli!Reopen
  BY <1>2 DEF Editors!Stimuli!Reopen, StimuliInv
<1>3. ASSUME NEW r \in requests, NEW x \in r.steps, Editors!Stimuli!ServeStep(r, x)
      PROVE  StimuliInv'
  <2>1. [kind |-> "loaded"] \notin r.steps
    BY <1>3 DEF Editors!Stimuli!ServeStep, StimuliInv
  <2>2. PICK ok : requests' = (requests \ {r}) \cup
                    {[r EXCEPT !.steps = @ \ {x}, !.failed = @ \/ ~ok]}
    BY <1>3 DEF Editors!Stimuli!ServeStep
  <2> DEFINE q == [r EXCEPT !.steps = @ \ {x}, !.failed = @ \/ ~ok]
  <2>3. requests' = {q}
    BY <2>2 DEF StimuliInv
  <2>a. IsChange(r)
    BY DEF StimuliInv
  <2>4. [kind |-> "loaded"] \notin q.steps /\ IsChange(q)
    BY <2>1, <2>a DEF IsChange
  <2> HIDE DEF q
  <2> QED BY <2>3, <2>4 DEF StimuliInv
<1>4. ASSUME NEW r \in requests, Editors!Stimuli!ServeLoad(r)
      PROVE  StimuliInv'
  <2> DEFINE q == [r EXCEPT !.steps = {[kind |-> "loaded"]}, !.result = stored]
  <2>1. requests' = {q} /\ UNCHANGED stored
    BY <1>4 DEF Editors!Stimuli!ServeLoad, StimuliInv
  <2>a. IsChange(r)
    BY DEF StimuliInv
  <2>2. q.steps = {[kind |-> "loaded"]} /\ q.result = stored /\ IsChange(q)
    BY <2>a DEF IsChange
  <2> HIDE DEF q
  <2> QED BY <2>1, <2>2 DEF StimuliInv
<1>5. ASSUME NEW r \in requests, Editors!Stimuli!ChangeAnswered(r)
      PROVE  StimuliInv'
  <2> DEFINE q == [r EXCEPT !.steps = {[kind |-> "load"]}]
  <2>1. requests' = {q} /\ UNCHANGED stored
    BY <1>5 DEF Editors!Stimuli!ChangeAnswered, StimuliInv
  <2>a. IsChange(r)
    BY DEF StimuliInv
  <2>2. [kind |-> "loaded"] \notin q.steps /\ IsChange(q)
    BY <2>a DEF IsChange
  <2> HIDE DEF q
  <2> QED BY <2>1, <2>2 DEF StimuliInv
<1>6. ASSUME NEW r \in requests, Editors!Stimuli!ChangeFailed(r)
      PROVE  StimuliInv'
  BY <1>6 DEF Editors!Stimuli!ChangeFailed, StimuliInv
<1>7. ASSUME NEW r \in requests, Editors!Stimuli!LoadAnswered(r)
      PROVE  StimuliInv'
  <2>1. r.result = stored
    BY <1>7 DEF Editors!Stimuli!LoadAnswered, StimuliInv
  <2>2. requests' = {} /\ UNCHANGED stored
    BY <1>7 DEF Editors!Stimuli!LoadAnswered, StimuliInv
  <2>3. ~stale' => shown' = stored'
    BY <1>7, <2>1 DEF Editors!Stimuli!LoadAnswered
  <2> QED BY <2>2, <2>3 DEF StimuliInv
<1> QED BY <1>1, <1>2, <1>3, <1>4, <1>5, <1>6, <1>7
        DEF Editors!Stimuli!Next, Editors!Stimuli!Researcher, Editors!Stimuli!Network

-----------------------------------------------------------------------------

(* Identifiers nothing uses *)

(* The least free number is free. *)
LEMMA LeastFree ==
  ASSUME NEW m \in Nat, NEW U, IsFiniteSet(U), Cardinality(U) < m
  PROVE  Editors!Outline!Min((1 .. m) \ U) \in (1 .. m) \ U
<1> DEFINE S == (1 .. m) \ U
<1>1. S # {} /\ S \subseteq Nat
  BY SomeFree
<1> HIDE DEF S
<1>2. Editors!Outline!Min(S) \in S
  BY <1>1, LeastExists, Zenon DEF Editors!Outline!Min
<1> QED BY <1>2 DEF S

-----------------------------------------------------------------------------

(* The outline *)

(* Options are distinct, and only a choice has some. *)
IsQuestion(q) ==
  /\ q \in [id : Nat \ {0}, type : {q.type}, options : {q.options}]
  /\ Distinct(q.options)
  /\ q.options # <<>> => q.type = "multiple_choice"

IsQuestions(qs) ==
  /\ IsSeq(qs)
  /\ \A k \in DOMAIN qs : IsQuestion(qs[k])
  /\ \A k, l \in DOMAIN qs : qs[k].id = qs[l].id => k = l

IsSection(s) ==
  s \in [id : Nat \ {0}, questions : {s.questions}] /\ IsQuestions(s.questions)

(* No two sections have a question in common. *)
Apart(ss) ==
  \A i, j \in DOMAIN ss :
    \A k \in DOMAIN ss[i].questions, l \in DOMAIN ss[j].questions :
      ss[i].questions[k].id = ss[j].questions[l].id => i = j

IsOutline(ss) ==
  /\ IsSeq(ss)
  /\ \A i \in DOMAIN ss : IsSection(ss[i])
  /\ \A i, j \in DOMAIN ss : ss[i].id = ss[j].id => i = j
  /\ Apart(ss)

(* A selected question that exists is in the selected section, which does. *)
Agrees(ss, section, question) ==
  /\ section # 0 => \E i \in DOMAIN ss : ss[i].id = section
  /\ \A i \in DOMAIN ss : \A k \in DOMAIN ss[i].questions :
       ss[i].questions[k].id = question => ss[i].id = section

OutlineInv ==
  IsOutline(sections) /\ Agrees(sections, selectedSection, selectedQuestion)

(* The invariant is what is checked. *)
LEMMA OutlineSound == OutlineInv => Editors!OutlineIsSound
<1> SUFFICES ASSUME OutlineInv PROVE Editors!OutlineIsSound
  OBVIOUS
<1>1. Editors!Outline!IdsAreUnique
  <2>1. \A i \in DOMAIN sections : \A k \in DOMAIN sections[i].questions :
          Distinct(sections[i].questions[k].options)
    BY DEF OutlineInv, IsOutline, IsSection, IsQuestions, IsQuestion
  <2>2. ASSUME NEW i \in DOMAIN sections, NEW j \in DOMAIN sections,
               NEW k \in DOMAIN sections[i].questions, NEW l \in DOMAIN sections[j].questions,
               sections[i].questions[k].id = sections[j].questions[l].id
        PROVE  i = j /\ k = l
    BY <2>2 DEF OutlineInv, IsOutline, Apart, IsSection, IsQuestions
  <2>3. \A i, j \in DOMAIN sections : sections[i].id = sections[j].id => i = j
    BY DEF OutlineInv, IsOutline
  <2> QED BY <2>1, <2>2, <2>3
          DEF Editors!Outline!IdsAreUnique, Editors!Outline!IsInjective, Distinct
<1>2. Editors!Outline!SelectionAgrees
  <2>1. selectedSection # 0 => selectedSection \in Editors!Outline!SectionIds(sections)
    BY DEF OutlineInv, Agrees, Editors!Outline!SectionIds
  <2>2. ASSUME selectedQuestion \in Editors!Outline!QuestionIds(sections)
        PROVE  /\ selectedSection # 0
               /\ selectedQuestion \in Editors!Outline!IdsIn(
                    sections[Editors!Outline!IndexOf(selectedSection)])
    <3>1. PICK i \in DOMAIN sections :
            \E k \in DOMAIN sections[i].questions :
              sections[i].questions[k].id = selectedQuestion
      BY <2>2 DEF Editors!Outline!QuestionIds, Editors!Outline!IdsIn, Editors!Outline!ToSet
    <3>2. sections[i].id = selectedSection
      BY <3>1 DEF OutlineInv, Agrees
    <3>3. Editors!Outline!IndexOf(selectedSection) = i
      BY <3>2 DEF OutlineInv, IsOutline, Editors!Outline!IndexOf
    <3>4. sections[i].id # 0
      BY DEF OutlineInv, IsOutline, IsSection
    <3>5. selectedQuestion \in Editors!Outline!IdsIn(sections[i])
      BY <3>1 DEF Editors!Outline!IdsIn, Editors!Outline!ToSet
    <3> QED BY <3>2, <3>3, <3>4, <3>5
  <2> QED BY <2>1, <2>2 DEF Editors!Outline!SelectionAgrees, Editors!Outline!NoId
<1>3. Editors!Outline!OptionsFollowType
  BY DEF OutlineInv, IsOutline, IsSection, IsQuestions, IsQuestion,
     Editors!Outline!OptionsFollowType
<1> QED
  BY <1>1, <1>2, <1>3 DEF Editors!OutlineIsSound, Editors!Outline!OutlineIsSound

-----------------------------------------------------------------------------

(* Lists of questions *)

(* A list of questions that loses one *)
LEMMA QuestionsWithout ==
  ASSUME NEW qs, IsQuestions(qs), NEW i \in DOMAIN qs
  PROVE  /\ IsQuestions(Without(qs, i))
         /\ \A j \in DOMAIN Without(qs, i) :
              \E k \in DOMAIN qs : k # i /\ Without(qs, i)[j] = qs[k]
<1> DEFINE t == Without(qs, i)
<1>1. /\ IsSeq(t)
      /\ \E f : \A j \in DOMAIN t :
           /\ f[j] \in DOMAIN qs /\ f[j] # i /\ t[j] = qs[f[j]]
           /\ \A k \in DOMAIN t : f[j] = f[k] => j = k
  BY WithoutPlaces DEF IsQuestions
<1> HIDE DEF t
<1>2. PICK f : \A j \in DOMAIN t :
        /\ f[j] \in DOMAIN qs /\ f[j] # i /\ t[j] = qs[f[j]]
        /\ \A k \in DOMAIN t : f[j] = f[k] => j = k
  BY <1>1
<1>3. \A j \in DOMAIN t : IsQuestion(t[j])
  BY <1>2 DEF IsQuestions
<1>4. ASSUME NEW j \in DOMAIN t, NEW k \in DOMAIN t, t[j].id = t[k].id PROVE j = k
  <2>1. f[j] = f[k]
    BY <1>2, <1>4 DEF IsQuestions
  <2> QED BY <1>2, <2>1
<1>5. IsQuestions(t)
  BY <1>1, <1>3, <1>4 DEF IsQuestions
<1> QED BY <1>2, <1>5 DEF t

(* A list of questions that gets one it does not have *)
LEMMA QuestionsWith ==
  ASSUME NEW qs, IsQuestions(qs), NEW i \in 1 .. Len(qs) + 1, NEW q, IsQuestion(q),
         \A k \in DOMAIN qs : qs[k].id # q.id
  PROVE  /\ IsQuestions(With(qs, i, q))
         /\ \A j \in DOMAIN With(qs, i, q) :
              With(qs, i, q)[j] = q \/ \E k \in DOMAIN qs : With(qs, i, q)[j] = qs[k]
<1> DEFINE t == With(qs, i, q)
<1>1. /\ IsSeq(t) /\ i \in DOMAIN t /\ t[i] = q
      /\ \E f : \A j \in DOMAIN t : j # i =>
           /\ f[j] \in DOMAIN qs /\ t[j] = qs[f[j]]
           /\ \A k \in DOMAIN t : k # i /\ f[j] = f[k] => j = k
  BY WithPlaces DEF IsQuestions
<1> HIDE DEF t
<1>2. PICK f : \A j \in DOMAIN t : j # i =>
        /\ f[j] \in DOMAIN qs /\ t[j] = qs[f[j]]
        /\ \A k \in DOMAIN t : k # i /\ f[j] = f[k] => j = k
  BY <1>1
<1>3. \A j \in DOMAIN t : IsQuestion(t[j])
  BY <1>1, <1>2 DEF IsQuestions
<1>4. ASSUME NEW j \in DOMAIN t, NEW k \in DOMAIN t, t[j].id = t[k].id PROVE j = k
  <2>1. CASE j # i /\ k # i
    <3>1. f[j] = f[k]
      BY <1>2, <1>4, <2>1 DEF IsQuestions
    <3> QED BY <1>2, <2>1, <3>1
  <2>2. CASE j = i \/ k = i
    BY <1>1, <1>2, <1>4, <2>2
  <2> QED BY <2>1, <2>2
<1>5. IsQuestions(t)
  BY <1>1, <1>3, <1>4 DEF IsQuestions
<1>6. \A j \in DOMAIN t : t[j] = q \/ \E k \in DOMAIN qs : t[j] = qs[k]
  BY <1>1, <1>2
<1> QED BY <1>5, <1>6 DEF t

(* A list of questions of which one changes, but for its identifier *)
LEMMA QuestionsChanged ==
  ASSUME NEW qs, IsQuestions(qs), NEW i \in DOMAIN qs, NEW q, IsQuestion(q), q.id = qs[i].id
  PROVE  /\ IsQuestions([qs EXCEPT ![i] = q])
         /\ \A j \in DOMAIN [qs EXCEPT ![i] = q] :
              \E k \in DOMAIN qs : [qs EXCEPT ![i] = q][j].id = qs[k].id
<1> DEFINE t == [qs EXCEPT ![i] = q]
<1>1. IsSeq(t) /\ DOMAIN t = DOMAIN qs /\ \A j \in DOMAIN qs : t[j] = IF j = i THEN q ELSE qs[j]
  BY ChangedElement DEF IsQuestions
<1> HIDE DEF t
<1>2. \A j \in DOMAIN t : t[j].id = qs[j].id /\ IsQuestion(t[j])
  BY <1>1 DEF IsQuestions
<1>3. IsQuestions(t)
  BY <1>1, <1>2 DEF IsQuestions
<1> QED BY <1>1, <1>2, <1>3 DEF t

-----------------------------------------------------------------------------

(* Lists of sections *)

(* Section i with other questions, each of its own before or new *)
Replaced(ss, i, qs) == [ss EXCEPT ![i] = [ss[i] EXCEPT !.questions = qs]]

(* The section at i has other questions, and all else is as before. *)
LEMMA ReplacedIs ==
  ASSUME NEW ss, IsOutline(ss), NEW i \in DOMAIN ss, NEW qs
  PROVE  /\ IsSeq(Replaced(ss, i, qs)) /\ DOMAIN Replaced(ss, i, qs) = DOMAIN ss
         /\ Replaced(ss, i, qs) = [ss EXCEPT ![i].questions = qs]
         /\ Replaced(ss, i, qs)[i] \in [id : Nat \ {0}, questions : {qs}]
         /\ Replaced(ss, i, qs)[i].questions = qs
         /\ \A j \in DOMAIN ss :
              /\ Replaced(ss, i, qs)[j].id = ss[j].id
              /\ j # i => Replaced(ss, i, qs)[j] = ss[j]
<1> DEFINE s == [ss[i] EXCEPT !.questions = qs]
           t == Replaced(ss, i, qs)
<1>1. s \in [id : Nat \ {0}, questions : {qs}] /\ s.id = ss[i].id /\ s.questions = qs
  <2>1. ss[i] \in [id : Nat \ {0}, questions : {ss[i].questions}]
    BY DEF IsOutline, IsSection
  <2> DEFINE r == ss[i]
  <2> HIDE DEF r
  <2>2. [r EXCEPT !.questions = qs] \in [id : Nat \ {0}, questions : {qs}]
        /\ [r EXCEPT !.questions = qs].id = r.id
        /\ [r EXCEPT !.questions = qs].questions = qs
    <3>1. r \in [id : Nat \ {0}, questions : {r.questions}]
      BY <2>1 DEF r
    <3> QED BY <3>1
  <2> QED BY <2>2 DEF r
<1> HIDE DEF s
<1>2. t = [ss EXCEPT ![i] = s]
  BY DEF Replaced, s
<1>3. IsSeq(t) /\ DOMAIN t = DOMAIN ss /\ \A j \in DOMAIN ss : t[j] = IF j = i THEN s ELSE ss[j]
  <2>1. IsSeq(ss)
    BY DEF IsOutline
  <2>2. /\ IsSeq([ss EXCEPT ![i] = s]) /\ DOMAIN [ss EXCEPT ![i] = s] = DOMAIN ss
        /\ \A j \in DOMAIN ss : [ss EXCEPT ![i] = s][j] = IF j = i THEN s ELSE ss[j]
    BY <2>1, ChangedElement
  <2> HIDE DEF t
  <2> QED BY <1>2, <2>2
<1>4. t = [ss EXCEPT ![i].questions = qs]
  BY <1>2 DEF s
<1> HIDE DEF t
<1>5. /\ t[i] \in [id : Nat \ {0}, questions : {qs}] /\ t[i].questions = qs
      /\ \A j \in DOMAIN ss : t[j].id = ss[j].id /\ (j # i => t[j] = ss[j])
  BY <1>1, <1>3
<1> QED BY <1>3, <1>4, <1>5 DEF t

(* A question is new to a list of sections. *)
NewTo(id, ss) ==
  \A j \in DOMAIN ss : \A l \in DOMAIN ss[j].questions : ss[j].questions[l].id # id

(* An outline stays one when a section's questions are its own or new. *)
LEMMA OutlineReplaced ==
  ASSUME NEW ss, IsOutline(ss), NEW i \in DOMAIN ss, NEW qs, IsQuestions(qs),
         \A k \in DOMAIN qs :
           \/ \E l \in DOMAIN ss[i].questions : qs[k].id = ss[i].questions[l].id
           \/ NewTo(qs[k].id, ss)
  PROVE  IsOutline(Replaced(ss, i, qs))
<1> DEFINE t == Replaced(ss, i, qs)
<1>1. /\ IsSeq(t) /\ DOMAIN t = DOMAIN ss
      /\ t[i] \in [id : Nat \ {0}, questions : {qs}] /\ t[i].questions = qs
      /\ \A j \in DOMAIN ss : t[j].id = ss[j].id /\ (j # i => t[j] = ss[j])
  BY ReplacedIs
<1> HIDE DEF t
<1>2. \A j \in DOMAIN t : IsSection(t[j])
  BY <1>1 DEF IsSection, IsOutline
<1>3. \A j, k \in DOMAIN t : t[j].id = t[k].id => j = k
  BY <1>1 DEF IsOutline
<1>4. ASSUME NEW j \in DOMAIN ss, j # i,
             NEW k \in DOMAIN qs, NEW l \in DOMAIN ss[j].questions
      PROVE  qs[k].id # ss[j].questions[l].id
  <2>1. CASE NewTo(qs[k].id, ss)
    BY <2>1 DEF NewTo
  <2>2. CASE \E m \in DOMAIN ss[i].questions : qs[k].id = ss[i].questions[m].id
    BY <1>4, <2>2 DEF IsOutline, Apart
  <2> QED BY <2>1, <2>2
<1>5. Apart(t)
  <2> SUFFICES ASSUME NEW j \in DOMAIN t, NEW m \in DOMAIN t,
                      NEW k \in DOMAIN t[j].questions, NEW l \in DOMAIN t[m].questions,
                      t[j].questions[k].id = t[m].questions[l].id
               PROVE  j = m
    BY DEF Apart
  <2>1. CASE j # i /\ m # i
    BY <1>1, <2>1 DEF IsOutline, Apart
  <2>2. CASE j = i \/ m = i
    BY <1>1, <1>4, <2>2
  <2> QED BY <2>1, <2>2
<1> QED BY <1>1, <1>2, <1>3, <1>5 DEF IsOutline, t

(* One more section, all new *)
LEMMA OutlineWith ==
  ASSUME NEW ss, IsOutline(ss), NEW p \in 1 .. Len(ss) + 1, NEW s, IsSection(s),
         \A j \in DOMAIN ss : ss[j].id # s.id,
         \A k \in DOMAIN s.questions : NewTo(s.questions[k].id, ss)
  PROVE  /\ IsOutline(With(ss, p, s))
         /\ \E j \in DOMAIN With(ss, p, s) : With(ss, p, s)[j] = s
         /\ \A j \in DOMAIN With(ss, p, s) :
              With(ss, p, s)[j] = s \/ \E k \in DOMAIN ss : With(ss, p, s)[j] = ss[k]
<1> DEFINE t == With(ss, p, s)
<1>1. /\ IsSeq(t) /\ p \in DOMAIN t /\ t[p] = s
      /\ \E f : \A j \in DOMAIN t : j # p =>
           /\ f[j] \in DOMAIN ss /\ t[j] = ss[f[j]]
           /\ \A k \in DOMAIN t : k # p /\ f[j] = f[k] => j = k
  BY WithPlaces DEF IsOutline
<1> HIDE DEF t
<1>2. PICK f : \A j \in DOMAIN t : j # p =>
        /\ f[j] \in DOMAIN ss /\ t[j] = ss[f[j]]
        /\ \A k \in DOMAIN t : k # p /\ f[j] = f[k] => j = k
  BY <1>1
<1>3. \A j \in DOMAIN t : IsSection(t[j])
  BY <1>1, <1>2 DEF IsOutline
<1>4. ASSUME NEW j \in DOMAIN t, NEW k \in DOMAIN t, t[j].id = t[k].id PROVE j = k
  <2>1. CASE j # p /\ k # p
    <3>1. f[j] = f[k]
      BY <1>2, <1>4, <2>1 DEF IsOutline
    <3> QED BY <1>2, <2>1, <3>1
  <2>2. CASE j = p \/ k = p
    BY <1>1, <1>2, <1>4, <2>2
  <2> QED BY <2>1, <2>2
<1>5. Apart(t)
  <2> SUFFICES ASSUME NEW j \in DOMAIN t, NEW m \in DOMAIN t,
                      NEW k \in DOMAIN t[j].questions, NEW l \in DOMAIN t[m].questions,
                      t[j].questions[k].id = t[m].questions[l].id
               PROVE  j = m
    BY DEF Apart
  <2>1. CASE j # p /\ m # p
    <3>1. f[j] = f[m]
      BY <1>2, <2>1 DEF IsOutline, Apart
    <3> QED BY <1>2, <2>1, <3>1
  <2>2. CASE j = p /\ m # p
    BY <1>1, <1>2, <2>2 DEF NewTo
  <2>3. CASE j # p /\ m = p
    BY <1>1, <1>2, <2>3 DEF NewTo
  <2> QED BY <2>1, <2>2, <2>3
<1>6. \A j \in DOMAIN t : t[j] = s \/ \E k \in DOMAIN ss : t[j] = ss[k]
  BY <1>1, <1>2
<1>7. IsOutline(t)
  BY <1>1, <1>3, <1>4, <1>5 DEF IsOutline
<1> QED BY <1>1, <1>6, <1>7 DEF t

(* One section less *)
LEMMA OutlineWithout ==
  ASSUME NEW ss, IsOutline(ss), NEW i \in DOMAIN ss
  PROVE  /\ IsOutline(Without(ss, i))
         /\ \A j \in DOMAIN Without(ss, i) : \E k \in DOMAIN ss : Without(ss, i)[j] = ss[k]
         /\ \A k \in DOMAIN ss : k # i => \E j \in DOMAIN Without(ss, i) : Without(ss, i)[j] = ss[k]
<1> DEFINE t == Without(ss, i)
<1>1. /\ IsSeq(t)
      /\ \E f : \A j \in DOMAIN t :
           /\ f[j] \in DOMAIN ss /\ f[j] # i /\ t[j] = ss[f[j]]
           /\ \A k \in DOMAIN t : f[j] = f[k] => j = k
      /\ \A k \in DOMAIN ss : k # i => \E j \in DOMAIN t : t[j] = ss[k]
  BY WithoutPlaces DEF IsOutline
<1> HIDE DEF t
<1>2. PICK f : \A j \in DOMAIN t :
        /\ f[j] \in DOMAIN ss /\ f[j] # i /\ t[j] = ss[f[j]]
        /\ \A k \in DOMAIN t : f[j] = f[k] => j = k
  BY <1>1
<1>3. \A j \in DOMAIN t : IsSection(t[j])
  BY <1>2 DEF IsOutline
<1>4. ASSUME NEW j \in DOMAIN t, NEW k \in DOMAIN t, t[j].id = t[k].id PROVE j = k
  <2>1. f[j] = f[k]
    BY <1>2, <1>4 DEF IsOutline
  <2> QED BY <1>2, <2>1
<1>5. Apart(t)
  <2> SUFFICES ASSUME NEW j \in DOMAIN t, NEW m \in DOMAIN t,
                      NEW k \in DOMAIN t[j].questions, NEW l \in DOMAIN t[m].questions,
                      t[j].questions[k].id = t[m].questions[l].id
               PROVE  j = m
    BY DEF Apart
  <2>1. f[j] = f[m]
    BY <1>2 DEF IsOutline, Apart
  <2> QED BY <1>2, <2>1
<1>6. IsOutline(t)
  BY <1>1, <1>3, <1>4, <1>5 DEF IsOutline
<1> QED BY <1>1, <1>2, <1>6 DEF t

-----------------------------------------------------------------------------

(* New identifiers *)

(* The sections and the questions of an outline can be counted. *)
LEMMA OutlineCounted ==
  ASSUME NEW ss, IsOutline(ss)
  PROVE  /\ IsFiniteSet(Editors!Outline!SectionIds(ss))
         /\ Cardinality(Editors!Outline!SectionIds(ss)) <= Len(ss)
         /\ IsFiniteSet(Editors!Outline!QuestionIds(ss))
<1>1. Len(ss) \in Nat /\ DOMAIN ss = 1 .. Len(ss)
  BY SeqIsSeq DEF IsOutline, IsSeq
<1>2. /\ IsFiniteSet(Editors!Outline!SectionIds(ss))
      /\ Cardinality(Editors!Outline!SectionIds(ss)) <= Len(ss)
  <2> DEFINE n == Len(ss)
             g == [k \in 1 .. n |-> ss[k].id]
             T == Editors!Outline!SectionIds(ss)
  <2>1. T = {g[k] : k \in 1 .. n}
    BY <1>1 DEF Editors!Outline!SectionIds
  <2> HIDE DEF g, T
  <2>2. IsFiniteSet(T) /\ Cardinality(T) <= n
    BY <1>1, <2>1, FewValues
  <2> QED BY <2>2 DEF T
<1>3. ASSUME NEW i \in DOMAIN ss PROVE IsFiniteSet(Editors!Outline!IdsIn(ss[i]))
  <2> DEFINE qs == ss[i].questions
             n == Len(qs)
             g == [k \in 1 .. n |-> qs[k].id]
             T == Editors!Outline!IdsIn(ss[i])
  <2>1. IsSeq(qs)
    BY DEF IsOutline, IsSection, IsQuestions
  <2>2. n \in Nat /\ DOMAIN qs = 1 .. n
    <3> HIDE DEF qs
    <3> QED BY <2>1, SeqIsSeq DEF IsSeq
  <2>3. T = {g[k] : k \in 1 .. n}
    BY <2>2 DEF Editors!Outline!IdsIn, Editors!Outline!ToSet
  <2> HIDE DEF g, T, n
  <2>4. IsFiniteSet(T)
    BY <2>2, <2>3, FewValues
  <2> QED BY <2>4 DEF T
<1>4. IsFiniteSet(Editors!Outline!QuestionIds(ss))
  <2> DEFINE n == Len(ss)
             g == [i \in 1 .. n |-> Editors!Outline!IdsIn(ss[i])]
             T == {g[i] : i \in 1 .. n}
  <2>1. \A t \in T : IsFiniteSet(t)
    BY <1>1, <1>3
  <2>2. Editors!Outline!QuestionIds(ss) = UNION T
    BY <1>1 DEF Editors!Outline!QuestionIds
  <2> HIDE DEF g
  <2>3. IsFiniteSet(T)
    BY <1>1, FewValues
  <2> HIDE DEF T
  <2> QED BY <2>1, <2>2, <2>3, FS_UNION
<1> QED BY <1>2, <1>4

(* Their number is a number. *)
LEMMA NumberIsNat ==
  ASSUME IsOutline(sections)
  PROVE  Editors!Outline!NumberOfQuestions \in Nat
BY OutlineCounted, FS_CardinalityType, Zenon
   DEF Editors!Outline!NumberOfQuestions, Editors!Outline!Cardinality, Cardinality

(* The identifier of a new section is one no section has. *)
LEMMA NewSectionIsNew ==
  ASSUME IsOutline(sections), Len(sections) < MaxSections
  PROVE  /\ Editors!Outline!NewSection \in Nat \ {0}
         /\ \A j \in DOMAIN sections : sections[j].id # Editors!Outline!NewSection
<1> DEFINE I == Editors!Outline!SectionIds(sections)
           U == I \cup {selectedSection}
           m == MaxSections + 1
<1>1. IsFiniteSet(I) /\ Cardinality(I) <= Len(sections) /\ Len(sections) \in Nat
  BY OutlineCounted, SeqIsSeq DEF IsOutline, IsSeq
<1>2. m \in Nat
  BY ResearcherAssumption
<1>3. IsFiniteSet(U) /\ Cardinality(U) < m
  <2> HIDE DEF I
  <2>1. /\ IsFiniteSet(U) /\ Cardinality(I) \in Nat
        /\ Cardinality(U) = IF selectedSection \in I THEN Cardinality(I) ELSE Cardinality(I) + 1
    BY <1>1, FS_AddElement, FS_CardinalityType
  <2>2. MaxSections \in Nat
    BY ResearcherAssumption
  <2> QED BY <1>1, <2>1, <2>2
<1> HIDE DEF m
<1>4. Editors!Outline!Min((1 .. m) \ U) \in (1 .. m) \ U
  <2> HIDE DEF U
  <2> QED BY <1>2, <1>3, LeastFree
<1>5. Editors!Outline!NewSection \in (1 .. m) \ U
  BY <1>4 DEF Editors!Outline!NewSection, m
<1>6. \A j \in DOMAIN sections : sections[j].id \in I
  BY DEF Editors!Outline!SectionIds
<1> QED BY <1>5, <1>6

(* So are those of n new questions, which are not the selected one either. *)
LEMMA NewQuestionsAreNew ==
  ASSUME IsOutline(sections), NEW n \in Nat,
         Editors!Outline!NumberOfQuestions <= MaxQuestions
  PROVE  LET q == Editors!Outline!NewQuestions(n)
         IN  \A k \in 1 .. n :
               /\ q[k] \in Nat \ {0} /\ q[k] # selectedQuestion
               /\ NewTo(q[k], sections)
               /\ \A l \in 1 .. n : q[k] = q[l] => k = l
<1> DEFINE I == Editors!Outline!QuestionIds(sections)
           U == I \cup {selectedQuestion}
           m == MaxQuestions + n + 1
           Q == {q \in [1 .. n -> (1 .. m) \ U] : \A k, l \in 1 .. n : q[k] = q[l] => k = l}
           nq == Editors!Outline!NewQuestions(n)
<1>1. IsFiniteSet(I) /\ Cardinality(I) <= MaxQuestions
  BY OutlineCounted, Zenon
     DEF Editors!Outline!NumberOfQuestions, Editors!Outline!Cardinality, Cardinality
<1>2. m \in Nat /\ MaxQuestions \in Nat
  BY ResearcherAssumption
<1>3. IsFiniteSet(U) /\ Cardinality(U) + n <= m
  <2> HIDE DEF I
  <2>1. /\ IsFiniteSet(U) /\ Cardinality(I) \in Nat
        /\ Cardinality(U) = IF selectedQuestion \in I THEN Cardinality(I) ELSE Cardinality(I) + 1
    BY <1>1, FS_AddElement, FS_CardinalityType
  <2> QED BY <1>1, <1>2, <2>1
<1> HIDE DEF m
<1>4. \E q \in [1 .. n -> (1 .. m) \ U] : \A k, l \in 1 .. n : q[k] = q[l] => k = l
  <2> HIDE DEF U
  <2> QED BY <1>2, <1>3, EnoughFree
<1>5. nq = CHOOSE q \in [1 .. n -> (1 .. m) \ U] : \A k, l \in DOMAIN q : q[k] = q[l] => k = l
  BY DEF Editors!Outline!NewQuestions, Editors!Outline!IsInjective, m
<1>6. \E q \in [1 .. n -> (1 .. m) \ U] : \A k, l \in DOMAIN q : q[k] = q[l] => k = l
  BY <1>4
<1>7. nq \in [1 .. n -> (1 .. m) \ U] /\ \A k, l \in DOMAIN nq : nq[k] = nq[l] => k = l
  <2> HIDE DEF nq, U
  <2> QED BY <1>5, <1>6, Zenon
<1> HIDE DEF nq
<1>8. \A j \in DOMAIN sections : \A l \in DOMAIN sections[j].questions :
        sections[j].questions[l].id \in I
  BY DEF Editors!Outline!QuestionIds, Editors!Outline!IdsIn, Editors!Outline!ToSet
<1> HIDE DEF I
<1>9. ASSUME NEW k \in 1 .. n
      PROVE  /\ nq[k] \in Nat \ {0} /\ nq[k] # selectedQuestion
             /\ NewTo(nq[k], sections)
             /\ \A l \in 1 .. n : nq[k] = nq[l] => k = l
  <2>1. nq[k] \in (1 .. m) \ U /\ \A l \in 1 .. n : nq[k] = nq[l] => k = l
    BY <1>7
  <2>2. NewTo(nq[k], sections)
    BY <1>8, <2>1 DEF NewTo
  <2> QED BY <2>1, <2>2
<1> QED BY <1>9 DEF nq

-----------------------------------------------------------------------------

(* Questions *)

(* What a question of a type begins with *)
LEMMA DefaultDistinct ==
  ASSUME NEW type
  PROVE  /\ Distinct(Editors!Outline!DefaultOptions(type))
         /\ Editors!Outline!DefaultOptions(type) # <<>> => type = "multiple_choice"
<1>1. Distinct(<<1, 2, 3>>)
  <2>1. <<1, 2, 3>> \in Seq({1, 2, 3})
    OBVIOUS
  <2>2. IsSeq(<<1, 2, 3>>)
    BY <2>1, SeqIsSeq
  <2>3. \A i, j \in DOMAIN <<1, 2, 3>> : <<1, 2, 3>>[i] = <<1, 2, 3>>[j] => i = j
    OBVIOUS
  <2> QED BY <2>2, <2>3 DEF Distinct
<1>2. Distinct(<<>>)
  <2>1. <<>> \in Seq({}) /\ DOMAIN <<>> = {}
    OBVIOUS
  <2>2. IsSeq(<<>>)
    BY <2>1, SeqIsSeq
  <2> QED BY <2>1, <2>2 DEF Distinct
<1> QED BY <1>1, <1>2 DEF Editors!Outline!DefaultOptions

(* A new question has the options of its type. *)
LEMMA NewQuestionIs ==
  ASSUME NEW id \in Nat \ {0}, NEW type
  PROVE  /\ IsQuestion(Editors!Outline!NewQuestion(id, type))
         /\ Editors!Outline!NewQuestion(id, type).id = id
BY DefaultDistinct DEF Editors!Outline!NewQuestion, IsQuestion

(* A copy has as many options as its original, all different. *)
LEMMA CloneIs ==
  ASSUME NEW q, IsQuestion(q), NEW id \in Nat \ {0}
  PROVE  /\ IsQuestion(Editors!Outline!Clone(q, id))
         /\ Editors!Outline!Clone(q, id).id = id
<1> DEFINE t == [o \in DOMAIN q.options |-> o]
           c == Editors!Outline!Clone(q, id)
<1>1. /\ Len(q.options) \in Nat /\ DOMAIN q.options = 1 .. Len(q.options)
      /\ q.options = <<>> <=> Len(q.options) = 0
  <2>1. q.options \in Seq({q.options[k] : k \in DOMAIN q.options})
    BY DEF IsQuestion, Distinct, IsSeq
  <2> QED BY <2>1
<1>2. Distinct(t) /\ (t # <<>> => q.options # <<>>)
  <2>1. t \in Seq(Nat) /\ Len(t) = Len(q.options)
    BY <1>1
  <2>2. \A i, j \in DOMAIN t : t[i] = t[j] => i = j
    OBVIOUS
  <2> HIDE DEF t
  <2>3. IsSeq(t)
    BY <2>1, SeqIsSeq
  <2>4. t # <<>> => q.options # <<>>
    BY <1>1, <2>1
  <2> QED BY <2>2, <2>3, <2>4 DEF Distinct
<1> HIDE DEF t
<1>3. c = [q EXCEPT !.id = id, !.options = t]
  BY DEF Editors!Outline!Clone, t
<1>4. /\ c \in [id : Nat \ {0}, type : {q.type}, options : {t}]
      /\ c.id = id /\ c.type = q.type /\ c.options = t
  <2>1. q \in [id : Nat \ {0}, type : {q.type}, options : {q.options}]
    BY DEF IsQuestion
  <2> QED BY <1>3, <2>1
<1> HIDE DEF c
<1> QED BY <1>2, <1>4 DEF IsQuestion, c

(* A question with other options *)
LEMMA OptionsChanged ==
  ASSUME NEW q, IsQuestion(q), q.type = "multiple_choice", NEW options, Distinct(options)
  PROVE  /\ IsQuestion([q EXCEPT !.options = options])
         /\ [q EXCEPT !.options = options].id = q.id
<1> DEFINE c == [q EXCEPT !.options = options]
<1>1. q \in [id : Nat \ {0}, type : {q.type}, options : {q.options}]
  BY DEF IsQuestion
<1>2. /\ c \in [id : Nat \ {0}, type : {q.type}, options : {options}]
      /\ c.id = q.id /\ c.type = q.type /\ c.options = options
  BY <1>1
<1> HIDE DEF c
<1> QED BY <1>2 DEF IsQuestion, c

(* A question of another type *)
LEMMA TypeChanged ==
  ASSUME NEW q, IsQuestion(q), NEW type
  PROVE  LET c == [q EXCEPT !.type = type, !.options = Editors!Outline!DefaultOptions(type)]
         IN  IsQuestion(c) /\ c.id = q.id
<1> DEFINE options == Editors!Outline!DefaultOptions(type)
           c == [q EXCEPT !.type = type, !.options = options]
<1>1. q \in [id : Nat \ {0}, type : {q.type}, options : {q.options}]
  BY DEF IsQuestion
<1>2. Distinct(options) /\ (options # <<>> => type = "multiple_choice")
  BY DefaultDistinct
<1> HIDE DEF options
<1>3. /\ c \in [id : Nat \ {0}, type : {type}, options : {options}]
      /\ c.id = q.id /\ c.type = type /\ c.options = options
  BY <1>1
<1> HIDE DEF c
<1>4. IsQuestion(c) /\ c.id = q.id
  BY <1>2, <1>3 DEF IsQuestion
<1> QED BY <1>4 DEF c, options

(* The option that is added is a new one. *)
LEMMA OptionAdded ==
  ASSUME NEW options, Distinct(options), Len(options) < MaxOptions
  PROVE  Distinct(Append(options,
           Editors!Outline!Min((1 .. MaxOptions) \ Editors!Outline!ToSet(options))))
<1> DEFINE T == Editors!Outline!ToSet(options)
           e == Editors!Outline!Min((1 .. MaxOptions) \ T)
<1>1. Len(options) \in Nat /\ DOMAIN options = 1 .. Len(options)
  BY SeqIsSeq DEF Distinct, IsSeq
<1>2. T = {options[k] : k \in 1 .. Len(options)}
  BY <1>1 DEF Editors!Outline!ToSet
<1> HIDE DEF T
<1>3. IsFiniteSet(T) /\ Cardinality(T) <= Len(options)
  BY <1>1, <1>2, FewValues
<1>4. Cardinality(T) < MaxOptions /\ MaxOptions \in Nat
  BY <1>1, <1>3, FS_CardinalityType, ResearcherAssumption
<1>5. e \in (1 .. MaxOptions) \ T
  BY <1>3, <1>4, LeastFree
<1> HIDE DEF e
<1>6. \A j \in DOMAIN options : options[j] # e
  BY <1>1, <1>2, <1>5
<1> QED BY <1>6, AppendedDistinct DEF e, T

-----------------------------------------------------------------------------

(* Sections that come and go *)

(* The guide the tab begins with *)
LEMMA StarterIs ==
  /\ IsOutline(Editors!Outline!Starter)
  /\ Agrees(Editors!Outline!Starter, 1, 1)
<1> DEFINE N(id, type) == Editors!Outline!NewQuestion(id, type)
           a == N(1, "conversational")
           b == N(2, "task")
           c == N(3, "multiple_choice")
           d == N(4, "rating")
           e == N(5, "number_input")
           r == [id |-> 1, questions |-> <<a, b>>]
           s == [id |-> 2, questions |-> <<c, d>>]
           t == [id |-> 3, questions |-> <<e>>]
           ss == <<r, s, t>>
<1>1. /\ IsQuestion(a) /\ IsQuestion(b) /\ IsQuestion(c) /\ IsQuestion(d) /\ IsQuestion(e)
      /\ a.id = 1 /\ b.id = 2 /\ c.id = 3 /\ d.id = 4 /\ e.id = 5
  BY NewQuestionIs
<1>2. Editors!Outline!Starter = ss
  BY DEF Editors!Outline!Starter
<1> HIDE DEF N, a, b, c, d, e
<1>3. \A S : \A q \in Seq(S) : IsSeq(q)
  BY SeqIsSeq
<1>4. IsQuestions(<<a, b>>) /\ IsQuestions(<<c, d>>) /\ IsQuestions(<<e>>)
  <2>1. <<a, b>> \in Seq({a, b}) /\ <<c, d>> \in Seq({c, d}) /\ <<e>> \in Seq({e})
    OBVIOUS
  <2>2. IsSeq(<<a, b>>) /\ IsSeq(<<c, d>>) /\ IsSeq(<<e>>)
    BY <1>3, <2>1
  <2> QED BY <1>1, <2>2 DEF IsQuestions
<1>5. IsSection(r) /\ IsSection(s) /\ IsSection(t)
  BY <1>4 DEF IsSection
<1>6. /\ r.id = 1 /\ s.id = 2 /\ t.id = 3
      /\ r.questions = <<a, b>> /\ s.questions = <<c, d>> /\ t.questions = <<e>>
  OBVIOUS
<1> HIDE DEF r, s, t
<1>7. IsSeq(ss)
  <2>1. ss \in Seq({r, s, t})
    OBVIOUS
  <2> QED BY <1>3, <2>1
<1>8. DOMAIN ss = 1 .. 3 /\ ss[1] = r /\ ss[2] = s /\ ss[3] = t
  OBVIOUS
<1> HIDE DEF ss
<1>9. /\ \A k \in DOMAIN ss[1].questions : ss[1].questions[k].id \in {1, 2}
      /\ \A k \in DOMAIN ss[2].questions : ss[2].questions[k].id \in {3, 4}
      /\ \A k \in DOMAIN ss[3].questions : ss[3].questions[k].id = 5
  BY <1>1, <1>6, <1>8
<1>10. Apart(ss)
  BY <1>8, <1>9 DEF Apart
<1>11. IsOutline(ss)
  BY <1>5, <1>6, <1>7, <1>8, <1>10 DEF IsOutline
<1>12. Agrees(ss, 1, 1)
  <2>1. ss[1].id = 1
    BY <1>6, <1>8
  <2> QED BY <1>8, <1>9, <2>1 DEF Agrees
<1> QED BY <1>2, <1>11, <1>12

(* The first question is one of the first section that has any. *)
LEMMA FirstAgrees ==
  ASSUME NEW ss, IsOutline(ss)
  PROVE  Agrees(ss, Editors!Outline!FirstQuestion(ss).section,
                    Editors!Outline!FirstQuestion(ss).question)
<1> DEFINE full == {i \in DOMAIN ss : ss[i].questions # <<>>}
           i == Editors!Outline!Min(full)
           first == Editors!Outline!FirstQuestion(ss)
<1>0. \A j \in DOMAIN ss :
        /\ IsQuestions(ss[j].questions)
        /\ Len(ss[j].questions) \in Nat
        /\ DOMAIN ss[j].questions = 1 .. Len(ss[j].questions)
        /\ ss[j].questions = <<>> => Len(ss[j].questions) = 0
        /\ ss[j].questions # <<>> => 1 \in DOMAIN ss[j].questions
  <2> TAKE j \in DOMAIN ss
  <2> DEFINE qs == ss[j].questions
  <2>1. IsQuestions(qs)
    BY DEF IsOutline, IsSection
  <2> HIDE DEF qs
  <2>2. qs \in Seq({qs[k] : k \in DOMAIN qs})
    BY <2>1 DEF IsQuestions, IsSeq
  <2>3. /\ Len(qs) \in Nat /\ DOMAIN qs = 1 .. Len(qs)
        /\ qs = <<>> => Len(qs) = 0
        /\ qs # <<>> => 1 \in DOMAIN qs
    BY <2>2
  <2> QED BY <2>1, <2>3 DEF qs
<1>1. CASE full = {}
  <2>1. first.section = 0 /\ first.question = 0
    BY <1>1 DEF Editors!Outline!FirstQuestion, Editors!Outline!NoId
  <2>2. \A j \in DOMAIN ss : DOMAIN ss[j].questions = {}
    BY <1>0, <1>1
  <2> HIDE DEF first
  <2>3. Agrees(ss, first.section, first.question)
    BY <2>1, <2>2 DEF Agrees
  <2> QED BY <2>3 DEF first
<1>2. CASE full # {}
  <2>1. full \subseteq Nat
    BY SeqIsSeq DEF IsOutline, IsSeq
  <2>2. i \in full
    <3> HIDE DEF full
    <3> QED BY <1>2, <2>1, LeastExists, Zenon DEF Editors!Outline!Min
  <2>3. first.section = ss[i].id /\ first.question = ss[i].questions[1].id
    BY <1>2 DEF Editors!Outline!FirstQuestion
  <2>4. i \in DOMAIN ss /\ 1 \in DOMAIN ss[i].questions
    BY <1>0, <2>2
  <2> HIDE DEF i, first
  <2>5. Agrees(ss, first.section, first.question)
    BY <2>3, <2>4 DEF Agrees, IsOutline, Apart
  <2> QED BY <2>5 DEF first
<1> QED BY <1>1, <1>2

(* A new section is selected with its first question, or with one that is  *)
(* nobody's when it has none.                                              *)
LEMMA AddedSound ==
  ASSUME NEW ss, IsOutline(ss), NEW p \in 1 .. Len(ss) + 1, NEW s, IsSection(s),
         \A j \in DOMAIN ss : ss[j].id # s.id,
         \A k \in DOMAIN s.questions : NewTo(s.questions[k].id, ss),
         NEW q, NewTo(q, ss)
  PROVE  IsOutline(With(ss, p, s)) /\ Agrees(With(ss, p, s), s.id, q)
<1> DEFINE t == With(ss, p, s)
<1>1. /\ IsOutline(t) /\ \E j \in DOMAIN t : t[j] = s
      /\ \A j \in DOMAIN t : t[j] = s \/ \E k \in DOMAIN ss : t[j] = ss[k]
  BY OutlineWith
<1> HIDE DEF t
<1>2. Agrees(t, s.id, q)
  BY <1>1 DEF Agrees, NewTo
<1> QED BY <1>1, <1>2 DEF t

(* addSection *)
LEMMA AddSectionSound ==
  ASSUME OutlineInv, Editors!Outline!AddSection
  PROVE  OutlineInv'
<1> DEFINE q == Editors!Outline!NewQuestions(1)
           id == Editors!Outline!NewSection
           n == Editors!Outline!NewQuestion(q[1], "conversational")
           s == [id |-> id, questions |-> <<n>>]
<1>1. /\ Len(sections) < MaxSections /\ Editors!Outline!NumberOfQuestions < MaxQuestions
      /\ sections' = Append(sections, s)
      /\ selectedSection' = id /\ selectedQuestion' = q[1]
  BY DEF Editors!Outline!AddSection, Editors!Outline!Select
<1>2. IsOutline(sections)
  BY DEF OutlineInv
<1>3. Editors!Outline!NumberOfQuestions <= MaxQuestions
  BY <1>1, <1>2, NumberIsNat, ResearcherAssumption
<1>4. id \in Nat \ {0} /\ \A j \in DOMAIN sections : sections[j].id # id
  BY <1>1, <1>2, NewSectionIsNew
<1>5. q[1] \in Nat \ {0} /\ NewTo(q[1], sections)
  BY <1>2, <1>3, NewQuestionsAreNew
<1> HIDE DEF q, id
<1>6. IsQuestion(n) /\ n.id = q[1]
  BY <1>5, NewQuestionIs
<1> HIDE DEF n
<1>7. IsSection(s) /\ s.id = id /\ \A k \in DOMAIN s.questions : s.questions[k] = n
  <2>1. <<n>> \in Seq({n}) /\ DOMAIN <<n>> = {1} /\ <<n>>[1] = n
    OBVIOUS
  <2>2. IsSeq(<<n>>)
    BY <2>1, SeqIsSeq
  <2>3. IsQuestions(<<n>>)
    BY <1>6, <2>1, <2>2 DEF IsQuestions
  <2> QED BY <1>4, <2>1, <2>3 DEF IsSection
<1> HIDE DEF s
<1>8. Append(sections, s) = With(sections, Len(sections) + 1, s)
      /\ Len(sections) + 1 \in 1 .. Len(sections) + 1
  BY <1>2, AppendIsWith DEF IsOutline
<1>9. IsOutline(Append(sections, s)) /\ Agrees(Append(sections, s), s.id, q[1])
  <2> DEFINE p == Len(sections) + 1
  <2>1. p \in 1 .. Len(sections) + 1 /\ Append(sections, s) = With(sections, p, s)
    BY <1>8
  <2> HIDE DEF p
  <2>2. IsOutline(With(sections, p, s)) /\ Agrees(With(sections, p, s), s.id, q[1])
    BY <1>2, <1>4, <1>5, <1>6, <1>7, <2>1, AddedSound
  <2> QED BY <2>1, <2>2
<1> QED BY <1>1, <1>7, <1>9 DEF OutlineInv

(* duplicateSection: the section after the original, with copies of its     *)
(* questions.                                                               *)
LEMMA DuplicateSectionSound ==
  ASSUME OutlineInv, NEW i \in DOMAIN sections, Editors!Outline!DuplicateSection(i)
  PROVE  OutlineInv'
<1> DEFINE qs == sections[i].questions
           n == Len(qs)
           q == Editors!Outline!NewQuestions(n + 1)
           id == Editors!Outline!NewSection
           cs == [k \in 1 .. n |-> Editors!Outline!Clone(qs[k], q[k])]
           s == [id |-> id, questions |-> cs]
<1>1. /\ Len(sections) < MaxSections /\ Editors!Outline!NumberOfQuestions + n <= MaxQuestions
      /\ sections' = With(sections, i + 1, s)
      /\ selectedSection' = id /\ selectedQuestion' = q[1]
  BY DEF Editors!Outline!DuplicateSection, Editors!Outline!Select, Editors!Outline!InsertAt, With
<1>2. /\ IsOutline(sections) /\ IsQuestions(qs) /\ n \in Nat /\ DOMAIN qs = 1 .. n
      /\ i + 1 \in 1 .. Len(sections) + 1
  <2>1. IsOutline(sections) /\ IsQuestions(qs)
    BY DEF OutlineInv, IsOutline, IsSection
  <2>2. Len(sections) \in Nat /\ DOMAIN sections = 1 .. Len(sections)
    BY <2>1, SeqIsSeq DEF IsOutline, IsSeq
  <2> HIDE DEF qs
  <2>3. n \in Nat /\ DOMAIN qs = 1 .. n
    BY <2>1, SeqIsSeq DEF IsQuestions, IsSeq
  <2> QED BY <2>1, <2>2, <2>3
<1>3. Editors!Outline!NumberOfQuestions <= MaxQuestions
  <2> HIDE DEF n
  <2> QED BY <1>1, <1>2, NumberIsNat, ResearcherAssumption
<1>4. id \in Nat \ {0} /\ \A j \in DOMAIN sections : sections[j].id # id
  BY <1>1, <1>2, NewSectionIsNew
<1>5. \A k \in 1 .. n + 1 :
        /\ q[k] \in Nat \ {0} /\ NewTo(q[k], sections)
        /\ \A l \in 1 .. n + 1 : q[k] = q[l] => k = l
  <2> DEFINE m == n + 1
  <2>1. m \in Nat
    BY <1>2
  <2> HIDE DEF m
  <2>2. \A k \in 1 .. m :
          /\ Editors!Outline!NewQuestions(m)[k] \in Nat \ {0}
          /\ NewTo(Editors!Outline!NewQuestions(m)[k], sections)
          /\ \A l \in 1 .. m :
               Editors!Outline!NewQuestions(m)[k] = Editors!Outline!NewQuestions(m)[l] => k = l
    BY <1>2, <1>3, <2>1, NewQuestionsAreNew
  <2> QED BY <2>2 DEF m
<1> HIDE DEF q, id
<1>6. \A k \in 1 .. n : IsQuestion(cs[k]) /\ cs[k].id = q[k]
  <2> TAKE k \in 1 .. n
  <2>1. IsQuestion(qs[k]) /\ q[k] \in Nat \ {0}
    BY <1>2, <1>5 DEF IsQuestions
  <2> HIDE DEF qs
  <2>2. /\ IsQuestion(Editors!Outline!Clone(qs[k], q[k]))
        /\ Editors!Outline!Clone(qs[k], q[k]).id = q[k]
    BY <2>1, CloneIs
  <2> QED BY <2>2
<1>7. IsQuestions(cs) /\ DOMAIN cs = 1 .. n
  <2>1. cs \in Seq({cs[k] : k \in DOMAIN cs})
    <3> DEFINE S == {cs[k] : k \in DOMAIN cs}
    <3>1. cs \in [1 .. n -> S]
      OBVIOUS
    <3> HIDE DEF S, cs, n
    <3>2. cs \in Seq(S)
      BY <1>2, <3>1
    <3> QED BY <3>2 DEF S
  <2>2. DOMAIN cs = 1 .. n
    OBVIOUS
  <2> HIDE DEF cs
  <2>3. \A k, l \in 1 .. n : cs[k].id = cs[l].id => k = l
    <3> HIDE DEF n
    <3> QED BY <1>2, <1>5, <1>6
  <2> QED BY <1>6, <2>1, <2>2, <2>3 DEF IsQuestions, IsSeq
<1> HIDE DEF cs
<1>8. IsSection(s) /\ s.id = id /\ s.questions = cs
  BY <1>4, <1>7 DEF IsSection
<1> HIDE DEF s
<1>9. /\ \A k \in DOMAIN s.questions : NewTo(s.questions[k].id, sections)
      /\ NewTo(q[1], sections)
  <2> HIDE DEF n
  <2> QED BY <1>2, <1>5, <1>6, <1>7, <1>8
<1>10. IsOutline(With(sections, i + 1, s)) /\ Agrees(With(sections, i + 1, s), s.id, q[1])
  <2> DEFINE p == i + 1
  <2>1. p \in 1 .. Len(sections) + 1
    BY <1>2
  <2> HIDE DEF p
  <2>2. IsOutline(With(sections, p, s)) /\ Agrees(With(sections, p, s), s.id, q[1])
    BY <1>2, <1>4, <1>8, <1>9, <2>1, AddedSound
  <2> QED BY <2>2 DEF p
<1> QED BY <1>1, <1>8, <1>10 DEF OutlineInv

(* removeSection: another selection, if it was the selected one *)
LEMMA RemoveSectionSound ==
  ASSUME OutlineInv, NEW i \in DOMAIN sections, Editors!Outline!RemoveSection(i)
  PROVE  OutlineInv'
<1> DEFINE t == Without(sections, i)
           first == Editors!Outline!FirstQuestion(t)
<1>1. /\ sections' = t
      /\ IF sections[i].id = selectedSection
         THEN selectedSection' = first.section /\ selectedQuestion' = first.question
         ELSE selectedSection' = selectedSection /\ selectedQuestion' = selectedQuestion
  BY DEF Editors!Outline!RemoveSection, Editors!Outline!WithoutSection,
     Editors!Outline!RemoveAt, Without, Editors!Outline!Select
<1>2. /\ IsOutline(t)
      /\ \A j \in DOMAIN t : \E k \in DOMAIN sections : t[j] = sections[k]
      /\ \A k \in DOMAIN sections : k # i => \E j \in DOMAIN t : t[j] = sections[k]
  BY OutlineWithout DEF OutlineInv
<1> HIDE DEF t
<1>3. Agrees(t, first.section, first.question)
  BY <1>2, FirstAgrees
<1> HIDE DEF first
<1>4. CASE sections[i].id = selectedSection
  BY <1>1, <1>2, <1>3, <1>4 DEF OutlineInv
<1>5. CASE sections[i].id # selectedSection
  <2>1. Agrees(t, selectedSection, selectedQuestion)
    BY <1>2, <1>5 DEF OutlineInv, Agrees
  <2> QED BY <1>1, <1>2, <1>5, <2>1 DEF OutlineInv
<1> QED BY <1>4, <1>5

-----------------------------------------------------------------------------

(* Sections whose questions change *)

(* Questions that come from the section agree with the same selection. *)
LEMMA AgreesStill ==
  ASSUME NEW ss, IsOutline(ss), NEW i \in DOMAIN ss, NEW qs, IsQuestions(qs),
         NEW section, NEW question, Agrees(ss, section, question),
         \A k \in DOMAIN qs :
           \/ \E l \in DOMAIN ss[i].questions : qs[k].id = ss[i].questions[l].id
           \/ qs[k].id # question
  PROVE  Agrees(Replaced(ss, i, qs), section, question)
<1> DEFINE t == Replaced(ss, i, qs)
<1>1. /\ DOMAIN t = DOMAIN ss /\ t[i].questions = qs
      /\ \A j \in DOMAIN ss : t[j].id = ss[j].id /\ (j # i => t[j] = ss[j])
  BY ReplacedIs
<1> HIDE DEF t
<1>2. section # 0 => \E j \in DOMAIN t : t[j].id = section
  BY <1>1 DEF Agrees
<1>3. ASSUME NEW j \in DOMAIN t, NEW k \in DOMAIN t[j].questions,
             t[j].questions[k].id = question
      PROVE  t[j].id = section
  BY <1>1, <1>3 DEF Agrees
<1> QED BY <1>2, <1>3 DEF Agrees, t

(* A question of no other section agrees with this one. *)
LEMMA AgreesHere ==
  ASSUME NEW ss, IsOutline(ss), NEW i \in DOMAIN ss, NEW qs, IsQuestions(qs), NEW question,
         \A j \in DOMAIN ss : \A l \in DOMAIN ss[j].questions :
           j # i => ss[j].questions[l].id # question
  PROVE  Agrees(Replaced(ss, i, qs), ss[i].id, question)
<1> DEFINE t == Replaced(ss, i, qs)
<1>1. /\ DOMAIN t = DOMAIN ss /\ t[i].questions = qs
      /\ \A j \in DOMAIN ss : t[j].id = ss[j].id /\ (j # i => t[j] = ss[j])
  BY ReplacedIs
<1> HIDE DEF t
<1> QED BY <1>1 DEF Agrees, t

(* The questions of a section *)
LEMMA QuestionsOf ==
  ASSUME NEW ss, IsOutline(ss), NEW i \in DOMAIN ss
  PROVE  /\ IsQuestions(ss[i].questions) /\ IsSeq(ss[i].questions)
         /\ Len(ss[i].questions) \in Nat
         /\ DOMAIN ss[i].questions = 1 .. Len(ss[i].questions)
         /\ ss[i].id \in Nat \ {0}
<1> DEFINE qs == ss[i].questions
<1>1. IsQuestions(qs) /\ ss[i].id \in Nat \ {0}
  BY DEF IsOutline, IsSection
<1> HIDE DEF qs
<1>2. IsSeq(qs) /\ Len(qs) \in Nat /\ DOMAIN qs = 1 .. Len(qs)
  BY <1>1, SeqIsSeq DEF IsQuestions, IsSeq
<1> QED BY <1>1, <1>2 DEF qs

(* A row that is clicked selects a question of its section. *)
LEMMA ClickAgrees ==
  ASSUME NEW ss, IsOutline(ss), NEW i \in DOMAIN ss, NEW k \in DOMAIN ss[i].questions
  PROVE  Agrees(ss, ss[i].id, ss[i].questions[k].id)
BY DEF IsOutline, Apart, Agrees

(* addQuestion: a new question at the end of its section *)
LEMMA AddQuestionSound ==
  ASSUME OutlineInv, NEW i \in DOMAIN sections, NEW type, Editors!Outline!AddQuestion(i, type)
  PROVE  OutlineInv'
<1> DEFINE q == Editors!Outline!NewQuestions(1)
           n == Editors!Outline!NewQuestion(q[1], type)
           os == sections[i].questions
           qs == Append(os, n)
<1>1. /\ Editors!Outline!NumberOfQuestions < MaxQuestions
      /\ sections' = [sections EXCEPT ![i].questions = qs]
      /\ selectedSection' = sections[i].id /\ selectedQuestion' = q[1]
  BY DEF Editors!Outline!AddQuestion, Editors!Outline!Select
<1>2. IsOutline(sections)
  BY DEF OutlineInv
<1>3. Editors!Outline!NumberOfQuestions <= MaxQuestions
  BY <1>1, <1>2, NumberIsNat, ResearcherAssumption
<1>4. q[1] \in Nat \ {0} /\ NewTo(q[1], sections)
  BY <1>2, <1>3, NewQuestionsAreNew
<1> HIDE DEF q
<1>5. IsQuestion(n) /\ n.id = q[1]
  BY <1>4, NewQuestionIs
<1> HIDE DEF n
<1>6. IsQuestions(os) /\ IsSeq(os) /\ \A k \in DOMAIN os : os[k].id # n.id
  BY <1>2, <1>4, <1>5, QuestionsOf DEF NewTo
<1> HIDE DEF os
<1>7. IsQuestions(qs) /\ \A j \in DOMAIN qs : qs[j] = n \/ \E k \in DOMAIN os : qs[j] = os[k]
  <2> DEFINE p == Len(os) + 1
  <2>1. p \in 1 .. Len(os) + 1 /\ qs = With(os, p, n)
    BY <1>6, AppendIsWith
  <2> HIDE DEF p, qs
  <2> QED BY <1>5, <1>6, <2>1, QuestionsWith
<1> HIDE DEF qs
<1>8. IsOutline(Replaced(sections, i, qs))
  BY <1>2, <1>4, <1>5, <1>7, OutlineReplaced DEF os
<1>9. Agrees(Replaced(sections, i, qs), sections[i].id, q[1])
  BY <1>2, <1>4, <1>7, AgreesHere DEF NewTo
<1>10. sections' = Replaced(sections, i, qs)
  BY <1>1, <1>2, ReplacedIs
<1> QED BY <1>1, <1>8, <1>9, <1>10 DEF OutlineInv

(* duplicateQuestion: the copy after the original, either of them selected  *)
LEMMA DuplicateQuestionSound ==
  ASSUME OutlineInv, NEW i \in DOMAIN sections, NEW k \in DOMAIN sections[i].questions,
         NEW inRow, Editors!Outline!DuplicateQuestion(i, k, inRow)
  PROVE  OutlineInv'
<1> DEFINE q == Editors!Outline!NewQuestions(1)
           os == sections[i].questions
           n == Editors!Outline!Clone(os[k], q[1])
           qs == With(os, k + 1, n)
           ss == Replaced(sections, i, qs)
<1>1. /\ Editors!Outline!NumberOfQuestions < MaxQuestions
      /\ sections' = [sections EXCEPT ![i].questions = qs]
      /\ \/ selectedSection' = sections[i].id /\ selectedQuestion' = q[1]
         \/ selectedSection' = sections[i].id /\ selectedQuestion' = os[k].id
  BY DEF Editors!Outline!DuplicateQuestion, Editors!Outline!Select, Editors!Outline!ClickRow,
     Editors!Outline!InsertAt, With
<1>2. IsOutline(sections)
  BY DEF OutlineInv
<1>3. Editors!Outline!NumberOfQuestions <= MaxQuestions
  BY <1>1, <1>2, NumberIsNat, ResearcherAssumption
<1>4. q[1] \in Nat \ {0} /\ NewTo(q[1], sections)
  BY <1>2, <1>3, NewQuestionsAreNew
<1> HIDE DEF q
<1>5. /\ IsQuestions(os) /\ k \in DOMAIN os /\ IsQuestion(os[k])
      /\ k + 1 \in 1 .. Len(os) + 1
      /\ \A l \in DOMAIN os : os[l].id # q[1]
  <2>1. IsQuestions(os) /\ Len(os) \in Nat /\ DOMAIN os = 1 .. Len(os)
    BY <1>2, QuestionsOf
  <2>2. \A l \in DOMAIN os : os[l].id # q[1]
    BY <1>4 DEF NewTo
  <2>3. k \in DOMAIN os
    OBVIOUS
  <2> HIDE DEF os
  <2> QED BY <2>1, <2>2, <2>3 DEF IsQuestions
<1>6. \A j \in DOMAIN sections : \A l \in DOMAIN sections[j].questions :
        j # i => sections[j].questions[l].id # q[1] /\ sections[j].questions[l].id # os[k].id
  BY <1>2, <1>4 DEF NewTo, IsOutline, Apart
<1> HIDE DEF os
<1>7. IsQuestion(n) /\ n.id = q[1]
  BY <1>4, <1>5, CloneIs
<1> HIDE DEF n
<1>8. IsQuestions(qs) /\ \A j \in DOMAIN qs : qs[j] = n \/ \E l \in DOMAIN os : qs[j] = os[l]
  <2> DEFINE p == k + 1
  <2>1. p \in 1 .. Len(os) + 1 /\ qs = With(os, p, n)
    BY <1>5
  <2> HIDE DEF p, qs
  <2> QED BY <1>5, <1>7, <2>1, QuestionsWith
<1> HIDE DEF qs
<1>9. IsOutline(ss)
  BY <1>2, <1>4, <1>7, <1>8, OutlineReplaced DEF os
<1>10. Agrees(ss, sections[i].id, q[1]) /\ Agrees(ss, sections[i].id, os[k].id)
  <2>1. \A j \in DOMAIN sections : \A l \in DOMAIN sections[j].questions :
          j # i => sections[j].questions[l].id # q[1]
    BY <1>6
  <2>2. \A j \in DOMAIN sections : \A l \in DOMAIN sections[j].questions :
          j # i => sections[j].questions[l].id # os[k].id
    BY <1>6
  <2>3. Agrees(ss, sections[i].id, q[1])
    BY <1>2, <1>8, <2>1, AgreesHere
  <2> DEFINE old == os[k].id
  <2>4. \A j \in DOMAIN sections : \A l \in DOMAIN sections[j].questions :
          j # i => sections[j].questions[l].id # old
    BY <2>2
  <2> HIDE DEF old
  <2>5. Agrees(ss, sections[i].id, old)
    BY <1>2, <1>8, <2>4, AgreesHere
  <2> QED BY <2>3, <2>5 DEF old
<1>11. sections' = ss
  BY <1>1, <1>2, ReplacedIs
<1> HIDE DEF ss
<1> QED BY <1>1, <1>9, <1>10, <1>11 DEF OutlineInv

(* removeQuestion: from its row the question that is gone is selected. *)
LEMMA RemoveQuestionSound ==
  ASSUME OutlineInv, NEW i \in DOMAIN sections, NEW k \in DOMAIN sections[i].questions,
         NEW inRow, Editors!Outline!RemoveQuestion(i, k, inRow)
  PROVE  OutlineInv'
<1> DEFINE os == sections[i].questions
           qs == Without(os, k)
           ss == Replaced(sections, i, qs)
           id == os[k].id
<1>1. /\ sections' = [sections EXCEPT ![i].questions = qs]
      /\ \/ selectedSection' = sections[i].id /\ selectedQuestion' = id
         \/ selectedSection' = selectedSection /\ selectedQuestion' = selectedQuestion
  BY DEF Editors!Outline!RemoveQuestion, Editors!Outline!Select, Editors!Outline!ClickRow,
     Editors!Outline!WithoutQuestion, Editors!Outline!RemoveAt, Without
<1>2. IsOutline(sections) /\ Agrees(sections, selectedSection, selectedQuestion)
  BY DEF OutlineInv
<1>3. IsQuestions(os) /\ k \in DOMAIN os
  BY <1>2, QuestionsOf
<1>4. \A j \in DOMAIN sections : \A l \in DOMAIN sections[j].questions :
        j # i => sections[j].questions[l].id # id
  BY <1>2 DEF IsOutline, Apart
<1> HIDE DEF os
<1>5. IsQuestions(qs) /\ \A j \in DOMAIN qs : \E l \in DOMAIN os : qs[j] = os[l]
  BY <1>3, QuestionsWithout
<1> HIDE DEF qs
<1>6. \A j \in DOMAIN qs : \E l \in DOMAIN sections[i].questions :
        qs[j].id = sections[i].questions[l].id
  BY <1>5 DEF os
<1>7. IsOutline(ss)
  BY <1>2, <1>5, <1>6, OutlineReplaced
<1>8. Agrees(ss, selectedSection, selectedQuestion)
  BY <1>2, <1>5, <1>6, AgreesStill
<1>9. sections' = ss
  BY <1>1, <1>2, ReplacedIs
<1>10. Agrees(ss, sections[i].id, id)
  <2> HIDE DEF id
  <2> QED BY <1>2, <1>4, <1>5, AgreesHere
<1> HIDE DEF ss, id
<1> QED BY <1>1, <1>7, <1>8, <1>9, <1>10 DEF OutlineInv

(* The questions of a section, some changed, with the same identifiers *)
LEMMA SectionChangedSound ==
  ASSUME OutlineInv, NEW i \in DOMAIN sections, NEW qs, IsQuestions(qs),
         \A j \in DOMAIN qs : \E l \in DOMAIN sections[i].questions :
           qs[j].id = sections[i].questions[l].id,
         sections' = [sections EXCEPT ![i].questions = qs],
         selectedSection' = selectedSection, selectedQuestion' = selectedQuestion
  PROVE  OutlineInv'
<1> DEFINE ss == Replaced(sections, i, qs)
<1>1. IsOutline(sections) /\ Agrees(sections, selectedSection, selectedQuestion)
  BY DEF OutlineInv
<1>2. IsOutline(ss) /\ Agrees(ss, selectedSection, selectedQuestion)
  BY <1>1, OutlineReplaced, AgreesStill
<1>3. sections' = ss
  BY <1>1, ReplacedIs
<1> HIDE DEF ss
<1> QED BY <1>2, <1>3 DEF OutlineInv

(* moveQuestion: within its section *)
LEMMA MoveQuestionSound ==
  ASSUME OutlineInv, NEW i \in DOMAIN sections, NEW k \in DOMAIN sections[i].questions,
         NEW l \in DOMAIN sections[i].questions, Editors!Outline!MoveQuestion(i, k, l)
  PROVE  OutlineInv'
<1> DEFINE os == sections[i].questions
           rest == Without(os, k)
           q == os[k]
           qs == With(rest, l, q)
<1>1. /\ sections' = [sections EXCEPT ![i].questions = qs]
      /\ selectedSection' = selectedSection /\ selectedQuestion' = selectedQuestion
  BY DEF Editors!Outline!MoveQuestion, Editors!Outline!RemoveAt, Editors!Outline!InsertAt,
     Without, With
<1>2. /\ IsQuestions(os) /\ k \in DOMAIN os /\ l \in DOMAIN os
      /\ Len(os) \in Nat /\ DOMAIN os = 1 .. Len(os)
  BY QuestionsOf DEF OutlineInv
<1>3. sections' = [sections EXCEPT ![i].questions = qs] /\ os = sections[i].questions
  BY <1>1
<1> HIDE DEF os
<1>4. /\ IsQuestions(rest) /\ Len(rest) = Len(os) - 1
      /\ \A j \in DOMAIN rest : \E m \in DOMAIN os : m # k /\ rest[j] = os[m]
  <2>1. Len(rest) = Len(os) - 1
    BY <1>2, WithoutPlaces DEF IsQuestions
  <2> QED BY <1>2, <2>1, QuestionsWithout
<1> HIDE DEF rest
<1>5. /\ l \in 1 .. Len(rest) + 1 /\ IsQuestion(os[k])
      /\ \A j \in DOMAIN rest : rest[j].id # os[k].id
  BY <1>2, <1>4 DEF IsQuestions
<1>6. IsQuestions(qs) /\ \A j \in DOMAIN qs : qs[j] = q \/ \E m \in DOMAIN rest : qs[j] = rest[m]
  <2>1. IsQuestion(q) /\ \A j \in DOMAIN rest : rest[j].id # q.id
    BY <1>5
  <2> HIDE DEF q
  <2> QED BY <1>4, <1>5, <2>1, QuestionsWith
<1> HIDE DEF qs
<1>7. \A j \in DOMAIN qs : \E m \in DOMAIN sections[i].questions :
        qs[j].id = sections[i].questions[m].id
  <2>1. \A j \in DOMAIN qs : \E m \in DOMAIN os : qs[j] = os[m]
    BY <1>2, <1>4, <1>6
  <2> QED BY <1>3, <2>1
<1> QED BY <1>1, <1>3, <1>6, <1>7, SectionChangedSound

-----------------------------------------------------------------------------

(* The editor of a question *)

(* A question of the same identifier takes the place of one. *)
LEMMA UpdatedSound ==
  ASSUME OutlineInv, NEW i \in DOMAIN sections, NEW k \in DOMAIN sections[i].questions,
         NEW q, IsQuestion(q), q.id = sections[i].questions[k].id,
         NEW action, Editors!Outline!Updated(i, k, q, action)
  PROVE  OutlineInv'
<1> DEFINE os == sections[i].questions
           qs == [os EXCEPT ![k] = q]
<1>1. /\ sections' = [sections EXCEPT ![i].questions = qs]
      /\ selectedSection' = selectedSection /\ selectedQuestion' = selectedQuestion
  BY DEF Editors!Outline!Updated
<1>2. IsQuestions(os) /\ k \in DOMAIN os /\ q.id = os[k].id
  BY QuestionsOf DEF OutlineInv
<1>3. os = sections[i].questions
  OBVIOUS
<1> HIDE DEF os
<1>4. IsQuestions(qs) /\ \A j \in DOMAIN qs : \E l \in DOMAIN os : qs[j].id = os[l].id
  BY <1>2, QuestionsChanged
<1> HIDE DEF qs
<1> QED BY <1>1, <1>3, <1>4, SectionChangedSound

(* What is in an outline is a question. *)
LEMMA QuestionOf ==
  ASSUME OutlineInv, NEW i \in DOMAIN sections, NEW k \in DOMAIN sections[i].questions
  PROVE  IsQuestion(sections[i].questions[k])
BY QuestionsOf DEF OutlineInv, IsQuestions

(* updateQuestion: its texts *)
LEMMA UpdateQuestionSound ==
  ASSUME OutlineInv, NEW i \in DOMAIN sections, NEW k \in DOMAIN sections[i].questions,
         Editors!Outline!UpdateQuestion(i, k)
  PROVE  OutlineInv'
<1> DEFINE q == sections[i].questions[k]
<1>1. IsQuestion(q) /\ q.id = sections[i].questions[k].id
  BY QuestionOf
<1>2. Editors!Outline!Updated(i, k, q, "updateQuestion")
  BY DEF Editors!Outline!UpdateQuestion
<1> HIDE DEF q
<1> QED BY <1>1, <1>2, UpdatedSound

(* setQuestionType: with the options of the new type *)
LEMMA SetQuestionTypeSound ==
  ASSUME OutlineInv, NEW i \in DOMAIN sections, NEW k \in DOMAIN sections[i].questions,
         NEW type, Editors!Outline!SetQuestionType(i, k, type)
  PROVE  OutlineInv'
<1> DEFINE o == sections[i].questions[k]
           q == [o EXCEPT !.type = type, !.options = Editors!Outline!DefaultOptions(type)]
<1>1. Editors!Outline!Updated(i, k, q, "setQuestionType")
  BY DEF Editors!Outline!SetQuestionType
<1>2. IsQuestion(o) /\ o = sections[i].questions[k]
  BY QuestionOf
<1> HIDE DEF o
<1>3. IsQuestion(q) /\ q.id = sections[i].questions[k].id
  BY <1>2, TypeChanged
<1> HIDE DEF q
<1> QED BY <1>1, <1>3, UpdatedSound

(* Other options of a choice, all different *)
LEMMA SetOptionsSound ==
  ASSUME OutlineInv, NEW i \in DOMAIN sections, NEW k \in DOMAIN sections[i].questions,
         NEW options, Distinct(options), NEW action,
         Editors!Outline!SetOptions(i, k, options, action)
  PROVE  OutlineInv'
<1> DEFINE o == sections[i].questions[k]
           q == [o EXCEPT !.options = options]
<1>1. Editors!Outline!Updated(i, k, q, action) /\ o.type = "multiple_choice"
  BY DEF Editors!Outline!SetOptions, Editors!Outline!OfType
<1>2. IsQuestion(o) /\ o = sections[i].questions[k]
  BY QuestionOf
<1> HIDE DEF o
<1>3. IsQuestion(q) /\ q.id = sections[i].questions[k].id
  BY <1>1, <1>2, OptionsChanged
<1> HIDE DEF q
<1> QED BY <1>1, <1>3, UpdatedSound

(* addQuestionOption *)
LEMMA AddOptionSound ==
  ASSUME OutlineInv, NEW i \in DOMAIN sections, NEW k \in DOMAIN sections[i].questions,
         Editors!Outline!AddOption(i, k)
  PROVE  OutlineInv'
<1> DEFINE os == sections[i].questions[k].options
           new == Append(os, Editors!Outline!Min((1 .. MaxOptions) \ Editors!Outline!ToSet(os)))
<1>1. Len(os) < MaxOptions /\ Editors!Outline!SetOptions(i, k, new, "addQuestionOption")
  BY DEF Editors!Outline!AddOption
<1>2. Distinct(os)
  BY QuestionOf DEF IsQuestion
<1>3. Distinct(new)
  <2> HIDE DEF os
  <2> QED BY <1>1, <1>2, OptionAdded
<1> HIDE DEF new
<1> QED BY <1>1, <1>3, SetOptionsSound

(* removeQuestionOption *)
LEMMA RemoveOptionSound ==
  ASSUME OutlineInv, NEW i \in DOMAIN sections, NEW k \in DOMAIN sections[i].questions,
         NEW o \in DOMAIN sections[i].questions[k].options, Editors!Outline!RemoveOption(i, k, o)
  PROVE  OutlineInv'
<1> DEFINE os == sections[i].questions[k].options
           new == Without(os, o)
<1>1. Editors!Outline!SetOptions(i, k, new, "removeQuestionOption")
  BY DEF Editors!Outline!RemoveOption, Editors!Outline!RemoveAt, Without
<1>2. Distinct(os) /\ o \in DOMAIN os
  BY QuestionOf DEF IsQuestion
<1>3. Distinct(new)
  <2> HIDE DEF os
  <2> QED BY <1>2, DistinctWithout
<1> HIDE DEF new
<1> QED BY <1>1, <1>3, SetOptionsSound

(* moveQuestionOption *)
LEMMA MoveOptionSound ==
  ASSUME OutlineInv, NEW i \in DOMAIN sections, NEW k \in DOMAIN sections[i].questions,
         NEW o \in DOMAIN sections[i].questions[k].options,
         NEW p \in DOMAIN sections[i].questions[k].options, Editors!Outline!MoveOption(i, k, o, p)
  PROVE  OutlineInv'
<1> DEFINE os == sections[i].questions[k].options
           rest == Without(os, o)
           e == os[o]
           new == With(rest, p, e)
<1>1. Editors!Outline!SetOptions(i, k, new, "moveQuestionOption")
  BY DEF Editors!Outline!MoveOption, Editors!Outline!RemoveAt, Editors!Outline!InsertAt,
     Without, With
<1>2. Distinct(os) /\ o \in DOMAIN os /\ p \in DOMAIN os
  BY QuestionOf DEF IsQuestion
<1> HIDE DEF os
<1>3. /\ Distinct(rest) /\ \A j \in DOMAIN rest : rest[j] # e
      /\ Len(os) \in Nat /\ DOMAIN os = 1 .. Len(os) /\ Len(rest) = Len(os) - 1
  BY <1>2, DistinctWithout, WithoutPlaces DEF Distinct
<1> HIDE DEF rest, e
<1>4. p \in 1 .. Len(rest) + 1
  BY <1>2, <1>3
<1>5. Distinct(new)
  BY <1>3, <1>4, DistinctWith
<1> HIDE DEF new
<1> QED BY <1>1, <1>5, SetOptionsSound

(* The guide stays as it is *)
LEMMA OutlineUnchanged ==
  ASSUME OutlineInv, UNCHANGED Editors!Outline!guide
  PROVE  OutlineInv'
BY DEF OutlineInv, Editors!Outline!guide

(* A click on a row *)
LEMMA SelectQuestionSound ==
  ASSUME OutlineInv, NEW i \in DOMAIN sections, NEW k \in DOMAIN sections[i].questions,
         Editors!Outline!SelectQuestion(i, k)
  PROVE  OutlineInv'
<1>1. /\ sections' = sections
      /\ selectedSection' = sections[i].id /\ selectedQuestion' = sections[i].questions[k].id
  BY DEF Editors!Outline!SelectQuestion, Editors!Outline!ClickRow, Editors!Outline!Select
<1>2. IsOutline(sections) /\ Agrees(sections, sections[i].id, sections[i].questions[k].id)
  BY ClickAgrees DEF OutlineInv
<1> QED BY <1>1, <1>2 DEF OutlineInv

(* The guide a new editor shows *)
LEMMA ReopenSound ==
  ASSUME Editors!Outline!Reopen
  PROVE  OutlineInv'
BY StarterIs DEF Editors!Outline!Reopen, Editors!Outline!Select, OutlineInv

(* It begins with that guide. *)
LEMMA OutlineInit ==
  ASSUME Editors!Outline!Init
  PROVE  OutlineInv
BY StarterIs DEF Editors!Outline!Init, OutlineInv

-----------------------------------------------------------------------------

(* The steps of the tab *)

(* The fields and the buttons of the editor *)
LEMMA QuestionEditorSound ==
  ASSUME OutlineInv, NEW i \in DOMAIN sections, NEW k \in DOMAIN sections[i].questions,
         Editors!Outline!DynamicQuestionEditor(i, k)
  PROVE  OutlineInv'
<1>1. CASE Editors!Outline!UpdateQuestion(i, k)
  BY <1>1, UpdateQuestionSound
<1>2. CASE \E type \in Editors!Outline!QuestionType : Editors!Outline!SetQuestionType(i, k, type)
  BY <1>2, SetQuestionTypeSound
<1>3. CASE Editors!Outline!QuestionFields(i, k)
  <2>1. CASE Editors!Outline!MultipleChoiceFields(i, k)
    BY <2>1, UpdateQuestionSound, AddOptionSound, RemoveOptionSound, MoveOptionSound
       DEF Editors!Outline!MultipleChoiceFields
  <2>2. CASE ~Editors!Outline!MultipleChoiceFields(i, k)
    BY <1>3, <2>2, UpdateQuestionSound
       DEF Editors!Outline!QuestionFields, Editors!Outline!ConversationalFields,
           Editors!Outline!TaskFields, Editors!Outline!RatingFields,
           Editors!Outline!NumberInputFields
  <2> QED BY <2>1, <2>2
<1>4. CASE \/ Editors!Outline!DuplicateQuestion(i, k, FALSE)
           \/ Editors!Outline!RemoveQuestion(i, k, FALSE)
  BY <1>4, DuplicateQuestionSound, RemoveQuestionSound
<1> QED BY <1>1, <1>2, <1>3, <1>4 DEF Editors!Outline!DynamicQuestionEditor

(* The title, the menus and the rows of a section *)
LEMMA SectionBlockSound ==
  ASSUME OutlineInv, NEW i \in DOMAIN sections, Editors!Outline!SectionBlock(i)
  PROVE  OutlineInv'
<1>1. CASE Editors!Outline!EditTitle
  BY <1>1, OutlineUnchanged DEF Editors!Outline!EditTitle
<1>2. CASE Editors!Outline!SectionMenu(i)
  BY <1>2, DuplicateSectionSound, RemoveSectionSound, AddQuestionSound
     DEF Editors!Outline!SectionMenu
<1>3. CASE \E k \in DOMAIN sections[i].questions : Editors!Outline!SortableQuestionRow(i, k)
  BY <1>3, SelectQuestionSound, DuplicateQuestionSound, RemoveQuestionSound
     DEF Editors!Outline!SortableQuestionRow
<1>4. CASE \E k, l \in DOMAIN sections[i].questions : Editors!Outline!MoveQuestion(i, k, l)
  BY <1>4, MoveQuestionSound
<1> QED BY <1>1, <1>2, <1>3, <1>4 DEF Editors!Outline!SectionBlock

(* Every step of the outline's tab keeps its invariant. *)
LEMMA OutlineNext ==
  ASSUME OutlineInv, Editors!Outline!Next
  PROVE  OutlineInv'
<1>1. CASE Editors!Outline!AddSection
  BY <1>1, AddSectionSound
<1>2. CASE \E i \in DOMAIN sections : Editors!Outline!SectionBlock(i)
  BY <1>2, SectionBlockSound
<1>3. CASE Editors!Outline!EditorPane
  BY <1>3, QuestionEditorSound DEF Editors!Outline!EditorPane
<1>4. CASE \/ Editors!Outline!SetSectionRandomizationEnabled
           \/ Editors!Outline!SetSectionRandomizationMode
           \/ Editors!Outline!LoadGuide
  BY <1>4, OutlineUnchanged
     DEF Editors!Outline!SetSectionRandomizationEnabled,
         Editors!Outline!SetSectionRandomizationMode, Editors!Outline!LoadGuide
<1>5. CASE Editors!Outline!Reopen
  BY <1>5, ReopenSound
<1> QED BY <1>1, <1>2, <1>3, <1>4, <1>5
        DEF Editors!Outline!Next, Editors!Outline!OutlineTab,
            Editors!Outline!GuideOutlinePanel, Editors!Outline!SettingsAndSummaryPanel

-----------------------------------------------------------------------------
(* The tabs of a study *)

MarksInv == area = "editors" => ScreenerInv

ShowsInv == area = "editors" => StimuliInv

(* Changes of the stimuli overlap *)
Overlaps == area = "editors" /\ Overlap

OutlinesInv == area = "editors" => OutlineInv

(* The screener keeps its invariant, whichever tab is open. *)
LEMMA MarksInvariant == Spec => []MarksInv
<1>1. Init => MarksInv
  BY ScreenerInit DEF Init, MarksInv, Editors!Init
<1>2. MarksInv /\ [Next]_vars => MarksInv'
  <2> SUFFICES ASSUME MarksInv, [Next]_vars PROVE MarksInv'
    OBVIOUS
  <2>1. UNCHANGED Editors!screenerVars => (ScreenerInv' <=> ScreenerInv)
    BY DEF Editors!screenerVars, ScreenerInv, AllGradable
  <2>2. CASE InEditors
    <3>1. CASE Editors!InScreener
      BY <2>2, <3>1, ScreenerNext DEF InEditors, Editors!InScreener, MarksInv
    <3>2. CASE Editors!InOutline \/ Editors!InStimuli
      BY <2>1, <2>2, <3>2 DEF InEditors, Editors!InOutline, Editors!InStimuli, MarksInv
    <3> QED BY <2>2, <3>1, <3>2 DEF InEditors, Editors!Next
  <2>3. CASE InInsights \/ InReports \/ InDecisions \/ InAsking
    BY <2>3 DEF InInsights, InReports, InDecisions, InAsking, MarksInv
  <2>4. CASE UNCHANGED vars
    <3>1. UNCHANGED area /\ UNCHANGED Editors!screenerVars
      BY <2>4 DEF vars, editorsVars, Editors!screenerVars
    <3> QED BY <2>1, <3>1 DEF MarksInv
  <2> QED BY <2>2, <2>3, <2>4 DEF Next
<1> QED BY <1>1, <1>2, PTL DEF Spec

(* The screener never marks an option its question does not have, so that   *)
(* its summary counts the questions that can be passed: whatever the type   *)
(* and the number of options a question is given, however questions move,   *)
(* and whichever load of the stored screener comes when.                    *)
THEOREM PassMarksStayOptions == Spec => []PassMarksAreOptions
<1>1. MarksInv => PassMarksAreOptions
  BY GradableCounts DEF MarksInv, PassMarksAreOptions, Editors!PassMarksAreOptions
<1> QED BY <1>1, MarksInvariant, PTL

(* So does the tab of stimuli, until two of its changes overlap. *)
LEMMA ShowsInvariant == Spec => []ShowsInv \/ <>Overlaps
<1>1. Init => ShowsInv
  BY StimuliInit DEF Init, ShowsInv, Editors!Init
<1>2. ShowsInv /\ [Next]_vars /\ ~Overlaps' => ShowsInv'
  <2> SUFFICES ASSUME ShowsInv, [Next]_vars, ~Overlaps' PROVE ShowsInv'
    OBVIOUS
  <2>1. UNCHANGED Editors!stimuliVars => (StimuliInv' <=> StimuliInv)
    BY DEF Editors!stimuliVars, StimuliInv, Editors!Stimuli!ShownIsStored
  <2>2. CASE InEditors
    <3>1. CASE Editors!InStimuli
      BY <2>2, <3>1, StimuliNext DEF InEditors, Editors!InStimuli, ShowsInv, Overlaps
    <3>2. CASE Editors!InOutline \/ Editors!InScreener
      BY <2>1, <2>2, <3>2 DEF InEditors, Editors!InOutline, Editors!InScreener, ShowsInv
    <3> QED BY <2>2, <3>1, <3>2 DEF InEditors, Editors!Next
  <2>3. CASE InInsights \/ InReports \/ InDecisions \/ InAsking
    BY <2>3 DEF InInsights, InReports, InDecisions, InAsking, ShowsInv
  <2>4. CASE UNCHANGED vars
    <3>1. UNCHANGED area /\ UNCHANGED Editors!stimuliVars
      BY <2>4 DEF vars, editorsVars, Editors!stimuliVars
    <3> QED BY <2>1, <3>1 DEF ShowsInv
  <2> QED BY <2>2, <2>3, <2>4 DEF Next
<1> QED BY <1>1, <1>2, PTL DEF Spec

(* The stimuli tab shows what is stored whenever nothing is in flight and   *)
(* it does not know itself to be stale, whichever of the changes a click    *)
(* asks for fails: for ever, or until the researcher asks for a change      *)
(* while another is under way, which the tab does not prevent.              *)
THEOREM ShownStaysStored == Spec => []ShownIsStored \/ <>Overlaps
<1>1. ShowsInv => ShownIsStored
  BY DEF ShowsInv, StimuliInv, ShownIsStored, Editors!ShownIsStored
<1> QED BY <1>1, ShowsInvariant, PTL

(* And so does the outline. *)
LEMMA OutlinesInvariant == Spec => []OutlinesInv
<1>1. Init => OutlinesInv
  BY OutlineInit DEF Init, OutlinesInv, Editors!Init
<1>2. OutlinesInv /\ [Next]_vars => OutlinesInv'
  <2> SUFFICES ASSUME OutlinesInv, [Next]_vars PROVE OutlinesInv'
    OBVIOUS
  <2>1. UNCHANGED Editors!outlineVars => (OutlineInv' <=> OutlineInv)
    BY DEF Editors!outlineVars, OutlineInv
  <2>2. CASE InEditors
    <3>1. CASE Editors!InOutline
      BY <2>2, <3>1, OutlineNext DEF InEditors, Editors!InOutline, OutlinesInv
    <3>2. CASE Editors!InScreener \/ Editors!InStimuli
      BY <2>1, <2>2, <3>2 DEF InEditors, Editors!InScreener, Editors!InStimuli, OutlinesInv
    <3> QED BY <2>2, <3>1, <3>2 DEF InEditors, Editors!Next
  <2>3. CASE InInsights \/ InReports \/ InDecisions \/ InAsking
    BY <2>3 DEF InInsights, InReports, InDecisions, InAsking, OutlinesInv
  <2>4. CASE UNCHANGED vars
    <3>1. UNCHANGED area /\ UNCHANGED Editors!outlineVars
      BY <2>4 DEF vars, editorsVars, Editors!outlineVars
    <3> QED BY <2>1, <3>1 DEF OutlinesInv
  <2> QED BY <2>2, <2>3, <2>4 DEF Next
<1> QED BY <1>1, <1>2, PTL DEF Spec

(* Through every sequence of edits of a guide, however its sections and     *)
(* questions are added, duplicated, moved, retyped and removed, from the    *)
(* editor or from a row, their identifiers stay unique, the two halves of   *)
(* the selection agree, and only choices have options.                      *)
THEOREM OutlineStaysSound == Spec => []OutlineIsSound
<1>1. OutlinesInv => OutlineIsSound
  BY OutlineSound DEF OutlinesInv, OutlineIsSound
<1> QED BY <1>1, OutlinesInvariant, PTL

=============================================================================
