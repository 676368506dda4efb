---------------------------- MODULE InsightsPage ----------------------------
(***************************************************************************)
(* The insights of a study in the researcher's browser: insightsLogic.ts   *)
(* and InsightsPage.tsx.  While the insights are being generated they are  *)
(* loaded again and again, by a timer; the last answer wins, whichever     *)
(* request it belongs to.                                                  *)
(*                                                                         *)
(* The insights of a study, and their findings, are known by the study.    *)
(* Highlights and findings are asked for together and are one request      *)
(* here.  Left out: what they say.                                         *)
(***************************************************************************)
EXTENDS Naturals, FiniteSetsExt

CONSTANTS
  Study,     \* identifiers
  None,
  MaxLoads   \* bound on requests in flight

VARIABLES
  server,     \* the insights of a study, or None
  page,       \* values of insightsLogic, and whether it is mounted
  intervals,  \* timers that run (setInterval)
  loads       \* requests in flight

vars == <<server, page, intervals, loads>>

-----------------------------------------------------------------------------

Status == {"pending", "generating", "ready", "failed"}

(* found: findings are stored. *)
Insights(status, found) == [status |-> status, found |-> found]

(* findings: those shown; expandedFindings: by identifier, of whatever     *)
(* study; polls is cache.pollTimer; failed: no load of the insights        *)
(* succeeded since the last one failed.                                    *)
Closed ==
  [mounted |-> FALSE, studyId |-> None, insights |-> None, findings |-> {},
   expandedFindings |-> {}, loading |-> {}, polls |-> FALSE, failed |-> FALSE]

Findings(s) == IF server[s].found THEN {s} ELSE {}

(* Nothing in the code makes insights ready (see Generated); rows written  *)
(* in another way, as the tests write them, may be.                        *)
Init ==
  /\ server \in [Study -> {None, Insights("pending", FALSE), Insights("ready", TRUE)}]
  /\ page = Closed
  /\ intervals = 0
  /\ loads = {}

Of(kind) == {r \in loads : r.kind = kind}

Room(n) == Cardinality(loads) + n <= MaxLoads

(* One more request; a load without a study answers null. *)
Asked(rs, kind, s) ==
  rs \cup {[id |-> Min((1 .. MaxLoads) \ {r.id : r \in rs}), kind |-> kind, of |-> s,
            served |-> FALSE, answer |-> None]}

NoInsights == None

Shown == page.insights # NoInsights

IsLoading == page.loading # {}

IsGenerating == Shown /\ page.insights.status = "generating"

IsEmpty == Shown => page.insights.status = "pending"

IsReady == page.studyId # None /\ Shown /\ page.insights.status = "ready"

Held == IF page.polls THEN 1 ELSE 0

-----------------------------------------------------------------------------
(* The researcher *)

(* afterMount and, when the URL names a study, setStudyId: both load.      *)
Open(s) ==
  /\ ~page.mounted /\ Room(2)
  /\ page' = [Closed EXCEPT !.mounted = TRUE, !.studyId = s,
                            !.loading = IF s = None THEN {} ELSE {"insights"}]
  /\ loads' = IF s = None THEN loads
              ELSE Asked(Asked(loads, "insights", s), "insights", s)
  /\ UNCHANGED <<server, intervals>>

(* beforeUnmount clears the timer, the values go. *)
Leave ==
  /\ page.mounted
  /\ page' = Closed
  /\ intervals' = intervals - Held
  /\ UNCHANGED <<server, loads>>

(* Stops polling and loads; what was shown stays. *)
SetStudyId(s) ==
  /\ page.mounted /\ s # page.studyId /\ Room(1)
  /\ page' = [page EXCEPT !.studyId = s, !.polls = FALSE, !.loading = @ \cup {"insights"}]
  /\ intervals' = intervals - Held
  /\ loads' = Asked(loads, "insights", s)
  /\ UNCHANGED server

(* Of the insights that are shown, which need not be those of the study. *)
RerunInsights ==
  /\ Shown /\ Room(1)
  /\ loads' = Asked(loads, "rerun", page.insights.of)
  /\ UNCHANGED <<server, page, intervals>>

(* Of the findings that are shown; which are expanded outlives them.       *)
ToggleFinding(f) ==
  /\ page' = [page EXCEPT !.expandedFindings = (@ \ {f}) \cup ({f} \ @)]
  /\ UNCHANGED <<server, intervals, loads>>

-----------------------------------------------------------------------------
(* The timer *)

LoadInsights ==
  /\ page' = [page EXCEPT !.loading = @ \cup {"insights"}]
  /\ loads' = Asked(loads, "insights", page.studyId)
  /\ UNCHANGED <<server, intervals>>

PollTick == intervals > 0 /\ page.mounted /\ Room(1) /\ LoadInsights

(* Wrong variant: the timer that runs already is left alone. *)
StartPollingAgain == intervals' = intervals + 1

StartPolling == intervals' = intervals - Held + 1

StopPolling == intervals' = intervals - Held

-----------------------------------------------------------------------------
(* The server *)

Serve(r) ==
  /\ r \in loads /\ ~r.served
  /\ server' = IF r.kind = "rerun" THEN [server EXCEPT ![r.of].status = "generating"]
               ELSE server
  /\ loads' = (loads \ {r}) \cup
       {[r EXCEPT !.served = TRUE,
                  !.answer = CASE r.kind = "details" -> Findings(r.of)
                               [] r.kind = "insights" /\ r.of # None ->
                                    IF server[r.of] = None THEN None
                                    ELSE [of |-> r.of, status |-> server[r.of].status]
                               [] OTHER -> None]}
  /\ UNCHANGED <<page, intervals>>

(* generate_insights_task fails where there is no completed interview, and *)
(* fails where there is one: the braces around the topics of its prompt    *)
(* are not doubled, so that building the prompt raises ValueError.  The    *)
(* findings of before stay.                                                *)
Generated(s) ==
  /\ server[s] # None /\ server[s].status = "generating"
  /\ server' = [server EXCEPT ![s].status = "failed"]
  /\ UNCHANGED <<page, intervals, loads>>

-----------------------------------------------------------------------------
(* Answers.  A logic that is not mounted does not hear them; one that was  *)
(* mounted again does.                                                     *)

InsightsAnswered(r) ==
  /\ r \in Of("insights") /\ r.served /\ page.mounted
  /\ LET generating == r.answer # None /\ r.answer.status = "generating"
         details == r.answer # None /\ ~generating
     IN  /\ page' = [page EXCEPT
              !.insights = r.answer, !.failed = FALSE, !.polls = generating,
              !.loading = (@ \ {"insights"}) \cup (IF details THEN {"details"} ELSE {})]
         /\ IF generating THEN StartPolling ELSE StopPolling
         /\ loads' = IF details THEN Asked(loads \ {r}, "details", r.of) ELSE loads \ {r}
  /\ UNCHANGED server

DetailsAnswered(r) ==
  /\ r \in Of("details") /\ r.served /\ page.mounted
  /\ page' = [page EXCEPT !.findings = r.answer, !.loading = @ \ {"details"}]
  /\ loads' = loads \ {r}
  /\ UNCHANGED <<server, intervals>>

(* Loads the insights of the study by then. *)
RerunAnswered(r) ==
  /\ r \in Of("rerun") /\ r.served /\ page.mounted
  /\ page' = [page EXCEPT !.loading =
                IF page.studyId = None THEN @ ELSE @ \cup {"insights"}]
  /\ loads' = IF page.studyId = None THEN loads \ {r}
              ELSE Asked(loads \ {r}, "insights", page.studyId)
  /\ UNCHANGED <<server, intervals>>

(* A load that fails leaves the value as it was. *)
Failed(r) ==
  /\ r \in loads /\ page.mounted
  /\ page' = [page EXCEPT !.loading = @ \ {r.kind},
                          !.failed = @ \/ r.kind = "insights"]
  /\ loads' = loads \ {r}
  /\ UNCHANGED <<server, intervals>>

Unheard(r) ==
  /\ r \in loads /\ ~page.mounted
  /\ loads' = loads \ {r}
  /\ UNCHANGED <<server, page, intervals>>

-----------------------------------------------------------------------------
(* The components and the clicks they offer *)

FindingRow(f) == IsReady /\ ToggleFinding(f)

InsightsView ==
  \/ \E s \in Study : SetStudyId(s)
  \/ Shown /\ page.insights.status = "ready" /\ RerunInsights
  \/ page.studyId # None /\ ~IsLoading /\ ~IsGenerating /\ IsEmpty /\ RerunInsights
  \/ \E f \in page.findings : FindingRow(f)

Researcher == Leave \/ InsightsView \/ \E s \in Study \cup {None} : Open(s)

Network(r) ==
  \/ Serve(r) \/ InsightsAnswered(r) \/ DetailsAnswered(r) \/ RerunAnswered(r)
  \/ Failed(r) \/ Unheard(r)

Next ==
  \/ Researcher \/ PollTick
  \/ \E s \in Study : Generated(s)
  \/ \E r \in loads : Network(r)

Spec == Init /\ [][Next]_vars

-----------------------------------------------------------------------------

(* The timer follows what is shown: one timer runs while the page says     *)
(* "generating" and none otherwise, through changes of the study, answers  *)
(* of several loads out of order and leaving; and a page that says         *)
(* "generating" polls, or has asked, or the last load failed.              *)
InsightsArePolled ==
  /\ intervals = Held
  /\ page.polls => IsGenerating
  /\ IsGenerating => page.polls \/ Of("insights") # {} \/ page.failed

=============================================================================
