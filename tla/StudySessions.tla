--------------------------- MODULE StudySessions ---------------------------
(***************************************************************************)
(* What the researcher sees of the interviews of a study: the Sessions tab *)
(* with its table (SessionsTab.tsx, sessionsLogic.ts), the broadcasts of   *)
(* the Recruit tab (broadcastsLogic.ts), the panel with the study's link   *)
(* above all tabs (SharePanel.tsx), and the page of one transcript         *)
(* (SessionTranscriptPage.tsx), which is reached by plain links: each of   *)
(* them opens a new document.                                              *)
(*                                                                         *)
(* The lists name the study in their requests; the server does not look at *)
(* it and sends the team's.  The study record that carries the link is     *)
(* StudyPage's: here any study's that has been opened.  The links that     *)
(* broadcastsLogic loads with the broadcasts are shown nowhere and left    *)
(* out.                                                                    *)
(***************************************************************************)
EXTENDS Naturals, FiniteSets, SequencesExt

CONSTANTS
  Study, Session,
  SessionOf,    \* [Session -> Study]
  StartedAt,    \* [Session -> Nat], 0 while it has not started
  Column,       \* columns of the table that are clicked on
  Query,        \* texts that are searched for, each the set of sessions it is found in
  MaxRequests,  \* bound on requests in flight
  MaxCopies,    \* bound on writes to the clipboard under way
  MaxTimers,    \* bound on running timers of a "copied" label
  None

VARIABLES
  server,      \* sessions that are over, studies with a broadcast
  studyId,     \* study page: study of the URL, None elsewhere
  tab,         \* and its tab
  share,       \* SharePanel: study of its link, None without a panel; what is "copied"
  sessions,    \* values of sessionsLogic
  table,       \* state of the table of SessionsTab
  broadcasts,  \* values of broadcastsLogic
  transcript,  \* state of SessionTranscriptPage
  copies,      \* writes to the clipboard under way
  timers,      \* running timers, by the component that started them
  requests     \* requests in flight

vars == <<server, studyId, tab, share, sessions, table, broadcasts, transcript,
          copies, timers, requests>>

-----------------------------------------------------------------------------

Row(s) ==
  [id |-> s, of |-> SessionOf[s], started_at |-> StartedAt[s],
   status |-> IF s \in server.over THEN "completed"
              ELSE IF StartedAt[s] = 0 THEN "pending" ELSE "active"]

NoPanel == [link |-> None, copied |-> None]
NotLoaded == [rows |-> {}, loading |-> FALSE]
NoBroadcasts == [rows |-> {}, loading |-> FALSE]
NewTable == [sorting |-> <<[id |-> "started_at", desc |-> TRUE]>>, query |-> Session]
NoTranscript ==
  [of |-> None, session |-> None, loading |-> TRUE, error |-> FALSE, copied |-> None]

Init ==
  /\ server = [over |-> {}, sent |-> {}]
  /\ studyId = None /\ tab = None
  /\ share = NoPanel /\ sessions = NotLoaded /\ table = NewTable
  /\ broadcasts = NoBroadcasts /\ transcript = NoTranscript
  /\ copies = {}
  /\ timers = [c \in {"share", "transcript"} |-> 0]
  /\ requests = {}

pageVars == <<studyId, tab, share, sessions, table, broadcasts, transcript>>
copyVars == <<copies, timers>>

Asked(kinds) ==
  /\ Cardinality(requests) + Cardinality(kinds) <= MaxRequests
  /\ requests' = requests \cup
       {[id |-> CHOOSE i \in 1 .. MaxRequests : \A q \in requests : q.id # i,
         kind |-> k, answer |-> None] : k \in kinds}

-----------------------------------------------------------------------------
(* The table: a column at a time is sorted; query stands for the sessions  *)
(* a cell of which holds the text.                                         *)

Key(row, column) ==
  IF column = "started_at" THEN row.started_at
  ELSE CASE row.status = "active" -> 1
         [] row.status = "completed" -> 2
         [] row.status = "pending" -> 3

(* The server knows none of the other names that have a colour.            *)
Variant(status) == IF status = "completed" THEN "success" ELSE "neutral"

Cells(row) ==
  [status |-> Variant(row.status), started |-> row.started_at # 0,
   href |-> row.id]

Before(sorting, a, b) ==
  /\ sorting # <<>>
  /\ IF sorting[1].desc THEN Key(a, sorting[1].id) > Key(b, sorting[1].id)
     ELSE Key(a, sorting[1].id) < Key(b, sorting[1].id)

RowModel(rows, t) ==
  LET kept == {row \in rows : row.id \in t.query} IN
  {order \in SetToSeqs(kept) :
     \A i, j \in DOMAIN order : i < j => ~Before(t.sorting, order[j], order[i])}

EmptyRow(d) == IF d.loading THEN "Loading" ELSE "none"

(* The default order of a column, the other one, no order *)
ToggleSorting(column) ==
  /\ tab = "sessions"
  /\ LET now == table.sorting
         first == <<[id |-> column, desc |-> FALSE]>> IN
     table' = [table EXCEPT !.sorting =
                 IF now = <<>> \/ now[1].id # column THEN first
                 ELSE IF now = first THEN <<[id |-> column, desc |-> TRUE]>> ELSE <<>>]
  /\ UNCHANGED <<server, studyId, tab, share, sessions, broadcasts, transcript, copyVars, requests>>

SetQuery(found) ==
  /\ tab = "sessions" /\ found # table.query
  /\ table' = [table EXCEPT !.query = found]
  /\ UNCHANGED <<server, studyId, tab, share, sessions, broadcasts, transcript, copyVars, requests>>

-----------------------------------------------------------------------------
(* The study page *)

(* A tab that stays while the study changes keeps its state: the sessions  *)
(* are loaded again, the broadcasts are not.                               *)
OpenStudy(s, t) ==
  /\ transcript.of = None /\ <<s, t>> # <<studyId, tab>>
  /\ studyId' = s /\ tab' = t
  /\ IF t = "sessions"
       THEN /\ Asked({"sessions"})
            /\ sessions' = [rows |-> IF tab = t THEN sessions.rows ELSE {}, loading |-> TRUE]
            /\ table' = IF tab = t THEN table ELSE NewTable
            /\ broadcasts' = NoBroadcasts
       ELSE /\ sessions' = NotLoaded /\ table' = NewTable
            /\ IF t = "recruit" /\ tab # t
                 THEN Asked({"broadcasts"}) /\ broadcasts' = [NoBroadcasts EXCEPT !.loading = TRUE]
                 ELSE /\ broadcasts' = IF t = tab THEN broadcasts ELSE NoBroadcasts
                      /\ UNCHANGED requests
  /\ UNCHANGED <<server, share, transcript, copyVars>>

(* The record of the study, with its link *)
StudyShown(s) ==
  /\ studyId # None /\ s # share.link
  /\ share' = [share EXCEPT !.link = s]
  /\ UNCHANGED <<server, studyId, tab, sessions, table, broadcasts, transcript, copyVars, requests>>

LeaveStudy ==
  /\ studyId # None
  /\ studyId' = None /\ tab' = None
  /\ share' = NoPanel /\ sessions' = NotLoaded /\ table' = NewTable
  /\ broadcasts' = NoBroadcasts
  /\ UNCHANGED <<server, transcript, copyVars, requests>>

(* launchRecruitment, which loads the broadcasts again *)
Launched ==
  /\ tab = "recruit"
  /\ Asked({"broadcasts"})
  /\ server' = [server EXCEPT !.sent = @ \cup {studyId}]
  /\ broadcasts' = [broadcasts EXCEPT !.loading = TRUE]
  /\ UNCHANGED <<studyId, tab, share, sessions, table, transcript, copyVars>>

BroadcastList(b) == IF b.rows = {} THEN EmptyRow(b) ELSE "rows"

-----------------------------------------------------------------------------
(* The page of a transcript *)

(* A link of the table, or the link back from the transcript: the document *)
(* is loaded anew, and nothing of the old one answers.                     *)
NewDocument ==
  /\ share' = NoPanel /\ table' = NewTable
  /\ broadcasts' = NoBroadcasts
  /\ copies' = {} /\ timers' = [c \in DOMAIN timers |-> 0]
  /\ UNCHANGED server

OpenTranscript(row) ==
  /\ tab = "sessions" /\ row.id \in table.query
  /\ NewDocument
  /\ studyId' = None /\ tab' = None /\ sessions' = NotLoaded
  /\ transcript' = [NoTranscript EXCEPT !.of = Cells(row).href]
  /\ requests' = {[id |-> 1, kind |-> "transcript", answer |-> None]}

BackToSessions ==
  /\ transcript.of # None /\ ~transcript.loading /\ ~transcript.error
  /\ NewDocument
  /\ studyId' = transcript.session.of /\ tab' = "sessions"
  /\ sessions' = [NotLoaded EXCEPT !.loading = TRUE]
  /\ transcript' = NoTranscript
  /\ requests' = {[id |-> 1, kind |-> "sessions", answer |-> None]}

(* The sidebar leaves the page in the document that is open. *)
LeaveTranscript ==
  /\ transcript.of # None
  /\ transcript' = NoTranscript
  /\ requests' = {q \in requests : q.kind # "transcript"}
  /\ UNCHANGED <<server, studyId, tab, share, sessions, table, broadcasts, copyVars>>

FormatTranscript(session) == [of |-> session.id, whole |-> session.status = "completed"]

-----------------------------------------------------------------------------
(* Copying *)

Copying(c, text) ==
  /\ Cardinality(copies) < MaxCopies
  /\ copies' = copies \cup {[by |-> c, text |-> text]}
  /\ UNCHANGED <<server, pageVars, timers, requests>>

CopyLink == share.link # None /\ Copying("share", share.link)

(* A session that has not started has no turns, and no buttons. *)
TranscriptShown ==
  /\ transcript.of # None /\ ~transcript.loading /\ ~transcript.error
  /\ Cells(transcript.session).started

CopyTranscript ==
  /\ TranscriptShown
  /\ Copying("transcript", FormatTranscript(transcript.session))

(* The page may be gone by then, its timer is started all the same. *)
Copied(c) ==
  /\ c \in copies /\ timers[c.by] < MaxTimers
  /\ copies' = copies \ {c}
  /\ timers' = [timers EXCEPT ![c.by] = @ + 1]
  /\ share' = IF c.by = "share" /\ share.link # None THEN [share EXCEPT !.copied = c.text] ELSE share
  /\ transcript' = IF c.by = "transcript" /\ transcript.of # None
                   THEN [transcript EXCEPT !.copied = c.text] ELSE transcript
  /\ UNCHANGED <<server, studyId, tab, sessions, table, broadcasts, requests>>

CopyRefused(c) ==
  /\ copies' = copies \ {c}
  /\ UNCHANGED <<server, pageVars, timers, requests>>

TimerFires(c) ==
  /\ timers[c] > 0
  /\ timers' = [timers EXCEPT ![c] = @ - 1]
  /\ share' = IF c = "share" THEN [share EXCEPT !.copied = None] ELSE share
  /\ transcript' = IF c = "transcript" THEN [transcript EXCEPT !.copied = None] ELSE transcript
  /\ UNCHANGED <<server, studyId, tab, sessions, table, broadcasts, copies, requests>>

-----------------------------------------------------------------------------
(* Answers *)

Serve(q) ==
  /\ q.answer = None
  /\ requests' = (requests \ {q}) \cup
       {[q EXCEPT !.answer =
           CASE q.kind = "sessions" -> {Row(s) : s \in Session}
             [] q.kind = "broadcasts" -> server.sent
             [] q.kind = "transcript" -> Row(transcript.of)]}
  /\ UNCHANGED <<server, pageVars, copyVars>>

Loaded(d, q, ok) == [rows |-> IF ok THEN q.answer ELSE d.rows, loading |-> FALSE]

(* Wrong variant: an error leaves the page loading. *)
FetchedThen(q, ok) ==
  IF ok THEN [transcript EXCEPT !.session = q.answer, !.loading = FALSE]
  ELSE [transcript EXCEPT !.error = TRUE]

Fetched(q, ok) ==
  IF ok THEN [transcript EXCEPT !.session = q.answer, !.error = FALSE, !.loading = FALSE]
  ELSE [transcript EXCEPT !.error = TRUE, !.loading = FALSE]

(* The logic of a tab that is not open hears nothing. *)
Settled(q, ok) ==
  /\ sessions' = IF q.kind = "sessions" /\ tab = "sessions" THEN Loaded(sessions, q, ok) ELSE sessions
  /\ broadcasts' =
       IF q.kind = "broadcasts" /\ tab = "recruit" THEN Loaded(broadcasts, q, ok) ELSE broadcasts
  /\ transcript' = IF q.kind = "transcript" THEN Fetched(q, ok) ELSE transcript

Answered(q) ==
  /\ q.answer # None
  /\ Settled(q, TRUE)
  /\ requests' = requests \ {q}
  /\ UNCHANGED <<server, studyId, tab, share, table, copyVars>>

(* The server cannot be reached, or answers that it did not do it. *)
Failed(q) ==
  /\ q.answer = None
  /\ Settled(q, FALSE)
  /\ requests' = requests \ {q}
  /\ UNCHANGED <<server, studyId, tab, share, table, copyVars>>

(* complete_session, which the beat task calls for a session that has not  *)
(* started, too.                                                           *)
SessionEnds(s) ==
  /\ s \notin server.over
  /\ server' = [server EXCEPT !.over = @ \cup {s}]
  /\ UNCHANGED <<pageVars, copyVars, requests>>

-----------------------------------------------------------------------------

Next ==
  \/ \E s \in Study : StudyShown(s) \/ \E t \in {"sessions", "recruit", "brief"} : OpenStudy(s, t)
  \/ LeaveStudy \/ Launched \/ BackToSessions \/ LeaveTranscript \/ CopyLink \/ CopyTranscript
  \/ \E column \in Column : ToggleSorting(column)
  \/ \E found \in Query : SetQuery(found)
  \/ \E row \in sessions.rows : OpenTranscript(row)
  \/ \E c \in copies : Copied(c) \/ CopyRefused(c)
  \/ \E c \in DOMAIN timers : TimerFires(c)
  \/ \E q \in requests : Serve(q) \/ Answered(q) \/ Failed(q)
  \/ \E s \in Session : SessionEnds(s)

Spec == Init /\ [][Next]_vars

-----------------------------------------------------------------------------

(* Nothing that the pages say will pass stays: a list or a transcript that *)
(* is "loading" is one that is still asked for, whatever failed, was late  *)
(* or belonged to a tab left and opened again, and a label that says       *)
(* "copied" has a timer that will take it back, although copies and timers *)
(* outlive the panels they were started from.                              *)
NothingHangs ==
  /\ sessions.loading => \E q \in requests : q.kind = "sessions"
  /\ broadcasts.loading => \E q \in requests : q.kind = "broadcasts"
  /\ transcript.of # None /\ transcript.loading => \E q \in requests : q.kind = "transcript"
  /\ share.copied # None => timers["share"] > 0
  /\ transcript.copied # None => timers["transcript"] > 0

(* The Sessions tab of a study lists that study's sessions (violated: the  *)
(* server sends the team's).                                               *)
SessionsAreOwn == \A row \in sessions.rows : row.of = studyId

(* What is said to be copied is the link beside it (violated: the study    *)
(* may have been switched while the label was still up).                   *)
CopiedIsShown == share.copied \in {None, share.link}

=============================================================================
