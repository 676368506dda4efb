------------------------- MODULE ParticipantBrowser -------------------------
(***************************************************************************)
(* The participant's browser as a whole: the entry page                    *)
(* (participantEntryLogic), from which a started session navigates to the  *)
(* room (InterviewRoom) or, in a study that is typed, to the text          *)
(* interview (textInterviewLogic), and the way back.                       *)
(*                                                                         *)
(* What the endpoints of merism/participant/views.py do is modelled as far *)
(* as the browser depends on it; ParticipantEntry has the rest.            *)
(***************************************************************************)
EXTENDS InterviewRoom

CONSTANTS
  Session,   \* sessions the server may create, 1 .. n
  MaxPosts   \* bound on requests in flight

ASSUME BrowserAssumption ==
  /\ IsFiniteSet(Session) /\ Session = 1 .. Cardinality(Session)
  /\ MaxPosts \in Nat \ {0}

VARIABLES
  page,    \* the URL: the scene and the session in it
  typed,   \* the study is a text study
  entry,   \* participantEntryLogic: its step, whether the context has come and is loading
  text,    \* textInterviewLogic: the draft is not blank
  joined,  \* the session that interviewRoomLogic picked from the URL, or 0
  posts,   \* requests in flight
  server   \* the participation and its sessions

entryVars == <<page, typed, entry, text, joined, posts, server>>
vars == <<roomVars, entryVars>>

-----------------------------------------------------------------------------

Step == {"loading", "consent", "screener", "session", "thanks", "error"}

Post ==
  [id : 1 .. MaxPosts, kind : {"load", "consent", "start", "message"},
   stage : {"sent", "creating", "answered"}, answer : Step, session : Session \cup {0}]

Loading == [step |-> "loading", context |-> FALSE, loading |-> TRUE]

NewPost(kind, ps) ==
  [id |-> Min((1 .. MaxPosts) \ {p.id : p \in ps}), kind |-> kind, stage |-> "sent",
   answer |-> "loading", session |-> 0]

Posting(kind) ==
  /\ Cardinality(posts) < MaxPosts
  /\ posts' = posts \cup {NewPost(kind, posts)}

(* The first effect of the entry page sets the slug, which asks for the    *)
(* context.                                                                *)
OpenEntry ==
  /\ page' = [scene |-> "entry", session |-> 0]
  /\ entry' = Loading
  /\ Posting("load")

BrowserInit ==
  /\ RoomInit
  /\ page = [scene |-> "entry", session |-> 0]
  /\ typed \in BOOLEAN
  /\ entry = Loading
  /\ text = FALSE
  /\ joined = 0
  /\ posts = {NewPost("load", {})}
  /\ server \in [consented : {FALSE}, screener : BOOLEAN, done : {FALSE},
                 sessions : {0}, open : {{}}]

-----------------------------------------------------------------------------
(* The entry page *)

(* Wrong variant: it is shown while the context is loading. *)
StepViewEarly ==
  IF entry.step \in {"consent", "thanks", "error"} THEN entry.step ELSE "session"

(* What the page shows; every step it has no view of is ReadyToStart.  The *)
(* error says the same whatever went wrong: nothing sets errorCode.        *)
StepView ==
  IF ~entry.context /\ entry.loading THEN "loading"
  ELSE IF entry.step \in {"consent", "thanks", "error"} THEN entry.step ELSE "session"

Ready == page.scene = "entry" /\ StepView = "session"

(* The form can be submitted again until an answer has replaced it. *)
SubmitConsent ==
  /\ page.scene = "entry" /\ StepView = "consent"
  /\ Posting("consent")
  /\ UNCHANGED <<roomVars, page, typed, entry, text, joined, server>>

(* So can the start button. *)
StartSession ==
  /\ Ready
  /\ Patient => \A p \in posts : p.kind # "start"
  /\ Posting("start")
  /\ UNCHANGED <<roomVars, page, typed, entry, text, joined, server>>

-----------------------------------------------------------------------------
(* The server *)

NextStep ==
  IF server.done THEN "thanks"
  ELSE IF ~server.consented THEN "consent"
  ELSE IF server.screener THEN "screener" ELSE "session"

Reply(p, answer) ==
  posts' = (posts \ {p}) \cup {[p EXCEPT !.stage = "answered", !.answer = answer]}

ReplySession(p, s) ==
  posts' = (posts \ {p}) \cup {[p EXCEPT !.stage = "answered", !.session = s]}

ServeLoad(p) ==
  /\ p.stage = "sent" /\ p.kind = "load"
  /\ Reply(p, NextStep)
  /\ UNCHANGED <<roomVars, page, typed, entry, text, joined, server>>

ServeConsent(p) ==
  /\ p.stage = "sent" /\ p.kind = "consent"
  /\ server' = [server EXCEPT !.consented = TRUE]
  /\ Reply(p, IF server.done THEN "thanks"
              ELSE IF server.screener THEN "screener" ELSE "session")
  /\ UNCHANGED <<roomVars, page, typed, entry, text, joined>>

(* An open session is used again; the look-up precedes the creation. *)
ServeStart(p) ==
  /\ p.stage = "sent" /\ p.kind = "start"
  /\ IF ~server.consented THEN Reply(p, "error")
     ELSE IF server.open # {} THEN ReplySession(p, Max(server.open))
     ELSE posts' = (posts \ {p}) \cup {[p EXCEPT !.stage = "creating"]}
  /\ UNCHANGED <<roomVars, page, typed, entry, text, joined, server>>

CreateSession(p) ==
  /\ p.stage = "creating"
  /\ server.sessions + 1 \in Session
  /\ server' = [server EXCEPT !.sessions = @ + 1, !.open = @ \cup {server.sessions + 1}]
  /\ ReplySession(p, server.sessions + 1)
  /\ UNCHANGED <<roomVars, page, typed, entry, text, joined>>

(* The link is closed, the study full, or the request lost. *)
Refuse(p) ==
  /\ p.stage = "sent"
  /\ Reply(p, "error")
  /\ UNCHANGED <<roomVars, page, typed, entry, text, joined, server>>

SessionEnds(s) ==
  /\ s \in server.open
  /\ server' = [server EXCEPT !.open = @ \ {s}, !.done = TRUE]
  /\ UNCHANGED <<roomVars, page, typed, entry, text, joined, posts>>

-----------------------------------------------------------------------------
(* Answers.  The logic of another scene is not mounted and does not see    *)
(* its step change.                                                        *)

StepAnswered(p) ==
  /\ p.stage = "answered" /\ p.session = 0
  /\ posts' = posts \ {p}
  /\ entry' = IF page.scene # "entry" THEN entry
              ELSE [step |-> p.answer,
                    context |-> entry.context \/ (p.kind = "load" /\ p.answer # "error"),
                    loading |-> entry.loading /\ p.kind # "load"]
  /\ UNCHANGED <<roomVars, page, typed, text, joined, server>>

(* routes a text-mode session to the text interview, once the context has  *)
(* told that it is one                                                     *)
SceneOfSession == IF typed /\ entry.context THEN "text" ELSE "room"

(* startSession pushes the session's URL, wherever the participant is by   *)
(* then.  A page that is already there stays, with a new URL.              *)
StartAnswered(p) ==
  /\ p.stage = "answered" /\ p.session # 0
  /\ posts' = posts \ {p}
  /\ page' = [scene |-> SceneOfSession, session |-> p.session]
  /\ IF page.scene = "entry"
       THEN /\ voice' = NoVoice
            /\ room' = [NoRoom EXCEPT !.readers = room.readers]
            /\ text' = FALSE
       ELSE UNCHANGED <<voice, room, text>>
  /\ UNCHANGED <<uiPhase, shown, check, mics, connects, sockets, decoding, playing,
                 typed, entry, joined, server>>

-----------------------------------------------------------------------------
(* The room *)

(* startSession of interviewRoomLogic reads the session from the URL. *)
InRoom ==
  /\ page.scene = "room"
  /\ Render \/ Participant
  /\ joined' = IF ~room'.session THEN 0
               ELSE IF room'.readers > room.readers THEN page.session ELSE joined
  /\ UNCHANGED <<page, typed, entry, text, posts, server>>

(* The microphones, the sockets and the event streams go on in any scene. *)
Elsewhere == Later /\ UNCHANGED entryVars

(* Wrong variant: the logic survives its page. *)
ForgottenNot == joined

(* What unmounting the room leaves of the session it was in *)
Forgotten == 0

(* The browser's back button unmounts the room and forgets the state of    *)
(* both logics.  The page's effect calls clear() of both, but the page has *)
(* let go of them by then: that does something only while LiveRoom still   *)
(* holds them.  The entry page asks for its context.                       *)
LeaveRoom ==
  /\ page.scene = "room"
  /\ Patient => posts = {} /\ connects = {} /\ shown # "error"
  /\ OpenEntry
  /\ joined' = Forgotten
  /\ uiPhase' = "mode" /\ shown' = "mode" /\ check' = NoCheck
  /\ voice' = NoVoice
  /\ room' = [NoRoom EXCEPT !.readers = room.readers]
  /\ IF shown = "live"
       THEN /\ mics' = Stopped(AfterUnmount, voice.capture)
            /\ playing' = Silenced
            /\ sockets' = HangUp(sockets)
       ELSE mics' = AfterUnmount /\ UNCHANGED <<playing, sockets>>
  /\ UNCHANGED <<connects, decoding, typed, text, server>>

-----------------------------------------------------------------------------
(* The text interview *)

TypeAnswer ==
  /\ page.scene = "text"
  /\ text' = TRUE
  /\ UNCHANGED <<roomVars, page, typed, entry, joined, posts, server>>

(* The reducer of sendMessage has cleared the draft when its listener      *)
(* looks at it; a blank one is not sent.                                   *)
SendMessage ==
  /\ page.scene = "text" /\ text
  /\ text' = FALSE
  /\ IF text' THEN Posting("message") ELSE UNCHANGED posts
  /\ UNCHANGED <<roomVars, page, typed, entry, joined, server>>

LeaveText ==
  /\ page.scene = "text"
  /\ Patient => posts = {}
  /\ OpenEntry
  /\ text' = FALSE
  /\ UNCHANGED <<roomVars, typed, joined, server>>

-----------------------------------------------------------------------------

Serve(p) ==
  ServeLoad(p) \/ ServeConsent(p) \/ ServeStart(p) \/ CreateSession(p) \/ Refuse(p)

Next ==
  \/ SubmitConsent \/ StartSession
  \/ \E p \in posts : Serve(p) \/ StepAnswered(p) \/ StartAnswered(p)
  \/ \E s \in Session : SessionEnds(s)
  \/ InRoom \/ Elsewhere \/ LeaveRoom
  \/ TypeAnswer \/ SendMessage \/ LeaveText

Spec == BrowserInit /\ [][Next]_vars

-----------------------------------------------------------------------------

(* Types of the variables. *)
TypeOK ==
  /\ RoomTypeOK
  /\ page \in [scene : {"entry", "room", "text"}, session : Session \cup {0}]
  /\ typed \in BOOLEAN /\ text \in BOOLEAN
  /\ entry \in [step : Step, context : BOOLEAN, loading : BOOLEAN]
  /\ joined \in Session \cup {0}
  /\ posts \subseteq Post
  /\ server \in [consented : BOOLEAN, screener : BOOLEAN, done : BOOLEAN,
                 sessions : Session \cup {0}, open : SUBSET Session]

(* Nobody is interviewed, or offered to start, who has not consented:      *)
(* whatever the entry page shows and in whatever order its requests are    *)
(* answered, the start button, the room and the text interview are there   *)
(* only for a participation the server has the consent of (StepView;       *)
(* startSession, 412 consent_required).                                    *)
RoomHasConsent == page.scene # "entry" \/ Ready => server.consented

(* The interview the browser is in is the one of its URL: the room's       *)
(* session is the session the page was opened for, after any number of     *)
(* starts and ways back, and it is typed in a typed study and spoken in    *)
(* any other ("appends ?mode=text to the interview URL when it routes a    *)
(* text-mode session in").                                                 *)
InterviewFitsUrl ==
  /\ page.scene = "room" /\ joined # 0 => joined = page.session
  /\ page.scene # "entry" => (typed <=> page.scene = "text")

(* What the participant sends is posted ("The page hits                    *)
(* POST /api/sessions/:id/message/"): a draft that a send has taken is in  *)
(* flight.                                                                 *)
AnswersArePosted ==
  [][page'.scene = "text" /\ text /\ ~text' => posts' # posts]_vars

=============================================================================
