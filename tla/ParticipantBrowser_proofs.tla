---------------------- MODULE ParticipantBrowser_proofs ----------------------
(***************************************************************************)
(* What the participant's browser keeps, for any number of microphones,    *)
(* sockets, sessions and requests.                                         *)
(*                                                                         *)
(* Typed and ConsentInv are inductive for every participant, and so is     *)
(* SceneInv.  RoomInv says how a call's microphones, socket and pending    *)
(* connect hang together with what the page shows; only a hasty try in the *)
(* room (HastyInRoom) breaks it.  UrlInv says that a start comes from the  *)
(* entry page, one at a time, once the context is there; only a hasty      *)
(* start or way back (HastyStart) breaks it.  The theorems hold for every  *)
(* participant: what they promise lasts for ever, or until such a step.    *)
(***************************************************************************)
EXTENDS ParticipantBrowser, Lemmas

(* The chunks of a player share its bound, and requests can be counted. *)
PlayersBounded == \A m \in Mic : decoding[m] + playing[m] <= MaxChunks

Typed == TypeOK /\ PlayersBounded /\ IsFiniteSet(posts)

-----------------------------------------------------------------------------
(* Operators *)

(* Min and Max of numbers of an interval are members. *)
LEMMA MinIsMember ==
  ASSUME NEW S, S \subseteq Nat, S # {}
  PROVE  Min(S) \in S
BY LeastExists, Zenon DEF Min

(* The largest of some numbers is one of them. *)
LEMMA MaxIsMember ==
  ASSUME NEW n \in Nat, NEW S, S \subseteq 1 .. n, S # {}
  PROVE  Max(S) \in S
<1> DEFINE T == {k \in Nat : n - k \in S}
<1>1. PICK s \in S : TRUE
  OBVIOUS
<1>2. n - s \in T
  BY <1>1
<1>3. PICK k \in T : \A j \in T : k =< j
  <2>1. T \subseteq Nat /\ T # {}
    BY <1>2
  <2> HIDE DEF T
  <2> QED BY <2>1, LeastExists
<1>4. \A y \in S : n - k >= y
  <2> TAKE y \in S
  <2>1. y \in Nat /\ y <= n /\ n - y \in T
    OBVIOUS
  <2> QED BY <1>3, <2>1
<1>5. n - k \in S
  BY <1>3
<1> QED BY <1>4, <1>5, Zenon DEF Max

(* Microphones, sockets and sessions are numbers other than 0. *)
LEMMA Numbered ==
  /\ Mic \subseteq Nat \ {0}
  /\ Socket \subseteq Nat \ {0}
  /\ Session \subseteq Nat \ {0}
BY RoomAssumption, BrowserAssumption, FS_CardinalityType

(* The least free microphone is one. *)
LEMMA FreeMicIsMic ==
  ASSUME FreeMics # {}
  PROVE  Min(FreeMics) \in FreeMics /\ Min(FreeMics) \in Mic
BY MinIsMember, Numbered DEF FreeMics

(* The next socket is one of the sockets. *)
LEMMA FreeSocketIsSocket ==
  ASSUME FreeSockets # {}
  PROVE  Min(FreeSockets) \in FreeSockets /\ Min(FreeSockets) \in Socket
BY MinIsMember, Numbered DEF FreeSockets

(* The latest open session is an open session. *)
LEMMA OpenSessionIsOne ==
  ASSUME server.open \in SUBSET Session, server.open # {}
  PROVE  Max(server.open) \in server.open
<1>1. Cardinality(Session) \in Nat
  BY BrowserAssumption, FS_CardinalityType
<1> QED BY <1>1, MaxIsMember, BrowserAssumption

(* While there are fewer requests than numbers, one of these is free. *)
LEMMA FreeIdExists ==
  ASSUME NEW ps, ps \subseteq Post, IsFiniteSet(ps), Cardinality(ps) < MaxPosts
  PROVE  (1 .. MaxPosts) \ {p.id : p \in ps} # {}
<1> DEFINE ids == {p.id : p \in ps}
           f == [p \in ps |-> p.id]
<1>1. f \in Surjection(ps, ids)
  BY DEF Surjection
<1>2. IsFiniteSet(ids) /\ Cardinality(ids) <= Cardinality(ps)
  <2> HIDE DEF f, ids
  <2> QED BY <1>1, FS_Surjection
<1>3. ASSUME 1 .. MaxPosts \subseteq ids
      PROVE  FALSE
  <2>1. Cardinality(1 .. MaxPosts) = MaxPosts
    BY FS_Interval, BrowserAssumption
  <2>2. Cardinality(1 .. MaxPosts) <= Cardinality(ids)
    <3> HIDE DEF ids
    <3> QED BY <1>2, <1>3, FS_Subset
  <2> HIDE DEF ids
  <2> QED BY <2>1, <2>2, <1>2, FS_CardinalityType, BrowserAssumption
<1> QED BY <1>3

(* A request has a number of its own while there is room for one more. *)
LEMMA NewPostIsPost ==
  ASSUME NEW ps, ps \subseteq Post, IsFiniteSet(ps), Cardinality(ps) < MaxPosts,
         NEW kind \in {"load", "consent", "start", "message"}
  PROVE  NewPost(kind, ps) \in Post
<1>1. Min((1 .. MaxPosts) \ {p.id : p \in ps}) \in 1 .. MaxPosts
  BY FreeIdExists, MinIsMember, BrowserAssumption
<1> QED BY <1>1 DEF NewPost, Post, Step

-----------------------------------------------------------------------------
(* Types *)

(* The browser begins with values of the types. *)
LEMMA TypedInit == BrowserInit => Typed
<1> SUFFICES ASSUME BrowserInit PROVE Typed
  OBVIOUS
<1>1. RoomTypeOK /\ PlayersBounded
  BY RoomAssumption DEF BrowserInit, RoomInit, RoomTypeOK, PlayersBounded, Phase, Room, NoRoom,
     Voice, NoVoice, Check, NoCheck, MicState, NoMic, SocketState, NoSocket
<1>2. NewPost("load", {}) \in Post
  <2>1. IsFiniteSet({}) /\ Cardinality({}) = 0
    BY FS_EmptySet
  <2> QED BY <2>1, NewPostIsPost, BrowserAssumption
<1>3. IsFiniteSet(posts)
  BY FS_Singleton DEF BrowserInit
<1> QED
  BY <1>1, <1>2, <1>3 DEF BrowserInit, Typed, TypeOK, Loading, Step

(* Requests stay requests, finitely many. *)
LEMMA PostsTyped ==
  ASSUME Typed, NEW kind \in {"load", "consent", "start", "message"}, Posting(kind)
  PROVE  posts' \subseteq Post /\ IsFiniteSet(posts')
<1>1. NewPost(kind, posts) \in Post
  BY NewPostIsPost DEF Typed, TypeOK, Posting
<1>2. IsFiniteSet(posts')
  BY FS_AddElement DEF Typed, Posting
<1> QED BY <1>1, <1>2 DEF Typed, TypeOK, Posting

(* A request that is served is still a request. *)
LEMMA RepliesTyped ==
  ASSUME Typed, NEW p \in posts, NEW q \in Post, posts' = (posts \ {p}) \cup {q}
  PROVE  posts' \subseteq Post /\ IsFiniteSet(posts')
<1>1. IsFiniteSet(posts \ {p})
  BY FS_RemoveElement DEF Typed
<1>2. IsFiniteSet((posts \ {p}) \cup {q})
  <2> DEFINE rest == posts \ {p}
  <2> HIDE DEF rest
  <2> QED BY <1>1, FS_AddElement DEF rest
<1> QED BY <1>2 DEF Typed, TypeOK

(* So are those left when one was answered. *)
LEMMA PostsRemoved ==
  ASSUME Typed, NEW p \in posts, posts' = posts \ {p}
  PROVE  posts' \subseteq Post /\ IsFiniteSet(posts')
BY FS_RemoveElement DEF Typed, TypeOK

RoomTyped == RoomTypeOK /\ PlayersBounded

(* Leaving the microphone check gives its microphone back. *)
LEMMA AfterUnmountTyped ==
  ASSUME RoomTyped
  PROVE  AfterUnmount \in [Mic -> MicState]
BY DEF RoomTyped, RoomTypeOK, AfterUnmount, Stopped, NoMic, MicState

(* A microphone that is stopped has a state. *)
LEMMA StoppedTyped ==
  ASSUME NEW ms \in [Mic -> MicState], NEW m
  PROVE  Stopped(ms, m) \in [Mic -> MicState]
BY DEF Stopped, NoMic, MicState

(* One whose capture failed is off or lost, with its gate shut, and the    *)
(* others are as they were.                                                *)
LEMMA FailedOnly ==
  ASSUME mics \in [Mic -> MicState], NEW m \in Mic, mics' \in Failed(m)
  PROVE  /\ mics' \in [Mic -> MicState]
         /\ \A k \in Mic : /\ k # m => mics'[k] = mics[k]
                           /\ k = m => mics'[k].stream \in {"off", "lost"} /\ ~mics'[k].gate
<1>1. CASE mics' = Stopped(mics, m)
  BY <1>1 DEF Stopped, NoMic, MicState
<1>2. CASE mics' = [mics EXCEPT ![m] = LostMic]
  <2>1. LostMic \in MicState /\ LostMic.stream = "lost" /\ ~LostMic.gate
    BY DEF LostMic, MicState
  <2> HIDE DEF LostMic
  <2> QED BY <1>2, <2>1
<1> QED BY <1>1, <1>2 DEF Failed

(* So has one the browser is asked for. *)
LEMMA AskedTyped ==
  ASSUME NEW ms \in [Mic -> MicState], NEW m \in Mic
  PROVE  [ms EXCEPT ![m].stream = "asked"] \in [Mic -> MicState]
BY DEF MicState

(* Starting a session is one more reader of the room. *)
LEMMA StartedTyped ==
  ASSUME RoomTyped, room.readers < MaxReaders
  PROVE  StartedSession \in Room
<1>1. room \in Room /\ room.readers + 1 \in 0 .. MaxReaders
  BY RoomAssumption DEF RoomTyped, RoomTypeOK, Room
<1>2. \A k \in 0 .. MaxReaders : [room EXCEPT !.session = TRUE, !.readers = k] \in Room
  BY <1>1 DEF Room
<1> QED BY <1>1, <1>2 DEF StartedSession

(* Clearing the voice takes nothing but what was to be played. *)
LEMMA ClearedTyped ==
  ASSUME RoomTyped
  PROVE  /\ ClearedVoice \in Voice
         /\ Silenced \in [Mic -> 0 .. MaxChunks]
         /\ \A m \in Mic : decoding[m] + Silenced[m] <= MaxChunks
         /\ \A sks \in [Socket -> SocketState] : HangUp(sks) \in [Socket -> SocketState]
<1>1. ClearedVoice \in Voice
  BY DEF RoomTyped, RoomTypeOK, ClearedVoice, Voice
<1>2. /\ Silenced \in [Mic -> 0 .. MaxChunks]
      /\ \A m \in Mic : decoding[m] + Silenced[m] <= MaxChunks
  BY RoomAssumption DEF RoomTyped, RoomTypeOK, PlayersBounded, Silenced
<1>3. \A sks \in [Socket -> SocketState] : HangUp(sks) \in [Socket -> SocketState]
  BY DEF HangUp, SocketState
<1> QED BY <1>1, <1>2, <1>3

(* What a step of the room leaves alone keeps its type. *)
LEMMA RenderTyped ==
  ASSUME RoomTyped, Render
  PROVE  RoomTyped'
<1> USE DEF RoomTyped, RoomTypeOK, PlayersBounded
<1>1. Wanted \in Phase \cup {"error"}
  BY DEF Wanted
<1>2. CASE RenderMicCheck
  <2> DEFINE m == Min(FreeMics)
  <2>1. m \in Mic
    BY <1>2, FreeMicIsMic DEF RenderMicCheck
  <2>2. check' \in Check /\ mics' \in [Mic -> MicState]
    <3> HIDE DEF m
    <3> QED BY <1>2, <2>1 DEF RenderMicCheck, NoCheck, Check, MicState, m
  <2> QED BY <1>1, <1>2, <2>2 DEF RenderMicCheck
<1>3. CASE RenderLive
  <2>1. check' \in Check
    BY <1>3 DEF RenderLive, NoCheck, Check
  <2>2. /\ mics' \in [Mic -> MicState]
        /\ voice' \in Voice /\ connects' \subseteq Connect
    <3>1. CASE room.session
      <4>1. PICK m \in FreeMics :
              /\ voice' = [voice EXCEPT !.connected = TRUE]
              /\ connects' = connects \cup {[mic |-> m, keep |-> voice.capture]}
              /\ mics' = [AfterUnmount EXCEPT ![m].stream = "asked"]
        BY <1>3, <3>1 DEF RenderLive
      <4>2. m \in Mic
        BY DEF FreeMics
      <4>3. mics' \in [Mic -> MicState]
        BY <4>1, <4>2, AfterUnmountTyped, AskedTyped
      <4>4. voice' \in Voice
        BY <4>1 DEF Voice
      <4>5. [mic |-> m, keep |-> voice.capture] \in Connect
        BY <4>2 DEF Voice, Connect
      <4> QED BY <4>1, <4>3, <4>4, <4>5
    <3>2. CASE ~room.session
      BY <1>3, <3>2, AfterUnmountTyped DEF RenderLive
    <3> QED BY <3>1, <3>2
  <2> QED BY <1>1, <1>3, <2>1, <2>2 DEF RenderLive
<1>4. CASE RenderText
  <2>1. check' \in Check /\ room' \in Room
    BY <1>4, StartedTyped DEF RenderText, NoCheck, Check
  <2> QED BY <1>1, <1>4, <2>1, AfterUnmountTyped DEF RenderText
<1>5. CASE RenderOther
  <2>1. check' \in Check
    BY <1>5 DEF RenderOther, NoCheck, Check
  <2> QED BY <1>1, <1>5, <2>1, AfterUnmountTyped DEF RenderOther
<1> QED BY <1>2, <1>3, <1>4, <1>5 DEF Render

(* A click in the room keeps the types. *)
LEMMA ParticipantTyped ==
  ASSUME RoomTyped, Participant
  PROVE  RoomTyped'
<1> USE DEF RoomTyped, RoomTypeOK, PlayersBounded
<1>1. CASE Continue
  BY <1>1 DEF Continue, Phase
<1>2. CASE FallBackToText
  BY <1>2 DEF FallBackToText, Phase
<1>3. CASE BeginInterview
  <2>1. voice' \in Voice
    BY <1>3 DEF BeginInterview, AttachCapture, Voice, Check
  <2>2. mics' \in [Mic -> MicState] /\ room' \in Room
    BY <1>3, StartedTyped DEF BeginInterview, AttachCapture, MicState
  <2> QED BY <1>3, <2>1, <2>2 DEF BeginInterview, Phase
<1>4. CASE EndTurn
  <2>1. voice' \in Voice
    BY <1>4 DEF EndTurn, Voice
  <2>2. mics' \in [Mic -> MicState]
    BY <1>4 DEF EndTurn, MicState
  <2>3. sockets' \in [Socket -> SocketState]
    BY <1>4 DEF EndTurn, SocketState
  <2> QED BY <1>4, <2>1, <2>2, <2>3 DEF EndTurn
<1>5. CASE BeginTurn
  <2>1. voice' \in Voice
    BY <1>5 DEF BeginTurn, Voice
  <2>2. mics' \in [Mic -> MicState]
    BY <1>5 DEF BeginTurn, MicState
  <2>3. sockets' \in [Socket -> SocketState]
    BY <1>5 DEF BeginTurn, SocketState
  <2> QED BY <1>5, <2>1, <2>2, <2>3, ClearedTyped DEF BeginTurn
<1>6. CASE HideStimulus
  BY <1>6 DEF HideStimulus, Room
<1>7. CASE Retry
  <2>1. room' \in Room
    BY <1>7 DEF Retry, ClearRoom, Room
  <2> QED BY <1>7, <2>1, ClearedTyped, StoppedTyped DEF Retry, ClearVoice, Phase
<1> QED BY <1>1, <1>2, <1>3, <1>4, <1>5, <1>6, <1>7 DEF Participant

(* So does a step of a microphone, *)
LEMMA MicrophoneTyped ==
  ASSUME RoomTyped, Microphone
  PROVE  RoomTyped'
<1> USE DEF RoomTyped, RoomTypeOK, PlayersBounded
<1>1. ASSUME NEW m \in Mic, CheckGranted(m)
      PROVE  RoomTyped'
  <2>1. mics' \in [Mic -> MicState]
    BY <1>1, StoppedTyped DEF CheckGranted, MicState
  <2>2. check' \in Check
    BY <1>1 DEF CheckGranted, Check
  <2> QED BY <1>1, <2>1, <2>2 DEF CheckGranted
<1>2. ASSUME NEW m \in Mic, CheckDenied(m)
      PROVE  RoomTyped'
  BY <1>2, FailedOnly DEF CheckDenied, Check
<1>3. CASE CheckHears
  BY <1>3 DEF CheckHears, Check
<1>4. ASSUME NEW c \in connects, ConnectGranted(c)
      PROVE  RoomTyped'
  <2> DEFINE s == Min(FreeSockets)
  <2>1. s \in Socket
    BY <1>4, FreeSocketIsSocket DEF ConnectGranted
  <2>2. c.mic \in Mic
    BY DEF Connect
  <2> HIDE DEF s
  <2>3. voice' \in Voice /\ sockets' \in [Socket -> SocketState]
    BY <1>4, <2>1, <2>2 DEF ConnectGranted, s, Voice, NoSocket, SocketState
  <2>4. mics' \in [Mic -> MicState]
    BY <1>4, <2>2, StoppedTyped DEF ConnectGranted, MicState
  <2> QED BY <1>4, <2>3, <2>4 DEF ConnectGranted
<1>5. ASSUME NEW c \in connects, ConnectDenied(c)
      PROVE  RoomTyped'
  BY <1>5, FailedOnly DEF ConnectDenied, Connect, Voice
<1> QED BY <1>1, <1>2, <1>3, <1>4, <1>5 DEF Microphone

(* a step of a channel, *)
LEMMA ChannelTyped ==
  ASSUME RoomTyped, Channel
  PROVE  RoomTyped'
<1> USE DEF RoomTyped, RoomTypeOK, PlayersBounded
<1>1. PICK s \in Socket :
        \/ SocketOpens(s) \/ SocketFails(s) \/ SocketCloses(s)
        \/ SessionReady(s) \/ SpeakingChanges(s) \/ PhaseCompleted(s) \/ StimulusShown(s)
        \/ BargeInAccepted(s) \/ ServerError(s) \/ AudioArrives(s)
  BY DEF Channel
<1>2. CASE SocketOpens(s)
  BY <1>2 DEF SocketOpens, SocketState
<1>3. CASE SocketFails(s)
  BY <1>3 DEF SocketFails, SocketState, Voice
<1>4. CASE SocketCloses(s)
  <2>1. [sockets EXCEPT ![s] = NoSocket] \in [Socket -> SocketState]
    BY DEF NoSocket, SocketState
  <2> QED BY <1>4, <2>1, ClearedTyped, StoppedTyped DEF SocketCloses, ClearVoice
<1>5. CASE SessionReady(s) \/ SpeakingChanges(s) \/ PhaseCompleted(s) \/ ServerError(s)
  <2>1. voice' \in Voice
    <3>1. CASE SessionReady(s)
      BY <3>1 DEF SessionReady, Voice
    <3>2. CASE SpeakingChanges(s)
      BY <3>2 DEF SpeakingChanges, Voice
    <3>3. CASE PhaseCompleted(s)
      BY <3>3 DEF PhaseCompleted, Voice
    <3>4. CASE ServerError(s)
      BY <3>4 DEF ServerError, Voice
    <3> QED BY <1>5, <3>1, <3>2, <3>3, <3>4
  <2> QED BY <1>5, <2>1 DEF SessionReady, SpeakingChanges, PhaseCompleted, ServerError
<1>6. CASE StimulusShown(s)
  BY <1>6 DEF StimulusShown, Room
<1>7. CASE BargeInAccepted(s)
  <2>1. voice' \in Voice
    BY <1>7 DEF BargeInAccepted, Voice
  <2> QED BY <1>7, <2>1, ClearedTyped DEF BargeInAccepted
<1>8. CASE AudioArrives(s)
  <2>1. voice.player \in Mic
    BY <1>8 DEF AudioArrives, Voice
  <2> QED BY <1>8, <2>1, RoomAssumption DEF AudioArrives
<1> QED BY <1>1, <1>2, <1>3, <1>4, <1>5, <1>6, <1>7, <1>8

(* and what happens later. *)
LEMMA LaterTyped ==
  ASSUME RoomTyped, Later
  PROVE  RoomTyped'
<1> USE DEF RoomTyped, RoomTypeOK, PlayersBounded
<1>1. ASSUME NEW m \in Mic, ChunkDecoded(m)
      PROVE  RoomTyped'
  BY <1>1, RoomAssumption DEF ChunkDecoded
<1>2. ASSUME NEW m \in Mic, ChunkEnds(m)
      PROVE  RoomTyped'
  BY <1>2, RoomAssumption DEF ChunkEnds
<1>3. CASE StreamError
  BY <1>3 DEF StreamError, Room
<1>4. CASE StreamEnds
  <2>1. PICK failed \in BOOLEAN :
          room' = [room EXCEPT !.readers = @ - 1, !.error = @ \/ failed]
    BY <1>4 DEF StreamEnds
  <2>2. room.readers - 1 \in 0 .. MaxReaders /\ (room.error \/ failed) \in BOOLEAN
    BY <1>4, RoomAssumption DEF StreamEnds, Room
  <2>3. \A k \in 0 .. MaxReaders, e \in BOOLEAN :
          [room EXCEPT !.readers = k, !.error = e] \in Room
    BY DEF Room
  <2>4. room' \in Room
    BY <2>1, <2>2, <2>3
  <2> QED BY <1>4, <2>4 DEF StreamEnds
<1> QED BY <1>1, <1>2, <1>3, <1>4, MicrophoneTyped, ChannelTyped DEF Later, Playback

(* Every answer a request gets is of the types of answers. *)
LEMMA ServeTyped ==
  ASSUME Typed, NEW p \in posts, Serve(p)
  PROVE  Typed'
<1> USE DEF Typed, TypeOK
<1> DEFINE Answer(q) == posts' = (posts \ {p}) \cup {q}
<1>1. p \in Post
  OBVIOUS
<1>2. \A a \in Step : [p EXCEPT !.stage = "answered", !.answer = a] \in Post
  BY <1>1 DEF Post
<1>3. \A s \in Session \cup {0} : [p EXCEPT !.stage = "answered", !.session = s] \in Post
  BY <1>1 DEF Post
<1>4. [p EXCEPT !.stage = "creating"] \in Post
  BY <1>1 DEF Post
<1>5. ASSUME UNCHANGED <<roomVars, page, typed, entry, text, joined>>,
             server' \in [consented : BOOLEAN, screener : BOOLEAN, done : BOOLEAN,
                          sessions : Session \cup {0}, open : SUBSET Session],
             NEW q \in Post, Answer(q)
      PROVE  Typed'
  <2>1. posts' \subseteq Post /\ IsFiniteSet(posts')
    BY <1>5, RepliesTyped
  <2> QED BY <1>5, <2>1 DEF roomVars, RoomTypeOK, PlayersBounded
<1>6. NextStep \in Step
  BY DEF NextStep, Step
<1>7. CASE ServeLoad(p)
  BY <1>7, <1>2, <1>5, <1>6 DEF ServeLoad, Reply
<1>8. CASE ServeConsent(p)
  <2>1. server' \in [consented : BOOLEAN, screener : BOOLEAN, done : BOOLEAN,
                     sessions : Session \cup {0}, open : SUBSET Session]
    BY <1>8 DEF ServeConsent
  <2> DEFINE a == IF server.done THEN "thanks"
                  ELSE IF server.screener THEN "screener" ELSE "session"
  <2>2. a \in Step
    BY DEF Step
  <2> HIDE DEF a
  <2> QED BY <1>8, <1>2, <1>5, <2>1, <2>2 DEF ServeConsent, Reply, a
<1>9. CASE ServeStart(p)
  <2>1. CASE ~server.consented
    BY <1>9, <1>2, <1>5, <2>1 DEF ServeStart, Reply, Step
  <2>2. CASE server.consented /\ server.open # {}
    <3>1. Max(server.open) \in Session
      BY <2>2, OpenSessionIsOne
    <3> QED BY <1>9, <1>3, <1>5, <2>2, <3>1 DEF ServeStart, ReplySession
  <2>3. CASE server.consented /\ server.open = {}
    BY <1>9, <1>4, <1>5, <2>3 DEF ServeStart
  <2> QED BY <2>1, <2>2, <2>3
<1>10. CASE CreateSession(p)
  <2>1. server' \in [consented : BOOLEAN, screener : BOOLEAN, done : BOOLEAN,
                     sessions : Session \cup {0}, open : SUBSET Session]
    <3> DEFINE k == server.sessions + 1
    <3>1. k \in Session /\ server' = [server EXCEPT !.sessions = k, !.open = @ \cup {k}]
      BY <1>10 DEF CreateSession
    <3> HIDE DEF k
    <3> QED BY <3>1
  <2> QED BY <1>10, <1>3, <1>5, <2>1 DEF CreateSession, ReplySession
<1>11. CASE Refuse(p)
  BY <1>11, <1>2, <1>5 DEF Refuse, Reply, Step
<1> QED BY <1>7, <1>8, <1>9, <1>10, <1>11 DEF Serve

(* Everything else the browser does. *)
LEMMA TypedNext == Typed /\ [Next]_vars => Typed'
<1> SUFFICES ASSUME Typed, [Next]_vars PROVE Typed'
  OBVIOUS
<1> USE DEF Typed, TypeOK
<1>1. RoomTyped
  BY DEF RoomTyped
<1>2. ASSUME UNCHANGED roomVars
      PROVE  RoomTyped'
  BY <1>1, <1>2 DEF roomVars, RoomTyped, RoomTypeOK, PlayersBounded
<1>3. CASE SubmitConsent \/ StartSession
  BY <1>2, <1>3, PostsTyped DEF SubmitConsent, StartSession, RoomTyped
<1>4. ASSUME NEW p \in posts, StepAnswered(p)
      PROVE  Typed'
  <2>1. posts' \subseteq Post /\ IsFiniteSet(posts')
    BY <1>4, PostsRemoved DEF StepAnswered
  <2>2. entry' \in [step : Step, context : BOOLEAN, loading : BOOLEAN]
    BY <1>4 DEF StepAnswered, Post
  <2> QED BY <1>2, <1>4, <2>1, <2>2 DEF StepAnswered, RoomTyped
<1>5. ASSUME NEW p \in posts, StartAnswered(p)
      PROVE  Typed'
  <2>1. posts' \subseteq Post /\ IsFiniteSet(posts')
    BY <1>5, PostsRemoved DEF StartAnswered
  <2>2. page' \in [scene : {"entry", "room", "text"}, session : Session \cup {0}]
    BY <1>5 DEF StartAnswered, SceneOfSession, Post
  <2>3. voice' \in Voice /\ room' \in Room /\ text' \in BOOLEAN
    <3>1. NoVoice \in Voice
      BY DEF NoVoice, Voice
    <3>2. [NoRoom EXCEPT !.readers = room.readers] \in Room
      BY <1>1 DEF RoomTyped, RoomTypeOK, NoRoom, Room
    <3> QED BY <1>1, <1>5, <3>1, <3>2 DEF StartAnswered, RoomTyped, RoomTypeOK
  <2> QED BY <1>1, <1>5, <2>1, <2>2, <2>3
          DEF StartAnswered, RoomTyped, RoomTypeOK, PlayersBounded
<1>6. ASSUME NEW s \in Session, SessionEnds(s)
      PROVE  Typed'
  BY <1>2, <1>6 DEF SessionEnds, RoomTyped
<1>7. CASE InRoom
  <2>1. RoomTyped'
    BY <1>1, <1>7, RenderTyped, ParticipantTyped DEF InRoom
  <2>2. joined' \in Session \cup {0}
    BY <1>7 DEF InRoom
  <2> QED BY <1>7, <2>1, <2>2 DEF InRoom, RoomTyped
<1>8. CASE Elsewhere
  BY <1>1, <1>8, LaterTyped DEF Elsewhere, entryVars, RoomTyped
<1>9. CASE LeaveRoom
  <2>1. posts' \subseteq Post /\ IsFiniteSet(posts')
    BY <1>9, PostsTyped DEF LeaveRoom, OpenEntry
  <2>2. RoomTyped'
    <3>1. voice' \in Voice /\ room' \in Room /\ check' \in Check
      BY <1>1, <1>9 DEF LeaveRoom, RoomTyped, RoomTypeOK, NoVoice, Voice, NoRoom, Room,
         NoCheck, Check
    <3>2. /\ mics' \in [Mic -> MicState]
          /\ playing' \in [Mic -> 0 .. MaxChunks]
          /\ \A m \in Mic : decoding[m] + playing'[m] <= MaxChunks
          /\ sockets' \in [Socket -> SocketState]
      BY <1>1, <1>9, AfterUnmountTyped, StoppedTyped, ClearedTyped
         DEF LeaveRoom, RoomTyped, RoomTypeOK, PlayersBounded
    <3> QED BY <1>1, <1>9, <3>1, <3>2 DEF LeaveRoom, RoomTyped, RoomTypeOK, PlayersBounded, Phase
  <2> QED BY <1>9, <2>1, <2>2 DEF LeaveRoom, OpenEntry, Loading, Step, Forgotten, RoomTyped
<1>10. CASE TypeAnswer
  BY <1>2, <1>10 DEF TypeAnswer, RoomTyped
<1>11. CASE SendMessage
  BY <1>2, <1>11, PostsTyped DEF SendMessage, RoomTyped
<1>12. CASE LeaveText
  BY <1>2, <1>12, PostsTyped DEF LeaveText, OpenEntry, Loading, Step, RoomTyped
<1>13. CASE UNCHANGED vars
  BY <1>2, <1>13 DEF vars, entryVars, RoomTyped
<1> QED BY <1>3, <1>4, <1>5, <1>6, <1>7, <1>8, <1>9, <1>10, <1>11, <1>12, <1>13, ServeTyped
        DEF Next

(* The types are kept by every step of the browser. *)
LEMMA TypedInvariant == Spec => []Typed
BY TypedInit, TypedNext, PTL DEF Spec

(* The variables have their types, and the players and the requests their  *)
(* bounds.                                                                 *)
THEOREM TypeCorrect == Spec => []TypeOK
BY TypedInvariant, PTL DEF Typed

-----------------------------------------------------------------------------
(* Consent *)

(* What there is of a participation nobody has consented to: the entry     *)
(* page, and requests that bring no session and no step beyond the form.   *)
BeforeConsent ==
  /\ page.scene = "entry"
  /\ ~server.done /\ server.open = {}
  /\ entry.step \in {"loading", "consent", "error"}
  /\ entry.step = "loading" => ~entry.context /\ entry.loading
  /\ \A p \in posts :
       /\ p.stage # "creating" /\ p.session = 0
       /\ p.stage = "answered" => p.answer \in {"consent", "error"}

ConsentInv == server.consented \/ BeforeConsent

(* The browser begins before the consent. *)
LEMMA ConsentInit == BrowserInit => ConsentInv
<1> SUFFICES ASSUME BrowserInit PROVE ConsentInv
  OBVIOUS
<1>1. \A p \in posts : p.stage = "sent" /\ p.session = 0
  BY DEF BrowserInit, NewPost
<1> QED BY <1>1 DEF BrowserInit, ConsentInv, BeforeConsent, Loading

(* A consent is never taken back, and until there is one a request is      *)
(* answered as if there were none.                                         *)
LEMMA ConsentNext == Typed /\ ConsentInv /\ [Next]_vars => ConsentInv'
<1> SUFFICES ASSUME Typed, ConsentInv, [Next]_vars PROVE ConsentInv'
  OBVIOUS
<1> USE DEF ConsentInv, BeforeConsent
<1>1. ASSUME NEW kind \in {"load", "consent", "start", "message"}, Posting(kind),
             ~server.consented
      PROVE  \A p \in posts' : /\ p.stage # "creating" /\ p.session = 0
                               /\ p.stage = "answered" => p.answer \in {"consent", "error"}
  BY <1>1 DEF Posting, NewPost
<1>2. CASE SubmitConsent \/ StartSession
  BY <1>1, <1>2 DEF SubmitConsent, StartSession
<1>3. ASSUME NEW p \in posts, Serve(p)
      PROVE  ConsentInv'
  <2>1. p \in Post
    BY DEF Typed, TypeOK
  <2>2. CASE ServeLoad(p)
    BY <2>1, <2>2 DEF ServeLoad, Reply, NextStep, Post
  <2>3. CASE ServeConsent(p)
    <3>1. server' = [server EXCEPT !.consented = TRUE]
      BY <2>3 DEF ServeConsent
    <3>2. server'.consented
      BY <3>1 DEF Typed, TypeOK
    <3> QED BY <3>2
  <2>4. CASE ServeStart(p)
    <3>1. CASE server.consented
      <4>1. UNCHANGED server
        BY <2>4 DEF ServeStart
      <4> QED BY <3>1, <4>1
    <3>2. CASE ~server.consented
      <4>1. posts' = (posts \ {p}) \cup {[p EXCEPT !.stage = "answered", !.answer = "error"]}
        BY <2>4, <3>2 DEF ServeStart, Reply
      <4>2. UNCHANGED <<page, entry, server>>
        BY <2>4 DEF ServeStart
      <4> QED BY <2>1, <3>2, <4>1, <4>2 DEF Post
    <3> QED BY <3>1, <3>2
  <2>5. CASE CreateSession(p)
    BY <2>5 DEF CreateSession, Typed, TypeOK
  <2>6. CASE Refuse(p)
    BY <2>1, <2>6 DEF Refuse, Reply, Post
  <2> QED BY <1>3, <2>2, <2>3, <2>4, <2>5, <2>6 DEF Serve
<1>4. ASSUME NEW p \in posts, StepAnswered(p) \/ StartAnswered(p)
      PROVE  ConsentInv'
  BY <1>4 DEF StepAnswered, StartAnswered
<1>5. ASSUME NEW s \in Session, SessionEnds(s)
      PROVE  ConsentInv'
  BY <1>5 DEF SessionEnds, Typed, TypeOK
<1>6. CASE InRoom \/ TypeAnswer \/ SendMessage
  BY <1>6 DEF InRoom, TypeAnswer, SendMessage
<1>7. CASE Elsewhere \/ UNCHANGED vars
  BY <1>7 DEF Elsewhere, vars, entryVars
<1>8. CASE LeaveRoom \/ LeaveText
  BY <1>8 DEF LeaveRoom, LeaveText
<1> QED BY <1>2, <1>3, <1>4, <1>5, <1>6, <1>7, <1>8 DEF Next

(* Nobody is in the room or the text interview, or is shown the start      *)
(* button, before the server has the consent, in whatever order requests   *)
(* are served and answered.                                                *)
THEOREM ConsentBeforeRoom == Spec => []RoomHasConsent
<1>1. ConsentInv => RoomHasConsent
  BY DEF ConsentInv, BeforeConsent, RoomHasConsent, Ready, StepView
<1> QED BY <1>1, ConsentInit, ConsentNext, TypedInvariant, PTL DEF Spec

-----------------------------------------------------------------------------
(* The room *)

Quiet(s) == sockets[s].state = "closed"

(* The participant does not let the browser finish: goes to a new          *)
(* microphone check while a socket is still closing, tries again or goes   *)
(* back while a connect awaits its microphone, or goes back from the error *)
(* view.                                                                   *)
HastyInRoom ==
  \/ Continue /\ \E s \in Socket : ~Quiet(s)
  \/ Retry /\ connects # {}
  \/ LeaveRoom /\ (connects # {} \/ shown = "error")

AllQuiet == connects = {} /\ \A s \in Socket : Quiet(s)

Failing == voice.error \/ room.error

(* MicCheck holds a microphone exactly while it is shown. *)
CheckIsShown == check.mic # 0 <=> shown = "mic-check"

(* One connect waits at a time; the capture it will replace is still the   *)
(* current one, and there is no socket yet.                                *)
ConnectIsAlone ==
  \A c \in connects :
    /\ connects = {c}
    /\ mics[c.mic].stream = "asked" /\ c.mic \notin {voice.capture, check.mic}
    /\ c.keep = voice.capture
    /\ \A s \in Socket : Quiet(s)
    /\ page.scene = "room" /\ uiPhase = "live"
    /\ shown = "live" \/ (shown = "error" /\ Failing)

OneSocket == \A s, t \in Socket : ~Quiet(s) /\ ~Quiet(t) => s = t

(* The current socket is that of a live room. *)
SocketIsCurrent ==
  /\ \A s \in Socket : sockets[s].state \in {"connecting", "open"} => s = voice.ws
  /\ voice.ws # 0 =>
       /\ sockets[voice.ws].state \in {"connecting", "open", "failed"}
       /\ page.scene = "room" /\ uiPhase = "live" /\ shown \in {"live", "error"}

(* Before the room is live nothing is left of an earlier call. *)
QuietBeforeLive ==
  /\ uiPhase \in {"mic-check", "text-only"} => AllQuiet
  /\ uiPhase = "live" /\ shown # "live" => AllQuiet \/ (shown = "error" /\ Failing)

CaptureIsLive ==
  \A m \in Mic : mics[m].stream = "on" =>
    \/ m = check.mic
    \/ m = voice.capture /\ uiPhase = "live" /\ shown \in {"live", "error"}

(* A turn needs a socket that was open; the gate that lets speech through  *)
(* is that of the current capture, in a turn.                              *)
TurnIsOpen ==
  /\ voice.ptt => voice.ws # 0 /\ sockets[voice.ws].state \in {"open", "failed"}
  /\ \A s \in Socket : sockets[s].state = "open" => (sockets[s].talking <=> voice.ptt)
  /\ \A s \in Socket : sockets[s].state = "connecting" => ~sockets[s].talking
  /\ \A m \in Mic : mics[m].gate => voice.ptt /\ m = voice.capture

(* A scene other than the entry page is the one that sessions of this      *)
(* study go to, and only the room has joined one.                          *)
SceneInv ==
  /\ page.scene # "entry" => page.scene = SceneOfSession
  /\ page.scene # "room" => joined = 0

(* Outside the room there is no page of it and nothing it holds. *)
NoRoomOutside ==
  page.scene # "room" =>
    uiPhase = "mode" /\ shown = "mode" /\ voice.capture = 0 /\ voice.ws = 0

RoomInv ==
  /\ CheckIsShown /\ ConnectIsAlone /\ OneSocket /\ SocketIsCurrent /\ QuietBeforeLive
  /\ CaptureIsLive /\ TurnIsOpen /\ NoRoomOutside

(* There is no room yet when the page is opened. *)
LEMMA RoomInvInit == BrowserInit => RoomInv
<1> SUFFICES ASSUME BrowserInit PROVE RoomInv
  OBVIOUS
<1> QED
  BY Numbered DEF BrowserInit, RoomInit, RoomInv, CheckIsShown, ConnectIsAlone, OneSocket,
     SocketIsCurrent, QuietBeforeLive, CaptureIsLive, TurnIsOpen, NoRoomOutside, Quiet, AllQuiet,
      Failing,
     NoRoom, NoVoice, NoCheck, NoMic, NoSocket

(* A render of the room page keeps the room's invariant. *)
LEMMA RenderKeeps ==
  ASSUME Typed, RoomInv, Render, page.scene = "room", UNCHANGED page
  PROVE  RoomInv'
<1> USE DEF Typed, TypeOK, RoomTypeOK, RoomInv, CheckIsShown, ConnectIsAlone, OneSocket,
     SocketIsCurrent, QuietBeforeLive, CaptureIsLive, TurnIsOpen, NoRoomOutside, Quiet, AllQuiet,
     Failing, Wanted, NoCheck, AfterUnmount, Stopped, NoMic
<1> USE Numbered
<1>2. CASE RenderMicCheck
  <2> DEFINE m == Min(FreeMics)
  <2>1. m \in FreeMics
    BY <1>2, FreeMicIsMic DEF RenderMicCheck
  <2> HIDE DEF m
  <2> QED BY <1>2, <2>1 DEF RenderMicCheck, FreeMics, m
<1>3. CASE RenderLive
  <2>1. AllQuiet /\ shown # "live" /\ shown' = "live" /\ check' = NoCheck /\ uiPhase = "live"
    BY <1>3 DEF RenderLive
  <2>2. CASE room.session
    <3>1. PICK m \in FreeMics :
            /\ voice' = [voice EXCEPT !.connected = TRUE]
            /\ connects' = connects \cup {[mic |-> m, keep |-> voice.capture]}
            /\ mics' = [AfterUnmount EXCEPT ![m].stream = "asked"]
      BY <1>3, <2>2 DEF RenderLive
    <3>2. m \in Mic /\ m # voice.capture /\ m # check.mic /\ mics[m].stream = "off"
      BY DEF FreeMics
    <3>3. connects' = {[mic |-> m, keep |-> voice.capture]}
      BY <2>1, <3>1
    <3> QED BY <1>3, <2>1, <3>1, <3>2, <3>3, AfterUnmountTyped
            DEF RenderLive, RoomTyped, MicState, Voice
  <2>3. CASE ~room.session
    BY <1>3, <2>1, <2>3 DEF RenderLive
  <2> QED BY <2>2, <2>3
<1>4. CASE RenderText
  BY <1>4 DEF RenderText, StartedSession, Room
<1>5. CASE RenderOther
  BY <1>5 DEF RenderOther
<1> QED BY <1>2, <1>3, <1>4, <1>5 DEF Render

(* So does a click of a participant who is not hasty, *)
LEMMA ParticipantKeeps ==
  ASSUME Typed, RoomInv, Participant, ~HastyInRoom, page.scene = "room", UNCHANGED page
  PROVE  RoomInv'
<1> USE DEF Typed, TypeOK, RoomTypeOK, RoomInv, CheckIsShown, ConnectIsAlone, OneSocket,
     SocketIsCurrent, QuietBeforeLive, CaptureIsLive, TurnIsOpen, NoRoomOutside, Quiet, AllQuiet,
     Failing, Wanted
<1> USE Numbered
<1>1. CASE Continue
  BY <1>1 DEF HastyInRoom, Continue
<1>2. CASE FallBackToText
  BY <1>2 DEF FallBackToText
<1>3. CASE BeginInterview
  BY <1>3 DEF BeginInterview, AttachCapture, StartedSession, Voice, Room, Check, MicState
<1>4. CASE EndTurn
  BY <1>4 DEF EndTurn, CanPress, Voice, MicState, SocketState
<1>5. CASE BeginTurn
  BY <1>5 DEF BeginTurn, CanPress, Voice, MicState, SocketState
<1>6. CASE HideStimulus
  BY <1>6 DEF HideStimulus, Room
<1>7. CASE Retry
  <2>1. connects = {}
    BY <1>7 DEF HastyInRoom
  <2> QED BY <1>7, <2>1 DEF Retry, ClearRoom, ClearVoice, ClearedVoice, Stopped, HangUp, NoMic,
             Voice, Room, SocketState, MicState
<1> QED BY <1>1, <1>2, <1>3, <1>4, <1>5, <1>6, <1>7 DEF Participant

(* Stopping a stream closes its gate and leaves the others alone. *)
LEMMA StoppedOnly ==
  ASSUME NEW ms \in [Mic -> MicState], NEW m, NEW k \in Mic
  PROVE  /\ k # m => Stopped(ms, m)[k] = ms[k]
         /\ k = m => Stopped(ms, m)[k].stream = "off" /\ ~Stopped(ms, m)[k].gate
BY DEF Stopped, NoMic

(* an answer or a chunk of a microphone, *)
LEMMA MicrophoneKeeps ==
  ASSUME Typed, RoomInv, Microphone, UNCHANGED page
  PROVE  RoomInv'
<1> USE DEF Typed, TypeOK, RoomTypeOK, RoomInv, CheckIsShown, ConnectIsAlone, OneSocket,
     SocketIsCurrent, QuietBeforeLive, CaptureIsLive, TurnIsOpen, NoRoomOutside, Quiet, AllQuiet,
     Failing
<1> USE Numbered
<1>1. ASSUME NEW m \in Mic, CheckGranted(m)
      PROVE  RoomInv'
  <2>1. mics[m].stream = "asked" /\ UNCHANGED <<uiPhase, shown, room, voice, connects, sockets>>
    BY <1>1 DEF CheckGranted
  <2>2. \A c \in connects : c.mic # m
    BY <1>1 DEF CheckGranted
  <2>3. CASE m = check.mic
    <3>1. mics' = [mics EXCEPT ![m].stream = "on"] /\ check'.mic = check.mic
      BY <1>1, <2>3 DEF CheckGranted, Check
    <3> QED BY <2>1, <2>2, <2>3, <3>1 DEF MicState
  <2>4. CASE m # check.mic
    <3>1. mics' = Stopped(mics, m) /\ UNCHANGED check
      BY <1>1, <2>4 DEF CheckGranted
    <3>2. \A k \in Mic : /\ k # m => mics'[k] = mics[k]
                         /\ k = m => mics'[k].stream = "off" /\ ~mics'[k].gate
      BY <3>1, StoppedOnly
    <3>3. \A c \in connects : c.mic \in Mic
      BY DEF Connect
    <3>4. \A c \in connects : mics'[c.mic] = mics[c.mic]
      BY <2>2, <3>2, <3>3
    <3>5. ConnectIsAlone'
      BY <2>1, <3>1, <3>4
    <3> QED BY <2>1, <2>4, <3>1, <3>2, <3>5
  <2> QED BY <2>3, <2>4
<1>2. ASSUME NEW m \in Mic, CheckDenied(m)
      PROVE  RoomInv'
  <2>1. mics[m].stream = "asked" /\ UNCHANGED <<uiPhase, shown, room, voice, connects, sockets>>
    BY <1>2 DEF CheckDenied
  <2>8. mics' \in Failed(m)
    BY <1>2 DEF CheckDenied
  <2>2. \A c \in connects : c.mic # m
    BY <1>2 DEF CheckDenied
  <2>3. check'.mic = check.mic
    BY <1>2 DEF CheckDenied, Check
  <2>4. \A k \in Mic : /\ k # m => mics'[k] = mics[k]
                       /\ k = m => mics'[k].stream \in {"off", "lost"} /\ ~mics'[k].gate
    BY <2>1, <2>8, FailedOnly
  <2>5. \A c \in connects : c.mic \in Mic
    BY DEF Connect
  <2>6. \A c \in connects : mics'[c.mic] = mics[c.mic]
    BY <2>2, <2>4, <2>5
  <2>9. /\ UNCHANGED <<uiPhase, shown, room, voice, connects, sockets, page>>
        /\ check'.mic = check.mic
    BY <2>1, <2>3
  <2>7. ConnectIsAlone'
    BY ONLY <2>6, <2>9, RoomInv DEF RoomInv, ConnectIsAlone, Quiet, Failing
  <2> QED BY <2>1, <2>3, <2>4, <2>7
<1>3. CASE CheckHears
  BY <1>3 DEF CheckHears, Check
<1>4. ASSUME NEW c \in connects, ConnectGranted(c)
      PROVE  RoomInv'
  <2> DEFINE s == Min(FreeSockets)
  <2>1. s \in Socket
    BY <1>4, FreeSocketIsSocket DEF ConnectGranted
  <2>2. c.mic \in Mic /\ connects = {c}
    BY DEF Connect
  <2> HIDE DEF s
  <2>3. /\ voice' = [voice EXCEPT !.capture = c.mic, !.player = c.mic, !.ws = s]
        /\ sockets' = [sockets EXCEPT ![s] = [NoSocket EXCEPT !.state = "connecting"]]
        /\ mics' = [Stopped(mics, c.keep) EXCEPT ![c.mic] = [stream |-> "on", gate |-> FALSE]]
        /\ connects' = connects \ {c} /\ UNCHANGED <<uiPhase, shown, room, check>>
    BY <1>4, Zenon DEF ConnectGranted, s
  <2>4. voice'.capture = c.mic /\ voice'.ws = s /\ ~voice.ptt /\ ~voice'.ptt
    <3>1. ~voice.ptt
      BY <2>2 DEF Voice
    <3>2. voice'.capture = c.mic /\ voice'.ws = s /\ voice'.ptt = voice.ptt
      BY <2>3 DEF Voice
    <3> QED BY <3>1, <3>2
  <2>5. /\ sockets'[s].state = "connecting" /\ ~sockets'[s].talking
        /\ \A t \in Socket : t # s => sockets'[t].state = "closed"
    BY <2>1, <2>2, <2>3 DEF SocketState, NoSocket
  <2>6. \A m \in Mic : /\ mics'[m].stream = "on" => m = c.mic \/ m = check.mic
                       /\ ~mics'[m].gate
    <3>1. Stopped(mics, c.keep) \in [Mic -> MicState]
      BY StoppedTyped
    <3> QED BY <2>2, <2>3, <2>4, <3>1, StoppedOnly DEF MicState
  <2>7. connects' = {}
    BY <2>2, <2>3
  <2> QED BY <2>1, <2>2, <2>3, <2>4, <2>5, <2>6, <2>7
<1>5. ASSUME NEW c \in connects, ConnectDenied(c)
      PROVE  RoomInv'
  <2> DEFINE m == c.mic
  <2>1. m \in Mic /\ connects = {c} /\ mics[m].stream = "asked" /\ m # check.mic
        /\ m # voice.capture
    BY DEF Connect
  <2>2. /\ mics' \in Failed(m) /\ connects' = {}
        /\ UNCHANGED <<uiPhase, shown, room, check, sockets>>
    BY <1>5, <2>1 DEF ConnectDenied
  <2>3. voice'.capture = voice.capture /\ voice'.ws = voice.ws /\ voice'.ptt = voice.ptt
    BY <1>5 DEF ConnectDenied, Voice
  <2>4. \A k \in Mic : /\ k # m => mics'[k] = mics[k]
                       /\ k = m => mics'[k].stream \in {"off", "lost"} /\ ~mics'[k].gate
    <3> HIDE DEF m
    <3> QED BY <2>1, <2>2, FailedOnly
  <2>5. voice'.error
    BY <1>5 DEF ConnectDenied, Voice
  <2> HIDE DEF m
  <2> QED BY <2>1, <2>2, <2>3, <2>4, <2>5
<1> QED BY <1>1, <1>2, <1>3, <1>4, <1>5 DEF Microphone

(* a socket that opens, fails, closes or brings something, *)
LEMMA ChannelKeeps ==
  ASSUME Typed, RoomInv, Channel, UNCHANGED page
  PROVE  RoomInv'
<1> USE DEF Typed, TypeOK, RoomTypeOK, RoomInv, CheckIsShown, ConnectIsAlone, OneSocket,
     SocketIsCurrent, QuietBeforeLive, CaptureIsLive, TurnIsOpen, NoRoomOutside, Quiet, AllQuiet,
     Failing
<1> USE Numbered
<1>1. PICK s \in Socket :
        \/ SocketOpens(s) \/ SocketFails(s) \/ SocketCloses(s)
        \/ SessionReady(s) \/ SpeakingChanges(s) \/ PhaseCompleted(s) \/ StimulusShown(s)
        \/ BargeInAccepted(s) \/ ServerError(s) \/ AudioArrives(s)
  BY DEF Channel
<1>2. CASE SocketOpens(s)
  BY <1>2 DEF SocketOpens, SocketState
<1>3. CASE SocketFails(s)
  BY <1>3 DEF SocketFails, SocketState, Voice
<1>4. CASE SocketCloses(s)
  <2>1. connects = {} /\ ~Quiet(s) /\ \A t \in Socket : t # s => Quiet(t)
    BY <1>4 DEF SocketCloses
  <2>2. /\ voice'.capture = 0 /\ voice'.ws = 0 /\ ~voice'.ptt /\ voice'.connected = FALSE
    BY <1>4 DEF SocketCloses, ClearVoice, ClearedVoice, Voice
  <2>3. \A t \in Socket : sockets'[t].state = "closed"
    BY <1>4, <2>1 DEF SocketCloses, ClearVoice, HangUp, NoSocket, SocketState
  <2>4. mics' = Stopped(mics, voice.capture)
    BY <1>4 DEF SocketCloses, ClearVoice
  <2>5. UNCHANGED <<uiPhase, shown, room, check, connects>>
    BY <1>4 DEF SocketCloses
  <2>6. \A m \in Mic : /\ m # voice.capture => mics'[m] = mics[m]
                       /\ m = voice.capture => mics'[m].stream = "off" /\ ~mics'[m].gate
    BY <2>4, StoppedOnly
  <2> QED BY <2>1, <2>2, <2>3, <2>5, <2>6
<1>5. CASE SessionReady(s) \/ SpeakingChanges(s) \/ PhaseCompleted(s) \/ ServerError(s)
  <2>1. /\ voice'.capture = voice.capture /\ voice'.ws = voice.ws /\ voice'.ptt = voice.ptt
        /\ voice.error => voice'.error
    <3>1. CASE SessionReady(s)
      BY <3>1 DEF SessionReady, Voice
    <3>2. CASE SpeakingChanges(s)
      BY <3>2 DEF SpeakingChanges, Voice
    <3>3. CASE PhaseCompleted(s)
      BY <3>3 DEF PhaseCompleted, Voice
    <3>4. CASE ServerError(s)
      BY <3>4 DEF ServerError, Voice
    <3> QED BY <1>5, <3>1, <3>2, <3>3, <3>4
  <2>2. UNCHANGED <<uiPhase, shown, room, check, mics, connects, sockets>>
    BY <1>5 DEF SessionReady, SpeakingChanges, PhaseCompleted, ServerError
  <2> QED BY <2>1, <2>2
<1>6. CASE StimulusShown(s)
  BY <1>6 DEF StimulusShown, Room
<1>7. CASE BargeInAccepted(s)
  BY <1>7 DEF BargeInAccepted, Voice
<1>8. CASE AudioArrives(s)
  BY <1>8 DEF AudioArrives
<1> QED BY <1>1, <1>2, <1>3, <1>4, <1>5, <1>6, <1>7, <1>8

(* and what was decoded, or is closed, later. *)
LEMMA LaterKeeps ==
  ASSUME Typed, RoomInv, Later, UNCHANGED page
  PROVE  RoomInv'
<1> USE DEF Typed, TypeOK, RoomTypeOK, RoomInv, CheckIsShown, ConnectIsAlone, OneSocket,
     SocketIsCurrent, QuietBeforeLive, CaptureIsLive, TurnIsOpen, NoRoomOutside, Quiet, AllQuiet,
     Failing
<1>1. CASE Playback
  BY <1>1 DEF Playback, ChunkDecoded, ChunkEnds
<1>2. CASE StreamError \/ StreamEnds
  <2>1. /\ room.error => room'.error
        /\ UNCHANGED <<uiPhase, shown, voice, check, mics, connects, sockets>>
    BY <1>2 DEF StreamError, StreamEnds, Room
  <2> QED BY <2>1
<1> QED BY <1>1, <1>2, MicrophoneKeeps, ChannelKeeps DEF Later

(* When the back button is pressed with no connect waiting and no error    *)
(* shown, the page's effect reaches the call of a live room.               *)
LEMMA LeaveRoomKeeps ==
  ASSUME Typed, RoomInv, LeaveRoom, ~HastyInRoom
  PROVE  RoomInv'
<1> USE DEF Typed, TypeOK, RoomTypeOK, RoomInv, CheckIsShown, ConnectIsAlone, OneSocket,
     SocketIsCurrent, QuietBeforeLive, CaptureIsLive, TurnIsOpen, NoRoomOutside, Quiet, AllQuiet,
     Failing
<1> USE Numbered
<1>1. /\ page.scene = "room" /\ connects = {} /\ shown # "error"
      /\ page'.scene = "entry" /\ uiPhase' = "mode" /\ shown' = "mode"
      /\ check'.mic = 0 /\ connects' = {}
      /\ voice'.capture = 0 /\ voice'.ws = 0 /\ voice'.ptt = FALSE
  BY DEF HastyInRoom, LeaveRoom, OpenEntry, NoCheck, NoVoice
<1>2. \A m \in Mic : mics'[m].stream # "on" /\ ~mics'[m].gate
  <2>1. AfterUnmount \in [Mic -> MicState]
    BY AfterUnmountTyped DEF RoomTyped
  <2>2. \A m \in Mic : AfterUnmount[m].stream = "on" => mics[m].stream = "on" /\ m # check.mic
    BY StoppedOnly DEF AfterUnmount
  <2>3. \A m \in Mic : AfterUnmount[m].gate => mics[m].gate
    BY StoppedOnly DEF AfterUnmount
  <2>4. CASE shown = "live"
    <3>1. mics' = Stopped(AfterUnmount, voice.capture)
      BY <2>4 DEF LeaveRoom
    <3> QED BY <2>1, <2>2, <2>3, <3>1, StoppedOnly
  <2>5. CASE shown # "live"
    <3>1. mics' = AfterUnmount
      BY <2>5 DEF LeaveRoom
    <3> QED BY <1>1, <2>2, <2>3, <2>5, <3>1
  <2> QED BY <2>4, <2>5
<1>3. \A s \in Socket :
        /\ sockets'[s].state \notin {"connecting", "open"}
        /\ sockets'[s].state # "closed" => ~Quiet(s)
  <2>1. CASE shown = "live"
    BY <2>1 DEF LeaveRoom, HangUp, SocketState
  <2>2. CASE shown # "live"
    BY <1>1, <2>2 DEF LeaveRoom
  <2> QED BY <2>1, <2>2
<1> QED BY <1>1, <1>2, <1>3

(* Whatever the participant does, a scene other than the entry page is     *)
(* that of the study's sessions.                                           *)
LEMMA SceneInvNext ==
  ASSUME Typed, SceneInv, [Next]_vars
  PROVE  SceneInv'
<1> USE DEF SceneInv, SceneOfSession, Typed, TypeOK
<1>1. CASE SubmitConsent \/ StartSession \/ TypeAnswer \/ SendMessage
  BY <1>1 DEF SubmitConsent, StartSession, TypeAnswer, SendMessage
<1>2. ASSUME NEW p \in posts, Serve(p)
      PROVE  SceneInv'
  BY <1>2 DEF Serve, ServeLoad, ServeConsent, ServeStart, CreateSession, Refuse
<1>3. ASSUME NEW p \in posts, StepAnswered(p)
      PROVE  SceneInv'
  BY <1>3 DEF StepAnswered
<1>4. ASSUME NEW p \in posts, StartAnswered(p)
      PROVE  SceneInv'
  <2>1. page'.scene = SceneOfSession /\ UNCHANGED <<typed, entry, joined>>
    BY <1>4 DEF StartAnswered
  <2> QED BY <2>1
<1>5. ASSUME NEW s \in Session, SessionEnds(s)
      PROVE  SceneInv'
  BY <1>5 DEF SessionEnds
<1>6. CASE InRoom
  BY <1>6 DEF InRoom
<1>7. CASE Elsewhere \/ UNCHANGED vars
  BY <1>7 DEF Elsewhere, vars, entryVars
<1>8. CASE LeaveRoom \/ LeaveText
  BY <1>8 DEF LeaveRoom, LeaveText, OpenEntry, Forgotten
<1> QED BY <1>1, <1>2, <1>3, <1>4, <1>5, <1>6, <1>7, <1>8 DEF Next

(* A session's URL is pushed: nothing of the room is there yet, or the     *)
(* room stays as it is.                                                    *)
LEMMA StartAnsweredKeeps ==
  ASSUME Typed, RoomInv, SceneInv, NEW p \in posts, StartAnswered(p)
  PROVE  RoomInv'
<1> USE DEF Typed, TypeOK, RoomTypeOK, RoomInv, CheckIsShown, ConnectIsAlone, OneSocket,
     SocketIsCurrent, QuietBeforeLive, CaptureIsLive, TurnIsOpen, NoRoomOutside, Quiet, AllQuiet,
     Failing
<1> USE Numbered
<1>1. UNCHANGED <<uiPhase, shown, check, mics, connects, sockets>>
  BY DEF StartAnswered
<1>2. CASE page.scene = "entry"
  <2>1. /\ connects = {} /\ uiPhase = "mode" /\ shown = "mode"
        /\ voice.capture = 0 /\ voice.ws = 0 /\ ~voice.ptt
    BY <1>2
  <2>2. voice'.capture = 0 /\ voice'.ws = 0 /\ voice'.ptt = FALSE
    BY <1>2 DEF StartAnswered, NoVoice
  <2> QED BY <1>1, <2>1, <2>2
<1>3. CASE page.scene # "entry"
  <2>1. page'.scene = page.scene /\ UNCHANGED <<voice, room>>
    BY <1>3 DEF StartAnswered, SceneInv
  <2> QED BY <1>1, <2>1
<1> QED BY <1>2, <1>3

-----------------------------------------------------------------------------
(* The URL *)

(* The participant starts again while a start is under way, or goes back   *)
(* with a request under way.                                               *)
HastyStart ==
  \/ StartSession /\ \E p \in posts : p.kind = "start"
  \/ (LeaveRoom \/ LeaveText) /\ posts # {}

(* A start is under way only on the entry page, one at a time, and only    *)
(* once the context has come: the button is not there before.              *)
StartsFromEntry ==
  /\ \A p \in posts :
       /\ p.kind = "start" => page.scene = "entry" /\ entry.context
       /\ p.session # 0 \/ p.stage = "creating" => p.kind = "start"
  /\ \A p, q \in posts : p.kind = "start" /\ q.kind = "start" => p = q

ContextFirst ==
  page.scene = "entry" /\ ~entry.context =>
    /\ \A p \in posts : p.kind = "load"
    /\ \A p, q \in posts : p = q
    /\ entry.loading \/ (entry.step = "error" /\ posts = {})

(* A request that is posted has neither been served nor got a session. *)
LEMMA PostedIsNew ==
  ASSUME NEW kind, Posting(kind)
  PROVE  \E q : /\ posts' = posts \cup {q}
                /\ q.kind = kind /\ q.session = 0 /\ q.stage = "sent"
<1> DEFINE new == NewPost(kind, posts)
<1>1. new.kind = kind /\ new.session = 0 /\ new.stage = "sent"
  BY DEF NewPost
<1>2. posts' = posts \cup {new}
  BY DEF Posting
<1> HIDE DEF new
<1> QED BY <1>1, <1>2

(* Serving a request leaves its kind, and gives a session to a start only. *)
LEMMA ServedIsSame ==
  ASSUME Typed, StartsFromEntry, NEW p \in posts, Serve(p)
  PROVE  \E q : /\ posts' = (posts \ {p}) \cup {q}
                /\ q.kind = p.kind
                /\ q.session # 0 \/ q.stage = "creating" => p.kind = "start"
<1> DEFINE Served(q) ==
      /\ q.kind = p.kind
      /\ q.session # 0 \/ q.stage = "creating" => p.kind = "start"
<1>1. p \in Post
  BY DEF Typed, TypeOK
<1>2. p.session # 0 \/ p.stage = "creating" => p.kind = "start"
  BY DEF StartsFromEntry
<1>3. \A a : Served([p EXCEPT !.stage = "answered", !.answer = a])
  BY <1>1, <1>2 DEF Post
<1>4. p.kind = "start" =>
        /\ Served([p EXCEPT !.stage = "creating"])
        /\ \A s : Served([p EXCEPT !.stage = "answered", !.session = s])
  BY <1>1 DEF Post
<1> HIDE DEF Served
<1>5. \E q : posts' = (posts \ {p}) \cup {q} /\ Served(q)
  <2>1. CASE ServeLoad(p) \/ ServeConsent(p) \/ Refuse(p)
    BY <1>3, <2>1 DEF ServeLoad, ServeConsent, Refuse, Reply
  <2>2. CASE ServeStart(p)
    BY <1>3, <1>4, <2>2 DEF ServeStart, Reply, ReplySession
  <2>3. CASE CreateSession(p)
    BY <1>2, <1>4, <2>3 DEF CreateSession, ReplySession
  <2> QED BY <2>1, <2>2, <2>3 DEF Serve
<1> QED BY <1>5 DEF Served

UrlInv == InterviewFitsUrl /\ StartsFromEntry /\ ContextFirst

(* The first request is for the context of the address. *)
LEMMA UrlInvInit == BrowserInit => UrlInv
<1> SUFFICES ASSUME BrowserInit PROVE UrlInv
  OBVIOUS
<1>1. \A p \in posts : p.kind = "load" /\ p.session = 0 /\ p.stage = "sent"
  BY DEF BrowserInit, NewPost
<1>2. page.scene = "entry" /\ ~entry.context /\ entry.loading /\ \A p, q \in posts : p = q
  BY DEF BrowserInit, Loading
<1> QED BY <1>1, <1>2 DEF UrlInv, InterviewFitsUrl, StartsFromEntry, ContextFirst

(* Every step keeps the interview that of the address. *)
LEMMA UrlInvNext ==
  ASSUME Typed, SceneInv, UrlInv, [Next]_vars, ~HastyStart
  PROVE  UrlInv'
<1> USE DEF UrlInv, InterviewFitsUrl, StartsFromEntry, ContextFirst, Typed, TypeOK
<1>1. CASE SubmitConsent
  <2>1. entry.context /\ page.scene = "entry"
    BY <1>1 DEF SubmitConsent, StepView
  <2>2. PICK q : posts' = posts \cup {q} /\ q.kind = "consent" /\ q.session = 0 /\ q.stage = "sent"
    BY <1>1, PostedIsNew DEF SubmitConsent
  <2> QED BY <1>1, <2>1, <2>2 DEF SubmitConsent
<1>2. CASE StartSession
  <2>1. entry.context /\ page.scene = "entry"
    BY <1>2 DEF StartSession, Ready, StepView
  <2>2. PICK q : posts' = posts \cup {q} /\ q.kind = "start"
    BY <1>2, PostedIsNew DEF StartSession
  <2>3. \A p \in posts : p.kind # "start"
    BY <1>2 DEF HastyStart
  <2> QED BY <1>2, <2>1, <2>2, <2>3 DEF StartSession
<1>3. ASSUME NEW p \in posts, Serve(p)
      PROVE  UrlInv'
  <2>1. PICK q : /\ posts' = (posts \ {p}) \cup {q}
                 /\ q.kind = p.kind
                 /\ q.session # 0 \/ q.stage = "creating" => p.kind = "start"
    BY <1>3, ServedIsSame
  <2>2. UNCHANGED <<page, typed, entry, joined>>
    BY <1>3 DEF Serve, ServeLoad, ServeConsent, ServeStart, CreateSession, Refuse
  <2> QED BY <2>1, <2>2
<1>4. ASSUME NEW p \in posts, StepAnswered(p)
      PROVE  UrlInv'
  <2>1. posts' = posts \ {p} /\ p.session = 0 /\ UNCHANGED <<page, typed, joined>>
    BY <1>4 DEF StepAnswered
  <2>2. CASE page.scene # "entry"
    BY <1>4, <2>1, <2>2 DEF StepAnswered
  <2>3. CASE page.scene = "entry"
    <3>1. /\ entry'.step = p.answer
          /\ entry'.context = (entry.context \/ (p.kind = "load" /\ p.answer # "error"))
          /\ entry'.loading = (entry.loading /\ p.kind # "load")
      BY <1>4, <2>3 DEF StepAnswered
    <3> QED BY <2>1, <2>3, <3>1
  <2> QED BY <2>2, <2>3
<1>5. ASSUME NEW p \in posts, StartAnswered(p)
      PROVE  UrlInv'
  <2>1. page.scene = "entry" /\ entry.context /\ p.kind = "start" /\ joined = 0
    BY <1>5 DEF StartAnswered, SceneInv
  <2>2. posts' = posts \ {p} /\ UNCHANGED <<entry, typed, joined>>
    BY <1>5 DEF StartAnswered
  <2>3. page'.scene = IF typed THEN "text" ELSE "room"
    BY <1>5, <2>1 DEF StartAnswered, SceneOfSession
  <2> QED BY <2>1, <2>2, <2>3
<1>6. ASSUME NEW s \in Session, SessionEnds(s)
      PROVE  UrlInv'
  BY <1>6 DEF SessionEnds
<1>7. CASE InRoom
  BY <1>7 DEF InRoom
<1>8. CASE Elsewhere \/ UNCHANGED vars
  BY <1>8 DEF Elsewhere, vars, entryVars
<1>9. CASE LeaveRoom \/ LeaveText
  <2>1. posts = {} /\ page'.scene = "entry" /\ entry' = Loading
    BY <1>9 DEF HastyStart, LeaveRoom, LeaveText, OpenEntry
  <2>2. PICK q : posts' = {q} /\ q.kind = "load" /\ q.session = 0 /\ q.stage = "sent"
    BY <1>9, <2>1, PostedIsNew DEF LeaveRoom, LeaveText, OpenEntry
  <2> QED BY <2>1, <2>2 DEF Loading
<1>10. CASE TypeAnswer
  BY <1>10 DEF TypeAnswer
<1>11. CASE SendMessage
  <2>1. page.scene = "text" /\ UNCHANGED <<page, typed, entry, joined>>
    BY <1>11 DEF SendMessage
  <2>2. CASE UNCHANGED posts
    BY <2>1, <2>2
  <2>3. CASE Posting("message")
    <3>1. PICK q : /\ posts' = posts \cup {q}
                   /\ q.kind = "message" /\ q.session = 0 /\ q.stage = "sent"
      BY <2>3, PostedIsNew
    <3> QED BY <2>1, <3>1
  <2> QED BY <1>11, <2>2, <2>3 DEF SendMessage
<1> QED BY <1>1, <1>2, <1>3, <1>4, <1>5, <1>6, <1>7, <1>8, <1>9, <1>10, <1>11 DEF Next

(* Every step of the browser keeps the room's invariant. *)
LEMMA RoomInvNext ==
  ASSUME Typed, RoomInv, SceneInv, [Next]_vars, ~HastyInRoom
  PROVE  RoomInv'
<1>1. ASSUME UNCHANGED roomVars, page'.scene = page.scene
      PROVE  RoomInv'
  BY <1>1 DEF roomVars, RoomInv, CheckIsShown, ConnectIsAlone, OneSocket, SocketIsCurrent,
     QuietBeforeLive, CaptureIsLive, TurnIsOpen, NoRoomOutside, Quiet, AllQuiet, Failing
<1>2. CASE SubmitConsent \/ StartSession \/ TypeAnswer \/ SendMessage
  BY <1>1, <1>2 DEF SubmitConsent, StartSession, TypeAnswer, SendMessage
<1>3. ASSUME NEW p \in posts, Serve(p) \/ StepAnswered(p)
      PROVE  RoomInv'
  BY <1>1, <1>3
     DEF Serve, ServeLoad, ServeConsent, ServeStart, CreateSession, Refuse, StepAnswered
<1>4. ASSUME NEW p \in posts, StartAnswered(p)
      PROVE  RoomInv'
  BY <1>4, StartAnsweredKeeps
<1>5. ASSUME NEW s \in Session, SessionEnds(s)
      PROVE  RoomInv'
  BY <1>1, <1>5 DEF SessionEnds
<1>6. CASE InRoom
  BY <1>6, RenderKeeps, ParticipantKeeps DEF InRoom
<1>7. CASE Elsewhere
  BY <1>7, LaterKeeps DEF Elsewhere, entryVars
<1>8. CASE LeaveRoom
  BY <1>8, LeaveRoomKeeps
<1>9. CASE LeaveText
  <2>1. UNCHANGED roomVars /\ page.scene = "text" /\ page'.scene = "entry"
    BY <1>9 DEF LeaveText, OpenEntry
  <2> QED
    BY <2>1 DEF roomVars, RoomInv, CheckIsShown, ConnectIsAlone, OneSocket, SocketIsCurrent,
       QuietBeforeLive, CaptureIsLive, TurnIsOpen, NoRoomOutside, Quiet, AllQuiet, Failing
<1>10. CASE UNCHANGED vars
  BY <1>1, <1>10 DEF vars, entryVars
<1> QED BY <1>2, <1>3, <1>4, <1>5, <1>6, <1>7, <1>8, <1>9, <1>10 DEF Next

(* Types and scenes, for every participant *)
LEMMA SceneInvariant == Spec => [](Typed /\ SceneInv)
<1>1. BrowserInit => SceneInv
  BY DEF BrowserInit, SceneInv
<1> QED BY <1>1, SceneInvNext, TypedInit, TypedNext, PTL DEF Spec

(* The room's invariant, until a hasty try in the room *)
LEMMA RoomInvariant == Spec => []RoomInv \/ <><<HastyInRoom>>_vars
<1>1. Typed /\ SceneInv /\ RoomInv /\ [Next]_vars /\ [~HastyInRoom]_vars => RoomInv'
  <2> SUFFICES ASSUME Typed, SceneInv, RoomInv, [Next]_vars, [~HastyInRoom]_vars
               PROVE  RoomInv'
    OBVIOUS
  <2>1. CASE ~HastyInRoom
    BY <2>1, RoomInvNext
  <2>2. CASE UNCHANGED vars
    BY <2>2 DEF vars, roomVars, entryVars, RoomInv, CheckIsShown, ConnectIsAlone, OneSocket,
       SocketIsCurrent, QuietBeforeLive, CaptureIsLive, TurnIsOpen, NoRoomOutside, Quiet,
       AllQuiet, Failing
  <2> QED BY <2>1, <2>2
<1> QED BY <1>1, RoomInvInit, SceneInvariant, PTL DEF Spec

(* Of microphones that are on, only those whose capture failed are out of  *)
(* the reach of clear() and of MicCheck, and no socket is, whatever the    *)
(* participant does, until a hasty try: a connect or a closing socket that *)
(* is overtaken, or a failed call that is walked out of.                   *)
THEOREM OnlyFailuresAreStray == Spec => []OnlyFailuresStray \/ <><<HastyInRoom>>_vars
<1>1. RoomInv => OnlyFailuresStray
  BY DEF RoomInv, CaptureIsLive, SocketIsCurrent, OnlyFailuresStray
<1> QED BY <1>1, RoomInvariant, PTL

(* Browser, server and microphone agree on whether the participant is      *)
(* talking, until a hasty try.                                             *)
THEOREM TurnIsAgreed == Spec => []TurnAgreed \/ <><<HastyInRoom>>_vars
<1>1. RoomInv => TurnAgreed
  BY DEF RoomInv, TurnIsOpen, TurnAgreed
<1> QED BY <1>1, RoomInvariant, PTL

(* The interview the browser is in is the one of its URL, whatever goes on *)
(* in the room, until the participant starts twice or goes back with a     *)
(* request under way.                                                      *)
THEOREM InterviewIsOfUrl == Spec => []InterviewFitsUrl \/ <><<HastyStart>>_vars
<1>1. Typed /\ SceneInv /\ UrlInv /\ [Next]_vars /\ [~HastyStart]_vars => UrlInv'
  <2> SUFFICES ASSUME Typed, SceneInv, UrlInv, [Next]_vars, [~HastyStart]_vars
               PROVE  UrlInv'
    OBVIOUS
  <2>1. CASE ~HastyStart
    BY <2>1, UrlInvNext
  <2>2. CASE UNCHANGED vars
    BY <2>2 DEF vars, entryVars, UrlInv, InterviewFitsUrl, StartsFromEntry, ContextFirst
  <2> QED BY <2>1, <2>2
<1>2. UrlInv => InterviewFitsUrl
  BY DEF UrlInv
<1> QED BY <1>1, <1>2, UrlInvInit, SceneInvariant, PTL DEF Spec

=============================================================================
