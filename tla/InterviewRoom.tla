--------------------------- MODULE InterviewRoom ---------------------------
(***************************************************************************)
(* The room of a spoken interview in the participant's browser             *)
(* (frontend/src/features/interview): the page and what it shows, the      *)
(* microphone check, the logics interviewRoomLogic and voiceStreamLogic,   *)
(* the capture, the playback queue and the WebSocket.  ParticipantBrowser  *)
(* puts the entry page in front of it.                                     *)
(*                                                                         *)
(* Everything the browser does later is a step of its own: a microphone    *)
(* that is granted, a socket that opens, fails or closes, a chunk that is  *)
(* decoded, and the render that follows a change of state.  The server may *)
(* send any message on an open socket.                                     *)
(*                                                                         *)
(* Left out: captions, levels, layout; the camera and the attachments are  *)
(* in RoomStage.                                                           *)
(***************************************************************************)
EXTENDS Naturals, FiniteSetsExt

CONSTANTS
  Mic,         \* getUserMedia streams that may exist at a time, 1 .. n
  Socket,      \* WebSockets that may exist at a time, 1 .. n
  MaxChunks,   \* bound: chunks decoding or playing per player
  MaxReaders,  \* bound: event streams of the session being read
  Patient      \* the participant lets the browser finish before trying again or
               \* leaving, and leaves no view that shows an error

ASSUME RoomAssumption ==
  /\ IsFiniteSet(Mic) /\ Mic = 1 .. Cardinality(Mic)
  /\ IsFiniteSet(Socket) /\ Socket = 1 .. Cardinality(Socket)
  /\ MaxChunks \in Nat
  /\ MaxReaders \in Nat
  /\ Patient \in BOOLEAN

VARIABLES
  uiPhase,    \* state of InterviewRoomPage
  shown,      \* what the last render has mounted
  room,       \* interviewRoomLogic
  voice,      \* voiceStreamLogic: reducers and the closure variables of its listeners
  check,      \* MicCheck: its microphone, or 0, and its phase
  mics,       \* AudioCapture: the stream and the gate
  connects,   \* connect listeners that await a microphone
  sockets,    \* WebSockets; talking is the turn as the server has heard of it
  decoding,   \* AudioPlayback: chunks inside decodeAudioChunk, per player
  playing     \* AudioPlayback.sources, per player

roomVars == <<uiPhase, shown, room, voice, check, mics, connects, sockets, decoding, playing>>

-----------------------------------------------------------------------------

Phase == {"mode", "mic-check", "live", "text-only"}

Room == [session: BOOLEAN, error: BOOLEAN, stimulus: BOOLEAN, readers: 0 .. MaxReaders]

(* A player is made together with the capture whose context it shares, and *)
(* has its number.                                                         *)
Voice ==
  [connected: BOOLEAN, phase: {"pending", "active", "completed"}, bargeIn: BOOLEAN,
   ptt: BOOLEAN, bot: BOOLEAN, error: BOOLEAN, cut: BOOLEAN,
   capture: Mic \cup {0}, player: Mic \cup {0}, ws: Socket \cup {0}]

Check == [mic: Mic \cup {0}, phase: {"loading", "prompt", "heard", "error"}]

Connect == [mic: Mic, keep: Mic \cup {0}]

(* A lost microphone is on, and nothing refers to it. *)
MicState == [stream: {"off", "asked", "on", "lost"}, gate: BOOLEAN]

SocketState ==
  [state: {"closed", "connecting", "open", "closing", "failed"}, talking: BOOLEAN]

NoMic == [stream |-> "off", gate |-> FALSE]
LostMic == [stream |-> "lost", gate |-> FALSE]
NoCheck == [mic |-> 0, phase |-> "loading"]
NoSocket == [state |-> "closed", talking |-> FALSE]
NoRoom == [session |-> FALSE, error |-> FALSE, stimulus |-> FALSE, readers |-> 0]
NoVoice ==
  [connected |-> FALSE, phase |-> "pending", bargeIn |-> FALSE, ptt |-> FALSE, bot |-> FALSE,
   error |-> FALSE, cut |-> FALSE, capture |-> 0, player |-> 0, ws |-> 0]

RoomInit ==
  /\ uiPhase = "mode"
  /\ shown = "mode"
  /\ room = NoRoom
  /\ voice = NoVoice
  /\ check = NoCheck
  /\ mics = [m \in Mic |-> NoMic]
  /\ connects = {}
  /\ sockets = [s \in Socket |-> NoSocket]
  /\ decoding = [m \in Mic |-> 0]
  /\ playing = [m \in Mic |-> 0]

(* A microphone nothing refers to any more may be asked for again. *)
FreeMics ==
  {m \in Mic : /\ mics[m].stream = "off"
               /\ m \notin {voice.capture, voice.player, check.mic}
               /\ decoding[m] + playing[m] = 0
               /\ \A c \in connects : m \notin {c.mic, c.keep}}

FreeSockets == {s \in Socket : sockets[s].state = "closed" /\ s # voice.ws}

Stopped(ms, m) == [k \in Mic |-> IF k = m THEN NoMic ELSE ms[k]]

(* AudioCapture.create fails: the microphone was refused, or it was        *)
(* granted and its audio context failed, and then nobody stops it.         *)
Failed(m) == {Stopped(mics, m), [mics EXCEPT ![m] = LostMic]}

-----------------------------------------------------------------------------
(* clear() of both logics *)

ClearedVoice ==
  [voice EXCEPT !.connected = FALSE, !.phase = "pending", !.ptt = FALSE, !.bot = FALSE,
                !.error = FALSE, !.cut = FALSE, !.capture = 0, !.player = 0, !.ws = 0]

HangUp(sks) ==
  [s \in Socket |->
     IF s = voice.ws /\ sks[s].state \in {"connecting", "open"}
       THEN [sks[s] EXCEPT !.state = "closing"] ELSE sks[s]]

(* interrupt of the current player stops what it has scheduled; what is    *)
(* still being decoded is not touched.                                     *)
Silenced == [m \in Mic |-> IF m = voice.player THEN 0 ELSE playing[m]]

(* Stops the capture and the player, closes the socket. *)
ClearVoice(sks) ==
  /\ voice' = ClearedVoice
  /\ mics' = Stopped(mics, voice.capture)
  /\ playing' = Silenced
  /\ sockets' = HangUp(sks)

ClearRoom == room' = [room EXCEPT !.session = FALSE, !.error = FALSE, !.stimulus = FALSE]

-----------------------------------------------------------------------------
(* Rendering: the page mounts what its state asks for.  The effects of the *)
(* component that leaves and of the one that comes run with it.            *)

Wanted == IF voice.error \/ room.error THEN "error" ELSE uiPhase

(* Wrong variant: it leaves the capture to whoever was handed it. *)
AfterUnmountRunning == mics

(* MicCheck stops its capture whenever it is unmounted: the phase its      *)
(* cleanup tests is that of the first render.                              *)
AfterUnmount ==
  IF shown = "mic-check" /\ check.mic # 0 /\ mics[check.mic].stream = "on"
    THEN Stopped(mics, check.mic) ELSE mics

RenderMicCheck ==
  /\ Wanted = "mic-check" /\ shown # Wanted
  /\ FreeMics # {}
  /\ shown' = Wanted
  /\ LET m == Min(FreeMics)
     IN  /\ check' = [NoCheck EXCEPT !.mic = m]
         /\ mics' = [mics EXCEPT ![m].stream = "asked"]
  /\ UNCHANGED <<uiPhase, room, voice, connects, sockets, decoding, playing>>

(* LiveRoom's effect calls connect: it asks for a microphone of its own    *)
(* and keeps the one it was handed until that is granted.                  *)
RenderLive ==
  /\ Wanted = "live" /\ shown # Wanted
  /\ shown' = Wanted
  /\ check' = NoCheck
  /\ IF room.session
       THEN \E m \in FreeMics :
              /\ m = Min(FreeMics)
              /\ voice' = [voice EXCEPT !.connected = TRUE]
              /\ connects' = connects \cup {[mic |-> m, keep |-> voice.capture]}
              /\ mics' = [AfterUnmount EXCEPT ![m].stream = "asked"]
       ELSE mics' = AfterUnmount /\ UNCHANGED <<voice, connects>>
  /\ UNCHANGED <<uiPhase, room, sockets, decoding, playing>>

StartedSession == [room EXCEPT !.session = TRUE, !.readers = @ + 1]

(* TextOnlyRoom's effect starts the session when there is none. *)
RenderText ==
  /\ Wanted = "text-only" /\ shown # Wanted
  /\ room.readers < MaxReaders
  /\ shown' = Wanted
  /\ check' = NoCheck
  /\ mics' = AfterUnmount
  /\ room' = IF room.session THEN room ELSE StartedSession
  /\ UNCHANGED <<uiPhase, voice, connects, sockets, decoding, playing>>

RenderOther ==
  /\ Wanted \in {"mode", "error"} /\ shown # Wanted
  /\ shown' = Wanted
  /\ check' = NoCheck
  /\ mics' = AfterUnmount
  /\ UNCHANGED <<uiPhase, room, voice, connects, sockets, decoding, playing>>

-----------------------------------------------------------------------------
(* The participant *)

Continue ==
  /\ shown = "mode" /\ Wanted = "mode"
  /\ Patient => \A s \in Socket : sockets[s].state = "closed"
  /\ uiPhase' = "mic-check"
  /\ UNCHANGED <<shown, room, voice, check, mics, connects, sockets, decoding, playing>>

FallBackToText ==
  /\ shown = "mic-check" /\ Wanted = "mic-check"
  /\ uiPhase' = "text-only"
  /\ UNCHANGED <<shown, room, voice, check, mics, connects, sockets, decoding, playing>>

(* The capture MicCheck built is kept, with its gate closed. *)
AttachCapture(m) ==
  /\ voice' = [voice EXCEPT !.capture = m, !.player = m]
  /\ mics' = [mics EXCEPT ![m].gate = FALSE]

(* onReady: attachCapture, startSession, and on to the room. *)
BeginInterview ==
  /\ shown = "mic-check" /\ Wanted = "mic-check"
  /\ check.phase = "heard"
  /\ room.readers < MaxReaders
  /\ AttachCapture(check.mic)
  /\ room' = StartedSession
  /\ uiPhase' = "live"
  /\ UNCHANGED <<shown, check, connects, sockets, decoding, playing>>

CanPress == shown = "live" /\ voice.capture # 0 /\ voice.ws # 0
              /\ sockets[voice.ws].state = "open"

(* Wrong variant: the gate stays open. *)
EndTurnGateOpen ==
  /\ CanPress /\ voice.ptt
  /\ sockets' = [sockets EXCEPT ![voice.ws].talking = FALSE]
  /\ voice' = [voice EXCEPT !.ptt = FALSE, !.cut = FALSE]
  /\ UNCHANGED <<uiPhase, shown, room, check, mics, connects, decoding, playing>>

(* pttPress in a turn *)
EndTurn ==
  /\ CanPress /\ voice.ptt
  /\ mics' = [mics EXCEPT ![voice.capture].gate = FALSE]
  /\ sockets' = [sockets EXCEPT ![voice.ws].talking = FALSE]
  /\ voice' = [voice EXCEPT !.ptt = FALSE, !.cut = FALSE]
  /\ UNCHANGED <<uiPhase, shown, room, check, connects, decoding, playing>>

(* pttPress between turns; while the bot speaks it interrupts it.  cut     *)
(* remembers that it did.                                                  *)
BeginTurn ==
  /\ CanPress /\ ~voice.ptt
  /\ voice.bot => voice.bargeIn
  /\ sockets' = [sockets EXCEPT ![voice.ws].talking = TRUE]
  /\ playing' = IF voice.bot THEN Silenced ELSE playing
  /\ mics' = [mics EXCEPT ![voice.capture].gate = TRUE]
  /\ voice' = [voice EXCEPT !.ptt = TRUE, !.cut = voice.bot]
  /\ UNCHANGED <<uiPhase, shown, room, check, connects, decoding>>

HideStimulus ==
  /\ shown = "live" /\ room.stimulus
  /\ room' = [room EXCEPT !.stimulus = FALSE]
  /\ UNCHANGED <<uiPhase, shown, voice, check, mics, connects, sockets, decoding, playing>>

(* "Try again" of the error view. *)
Retry ==
  /\ shown = "error"
  /\ Patient => connects = {}
  /\ ClearRoom
  /\ ClearVoice(sockets)
  /\ uiPhase' = "mode"
  /\ UNCHANGED <<shown, check, connects, decoding>>

-----------------------------------------------------------------------------
(* Microphones *)

(* AudioCapture.create of MicCheck; one that was unmounted stops it. *)
CheckGranted(m) ==
  /\ mics[m].stream = "asked" /\ \A c \in connects : c.mic # m
  /\ IF m = check.mic
       THEN mics' = [mics EXCEPT ![m].stream = "on"] /\ check' = [check EXCEPT !.phase = "prompt"]
       ELSE mics' = Stopped(mics, m) /\ UNCHANGED check
  /\ UNCHANGED <<uiPhase, shown, room, voice, connects, sockets, decoding, playing>>

CheckDenied(m) ==
  /\ mics[m].stream = "asked" /\ \A c \in connects : c.mic # m
  /\ mics' \in Failed(m)
  /\ check' = IF m = check.mic THEN [check EXCEPT !.phase = "error"] ELSE check
  /\ UNCHANGED <<uiPhase, shown, room, voice, connects, sockets, decoding, playing>>

CheckHears ==
  /\ check.phase = "prompt"
  /\ check' = [check EXCEPT !.phase = "heard"]
  /\ UNCHANGED <<uiPhase, shown, room, voice, mics, connects, sockets, decoding, playing>>

(* connect after its await: the new capture and its player take over, and  *)
(* a socket is opened.                                                     *)
ConnectGranted(c) ==
  /\ c \in connects
  /\ FreeSockets # {}
  /\ LET s == Min(FreeSockets)
     IN  /\ voice' = [voice EXCEPT !.capture = c.mic, !.player = c.mic, !.ws = s]
         /\ sockets' = [sockets EXCEPT ![s] = [NoSocket EXCEPT !.state = "connecting"]]
  /\ mics' = [Stopped(mics, c.keep) EXCEPT ![c.mic] = [stream |-> "on", gate |-> FALSE]]
  /\ connects' = connects \ {c}
  /\ UNCHANGED <<uiPhase, shown, room, check, decoding, playing>>

ConnectDenied(c) ==
  /\ c \in connects
  /\ voice' = [voice EXCEPT !.error = TRUE]
  /\ mics' \in Failed(c.mic)
  /\ connects' = connects \ {c}
  /\ UNCHANGED <<uiPhase, shown, room, check, sockets, decoding, playing>>

-----------------------------------------------------------------------------
(* The WebSocket.  Its listeners act on the logic, whichever socket it     *)
(* holds by then.                                                          *)

SocketOpens(s) ==
  /\ sockets[s].state = "connecting"
  /\ sockets' = [sockets EXCEPT ![s].state = "open"]
  /\ UNCHANGED <<uiPhase, shown, room, voice, check, mics, connects, decoding, playing>>

(* A socket that fails fires error, then close. *)
SocketFails(s) ==
  /\ sockets[s].state \in {"connecting", "open", "closing"}
  /\ sockets' = [sockets EXCEPT ![s].state = "failed"]
  /\ voice' = [voice EXCEPT !.error = TRUE]
  /\ UNCHANGED <<uiPhase, shown, room, check, mics, connects, decoding, playing>>

SocketCloses(s) ==
  /\ sockets[s].state \in {"open", "closing", "failed"}
  /\ ClearVoice([sockets EXCEPT ![s] = NoSocket])
  /\ UNCHANGED <<uiPhase, shown, room, check, connects, decoding>>

Receives(s) == sockets[s].state = "open"

SessionReady(s) ==
  /\ Receives(s)
  /\ \E allowed \in BOOLEAN :
       voice' = [voice EXCEPT !.bargeIn = allowed, !.phase = "active"]
  /\ UNCHANGED <<uiPhase, shown, room, check, mics, connects, sockets, decoding, playing>>

SpeakingChanges(s) ==
  /\ Receives(s)
  /\ \E speaking \in BOOLEAN : voice' = [voice EXCEPT !.bot = speaking]
  /\ UNCHANGED <<uiPhase, shown, room, check, mics, connects, sockets, decoding, playing>>

PhaseCompleted(s) ==
  /\ Receives(s)
  /\ voice' = [voice EXCEPT !.phase = "completed"]
  /\ UNCHANGED <<uiPhase, shown, room, check, mics, connects, sockets, decoding, playing>>

StimulusShown(s) ==
  /\ Receives(s)
  /\ room' = [room EXCEPT !.stimulus = TRUE]
  /\ UNCHANGED <<uiPhase, shown, voice, check, mics, connects, sockets, decoding, playing>>

BargeInAccepted(s) ==
  /\ Receives(s)
  /\ voice' = [voice EXCEPT !.bot = FALSE]
  /\ playing' = Silenced
  /\ UNCHANGED <<uiPhase, shown, room, check, mics, connects, sockets, decoding>>

ServerError(s) ==
  /\ Receives(s)
  /\ voice' = [voice EXCEPT !.error = TRUE]
  /\ UNCHANGED <<uiPhase, shown, room, check, mics, connects, sockets, decoding, playing>>

(* A chunk of audio goes to the current player, and is decoded there. *)
AudioArrives(s) ==
  /\ Receives(s) /\ voice.player # 0
  /\ decoding[voice.player] + playing[voice.player] < MaxChunks
  /\ decoding' = [decoding EXCEPT ![voice.player] = @ + 1]
  /\ UNCHANGED <<uiPhase, shown, room, voice, check, mics, connects, sockets, playing>>

-----------------------------------------------------------------------------
(* The playback queue *)

(* enqueue after its await: the chunk is scheduled. *)
ChunkDecoded(m) ==
  /\ decoding[m] > 0
  /\ decoding' = [decoding EXCEPT ![m] = @ - 1]
  /\ playing' = [playing EXCEPT ![m] = @ + 1]
  /\ UNCHANGED <<uiPhase, shown, room, voice, check, mics, connects, sockets>>

ChunkEnds(m) ==
  /\ playing[m] > 0
  /\ playing' = [playing EXCEPT ![m] = @ - 1]
  /\ UNCHANGED <<uiPhase, shown, room, voice, check, mics, connects, sockets, decoding>>

-----------------------------------------------------------------------------
(* consumeSessionStream: a reader lives until its stream ends, whatever    *)
(* becomes of the page.                                                    *)

StreamError ==
  /\ room.readers > 0
  /\ room' = [room EXCEPT !.error = TRUE]
  /\ UNCHANGED <<uiPhase, shown, voice, check, mics, connects, sockets, decoding, playing>>

StreamEnds ==
  /\ room.readers > 0
  /\ \E failed \in BOOLEAN :
       room' = [room EXCEPT !.readers = @ - 1, !.error = @ \/ failed]
  /\ UNCHANGED <<uiPhase, shown, voice, check, mics, connects, sockets, decoding, playing>>

-----------------------------------------------------------------------------

Render == RenderMicCheck \/ RenderLive \/ RenderText \/ RenderOther

Participant ==
  \/ Continue \/ FallBackToText \/ BeginInterview \/ EndTurn \/ BeginTurn
  \/ HideStimulus \/ Retry

Microphone ==
  \/ \E m \in Mic : CheckGranted(m) \/ CheckDenied(m)
  \/ CheckHears
  \/ \E c \in connects : ConnectGranted(c) \/ ConnectDenied(c)

Channel ==
  \E s \in Socket :
    \/ SocketOpens(s) \/ SocketFails(s) \/ SocketCloses(s)
    \/ SessionReady(s) \/ SpeakingChanges(s) \/ PhaseCompleted(s) \/ StimulusShown(s)
    \/ BargeInAccepted(s) \/ ServerError(s) \/ AudioArrives(s)

Playback == \E m \in Mic : ChunkDecoded(m) \/ ChunkEnds(m)

(* What happens later, wherever the participant is by then. *)
Later == Microphone \/ Channel \/ Playback \/ StreamError \/ StreamEnds

-----------------------------------------------------------------------------

(* Types of the variables: the page's phase, the two logics, the           *)
(* microphones, the sockets and the players.                               *)
RoomTypeOK ==
  /\ uiPhase \in Phase
  /\ shown \in Phase \cup {"error"}
  /\ room \in Room
  /\ voice \in Voice
  /\ check \in Check
  /\ mics \in [Mic -> MicState]
  /\ connects \subseteq Connect
  /\ sockets \in [Socket -> SocketState]
  /\ decoding \in [Mic -> 0 .. MaxChunks]
  /\ playing \in [Mic -> 0 .. MaxChunks]

(* Nothing is left on behind the page's back but by a capture that failed: *)
(* a microphone that is on, and was not lost when its audio context failed *)
(* after the grant (AudioCapture rethrows and leaves the tracks running),  *)
(* is the capture or MicCheck's, so that clear() of voiceStreamLogic and   *)
(* the unmounting of MicCheck reach it.  A socket that connects or is open *)
(* is the current one.  Once the participant has gone back there is no     *)
(* current one: nothing listens outside the room.                          *)
OnlyFailuresStray ==
  /\ \A m \in Mic : mics[m].stream = "on" => m \in {voice.capture, check.mic}
  /\ \A s \in Socket : sockets[s].state \in {"connecting", "open"} => s = voice.ws

(* Browser, server and microphone agree on whether the participant is      *)
(* talking: on an open channel ptt_speaking_start and _end alternate, the  *)
(* button (pttActive) shows the turn the server has open, and a microphone *)
(* that is on with its gate open is the current capture, in that turn      *)
(* (attachCapture: "no audio streamed until the user presses the PTT       *)
(* button").                                                               *)
TurnAgreed ==
  /\ \A s \in Socket : sockets[s].state = "open" => (sockets[s].talking <=> voice.ptt)
  /\ \A m \in Mic :
       mics[m].stream = "on" /\ mics[m].gate => voice.ptt /\ m = voice.capture

(* An interrupted bot is silent (pttPress: "Tear down local playback       *)
(* instantly so there's no tail while the server processes the             *)
(* interruption"): after a press that interrupted it nothing plays until   *)
(* the turn ends (violated: a chunk may still be decoded then).            *)
SilentAfterInterrupt == voice.cut /\ voice.player # 0 => playing[voice.player] = 0

=============================================================================
