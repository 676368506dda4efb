------------------------------ MODULE RoomStage ------------------------------
(***************************************************************************)
(* What the participant sees and attaches in the room                      *)
(* (InterviewRoomPage.tsx): the preview stage with the camera and the      *)
(* stimuli, the attachments and the text field; interviewRoomLogic.ts and  *)
(* the two messages of voiceStreamLogic.ts that touch them.  The views and *)
(* the channel are those of InterviewRoom, reduced to what the stage sees. *)
(*                                                                         *)
(* The stage shows one child at a time: another one is mounted when the    *)
(* one before it has faded out, and the child that fades is as it was.     *)
(***************************************************************************)
EXTENDS Naturals, Sequences, FiniteSetsExt

CONSTANTS
  Concept,     \* stimuli, each with its overlayKey
  Camera,      \* getUserMedia calls that may be under way, 1 .. n
  MaxFiles,    \* bound on attachments
  MaxImports,  \* bound on stimuli whose import is awaited
  None

VARIABLES
  view,            \* what the page shows, or "away"
  mode,
  connected,       \* the WebSocket is open
  activeStimulus,
  imports,         \* stimulus_show messages that wait for the lazy import
  stage,           \* the key of the stage's child: "empty" or a concept; None: no stage
  camera,          \* the getUserMedia call of the mounted CameraPreview, or 0
  cameras,
  attachments,
  urls,            \* object URLs that are not revoked
  draft,           \* the text field is not blank
  texts            \* text_input messages sent

stageVars == <<stage, camera, cameras>>
fileVars == <<attachments, urls>>
textVars == <<draft, texts>>
vars == <<view, mode, connected, activeStimulus, imports, stageVars, fileVars, textVars>>

-----------------------------------------------------------------------------

Init ==
  /\ view = "setup"
  /\ mode = "voice"
  /\ connected = FALSE
  /\ activeStimulus = None
  /\ imports = <<>>
  /\ stage = None
  /\ camera = 0
  /\ cameras = [k \in Camera |-> "off"]
  /\ attachments = {} /\ urls = {}
  /\ draft = FALSE /\ texts = 0

overlayKey == IF activeStimulus = None THEN "empty" ELSE activeStimulus

FreeCameras == {k \in Camera : cameras[k] = "off" /\ k # camera}

(* CameraPreview's cleanup stops the stream it has. *)
CameraStopped ==
  [k \in Camera |-> IF k = camera /\ cameras[k] = "on" THEN "off" ELSE cameras[k]]

(* The stage mounts the child of a key, in place of the one it had. *)
Mount(key) ==
  /\ stage' = key
  /\ IF key = "empty" /\ mode = "video"
       THEN /\ FreeCameras # {}
            /\ camera' = Min(FreeCameras)
            /\ cameras' = [CameraStopped EXCEPT ![Min(FreeCameras)] = "asked"]
       ELSE camera' = 0 /\ cameras' = CameraStopped

-----------------------------------------------------------------------------
(* The views *)

SelectMode ==
  /\ view = "setup"
  /\ mode' \in {"voice", "video"}
  /\ UNCHANGED <<view, connected, activeStimulus, imports, stageVars, fileVars, textVars>>

(* LiveRoom connects; the channel comes up later. *)
EnterLive ==
  /\ view = "setup"
  /\ view' = "live"
  /\ Mount(overlayKey)
  /\ draft' = FALSE
  /\ UNCHANGED <<mode, connected, activeStimulus, imports, fileVars, texts>>

EnterText ==
  /\ view = "setup"
  /\ view' = "text"
  /\ draft' = FALSE
  /\ UNCHANGED <<mode, connected, activeStimulus, imports, stageVars, fileVars, texts>>

ChannelOpens ==
  /\ view \in {"live", "error"}
  /\ connected' = TRUE
  /\ UNCHANGED <<view, mode, activeStimulus, imports, stageVars, fileVars, textVars>>

(* Clears voiceStreamLogic only. *)
ChannelCloses ==
  /\ connected
  /\ connected' = FALSE
  /\ UNCHANGED <<view, mode, activeStimulus, imports, stageVars, fileVars, textVars>>

(* The view of an error takes the place of any other; the channel may      *)
(* still be open.                                                          *)
ShowError ==
  /\ view \in {"setup", "live", "text"}
  /\ view' = "error"
  /\ stage' = None /\ camera' = 0 /\ cameras' = CameraStopped
  /\ UNCHANGED <<mode, connected, activeStimulus, imports, fileVars, textVars>>

(* clear() of both logics *)
Clear ==
  /\ connected' = FALSE
  /\ activeStimulus' = None
  /\ attachments' = {}
  /\ urls' = urls \ attachments

Retry ==
  /\ view = "error"
  /\ view' = "setup"
  /\ Clear
  /\ UNCHANGED <<mode, imports, stageVars, textVars>>

(* The page's effect clears the logics while LiveRoom holds them; in any   *)
(* other view the page has let go of them, and they forget their state.    *)
Leave ==
  /\ view \in {"setup", "live", "text", "error"}
  /\ view' = "away"
  /\ IF view = "live"
       THEN Clear
       ELSE connected' = FALSE /\ activeStimulus' = None /\ attachments' = {} /\ UNCHANGED urls
  /\ stage' = None /\ camera' = 0 /\ cameras' = CameraStopped
  /\ mode' = "voice"
  /\ UNCHANGED <<imports, textVars>>

Return ==
  /\ view = "away"
  /\ view' = "setup"
  /\ UNCHANGED <<mode, connected, activeStimulus, imports, stageVars, fileVars, textVars>>

-----------------------------------------------------------------------------
(* Stimuli *)

StimulusShow(c) ==
  /\ connected
  /\ Len(imports) < MaxImports
  /\ imports' = Append(imports, c)
  /\ UNCHANGED <<view, mode, connected, activeStimulus, stageVars, fileVars, textVars>>

(* showStimulus fails while the logic is not mounted. *)
Imported ==
  /\ imports # <<>>
  /\ imports' = Tail(imports)
  /\ activeStimulus' = IF view = "away" THEN None ELSE Head(imports)
  /\ UNCHANGED <<view, mode, connected, stageVars, fileVars, textVars>>

(* The button of an overlay that fades out closes what is to come. *)
CloseStimulus ==
  /\ stage \in Concept
  /\ activeStimulus' = None
  /\ UNCHANGED <<view, mode, connected, imports, stageVars, fileVars, textVars>>

FadedOut ==
  /\ view = "live" /\ stage # overlayKey
  /\ Mount(overlayKey)
  /\ UNCHANGED <<view, mode, connected, activeStimulus, imports, fileVars, textVars>>

(* Wrong variant: it does not look whether the preview is still there. *)
CameraGrantedAnyway(k) ==
  /\ cameras[k] = "asked"
  /\ cameras' = [cameras EXCEPT ![k] = "on"]
  /\ UNCHANGED <<view, mode, connected, activeStimulus, imports, stage, camera, fileVars, textVars>>

CameraGranted(k) ==
  /\ cameras[k] = "asked"
  /\ cameras' = [cameras EXCEPT ![k] = IF k = camera THEN "on" ELSE "off"]
  /\ UNCHANGED <<view, mode, connected, activeStimulus, imports, stage, camera, fileVars, textVars>>

CameraDenied(k) ==
  /\ cameras[k] = "asked"
  /\ cameras' = [cameras EXCEPT ![k] = "off"]
  /\ UNCHANGED <<view, mode, connected, activeStimulus, imports, stage, camera, fileVars, textVars>>

-----------------------------------------------------------------------------
(* Attachments, and the text that may be typed instead *)

AttachFile ==
  /\ view = "live"
  /\ \E f \in (1 .. MaxFiles) \ urls :
       /\ attachments' = attachments \cup {f}
       /\ urls' = urls \cup {f}
  /\ UNCHANGED <<view, mode, connected, activeStimulus, imports, stageVars, textVars>>

RemoveAttachment(f) ==
  /\ view = "live" /\ f \in attachments
  /\ attachments' = attachments \ {f}
  /\ urls' = urls \ {f}
  /\ UNCHANGED <<view, mode, connected, activeStimulus, imports, stageVars, textVars>>

(* The text view's button to attach files does nothing. *)
TypeText ==
  /\ view \in {"live", "text"}
  /\ draft' \in BOOLEAN
  /\ UNCHANGED <<view, mode, connected, activeStimulus, imports, stageVars, fileVars, texts>>

(* Without a channel (the text view never has one) the text is gone.  One  *)
(* message is as good as many.                                             *)
SendText ==
  /\ view \in {"live", "text"} /\ draft
  /\ draft' = FALSE
  /\ texts' = IF connected THEN 1 ELSE texts
  /\ UNCHANGED <<view, mode, connected, activeStimulus, imports, stageVars, fileVars>>

-----------------------------------------------------------------------------

Next ==
  \/ SelectMode \/ EnterLive \/ EnterText \/ ChannelOpens \/ ChannelCloses
  \/ ShowError \/ Retry \/ Leave \/ Return
  \/ (\E c \in Concept : StimulusShow(c)) \/ Imported \/ CloseStimulus \/ FadedOut
  \/ \E k \in Camera : CameraGranted(k) \/ CameraDenied(k)
  \/ AttachFile \/ (\E f \in 1 .. MaxFiles : RemoveAttachment(f)) \/ TypeText \/ SendText

Spec == Init /\ [][Next]_vars

-----------------------------------------------------------------------------

StrayCameras == {k \in Camera : cameras[k] = "on" /\ ~(stage = "empty" /\ k = camera)}

StrayUrls == urls \ attachments

WalksOutOfError == view = "error" /\ view' = "away"

HoldsStep ==
  /\ StrayCameras' = {}
  /\ attachments' \subseteq urls'
  /\ StrayUrls' \subseteq StrayUrls \/ WalksOutOfError

(* The room holds what it shows and nothing else: a camera that is on is   *)
(* that of the preview on the stage, however late it was granted and       *)
(* whatever stimuli came in between; a listed attachment has its object    *)
(* URL, and no step leaves one behind but walking out of the error view,   *)
(* where the page no longer holds the logic that it clears.                *)
HoldsWhatItShows == [][HoldsStep]_vars

=============================================================================
