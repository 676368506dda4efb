------------------------- MODULE DecisionValidator --------------------------
(***************************************************************************)
(* The structured decision of a turn (prompts.py) and the server-side      *)
(* rules that may replace it (decision_validator.py).                      *)
(*                                                                         *)
(* A decision keeps the fields that some rule or the state update reads.   *)
(* The wording fields (probe_type, think_notes, ...) are left out.         *)
(***************************************************************************)
EXTENDS InterviewGuide

CONSTANT NoDecision   \* the LLM call failed or its JSON did not parse

Action == {"followup", "move_on", "clarify", "close"}

Decision ==
  [action:  Action,
   next:    Question \cup {NoQuestion},
   kind:    ProbeKind,
   trigger: Trigger \cup {NoTrigger}]

ASSUME NoDecisionAssumption == NoDecision \notin Decision

PresetFollowup ==
  [action |-> "followup", next |-> NoQuestion, kind |-> "preset", trigger |-> NoTrigger]

MoveOn(q) ==
  [action |-> "move_on", next |-> q, kind |-> "unset", trigger |-> NoTrigger]

-----------------------------------------------------------------------------

(* Rule 1a: probe_policy = none forbids every follow-up. *)
ForbiddenFollowup(d, q) ==
  /\ Policy[q] = "none"
  /\ d.action = "followup"

(* Rule 1b: probe_policy = deep wants one probe before moving on. *)
MissingFirstProbe(d, q, probesDone) ==
  /\ Policy[q] = "deep"
  /\ d.action = "move_on"
  /\ probesDone = 0

(* Wrong variant: one probe too many. *)
PresetExhaustedLate(d, q, probesDone) ==
  d.action = "followup" /\ d.kind # "dynamic" /\ probesDone > MaxProbes[q]

(* Rule 2: the preset budget is spent. *)
PresetExhausted(d, q, probesDone) ==
  /\ d.action = "followup"
  /\ d.kind # "dynamic"
  /\ probesDone >= MaxProbes[q]

(* Rule 3: a dynamic probe the question does not allow (any more). *)
InvalidDynamic(d, q, dynamicDone) ==
  /\ d.action = "followup"
  /\ d.kind = "dynamic"
  /\ \/ ~Dynamic[q].enabled
     \/ d.trigger \notin Dynamic[q].triggers
     \/ dynamicDone >= Dynamic[q].max_extra_rounds

(* The decision the turn goes on with.  validate_decision answers "not     *)
(* overridden" when there is no decision or no question, and the caller    *)
(* then keeps what it had.                                                 *)
ValidateDecision(d, q, probesDone, dynamicDone) ==
  IF d = NoDecision \/ q = NoQuestion THEN d
  ELSE IF ForbiddenFollowup(d, q) \/ PresetExhausted(d, q, probesDone)
    THEN MoveOn(NextQuestion(q))
  ELSE IF MissingFirstProbe(d, q, probesDone) THEN PresetFollowup
  ELSE IF InvalidDynamic(d, q, dynamicDone)
    THEN IF probesDone < MaxProbes[q] THEN PresetFollowup ELSE MoveOn(NextQuestion(q))
  ELSE d

=============================================================================
