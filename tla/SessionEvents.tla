---------------------------- MODULE SessionEvents ---------------------------
(***************************************************************************)
(* The event log of a session (event_log.py) and what is read from it: the *)
(* reconstructed conductor state and the closure signals (closure.py).     *)
(*                                                                         *)
(* A participant message is identified with the turn it starts.  The log   *)
(* is a sequence: position i is the row with seq = i.                      *)
(***************************************************************************)
EXTENDS ExecutionState, SequencesExt

CONSTANTS
  Turn,       \* participant messages, each one the input of one turn
  Leaving     \* the messages that match a goodbye pattern

ASSUME TurnAssumption ==
  /\ IsFiniteSet(Turn)
  /\ Leaving \subseteq Turn

Reason == {"close_decision", "all_p0_answered", "leaving_intent",
           "idle_timeout", "max_duration"}

NoReason == "none"

(* What the clock and the rest of the product contribute to closure:       *)
(* "goals"    all P0 goals are answered and min_duration has passed        *)
(* "silent"   120 s have passed since the last user_turn event             *)
(* "overtime" max_duration has passed                                      *)
(* "stale"    updated_at is more than two hours old                        *)
Condition == {"goals", "silent", "overtime", "stale"}

UserTurn(t)        == [kind |-> "user_turn", turn |-> t]
ModelReply(t)      == [kind |-> "model_reply", turn |-> t]
DecisionMade(d)    == [kind |-> "decision", decision |-> d]
StateTransition(s) == [kind |-> "state_transition", state |-> s]
SessionEnded(r)    == [kind |-> "session_lifecycle", reason |-> r]

Event ==
       [kind: {"user_turn", "model_reply"}, turn: Turn]
  \cup [kind: {"decision"}, decision: Decision]
  \cup [kind: {"state_transition"}, state: State]
  \cup [kind: {"session_lifecycle"}, reason: Reason]

(* Wrong variant: nothing but the state when the LLM gave no decision. *)
TurnEventsOfDecisions(t, d, s) ==
  (IF d = NoDecision THEN <<>> ELSE <<UserTurn(t), ModelReply(t), DecisionMade(d)>>)
  \o <<StateTransition(s)>>

(* The batch _alog_turn_events appends for turn t. *)
TurnEvents(t, d, s) ==
     <<UserTurn(t), ModelReply(t)>>
  \o (IF d = NoDecision THEN <<>> ELSE <<DecisionMade(d)>>)
  \o <<StateTransition(s)>>

-----------------------------------------------------------------------------

(* What replaying a decision does: the counters and the phase, not the     *)
(* cursor.                                                                 *)
ReplayDecision(s, d) ==
  LET t == [s EXCEPT !.last_action = d.action]
  IN  CASE d.action = "followup" ->
             IF t.current = NoQuestion THEN t ELSE Followup(t, d)
        [] d.action = "move_on"  -> MarkAnswered(t, t.current)
        [] d.action = "close"    -> EnterClosing(t)
        [] d.action = "clarify"  -> t

(* Wrong variant: closing_rounds_remaining is not among the keys. *)
ReplayEventWithoutRounds(s, e) ==
  CASE e.kind = "decision"          -> ReplayDecision(s, e.decision)
    [] e.kind = "state_transition"  -> [e.state EXCEPT !.last_action = s.last_action,
                                                       !.rounds = s.rounds]
    [] e.kind = "session_lifecycle" -> [s EXCEPT !.phase = "ended"]
    [] OTHER                        -> s

(* state_transition carries every field but last_action. *)
ReplayEvent(s, e) ==
  CASE e.kind = "decision"          -> ReplayDecision(s, e.decision)
    [] e.kind = "state_transition"  -> [e.state EXCEPT !.last_action = s.last_action]
    [] e.kind = "session_lifecycle" -> [s EXCEPT !.phase = "ended"]
    [] OTHER                        -> s

ReconstructState(log) ==
  LET state[i \in 0 .. Len(log)] ==
        IF i = 0 THEN EmptyState ELSE ReplayEvent(state[i - 1], log[i])
  IN  state[Len(log)]

-----------------------------------------------------------------------------

(* The position of the last user_turn event, 0 when there is none. *)
LastUserTurn(log) ==
  SelectLastInSeq(log, LAMBDA e : e.kind = "user_turn")

LastDecisionIsClose(decisions) ==
  decisions # <<>> /\ Last(decisions) = "close"

(* Wrong variant: closing ends the session whatever is left of the grace. *)
CloseWithoutGrace(s, decisions) ==
  LastDecisionIsClose(decisions) \/ s.phase = "closing"

CloseDecision(s, decisions) ==
  \/ LastDecisionIsClose(decisions) /\ ~InClosingGrace(s)
  \/ s.phase = "closing" /\ s.rounds = 0

(* check_completion: the signals in their order, the first that fires.     *)
(* Its only caller passes no ws_disconnected_seconds, so that signal is    *)
(* not among them.                                                         *)
CheckCompletion(s, decisions, log, conditions) ==
  LET last == LastUserTurn(log)
  IN  IF CloseDecision(s, decisions) THEN "close_decision"
      ELSE IF ~InClosingGrace(s) /\ "goals" \in conditions THEN "all_p0_answered"
      ELSE IF last # 0 /\ log[last].turn \in Leaving THEN "leaving_intent"
      ELSE IF last # 0 /\ "silent" \in conditions THEN "idle_timeout"
      ELSE IF "overtime" \in conditions THEN "max_duration"
      ELSE NoReason

=============================================================================
