--------------------------- MODULE ExecutionState ---------------------------
(***************************************************************************)
(* The conductor state of a session (state.py) and the functions that read *)
(* and update it: _resolve_state and _apply_decision_to_state of           *)
(* moderator.py.                                                           *)
(*                                                                         *)
(* followups and dynamic hold the "asked" counters of followups_used and   *)
(* dynamic_probes_used; a question without an entry counts 0, as the code  *)
(* reads it.  The "budget" next to each counter only feeds the prompt.     *)
(* The section id follows the question id; the concept fields belong to    *)
(* concept expansion and are not read by any rule here.                    *)
(***************************************************************************)
EXTENDS DecisionValidator

GraceRounds == 3       \* default of enter_closing

Cursor == Question \cup {NoQuestion}

Phase == {"warmup", "active", "closing", "ended"}

State ==
  [phase:       Phase,
   turn_count:  Nat,
   rounds:      Nat,                    \* closing_rounds_remaining
   current:     Cursor,                 \* current_question_id
   followups:   [Cursor -> Nat],
   dynamic:     [Cursor -> Nat],
   answered:    SUBSET Cursor,
   last_action: Action \cup {""}]

(* ExecutionState.model_validate({}) *)
EmptyState ==
  [phase       |-> "warmup",
   turn_count  |-> 0,
   rounds      |-> 0,
   current     |-> NoQuestion,
   followups   |-> [q \in Cursor |-> 0],
   dynamic     |-> [q \in Cursor |-> 0],
   answered    |-> {},
   last_action |-> ""]

-----------------------------------------------------------------------------

MarkFollowupUsed(s, q) == [s EXCEPT !.followups[q] = @ + 1]

MarkDynamicProbeUsed(s, q) == [s EXCEPT !.dynamic[q] = @ + 1]

MarkAnswered(s, q) ==
  [s EXCEPT !.answered = IF q = NoQuestion THEN @ ELSE @ \cup {q}]

EnterClosing(s) ==
  [s EXCEPT !.phase = "closing",
            !.rounds = IF @ > GraceRounds THEN @ ELSE GraceRounds]

(* Wrong variant: the closing rounds are never used up. *)
ConsumeNoRound(s) == s

ConsumeClosingRound(s) ==
  IF s.phase = "closing" /\ s.rounds > 0 THEN [s EXCEPT !.rounds = @ - 1] ELSE s

InClosingGrace(s) == s.phase = "closing" /\ s.rounds > 0

(* Putting the cursor on a question starts its counters again. *)
GoTo(s, q) ==
  [s EXCEPT !.current = q, !.followups[q] = 0, !.dynamic[q] = 0]

-----------------------------------------------------------------------------

(* _resolve_state: a cursor the guide does not have goes to the opening    *)
(* question, if there is one.                                              *)
ResolveState(s) ==
  IF InGuide(s.current) \/ FirstQuestion = NoQuestion THEN s ELSE GoTo(s, FirstQuestion)

(* The question the validator is given. *)
CurrentQuestion(s) == IF InGuide(s.current) THEN s.current ELSE NoQuestion

Followup(s, d) ==
  IF d.kind = "dynamic"
    THEN MarkDynamicProbeUsed(s, s.current)
    ELSE MarkFollowupUsed(s, s.current)

(* A target that the guide lacks leaves the cursor; no target means the    *)
(* end of the guide, whichever question the cursor is on.                  *)
Advance(s, d) ==
  LET t == MarkAnswered(s, s.current)
  IN  IF d.next # NoQuestion
        THEN IF InGuide(d.next) THEN GoTo(t, d.next) ELSE t
        ELSE IF t.phase # "closing" THEN EnterClosing(t) ELSE t

Effect(s, d) ==
  CASE d.action = "followup" -> Followup(s, d)
    [] d.action = "move_on"  -> Advance(s, d)
    [] d.action = "close"    -> EnterClosing(s)
    [] d.action = "clarify"  -> s

(* _apply_decision_to_state *)
ApplyDecision(s, d) ==
  LET counted == [s EXCEPT !.turn_count = @ + 1]
      decided == IF d = NoDecision
                   THEN counted
                   ELSE Effect([counted EXCEPT !.last_action = d.action], d)
  IN  IF s.phase = "closing" THEN ConsumeClosingRound(decided) ELSE decided

=============================================================================
