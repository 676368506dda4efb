--------------------------- MODULE SessionLifecycle --------------------------
(***************************************************************************)
(* What a session promises to whoever reads it: the inbox, the             *)
(* post-session pipeline, the study's counters, the admin timeline.        *)
(*                                                                         *)
(* The event log only grows, by whole turns, and the session ends once:    *)
(* the status changes in the very step that logs the ending.  (Turns are   *)
(* accepted after the end too: no caller of stream_turn looks at the       *)
(* status.)                                                                *)
(***************************************************************************)
EXTENDS SessionEvents

VARIABLES status, participation, events

Init ==
  /\ status = "pending"
  /\ participation = "interviewing"
  /\ events = <<>>

(* The whole batch of a turn, ending in the state the turn left. *)
AppendTurn(t, d) ==
  /\ Len(events') > Len(events)
  /\ Last(events').kind = "state_transition"
  /\ Last(events').state \in State
  /\ events' = events \o TurnEvents(t, d, Last(events').state)
  /\ UNCHANGED <<status, participation>>

End(r) ==
  /\ status = "pending"
  /\ status' = "completed"
  /\ participation' = "completed"
  /\ events' = Append(events, SessionEnded(r))

Next ==
  \/ \E t \in Turn, d \in Decision \cup {NoDecision} : AppendTurn(t, d)
  \/ \E r \in Reason : End(r)

Spec == Init /\ [][Next]_<<status, participation, events>>

=============================================================================
