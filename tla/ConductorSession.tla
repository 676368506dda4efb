-------------------------- MODULE ConductorSession --------------------------
(***************************************************************************)
(* One interview session and everything that writes it.                    *)
(*                                                                         *)
(* Several participant messages may be in their turn at once: each request *)
(* or voice connection runs stream_turn (moderator.py) on its own copy of  *)
(* the session row, with awaits on the LLM between reading the row and     *)
(* writing it back.  A Celery beat task completes stuck sessions, and a    *)
(* closing WebSocket writes voice data into the same row.  Event appends   *)
(* and completion are transactions that hold the row lock.                 *)
(***************************************************************************)
EXTENDS SessionEvents

CONSTANTS
  Beat,            \* the worker that runs abandon_stuck_sessions
  Voice,           \* the voice connection, when there is one
  Nobody,          \* holds the row lock when no transaction does
  LLMDecisions,    \* what coverage_steer may come back with
  Conditions,      \* the conditions that may arise during the run
  MaxInFlight,     \* bound: turns being processed at the same time
  MaxCrashes,      \* bound: workers that die between two steps
  ClientsLeave,    \* TRUE when text clients may go away late in a turn
  VoiceConnected,  \* TRUE when the session has a voice connection
  BrokerMayFail    \* TRUE when Celery's broker may be down

ASSUME SessionAssumption ==
  /\ Beat \notin Turn
  /\ Voice \notin Turn \cup {Beat}
  /\ Nobody \notin Turn \cup {Beat, Voice}
  /\ LLMDecisions \subseteq Decision \cup {NoDecision}
  /\ Conditions \subseteq Condition
  /\ MaxInFlight \in Nat
  /\ MaxCrashes \in Nat
  /\ ClientsLeave \in BOOLEAN
  /\ VoiceConnected \in BOOLEAN
  /\ BrokerMayFail \in BOOLEAN

VARIABLES
  row,            \* the InterviewSession row
  participation,  \* status of its Participation
  log,            \* the session's SessionEvent rows
  lock,           \* who holds the row lock
  pc,             \* the step each process is at
  work,           \* what a turn keeps in memory
  base,           \* max(seq) as read inside the open transaction
  signal,         \* the closure signal a process is acting on
  conditions,     \* the conditions that hold now
  enqueued,       \* launches of process_completed_session
  crashes

vars == <<row, participation, log, lock, pc, work, base, signal, conditions,
          enqueued, crashes>>

-----------------------------------------------------------------------------

Process == Turn \cup {Beat, Voice}

Row ==
  [status:     {"pending", "completed"},
   state:      State,
   extra:      BOOLEAN,     \* moderator_state has keys ExecutionState lacks
   transcript: Seq(Turn),   \* one entry per exchange
   decisions:  Seq(Action)] \* decision_log

Work == [row: Row, state: State, decision: Decision \cup {NoDecision}]

EmptyRow ==
  [status |-> "pending", state |-> EmptyState, extra |-> FALSE,
   transcript |-> <<>>, decisions |-> <<>>]

NoWork == [row |-> EmptyRow, state |-> EmptyState, decision |-> NoDecision]

(* "deciding"   coverage_steer awaits the LLM                              *)
(* "speaking"   generate streams the reply                                 *)
(* "saved"      the row is saved, the events are not appended yet          *)
(* "appending"  in append_events: the row is locked, max(seq) is read      *)
(* "logged"     the events are committed                                   *)
(* "completing" a closure signal fired, complete_session is to run         *)
(* "locked"     in complete_session: the row is locked, not yet completed  *)
(* "written"    status, participation and event written, not committed     *)
(* "persisting" the closing WebSocket has read the row                     *)
Step == {"idle", "deciding", "speaking", "saved", "appending", "logged",
         "completing", "locked", "written", "persisting",
         "done", "failed", "interrupted", "crashed"}

Finished == {"done", "failed", "interrupted", "crashed"}

InFlight == {t \in Turn : pc[t] \notin Finished \cup {"idle"}}

InTransaction == {"appending", "locked", "written"}

Init ==
  /\ row = EmptyRow
  /\ participation = "interviewing"
  /\ log = <<>>
  /\ lock = Nobody
  /\ pc = [p \in Process |-> IF p = Voice /\ ~VoiceConnected THEN "done" ELSE "idle"]
  /\ work = [p \in Process |-> NoWork]
  /\ base = [p \in Process |-> 0]
  /\ signal = [p \in Process |-> NoReason]
  /\ conditions = {}
  /\ enqueued = 0
  /\ crashes = 0

Goto(p, step) == pc' = [pc EXCEPT ![p] = step]

(* A process is through with what it was doing.  The beat task runs again *)
(* at its next tick; a turn and a voice connection do not come back.      *)
Finish(p, step) ==
  /\ Goto(p, IF p = Beat THEN "idle" ELSE step)
  /\ work' = [work EXCEPT ![p] = NoWork]
  /\ signal' = [signal EXCEPT ![p] = NoReason]

(* The end of a transaction, by COMMIT or by ROLLBACK. *)
EndTransaction(p) ==
  /\ lock' = Nobody
  /\ base' = [base EXCEPT ![p] = 0]

(* updated_at moves to now *)
Touched == conditions \ {"stale"}

-----------------------------------------------------------------------------
(* A turn: stream_turn *)

(* The row is read and its moderator_state validated.  ExecutionState      *)
(* forbids unknown keys: with one in the row, the turn raises.  Nothing    *)
(* looks at the session's status.                                          *)
Load(t) ==
  /\ pc[t] = "idle"
  /\ Cardinality(InFlight) < MaxInFlight
  /\ IF row.extra
       THEN Finish(t, "failed")
       ELSE /\ Goto(t, "deciding")
            /\ work' = [work EXCEPT ![t] = [row      |-> row,
                                            state    |-> ResolveState(row.state),
                                            decision |-> NoDecision]]
            /\ UNCHANGED signal
  /\ UNCHANGED <<row, participation, log, lock, base, conditions, enqueued, crashes>>

(* coverage_steer answers, or fails, and the validator has its say. *)
Decide(t, d) ==
  LET s == work[t].state
  IN  /\ pc[t] = "deciding"
      /\ work' = [work EXCEPT ![t].decision =
                    ValidateDecision(d, CurrentQuestion(s),
                                     s.followups[s.current], s.dynamic[s.current])]
      /\ Goto(t, "speaking")
      /\ UNCHANGED <<row, participation, log, lock, base, signal, conditions,
                     enqueued, crashes>>

(* The consumer stops iterating: a barge-in, or a text client that is gone. *)
(* The generator never reaches its post-stream part.  A text client that   *)
(* leaves while the last deltas are queued also closes the event loop on a *)
(* turn that awaits the save or the append.                                *)
Interrupt(t) ==
  /\ \/ pc[t] = "speaking"
     \/ ClientsLeave /\ pc[t] \in {"saved", "logged"}
  /\ Finish(t, "interrupted")
  /\ UNCHANGED <<row, participation, log, lock, base, conditions, enqueued, crashes>>

(* Wrong variant: the save writes every column of the turn's old copy. *)
SaveWholeRow(t) ==
  LET w == work[t]
      s == ApplyDecision(w.state, w.decision)
  IN  /\ pc[t] = "speaking"
      /\ lock = Nobody
      /\ row' = [w.row EXCEPT !.state = s, !.transcript = Append(@, t)]
      /\ work' = [work EXCEPT ![t].state = s]
      /\ conditions' = Touched
      /\ Goto(t, "saved")
      /\ UNCHANGED <<participation, log, lock, base, signal, enqueued, crashes>>

(* The reply is out: the decision is applied to the turn's copy, and three *)
(* columns are written from it.  The UPDATE waits for the row lock.        *)
Save(t) ==
  LET w == work[t]
      s == ApplyDecision(w.state, w.decision)
  IN  /\ pc[t] = "speaking"
      /\ lock = Nobody
      /\ row' = [row EXCEPT
                   !.state = s,
                   !.extra = FALSE,
                   !.transcript = Append(w.row.transcript, t),
                   !.decisions = IF w.decision = NoDecision
                                   THEN w.row.decisions
                                   ELSE Append(w.row.decisions, w.decision.action)]
      /\ work' = [work EXCEPT ![t].state = s]
      /\ conditions' = Touched
      /\ Goto(t, "saved")
      /\ UNCHANGED <<participation, log, lock, base, signal, enqueued, crashes>>

(* Wrong variant: max(seq) is read without the row lock. *)
BeginAppendUnlocked(t) ==
  /\ pc[t] = "saved"
  /\ base' = [base EXCEPT ![t] = Len(log)]
  /\ Goto(t, "appending")
  /\ UNCHANGED <<row, participation, log, lock, work, signal, conditions, enqueued, crashes>>

(* append_events locks the session row and reads max(seq) ... *)
BeginAppend(t) ==
  /\ pc[t] = "saved"
  /\ lock = Nobody
  /\ lock' = t
  /\ base' = [base EXCEPT ![t] = Len(log)]
  /\ Goto(t, "appending")
  /\ UNCHANGED <<row, participation, log, work, signal, conditions, enqueued, crashes>>

(* ... and inserts the batch after it.  (session, seq) is unique: a stale  *)
(* max(seq) is an IntegrityError.                                          *)
CommitAppend(t) ==
  /\ pc[t] = "appending"
  /\ EndTransaction(t)
  /\ IF base[t] = Len(log)
       THEN /\ log' = log \o TurnEvents(t, work[t].decision, work[t].state)
            /\ conditions' = conditions \ {"silent"}
            /\ Goto(t, "logged")
            /\ UNCHANGED <<work, signal>>
       ELSE /\ Finish(t, "failed")
            /\ UNCHANGED <<log, conditions>>
  /\ UNCHANGED <<row, participation, enqueued, crashes>>

(* _acheck_closure reads the row again and asks check_completion. *)
CheckClosure(t) ==
  LET r == CheckCompletion(row.state, row.decisions, log, conditions)
  IN  /\ pc[t] = "logged"
      /\ IF r = NoReason
           THEN Finish(t, "done")
           ELSE /\ signal' = [signal EXCEPT ![t] = r]
                /\ Goto(t, "completing")
                /\ UNCHANGED work
      /\ UNCHANGED <<row, participation, log, lock, base, conditions, enqueued, crashes>>

-----------------------------------------------------------------------------
(* complete_session, called by a turn and by the beat task *)

(* Wrong variant: the status is not looked at again under the lock. *)
LockSessionUnchecked(p) ==
  /\ pc[p] = "completing"
  /\ lock = Nobody
  /\ lock' = p
  /\ Goto(p, "locked")
  /\ UNCHANGED <<row, participation, log, work, base, signal, conditions, enqueued, crashes>>

(* Wrong variant: the early return keeps the lock. *)
LockSessionLeaking(p) ==
  /\ pc[p] = "completing"
  /\ lock = Nobody
  /\ lock' = p
  /\ IF row.status = "completed"
       THEN Finish(p, "done")
       ELSE Goto(p, "locked") /\ UNCHANGED <<work, signal>>
  /\ UNCHANGED <<row, participation, log, base, conditions, enqueued, crashes>>

(* The row is locked and its status looked at again: a session that was    *)
(* completed meanwhile is left alone.                                      *)
LockSession(p) ==
  /\ pc[p] = "completing"
  /\ lock = Nobody
  /\ IF row.status = "completed"
       THEN /\ Finish(p, "done")
            /\ UNCHANGED lock
       ELSE /\ lock' = p
            /\ Goto(p, "locked")
            /\ UNCHANGED <<work, signal>>
  /\ UNCHANGED <<row, participation, log, base, conditions, enqueued, crashes>>

(* Wrong variant: nothing launches the post-session task. *)
CompleteSessionQuietly(p) ==
  /\ pc[p] = "locked"
  /\ base' = [base EXCEPT ![p] = Len(log)]
  /\ Goto(p, "written")
  /\ UNCHANGED <<row, participation, log, lock, work, signal, conditions, enqueued, crashes>>

(* The writes inside the transaction.  Saving the status fires the         *)
(* post_save handler, which launches the post-session task at once; a      *)
(* broker failure is swallowed.                                            *)
CompleteSession(p) ==
  /\ pc[p] = "locked"
  /\ base' = [base EXCEPT ![p] = Len(log)]
  /\ \/ enqueued' = enqueued + 1
     \/ BrokerMayFail /\ UNCHANGED enqueued
  /\ Goto(p, "written")
  /\ UNCHANGED <<row, participation, log, lock, work, signal, conditions, crashes>>

(* Wrong variant: the beat task abandons what it finds. *)
CommitAbandoned(p) ==
  /\ pc[p] = "written"
  /\ EndTransaction(p)
  /\ row' = [row EXCEPT !.status = IF p = Beat THEN "abandoned" ELSE "completed"]
  /\ participation' = "completed"
  /\ log' = Append(log, SessionEnded(signal[p]))
  /\ conditions' = Touched
  /\ Finish(p, "done")
  /\ UNCHANGED <<enqueued, crashes>>

(* The lifecycle event is inserted behind max(seq) and all becomes visible. *)
CommitCompletion(p) ==
  /\ pc[p] = "written"
  /\ EndTransaction(p)
  /\ IF base[p] = Len(log)
       THEN /\ row' = [row EXCEPT !.status = "completed"]
            /\ participation' = "completed"
            /\ log' = Append(log, SessionEnded(signal[p]))
            /\ conditions' = Touched
            /\ Finish(p, "done")
       ELSE /\ Finish(p, "failed")
            /\ UNCHANGED <<row, participation, log, conditions>>
  /\ UNCHANGED <<enqueued, crashes>>

(* Wrong variant: only sessions that were set active are looked for. *)
FindStuckActive ==
  /\ pc[Beat] = "idle"
  /\ row.status = "active"
  /\ "stale" \in conditions
  /\ signal' = [signal EXCEPT ![Beat] = "max_duration"]
  /\ Goto(Beat, "completing")
  /\ UNCHANGED <<row, participation, log, lock, work, base, conditions, enqueued, crashes>>

(* abandon_stuck_sessions: the query finds the session among the stuck     *)
(* ones; complete_session then only looks at the status again.             *)
FindStuck ==
  /\ pc[Beat] = "idle"
  /\ row.status = "pending"
  /\ "stale" \in conditions
  /\ signal' = [signal EXCEPT ![Beat] = "max_duration"]
  /\ Goto(Beat, "completing")
  /\ UNCHANGED <<row, participation, log, lock, work, base, conditions, enqueued, crashes>>

-----------------------------------------------------------------------------
(* The voice connection's end: _persist_session_artifacts *)

(* Turns whose reply the transcript recorder may have heard to its end. *)
Spoken == {t \in Turn : pc[t] \notin {"idle", "deciding", "failed", "crashed"}}

(* The row is read; metrics and conversation go into moderator_state, the  *)
(* recorder's exchanges behind the transcript.                             *)
ReadForPersist(heard) ==
  /\ pc[Voice] = "idle"
  /\ heard \subseteq Spoken
  /\ work' = [work EXCEPT ![Voice].row =
                [row EXCEPT !.extra = TRUE,
                            !.transcript = @ \o SetToSeq(heard)]]
  /\ Goto(Voice, "persisting")
  /\ UNCHANGED <<row, participation, log, lock, base, signal, conditions,
                 enqueued, crashes>>

(* Wrong variant: the whole row that was read is written back. *)
WriteWholeRow ==
  /\ pc[Voice] = "persisting"
  /\ lock = Nobody
  /\ row' = work[Voice].row
  /\ conditions' = Touched
  /\ Finish(Voice, "done")
  /\ UNCHANGED <<participation, log, lock, base, enqueued, crashes>>

(* ... and three columns are written, whatever they hold by now. *)
WriteArtifacts ==
  LET r == work[Voice].row
  IN  /\ pc[Voice] = "persisting"
      /\ lock = Nobody
      /\ row' = [row EXCEPT !.state = r.state, !.extra = r.extra,
                            !.transcript = r.transcript]
      /\ conditions' = Touched
      /\ Finish(Voice, "done")
      /\ UNCHANGED <<participation, log, lock, base, enqueued, crashes>>

-----------------------------------------------------------------------------
(* The environment *)

Arise(c) ==
  /\ c \notin conditions
  /\ c = "silent" => log # <<>>
  /\ conditions' = conditions \cup {c}
  /\ UNCHANGED <<row, participation, log, lock, pc, work, base, signal,
                 enqueued, crashes>>

(* A worker dies; its open transaction rolls back. *)
Crash(p) ==
  /\ pc[p] \notin Finished \cup {"idle"}
  /\ crashes < MaxCrashes
  /\ crashes' = crashes + 1
  /\ IF lock = p THEN EndTransaction(p) ELSE UNCHANGED <<lock, base>>
  /\ Finish(p, "crashed")
  /\ UNCHANGED <<row, participation, log, conditions, enqueued>>

-----------------------------------------------------------------------------

TurnStep(t) ==
  \/ \E d \in LLMDecisions : Decide(t, d)
  \/ Save(t)
  \/ BeginAppend(t)
  \/ CommitAppend(t)
  \/ CheckClosure(t)

CompletionStep(p) == LockSession(p) \/ CompleteSession(p) \/ CommitCompletion(p)

Next ==
  \/ \E t \in Turn : Load(t) \/ TurnStep(t) \/ Interrupt(t)
  \/ \E p \in Turn \cup {Beat} : CompletionStep(p)
  \/ FindStuck
  \/ \E heard \in SUBSET Turn : ReadForPersist(heard)
  \/ WriteArtifacts
  \/ \E c \in Conditions : Arise(c)
  \/ \E p \in Process : Crash(p)

(* A turn that is under way goes on, LLM calls answer or fail, Celery beat *)
(* keeps ticking and time passes.  Participants need not write.            *)
Fairness ==
  /\ \A t \in Turn : WF_vars(TurnStep(t))
  /\ \A p \in Turn \cup {Beat} : WF_vars(CompletionStep(p))
  /\ WF_vars(FindStuck)
  /\ WF_vars(Arise("stale"))
  /\ WF_vars(WriteArtifacts)

Spec == Init /\ [][Next]_vars

FairSpec == Spec /\ Fairness

-----------------------------------------------------------------------------
(* Properties *)

TypeOK ==
  /\ row \in Row
  /\ participation \in {"interviewing", "completed"}
  /\ log \in Seq(Event)
  /\ lock \in Process \cup {Nobody}
  /\ pc \in [Process -> Step]
  /\ work \in [Process -> Work]
  /\ base \in [Process -> Nat]
  /\ signal \in [Process -> Reason \cup {NoReason}]
  /\ conditions \subseteq Condition
  /\ enqueued \in Nat
  /\ crashes \in Nat

IsEnd(e) == e.kind = "session_lifecycle"

(* Whatever turns, beat tasks and crashes do to each other, a session ends *)
(* once: its status, its participation's status and its one lifecycle      *)
(* event change together (complete_session's re-check under the row lock). *)
EndedOnce ==
  /\ row.status = "completed" <=> \E i \in DOMAIN log : IsEnd(log[i])
  /\ row.status = participation \/ {row.status, participation} = {"pending", "interviewing"}
  /\ \A i, j \in DOMAIN log : IsEnd(log[i]) /\ IsEnd(log[j]) => i = j

(* The sequence number read in an append or a completion is still the last *)
(* one when the insert happens: no writer runs into unique (session, seq)  *)
(* (the row lock of append_event and append_events).                       *)
NoSeqConflict ==
  \A p \in Process : pc[p] \in {"appending", "written"} => base[p] = Len(log)

(* Preset and dynamic probes a question allows in one visit: Rule 1b asks  *)
(* for one preset probe even when max_probes is 0.                         *)
PresetCap(q) ==
  CASE Policy[q] = "none"  -> 0
    [] Policy[q] = "light" -> MaxProbes[q]
    [] Policy[q] = "deep"  -> IF MaxProbes[q] = 0 THEN 1 ELSE MaxProbes[q]

DynamicCap(q) ==
  IF Policy[q] # "none" /\ Dynamic[q].enabled THEN Dynamic[q].max_extra_rounds ELSE 0

WithinCaps(s) ==
  \A q \in Question : s.followups[q] <= PresetCap(q) /\ s.dynamic[q] <= DynamicCap(q)

(* The saved state never shows more probes on a question than the          *)
(* researcher allows, whatever the LLM decides and however turns           *)
(* overlap (validate_decision, then _apply_decision_to_state).             *)
ProbesWithinCaps == WithinCaps(row.state)

(* A completed session has had its post-session task launched              *)
(* (_schedule_transcript_cleanup), when the broker is up.                  *)
CompletedIsProcessed == row.status = "completed" => enqueued > 0

(* The caches against the log, when no turn is between saving the row and  *)
(* logging its events: replaying the log of a running session gives the    *)
(* very state the row caches (reconstruct_state).                          *)
Settled == \A t \in Turn : pc[t] \notin {"saved", "appending"}

CacheMatchesLog ==
  Settled /\ row.status = "pending" => ReconstructState(log) = row.state

UserTurns == {i \in DOMAIN log : log[i].kind = "user_turn"}

(* The cached transcript has the exchanges of the log, each once and in    *)
(* the log's order (stream_turn appends to both).                          *)
TranscriptMatchesLog ==
  Settled =>
    /\ Len(row.transcript) = Cardinality(UserTurns)
    /\ \A i \in UserTurns :
         row.transcript[Cardinality({j \in UserTurns : j <= i})] = log[i].turn

(* The exchanges before the end that left the session in closing. *)
ClosingExchanges ==
  {i \in DOMAIN log :
     /\ log[i].kind = "state_transition"
     /\ log[i].state.phase = "closing"
     /\ \A j \in 1 .. i : ~IsEnd(log[j])}

(* Each decision to close seeds the grace again (state.py:118). *)
Closes(e) == e.kind = "decision" /\ e.decision.action = "close"

SinceLastClose ==
  {i \in ClosingExchanges : \A j \in DOMAIN log : Closes(log[j]) => j < i}

(* The exchange that opens the closing grace is followed by at most        *)
(* GraceRounds more before the session is hard-closed (state.py:37),       *)
(* unless the LLM decides to close once more.                              *)
GraceIsBounded == Cardinality(SinceLastClose) <= 1 + GraceRounds

(* A session ended by close_decision has given the participant the whole   *)
(* grace (check_completion holds back signal A during the grace).          *)
GraceIsGiven ==
  \A i \in DOMAIN log :
    IsEnd(log[i]) /\ log[i].reason = "close_decision"
      => Cardinality(ClosingExchanges) > GraceRounds

(* The lifecycle every reader relies on is what these processes implement. *)
Lifecycle == INSTANCE SessionLifecycle WITH status <- row.status, events <- log

ImplementsLifecycle == Lifecycle!Spec

(* A session nobody finishes is completed by the beat task in the end,     *)
(* whichever workers die on the way (abandon_stuck_sessions).              *)
EventuallyCompleted == <>(row.status = "completed")

(* Every turn that got past its LLM call ends: no row lock is left behind  *)
(* by a turn, a completion, an early return or a dead worker.              *)
TurnsTerminate ==
  \A t \in Turn : pc[t] = "deciding" ~> pc[t] \in Finished

-----------------------------------------------------------------------------
(* What the documentation says and the code does not do *)

(* A turn always finds a moderator_state it can load, also after a voice   *)
(* connection has ended (voice/processors/moderator.py:85-86).             *)
NextTurnLoads == \A t \in Turn : pc[t] # "failed"

=============================================================================
