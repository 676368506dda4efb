---------------------- MODULE ConductorSession_proofs -----------------------
(***************************************************************************)
(* What TLAPS proves about the event log, the end of a session, the probe  *)
(* caps and the abstract lifecycle, for every guide, every set of messages,*)
(* every LLM and every bound.  The invariant IInv is inductive, and with it*)
(* each of its parts holds.  What the caches and the closing grace promise *)
(* is lost in named steps only (Parting, Hurrying): CacheInv and GraceInv  *)
(* are kept by every other step.                                           *)
(***************************************************************************)
EXTENDS ConductorSession, Lemmas

-----------------------------------------------------------------------------
(* The operators the model is built from stay within their types. *)

(* The guide's cursor stands on a question, or on none. *)
LEMMA GuideTypes ==
  /\ FirstQuestion \in Cursor
  /\ \A q \in Cursor : NextQuestion(q) \in Cursor
  /\ \A q : InGuide(q) => q \in Question
<1>1. FirstQuestion \in Cursor
  BY GuideAssumption DEF FirstQuestion, Cursor
<1>2. \A q \in Cursor : NextQuestion(q) \in Cursor
  <2> SUFFICES ASSUME NEW q \in Cursor PROVE NextQuestion(q) \in Cursor
    OBVIOUS
  <2>1. CASE q = NoQuestion
    BY <1>1, <2>1 DEF NextQuestion
  <2>2. CASE q # NoQuestion /\ After(q) = {}
    BY <2>2 DEF NextQuestion, Cursor
  <2>3. CASE q # NoQuestion /\ After(q) # {}
    <3> DEFINE i == CHOOSE k \in After(q) : TRUE
    <3>1. i \in After(q)
      BY <2>3
    <3>2. i \in DOMAIN Guide
      BY <3>1 DEF After
    <3>3. Guide[i] \in Question
      BY <3>2, GuideAssumption
    <3> QED
      BY <2>3, <3>3 DEF NextQuestion, Cursor
  <2> QED
    BY <2>1, <2>2, <2>3
<1>3. \A q : InGuide(q) => q \in Question
  BY GuideAssumption DEF InGuide
<1> QED
  BY <1>1, <1>2, <1>3

(* A decision to move on is a decision. *)
LEMMA MoveOnType ==
  ASSUME NEW q \in Cursor PROVE MoveOn(q) \in Decision
BY DEF MoveOn, Decision, Action, ProbeKind, Cursor

(* So is one to ask a preset follow-up. *)
LEMMA PresetFollowupType == PresetFollowup \in Decision
BY DEF PresetFollowup, Decision, Action, ProbeKind

(* The validator turns a decision into a decision. *)
LEMMA ValidateType ==
  ASSUME NEW d \in Decision \cup {NoDecision}, NEW q \in Cursor,
         NEW probesDone \in Nat, NEW dynamicDone \in Nat
  PROVE  ValidateDecision(d, q, probesDone, dynamicDone) \in Decision \cup {NoDecision}
<1>1. MoveOn(NextQuestion(q)) \in Decision
  BY GuideTypes, MoveOnType
<1> QED
  BY <1>1, PresetFollowupType DEF ValidateDecision

(* The fields of a state have their types. *)
LEMMA StateFields ==
  ASSUME NEW s \in State
  PROVE  /\ s.phase \in Phase
         /\ s.turn_count \in Nat
         /\ s.rounds \in Nat
         /\ s.current \in Cursor
         /\ s.followups \in [Cursor -> Nat]
         /\ s.dynamic \in [Cursor -> Nat]
BY DEF State

(* The updates that occur in the code keep a state a state. *)
LEMMA StateUpdates ==
  ASSUME NEW s \in State
  PROVE  /\ \A n \in Nat : [s EXCEPT !.turn_count = n] \in State
         /\ \A n \in Nat : [s EXCEPT !.rounds = n] \in State
         /\ \A q \in Cursor, n \in Nat : [s EXCEPT !.followups[q] = n] \in State
         /\ \A q \in Cursor, n \in Nat : [s EXCEPT !.dynamic[q] = n] \in State
         /\ \A a \in Action : [s EXCEPT !.last_action = a] \in State
BY DEF State

(* The solver wants the new value of a counter as one term. *)
LEMMA CounterTypes ==
  ASSUME NEW s \in State
  PROVE  /\ [s EXCEPT !.turn_count = @ + 1] \in State
         /\ \A q \in Cursor : MarkFollowupUsed(s, q) \in State
         /\ \A q \in Cursor : MarkDynamicProbeUsed(s, q) \in State
         /\ ConsumeClosingRound(s) \in State
<1>1. [s EXCEPT !.turn_count = @ + 1] \in State
  <2> DEFINE n == s.turn_count + 1
  <2>1. n \in Nat
    BY StateFields
  <2> HIDE DEF n
  <2>2. [s EXCEPT !.turn_count = n] \in State
    BY <2>1, StateUpdates
  <2> QED
    BY <2>2 DEF n
<1>2. ASSUME NEW q \in Cursor PROVE MarkFollowupUsed(s, q) \in State
  <2> DEFINE n == s.followups[q] + 1
  <2>1. s.followups[q] \in Nat
    BY StateFields
  <2>2. n \in Nat
    BY <2>1
  <2>3. MarkFollowupUsed(s, q) = [s EXCEPT !.followups[q] = n]
    BY DEF MarkFollowupUsed
  <2> HIDE DEF n
  <2> QED
    BY <2>2, <2>3, StateUpdates
<1>3. ASSUME NEW q \in Cursor PROVE MarkDynamicProbeUsed(s, q) \in State
  <2> DEFINE n == s.dynamic[q] + 1
  <2>1. s.dynamic[q] \in Nat
    BY StateFields
  <2>2. n \in Nat
    BY <2>1
  <2>3. MarkDynamicProbeUsed(s, q) = [s EXCEPT !.dynamic[q] = n]
    BY DEF MarkDynamicProbeUsed
  <2> HIDE DEF n
  <2> QED
    BY <2>2, <2>3, StateUpdates
<1>4. ConsumeClosingRound(s) \in State
  <2> DEFINE n == s.rounds - 1
  <2>1. s.rounds > 0 => n \in Nat
    BY StateFields
  <2>2. \/ ConsumeClosingRound(s) = s
        \/ s.rounds > 0 /\ ConsumeClosingRound(s) = [s EXCEPT !.rounds = n]
    BY DEF ConsumeClosingRound
  <2> HIDE DEF n
  <2> QED
    BY <2>1, <2>2, StateUpdates
<1> QED
  BY <1>1, <1>2, <1>3, <1>4

(* Going to a question is an effect on a state. *)
LEMMA GoToType ==
  ASSUME NEW s \in State, NEW q \in Cursor PROVE GoTo(s, q) \in State
BY DEF GoTo, State

(* Resolving the next question gives a state. *)
LEMMA ResolveType ==
  ASSUME NEW s \in State PROVE ResolveState(s) \in State
BY GuideTypes, GoToType DEF ResolveState

(* The effect of a decision is a state. *)
LEMMA EffectType ==
  ASSUME NEW s \in State, NEW d \in Decision PROVE Effect(s, d) \in State
<1> DEFINE t == MarkAnswered(s, s.current)
<1>0. s.current \in Cursor /\ d.next \in Cursor
  BY DEF State, Decision, Cursor
<1>1. t \in State
  BY <1>0 DEF MarkAnswered, State
<1>2. MarkFollowupUsed(s, s.current) \in State /\ MarkDynamicProbeUsed(s, s.current) \in State
  BY <1>0, CounterTypes
<1>3. \A u \in State : EnterClosing(u) \in State
  BY DEF EnterClosing, State, Phase, GraceRounds
<1>4. GoTo(t, d.next) \in State
  BY <1>0, <1>1, GoToType
<1>5. Advance(s, d) \in State
  BY <1>1, <1>3, <1>4 DEF Advance
<1>6. Followup(s, d) \in State
  BY <1>2 DEF Followup
<1>7. d.action \in {"followup", "move_on", "close", "clarify"}
  BY DEF Decision, Action
<1> QED
  BY <1>3, <1>5, <1>6, <1>7 DEF Effect

(* Applying a decision to a state gives a state. *)
LEMMA ApplyType ==
  ASSUME NEW s \in State, NEW d \in Decision \cup {NoDecision}
  PROVE  ApplyDecision(s, d) \in State
<1> DEFINE counted == [s EXCEPT !.turn_count = @ + 1]
           noted   == [counted EXCEPT !.last_action = d.action]
           decided == IF d = NoDecision THEN counted ELSE Effect(noted, d)
<1>1. counted \in State
  BY CounterTypes
<1>2. decided \in State
  <2>1. CASE d = NoDecision
    BY <1>1, <2>1
  <2>2. CASE d # NoDecision
    <3>1. d \in Decision /\ d.action \in Action \cup {""}
      BY <2>2 DEF Decision
    <3>2. noted \in State
      BY <1>1, <3>1 DEF State
    <3> HIDE DEF noted, counted
    <3> QED
      BY <2>2, <3>1, <3>2, EffectType
  <2> QED
    BY <2>1, <2>2
<1>3. \A u \in State : ConsumeClosingRound(u) \in State
  BY CounterTypes
<1>4. ApplyDecision(s, d) = IF s.phase = "closing" THEN ConsumeClosingRound(decided) ELSE decided
  BY DEF ApplyDecision
<1> HIDE DEF decided
<1> QED
  BY <1>2, <1>3, <1>4

(* A turn appends a sequence of events. *)
LEMMA TurnEventsType ==
  ASSUME NEW t \in Turn, NEW d \in Decision \cup {NoDecision}, NEW s \in State
  PROVE  TurnEvents(t, d, s) \in Seq(Event)
<1>1. UserTurn(t) \in Event /\ ModelReply(t) \in Event
  BY DEF UserTurn, ModelReply, Event
<1>2. d # NoDecision => DecisionMade(d) \in Event
  BY DEF DecisionMade, Event
<1>3. StateTransition(s) \in Event
  BY DEF StateTransition, Event
<1>4. (IF d = NoDecision THEN <<>> ELSE <<DecisionMade(d)>>) \in Seq(Event)
  BY <1>2
<1>5. <<UserTurn(t), ModelReply(t)>> \in Seq(Event)
  BY <1>1
<1>6. <<StateTransition(s)>> \in Seq(Event)
  BY <1>3
<1> QED
  BY <1>4, <1>5, <1>6 DEF TurnEvents

(* The check for completion gives a reason, or none. *)
LEMMA CompletionType ==
  ASSUME NEW s, NEW decisions, NEW events, NEW now
  PROVE  CheckCompletion(s, decisions, events, now) \in Reason \cup {NoReason}
BY DEF CheckCompletion, Reason

-----------------------------------------------------------------------------
(* Types *)

(* Turns, completions and voice loops are different processes. *)
LEMMA ProcessFacts ==
  /\ Beat \in Process /\ Voice \in Process
  /\ \A t \in Turn : t \in Process /\ t # Beat /\ t # Voice
  /\ \A p \in Process : p # Nobody
BY SessionAssumption DEF Process

(* What a process holds when it is idle has the types. *)
LEMMA EmptyTypes == EmptyRow \in Row /\ NoWork \in Work
<1>1. EmptyState \in State
  BY DEF EmptyState, State, Phase, Cursor
<1>2. EmptyRow \in Row
  BY <1>1 DEF EmptyRow, Row
<1> QED
  BY <1>1, <1>2 DEF NoWork, Work

(* A process that finishes is idle. *)
LEMMA FinishType ==
  ASSUME TypeOK, NEW p \in Process, NEW step \in Step, Finish(p, step)
  PROVE  /\ pc' \in [Process -> Step]
         /\ work' \in [Process -> Work]
         /\ signal' \in [Process -> Reason \cup {NoReason}]
<1>1. (IF p = Beat THEN "idle" ELSE step) \in Step
  BY DEF Step
<1> QED
  BY <1>1, EmptyTypes DEF Finish, Goto, TypeOK

(* A transaction ends with the lock free or held by a process. *)
LEMMA EndTransactionType ==
  ASSUME TypeOK, NEW p \in Process, EndTransaction(p)
  PROVE  lock' \in Process \cup {Nobody} /\ base' \in [Process -> Nat]
BY DEF EndTransaction, TypeOK

(* What a completion reads is among the conditions. *)
LEMMA TouchedType == TypeOK => Touched \subseteq Condition
BY DEF TypeOK, Touched

(* A session begins with values of the types. *)
LEMMA InitType == Init => TypeOK
<1> SUFFICES ASSUME Init PROVE TypeOK
  OBVIOUS
<1>1. pc \in [Process -> Step]
  BY DEF Init, Step
<1> QED
  BY <1>1, EmptyTypes DEF Init, TypeOK, Condition

(* Loading a turn keeps the types. *)
LEMMA LoadType ==
  ASSUME TypeOK, NEW t \in Turn, Load(t) PROVE TypeOK'
<1>1. t \in Process
  BY ProcessFacts
<1>2. CASE row.extra
  <2>1. Finish(t, "failed")
    BY <1>2 DEF Load
  <2> QED
    BY <1>1, <2>1, FinishType DEF Load, TypeOK, Step
<1>3. CASE ~row.extra
  <2>1. row \in Row /\ row.state \in State
    BY DEF TypeOK, Row
  <2>2. [row |-> row, state |-> ResolveState(row.state), decision |-> NoDecision] \in Work
    BY <2>1, ResolveType DEF Work
  <2>3. work' \in [Process -> Work]
    BY <1>1, <1>3, <2>2 DEF Load, TypeOK
  <2>4. pc' \in [Process -> Step]
    BY <1>1, <1>3 DEF Load, Goto, TypeOK, Step
  <2> QED
    BY <1>3, <2>3, <2>4 DEF Load, TypeOK
<1> QED
  BY <1>2, <1>3

(* So does deciding it, *)
LEMMA DecideType ==
  ASSUME TypeOK, NEW t \in Turn, NEW d \in LLMDecisions, Decide(t, d) PROVE TypeOK'
<1> DEFINE s == work[t].state
           v == ValidateDecision(d, CurrentQuestion(s), s.followups[s.current],
                                 s.dynamic[s.current])
<1>1. t \in Process
  BY ProcessFacts
<1>2. s \in State
  BY <1>1 DEF TypeOK, Work
<1>3. CurrentQuestion(s) \in Cursor
  BY <1>2, StateFields DEF CurrentQuestion, Cursor
<1>4. s.followups[s.current] \in Nat /\ s.dynamic[s.current] \in Nat
  BY <1>2, StateFields
<1>5. v \in Decision \cup {NoDecision}
  BY <1>3, <1>4, ValidateType, SessionAssumption
<1>6. work' = [work EXCEPT ![t].decision = v]
  BY DEF Decide
<1> HIDE DEF v, s
<1>7. work' \in [Process -> Work]
  BY <1>1, <1>5, <1>6 DEF TypeOK, Work
<1>8. pc' \in [Process -> Step]
  BY <1>1 DEF Decide, Goto, TypeOK, Step
<1> QED
  BY <1>7, <1>8 DEF Decide, TypeOK

(* saving the cache, *)
LEMMA SaveType ==
  ASSUME TypeOK, NEW t \in Turn, Save(t) PROVE TypeOK'
<1> DEFINE w == work[t]
           s == ApplyDecision(w.state, w.decision)
           transcript == Append(w.row.transcript, t)
           decisions == IF w.decision = NoDecision
                          THEN w.row.decisions
                          ELSE Append(w.row.decisions, w.decision.action)
<1>1. t \in Process
  BY ProcessFacts
<1>2. w \in Work /\ w.row \in Row
  BY <1>1 DEF TypeOK, Work
<1>3. s \in State
  BY <1>2, ApplyType DEF Work
<1>4. transcript \in Seq(Turn)
  BY <1>2 DEF Row
<1>5. decisions \in Seq(Action)
  <2>1. w.row.decisions \in Seq(Action)
    BY <1>2 DEF Row
  <2>2. w.decision # NoDecision => w.decision.action \in Action
    BY <1>2 DEF Work, Decision
  <2> QED
    BY <2>1, <2>2
<1>6. /\ row' = [row EXCEPT !.state = s, !.extra = FALSE,
                            !.transcript = transcript, !.decisions = decisions]
      /\ work' = [work EXCEPT ![t].state = s]
  BY DEF Save
<1> HIDE DEF s, transcript, decisions
<1>7. row' \in Row
  BY <1>3, <1>4, <1>5, <1>6 DEF TypeOK, Row
<1>8. work' \in [Process -> Work]
  BY <1>1, <1>3, <1>6 DEF TypeOK, Work
<1>9. pc' \in [Process -> Step]
  BY <1>1 DEF Save, Goto, TypeOK, Step
<1> QED
  BY <1>7, <1>8, <1>9, TouchedType DEF Save, TypeOK

(* appending its events, *)
LEMMA AppendTypes ==
  ASSUME TypeOK, NEW t \in Turn
  PROVE  /\ BeginAppend(t) => TypeOK'
         /\ CommitAppend(t) => TypeOK'
         /\ CheckClosure(t) => TypeOK'
<1>0. t \in Process
  BY ProcessFacts
<1>1. ASSUME BeginAppend(t) PROVE TypeOK'
  <2>1. Len(log) \in Nat
    BY DEF TypeOK
  <2>2. base' \in [Process -> Nat] /\ lock' \in Process \cup {Nobody}
    BY <1>0, <1>1, <2>1 DEF BeginAppend, TypeOK
  <2>3. pc' \in [Process -> Step]
    BY <1>0, <1>1 DEF BeginAppend, Goto, TypeOK, Step
  <2> QED
    BY <1>1, <2>2, <2>3 DEF BeginAppend, TypeOK
<1>2. ASSUME CommitAppend(t) PROVE TypeOK'
  <2> DEFINE batch == TurnEvents(t, work[t].decision, work[t].state)
  <2>1. lock' \in Process \cup {Nobody} /\ base' \in [Process -> Nat]
    BY <1>0, <1>2, EndTransactionType DEF CommitAppend
  <2>2. CASE base[t] = Len(log)
    <3>1. work[t].decision \in Decision \cup {NoDecision} /\ work[t].state \in State
      BY <1>0 DEF TypeOK, Work
    <3>2. batch \in Seq(Event)
      BY <3>1, TurnEventsType
    <3>3. log' = log \o batch
      BY <1>2, <2>2 DEF CommitAppend
    <3> HIDE DEF batch
    <3>4. log' \in Seq(Event)
      BY <3>2, <3>3 DEF TypeOK
    <3>5. pc' \in [Process -> Step]
      BY <1>0, <1>2, <2>2 DEF CommitAppend, Goto, TypeOK, Step
    <3>6. conditions' \subseteq Condition
      BY <1>2, <2>2 DEF CommitAppend, TypeOK
    <3> QED
      BY <1>2, <2>1, <2>2, <3>4, <3>5, <3>6 DEF CommitAppend, TypeOK
  <2>3. CASE base[t] # Len(log)
    <3>1. Finish(t, "failed")
      BY <1>2, <2>3 DEF CommitAppend
    <3> QED
      BY <1>0, <1>2, <2>1, <2>3, <3>1, FinishType DEF CommitAppend, TypeOK, Step
  <2> QED
    BY <2>2, <2>3
<1>3. ASSUME CheckClosure(t) PROVE TypeOK'
  <2> DEFINE r == CheckCompletion(row.state, row.decisions, log, conditions)
  <2>1. r \in Reason \cup {NoReason}
    BY CompletionType
  <2> HIDE DEF r
  <2>2. CASE r = NoReason
    <3>1. Finish(t, "done")
      BY <1>3, <2>2 DEF CheckClosure, r
    <3> QED
      BY <1>0, <1>3, <3>1, FinishType DEF CheckClosure, TypeOK, Step
  <2>3. CASE r # NoReason
    <3>1. signal' = [signal EXCEPT ![t] = r] /\ Goto(t, "completing") /\ UNCHANGED work
      BY <1>3, <2>3 DEF CheckClosure, r
    <3>2. pc' \in [Process -> Step] /\ signal' \in [Process -> Reason \cup {NoReason}]
      BY <1>0, <2>1, <3>1 DEF Goto, TypeOK, Step
    <3> QED
      BY <1>3, <3>1, <3>2 DEF CheckClosure, TypeOK
  <2> QED
    BY <2>2, <2>3
<1> QED
  BY <1>1, <1>2, <1>3

(* a completion, *)
LEMMA CompletionTypes ==
  ASSUME TypeOK, NEW p \in Process
  PROVE  /\ LockSession(p) => TypeOK'
         /\ CompleteSession(p) => TypeOK'
         /\ CommitCompletion(p) /\ signal[p] # NoReason => TypeOK'
<1>1. ASSUME LockSession(p) PROVE TypeOK'
  <2>1. CASE row.status = "completed"
    <3>1. Finish(p, "done") /\ UNCHANGED lock
      BY <1>1, <2>1 DEF LockSession
    <3> QED
      BY <1>1, <3>1, FinishType DEF LockSession, TypeOK, Step
  <2>2. CASE row.status # "completed"
    <3>1. lock' = p /\ Goto(p, "locked") /\ UNCHANGED <<work, signal>>
      BY <1>1, <2>2 DEF LockSession
    <3>2. pc' \in [Process -> Step]
      BY <3>1 DEF Goto, TypeOK, Step
    <3> QED
      BY <1>1, <3>1, <3>2 DEF LockSession, TypeOK
  <2> QED
    BY <2>1, <2>2
<1>2. ASSUME CompleteSession(p) PROVE TypeOK'
  <2>1. Len(log) \in Nat /\ enqueued + 1 \in Nat
    BY DEF TypeOK
  <2>2. base' \in [Process -> Nat] /\ enqueued' \in Nat
    BY <1>2, <2>1 DEF CompleteSession, TypeOK
  <2>3. pc' \in [Process -> Step]
    BY <1>2 DEF CompleteSession, Goto, TypeOK, Step
  <2> QED
    BY <1>2, <2>2, <2>3 DEF CompleteSession, TypeOK
<1>3. ASSUME CommitCompletion(p), signal[p] # NoReason PROVE TypeOK'
  <2>1. lock' \in Process \cup {Nobody} /\ base' \in [Process -> Nat]
    BY <1>3, EndTransactionType DEF CommitCompletion
  <2>2. CASE base[p] = Len(log)
    <3>1. Finish(p, "done")
      BY <1>3, <2>2 DEF CommitCompletion
    <3> DEFINE e == SessionEnded(signal[p])
    <3>2. e \in Event
      BY <1>3 DEF TypeOK, SessionEnded, Event
    <3>3. log' \in Seq(Event)
      <4>1. log' = Append(log, e)
        BY <1>3, <2>2 DEF CommitCompletion
      <4> HIDE DEF e
      <4> QED
        BY <3>2, <4>1 DEF TypeOK
    <3>4. row' \in Row
      BY <1>3, <2>2 DEF CommitCompletion, TypeOK, Row
    <3> QED
      BY <1>3, <2>1, <2>2, <3>1, <3>3, <3>4, FinishType, TouchedType
         DEF CommitCompletion, TypeOK, Step
  <2>3. CASE base[p] # Len(log)
    <3>1. Finish(p, "failed")
      BY <1>3, <2>3 DEF CommitCompletion
    <3> QED
      BY <1>3, <2>1, <2>3, <3>1, FinishType DEF CommitCompletion, TypeOK, Step
  <2> QED
    BY <2>2, <2>3
<1> QED
  BY <1>1, <1>2, <1>3

(* (a set in some order is a sequence of its elements) *)
LEMMA SetToSeqType ==
  ASSUME NEW S \in SUBSET Turn PROVE SetToSeq(S) \in Seq(Turn)
<1>1. IsFiniteSet(S)
  BY TurnAssumption, FS_Subset
<1>2. Cardinality(S) \in Nat /\ Bijection(1 .. Cardinality(S), S) # {}
  BY <1>1, FS_CardinalityType DEF ExistsBijection
<1>3. \E f \in [1 .. Cardinality(S) -> S] : IsInjective(f)
  BY <1>2 DEF Bijection, Injection
<1>4. SetToSeq(S) \in [1 .. Cardinality(S) -> S]
  BY <1>3 DEF SetToSeq
<1> QED
  BY <1>2, <1>4

(* a voice loop, *)
LEMMA VoiceTypes ==
  ASSUME TypeOK
  PROVE  /\ \A heard \in SUBSET Turn : ReadForPersist(heard) => TypeOK'
         /\ WriteArtifacts => TypeOK'
<1>1. ASSUME NEW heard \in SUBSET Turn, ReadForPersist(heard) PROVE TypeOK'
  <2> DEFINE transcript == row.transcript \o SetToSeq(heard)
             copy == [row EXCEPT !.extra = TRUE, !.transcript = transcript]
  <2>1. transcript \in Seq(Turn)
    BY SetToSeqType DEF TypeOK, Row
  <2>2. work' = [work EXCEPT ![Voice].row = copy]
    BY <1>1 DEF ReadForPersist
  <2> HIDE DEF transcript
  <2>3. copy \in Row
    BY <2>1 DEF TypeOK, Row
  <2> HIDE DEF copy
  <2>4. work' \in [Process -> Work]
    BY <2>2, <2>3, ProcessFacts DEF TypeOK, Work
  <2>5. pc' \in [Process -> Step]
    BY <1>1, ProcessFacts DEF ReadForPersist, Goto, TypeOK, Step
  <2> QED
    BY <1>1, <2>4, <2>5 DEF ReadForPersist, TypeOK
<1>2. ASSUME WriteArtifacts PROVE TypeOK'
  <2> DEFINE w == work[Voice].row
  <2>1. w \in Row
    BY ProcessFacts DEF TypeOK, Work
  <2>2. row' = [row EXCEPT !.state = w.state, !.extra = w.extra, !.transcript = w.transcript]
    BY <1>2 DEF WriteArtifacts
  <2> HIDE DEF w
  <2>3. row' \in Row
    BY <2>1, <2>2 DEF TypeOK, Row
  <2>4. Finish(Voice, "done")
    BY <1>2 DEF WriteArtifacts
  <2> QED
    BY <1>2, <2>3, <2>4, FinishType, TouchedType, ProcessFacts DEF WriteArtifacts, TypeOK, Step
<1> QED
  BY <1>1, <1>2

(* and every other step. *)
LEMMA OtherTypes ==
  ASSUME TypeOK
  PROVE  /\ \A t \in Turn : Interrupt(t) => TypeOK'
         /\ FindStuck => TypeOK'
         /\ \A c \in Conditions : Arise(c) => TypeOK'
         /\ \A p \in Process : Crash(p) => TypeOK'
<1>1. ASSUME NEW t \in Turn, Interrupt(t) PROVE TypeOK'
  BY <1>1, FinishType, ProcessFacts DEF Interrupt, TypeOK, Step
<1>2. ASSUME FindStuck PROVE TypeOK'
  <2>1. pc' \in [Process -> Step] /\ signal' \in [Process -> Reason \cup {NoReason}]
    BY <1>2, ProcessFacts DEF FindStuck, Goto, TypeOK, Step, Reason
  <2> QED
    BY <1>2, <2>1 DEF FindStuck, TypeOK
<1>3. ASSUME NEW c \in Conditions, Arise(c) PROVE TypeOK'
  BY <1>3, SessionAssumption DEF Arise, TypeOK
<1>4. ASSUME NEW p \in Process, Crash(p) PROVE TypeOK'
  <2>1. Finish(p, "crashed")
    BY <1>4 DEF Crash
  <2>2. crashes' \in Nat
    BY <1>4 DEF Crash, TypeOK
  <2>3. lock' \in Process \cup {Nobody} /\ base' \in [Process -> Nat]
    BY <1>4, EndTransactionType DEF Crash, TypeOK
  <2> QED
    BY <1>4, <2>1, <2>2, <2>3, FinishType DEF Crash, TypeOK, Step
<1> QED
  BY <1>1, <1>2, <1>3, <1>4

-----------------------------------------------------------------------------
(* The inductive invariant *)

(* Who is about to complete the session knows why. *)
SignalInv ==
  \A p \in Process : pc[p] \in {"completing", "locked", "written"} => signal[p] # NoReason

(* Inside a transaction the row lock is held, so only one process is, and  *)
(* the status that complete_session checked is still what it was.          *)
LockInv ==
  /\ \A p \in Process : pc[p] \in InTransaction => lock = p
  /\ \A p \in Process : pc[p] \in {"locked", "written"} => row.status = "pending"

Core == TypeOK /\ SignalInv /\ LockInv /\ NoSeqConflict

IInv == Core /\ EndedOnce

(* The session begins with the invariant. *)
LEMMA InitInv == Init => IInv
<1> SUFFICES ASSUME Init PROVE IInv
  OBVIOUS
<1>1. TypeOK
  BY InitType
<1>2. \A p \in Process : pc[p] \in {"idle", "done"}
  BY DEF Init
<1>3. SignalInv /\ LockInv /\ NoSeqConflict
  BY <1>2 DEF SignalInv, LockInv, NoSeqConflict, InTransaction
<1>4. row.status = "pending" /\ participation = "interviewing" /\ log = <<>>
  BY DEF Init, EmptyRow
<1>5. EndedOnce
  BY <1>4 DEF EndedOnce
<1> QED
  BY <1>1, <1>3, <1>5 DEF IInv, Core

(* What a step by p leaves alone, and where p is after it. *)
Moves(p, steps) ==
  /\ \A q \in Process \ {p} : pc'[q] = pc[q] /\ signal'[q] = signal[q] /\ base'[q] = base[q]
  /\ pc'[p] \in steps

(* A process that finishes moves, and no other does. *)
LEMMA FinishMoves ==
  ASSUME TypeOK, NEW p \in Process, NEW step, Finish(p, step),
         \A q \in Process \ {p} : base'[q] = base[q]
  PROVE  Moves(p, {step, "idle"})
BY DEF Finish, Goto, Moves, TypeOK

(* Steps that end outside a transaction, with the lock free or as it was. *)
LEMMA OutsideStep ==
  ASSUME Core, NEW p \in Process, NEW steps, Moves(p, steps), UNCHANGED log,
         row'.status = row.status,
         steps \cap (InTransaction \cup {"completing"}) = {},
         \/ lock' = lock
         \/ lock = p
  PROVE  SignalInv' /\ LockInv' /\ NoSeqConflict'
<1>1. pc'[p] \notin InTransaction \cup {"completing"}
  BY DEF Moves
<1>2. SignalInv'
  BY <1>1 DEF Moves, Core, SignalInv, InTransaction
<1>3. ASSUME NEW q \in Process, pc'[q] \in InTransaction PROVE lock' = q
  BY <1>1, <1>3 DEF Moves, Core, LockInv
<1>4. ASSUME NEW q \in Process, pc'[q] \in {"locked", "written"} PROVE row'.status = "pending"
  BY <1>1, <1>4 DEF Moves, Core, LockInv, InTransaction
<1>5. NoSeqConflict'
  BY <1>1 DEF Moves, Core, NoSeqConflict, InTransaction
<1> QED
  BY <1>2, <1>3, <1>4, <1>5 DEF LockInv

(* A log without an end stays without one. *)
LEMMA QuietEnd ==
  ASSUME EndedOnce, UNCHANGED <<log, participation>>, row'.status = row.status
  PROVE  EndedOnce'
BY DEF EndedOnce

(* A transaction's end, by commit, when the others are all outside. *)
LEMMA OthersOutside ==
  ASSUME Core, NEW p \in Process, pc[p] \in InTransaction \/ lock = Nobody
  PROVE  \A q \in Process \ {p} : pc[q] \notin InTransaction
BY ProcessFacts DEF Core, LockInv

NoEnd(events) == \A i \in DOMAIN events : ~IsEnd(events[i])

(* Events without an end, after a log without an end *)
LEMMA NoEndConcat ==
  ASSUME NEW a \in Seq(Event), NEW b \in Seq(Event), NoEnd(a), NoEnd(b)
  PROVE  (a \o b) \in Seq(Event) /\ NoEnd(a \o b)
<1>1. (a \o b) \in Seq(Event)
  OBVIOUS
<1>2. ASSUME NEW i \in DOMAIN (a \o b) PROVE ~IsEnd((a \o b)[i])
  <2>1. Len(a) \in Nat /\ Len(b) \in Nat /\ i \in 1 .. (Len(a) + Len(b))
    OBVIOUS
  <2>2. CASE i <= Len(a)
    <3>1. i \in DOMAIN a /\ (a \o b)[i] = a[i]
      BY <2>1, <2>2
    <3> QED
      BY <3>1 DEF NoEnd
  <2>3. CASE i > Len(a)
    <3>1. i - Len(a) \in DOMAIN b /\ (a \o b)[i] = b[i - Len(a)]
      BY <2>1, <2>3
    <3> QED
      BY <3>1 DEF NoEnd
  <2> QED
    BY <2>1, <2>2, <2>3
<1> QED
  BY <1>1, <1>2 DEF NoEnd

(* The events of a turn do not end the session. *)
LEMMA TurnBatch ==
  ASSUME NEW t \in Turn, NEW d \in Decision \cup {NoDecision}, NEW s \in State
  PROVE  /\ TurnEvents(t, d, s) \in Seq(Event)
         /\ NoEnd(TurnEvents(t, d, s))
<1> DEFINE spoken  == <<UserTurn(t), ModelReply(t)>>
           decided == IF d = NoDecision THEN <<>> ELSE <<DecisionMade(d)>>
           left    == <<StateTransition(s)>>
<1>1. spoken \in Seq(Event) /\ NoEnd(spoken)
  BY DEF UserTurn, ModelReply, Event, NoEnd, IsEnd
<1>2. decided \in Seq(Event) /\ NoEnd(decided)
  <2>1. CASE d = NoDecision
    BY <2>1 DEF NoEnd
  <2>2. CASE d # NoDecision
    <3>1. DecisionMade(d) \in Event /\ ~IsEnd(DecisionMade(d))
      BY <2>2 DEF DecisionMade, Event, IsEnd
    <3>2. decided = <<DecisionMade(d)>>
      BY <2>2
    <3> QED
      BY <3>1, <3>2 DEF NoEnd
  <2> QED
    BY <2>1, <2>2
<1>3. left \in Seq(Event) /\ NoEnd(left)
  BY DEF StateTransition, Event, NoEnd, IsEnd
<1>4. TurnEvents(t, d, s) = (spoken \o decided) \o left
  BY DEF TurnEvents
<1> HIDE DEF spoken, decided, left
<1>5. (spoken \o decided) \in Seq(Event) /\ NoEnd(spoken \o decided)
  BY <1>1, <1>2, NoEndConcat
<1> QED
  BY <1>3, <1>4, <1>5, NoEndConcat

(* The log's positions after a batch without an ending. *)
LEMMA AppendingOthers ==
  ASSUME TypeOK, EndedOnce, NEW batch \in Seq(Event), log' = log \o batch,
         NoEnd(batch), UNCHANGED <<row, participation>>
  PROVE  EndedOnce'
<1>1. log \in Seq(Event) /\ Len(log) \in Nat /\ Len(batch) \in Nat
  BY DEF TypeOK
<1>2. DOMAIN log' = 1 .. Len(log) + Len(batch) /\ DOMAIN log = 1 .. Len(log)
  BY <1>1
<1>3. ASSUME NEW i \in DOMAIN log', IsEnd(log'[i]) PROVE i \in DOMAIN log
  <2> SUFFICES ASSUME i > Len(log) PROVE FALSE
    BY <1>1, <1>2
  <2>1. i - Len(log) \in DOMAIN batch /\ log'[i] = batch[i - Len(log)]
    BY <1>1, <1>2
  <2> QED
    BY <1>3, <2>1 DEF NoEnd
<1>4. \A i \in DOMAIN log : i \in DOMAIN log' /\ log'[i] = log[i]
  BY <1>1, <1>2
<1>5. \A i \in DOMAIN log' : IsEnd(log'[i]) => i \in DOMAIN log /\ IsEnd(log[i])
  BY <1>3, <1>4
<1>6. \A i \in DOMAIN log : IsEnd(log[i]) => i \in DOMAIN log' /\ IsEnd(log'[i])
  BY <1>4
<1> QED
  BY <1>5, <1>6 DEF EndedOnce

(* The first end that is appended is the only one. *)
LEMMA AppendingTheEnd ==
  ASSUME TypeOK, EndedOnce, row.status = "pending", NEW r,
         log' = Append(log, SessionEnded(r)),
         row' = [row EXCEPT !.status = "completed"], participation' = "completed"
  PROVE  EndedOnce'
<1>1. Len(log) \in Nat /\ DOMAIN log = 1 .. Len(log)
  BY DEF TypeOK
<1>2. DOMAIN log' = 1 .. Len(log) + 1 /\ log'[Len(log) + 1] = SessionEnded(r)
  BY <1>1 DEF TypeOK
<1>3. \A i \in DOMAIN log : log'[i] = log[i] /\ ~IsEnd(log[i])
  BY <1>1 DEF EndedOnce, TypeOK
<1>4. \A i \in DOMAIN log' : IsEnd(log'[i]) <=> i = Len(log) + 1
  BY <1>1, <1>2, <1>3 DEF IsEnd, SessionEnded
<1>5. row'.status = "completed"
  BY DEF TypeOK, Row
<1>6. Len(log) + 1 \in DOMAIN log'
  BY <1>1, <1>2
<1> QED
  BY <1>4, <1>5, <1>6 DEF EndedOnce

(* A turn's steps but for its append keep the invariant. *)
LEMMA TurnInv ==
  ASSUME IInv, NEW t \in Turn
  PROVE  /\ Load(t) => IInv'
         /\ \A d \in LLMDecisions : Decide(t, d) => IInv'
         /\ Interrupt(t) => IInv'
         /\ Save(t) => IInv'
<1>0. t \in Process /\ TypeOK /\ Core /\ EndedOnce
  BY ProcessFacts DEF IInv, Core
<1>1. ASSUME Load(t) PROVE IInv'
  <2>1. Moves(t, {"failed", "idle"}) \/ Moves(t, {"deciding"})
    <3>1. CASE row.extra
      <4>1. Finish(t, "failed") /\ UNCHANGED base
        BY <1>1, <3>1 DEF Load
      <4> QED
        BY <1>0, <4>1, FinishMoves
    <3>2. CASE ~row.extra
      BY <1>0, <1>1, <3>2 DEF Load, Goto, Moves, TypeOK
    <3> QED
      BY <3>1, <3>2
  <2>2. UNCHANGED <<row, log, participation, lock>>
    BY <1>1 DEF Load
  <2>3. SignalInv' /\ LockInv' /\ NoSeqConflict'
    BY <1>0, <2>1, <2>2, OutsideStep DEF InTransaction
  <2> QED
    BY <1>0, <1>1, <2>2, <2>3, LoadType, QuietEnd DEF IInv, Core
<1>2. ASSUME NEW d \in LLMDecisions, Decide(t, d) PROVE IInv'
  <2>1. Moves(t, {"speaking"})
    BY <1>0, <1>2 DEF Decide, Goto, Moves, TypeOK
  <2>2. UNCHANGED <<row, log, participation, lock>>
    BY <1>2 DEF Decide
  <2>3. SignalInv' /\ LockInv' /\ NoSeqConflict'
    BY <1>0, <2>1, <2>2, OutsideStep DEF InTransaction
  <2> QED
    BY <1>0, <1>2, <2>2, <2>3, DecideType, QuietEnd DEF IInv, Core
<1>3. ASSUME Interrupt(t) PROVE IInv'
  <2>1. Moves(t, {"interrupted", "idle"})
    BY <1>0, <1>3, FinishMoves DEF Interrupt
  <2>2. UNCHANGED <<row, log, participation, lock>>
    BY <1>3 DEF Interrupt
  <2>3. SignalInv' /\ LockInv' /\ NoSeqConflict'
    BY <1>0, <2>1, <2>2, OutsideStep DEF InTransaction
  <2> QED
    BY <1>0, <1>3, <2>2, <2>3, OtherTypes, QuietEnd DEF IInv, Core
<1>4. ASSUME Save(t) PROVE IInv'
  <2>1. Moves(t, {"saved"})
    BY <1>0, <1>4 DEF Save, Goto, Moves, TypeOK
  <2>2. UNCHANGED <<log, participation, lock>> /\ row'.status = row.status
    BY <1>0, <1>4 DEF Save, TypeOK, Row
  <2>3. SignalInv' /\ LockInv' /\ NoSeqConflict'
    BY <1>0, <2>1, <2>2, OutsideStep DEF InTransaction
  <2> QED
    BY <1>0, <1>4, <2>2, <2>3, SaveType, QuietEnd DEF IInv, Core
<1> QED
  BY <1>1, <1>2, <1>3, <1>4

(* So do the steps of a voice loop, *)
LEMMA VoiceInv ==
  ASSUME IInv
  PROVE  /\ \A heard \in SUBSET Turn : ReadForPersist(heard) => IInv'
         /\ WriteArtifacts => IInv'
<1>0. Voice \in Process /\ TypeOK /\ Core /\ EndedOnce
  BY ProcessFacts DEF IInv, Core
<1>1. ASSUME NEW heard \in SUBSET Turn, ReadForPersist(heard) PROVE IInv'
  <2>1. Moves(Voice, {"persisting"})
    BY <1>0, <1>1 DEF ReadForPersist, Goto, Moves, TypeOK
  <2>2. UNCHANGED <<row, log, participation, lock>>
    BY <1>1 DEF ReadForPersist
  <2>3. SignalInv' /\ LockInv' /\ NoSeqConflict'
    BY <1>0, <2>1, <2>2, OutsideStep DEF InTransaction
  <2> QED
    BY <1>0, <1>1, <2>2, <2>3, VoiceTypes, QuietEnd DEF IInv, Core
<1>2. ASSUME WriteArtifacts PROVE IInv'
  <2>1. Moves(Voice, {"done", "idle"})
    BY <1>0, <1>2, FinishMoves DEF WriteArtifacts
  <2>2. UNCHANGED <<log, participation, lock>> /\ row'.status = row.status
    BY <1>0, <1>2 DEF WriteArtifacts, TypeOK, Row
  <2>3. SignalInv' /\ LockInv' /\ NoSeqConflict'
    BY <1>0, <2>1, <2>2, OutsideStep DEF InTransaction
  <2> QED
    BY <1>0, <1>2, <2>2, <2>3, VoiceTypes, QuietEnd DEF IInv, Core
<1> QED
  BY <1>1, <1>2

(* those of the environment: conditions, crashes, the search for stuck sessions, *)
LEMMA EnvironmentInv ==
  ASSUME IInv
  PROVE  /\ \A c \in Conditions : Arise(c) => IInv'
         /\ \A p \in Process : Crash(p) => IInv'
         /\ FindStuck => IInv'
<1>0. TypeOK /\ Core /\ EndedOnce
  BY DEF IInv, Core
<1>1. ASSUME NEW c \in Conditions, Arise(c) PROVE IInv'
  <2>1. UNCHANGED <<row, log, participation, lock, pc, signal, base>>
    BY <1>1 DEF Arise
  <2>2. SignalInv' /\ LockInv' /\ NoSeqConflict'
    BY <1>0, <2>1 DEF Core, SignalInv, LockInv, NoSeqConflict
  <2> QED
    BY <1>0, <1>1, <2>1, <2>2, OtherTypes, QuietEnd DEF IInv, Core
<1>2. ASSUME NEW p \in Process, Crash(p) PROVE IInv'
  <2>1. UNCHANGED <<row, log, participation>> /\ Finish(p, "crashed")
    BY <1>2 DEF Crash
  <2>2. \A q \in Process \ {p} : base'[q] = base[q]
    BY <1>0, <1>2 DEF Crash, EndTransaction, TypeOK
  <2>3. lock' = lock \/ lock = p
    BY <1>2 DEF Crash
  <2>4. Moves(p, {"crashed", "idle"})
    BY <1>0, <2>1, <2>2, FinishMoves
  <2>5. SignalInv' /\ LockInv' /\ NoSeqConflict'
    BY <1>0, <2>1, <2>3, <2>4, OutsideStep DEF InTransaction
  <2> QED
    BY <1>0, <1>2, <2>1, <2>5, OtherTypes, QuietEnd DEF IInv, Core
<1>3. ASSUME FindStuck PROVE IInv'
  <2>1. UNCHANGED <<row, log, participation, lock, base>>
    BY <1>3 DEF FindStuck
  <2>2. /\ pc' = [pc EXCEPT ![Beat] = "completing"]
        /\ signal' = [signal EXCEPT ![Beat] = "max_duration"]
    BY <1>3 DEF FindStuck, Goto
  <2>3. SignalInv' /\ LockInv' /\ NoSeqConflict'
    BY <1>0, <2>1, <2>2
       DEF Core, SignalInv, LockInv, NoSeqConflict, TypeOK, InTransaction, NoReason
  <2> QED
    BY <1>0, <1>3, <2>1, <2>3, OtherTypes, QuietEnd DEF IInv, Core
<1> QED
  BY <1>1, <1>2, <1>3

(* the append of a turn, *)
LEMMA AppendInv ==
  ASSUME IInv, NEW t \in Turn
  PROVE  /\ BeginAppend(t) => IInv'
         /\ CommitAppend(t) => IInv'
         /\ CheckClosure(t) => IInv'
<1>0. t \in Process /\ TypeOK /\ Core /\ EndedOnce
  BY ProcessFacts DEF IInv, Core
<1>1. ASSUME BeginAppend(t) PROVE IInv'
  <2>1. UNCHANGED <<row, log, participation, signal>> /\ lock' = t
    BY <1>1 DEF BeginAppend
  <2>2. pc' = [pc EXCEPT ![t] = "appending"] /\ base' = [base EXCEPT ![t] = Len(log)]
    BY <1>1 DEF BeginAppend, Goto
  <2>3. \A q \in Process \ {t} : pc[q] \notin InTransaction
    BY <1>0, <1>1, OthersOutside DEF BeginAppend
  <2>4. SignalInv'
    BY <1>0, <2>1, <2>2 DEF Core, SignalInv, TypeOK
  <2>5. LockInv'
    BY <1>0, <2>1, <2>2, <2>3 DEF Core, LockInv, TypeOK, InTransaction
  <2>6. NoSeqConflict'
    BY <1>0, <2>1, <2>2, <2>3 DEF Core, NoSeqConflict, TypeOK, InTransaction
  <2> QED
    BY <1>0, <1>1, <2>1, <2>4, <2>5, <2>6, AppendTypes, QuietEnd DEF IInv, Core
<1>2. ASSUME CommitAppend(t) PROVE IInv'
  <2> DEFINE batch == TurnEvents(t, work[t].decision, work[t].state)
  <2>1. base[t] = Len(log) /\ pc[t] = "appending" /\ lock' = Nobody
    BY <1>0, <1>2 DEF CommitAppend, EndTransaction, Core, NoSeqConflict
  <2>2. log' = log \o batch /\ UNCHANGED <<row, participation, signal>>
    BY <1>2, <2>1 DEF CommitAppend
  <2>3. pc' = [pc EXCEPT ![t] = "logged"]
    BY <1>2, <2>1 DEF CommitAppend, Goto
  <2>4. \A q \in Process \ {t} : pc[q] \notin InTransaction
    BY <1>0, <2>1, OthersOutside DEF InTransaction
  <2>5. \A q \in Process : pc'[q] \notin InTransaction
    BY <1>0, <2>3, <2>4 DEF TypeOK, InTransaction
  <2>6. SignalInv'
    BY <1>0, <2>2, <2>3 DEF Core, SignalInv, TypeOK
  <2>7. LockInv' /\ NoSeqConflict'
    BY <2>5 DEF LockInv, NoSeqConflict, InTransaction
  <2>8. batch \in Seq(Event) /\ NoEnd(batch)
    BY <1>0, TurnBatch DEF TypeOK, Work
  <2> HIDE DEF batch
  <2>9. EndedOnce'
    BY <1>0, <2>2, <2>8, AppendingOthers
  <2> QED
    BY <1>0, <1>2, <2>6, <2>7, <2>9, AppendTypes DEF IInv, Core
<1>3. ASSUME CheckClosure(t) PROVE IInv'
  <2>1. UNCHANGED <<row, log, participation, lock, base>> /\ pc[t] = "logged"
    BY <1>3 DEF CheckClosure
  <2>2. SignalInv' /\ LockInv' /\ NoSeqConflict'
    <3> DEFINE r == CheckCompletion(row.state, row.decisions, log, conditions)
    <3>1. CASE r = NoReason
      <4>1. Finish(t, "done")
        BY <1>3, <3>1 DEF CheckClosure
      <4>2. Moves(t, {"done", "idle"})
        BY <1>0, <2>1, <4>1, FinishMoves
      <4> QED
        BY <1>0, <2>1, <4>2, OutsideStep DEF InTransaction
    <3>2. CASE r # NoReason
      <4>1. pc' = [pc EXCEPT ![t] = "completing"] /\ signal' = [signal EXCEPT ![t] = r]
        BY <1>3, <3>2 DEF CheckClosure, Goto
      <4> HIDE DEF r
      <4> QED
        BY <1>0, <2>1, <3>2, <4>1
           DEF Core, SignalInv, LockInv, NoSeqConflict, TypeOK, InTransaction
    <3> QED
      BY <3>1, <3>2
  <2> QED
    BY <1>0, <1>3, <2>1, <2>2, AppendTypes, QuietEnd DEF IInv, Core
<1> QED
  BY <1>1, <1>2, <1>3

(* and a completion. *)
LEMMA CompletionInv ==
  ASSUME IInv, NEW p \in Process
  PROVE  /\ LockSession(p) => IInv'
         /\ CompleteSession(p) => IInv'
         /\ CommitCompletion(p) => IInv'
<1>0. TypeOK /\ Core /\ EndedOnce
  BY DEF IInv, Core
<1>1. ASSUME LockSession(p) PROVE IInv'
  <2>1. UNCHANGED <<row, log, participation, base>> /\ lock = Nobody /\ pc[p] = "completing"
    BY <1>1 DEF LockSession
  <2>2. SignalInv' /\ LockInv' /\ NoSeqConflict'
    <3>1. CASE row.status = "completed"
      <4>1. Finish(p, "done") /\ UNCHANGED lock
        BY <1>1, <3>1 DEF LockSession
      <4>2. Moves(p, {"done", "idle"})
        BY <1>0, <2>1, <4>1, FinishMoves
      <4> QED
        BY <1>0, <2>1, <4>1, <4>2, OutsideStep DEF InTransaction
    <3>2. CASE row.status # "completed"
      <4>1. /\ pc' = [pc EXCEPT ![p] = "locked"]
            /\ UNCHANGED signal
            /\ lock' = p
        BY <1>1, <3>2 DEF LockSession, Goto
      <4>2. \A q \in Process \ {p} : pc[q] \notin InTransaction
        BY <1>0, <2>1, OthersOutside
      <4>3. row.status = "pending"
        BY <1>0, <3>2 DEF TypeOK, Row
      <4>4. SignalInv'
        BY <1>0, <2>1, <4>1 DEF Core, SignalInv, TypeOK
      <4>5. LockInv'
        BY <1>0, <2>1, <4>1, <4>2, <4>3 DEF LockInv, TypeOK, InTransaction
      <4>6. NoSeqConflict'
        BY <1>0, <2>1, <4>1, <4>2 DEF NoSeqConflict, TypeOK, InTransaction
      <4> QED
        BY <4>4, <4>5, <4>6
    <3> QED
      BY <3>1, <3>2
  <2> QED
    BY <1>0, <1>1, <2>1, <2>2, CompletionTypes, QuietEnd DEF IInv, Core
<1>2. ASSUME CompleteSession(p) PROVE IInv'
  <2>1. UNCHANGED <<row, log, participation, lock, signal>> /\ pc[p] = "locked"
    BY <1>2 DEF CompleteSession
  <2>2. pc' = [pc EXCEPT ![p] = "written"] /\ base' = [base EXCEPT ![p] = Len(log)]
    BY <1>2 DEF CompleteSession, Goto
  <2>3. SignalInv'
    BY <1>0, <2>1, <2>2 DEF Core, SignalInv, TypeOK
  <2>4. LockInv'
    BY <1>0, <2>1, <2>2 DEF Core, LockInv, TypeOK, InTransaction
  <2>5. NoSeqConflict'
    BY <1>0, <2>1, <2>2 DEF Core, NoSeqConflict, TypeOK
  <2> QED
    BY <1>0, <1>2, <2>1, <2>3, <2>4, <2>5, CompletionTypes, QuietEnd DEF IInv, Core
<1>3. ASSUME CommitCompletion(p) PROVE IInv'
  <2>1. base[p] = Len(log) /\ pc[p] = "written" /\ signal[p] # NoReason
    BY <1>0, <1>3 DEF CommitCompletion, Core, NoSeqConflict, SignalInv
  <2>2. row.status = "pending"
    BY <1>0, <2>1 DEF Core, LockInv
  <2>3. /\ row' = [row EXCEPT !.status = "completed"]
        /\ participation' = "completed"
        /\ log' = Append(log, SessionEnded(signal[p]))
        /\ Finish(p, "done")
    BY <1>3, <2>1 DEF CommitCompletion
  <2>4. \A q \in Process \ {p} : base'[q] = base[q]
    BY <1>0, <1>3 DEF CommitCompletion, EndTransaction, TypeOK
  <2>5. Moves(p, {"done", "idle"})
    BY <1>0, <2>3, <2>4, FinishMoves
  <2>6. \A q \in Process \ {p} : pc[q] \notin InTransaction
    BY <1>0, <2>1, OthersOutside DEF InTransaction
  <2>7. \A q \in Process : pc'[q] \notin InTransaction
    BY <2>5, <2>6 DEF Moves, InTransaction
  <2>8. SignalInv'
    BY <1>0, <2>5 DEF Moves, Core, SignalInv
  <2>9. LockInv' /\ NoSeqConflict'
    BY <2>7 DEF LockInv, NoSeqConflict, InTransaction
  <2>10. EndedOnce'
    BY <1>0, <2>1, <2>2, <2>3, AppendingTheEnd
  <2> QED
    BY <1>0, <1>3, <2>1, <2>8, <2>9, <2>10, CompletionTypes DEF IInv, Core
<1> QED
  BY <1>1, <1>2, <1>3

(* Every step keeps the invariant. *)
LEMMA NextInv == ASSUME IInv, [Next]_vars PROVE IInv'
<1>1. CASE \E t \in Turn : Load(t) \/ TurnStep(t) \/ Interrupt(t)
  BY <1>1, TurnInv, AppendInv DEF TurnStep
<1>2. CASE \E p \in Turn \cup {Beat} : CompletionStep(p)
  BY <1>2, CompletionInv, ProcessFacts DEF CompletionStep
<1>3. CASE FindStuck
  BY <1>3, EnvironmentInv
<1>4. CASE \E heard \in SUBSET Turn : ReadForPersist(heard)
  BY <1>4, VoiceInv
<1>5. CASE WriteArtifacts
  BY <1>5, VoiceInv
<1>6. CASE \E c \in Conditions : Arise(c)
  BY <1>6, EnvironmentInv
<1>7. CASE \E p \in Process : Crash(p)
  BY <1>7, EnvironmentInv
<1>8. CASE UNCHANGED vars
  BY <1>8 DEF vars, IInv, Core, TypeOK, SignalInv, LockInv, NoSeqConflict, EndedOnce
<1> QED
  BY <1>1, <1>2, <1>3, <1>4, <1>5, <1>6, <1>7, <1>8 DEF Next

(* The invariant holds throughout. *)
THEOREM Invariance == Spec => []IInv
BY InitInv, NextInv, PTL DEF Spec

(* Every variable keeps its type: the row, the event log and the copies    *)
(* that turns hold (Django model, ExecutionState, event payloads).         *)
THEOREM TypeCorrect == Spec => []TypeOK
<1>1. IInv => TypeOK
  BY DEF IInv, Core
<1> QED
  BY <1>1, Invariance, PTL

(* complete_session ends a session once, with all of its traces, for any   *)
(* number of turns, beat runs and crashes.                                 *)
THEOREM SessionEndsOnce == Spec => []EndedOnce
<1>1. IInv => EndedOnce
  BY DEF IInv
<1> QED
  BY <1>1, Invariance, PTL

(* append_events never collides with another writer of the log.            *)
THEOREM SeqNeverConflicts == Spec => []NoSeqConflict
<1>1. IInv => NoSeqConflict
  BY DEF IInv, Core
<1> QED
  BY <1>1, Invariance, PTL

(* Who has written the completion has launched the task, and what has      *)
(* launched it once stays launched.                                        *)
Launched ==
  /\ CompletedIsProcessed
  /\ \A p \in Process : pc[p] = "written" => enqueued > 0

(* A step that writes no status and gets nobody to "written" keeps that.   *)
LEMMA StillLaunched ==
  ASSUME Launched, enqueued' = enqueued, row'.status = row.status,
         \A q \in Process : pc'[q] = "written" => pc[q] = "written"
  PROVE  Launched'
  BY DEF Launched, CompletedIsProcessed

(* A completion is written whose task the broker did not take: the handler *)
(* of the status swallows that (signals.py).                               *)
BrokerRefuses ==
  \E p \in Turn \cup {Beat} :
    pc[p] = "locked" /\ pc'[p] = "written" /\ enqueued' = enqueued

(* Any other step that completes a session launches its task. *)
LEMMA LaunchedStep ==
  ASSUME TypeOK, Launched, [Next]_vars, [~BrokerRefuses]_vars
  PROVE  Launched'
<1>1. ASSUME NEW t \in Turn, Load(t) \/ TurnStep(t) \/ Interrupt(t) PROVE Launched'
  <2>1. enqueued' = enqueued /\ row'.status = row.status
    BY <1>1 DEF TurnStep, Load, Decide, Interrupt, Save, BeginAppend, CommitAppend,
                CheckClosure, TypeOK, Row
  <2>2. \E s \in Step \ {"written"} : pc' = [pc EXCEPT ![t] = s]
    BY <1>1 DEF TurnStep, Load, Decide, Interrupt, Save, BeginAppend, CommitAppend,
                CheckClosure, Goto, Finish, Step
  <2> QED  BY <2>1, <2>2, StillLaunched DEF TypeOK
<1>2. ASSUME NEW p \in Turn \cup {Beat}, CompletionStep(p) PROVE Launched'
  <2>1. CASE LockSession(p)
    <3>1. \E s \in Step \ {"written"} : pc' = [pc EXCEPT ![p] = s]
      BY <2>1 DEF LockSession, Goto, Finish, Step
    <3> QED  BY <2>1, <3>1, StillLaunched DEF LockSession, TypeOK
  <2>2. CASE CompleteSession(p)
    <3>1. p \in Process /\ pc[p] = "locked" /\ pc'[p] = "written" /\ row' = row
      BY <1>2, <2>2, ProcessFacts DEF CompleteSession, Goto, TypeOK
    <3>2. enqueued' # enqueued
      BY <1>2, <3>1 DEF BrokerRefuses, vars
    <3>3. enqueued' = enqueued + 1
      BY <2>2, <3>2 DEF CompleteSession
    <3> QED BY <3>1, <3>3 DEF Launched, CompletedIsProcessed, TypeOK
  <2>3. CASE CommitCompletion(p)
    <3>1. enqueued > 0 /\ enqueued' = enqueued
      BY <1>2, <2>3, ProcessFacts DEF CommitCompletion, Launched
    <3> QED  BY <3>1 DEF Launched, CompletedIsProcessed
  <2> QED  BY <1>2, <2>1, <2>2, <2>3 DEF CompletionStep
<1>3. CASE FindStuck
  BY <1>3, StillLaunched DEF FindStuck, Goto, TypeOK
<1>4. ASSUME NEW heard \in SUBSET Turn, ReadForPersist(heard) PROVE Launched'
  BY <1>4, StillLaunched DEF ReadForPersist, Goto, TypeOK
<1>5. CASE WriteArtifacts
  <2>1. row'.status = row.status
    BY <1>5 DEF WriteArtifacts, TypeOK, Row
  <2> QED  BY <1>5, <2>1, StillLaunched DEF WriteArtifacts, Finish, Goto, TypeOK
<1>6. ASSUME NEW c \in Conditions, Arise(c) PROVE Launched'
  BY <1>6, StillLaunched DEF Arise
<1>7. ASSUME NEW p \in Process, Crash(p) PROVE Launched'
  BY <1>7, StillLaunched DEF Crash, Finish, Goto, TypeOK
<1>8. CASE UNCHANGED vars
  BY <1>8 DEF vars, Launched, CompletedIsProcessed
<1> QED
  BY <1>1, <1>2, <1>3, <1>4, <1>5, <1>6, <1>7, <1>8 DEF Next

(* A completed session has had its post-session task launched, whoever     *)
(* completed it and whatever died (_schedule_transcript_cleanup): the only *)
(* step that takes that away is the one in which the broker refuses it.    *)
THEOREM CompletedSessionsAreProcessed ==
  Spec => []CompletedIsProcessed \/ <><<BrokerRefuses>>_vars
<1>1. Init => Launched
  BY DEF Init, EmptyRow, Launched, CompletedIsProcessed
<1>2. TypeOK /\ Launched /\ [Next]_vars /\ [~BrokerRefuses]_vars => Launched'
  BY LaunchedStep
<1>3. Launched => CompletedIsProcessed
  BY DEF Launched
<1> QED
  BY <1>1, <1>2, <1>3, TypeCorrect, PTL DEF Spec

-----------------------------------------------------------------------------
(* Probes *)

(* A state whose counters respect the caps and whose cursor the guide has. *)
Sound(s) == WithinCaps(s) /\ (s.current = NoQuestion \/ InGuide(s.current))

(* A decision that may be applied to s: its probe is still below the cap. *)
Allowed(d, s) ==
  \/ d = NoDecision \/ s.current = NoQuestion
  \/ d.action # "followup"
  \/ d.kind = "dynamic" /\ s.dynamic[s.current] < DynamicCap(s.current)
  \/ d.kind # "dynamic" /\ s.followups[s.current] < PresetCap(s.current)

(* The caps are numbers, as the question's policy says. *)
LEMMA CapTypes ==
  ASSUME NEW q \in Question
  PROVE  /\ PresetCap(q) \in Nat /\ DynamicCap(q) \in Nat
         /\ Policy[q] # "none" => PresetCap(q) >= MaxProbes[q]
         /\ Policy[q] = "deep" => PresetCap(q) > 0
         /\ Policy[q] # "none" /\ Dynamic[q].enabled => DynamicCap(q) = Dynamic[q].max_extra_rounds
<1>1. /\ Policy[q] \in {"none", "light", "deep"}
      /\ MaxProbes[q] \in Nat
      /\ Dynamic[q].max_extra_rounds \in Nat
  BY GuideAssumption DEF ProbePolicy, DynamicProbe
<1> QED
  BY <1>1 DEF PresetCap, DynamicCap

(* A valid decision asks for no probe beyond its cap. *)
LEMMA Validated ==
  ASSUME NEW s \in State, Sound(s), NEW d \in Decision \cup {NoDecision}
  PROVE  Allowed(ValidateDecision(d, CurrentQuestion(s), s.followups[s.current],
                                  s.dynamic[s.current]), s)
<1> DEFINE q == CurrentQuestion(s)
           probesDone == s.followups[s.current]
           dynamicDone == s.dynamic[s.current]
           v == ValidateDecision(d, q, probesDone, dynamicDone)
<1>1. CASE d = NoDecision
  BY <1>1 DEF ValidateDecision, Allowed
<1>2. CASE ~InGuide(s.current)
  BY <1>2 DEF Sound, Allowed
<1>3. CASE d # NoDecision /\ InGuide(s.current)
  <2>1. q = s.current /\ q \in Question /\ q # NoQuestion
    BY <1>3, GuideTypes, GuideAssumption DEF CurrentQuestion
  <2>2. probesDone \in Nat /\ dynamicDone \in Nat
    BY StateFields
  <2>3. MaxProbes[q] \in Nat /\ Dynamic[q].max_extra_rounds \in Nat
    BY <2>1, GuideAssumption DEF DynamicProbe
  <2> HIDE DEF q, probesDone, dynamicDone
  <2>4. \A x : MoveOn(x).action # "followup"
    BY DEF MoveOn
  <2>5. PresetFollowup.action = "followup" /\ PresetFollowup.kind # "dynamic"
    BY DEF PresetFollowup
  <2>6. CASE ForbiddenFollowup(d, q) \/ PresetExhausted(d, q, probesDone)
    <3>1. v = MoveOn(NextQuestion(q))
      BY <1>3, <2>1, <2>6 DEF ValidateDecision
    <3> HIDE DEF v
    <3> QED
      BY <2>4, <3>1 DEF Allowed, v, probesDone, dynamicDone, q
  <2>7. CASE /\ ~(ForbiddenFollowup(d, q) \/ PresetExhausted(d, q, probesDone))
             /\ MissingFirstProbe(d, q, probesDone)
    <3>1. v = PresetFollowup
      BY <1>3, <2>1, <2>7 DEF ValidateDecision
    <3>2. probesDone < PresetCap(q)
      BY <2>1, <2>2, <2>7, CapTypes DEF MissingFirstProbe
    <3> HIDE DEF v
    <3> QED
      BY <2>1, <2>5, <3>1, <3>2 DEF Allowed, v, probesDone, dynamicDone, q
  <2>8. CASE /\ ~(ForbiddenFollowup(d, q) \/ PresetExhausted(d, q, probesDone))
             /\ ~MissingFirstProbe(d, q, probesDone)
             /\ InvalidDynamic(d, q, dynamicDone)
    <3>1. Policy[q] # "none"
      BY <2>8 DEF ForbiddenFollowup, InvalidDynamic
    <3>2. CASE probesDone < MaxProbes[q]
      <4>1. v = PresetFollowup
        BY <1>3, <2>1, <2>8, <3>2 DEF ValidateDecision
      <4>2. probesDone < PresetCap(q)
        BY <2>1, <2>2, <2>3, <3>1, <3>2, CapTypes
      <4> HIDE DEF v
      <4> QED
        BY <2>1, <2>5, <4>1, <4>2 DEF Allowed, v, probesDone, dynamicDone, q
    <3>3. CASE ~(probesDone < MaxProbes[q])
      <4>1. v = MoveOn(NextQuestion(q))
        BY <1>3, <2>1, <2>8, <3>3 DEF ValidateDecision
      <4> HIDE DEF v
      <4> QED
        BY <2>4, <4>1 DEF Allowed, v, probesDone, dynamicDone, q
    <3> QED
      BY <3>2, <3>3
  <2>9. CASE /\ ~(ForbiddenFollowup(d, q) \/ PresetExhausted(d, q, probesDone))
             /\ ~MissingFirstProbe(d, q, probesDone)
             /\ ~InvalidDynamic(d, q, dynamicDone)
    <3>1. v = d
      BY <1>3, <2>1, <2>9 DEF ValidateDecision
    <3>2. d.action = "followup" => Policy[q] # "none"
      BY <2>9 DEF ForbiddenFollowup
    <3>3. d.action = "followup" /\ d.kind # "dynamic" => probesDone < PresetCap(q)
      BY <2>1, <2>2, <2>3, <2>9, <3>2, CapTypes DEF PresetExhausted
    <3>4. d.action = "followup" /\ d.kind = "dynamic" => dynamicDone < DynamicCap(q)
      BY <2>1, <2>2, <2>3, <2>9, <3>2, CapTypes DEF InvalidDynamic
    <3> HIDE DEF v
    <3> QED
      BY <2>1, <3>1, <3>3, <3>4 DEF Allowed, v, probesDone, dynamicDone, q
  <2> QED
    BY <2>6, <2>7, <2>8, <2>9
<1> QED
  BY <1>1, <1>2, <1>3

(* Going to another question resets its counters. *)
LEMMA GoToSound ==
  ASSUME NEW s \in State, WithinCaps(s), NEW q \in Question, InGuide(q)
  PROVE  Sound(GoTo(s, q))
<1> DEFINE u == GoTo(s, q)
<1>1. s.followups \in [Cursor -> Nat] /\ s.dynamic \in [Cursor -> Nat] /\ q \in Cursor
  BY StateFields DEF Cursor
<1>2. /\ u.current = q
      /\ u.followups = [s.followups EXCEPT ![q] = 0]
      /\ u.dynamic = [s.dynamic EXCEPT ![q] = 0]
  BY DEF GoTo, State
<1> HIDE DEF u
<1>3. ASSUME NEW r \in Question
      PROVE  u.followups[r] <= PresetCap(r) /\ u.dynamic[r] <= DynamicCap(r)
  <2>1. r \in Cursor /\ PresetCap(r) \in Nat /\ DynamicCap(r) \in Nat
    BY CapTypes DEF Cursor
  <2>2. CASE r = q
    BY <1>1, <1>2, <2>1, <2>2
  <2>3. CASE r # q
    BY <1>1, <1>2, <2>1, <2>3 DEF WithinCaps
  <2> QED
    BY <2>2, <2>3
<1>4. Sound(u)
  BY <1>2, <1>3 DEF Sound, WithinCaps
<1> QED
  BY <1>4 DEF u

(* Resolving the next question keeps the counters within the caps. *)
LEMMA ResolveSound ==
  ASSUME NEW s \in State, Sound(s) PROVE Sound(ResolveState(s))
<1>1. CASE InGuide(s.current) \/ FirstQuestion = NoQuestion
  BY <1>1 DEF ResolveState
<1>2. CASE ~(InGuide(s.current) \/ FirstQuestion = NoQuestion)
  <2>1. FirstQuestion \in Question /\ InGuide(FirstQuestion)
    <3>1. Guide # <<>> /\ FirstQuestion = Guide[1]
      BY <1>2 DEF FirstQuestion
    <3>2. 1 \in DOMAIN Guide
      BY <3>1, GuideAssumption
    <3> QED
      BY <3>1, <3>2, GuideTypes DEF InGuide
  <2>2. ResolveState(s) = GoTo(s, FirstQuestion)
    BY <1>2 DEF ResolveState
  <2> QED
    BY <2>1, <2>2, GoToSound DEF Sound
<1> QED
  BY <1>1, <1>2

(* Counting a follow-up the validator let through keeps within the caps. *)
LEMMA CountersSound ==
  ASSUME NEW s \in State, Sound(s)
  PROVE  /\ s.current # NoQuestion /\ s.followups[s.current] < PresetCap(s.current)
              => Sound(MarkFollowupUsed(s, s.current))
         /\ s.current # NoQuestion /\ s.dynamic[s.current] < DynamicCap(s.current)
              => Sound(MarkDynamicProbeUsed(s, s.current))
         /\ s.current = NoQuestion => Sound(MarkFollowupUsed(s, s.current))
         /\ s.current = NoQuestion => Sound(MarkDynamicProbeUsed(s, s.current))
<1> DEFINE c == s.current
           f == [s.followups EXCEPT ![c] = @ + 1]
           g == [s.dynamic EXCEPT ![c] = @ + 1]
<1>1. s.followups \in [Cursor -> Nat] /\ s.dynamic \in [Cursor -> Nat] /\ c \in Cursor
  BY StateFields
<1>2. /\ MarkFollowupUsed(s, c).current = c
      /\ MarkFollowupUsed(s, c).followups = f
      /\ MarkFollowupUsed(s, c).dynamic = s.dynamic
      /\ MarkDynamicProbeUsed(s, c).current = c
      /\ MarkDynamicProbeUsed(s, c).followups = s.followups
      /\ MarkDynamicProbeUsed(s, c).dynamic = g
  BY DEF MarkFollowupUsed, MarkDynamicProbeUsed, State
<1>3. ASSUME NEW r \in Question
      PROVE  /\ c # r => f[r] = s.followups[r] /\ g[r] = s.dynamic[r]
             /\ c = r /\ s.followups[c] < PresetCap(c) => f[r] <= PresetCap(r)
             /\ c = r /\ s.dynamic[c] < DynamicCap(c) => g[r] <= DynamicCap(r)
  BY <1>1, CapTypes DEF Cursor
<1>4. c = NoQuestion => \A r \in Question : c # r
  BY GuideAssumption
<1> HIDE DEF c, f, g
<1> QED
  BY <1>2, <1>3, <1>4 DEF Sound, WithinCaps, c

(* Counters and cursor decide whether a state is sound. *)
LEMMA SameCounters ==
  ASSUME NEW s, NEW u, Sound(s),
         u.current = s.current, u.followups = s.followups, u.dynamic = s.dynamic
  PROVE  Sound(u)
BY DEF Sound, WithinCaps

(* Entering the closing round keeps the counters. *)
LEMMA EnterClosingSound ==
  ASSUME NEW s \in State, Sound(s) PROVE Sound(EnterClosing(s))
<1>1. /\ EnterClosing(s).current = s.current
      /\ EnterClosing(s).followups = s.followups
      /\ EnterClosing(s).dynamic = s.dynamic
  BY DEF EnterClosing, State
<1> QED
  BY <1>1, SameCounters

(* The effect of a valid decision keeps the counters within the caps. *)
LEMMA EffectSound ==
  ASSUME NEW s \in State, Sound(s), NEW d \in Decision, Allowed(d, s)
  PROVE  Sound(Effect(s, d))
<1> DEFINE t == MarkAnswered(s, s.current)
<1>1. t \in State
  <2>1. s.current \in Cursor
    BY StateFields
  <2> QED
    BY <2>1 DEF MarkAnswered, State
<1>2. Sound(t)
  <2>1. t.current = s.current /\ t.followups = s.followups /\ t.dynamic = s.dynamic
    BY DEF MarkAnswered, State
  <2> QED
    BY <2>1, SameCounters
<1>3. ASSUME d.action = "followup" PROVE Sound(Followup(s, d))
  <2>0. d # NoDecision
    BY NoDecisionAssumption
  <2>1. CASE s.current = NoQuestion
    BY <2>1, CountersSound DEF Followup
  <2>2. CASE s.current # NoQuestion
    BY <1>3, <2>0, <2>2, CountersSound DEF Followup, Allowed
  <2> QED
    BY <2>1, <2>2
<1>4. Sound(Advance(s, d))
  <2>1. CASE d.next # NoQuestion /\ InGuide(d.next)
    <3>1. d.next \in Question
      BY <2>1, GuideTypes
    <3>2. Advance(s, d) = GoTo(t, d.next)
      BY <2>1 DEF Advance
    <3> HIDE DEF t
    <3> QED
      BY <1>1, <1>2, <2>1, <3>1, <3>2, GoToSound DEF Sound
  <2>2. CASE ~(d.next # NoQuestion /\ InGuide(d.next))
    <3>1. Advance(s, d) \in {t, EnterClosing(t)}
      BY <2>2 DEF Advance
    <3> HIDE DEF t
    <3> QED
      BY <1>1, <1>2, <3>1, EnterClosingSound
  <2> QED
    BY <2>1, <2>2
<1>5. d.action \in {"followup", "move_on", "close", "clarify"}
  BY DEF Decision, Action
<1> QED
  BY <1>3, <1>4, <1>5, EnterClosingSound DEF Effect

(* So does applying it to a state. *)
LEMMA ApplySound ==
  ASSUME NEW s \in State, Sound(s), NEW d \in Decision \cup {NoDecision}, Allowed(d, s)
  PROVE  Sound(ApplyDecision(s, d))
<1> DEFINE counted == [s EXCEPT !.turn_count = @ + 1]
           noted   == [counted EXCEPT !.last_action = d.action]
           decided == IF d = NoDecision THEN counted ELSE Effect(noted, d)
<1>1. counted \in State
  BY CounterTypes
<1>2. counted.current = s.current /\ counted.followups = s.followups /\ counted.dynamic = s.dynamic
  BY DEF State
<1>3. Sound(counted)
  <2> HIDE DEF counted
  <2> QED
    BY <1>2, SameCounters
<1>4. decided \in State /\ Sound(decided)
  <2>1. CASE d = NoDecision
    BY <1>1, <1>3, <2>1
  <2>2. CASE d # NoDecision
    <3> HIDE DEF counted
    <3>1. d \in Decision /\ d.action \in Action
      BY <2>2 DEF Decision
    <3>2. noted \in State
      BY <1>1, <3>1, StateUpdates
    <3>3. noted.current = s.current /\ noted.followups = s.followups /\ noted.dynamic = s.dynamic
      BY <1>1, <1>2 DEF State
    <3> HIDE DEF noted
    <3>4. Sound(noted)
      BY <3>3, SameCounters
    <3>5. Allowed(d, noted)
      BY <3>3 DEF Allowed
    <3> QED
      BY <2>2, <3>1, <3>2, <3>4, <3>5, EffectSound, EffectType
  <2> QED
    BY <2>1, <2>2
<1>5. ASSUME NEW u \in State, Sound(u) PROVE Sound(ConsumeClosingRound(u))
  <2>1. /\ ConsumeClosingRound(u).current = u.current
        /\ ConsumeClosingRound(u).followups = u.followups
        /\ ConsumeClosingRound(u).dynamic = u.dynamic
    BY DEF ConsumeClosingRound, State
  <2> QED
    BY <1>5, <2>1, SameCounters
<1>6. ApplyDecision(s, d) = IF s.phase = "closing" THEN ConsumeClosingRound(decided) ELSE decided
  BY DEF ApplyDecision
<1> HIDE DEF decided
<1> QED
  BY <1>4, <1>5, <1>6

-----------------------------------------------------------------------------
(* The caps hold for the row and for every copy of it that a process holds *)
(* and may write back.                                                     *)

CapsInv ==
  /\ Sound(row.state)
  /\ \A p \in Process : Sound(work[p].state) /\ Sound(work[p].row.state)
  /\ \A t \in Turn : pc[t] = "speaking" => Allowed(work[t].decision, work[t].state)

(* A state with no counters is within the caps. *)
LEMMA EmptySound == Sound(EmptyState) /\ Sound(NoWork.state) /\ Sound(NoWork.row.state)
<1>1. Sound(EmptyState)
  <2>1. ASSUME NEW q \in Question PROVE 0 <= PresetCap(q) /\ 0 <= DynamicCap(q)
    <3>1. PresetCap(q) \in Nat /\ DynamicCap(q) \in Nat
      BY CapTypes
    <3> QED
      BY <3>1
  <2> QED
    BY <2>1 DEF Sound, WithinCaps, EmptyState, Cursor
<1> QED
  BY <1>1 DEF NoWork, EmptyRow

(* The probes begin within their caps. *)
LEMMA CapsInit == Init => CapsInv
<1> SUFFICES ASSUME Init PROVE CapsInv
  OBVIOUS
<1>1. row = EmptyRow /\ \A p \in Process : work[p] = NoWork /\ pc[p] # "speaking"
  BY DEF Init
<1>2. \A t \in Turn : pc[t] # "speaking"
  BY <1>1, ProcessFacts
<1> QED
  BY <1>1, <1>2, EmptySound DEF CapsInv, EmptyRow

(* Steps that write neither the row's state nor any copy. *)
LEMMA CapsUntouched ==
  ASSUME CapsInv, row'.state = row.state, UNCHANGED work,
         \A t \in Turn : pc'[t] = "speaking" => pc[t] = "speaking"
  PROVE  CapsInv'
BY DEF CapsInv

(* The copy of p is replaced by w, and p does not stream a reply. *)
LEMMA CapsCopy ==
  ASSUME TypeOK, CapsInv, NEW p \in Process, NEW w, NEW step,
         row'.state = row.state, work' = [work EXCEPT ![p] = w],
         Sound(w.state), Sound(w.row.state),
         pc' = [pc EXCEPT ![p] = step], step # "speaking"
  PROVE  CapsInv'
<1>1. \A q \in Process : work'[q] = w \/ work'[q] = work[q]
  BY DEF TypeOK
<1>2. \A q \in Process \ {p} : work'[q] = work[q] /\ pc'[q] = pc[q]
  BY DEF TypeOK
<1>3. pc'[p] # "speaking"
  BY DEF TypeOK
<1>4. \A t \in Turn : t \in Process
  BY ProcessFacts
<1> QED
  BY <1>1, <1>2, <1>3, <1>4 DEF CapsInv

(* A process that finishes forgets its copy of the state. *)
LEMMA CapsFinish ==
  ASSUME TypeOK, CapsInv, NEW p \in Process, NEW step, step # "speaking",
         Finish(p, step), row'.state = row.state
  PROVE  CapsInv'
<1> DEFINE next == IF p = Beat THEN "idle" ELSE step
<1>1. work' = [work EXCEPT ![p] = NoWork] /\ pc' = [pc EXCEPT ![p] = next]
  BY DEF Finish, Goto
<1>2. next # "speaking"
  OBVIOUS
<1> HIDE DEF next
<1> QED
  BY <1>1, <1>2, EmptySound, CapsCopy

(* A turn's load, decision and save keep the probes within their caps. *)
LEMMA CapsTurn ==
  ASSUME TypeOK, CapsInv, NEW t \in Turn
  PROVE  /\ Load(t) => CapsInv'
         /\ \A d \in LLMDecisions : Decide(t, d) => CapsInv'
         /\ Save(t) => CapsInv'
<1>0. t \in Process /\ row.state \in State /\ work[t] \in Work /\ work[t].row \in Row
  BY ProcessFacts DEF TypeOK, Row, Work
<1>1. ASSUME Load(t) PROVE CapsInv'
  <2>1. CASE row.extra
    BY <1>0, <1>1, <2>1, CapsFinish DEF Load
  <2>2. CASE ~row.extra
    <3> DEFINE w == [row |-> row, state |-> ResolveState(row.state), decision |-> NoDecision]
    <3>1. Sound(w.state) /\ Sound(w.row.state)
      BY <1>0, ResolveSound DEF CapsInv
    <3>2. /\ work' = [work EXCEPT ![t] = w]
          /\ pc' = [pc EXCEPT ![t] = "deciding"]
          /\ UNCHANGED row
      BY <1>1, <2>2 DEF Load, Goto
    <3> HIDE DEF w
    <3> QED
      BY <1>0, <3>1, <3>2, CapsCopy
  <2> QED
    BY <2>1, <2>2
<1>2. ASSUME NEW d \in LLMDecisions, Decide(t, d) PROVE CapsInv'
  <2> DEFINE s == work[t].state
             v == ValidateDecision(d, CurrentQuestion(s), s.followups[s.current],
                                   s.dynamic[s.current])
  <2>1. s \in State /\ Sound(s) /\ d \in Decision \cup {NoDecision}
    BY <1>0, SessionAssumption DEF Work, CapsInv
  <2>2. Allowed(v, s)
    BY <2>1, Validated
  <2>3. work' = [work EXCEPT ![t].decision = v] /\ UNCHANGED row
    BY <1>2 DEF Decide
  <2>4. pc' = [pc EXCEPT ![t] = "speaking"]
    BY <1>2 DEF Decide, Goto
  <2> HIDE DEF v
  <2>5. /\ work'[t].decision = v /\ work'[t].state = s /\ work'[t].row = work[t].row
        /\ \A q \in Process \ {t} : work'[q] = work[q] /\ pc'[q] = pc[q]
    BY <1>0, <2>3, <2>4 DEF TypeOK, Work
  <2>6. \A q \in Process : work'[q].state = work[q].state /\ work'[q].row = work[q].row
    BY <2>5
  <2>7. \A u \in Turn : pc'[u] = "speaking" => Allowed(work'[u].decision, work'[u].state)
    BY <2>2, <2>5, ProcessFacts DEF CapsInv
  <2> HIDE DEF s
  <2> QED
    BY <2>3, <2>6, <2>7 DEF CapsInv
<1>3. ASSUME Save(t) PROVE CapsInv'
  <2> DEFINE s == ApplyDecision(work[t].state, work[t].decision)
             w == [work[t] EXCEPT !.state = s]
  <2>1. Sound(s)
    BY <1>0, <1>3, ApplySound DEF CapsInv, Save, Work
  <2>2. row'.state = s
    BY <1>3 DEF Save, TypeOK, Row
  <2>3. work' = [work EXCEPT ![t] = w] /\ pc' = [pc EXCEPT ![t] = "saved"]
    BY <1>3 DEF Save, Goto
  <2>4. w.state = s /\ w.row = work[t].row
    BY <1>0 DEF Work
  <2> HIDE DEF s, w
  <2>5. \A q \in Process \ {t} : work'[q] = work[q] /\ pc'[q] = pc[q]
    BY <2>3 DEF TypeOK
  <2>6. work'[t] = w /\ pc'[t] = "saved"
    BY <1>0, <2>3 DEF TypeOK
  <2> QED
    BY <1>0, <2>1, <2>2, <2>4, <2>5, <2>6, ProcessFacts DEF CapsInv
<1> QED
  BY <1>1, <1>2, <1>3

(* Steps that take a process elsewhere and leave every copy alone. *)
LEMMA CapsGoto ==
  ASSUME TypeOK, CapsInv, NEW p \in Process, NEW step, step # "speaking", Goto(p, step),
         row'.state = row.state, UNCHANGED work
  PROVE  CapsInv'
<1>1. \A t \in Turn : pc'[t] = "speaking" => pc[t] = "speaking"
  BY ProcessFacts DEF Goto, TypeOK
<1> QED
  BY <1>1, CapsUntouched

(* So does its append, *)
LEMMA CapsAppend ==
  ASSUME TypeOK, CapsInv, NEW t \in Turn
  PROVE  /\ Interrupt(t) => CapsInv'
         /\ BeginAppend(t) => CapsInv'
         /\ CommitAppend(t) => CapsInv'
         /\ CheckClosure(t) => CapsInv'
<1>0. t \in Process
  BY ProcessFacts
<1>1. Interrupt(t) => CapsInv'
  BY <1>0, CapsFinish DEF Interrupt
<1>2. BeginAppend(t) => CapsInv'
  BY <1>0, CapsGoto DEF BeginAppend
<1>3. ASSUME CommitAppend(t) PROVE CapsInv'
  <2>1. UNCHANGED row /\ (Finish(t, "failed") \/ (Goto(t, "logged") /\ UNCHANGED work))
    BY <1>3 DEF CommitAppend
  <2> QED
    BY <1>0, <2>1, CapsFinish, CapsGoto
<1>4. ASSUME CheckClosure(t) PROVE CapsInv'
  <2>1. UNCHANGED row /\ (Finish(t, "done") \/ (Goto(t, "completing") /\ UNCHANGED work))
    BY <1>4 DEF CheckClosure
  <2> QED
    BY <1>0, <2>1, CapsFinish, CapsGoto
<1> QED
  BY <1>1, <1>2, <1>3, <1>4

(* a completion, *)
LEMMA CapsCompletion ==
  ASSUME TypeOK, CapsInv, NEW p \in Process
  PROVE  /\ LockSession(p) => CapsInv'
         /\ CompleteSession(p) => CapsInv'
         /\ CommitCompletion(p) => CapsInv'
         /\ Crash(p) => CapsInv'
<1>1. ASSUME LockSession(p) PROVE CapsInv'
  <2>1. UNCHANGED row /\ (Finish(p, "done") \/ (Goto(p, "locked") /\ UNCHANGED work))
    BY <1>1 DEF LockSession
  <2> QED
    BY <2>1, CapsFinish, CapsGoto
<1>2. CompleteSession(p) => CapsInv'
  BY CapsGoto DEF CompleteSession
<1>3. ASSUME CommitCompletion(p) PROVE CapsInv'
  <2>1. row'.state = row.state /\ (Finish(p, "done") \/ Finish(p, "failed"))
    BY <1>3 DEF CommitCompletion, TypeOK, Row
  <2> QED
    BY <2>1, CapsFinish
<1>4. Crash(p) => CapsInv'
  BY CapsFinish DEF Crash
<1> QED
  BY <1>1, <1>2, <1>3, <1>4

(* and a voice loop. *)
LEMMA CapsVoice ==
  ASSUME TypeOK, CapsInv
  PROVE  /\ \A heard \in SUBSET Turn : ReadForPersist(heard) => CapsInv'
         /\ WriteArtifacts => CapsInv'
<1>0. Voice \in Process /\ row \in Row /\ work[Voice] \in Work
  BY ProcessFacts DEF TypeOK
<1>1. ASSUME NEW heard \in SUBSET Turn, ReadForPersist(heard) PROVE CapsInv'
  <2> DEFINE copy == [row EXCEPT !.extra = TRUE, !.transcript = @ \o SetToSeq(heard)]
             w == [work[Voice] EXCEPT !.row = copy]
  <2>1. copy.state = row.state
    BY <1>0 DEF Row
  <2>2. w.state = work[Voice].state /\ w.row = copy
    BY <1>0 DEF Work
  <2>3. /\ work' = [work EXCEPT ![Voice] = w]
        /\ pc' = [pc EXCEPT ![Voice] = "persisting"]
        /\ UNCHANGED row
    BY <1>1 DEF ReadForPersist, Goto
  <2> HIDE DEF w, copy
  <2>4. Sound(w.state) /\ Sound(w.row.state)
    BY <1>0, <2>1, <2>2 DEF CapsInv
  <2> QED
    BY <1>0, <2>3, <2>4, CapsCopy
<1>2. ASSUME WriteArtifacts PROVE CapsInv'
  <2>1. row'.state = work[Voice].row.state /\ Sound(work[Voice].row.state)
    BY <1>0, <1>2 DEF WriteArtifacts, Row, CapsInv
  <2>2. /\ work' = [work EXCEPT ![Voice] = NoWork]
        /\ pc' = [pc EXCEPT ![Voice] = "done"]
    BY <1>2, SessionAssumption DEF WriteArtifacts, Finish, Goto
  <2>3. \A q \in Process \ {Voice} : work'[q] = work[q] /\ pc'[q] = pc[q]
    BY <2>2 DEF TypeOK
  <2>4. work'[Voice] = NoWork
    BY <1>0, <2>2 DEF TypeOK
  <2> QED
    BY <2>1, <2>3, <2>4, EmptySound, ProcessFacts DEF CapsInv
<1> QED
  BY <1>1, <1>2

(* Every step keeps the probes within their caps. *)
LEMMA CapsNext == ASSUME IInv, CapsInv, [Next]_vars PROVE CapsInv'
<1>0. TypeOK
  BY DEF IInv, Core
<1>1. CASE \E t \in Turn : Load(t) \/ TurnStep(t) \/ Interrupt(t)
  BY <1>0, <1>1, CapsTurn, CapsAppend DEF TurnStep
<1>2. CASE \E p \in Turn \cup {Beat} : CompletionStep(p)
  BY <1>0, <1>2, CapsCompletion, ProcessFacts DEF CompletionStep
<1>3. CASE FindStuck
  <2>1. Goto(Beat, "completing") /\ UNCHANGED <<row, work>>
    BY <1>3 DEF FindStuck
  <2> QED
    BY <1>0, <2>1, CapsGoto, ProcessFacts
<1>4. CASE \E heard \in SUBSET Turn : ReadForPersist(heard)
  BY <1>0, <1>4, CapsVoice
<1>5. CASE WriteArtifacts
  BY <1>0, <1>5, CapsVoice
<1>6. CASE \E c \in Conditions : Arise(c)
  BY <1>6, CapsUntouched DEF Arise
<1>7. CASE \E p \in Process : Crash(p)
  BY <1>0, <1>7, CapsCompletion
<1>8. CASE UNCHANGED vars
  BY <1>8, CapsUntouched DEF vars
<1> QED
  BY <1>1, <1>2, <1>3, <1>4, <1>5, <1>6, <1>7, <1>8 DEF Next

(* validate_decision keeps every question within its caps in every saved   *)
(* state, whatever the LLM answers and however turns overlap.              *)
THEOREM CapsAreKept == Spec => []ProbesWithinCaps
<1>1. Init => IInv /\ CapsInv
  BY InitInv, CapsInit
<1>2. IInv /\ CapsInv /\ [Next]_vars => IInv' /\ CapsInv'
  BY NextInv, CapsNext
<1>3. CapsInv => ProbesWithinCaps
  BY DEF CapsInv, ProbesWithinCaps, Sound
<1> QED
  BY <1>1, <1>2, <1>3, PTL DEF Spec

-----------------------------------------------------------------------------
(* ConductorSession implements SessionLifecycle: whatever turns, the beat  *)
(* task, voice connections and crashes do to each other, a reader sees     *)
(* whole turns being appended and one ending.                              *)

(* An empty log is an abstract log. *)
LEMMA InitRefines == Init => Lifecycle!Init
BY DEF Init, EmptyRow, Lifecycle!Init

(* The abstract log has the same events. *)
LEMMA SameEvents ==
  ASSUME NEW t, NEW d, NEW s, NEW r
  PROVE  /\ Lifecycle!TurnEvents(t, d, s) = TurnEvents(t, d, s)
         /\ Lifecycle!SessionEnded(r) = SessionEnded(r)
BY DEF TurnEvents, UserTurn, ModelReply, DecisionMade, StateTransition, SessionEnded,
       Lifecycle!TurnEvents, Lifecycle!UserTurn, Lifecycle!ModelReply,
       Lifecycle!DecisionMade, Lifecycle!StateTransition, Lifecycle!SessionEnded

(* What a turn appends ends in a state. *)
LEMMA BatchEndsInState ==
  ASSUME NEW t \in Turn, NEW d \in Decision \cup {NoDecision}, NEW s \in State,
         NEW events \in Seq(Event)
  PROVE  LET all == events \o TurnEvents(t, d, s)
         IN  Len(all) > Len(events) /\ all[Len(all)] = StateTransition(s)
<1> DEFINE first == <<UserTurn(t), ModelReply(t)>>
                    \o (IF d = NoDecision THEN <<>> ELSE <<DecisionMade(d)>>)
           left == <<StateTransition(s)>>
           batch == TurnEvents(t, d, s)
<1>1. batch = first \o left
  BY DEF TurnEvents
<1>2. batch \in Seq(Event)
  BY TurnEventsType
<1>3. first \in Seq(Event)
  <2>1. <<UserTurn(t), ModelReply(t)>> \in Seq(Event)
    BY DEF UserTurn, ModelReply, Event
  <2>2. d # NoDecision => DecisionMade(d) \in Event
    BY DEF DecisionMade, Event
  <2>3. (IF d = NoDecision THEN <<>> ELSE <<DecisionMade(d)>>) \in Seq(Event)
    BY <2>2
  <2> QED
    BY <2>1, <2>3
<1>4. StateTransition(s) \in Event
  BY DEF StateTransition, Event
<1> HIDE DEF first, batch
<1>5. Len(batch) = Len(first) + 1 /\ batch[Len(first) + 1] = StateTransition(s)
  BY <1>1, <1>3, <1>4
<1>6. Len(events \o batch) = Len(events) + Len(batch)
      /\ (events \o batch)[Len(events) + Len(batch)] = batch[Len(batch)]
  BY <1>2, <1>3, <1>5
<1> QED
  BY <1>2, <1>3, <1>5, <1>6 DEF batch

(* Committing a turn's append is one abstract append. *)
LEMMA CommitAppendRefines ==
  ASSUME IInv, NEW t \in Turn, CommitAppend(t)
  PROVE  Lifecycle!AppendTurn(t, work[t].decision)
<1> DEFINE d == work[t].decision
           s == work[t].state
           batch == TurnEvents(t, d, s)
<1>0. TypeOK /\ t \in Process /\ d \in Decision \cup {NoDecision} /\ s \in State
  BY ProcessFacts DEF IInv, Core, TypeOK, Work
<1>1. base[t] = Len(log)
  BY <1>0 DEF IInv, Core, NoSeqConflict, CommitAppend
<1>2. log' = log \o batch /\ UNCHANGED <<row, participation>>
  BY <1>1 DEF CommitAppend
<1>3. Len(log') > Len(log) /\ log'[Len(log')] = StateTransition(s)
  BY <1>0, <1>2, BatchEndsInState DEF TypeOK
<1> HIDE DEF batch, d, s
<1>4. Last(log') = StateTransition(s)
  BY <1>3 DEF Last
<1>5. Last(log').kind = "state_transition" /\ Last(log').state = s
  BY <1>4 DEF StateTransition
<1>6. Lifecycle!TurnEvents(t, d, s) = batch
  BY SameEvents DEF batch
<1>7. s \in Lifecycle!State
  BY <1>0 DEF State, Lifecycle!State, Phase, Lifecycle!Phase, Cursor, Lifecycle!Cursor,
              Action, Lifecycle!Action
<1> QED
  BY <1>2, <1>3, <1>5, <1>6, <1>7 DEF Lifecycle!AppendTurn, d, Last, Lifecycle!Last

(* So is committing a completion. *)
LEMMA CommitCompletionRefines ==
  ASSUME IInv, NEW p \in Process, CommitCompletion(p)
  PROVE  signal[p] \in Reason /\ Lifecycle!End(signal[p])
<1>0. TypeOK
  BY DEF IInv, Core
<1>1. base[p] = Len(log) /\ pc[p] = "written" /\ signal[p] # NoReason
  BY DEF IInv, Core, NoSeqConflict, SignalInv, CommitCompletion
<1>2. signal[p] \in Reason
  BY <1>0, <1>1 DEF TypeOK
<1>3. row.status = "pending"
  BY <1>1 DEF IInv, Core, LockInv
<1>4. /\ row' = [row EXCEPT !.status = "completed"]
      /\ participation' = "completed"
      /\ log' = Append(log, SessionEnded(signal[p]))
  BY <1>1 DEF CommitCompletion
<1>5. row'.status = "completed"
  BY <1>0, <1>4 DEF TypeOK, Row
<1> QED
  BY <1>2, <1>3, <1>4, <1>5, SameEvents DEF Lifecycle!End

(* Every other step is one that readers do not see. *)
Unseen == row'.status = row.status /\ UNCHANGED <<participation, log>>

(* No other step is seen in the log. *)
LEMMA OthersUnseen ==
  ASSUME TypeOK
  PROVE  /\ \A t \in Turn : Load(t) \/ Interrupt(t) \/ Save(t) \/ BeginAppend(t) \/ CheckClosure(t)
                              => Unseen
         /\ \A t \in Turn, d \in LLMDecisions : Decide(t, d) => Unseen
         /\ \A p \in Process : LockSession(p) \/ CompleteSession(p) \/ Crash(p) => Unseen
         /\ \A heard \in SUBSET Turn : ReadForPersist(heard) => Unseen
         /\ \A c \in Conditions : Arise(c) => Unseen
         /\ FindStuck \/ WriteArtifacts => Unseen
<1>1. ASSUME NEW t \in Turn, Save(t) PROVE Unseen
  BY <1>1 DEF Save, Unseen, TypeOK, Row
<1>2. ASSUME WriteArtifacts PROVE Unseen
  BY <1>2 DEF WriteArtifacts, Unseen, TypeOK, Row
<1>3. \A t \in Turn : Load(t) \/ Interrupt(t) \/ BeginAppend(t) \/ CheckClosure(t) => Unseen
  BY DEF Load, Interrupt, BeginAppend, CheckClosure, Unseen
<1>4. \A t \in Turn, d \in LLMDecisions : Decide(t, d) => Unseen
  BY DEF Decide, Unseen
<1>5. \A p \in Process : LockSession(p) \/ CompleteSession(p) \/ Crash(p) => Unseen
  BY DEF LockSession, CompleteSession, Crash, Unseen
<1>6. /\ \A heard \in SUBSET Turn : ReadForPersist(heard) => Unseen
      /\ \A c \in Conditions : Arise(c) => Unseen
      /\ FindStuck => Unseen
  BY DEF ReadForPersist, Arise, FindStuck, Unseen
<1> QED
  BY <1>1, <1>2, <1>3, <1>4, <1>5, <1>6

(* Every step is an abstract step, or a stutter. *)
LEMMA StepRefines ==
  ASSUME IInv, [Next]_vars
  PROVE  [Lifecycle!Next]_<<row.status, participation, log>>
<1>0. TypeOK
  BY DEF IInv, Core
<1>1. ASSUME NEW t \in Turn, CommitAppend(t) PROVE Lifecycle!Next
  <2>1. work[t].decision \in Decision \cup {NoDecision}
    BY <1>0, ProcessFacts DEF TypeOK, Work
  <2>2. work[t].decision \in Lifecycle!Decision \cup {NoDecision}
    BY <2>1 DEF Decision, Lifecycle!Decision, Action, Lifecycle!Action,
                ProbeKind, Lifecycle!ProbeKind
  <2>3. Lifecycle!AppendTurn(t, work[t].decision)
    BY <1>1, CommitAppendRefines
  <2> QED
    BY <2>2, <2>3 DEF Lifecycle!Next
<1>2. ASSUME NEW p \in Process, CommitCompletion(p) PROVE Lifecycle!Next
  <2>1. signal[p] \in Reason /\ Lifecycle!End(signal[p])
    BY <1>2, CommitCompletionRefines
  <2> QED
    BY <2>1 DEF Lifecycle!Next, Reason, Lifecycle!Reason
<1>3. CASE UNCHANGED vars
  BY <1>3 DEF vars
<1>4. Unseen => UNCHANGED <<row.status, participation, log>>
  BY DEF Unseen
<1>5. CASE \E t \in Turn : Load(t) \/ TurnStep(t) \/ Interrupt(t)
  BY <1>0, <1>1, <1>4, <1>5, OthersUnseen DEF TurnStep
<1>6. CASE \E p \in Turn \cup {Beat} : CompletionStep(p)
  BY <1>0, <1>2, <1>4, <1>6, OthersUnseen, ProcessFacts DEF CompletionStep
<1>7. CASE \/ FindStuck \/ WriteArtifacts
           \/ \E heard \in SUBSET Turn : ReadForPersist(heard)
           \/ \E c \in Conditions : Arise(c)
           \/ \E p \in Process : Crash(p)
  BY <1>0, <1>4, <1>7, OthersUnseen
<1> QED
  BY <1>3, <1>5, <1>6, <1>7 DEF Next

(* The event log and the status behave as SessionLifecycle promises.       *)
THEOREM Refinement == Spec => ImplementsLifecycle
<1>1. Init => Lifecycle!Init
  BY InitRefines
<1>2. IInv /\ [Next]_vars => [Lifecycle!Next]_<<row.status, participation, log>>
  BY StepRefines
<1> QED
  BY <1>1, <1>2, Invariance, PTL DEF Spec, ImplementsLifecycle, Lifecycle!Spec

-----------------------------------------------------------------------------
(* Replaying the log *)

(* Replaying a log up to its n-th event *)
Replays(f, log0, n) ==
  f = [i \in 0 .. n |-> IF i = 0 THEN EmptyState ELSE ReplayEvent(f[i - 1], log0[i])]

(* It can be done, for any number of events. *)
LEMMA ReplayExists ==
  ASSUME NEW log0, NEW n \in Nat
  PROVE  \E f : Replays(f, log0, n)
<1> DEFINE None == {k \in Nat : ~ \E f : Replays(f, log0, k)}
<1> SUFFICES ASSUME None # {} PROVE FALSE
  OBVIOUS
<1>1. PICK k \in None : \A j \in None : k <= j
  <2> None \subseteq Nat
    OBVIOUS
  <2> HIDE DEF None
  <2> QED BY LeastExists
<1>2. CASE k = 0
  <2> DEFINE f == [i \in 0 .. 0 |-> EmptyState]
  <2>1. Replays(f, log0, 0)
    BY DEF Replays
  <2> QED BY <1>2, <2>1
<1>3. CASE k # 0
  <2>1. k - 1 \in Nat /\ k - 1 \notin None
    BY <1>1, <1>3
  <2>2. PICK f : Replays(f, log0, k - 1)
    BY <2>1
  <2> DEFINE g == [i \in 0 .. k |-> IF i = k THEN ReplayEvent(f[k - 1], log0[k]) ELSE f[i]]
  <2>3. \A i \in 0 .. k - 1 :
          f[i] = IF i = 0 THEN EmptyState ELSE ReplayEvent(f[i - 1], log0[i])
    BY <2>2 DEF Replays
  <2>4. \A i \in 0 .. k :
          g[i] = IF i = 0 THEN EmptyState ELSE ReplayEvent(g[i - 1], log0[i])
    <3> SUFFICES ASSUME NEW i \in 0 .. k
                 PROVE  g[i] = IF i = 0 THEN EmptyState ELSE ReplayEvent(g[i - 1], log0[i])
      OBVIOUS
    <3>1. CASE i = k
      BY <1>3, <2>1, <3>1
    <3>2. CASE i # k
      <4>1. i \in 0 .. k - 1 /\ g[i] = f[i] /\ (i # 0 => g[i - 1] = f[i - 1])
        BY <2>1, <3>2
      <4> QED BY <2>3, <4>1
    <3> QED BY <3>1, <3>2
  <2>5. Replays(g, log0, k)
    <3> DEFINE h == [i \in 0 .. k |-> IF i = 0 THEN EmptyState ELSE ReplayEvent(g[i - 1], log0[i])]
    <3>1. \A i \in 0 .. k : g[i] = h[i]
      BY <2>4
    <3>2. g = h
      BY <3>1
    <3> QED BY <3>2 DEF Replays
  <2> QED BY <1>1, <2>5
<1> QED BY <1>2, <1>3

(* Two replays of logs that begin with the same n events agree. *)
LEMMA ReplayAgrees ==
  ASSUME NEW log1, NEW log2, NEW n \in Nat, NEW m \in Nat, n <= m,
         \A i \in 1 .. n : log1[i] = log2[i],
         NEW f, NEW g, Replays(f, log1, n), Replays(g, log2, m)
  PROVE  f[n] = g[n]
<1> DEFINE Differ == {i \in 0 .. n : f[i] # g[i]}
<1>1. /\ \A i \in 0 .. n : f[i] = IF i = 0 THEN EmptyState ELSE ReplayEvent(f[i - 1], log1[i])
      /\ \A i \in 0 .. m : g[i] = IF i = 0 THEN EmptyState ELSE ReplayEvent(g[i - 1], log2[i])
  BY DEF Replays
<1> SUFFICES ASSUME Differ # {} PROVE FALSE
  OBVIOUS
<1>2. PICK k \in Differ : \A j \in Differ : k <= j
  <2> Differ \subseteq Nat
    OBVIOUS
  <2> HIDE DEF Differ
  <2> QED BY LeastExists
<1>3. k # 0
  BY <1>1, <1>2
<1>4. k - 1 \in 0 .. n /\ k - 1 \notin Differ
  BY <1>2, <1>3
<1>5. f[k - 1] = g[k - 1] /\ log1[k] = log2[k]
  BY <1>2, <1>3, <1>4
<1>6. f[k] = ReplayEvent(f[k - 1], log1[k]) /\ g[k] = ReplayEvent(g[k - 1], log2[k])
  BY <1>1, <1>2, <1>3
<1> QED BY <1>2, <1>5, <1>6

(* What is reconstructed from a log is where a replay of it ends. *)
LEMMA ReplayEnds ==
  ASSUME NEW log0, Len(log0) \in Nat
  PROVE  \E f : Replays(f, log0, Len(log0)) /\ ReconstructState(log0) = f[Len(log0)]
<1> DEFINE g == CHOOSE f : Replays(f, log0, Len(log0))
<1>1. Replays(g, log0, Len(log0))
  BY ReplayExists
<1>2. ReconstructState(log0) = g[Len(log0)]
  BY DEF ReconstructState, Replays
<1> QED BY <1>1, <1>2

(* No events leave the empty state. *)
LEMMA ReconstructNothing == ReconstructState(<<>>) = EmptyState
<1>1. Len(<<>>) = 0
  OBVIOUS
<1>2. PICK f : Replays(f, <<>>, 0) /\ ReconstructState(<<>>) = f[0]
  BY <1>1, ReplayEnds
<1> QED BY <1>2 DEF Replays

(* One more event is replayed last. *)
LEMMA ReconstructAppend ==
  ASSUME NEW log0 \in Seq(Event), NEW e \in Event
  PROVE  ReconstructState(Append(log0, e)) = ReplayEvent(ReconstructState(log0), e)
<1> DEFINE log1 == Append(log0, e)
           n == Len(log0)
<1>1. /\ n \in Nat /\ Len(log1) = n + 1 /\ log1[n + 1] = e
      /\ \A i \in 1 .. n : log0[i] = log1[i]
  OBVIOUS
<1>2. PICK f : Replays(f, log0, n) /\ ReconstructState(log0) = f[n]
  BY <1>1, ReplayEnds
<1> HIDE DEF log1
<1>3. PICK g : Replays(g, log1, n + 1) /\ ReconstructState(log1) = g[n + 1]
  BY <1>1, ReplayEnds
<1> HIDE DEF n
<1>4. f[n] = g[n]
  BY <1>1, <1>2, <1>3, ReplayAgrees
<1>5. n + 1 \in 0 .. n + 1 /\ n + 1 # 0 /\ (n + 1) - 1 = n
  BY <1>1
<1>6. g[n + 1] = ReplayEvent(g[n], log1[n + 1])
  BY <1>3, <1>5 DEF Replays
<1> QED BY <1>1, <1>2, <1>3, <1>4, <1>6 DEF log1

-----------------------------------------------------------------------------
(* What a turn does to the phase and the grace *)

SameGrace(u, s) ==
  u.phase = s.phase /\ u.rounds = s.rounds /\ u.last_action = s.last_action

(* Counters, the cursor and the set of answered questions are apart. *)
LEMMA UpdatesSameGrace ==
  ASSUME NEW s \in State
  PROVE  /\ \A q \in Cursor : SameGrace(MarkFollowupUsed(s, q), s)
         /\ \A q \in Cursor : SameGrace(MarkDynamicProbeUsed(s, q), s)
         /\ \A q \in Cursor : SameGrace(MarkAnswered(s, q), s)
         /\ \A q \in Cursor : SameGrace(GoTo(s, q), s)
         /\ SameGrace([s EXCEPT !.turn_count = @ + 1], s)
         /\ SameGrace(ResolveState(s), s)
<1>1. \A q \in Cursor : SameGrace(MarkFollowupUsed(s, q), s)
  BY DEF State, SameGrace, MarkFollowupUsed
<1>2. \A q \in Cursor : SameGrace(MarkDynamicProbeUsed(s, q), s)
  BY DEF State, SameGrace, MarkDynamicProbeUsed
<1>3. \A q \in Cursor : SameGrace(MarkAnswered(s, q), s)
  BY DEF State, SameGrace, MarkAnswered
<1>4. \A q \in Cursor : SameGrace(GoTo(s, q), s)
  BY DEF State, SameGrace, GoTo
<1>5. SameGrace([s EXCEPT !.turn_count = @ + 1], s)
  BY DEF State, SameGrace
<1>6. SameGrace(ResolveState(s), s)
  <2>1. ResolveState(s) = s \/ ResolveState(s) = GoTo(s, FirstQuestion)
    BY DEF ResolveState
  <2>2. SameGrace(s, s) /\ FirstQuestion \in Cursor
    BY GuideTypes DEF SameGrace
  <2> QED BY <1>4, <2>1, <2>2
<1> QED BY <1>1, <1>2, <1>3, <1>4, <1>5, <1>6

Closed(u, s) ==
  /\ u.phase = "closing" /\ u.last_action = s.last_action
  /\ u.rounds = IF s.rounds > GraceRounds THEN s.rounds ELSE GraceRounds

(* Closing seeds the grace. *)
LEMMA EnterClosingGrace ==
  ASSUME NEW s \in State PROVE Closed(EnterClosing(s), s)
BY DEF State, Closed, EnterClosing

(* A decision to close, or the end of the guide, is what seeds it. *)
LEMMA EffectGrace ==
  ASSUME NEW s \in State, NEW d \in Decision
  PROVE  \/ SameGrace(Effect(s, d), s) /\ d.action # "close"
         \/ Closed(Effect(s, d), s) /\ (d.action = "close" \/ s.phase # "closing")
<1> DEFINE t == MarkAnswered(s, s.current)
<1>0. s.current \in Cursor /\ d.next \in Cursor
  BY DEF State, Decision, Cursor
<1>1. t \in State /\ SameGrace(t, s)
  <2>1. t \in State
    BY <1>0 DEF MarkAnswered, State
  <2> QED BY <1>0, <2>1, UpdatesSameGrace
<1>2. CASE d.action = "followup"
  <2>1. SameGrace(Followup(s, d), s)
    BY <1>0, UpdatesSameGrace DEF Followup
  <2> QED BY <1>2, <2>1 DEF Effect
<1>3. CASE d.action = "move_on"
  <2> HIDE DEF t
  <2>1. SameGrace(GoTo(t, d.next), t)
    BY <1>0, <1>1, UpdatesSameGrace
  <2>2. Closed(EnterClosing(t), t)
    BY <1>1, EnterClosingGrace
  <2>3. \/ Advance(s, d) \in {t, GoTo(t, d.next)}
        \/ Advance(s, d) = EnterClosing(t) /\ t.phase # "closing"
    BY DEF Advance, t
  <2>4. Effect(s, d) = Advance(s, d)
    BY <1>3 DEF Effect
  <2>5. CASE Advance(s, d) \in {t, GoTo(t, d.next)}
    BY <1>1, <1>3, <2>1, <2>4, <2>5 DEF SameGrace
  <2>6. CASE Advance(s, d) = EnterClosing(t) /\ t.phase # "closing"
    BY <1>1, <1>3, <2>2, <2>4, <2>6 DEF SameGrace, Closed
  <2> QED BY <2>3, <2>5, <2>6
<1>4. CASE d.action = "close"
  BY <1>4, EnterClosingGrace DEF Effect
<1>5. CASE d.action = "clarify"
  BY <1>5 DEF Effect, SameGrace
<1>6. d.action \in {"followup", "move_on", "close", "clarify"}
  BY DEF Decision, Action
<1> QED BY <1>2, <1>3, <1>4, <1>5, <1>6

(* A round is used up, if there is one. *)
LEMMA ConsumeGrace ==
  ASSUME NEW s \in State, s.phase = "closing"
  PROVE  /\ ConsumeClosingRound(s).phase = "closing"
         /\ ConsumeClosingRound(s).last_action = s.last_action
         /\ ConsumeClosingRound(s).rounds = IF s.rounds > 0 THEN s.rounds - 1 ELSE 0
<1> DEFINE n == s.rounds - 1
<1>1. s.rounds \in Nat /\ s = [s EXCEPT !.rounds = s.rounds]
  BY DEF State
<1>2. ConsumeClosingRound(s) = IF s.rounds > 0 THEN [s EXCEPT !.rounds = n] ELSE s
  BY DEF ConsumeClosingRound
<1> HIDE DEF n
<1>3. /\ [s EXCEPT !.rounds = n].phase = "closing" /\ [s EXCEPT !.rounds = n].rounds = n
      /\ [s EXCEPT !.rounds = n].last_action = s.last_action
  BY DEF State
<1>4. CASE s.rounds > 0
  BY <1>2, <1>3, <1>4 DEF n
<1>5. CASE ~(s.rounds > 0)
  BY <1>1, <1>2, <1>5
<1> QED BY <1>4, <1>5

ToClose(d) == d # NoDecision /\ d.action = "close"

(* A turn in closing uses up a round of the grace, one that closes gives   *)
(* all rounds but the one it takes itself, and one that enters closing all.*)
LEMMA ApplyGrace ==
  ASSUME NEW s \in State, NEW d \in Decision \cup {NoDecision}, s.rounds <= GraceRounds
  PROVE  LET u == ApplyDecision(s, d)
         IN  /\ u.last_action = IF d = NoDecision THEN s.last_action ELSE d.action
             /\ s.phase = "closing" =>
                  /\ u.phase = "closing"
                  /\ u.rounds = IF ToClose(d) THEN GraceRounds - 1
                                ELSE IF s.rounds > 0 THEN s.rounds - 1 ELSE 0
             /\ s.phase # "closing" =>
                  \/ u.phase = "closing" /\ u.rounds = GraceRounds
                  \/ u.phase = s.phase /\ u.rounds = s.rounds /\ ~ToClose(d)
<1> DEFINE counted == [s EXCEPT !.turn_count = @ + 1]
           noted   == [counted EXCEPT !.last_action = d.action]
           decided == IF d = NoDecision THEN counted ELSE Effect(noted, d)
           u == ApplyDecision(s, d)
<1>1. counted \in State /\ SameGrace(counted, s)
  BY CounterTypes, UpdatesSameGrace
<1>2. /\ decided \in State
      /\ decided.last_action = IF d = NoDecision THEN s.last_action ELSE d.action
      /\ \/ decided.phase = s.phase /\ decided.rounds = s.rounds /\ ~ToClose(d)
         \/ /\ decided.phase = "closing" /\ decided.rounds = GraceRounds
            /\ ToClose(d) \/ s.phase # "closing"
  <2>1. CASE d = NoDecision
    BY <1>1, <2>1 DEF SameGrace, ToClose
  <2>2. CASE d # NoDecision
    <3>1. d \in Decision /\ d.action \in Action
      BY <2>2 DEF Decision
    <3> HIDE DEF counted
    <3>2. /\ noted \in State /\ noted.phase = counted.phase /\ noted.rounds = counted.rounds
          /\ noted.last_action = d.action
      BY <1>1, <3>1 DEF State
    <3> HIDE DEF noted
    <3>3. decided = Effect(noted, d) /\ Effect(noted, d) \in State
      BY <2>2, <3>1, <3>2, EffectType
    <3> HIDE DEF decided
    <3>4. \/ SameGrace(decided, noted) /\ d.action # "close"
          \/ Closed(decided, noted) /\ (d.action = "close" \/ noted.phase # "closing")
      BY <3>1, <3>2, <3>3, EffectGrace
    <3>5. s.rounds \in Nat /\ GraceRounds \in Nat
      BY DEF State, GraceRounds
    <3> QED
      BY <1>1, <2>2, <3>2, <3>3, <3>4, <3>5 DEF SameGrace, Closed, ToClose
  <2> QED BY <2>1, <2>2
<1>3. u = IF s.phase = "closing" THEN ConsumeClosingRound(decided) ELSE decided
  BY DEF ApplyDecision
<1> HIDE DEF decided, u
<1>4. CASE s.phase # "closing"
  BY <1>2, <1>3, <1>4 DEF u
<1>5. CASE s.phase = "closing"
  <2>1. u = ConsumeClosingRound(decided)
    BY <1>3, <1>5
  <2>2. decided.rounds \in Nat /\ decided.phase = "closing"
    BY <1>2, <1>5, StateFields
  <2>3. /\ u.phase = "closing" /\ u.last_action = decided.last_action
        /\ u.rounds = IF decided.rounds > 0 THEN decided.rounds - 1 ELSE 0
    BY <1>2, <2>1, <2>2, ConsumeGrace
  <2>4. s.rounds \in Nat
    BY StateFields
  <2> QED BY <1>2, <1>5, <2>2, <2>3, <2>4 DEF u, GraceRounds
<1> QED BY <1>4, <1>5

(* Whatever is left of the grace, the action of the decision is noted. *)
LEMMA ApplyNotes ==
  ASSUME NEW s \in State, NEW d \in Decision \cup {NoDecision}
  PROVE  ApplyDecision(s, d).last_action = IF d = NoDecision THEN s.last_action ELSE d.action
<1> DEFINE counted == [s EXCEPT !.turn_count = @ + 1]
           noted   == [counted EXCEPT !.last_action = d.action]
           decided == IF d = NoDecision THEN counted ELSE Effect(noted, d)
           u == ApplyDecision(s, d)
<1>1. counted \in State /\ SameGrace(counted, s)
  BY CounterTypes, UpdatesSameGrace
<1>2. /\ decided \in State
      /\ s.phase = "closing" => decided.phase = "closing"
      /\ decided.last_action = IF d = NoDecision THEN s.last_action ELSE d.action
  <2>1. CASE d = NoDecision
    BY <1>1, <2>1 DEF SameGrace
  <2>2. CASE d # NoDecision
    <3>1. d \in Decision /\ d.action \in Action
      BY <2>2 DEF Decision
    <3> HIDE DEF counted
    <3>2. noted \in State /\ noted.phase = counted.phase /\ noted.last_action = d.action
      BY <1>1, <3>1 DEF State
    <3> HIDE DEF noted
    <3>3. decided = Effect(noted, d) /\ Effect(noted, d) \in State
      BY <2>2, <3>1, <3>2, EffectType
    <3> HIDE DEF decided
    <3>4. SameGrace(decided, noted) \/ Closed(decided, noted)
      BY <3>1, <3>2, <3>3, EffectGrace
    <3> QED BY <1>1, <2>2, <3>2, <3>3, <3>4 DEF SameGrace, Closed
  <2> QED BY <2>1, <2>2
<1>3. u = IF s.phase = "closing" THEN ConsumeClosingRound(decided) ELSE decided
  BY DEF ApplyDecision
<1> HIDE DEF decided, u
<1>4. s.phase = "closing" => ConsumeClosingRound(decided).last_action = decided.last_action
  BY <1>2, ConsumeGrace
<1> QED BY <1>2, <1>3, <1>4 DEF u

(* Replaying a decision notes its action, and leaves a state. *)
LEMMA ReplayNotes ==
  ASSUME NEW s \in State, NEW d \in Decision
  PROVE  ReplayDecision(s, d).last_action = d.action /\ ReplayDecision(s, d) \in State
<1> DEFINE t == [s EXCEPT !.last_action = d.action]
<1>1. t \in State /\ t.last_action = d.action /\ t.current \in Cursor
  BY DEF State, Decision
<1>2. d.action \in {"followup", "move_on", "close", "clarify"}
  BY DEF Decision, Action
<1>3. \/ ReplayDecision(s, d) = t
      \/ ReplayDecision(s, d) = Followup(t, d)
      \/ ReplayDecision(s, d) = MarkAnswered(t, t.current)
      \/ ReplayDecision(s, d) = EnterClosing(t)
  BY <1>2 DEF ReplayDecision
<1> HIDE DEF t
<1>4. Followup(t, d) \in State /\ Followup(t, d).last_action = t.last_action
  BY <1>1, CounterTypes, UpdatesSameGrace DEF Followup, SameGrace
<1>5. MarkAnswered(t, t.current) \in State
  BY <1>1 DEF MarkAnswered, State
<1>6. MarkAnswered(t, t.current).last_action = t.last_action
  BY <1>1, UpdatesSameGrace DEF SameGrace
<1>7. EnterClosing(t) \in State
  BY <1>1 DEF EnterClosing, State, Phase, GraceRounds
<1>8. EnterClosing(t).last_action = t.last_action
  BY <1>1, EnterClosingGrace DEF Closed
<1> QED BY <1>1, <1>3, <1>4, <1>5, <1>6, <1>7, <1>8

Exchange(log0, t) == Append(Append(log0, UserTurn(t)), ModelReply(t))

Decided(log0, d) == IF d = NoDecision THEN log0 ELSE Append(log0, DecisionMade(d))

(* The events of a turn, one behind the other *)
LEMMA TurnAppends ==
  ASSUME NEW log0 \in Seq(Event), NEW t \in Turn, NEW d \in Decision \cup {NoDecision},
         NEW u \in State
  PROVE  /\ UserTurn(t) \in Event /\ ModelReply(t) \in Event /\ StateTransition(u) \in Event
         /\ d # NoDecision => DecisionMade(d) \in Event
         /\ Exchange(log0, t) \in Seq(Event)
         /\ Decided(Exchange(log0, t), d) \in Seq(Event)
         /\ log0 \o TurnEvents(t, d, u)
              = Append(Decided(Exchange(log0, t), d), StateTransition(u))
<1> DEFINE e1 == UserTurn(t)
           e2 == ModelReply(t)
           e3 == DecisionMade(d)
           e4 == StateTransition(u)
           batch == IF d = NoDecision THEN <<>> ELSE <<e3>>
           pair == <<e1, e2>>
<1>1. e1 \in Event /\ e2 \in Event /\ e4 \in Event /\ (d # NoDecision => e3 \in Event)
  BY DEF Event, UserTurn, ModelReply, StateTransition, DecisionMade
<1>2. TurnEvents(t, d, u) = (pair \o batch) \o <<e4>>
  BY DEF TurnEvents
<1>3. Exchange(log0, t) = Append(Append(log0, e1), e2)
  BY DEF Exchange
<1>4. Decided(Exchange(log0, t), d)
        = IF d = NoDecision THEN Exchange(log0, t) ELSE Append(Exchange(log0, t), e3)
  BY DEF Decided
<1> HIDE DEF e1, e2, e3, e4
<1>5. pair \in Seq(Event) /\ batch \in Seq(Event)
  BY <1>1
<1>6. log0 \o pair = Exchange(log0, t) /\ Exchange(log0, t) \in Seq(Event)
  BY <1>1, <1>3, PairAppended
<1> HIDE DEF pair
<1>7. log0 \o (pair \o batch) = Decided(Exchange(log0, t), d)
  <2>1. CASE d = NoDecision
    <3>1. pair \o batch = pair
      BY <1>5, <2>1
    <3> QED BY <1>4, <1>6, <2>1, <3>1
  <2>2. CASE d # NoDecision
    <3>1. batch = <<e3>> /\ e3 \in Event
      BY <1>1, <2>2
    <3>2. log0 \o (pair \o <<e3>>) = Append(log0 \o pair, e3)
      BY <1>5, <3>1, OneMoreAppended
    <3> QED BY <1>4, <1>6, <2>2, <3>1, <3>2
  <2> QED BY <2>1, <2>2
<1> HIDE DEF batch
<1>8. pair \o batch \in Seq(Event)
  BY <1>5
<1>9. log0 \o ((pair \o batch) \o <<e4>>) = Append(log0 \o (pair \o batch), e4)
  BY <1>1, <1>8, OneMoreAppended
<1>10. Decided(Exchange(log0, t), d) \in Seq(Event)
  BY <1>1, <1>4, <1>6
<1> QED BY <1>1, <1>2, <1>6, <1>7, <1>9, <1>10 DEF e1, e2, e3, e4

(* The events of a turn replay to the state the turn left. *)
LEMMA ReplayTurn ==
  ASSUME NEW log0 \in Seq(Event), NEW t \in Turn, NEW d \in Decision \cup {NoDecision},
         NEW u \in State, ReconstructState(log0) \in State,
         u.last_action = IF d = NoDecision THEN ReconstructState(log0).last_action ELSE d.action
  PROVE  ReconstructState(log0 \o TurnEvents(t, d, u)) = u
<1> DEFINE s == ReconstructState(log0)
           log2 == Exchange(log0, t)
           log3 == Decided(log2, d)
<1>1. ReplayEvent(s, UserTurn(t)) = s /\ ReplayEvent(s, ModelReply(t)) = s
  BY DEF ReplayEvent, UserTurn, ModelReply
<1>2. log2 \in Seq(Event) /\ ReconstructState(log2) = s
  <2> DEFINE log1 == Append(log0, UserTurn(t))
  <2>1. UserTurn(t) \in Event /\ ModelReply(t) \in Event
    BY TurnAppends
  <2>2. log1 \in Seq(Event) /\ ReconstructState(log1) = s
    BY <1>1, <2>1, ReconstructAppend
  <2>3. log2 = Append(log1, ModelReply(t))
    BY DEF Exchange
  <2> HIDE DEF log1, log2, s
  <2>4. ReconstructState(Append(log1, ModelReply(t))) = ReplayEvent(s, ModelReply(t))
    BY <2>1, <2>2, ReconstructAppend
  <2> QED BY <1>1, <2>1, <2>2, <2>3, <2>4
<1>3. log3 \in Seq(Event)
  BY TurnAppends
<1>4. ReconstructState(log3) \in State /\ ReconstructState(log3).last_action = u.last_action
  <2>1. CASE d = NoDecision
    BY <1>2, <2>1 DEF Decided
  <2>2. CASE d # NoDecision
    <3>1. d \in Decision /\ DecisionMade(d) \in Event
      BY <2>2, TurnAppends
    <3>2. ReplayEvent(s, DecisionMade(d)) = ReplayDecision(s, d)
      BY DEF ReplayEvent, DecisionMade
    <3>3. log3 = Append(log2, DecisionMade(d))
      BY <2>2 DEF Decided
    <3>4. ReplayDecision(s, d) \in State /\ ReplayDecision(s, d).last_action = d.action
      BY <3>1, ReplayNotes
    <3> HIDE DEF log2, log3, s
    <3>5. ReconstructState(Append(log2, DecisionMade(d))) = ReplayEvent(s, DecisionMade(d))
      BY <1>2, <3>1, ReconstructAppend
    <3> QED BY <2>2, <3>2, <3>3, <3>4, <3>5
  <2> QED BY <2>1, <2>2
<1>5. log0 \o TurnEvents(t, d, u) = Append(log3, StateTransition(u)) /\ StateTransition(u) \in Event
  BY TurnAppends
<1>6. \A v \in State : v.last_action = u.last_action => ReplayEvent(v, StateTransition(u)) = u
  BY DEF ReplayEvent, StateTransition, State
<1> HIDE DEF log3
<1>7. ReconstructState(Append(log3, StateTransition(u)))
        = ReplayEvent(ReconstructState(log3), StateTransition(u))
  BY <1>3, <1>5, ReconstructAppend
<1> QED BY <1>4, <1>5, <1>6, <1>7

(* The end of the session *)
LEMMA EndEvent ==
  ASSUME NEW r \in Reason PROVE SessionEnded(r) \in Event
BY DEF SessionEnded, Event

-----------------------------------------------------------------------------
(* What the properties count in a log *)

UsersIn(log0) == {i \in DOMAIN log0 : log0[i].kind = "user_turn"}

EndIn(log0) == \E i \in DOMAIN log0 : IsEnd(log0[i])

InClosing(e) == e.kind = "state_transition" /\ e.state.phase = "closing"

ClosingIn(log0) ==
  {i \in DOMAIN log0 : InClosing(log0[i]) /\ \A j \in 1 .. i : ~IsEnd(log0[j])}

SinceCloseIn(log0) ==
  {i \in ClosingIn(log0) : \A j \in DOMAIN log0 : Closes(log0[j]) => j < i}

(* They are what the properties count in the session's log. *)
LEMMA CountedInLog ==
  UserTurns = UsersIn(log) /\ ClosingExchanges = ClosingIn(log)
  /\ SinceLastClose = SinceCloseIn(log)
BY DEF UserTurns, UsersIn, ClosingExchanges, ClosingIn, InClosing, SinceLastClose, SinceCloseIn

(* What an event adds at the end of a log *)
Adds(log0, e, log1) ==
  LET n == Len(log0) + 1
  IN  /\ UsersIn(log1) = UsersIn(log0) \cup (IF e.kind = "user_turn" THEN {n} ELSE {})
      /\ EndIn(log1) <=> EndIn(log0) \/ IsEnd(e)
      /\ ClosingIn(log1)
           = ClosingIn(log0) \cup (IF InClosing(e) /\ ~EndIn(log0) THEN {n} ELSE {})
      /\ SinceCloseIn(log1)
           = IF Closes(e) THEN {}
             ELSE SinceCloseIn(log0) \cup (IF InClosing(e) /\ ~EndIn(log0) THEN {n} ELSE {})

(* One more event adds just that. *)
LEMMA OneMoreEvent ==
  ASSUME NEW log0 \in Seq(Event), NEW e \in Event
  PROVE  Adds(log0, e, Append(log0, e))
<1> DEFINE log1 == Append(log0, e)
           n == Len(log0) + 1
           last == IF InClosing(e) /\ ~EndIn(log0) THEN {n} ELSE {}
<1>1. /\ Len(log0) \in Nat /\ n \in Nat /\ DOMAIN log0 = 1 .. Len(log0) /\ DOMAIN log1 = 1 .. n
      /\ log1[n] = e /\ n \notin DOMAIN log0
      /\ \A i \in DOMAIN log0 : log1[i] = log0[i] /\ i < n
  OBVIOUS
<1>2. DOMAIN log1 = DOMAIN log0 \cup {n}
  BY <1>1
<1>3. InClosing(e) => ~IsEnd(e) /\ ~Closes(e)
  BY DEF InClosing, IsEnd, Closes
<1> HIDE DEF log1
<1>4. UsersIn(log1) = UsersIn(log0) \cup (IF e.kind = "user_turn" THEN {n} ELSE {})
  <2> HIDE DEF n
  <2> QED BY <1>1, <1>2 DEF UsersIn
<1>5. EndIn(log1) <=> EndIn(log0) \/ IsEnd(e)
  <2> HIDE DEF n
  <2> QED BY <1>1, <1>2 DEF EndIn
<1>6. ClosingIn(log1) = ClosingIn(log0) \cup last
  <2>1. ASSUME NEW i \in DOMAIN log0 PROVE i \in ClosingIn(log1) <=> i \in ClosingIn(log0)
    <3>1. i \in DOMAIN log1 /\ log1[i] = log0[i]
      BY <1>1, <1>2
    <3>2. \A j \in 1 .. i : j \in DOMAIN log0 /\ log1[j] = log0[j]
      BY <1>1
    <3> QED BY <3>1, <3>2 DEF ClosingIn
  <2>2. n \in ClosingIn(log1) <=> InClosing(e) /\ ~EndIn(log0)
    <3>1. (\A j \in 1 .. n : ~IsEnd(log1[j])) <=> ~EndIn(log0) /\ ~IsEnd(e)
      <4>1. 1 .. n = DOMAIN log0 \cup {n}
        BY <1>1
      <4> HIDE DEF n
      <4> QED BY <1>1, <4>1 DEF EndIn
    <3> HIDE DEF n
    <3> QED BY <1>1, <1>2, <1>3, <3>1 DEF ClosingIn
  <2>3. ClosingIn(log0) \subseteq DOMAIN log0 /\ ClosingIn(log1) \subseteq DOMAIN log0 \cup {n}
    BY <1>2 DEF ClosingIn
  <2> HIDE DEF n
  <2> QED BY <1>1, <2>1, <2>2, <2>3
<1>7. SinceCloseIn(log1) = IF Closes(e) THEN {} ELSE SinceCloseIn(log0) \cup last
  <2>1. ClosingIn(log0) \subseteq DOMAIN log0
    BY DEF ClosingIn
  <2>2. CASE Closes(e)
    <3>1. \A i \in ClosingIn(log1) : i \in DOMAIN log1 /\ ~(n < i)
      <4>1. \A i \in DOMAIN log1 : ~(n < i)
        BY <1>1
      <4> QED BY <4>1 DEF ClosingIn
    <3>2. n \in DOMAIN log1 /\ Closes(log1[n])
      BY <1>1, <1>2, <2>2
    <3> HIDE DEF n
    <3> QED BY <2>2, <3>1, <3>2 DEF SinceCloseIn
  <2>3. CASE ~Closes(e)
    <3>1. \A i \in DOMAIN log0 :
            (\A j \in DOMAIN log1 : Closes(log1[j]) => j < i)
              <=> (\A j \in DOMAIN log0 : Closes(log0[j]) => j < i)
      <4> HIDE DEF n
      <4> QED BY <1>1, <1>2, <2>3
    <3>2. \A j \in DOMAIN log1 : Closes(log1[j]) => j < n
      <4> HIDE DEF n
      <4> QED BY <1>1, <1>2, <2>3
    <3>3. last \subseteq {n}
      OBVIOUS
    <3> HIDE DEF n, last
    <3> QED BY <1>6, <2>1, <2>3, <3>1, <3>2, <3>3 DEF SinceCloseIn
  <2> QED BY <2>2, <2>3
<1> QED BY <1>4, <1>5, <1>6, <1>7 DEF log1, Adds

(* They are finite, and all before what comes next. *)
LEMMA CountsAreFinite ==
  ASSUME NEW log0 \in Seq(Event)
  PROVE  /\ IsFiniteSet(UsersIn(log0)) /\ IsFiniteSet(ClosingIn(log0))
         /\ IsFiniteSet(SinceCloseIn(log0))
         /\ UsersIn(log0) \subseteq DOMAIN log0 /\ ClosingIn(log0) \subseteq DOMAIN log0
         /\ SinceCloseIn(log0) \subseteq ClosingIn(log0)
         /\ \A n \in Nat : n > Len(log0) => n \notin DOMAIN log0
         /\ DOMAIN log0 \subseteq Nat \ {0}
<1>1. Len(log0) \in Nat /\ DOMAIN log0 = 1 .. Len(log0)
  OBVIOUS
<1>2. IsFiniteSet(DOMAIN log0)
  BY <1>1, FS_Interval
<1>3. /\ UsersIn(log0) \subseteq DOMAIN log0 /\ ClosingIn(log0) \subseteq DOMAIN log0
      /\ SinceCloseIn(log0) \subseteq ClosingIn(log0)
  BY DEF UsersIn, ClosingIn, SinceCloseIn
<1>4. SinceCloseIn(log0) \subseteq DOMAIN log0
  BY <1>3
<1> QED BY <1>1, <1>2, <1>3, <1>4, FS_Subset

(* What a turn adds: an exchange to the transcript, and one to those in    *)
(* closing when it leaves the session there and the session has not ended; *)
(* a decision to close has the count start again.                          *)
TurnAdds(log0, t, d, u, log1) ==
  LET left == u.phase = "closing" /\ ~EndIn(log0)
  IN  /\ log1 \in Seq(Event)
      /\ EndIn(log1) <=> EndIn(log0)
      /\ \A i \in DOMAIN log0 : i \in DOMAIN log1 /\ log1[i] = log0[i]
      /\ UsersIn(log1) = UsersIn(log0) \cup {Len(log0) + 1}
      /\ log1[Len(log0) + 1] = UserTurn(t)
      /\ \E n \in Nat :
           /\ n > Len(log0)
           /\ ClosingIn(log1) = ClosingIn(log0) \cup (IF left THEN {n} ELSE {})
           /\ SinceCloseIn(log1) = (IF ToClose(d) THEN {} ELSE SinceCloseIn(log0))
                                   \cup (IF left THEN {n} ELSE {})

(* The events of a turn add just that. *)
LEMMA TurnCounts ==
  ASSUME NEW log0 \in Seq(Event), NEW t \in Turn, NEW d \in Decision \cup {NoDecision},
         NEW u \in State
  PROVE  TurnAdds(log0, t, d, u, log0 \o TurnEvents(t, d, u))
<1> DEFINE e1 == UserTurn(t)
           e2 == ModelReply(t)
           e3 == DecisionMade(d)
           e4 == StateTransition(u)
           log1 == Append(log0, e1)
           log2 == Append(log1, e2)
           log3 == Decided(log2, d)
           log4 == Append(log3, e4)
           left == u.phase = "closing" /\ ~EndIn(log0)
<1>1. /\ e1 \in Event /\ e2 \in Event /\ e4 \in Event /\ (d # NoDecision => e3 \in Event)
      /\ log3 \in Seq(Event) /\ log0 \o TurnEvents(t, d, u) = log4
  BY TurnAppends DEF Exchange
<1>2. /\ e1.kind = "user_turn" /\ ~IsEnd(e1) /\ ~InClosing(e1) /\ ~Closes(e1)
      /\ e2.kind # "user_turn" /\ ~IsEnd(e2) /\ ~InClosing(e2) /\ ~Closes(e2)
      /\ e3.kind # "user_turn" /\ ~IsEnd(e3) /\ ~InClosing(e3)
      /\ Closes(e3) <=> d.action = "close"
      /\ e4.kind # "user_turn" /\ ~IsEnd(e4) /\ ~Closes(e4)
      /\ InClosing(e4) <=> u.phase = "closing"
  BY DEF UserTurn, ModelReply, DecisionMade, StateTransition, IsEnd, InClosing, Closes
<1> HIDE DEF e1, e2, e3, e4
<1>3. log1 \in Seq(Event) /\ log2 \in Seq(Event) /\ log4 \in Seq(Event)
  BY <1>1
<1>4. /\ Len(log0) \in Nat /\ DOMAIN log0 = 1 .. Len(log0)
      /\ Len(log1) = Len(log0) + 1 /\ DOMAIN log1 = 1 .. Len(log0) + 1
      /\ log1[Len(log0) + 1] = e1 /\ \A i \in DOMAIN log0 : log1[i] = log0[i]
  BY <1>1
<1>5. /\ UsersIn(log1) = UsersIn(log0) \cup {Len(log0) + 1}
      /\ EndIn(log1) <=> EndIn(log0)
      /\ ClosingIn(log1) = ClosingIn(log0)
      /\ SinceCloseIn(log1) = SinceCloseIn(log0)
  <2>1. Adds(log0, e1, log1)
    BY <1>1, OneMoreEvent
  <2> HIDE DEF log1
  <2> QED BY <1>2, <2>1 DEF Adds
<1> HIDE DEF log1
<1>6. /\ UsersIn(log2) = UsersIn(log1)
      /\ EndIn(log2) <=> EndIn(log1)
      /\ ClosingIn(log2) = ClosingIn(log1)
      /\ SinceCloseIn(log2) = SinceCloseIn(log1)
  <2>1. Adds(log1, e2, log2)
    BY <1>1, <1>3, OneMoreEvent
  <2> HIDE DEF log2
  <2> QED BY <1>2, <2>1 DEF Adds
<1>7. Len(log2) > Len(log0) /\ \A i \in DOMAIN log1 : i \in DOMAIN log2 /\ log2[i] = log1[i]
  BY <1>1, <1>3, <1>4
<1> HIDE DEF log2
<1>8. /\ UsersIn(log3) = UsersIn(log2)
      /\ EndIn(log3) <=> EndIn(log2)
      /\ ClosingIn(log3) = ClosingIn(log2)
      /\ SinceCloseIn(log3) = IF ToClose(d) THEN {} ELSE SinceCloseIn(log2)
      /\ Len(log3) >= Len(log2) /\ \A i \in DOMAIN log2 : i \in DOMAIN log3 /\ log3[i] = log2[i]
  <2>1. CASE d = NoDecision
    <3>1. log3 = log2 /\ Len(log2) \in Nat /\ ~ToClose(d)
      BY <1>3, <2>1 DEF Decided, ToClose
    <3> QED BY <3>1
  <2>2. CASE d # NoDecision
    <3>1. log3 = Append(log2, e3) /\ e3 \in Event /\ (ToClose(d) <=> Closes(e3))
      BY <1>1, <1>2, <2>2 DEF Decided, e3, ToClose
    <3> HIDE DEF log3
    <3>2. /\ UsersIn(log3) = UsersIn(log2)
          /\ EndIn(log3) <=> EndIn(log2)
          /\ ClosingIn(log3) = ClosingIn(log2)
          /\ SinceCloseIn(log3) = IF ToClose(d) THEN {} ELSE SinceCloseIn(log2)
      <4>1. Adds(log2, e3, log3)
        BY <1>3, <3>1, OneMoreEvent
      <4> QED BY <1>2, <3>1, <4>1 DEF Adds
    <3>3. Len(log3) >= Len(log2) /\ \A i \in DOMAIN log2 : i \in DOMAIN log3 /\ log3[i] = log2[i]
      BY <1>3, <3>1
    <3> QED BY <3>2, <3>3
  <2> QED BY <2>1, <2>2
<1> HIDE DEF log3
<1> DEFINE n == Len(log3) + 1
<1>9. /\ UsersIn(log4) = UsersIn(log3)
      /\ EndIn(log4) <=> EndIn(log3)
      /\ ClosingIn(log4)
           = ClosingIn(log3) \cup (IF InClosing(e4) /\ ~EndIn(log3) THEN {n} ELSE {})
      /\ SinceCloseIn(log4)
           = SinceCloseIn(log3) \cup (IF InClosing(e4) /\ ~EndIn(log3) THEN {n} ELSE {})
  <2>1. Adds(log3, e4, log4)
    BY <1>1, OneMoreEvent
  <2> HIDE DEF log4
  <2> QED BY <1>2, <2>1 DEF Adds
<1>10. \A i \in DOMAIN log3 : i \in DOMAIN log4 /\ log4[i] = log3[i]
  BY <1>1
<1>11. n \in Nat /\ n > Len(log0)
  <2>1. Len(log3) \in Nat /\ Len(log2) \in Nat
    BY <1>1, <1>3
  <2> QED BY <1>4, <1>7, <1>8, <2>1
<1>12. InClosing(e4) /\ ~EndIn(log3) <=> left
  BY <1>2, <1>5, <1>6, <1>8
<1>13. \A i \in DOMAIN log0 : i \in DOMAIN log4 /\ log4[i] = log0[i]
  <2>1. \A i \in DOMAIN log0 : i \in DOMAIN log1
    BY <1>4
  <2> QED BY <1>4, <1>7, <1>8, <1>10, <2>1
<1>14. log4[Len(log0) + 1] = e1
  <2>1. Len(log0) + 1 \in DOMAIN log1
    BY <1>4
  <2> QED BY <1>4, <1>7, <1>8, <1>10, <2>1
<1>15. log4 \in Seq(Event)
  BY <1>3
<1> HIDE DEF n, log4, left
<1>16. /\ UsersIn(log4) = UsersIn(log0) \cup {Len(log0) + 1}
       /\ EndIn(log4) <=> EndIn(log0)
       /\ ClosingIn(log4) = ClosingIn(log0) \cup (IF left THEN {n} ELSE {})
       /\ SinceCloseIn(log4) = (IF ToClose(d) THEN {} ELSE SinceCloseIn(log0))
                               \cup (IF left THEN {n} ELSE {})
  BY <1>5, <1>6, <1>8, <1>9, <1>12
<1>17. TurnAdds(log0, t, d, u, log4)
  BY <1>11, <1>13, <1>14, <1>15, <1>16 DEF TurnAdds, e1, left
<1> QED BY <1>1, <1>17

-----------------------------------------------------------------------------
(* The transcript and the grace *)

(* tr holds the exchanges of the log, in its order. *)
Recorded(tr, log0) ==
  /\ Len(tr) = Cardinality(UsersIn(log0))
  /\ \A i \in UsersIn(log0) : tr[Cardinality({j \in UsersIn(log0) : j <= i})] = log0[i].turn

(* An exchange that goes into both is the last of both. *)
LEMMA RecordedTurn ==
  ASSUME NEW log0 \in Seq(Event), NEW tr \in Seq(Turn), Recorded(tr, log0),
         NEW t \in Turn, NEW d \in Decision \cup {NoDecision}, NEW u \in State
  PROVE  Recorded(Append(tr, t), log0 \o TurnEvents(t, d, u))
<1> DEFINE log1 == log0 \o TurnEvents(t, d, u)
           n == Len(log0) + 1
           U == UsersIn(log0)
           tr1 == Append(tr, t)
<1>1. /\ U \cup {n} = UsersIn(log1) /\ log1[n] = UserTurn(t)
      /\ \A i \in DOMAIN log0 : log1[i] = log0[i]
  <2>1. TurnAdds(log0, t, d, u, log1)
    BY TurnCounts
  <2> HIDE DEF log1
  <2> QED BY <2>1 DEF TurnAdds
<1>2. /\ IsFiniteSet(U) /\ U \subseteq DOMAIN log0 /\ n \in Nat
      /\ \A i \in DOMAIN log0 : i \in Nat /\ i < n
  <2>1. IsFiniteSet(U) /\ U \subseteq DOMAIN log0
    BY CountsAreFinite
  <2> QED BY <2>1
<1> HIDE DEF log1
<1>3. n \notin U
  BY <1>2
<1>4. Len(tr) = Cardinality(U) /\ Len(tr) \in Nat
  BY DEF Recorded
<1>5. Cardinality(U \cup {n}) = Cardinality(U) + 1
  <2> HIDE DEF n, U
  <2> QED BY <1>2, <1>3, FS_AddElement
<1>6. /\ Len(tr1) = Len(tr) + 1 /\ tr1[Len(tr) + 1] = t
      /\ \A k \in 1 .. Len(tr) : tr1[k] = tr[k]
  BY <1>4
<1> HIDE DEF tr1
<1>7. ASSUME NEW i \in U PROVE tr1[Cardinality({j \in U \cup {n} : j <= i})] = log1[i].turn
  <2> DEFINE upto == {j \in U : j <= i}
             k == Cardinality(upto)
  <2>1. {j \in U \cup {n} : j <= i} = upto
    BY <1>2
  <2>2. upto \subseteq U /\ i \in upto
    BY <1>2
  <2>3. IsFiniteSet(upto) /\ k \in Nat /\ k <= Cardinality(U)
    <3> HIDE DEF upto, U
    <3> QED BY <1>2, <2>2, FS_Subset, FS_CardinalityType
  <2>4. k # 0
    <3> HIDE DEF upto, U
    <3> QED BY <2>2, <2>3, FS_EmptySet
  <2>5. k \in 1 .. Len(tr)
    <3> HIDE DEF k, U
    <3> QED BY <1>4, <2>3, <2>4
  <2>6. tr[k] = log0[i].turn
    BY DEF Recorded
  <2> HIDE DEF k, upto, U, n
  <2> QED BY <1>1, <1>2, <1>6, <2>1, <2>5, <2>6 DEF k
<1>8. tr1[Cardinality({j \in U \cup {n} : j <= n})] = log1[n].turn
  <2>1. {j \in U \cup {n} : j <= n} = U \cup {n}
    BY <1>2
  <2>2. log1[n].turn = t
    BY <1>1 DEF UserTurn
  <2> HIDE DEF U, n
  <2> QED BY <1>4, <1>5, <1>6, <2>1, <2>2
<1> HIDE DEF U, n
<1>9. /\ Len(tr1) = Cardinality(U \cup {n})
      /\ \A i \in U \cup {n} : tr1[Cardinality({j \in U \cup {n} : j <= i})] = log1[i].turn
  BY <1>4, <1>5, <1>6, <1>7, <1>8
<1>10. Recorded(tr1, log1)
  BY <1>1, <1>9 DEF Recorded
<1> QED BY <1>10 DEF tr1, log1

(* The end of the session is no exchange. *)
LEMMA RecordedEnd ==
  ASSUME NEW log0 \in Seq(Event), NEW tr, Recorded(tr, log0), NEW r \in Reason
  PROVE  Recorded(tr, Append(log0, SessionEnded(r)))
<1> DEFINE log1 == Append(log0, SessionEnded(r))
<1>1. Adds(log0, SessionEnded(r), log1)
  BY EndEvent, OneMoreEvent
<1>2. UsersIn(log0) \subseteq DOMAIN log0 /\ \A i \in DOMAIN log0 : log1[i] = log0[i]
  BY CountsAreFinite
<1> HIDE DEF log1
<1>3. UsersIn(log1) = UsersIn(log0)
  BY <1>1 DEF Adds, SessionEnded
<1>4. Recorded(tr, log1)
  BY <1>2, <1>3 DEF Recorded
<1> QED BY <1>4 DEF log1

-----------------------------------------------------------------------------
Spent(s) == s.phase = "closing" /\ s.rounds = 0

(* What a running session has left of the grace, and what it has had of it *)
Counted(s, log0) ==
  /\ s.rounds <= GraceRounds
  /\ IF s.phase = "closing"
       THEN /\ Cardinality(SinceCloseIn(log0)) + s.rounds <= 1 + GraceRounds
            /\ Cardinality(ClosingIn(log0)) + s.rounds > GraceRounds
       ELSE ClosingIn(log0) = {}

(* The cardinalities are numbers, and the count since the last decision to *)
(* close is bounded.                                                       *)
LEMMA CountedBounds ==
  ASSUME NEW log0 \in Seq(Event), NEW s \in State, Counted(s, log0)
  PROVE  /\ Cardinality(SinceCloseIn(log0)) \in Nat /\ Cardinality(ClosingIn(log0)) \in Nat
         /\ s.phase # "closing" => /\ Cardinality(SinceCloseIn(log0)) = 0
                                   /\ Cardinality(ClosingIn(log0)) = 0
                                   /\ SinceCloseIn(log0) = {}
         /\ Cardinality(SinceCloseIn(log0)) <= 1 + GraceRounds
<1>1. s.rounds \in Nat
  BY StateFields
<1>2. /\ Cardinality(SinceCloseIn(log0)) \in Nat /\ Cardinality(ClosingIn(log0)) \in Nat
      /\ SinceCloseIn(log0) \subseteq ClosingIn(log0)
  BY CountsAreFinite, FS_CardinalityType
<1>3. CASE s.phase = "closing"
  BY <1>1, <1>2, <1>3 DEF Counted, GraceRounds
<1>4. CASE s.phase # "closing"
  <2>1. ClosingIn(log0) = {} /\ SinceCloseIn(log0) = {}
    BY <1>2, <1>4 DEF Counted
  <2> QED BY <1>4, <2>1, FS_EmptySet DEF GraceRounds
<1> QED BY <1>3, <1>4

(* A turn of a session that has not used up its grace keeps the count, and *)
(* replaying its events gives the state it left.                           *)
LEMMA CountedTurn ==
  ASSUME NEW log0 \in Seq(Event), NEW s \in State, s = ReconstructState(log0),
         Counted(s, log0), ~Spent(s), ~EndIn(log0),
         NEW t \in Turn, NEW d \in Decision \cup {NoDecision},
         NEW u \in State, u = ApplyDecision(ResolveState(s), d)
  PROVE  /\ ReconstructState(log0 \o TurnEvents(t, d, u)) = u
         /\ Counted(u, log0 \o TurnEvents(t, d, u))
<1> DEFINE r == ResolveState(s)
           log1 == log0 \o TurnEvents(t, d, u)
           since0 == SinceCloseIn(log0)
           closing0 == ClosingIn(log0)
<1>1. r \in State /\ r.phase = s.phase /\ r.rounds = s.rounds /\ r.last_action = s.last_action
  BY ResolveType, UpdatesSameGrace DEF SameGrace
<1>2. r.rounds <= GraceRounds
  BY <1>1 DEF Counted
<1> HIDE DEF r
<1>3. /\ u.last_action = IF d = NoDecision THEN s.last_action ELSE d.action
      /\ s.phase = "closing" =>
           /\ u.phase = "closing"
           /\ u.rounds = IF ToClose(d) THEN GraceRounds - 1
                         ELSE IF s.rounds > 0 THEN s.rounds - 1 ELSE 0
      /\ s.phase # "closing" =>
           \/ u.phase = "closing" /\ u.rounds = GraceRounds
           \/ u.phase = s.phase /\ u.rounds = s.rounds /\ ~ToClose(d)
  <2>1. u = ApplyDecision(r, d)
    BY DEF r
  <2> QED BY <1>1, <1>2, <2>1, ApplyGrace
<1>4. ReconstructState(log1) = u
  BY <1>3, ReplayTurn
<1>5. PICK n \in Nat :
        /\ n > Len(log0)
        /\ ClosingIn(log1) = closing0 \cup (IF u.phase = "closing" THEN {n} ELSE {})
        /\ SinceCloseIn(log1) = (IF ToClose(d) THEN {} ELSE since0)
                                \cup (IF u.phase = "closing" THEN {n} ELSE {})
  <2>1. TurnAdds(log0, t, d, u, log1)
    BY TurnCounts
  <2> HIDE DEF log1
  <2> QED BY <2>1 DEF TurnAdds
<1> HIDE DEF log1
<1>6. /\ IsFiniteSet(closing0) /\ IsFiniteSet(since0) /\ n \notin closing0 /\ n \notin since0
  BY <1>5, CountsAreFinite
<1>7. /\ Cardinality(since0) \in Nat /\ Cardinality(closing0) \in Nat /\ s.rounds \in Nat
      /\ Cardinality({}) = 0 /\ IsFiniteSet({})
  BY <1>6, StateFields, FS_CardinalityType, FS_EmptySet
<1>8. s.rounds <= GraceRounds
  BY DEF Counted
<1>9. ASSUME u.phase = "closing" PROVE Counted(u, log1)
  <2>1. Cardinality(ClosingIn(log1)) = Cardinality(closing0) + 1
    <3> HIDE DEF closing0, since0
    <3> QED BY <1>5, <1>6, <1>9, FS_AddElement
  <2>2. Cardinality(SinceCloseIn(log1)) = (IF ToClose(d) THEN 0 ELSE Cardinality(since0)) + 1
    <3>1. CASE ToClose(d)
      <4>1. SinceCloseIn(log1) = {} \cup {n}
        BY <1>5, <1>9, <3>1
      <4>2. Cardinality({} \cup {n}) = Cardinality({}) + 1
        BY <1>7, FS_AddElement
      <4> QED BY <1>7, <3>1, <4>1, <4>2
    <3>2. CASE ~ToClose(d)
      <4> HIDE DEF closing0, since0
      <4>1. SinceCloseIn(log1) = since0 \cup {n}
        BY <1>5, <1>9, <3>2
      <4>2. Cardinality(since0 \cup {n}) = Cardinality(since0) + 1
        BY <1>6, FS_AddElement
      <4> QED BY <3>2, <4>1, <4>2
    <3> QED BY <3>1, <3>2
  <2>3. CASE s.phase = "closing"
    <3>1. /\ Cardinality(since0) + s.rounds <= 1 + GraceRounds
          /\ Cardinality(closing0) + s.rounds > GraceRounds
          /\ s.rounds > 0
      BY <1>7, <2>3 DEF Counted, Spent
    <3> HIDE DEF closing0, since0
    <3>2. /\ u.rounds <= GraceRounds
          /\ Cardinality(SinceCloseIn(log1)) + u.rounds <= 1 + GraceRounds
          /\ Cardinality(ClosingIn(log1)) + u.rounds > GraceRounds
      BY <1>3, <1>7, <1>8, <2>1, <2>2, <2>3, <3>1 DEF GraceRounds
    <3> QED BY <1>9, <3>2, Zenon DEF Counted
  <2>4. CASE s.phase # "closing"
    <3>1. Cardinality(since0) = 0 /\ Cardinality(closing0) = 0 /\ u.rounds = GraceRounds
      BY <1>3, <1>9, <2>4, CountedBounds
    <3> HIDE DEF closing0, since0
    <3>2. /\ u.rounds <= GraceRounds
          /\ Cardinality(SinceCloseIn(log1)) + u.rounds <= 1 + GraceRounds
          /\ Cardinality(ClosingIn(log1)) + u.rounds > GraceRounds
      BY <2>1, <2>2, <3>1 DEF GraceRounds
    <3> QED BY <1>9, <3>2, Zenon DEF Counted
  <2> QED BY <2>3, <2>4
<1>10. ASSUME u.phase # "closing" PROVE Counted(u, log1)
  <2>1. s.phase # "closing" /\ u.rounds = s.rounds
    BY <1>3, <1>10
  <2>2. closing0 = {}
    BY <2>1 DEF Counted
  <2>3. ClosingIn(log1) = {}
    BY <1>5, <1>10, <2>2
  <2> QED BY <1>8, <1>10, <2>1, <2>3, Zenon DEF Counted
<1> HIDE DEF closing0, since0
<1>11. Counted(u, log1)
  BY <1>9, <1>10, Zenon
<1> QED BY <1>4, <1>11 DEF log1

-----------------------------------------------------------------------------
(* What ended a session, in its log *)

Bounded(log0) == Cardinality(SinceCloseIn(log0)) <= 1 + GraceRounds

Given(log0) ==
  \A i \in DOMAIN log0 :
    IsEnd(log0[i]) /\ log0[i].reason = "close_decision"
      => Cardinality(ClosingIn(log0)) > GraceRounds

(* These are the properties. *)
LEMMA TheProperties ==
  /\ GraceIsBounded <=> Bounded(log)
  /\ GraceIsGiven <=> Given(log)
  /\ TranscriptMatchesLog <=> (Settled => Recorded(row.transcript, log))
BY CountedInLog DEF GraceIsBounded, Bounded, GraceIsGiven, Given, TranscriptMatchesLog, Recorded

(* A turn after the end adds nothing to the grace. *)
LEMMA LateTurn ==
  ASSUME NEW log0 \in Seq(Event), EndIn(log0), Bounded(log0), Given(log0),
         NEW t \in Turn, NEW d \in Decision \cup {NoDecision}, NEW u \in State
  PROVE  Bounded(log0 \o TurnEvents(t, d, u)) /\ Given(log0 \o TurnEvents(t, d, u))
<1> DEFINE batch == TurnEvents(t, d, u)
           log1 == log0 \o batch
<1>1. /\ ClosingIn(log1) = ClosingIn(log0)
      /\ SinceCloseIn(log1) = IF ToClose(d) THEN {} ELSE SinceCloseIn(log0)
      /\ \A i \in DOMAIN log0 : log1[i] = log0[i]
  <2>1. TurnAdds(log0, t, d, u, log1)
    BY TurnCounts
  <2> HIDE DEF log1
  <2> QED BY <2>1 DEF TurnAdds
<1>2. ASSUME NEW i \in DOMAIN log1, IsEnd(log1[i]) PROVE i \in DOMAIN log0
  <2>1. batch \in Seq(Event) /\ NoEnd(batch)
    BY TurnBatch
  <2> HIDE DEF batch
  <2>2. Len(log0) \in Nat /\ Len(batch) \in Nat /\ DOMAIN log0 = 1 .. Len(log0)
    BY <2>1
  <2>3. i \in 1 .. Len(log0) + Len(batch)
    BY <2>1, <2>2
  <2> SUFFICES ASSUME i > Len(log0) PROVE FALSE
    BY <2>2, <2>3
  <2>4. i - Len(log0) \in DOMAIN batch /\ log1[i] = batch[i - Len(log0)]
    BY <2>1, <2>2, <2>3
  <2> QED BY <1>2, <2>1, <2>4 DEF NoEnd
<1> HIDE DEF log1
<1>3. Bounded(log1)
  BY <1>1, FS_EmptySet DEF Bounded, GraceRounds
<1>4. Given(log1)
  BY <1>1, <1>2 DEF Given
<1> QED BY <1>3, <1>4 DEF log1

(* The end itself: close_decision only when the grace is used up. *)
LEMMA TheEnd ==
  ASSUME NEW log0 \in Seq(Event), ~EndIn(log0), NEW s \in State, Counted(s, log0),
         NEW r \in Reason, r = "close_decision" => Spent(s)
  PROVE  Bounded(Append(log0, SessionEnded(r))) /\ Given(Append(log0, SessionEnded(r)))
<1> DEFINE log1 == Append(log0, SessionEnded(r))
<1>1. Adds(log0, SessionEnded(r), log1)
  BY EndEvent, OneMoreEvent
<1>2. /\ DOMAIN log1 = DOMAIN log0 \cup {Len(log0) + 1} /\ log1[Len(log0) + 1] = SessionEnded(r)
      /\ \A i \in DOMAIN log0 : log1[i] = log0[i]
  BY EndEvent
<1> HIDE DEF log1
<1>3. ClosingIn(log1) = ClosingIn(log0) /\ SinceCloseIn(log1) = SinceCloseIn(log0)
  BY <1>1 DEF Adds, SessionEnded, InClosing, Closes
<1>4. Bounded(log1)
  BY <1>3, CountedBounds DEF Bounded
<1>5. Given(log1)
  <2>1. \A i \in DOMAIN log0 : ~IsEnd(log1[i])
    BY <1>2 DEF EndIn
  <2>2. r = "close_decision" => Cardinality(ClosingIn(log1)) > GraceRounds
    <3>1. s.rounds \in Nat /\ Cardinality(ClosingIn(log0)) \in Nat
      BY StateFields, CountedBounds
    <3> QED BY <1>3, <3>1 DEF Spent, Counted, GraceRounds
  <2>3. SessionEnded(r).reason = r
    BY DEF SessionEnded
  <2> QED BY <1>2, <2>1, <2>2, <2>3 DEF Given
<1> QED BY <1>4, <1>5 DEF log1

-----------------------------------------------------------------------------
(* What makes row and log part *)

Logged == ReconstructState(log)

Closing == {"completing", "locked", "written"}

(* It has saved the row and not logged its events. *)
Unlogged == {"saved", "appending"}

(* It has saved the row and is not through. *)
Posting == Unlogged \cup {"logged"} \cup Closing

(* The turn that is under way has the row as it is. *)
Copied(t) ==
  LET r == work[t].row
  IN  r.state = row.state /\ r.transcript = row.transcript /\ r.decisions = row.decisions

Saves(t) == pc[t] = "speaking" /\ pc'[t] = "saved"

(* A turn saves a copy that another writer has overtaken, or saves over a  *)
(* turn whose events are still to come.                                    *)
Overwrites(t) ==
  Saves(t) /\ (~Copied(t) \/ \E u \in Turn \ {t} : pc[u] \in Unlogged)

(* The worker dies, or the client goes away, between save and append. *)
BreaksOff(t) == pc[t] \in Unlogged /\ pc'[t] \in {"interrupted", "crashed"}

(* The voice connection writes back the row it read. *)
WritesBack == pc[Voice] = "persisting" /\ pc'[Voice] = "done"

(* The steps of hazards H5 and H6 and of the closing voice connection:     *)
(* stream_turn forbids none of them.                                       *)
Parting == WritesBack \/ \E t \in Turn : Overwrites(t) \/ BreaksOff(t)

(* A turn saves while another one has yet to look whether the session is   *)
(* to be closed, or is broken off before it has.                           *)
Hastens(t) == Saves(t) /\ \E u \in Turn \ {t} : pc[u] \in Posting

Abandons(t) == pc[t] \in Posting /\ pc'[t] \in {"interrupted", "crashed"}

Hurrying == Parting \/ \E t \in Turn : Hastens(t) \/ Abandons(t)

-----------------------------------------------------------------------------
(* Row and log agree *)

(* It has applied its decision and added its exchange. *)
Written(t) ==
  /\ work[t].state = row.state
  /\ row.status = "pending" =>
       row.state = ApplyDecision(ResolveState(Logged), work[t].decision)
  /\ \E tr \in Seq(Turn) : Recorded(tr, log) /\ row.transcript = Append(tr, t)

Agreed ==
  /\ row.status = "pending" => row.state = Logged
  /\ Recorded(row.transcript, log)

(* The copy a turn works on is the state it read. *)
Fresh(t) == work[t].state = ResolveState(work[t].row.state)

CacheInv ==
  /\ \A t, u \in Turn : pc[t] \in Unlogged /\ pc[u] \in Unlogged => t = u
  /\ \A t \in Turn : pc[t] \in {"deciding", "speaking"} => Fresh(t)
  /\ \A t \in Turn : pc[t] \in Unlogged => Written(t)
  /\ row.status = "pending" => Logged \in State
  /\ Settled => Agreed

(* The session begins with it. *)
LEMMA CacheInit == ASSUME Init PROVE CacheInv
<1>1. \A t \in Turn : pc[t] = "idle"
  BY ProcessFacts DEF Init
<1>2. row = EmptyRow /\ log = <<>>
  BY DEF Init
<1>3. /\ row.status = "pending" /\ row.state = EmptyState /\ row.transcript = <<>>
  BY <1>2 DEF EmptyRow
<1>4. Logged = EmptyState /\ EmptyState \in State
  <2>1. EmptyRow.state \in State
    BY EmptyTypes DEF Row
  <2> QED BY <1>2, <2>1, ReconstructNothing DEF Logged, EmptyRow
<1>5. UsersIn(log) = {}
  BY <1>2 DEF UsersIn
<1>6. Recorded(row.transcript, log)
  BY <1>3, <1>5, FS_EmptySet DEF Recorded
<1> QED BY <1>1, <1>3, <1>4, <1>6 DEF CacheInv, Agreed, Unlogged

(* A step that writes neither row nor log keeps what is said of them. *)
LEMMA RowAndLogKept ==
  ASSUME UNCHANGED <<row, log>>
  PROVE  /\ Agreed' <=> Agreed
         /\ Logged' = Logged /\ (Counted(Logged, log)' <=> Counted(Logged, log))
         /\ Bounded(log)' = Bounded(log) /\ Given(log)' = Given(log)
BY DEF Agreed, Logged

(* So does the invariant, when nobody comes to or leaves the time between  *)
(* save and append.                                                        *)
LEMMA CacheApart ==
  ASSUME CacheInv, UNCHANGED <<row, log>>,
         \A t \in Turn : pc'[t] \in Unlogged <=> pc[t] \in Unlogged,
         \A t \in Turn : pc'[t] \in Unlogged => work'[t] = work[t],
         \A t \in Turn : pc'[t] \in {"deciding", "speaking"} => Fresh(t)'
  PROVE  CacheInv'
<1>1. Settled' <=> Settled
  BY DEF Settled, Unlogged
<1>2. \A t \in Turn : pc'[t] \in Unlogged => Written(t)'
  BY DEF CacheInv, Written, Logged
<1>3. Logged' = Logged
  BY DEF Logged
<1> QED BY <1>1, <1>2, <1>3, RowAndLogKept DEF CacheInv

(* A process other than a turn moves. *)
LEMMA CacheOthers ==
  ASSUME CacheInv, UNCHANGED <<row, log>>,
         \A t \in Turn : pc'[t] = pc[t] /\ work'[t] = work[t]
  PROVE  CacheInv'
<1>1. \A t \in Turn : pc'[t] \in {"deciding", "speaking"} => Fresh(t)'
  BY DEF CacheInv, Fresh
<1> QED BY <1>1, CacheApart

(* A turn moves, but not into or out of that time. *)
LEMMA CacheMoves ==
  ASSUME CacheInv, UNCHANGED <<row, log>>, NEW t \in Turn,
         \A u \in Turn \ {t} : pc'[u] = pc[u] /\ work'[u] = work[u],
         pc'[t] \in Unlogged <=> pc[t] \in Unlogged,
         pc'[t] \in Unlogged => work'[t] = work[t],
         pc'[t] \in {"deciding", "speaking"} => Fresh(t)'
  PROVE  CacheInv'
<1>1. \A u \in Turn : pc'[u] \in {"deciding", "speaking"} => Fresh(u)'
  <2> SUFFICES ASSUME NEW u \in Turn, u # t, pc'[u] \in {"deciding", "speaking"}
               PROVE  Fresh(u)'
    OBVIOUS
  <2> QED BY DEF CacheInv, Fresh
<1>2. \A u \in Turn : /\ pc'[u] \in Unlogged <=> pc[u] \in Unlogged
                      /\ pc'[u] \in Unlogged => work'[u] = work[u]
  OBVIOUS
<1> QED BY <1>1, <1>2, CacheApart

(* A process that goes on leaves the others alone, *)
LEMMA Goes ==
  ASSUME TypeOK, NEW p \in Process, NEW step, Goto(p, step)
  PROVE  pc'[p] = step /\ \A u \in Process : u # p => pc'[u] = pc[u]
BY DEF TypeOK, Goto

(* and so does one that is through. *)
LEMMA Finishes ==
  ASSUME TypeOK, NEW p \in Process, NEW step, Finish(p, step)
  PROVE  /\ pc'[p] = IF p = Beat THEN "idle" ELSE step
         /\ \A u \in Process :
              u # p => pc'[u] = pc[u] /\ work'[u] = work[u] /\ signal'[u] = signal[u]
BY DEF TypeOK, Finish, Goto

-----------------------------------------------------------------------------
(* The steps of a turn *)

(* The first steps of a turn, its check, and a turn that is broken off *)
(* before its save or after its append                                 *)
LEMMA CacheStart ==
  ASSUME IInv, CacheInv, ~Parting, NEW t \in Turn,
         \/ Load(t) \/ (\E d \in LLMDecisions : Decide(t, d)) \/ Interrupt(t)
         \/ BeginAppend(t) \/ CheckClosure(t)
  PROVE  CacheInv'
<1>0. TypeOK /\ t \in Process /\ t # Beat /\ t # Voice /\ Turn \subseteq Process
  BY ProcessFacts, SessionAssumption DEF IInv, Core
<1>1. UNCHANGED <<row, log>>
  BY DEF Load, Decide, Interrupt, BeginAppend, CheckClosure
<1>2. CASE Load(t)
  <2>1. CASE row.extra
    <3>1. pc[t] = "idle" /\ Finish(t, "failed")
      BY <1>2, <2>1 DEF Load
    <3>2. pc'[t] = "failed" /\ \A u \in Turn \ {t} : pc'[u] = pc[u] /\ work'[u] = work[u]
      BY <1>0, <3>1, Finishes
    <3> QED BY <1>1, <3>1, <3>2, CacheMoves DEF Unlogged
  <2>2. CASE ~row.extra
    <3>1. /\ pc[t] = "idle" /\ Goto(t, "deciding")
          /\ work' = [work EXCEPT ![t] = [row |-> row, state |-> ResolveState(row.state),
                                          decision |-> NoDecision]]
      BY <1>2, <2>2 DEF Load
    <3>2. pc'[t] = "deciding" /\ \A u \in Turn \ {t} : pc'[u] = pc[u] /\ work'[u] = work[u]
      BY <1>0, <3>1, Goes DEF TypeOK
    <3>3. Fresh(t)'
      BY <1>0, <1>1, <3>1 DEF Fresh, TypeOK
    <3> QED BY <1>1, <3>1, <3>2, <3>3, CacheMoves DEF Unlogged
  <2> QED BY <2>1, <2>2
<1>3. CASE \E d \in LLMDecisions : Decide(t, d)
  <2>1. pc[t] = "deciding" /\ Goto(t, "speaking")
    BY <1>3 DEF Decide
  <2>2. /\ work'[t].row = work[t].row /\ work'[t].state = work[t].state
        /\ \A u \in Turn \ {t} : work'[u] = work[u]
    BY <1>0, <1>3 DEF Decide, TypeOK, Work
  <2>3. pc'[t] = "speaking" /\ \A u \in Turn \ {t} : pc'[u] = pc[u]
    BY <1>0, <2>1, Goes
  <2>4. Fresh(t)'
    BY <2>1, <2>2 DEF CacheInv, Fresh
  <2> QED BY <1>1, <2>1, <2>2, <2>3, <2>4, CacheMoves DEF Unlogged
<1>4. CASE Interrupt(t)
  <2>1. pc[t] \in {"speaking", "saved", "logged"} /\ Finish(t, "interrupted")
    BY <1>4 DEF Interrupt
  <2>2. pc'[t] = "interrupted" /\ \A u \in Turn \ {t} : pc'[u] = pc[u] /\ work'[u] = work[u]
    BY <1>0, <2>1, Finishes
  <2>3. pc[t] \notin Unlogged
    BY <2>2 DEF Parting, BreaksOff
  <2> QED BY <1>1, <2>2, <2>3, CacheMoves DEF Unlogged
<1>5. CASE BeginAppend(t)
  <2>1. pc[t] = "saved" /\ Goto(t, "appending") /\ work' = work
    BY <1>5 DEF BeginAppend
  <2>2. pc'[t] = "appending" /\ \A u \in Turn \ {t} : pc'[u] = pc[u]
    BY <1>0, <2>1, Goes
  <2> QED BY <1>1, <2>1, <2>2, CacheMoves DEF Unlogged
<1>6. CASE CheckClosure(t)
  <2>1. /\ pc[t] = "logged"
        /\ Finish(t, "done") \/ (Goto(t, "completing") /\ work' = work)
    BY <1>6 DEF CheckClosure
  <2>2. /\ pc'[t] \in {"done", "completing"}
        /\ \A u \in Turn \ {t} : pc'[u] = pc[u] /\ work'[u] = work[u]
    BY <1>0, <2>1, Goes, Finishes
  <2> QED BY <1>1, <2>1, <2>2, CacheMoves DEF Unlogged
<1> QED BY <1>2, <1>3, <1>4, <1>5, <1>6

(* Saving applies the decision to the state of the log. *)
LEMMA CacheSave ==
  ASSUME IInv, CacheInv, ~Parting, NEW t \in Turn, Save(t)
  PROVE  CacheInv'
<1> DEFINE w == work[t]
           u == ApplyDecision(w.state, w.decision)
<1>0. /\ TypeOK /\ t \in Process /\ t # Beat /\ Turn \subseteq Process
      /\ row \in Row /\ w \in Work /\ w.row \in Row
  BY ProcessFacts, SessionAssumption DEF IInv, Core, TypeOK, Work
<1>1. pc[t] = "speaking" /\ Goto(t, "saved") /\ log' = log
  BY DEF Save
<1>2. pc'[t] = "saved" /\ \A v \in Turn \ {t} : pc'[v] = pc[v]
  BY <1>0, <1>1, Goes
<1>3. Copied(t) /\ \A v \in Turn : pc[v] \notin Unlogged
  BY <1>1, <1>2 DEF Parting, Overwrites, Saves, Unlogged
<1>4. Agreed
  BY <1>3 DEF CacheInv, Settled, Unlogged
<1>5. /\ row'.status = row.status /\ row'.state = u
      /\ row'.transcript = Append(row.transcript, t)
  BY <1>0, <1>3 DEF Save, Row, Copied
<1>6. /\ work'[t].state = u /\ work'[t].decision = w.decision
      /\ \A v \in Turn \ {t} : work'[v] = work[v]
  BY <1>0 DEF Save, TypeOK, Work
<1>7. w.state = ResolveState(row.state)
  BY <1>1, <1>3 DEF CacheInv, Fresh, Copied
<1>8. Logged' = Logged
  BY <1>1 DEF Logged
<1>9. Written(t)'
  <2>1. row.transcript \in Seq(Turn) /\ Recorded(row.transcript, log)
    BY <1>0, <1>4 DEF Row, Agreed
  <2>2. \E tr \in Seq(Turn) : Recorded(tr, log') /\ row'.transcript = Append(tr, t)
    BY <1>1, <1>5, <2>1
  <2>3. row'.status = "pending" =>
          row'.state = ApplyDecision(ResolveState(Logged'), work'[t].decision)
    BY <1>4, <1>5, <1>6, <1>7, <1>8 DEF Agreed
  <2> QED BY <1>5, <1>6, <2>2, <2>3 DEF Written
<1> HIDE DEF u, w
<1>10. \A v \in Turn : pc'[v] \in Unlogged => v = t
  BY <1>2, <1>3
<1>11. \A v \in Turn : pc'[v] \in {"deciding", "speaking"} => Fresh(v)'
  <2> SUFFICES ASSUME NEW v \in Turn, v # t, pc'[v] \in {"deciding", "speaking"}
               PROVE  Fresh(v)'
    BY <1>2
  <2> QED BY <1>2, <1>6 DEF CacheInv, Fresh
<1>12. ~Settled'
  BY <1>2 DEF Settled
<1>13. row'.status = "pending" => Logged' \in State
  BY <1>5, <1>8 DEF CacheInv
<1> QED BY <1>9, <1>10, <1>11, <1>12, <1>13 DEF CacheInv

(* The events of the turn are the ones its state replays from. *)
LEMMA CacheAppend ==
  ASSUME IInv, CacheInv, NEW t \in Turn, CommitAppend(t)
  PROVE  CacheInv'
<1> DEFINE d == work[t].decision
           u == work[t].state
<1>0. /\ TypeOK /\ t \in Process /\ t # Beat /\ Turn \subseteq Process /\ log \in Seq(Event)
      /\ u \in State /\ d \in Decision \cup {NoDecision}
  BY ProcessFacts, SessionAssumption DEF IInv, Core, TypeOK, Work
<1>1. pc[t] = "appending" /\ base[t] = Len(log)
  BY <1>0 DEF CommitAppend, IInv, Core, NoSeqConflict
<1>2. /\ log' = log \o TurnEvents(t, d, u) /\ Goto(t, "logged") /\ UNCHANGED <<row, work>>
  BY <1>1 DEF CommitAppend
<1>3. pc'[t] = "logged" /\ \A v \in Turn \ {t} : pc'[v] = pc[v]
  BY <1>0, <1>2, Goes
<1>4. \A v \in Turn : pc'[v] \notin Unlogged
  <2>1. pc[t] \in Unlogged
    BY <1>1 DEF Unlogged
  <2> SUFFICES ASSUME NEW v \in Turn, v # t PROVE pc[v] \notin Unlogged
    BY <1>3 DEF Unlogged
  <2> QED BY <2>1 DEF CacheInv
<1>5. Written(t)
  BY <1>1 DEF CacheInv, Unlogged
<1>6. PICK tr \in Seq(Turn) : Recorded(tr, log) /\ row.transcript = Append(tr, t)
  BY <1>5 DEF Written
<1>7. Recorded(row.transcript, log')
  BY <1>0, <1>2, <1>6, RecordedTurn
<1>8. u = row.state
  BY <1>5 DEF Written
<1>9. ASSUME row.status = "pending" PROVE Logged' = u
  <2> DEFINE s == Logged
             r == ResolveState(s)
  <2>1. s \in State /\ u = ApplyDecision(r, d) /\ s = ReconstructState(log)
    BY <1>5, <1>8, <1>9 DEF CacheInv, Written, Logged
  <2> HIDE DEF s, u, d
  <2>2. r \in State /\ r.last_action = s.last_action
    BY <2>1, ResolveType, UpdatesSameGrace DEF SameGrace
  <2> HIDE DEF r
  <2>3. u.last_action = IF d = NoDecision THEN s.last_action ELSE d.action
    BY <1>0, <2>1, <2>2, ApplyNotes
  <2>4. ReconstructState(log \o TurnEvents(t, d, u)) = u
    BY <1>0, <2>1, <2>3, ReplayTurn
  <2> QED BY <1>2, <2>4 DEF Logged, u, d
<1>10. Agreed' /\ (row'.status = "pending" => Logged' \in State)
  BY <1>0, <1>2, <1>7, <1>8, <1>9 DEF Agreed
<1> HIDE DEF u, d
<1>11. \A v \in Turn : pc'[v] \in {"deciding", "speaking"} => Fresh(v)'
  <2> SUFFICES ASSUME NEW v \in Turn, v # t, pc'[v] \in {"deciding", "speaking"}
               PROVE  Fresh(v)'
    BY <1>3
  <2> QED BY <1>2, <1>3 DEF CacheInv, Fresh
<1> QED BY <1>4, <1>10, <1>11 DEF CacheInv

-----------------------------------------------------------------------------
(* The other steps *)

(* complete_session up to its writes *)
LEMMA CacheLock ==
  ASSUME IInv, CacheInv, NEW p \in Turn \cup {Beat}, LockSession(p) \/ CompleteSession(p)
  PROVE  CacheInv'
<1>0. /\ TypeOK /\ p \in Process /\ Turn \subseteq Process /\ p # Voice /\ Beat \notin Turn
  BY ProcessFacts, SessionAssumption DEF IInv, Core
<1>1. /\ pc[p] \in Closing /\ UNCHANGED <<row, log>>
      /\ \E step \in {"locked", "written", "done"} :
           Finish(p, step) \/ (Goto(p, step) /\ work' = work)
  BY DEF LockSession, CompleteSession, Closing
<1>2. /\ pc'[p] \in {"locked", "written", "done", "idle"}
      /\ \A u \in Process \ {p} : pc'[u] = pc[u] /\ work'[u] = work[u]
  BY <1>0, <1>1, Goes, Finishes
<1>3. CASE p = Beat
  BY <1>0, <1>1, <1>2, <1>3, CacheOthers
<1>4. CASE p \in Turn
  BY <1>0, <1>1, <1>2, <1>4, CacheMoves DEF Unlogged, Closing
<1> QED BY <1>3, <1>4

(* What the commit of a completion does *)
LEMMA CommitFacts ==
  ASSUME IInv, NEW p \in Turn \cup {Beat}, CommitCompletion(p)
  PROVE  /\ pc[p] = "written" /\ row.status = "pending" /\ signal[p] \in Reason
         /\ log' = Append(log, SessionEnded(signal[p]))
         /\ row'.status = "completed" /\ row'.state = row.state
         /\ row'.transcript = row.transcript /\ row'.decisions = row.decisions
         /\ pc'[p] \in {"idle", "done"}
         /\ \A u \in Process \ {p} : pc'[u] = pc[u] /\ work'[u] = work[u]
         /\ p \in Process /\ p # Voice /\ Turn \subseteq Process
<1>0. /\ TypeOK /\ p \in Process /\ Turn \subseteq Process /\ p # Voice /\ row \in Row
  <2>1. p \in Process /\ Beat \in Process /\ Voice \in Process /\ p # Voice
    BY ProcessFacts, SessionAssumption
  <2> QED BY <2>1, ProcessFacts DEF IInv, Core, TypeOK
<1>1. /\ pc[p] = "written" /\ base[p] = Len(log) /\ row.status = "pending"
      /\ signal[p] \in Reason
  BY <1>0 DEF CommitCompletion, IInv, Core, NoSeqConflict, LockInv, SignalInv, TypeOK
<1>2. /\ row' = [row EXCEPT !.status = "completed"]
      /\ log' = Append(log, SessionEnded(signal[p]))
      /\ Finish(p, "done")
  BY <1>1 DEF CommitCompletion
<1>3. /\ row'.status = "completed" /\ row'.state = row.state
      /\ row'.transcript = row.transcript /\ row'.decisions = row.decisions
  BY <1>0, <1>2 DEF Row
<1>4. /\ \A u \in Process \ {p} : pc'[u] = pc[u] /\ work'[u] = work[u]
      /\ pc'[p] \in {"idle", "done"}
  BY <1>0, <1>2, Finishes
<1> QED BY <1>0, <1>1, <1>2, <1>3, <1>4

(* The end of the session *)
LEMMA CacheEnd ==
  ASSUME IInv, CacheInv, NEW p \in Turn \cup {Beat}, CommitCompletion(p)
  PROVE  CacheInv'
<1>0. log \in Seq(Event)
  BY DEF IInv, Core, TypeOK
<1>1. \A t \in Turn : t # p => pc'[t] = pc[t] /\ work'[t] = work[t]
  BY CommitFacts, ProcessFacts
<1>2. pc[p] = "written" /\ pc'[p] \in {"idle", "done"}
  BY CommitFacts
<1>3. \A t \in Turn : pc'[t] \in Unlogged <=> pc[t] \in Unlogged
  BY <1>1, <1>2 DEF Unlogged
<1>4. Settled' <=> Settled
  BY <1>3 DEF Settled, Unlogged
<1>5. \A tr : Recorded(tr, log) => Recorded(tr, log')
  BY <1>0, CommitFacts, RecordedEnd
<1>6. ASSUME NEW t \in Turn, pc'[t] \in Unlogged PROVE Written(t)'
  <2>1. Written(t) /\ work'[t] = work[t]
    BY <1>1, <1>2, <1>3, <1>6 DEF CacheInv, Unlogged
  <2> QED BY <1>5, <2>1, CommitFacts DEF Written
<1>7. Settled' => Agreed'
  BY <1>4, <1>5, CommitFacts DEF CacheInv, Agreed
<1>8. ASSUME NEW t \in Turn, pc'[t] \in {"deciding", "speaking"} PROVE Fresh(t)'
  <2>1. pc[t] \in {"deciding", "speaking"} /\ work'[t] = work[t]
    BY <1>1, <1>2, <1>8
  <2> QED BY <2>1 DEF CacheInv, Fresh
<1>9. row'.status # "pending"
  BY CommitFacts
<1> QED BY <1>3, <1>6, <1>7, <1>8, <1>9 DEF CacheInv

(* Every step that is not one of the parting ones keeps it. *)
LEMMA CacheNext ==
  ASSUME IInv, CacheInv, [Next]_vars, [~Parting]_vars
  PROVE  CacheInv'
<1>0. TypeOK /\ Turn \subseteq Process /\ Beat \in Process /\ Voice \in Process
      /\ Beat \notin Turn /\ Voice \notin Turn
  BY ProcessFacts, SessionAssumption DEF IInv, Core
<1>1. CASE UNCHANGED vars
  BY <1>1, CacheOthers DEF vars
<1> SUFFICES ASSUME Next, ~Parting PROVE CacheInv'
  BY <1>1
<1>2. ASSUME NEW t \in Turn, Load(t) \/ TurnStep(t) \/ Interrupt(t) PROVE CacheInv'
  BY <1>2, CacheStart, CacheSave, CacheAppend DEF TurnStep
<1>3. ASSUME NEW p \in Turn \cup {Beat}, CompletionStep(p) PROVE CacheInv'
  BY <1>3, CacheLock, CacheEnd DEF CompletionStep
<1>4. CASE FindStuck
  <2>1. UNCHANGED <<row, log, work>> /\ Goto(Beat, "completing")
    BY <1>4 DEF FindStuck
  <2>2. \A t \in Turn : pc'[t] = pc[t]
    BY <1>0, <2>1, Goes
  <2> QED BY <2>1, <2>2, CacheOthers
<1>5. ASSUME NEW heard \in SUBSET Turn, ReadForPersist(heard) PROVE CacheInv'
  <2>1. /\ UNCHANGED <<row, log>> /\ Goto(Voice, "persisting")
        /\ \A t \in Turn : work'[t] = work[t]
    BY <1>0, <1>5 DEF ReadForPersist, TypeOK
  <2>2. \A t \in Turn : pc'[t] = pc[t]
    BY <1>0, <2>1, Goes
  <2> QED BY <2>1, <2>2, CacheOthers
<1>6. CASE WriteArtifacts
  <2>1. pc[Voice] = "persisting" /\ Finish(Voice, "done") /\ Voice # Beat
    BY <1>6, ProcessFacts, SessionAssumption DEF WriteArtifacts
  <2>2. pc'[Voice] = "done"
    BY <1>0, <2>1, Finishes
  <2> QED BY <2>1, <2>2 DEF Parting, WritesBack
<1>7. ASSUME NEW c \in Conditions, Arise(c) PROVE CacheInv'
  BY <1>7, CacheOthers DEF Arise
<1>8. ASSUME NEW p \in Process, Crash(p) PROVE CacheInv'
  <2>1. UNCHANGED <<row, log>> /\ Finish(p, "crashed")
    BY <1>8 DEF Crash
  <2>2. /\ \A u \in Process \ {p} : pc'[u] = pc[u] /\ work'[u] = work[u]
        /\ p # Beat => pc'[p] = "crashed"
    BY <1>0, <2>1, Finishes
  <2>3. CASE p \notin Turn
    BY <1>0, <2>1, <2>2, <2>3, CacheOthers
  <2>4. CASE p \in Turn
    <3>1. pc'[p] = "crashed"
      BY <1>0, <2>2, <2>4
    <3>2. pc[p] \notin Unlogged
      BY <2>4, <3>1 DEF Parting, BreaksOff
    <3> QED BY <1>0, <2>1, <2>2, <2>4, <3>1, <3>2, CacheMoves DEF Unlogged
  <2> QED BY <2>3, <2>4
<1> QED BY <1>2, <1>3, <1>4, <1>5, <1>6, <1>7, <1>8 DEF Next

(* Of a running session, the log replays to the very state the row caches  *)
(* (reconstruct_state), for any number of turns at a time: they part only  *)
(* in a step that writes back an overtaken copy, or that loses the events  *)
(* of a turn that has saved.                                               *)
THEOREM CacheAgrees == Spec => []CacheMatchesLog \/ <><<Parting>>_vars
<1>1. Init => CacheInv
  BY CacheInit
<1>2. IInv /\ CacheInv /\ [Next]_vars /\ [~Parting]_vars => CacheInv'
  BY CacheNext
<1>3. CacheInv => CacheMatchesLog
  BY DEF CacheInv, CacheMatchesLog, Agreed, Logged
<1> QED BY <1>1, <1>2, <1>3, Invariance, PTL DEF Spec

(* The cached transcript has the exchanges of the log, each once and in    *)
(* its order, also those that come after the session's end, unless such a  *)
(* step has made row and log part.                                         *)
THEOREM TranscriptAgrees == Spec => []TranscriptMatchesLog \/ <><<Parting>>_vars
<1>1. Init => CacheInv
  BY CacheInit
<1>2. IInv /\ CacheInv /\ [Next]_vars /\ [~Parting]_vars => CacheInv'
  BY CacheNext
<1>3. CacheInv => TranscriptMatchesLog
  BY TheProperties DEF CacheInv, Agreed
<1> QED BY <1>1, <1>2, <1>3, Invariance, PTL DEF Spec

-----------------------------------------------------------------------------
(* The grace *)

(* The grace of a running session is counted, and is not used up when no   *)
(* turn is about to find that out.                                         *)
Running ==
  /\ Counted(Logged, log)
  /\ LastDecisionIsClose(row.decisions) => row.state.phase = "closing"
  /\ (\A t \in Turn : pc[t] \notin {"logged"} \cup Closing) => ~Spent(Logged)
  /\ \A p \in Process : pc[p] \in Closing /\ signal[p] = "close_decision" => Spent(Logged)

GraceInv ==
  /\ \A t, u \in Turn : pc[t] \in Posting /\ pc[u] \in Posting => t = u
  /\ pc[Voice] \notin Closing
  /\ row.status = "pending" => Running
  /\ row.status # "pending" => Bounded(log) /\ Given(log)

(* The session begins with it. *)
LEMMA GraceInit == ASSUME Init PROVE GraceInv
<1>1. \A p \in Process : pc[p] \in {"idle", "done"}
  BY DEF Init
<1>2. Voice \in Process /\ Turn \subseteq Process
  BY ProcessFacts
<1>3. row = EmptyRow /\ log = <<>>
  BY DEF Init
<1>4. row.status = "pending" /\ row.state = EmptyState /\ row.decisions = <<>>
  BY <1>3 DEF EmptyRow
<1>5. Logged = EmptyState
  BY <1>3, ReconstructNothing DEF Logged
<1>6. EmptyState.phase = "warmup" /\ EmptyState.rounds = 0
  BY DEF EmptyState
<1>7. ClosingIn(log) = {}
  BY <1>3 DEF ClosingIn
<1>8. Counted(Logged, log)
  BY <1>5, <1>6, <1>7 DEF Counted, GraceRounds
<1>9. Running
  BY <1>1, <1>4, <1>5, <1>6, <1>8 DEF Running, Spent, Closing, LastDecisionIsClose
<1> QED BY <1>1, <1>2, <1>4, <1>9 DEF GraceInv, Posting, Unlogged, Closing

(* A step that writes neither row nor log keeps it, when nobody comes to   *)
(* save, leaves before the session's end, or is brought close_decision.    *)
LEMMA GraceApart ==
  ASSUME GraceInv, UNCHANGED <<row, log>>,
         \A t \in Turn : pc'[t] \in Posting => pc[t] \in Posting,
         \A t \in Turn : pc[t] \in {"logged"} \cup Closing /\ row.status = "pending"
                           => pc'[t] \in {"logged"} \cup Closing,
         \A p \in Process : pc'[p] \in Closing /\ signal'[p] = "close_decision"
                              => pc[p] \in Closing /\ signal[p] = "close_decision",
         pc'[Voice] \notin Closing
  PROVE  GraceInv'
<1>1. ASSUME row.status = "pending" PROVE Running'
  <2>1. Running
    BY <1>1 DEF GraceInv
  <2>2. (\A t \in Turn : pc'[t] \notin {"logged"} \cup Closing) => ~Spent(Logged)'
    BY <1>1, <2>1, RowAndLogKept DEF Running
  <2>3. \A p \in Process : pc'[p] \in Closing /\ signal'[p] = "close_decision"
                             => Spent(Logged)'
    BY <2>1, RowAndLogKept DEF Running
  <2> QED BY <2>1, <2>2, <2>3, RowAndLogKept DEF Running
<1>2. \A t, u \in Turn : pc'[t] \in Posting /\ pc'[u] \in Posting => t = u
  BY DEF GraceInv
<1> QED BY <1>1, <1>2, RowAndLogKept DEF GraceInv

(* A process moves.  Nobody else is where it was not. *)
LEMMA GraceMoves ==
  ASSUME GraceInv, UNCHANGED <<row, log>>, NEW p \in Process,
         \A u \in Process : u # p => pc'[u] = pc[u] /\ signal'[u] = signal[u],
         p \in Turn /\ pc'[p] \in Posting => pc[p] \in Posting,
         p \in Turn /\ pc[p] \in {"logged"} \cup Closing /\ row.status = "pending"
           => pc'[p] \in {"logged"} \cup Closing,
         pc'[p] \in Closing /\ signal'[p] = "close_decision"
           => pc[p] \in Closing /\ signal[p] = "close_decision",
         p = Voice => pc'[p] \notin Closing
  PROVE  GraceInv'
<1>1. Turn \subseteq Process /\ Voice \in Process
  BY ProcessFacts
<1>2. pc'[Voice] \notin Closing
  BY <1>1 DEF GraceInv
<1>3. /\ \A t \in Turn : pc'[t] \in Posting => pc[t] \in Posting
      /\ \A t \in Turn : pc[t] \in {"logged"} \cup Closing /\ row.status = "pending"
                           => pc'[t] \in {"logged"} \cup Closing
  BY <1>1
<1>4. \A q \in Process : pc'[q] \in Closing /\ signal'[q] = "close_decision"
                           => pc[q] \in Closing /\ signal[q] = "close_decision"
  OBVIOUS
<1> QED BY <1>2, <1>3, <1>4, GraceApart

-----------------------------------------------------------------------------
(* The steps of a turn *)

(* The first steps of a turn, and a turn that is broken off *)
LEMMA GraceStart ==
  ASSUME IInv, GraceInv, ~Hurrying, NEW t \in Turn,
         Load(t) \/ (\E d \in LLMDecisions : Decide(t, d)) \/ Interrupt(t) \/ BeginAppend(t)
  PROVE  GraceInv'
<1>0. TypeOK /\ t \in Process /\ t # Beat /\ t # Voice /\ Turn \subseteq Process
  BY ProcessFacts, SessionAssumption DEF IInv, Core
<1>1. UNCHANGED <<row, log>>
  BY DEF Load, Decide, Interrupt, BeginAppend
<1>2. CASE \E step \in {"deciding", "speaking"} :
             /\ pc[t] \in {"idle", "deciding"} /\ Goto(t, step) /\ signal' = signal
  <2>1. /\ pc'[t] \in {"deciding", "speaking"}
        /\ \A u \in Process : u # t => pc'[u] = pc[u] /\ signal'[u] = signal[u]
    BY <1>0, <1>2, Goes
  <2> QED BY <1>0, <1>1, <1>2, <2>1, GraceMoves DEF Posting, Unlogged, Closing
<1>3. CASE pc[t] = "idle" /\ Finish(t, "failed")
  <2>1. /\ pc'[t] = "failed"
        /\ \A u \in Process : u # t => pc'[u] = pc[u] /\ signal'[u] = signal[u]
    BY <1>0, <1>3, Finishes
  <2> QED BY <1>0, <1>1, <1>3, <2>1, GraceMoves DEF Posting, Unlogged, Closing
<1>4. CASE pc[t] = "saved" /\ Goto(t, "appending") /\ signal' = signal
  <2>1. /\ pc'[t] = "appending"
        /\ \A u \in Process : u # t => pc'[u] = pc[u] /\ signal'[u] = signal[u]
    BY <1>0, <1>4, Goes
  <2> QED BY <1>0, <1>1, <1>4, <2>1, GraceMoves DEF Posting, Unlogged, Closing
<1>5. CASE Interrupt(t)
  <2>1. Finish(t, "interrupted")
    BY <1>5 DEF Interrupt
  <2>2. /\ pc'[t] = "interrupted"
        /\ \A u \in Process : u # t => pc'[u] = pc[u] /\ signal'[u] = signal[u]
    BY <1>0, <2>1, Finishes
  <2>3. pc[t] \notin Posting
    BY <2>2 DEF Hurrying, Abandons
  <2> QED BY <1>0, <1>1, <2>2, <2>3, GraceMoves DEF Posting, Unlogged, Closing
<1>6. Load(t) => (pc[t] = "idle" /\ Finish(t, "failed"))
                   \/ (pc[t] = "idle" /\ Goto(t, "deciding") /\ signal' = signal)
  BY DEF Load
<1>7. ASSUME NEW d \in LLMDecisions, Decide(t, d)
      PROVE  pc[t] = "deciding" /\ Goto(t, "speaking") /\ signal' = signal
  BY <1>7 DEF Decide
<1>8. BeginAppend(t) => pc[t] = "saved" /\ Goto(t, "appending") /\ signal' = signal
  BY DEF BeginAppend
<1> QED BY <1>2, <1>3, <1>4, <1>5, <1>6, <1>7, <1>8

(* A decision to close leaves the session in closing. *)
LEMMA GraceSave ==
  ASSUME IInv, CacheInv, GraceInv, ~Hurrying, NEW t \in Turn, Save(t)
  PROVE  GraceInv'
<1> DEFINE w == work[t]
           u == ApplyDecision(w.state, w.decision)
<1>0. /\ TypeOK /\ t \in Process /\ t # Beat /\ t # Voice /\ Turn \subseteq Process
      /\ Voice \in Process /\ row \in Row /\ w \in Work /\ w.row \in Row
      /\ w.decision \in Decision \cup {NoDecision}
  BY ProcessFacts, SessionAssumption DEF IInv, Core, TypeOK, Work
<1>1. pc[t] = "speaking" /\ Goto(t, "saved") /\ log' = log /\ signal' = signal
  BY DEF Save
<1>2. pc'[t] = "saved" /\ \A v \in Process : v # t => pc'[v] = pc[v]
  BY <1>0, <1>1, Goes
<1>3. Copied(t) /\ \A v \in Turn : pc[v] \notin Posting
  BY <1>1, <1>2 DEF Hurrying, Parting, Overwrites, Hastens, Saves, Posting, Unlogged, Closing
<1>4. Agreed
  BY <1>3 DEF CacheInv, Settled, Posting, Unlogged
<1>5. /\ row'.status = row.status /\ row'.state = u
      /\ row'.decisions = IF w.decision = NoDecision THEN row.decisions
                          ELSE Append(row.decisions, w.decision.action)
  BY <1>0, <1>3 DEF Save, Row, Copied
<1>6. w.state = ResolveState(row.state)
  BY <1>1, <1>3 DEF CacheInv, Fresh, Copied
<1>7. Logged' = Logged /\ Counted(Logged, log)' = Counted(Logged, log)
  BY <1>1 DEF Logged
<1>8. ASSUME row'.status = "pending", LastDecisionIsClose(row'.decisions)
      PROVE  row'.state.phase = "closing"
  <2> DEFINE s == ResolveState(row.state)
             d == w.decision
  <2>1. /\ row.status = "pending" /\ row.state = Logged
        /\ Counted(row.state, log) /\ row.state \in State
    BY <1>0, <1>4, <1>5, <1>8 DEF Agreed, GraceInv, Running, Row
  <2>2. /\ s \in State /\ s.phase = row.state.phase /\ s.rounds = row.state.rounds
        /\ s.rounds <= GraceRounds
    BY <2>1, ResolveType, UpdatesSameGrace DEF SameGrace, Counted
  <2>3. u = ApplyDecision(s, d)
    BY <1>6
  <2> HIDE DEF s
  <2>4. /\ s.phase = "closing" => u.phase = "closing"
        /\ s.phase # "closing" => u.phase = "closing" \/ ~ToClose(d)
    <3> HIDE DEF u
    <3> QED BY <1>0, <2>2, <2>3, ApplyGrace
  <2>5. CASE d = NoDecision
    <3>1. row.state.phase = "closing"
      BY <1>5, <1>8, <2>1, <2>5 DEF GraceInv, Running
    <3> QED BY <1>5, <2>2, <2>4, <3>1
  <2>6. CASE d # NoDecision
    <3>1. d.action \in Action /\ row.decisions \in Seq(Action)
      BY <1>0, <2>6 DEF Decision, Row
    <3>2. Last(Append(row.decisions, d.action)) = d.action
      BY <3>1 DEF Last
    <3>3. ToClose(d)
      BY <1>5, <1>8, <2>6, <3>2 DEF LastDecisionIsClose, ToClose
    <3> QED BY <1>5, <2>4, <3>3
  <2> QED BY <2>5, <2>6
<1> HIDE DEF u, w
<1>9. ASSUME row'.status = "pending" PROVE Running'
  <2>1. Running
    BY <1>5, <1>9 DEF GraceInv
  <2>2. ~Spent(Logged)'
    BY <1>3, <1>7, <2>1 DEF Running, Posting
  <2>3. \A p \in Process : pc'[p] \in Closing => pc[p] \in Closing
    BY <1>2 DEF Closing
  <2> QED BY <1>1, <1>7, <1>8, <1>9, <2>1, <2>2, <2>3 DEF Running
<1>10. \A v, x \in Turn : pc'[v] \in Posting /\ pc'[x] \in Posting => v = x
  BY <1>0, <1>2, <1>3
<1>11. row'.status # "pending" => Bounded(log') /\ Given(log')
  BY <1>1, <1>5 DEF GraceInv
<1>12. pc'[Voice] \notin Closing
  BY <1>0, <1>2 DEF GraceInv
<1> QED BY <1>9, <1>10, <1>11, <1>12 DEF GraceInv

(* A turn that is logged is counted. *)
LEMMA GraceAppend ==
  ASSUME IInv, CacheInv, GraceInv, NEW t \in Turn, CommitAppend(t)
  PROVE  GraceInv'
<1> DEFINE d == work[t].decision
           u == work[t].state
<1>0. /\ TypeOK /\ t \in Process /\ t # Beat /\ t # Voice /\ Turn \subseteq Process
      /\ Voice \in Process /\ log \in Seq(Event)
      /\ u \in State /\ d \in Decision \cup {NoDecision} /\ EndedOnce
  BY ProcessFacts, SessionAssumption DEF IInv, Core, TypeOK, Work
<1>1. pc[t] = "appending" /\ base[t] = Len(log)
  BY <1>0 DEF CommitAppend, IInv, Core, NoSeqConflict
<1>2. /\ log' = log \o TurnEvents(t, d, u) /\ Goto(t, "logged") /\ UNCHANGED <<row, signal>>
  BY <1>1 DEF CommitAppend
<1>3. pc'[t] = "logged" /\ \A v \in Process : v # t => pc'[v] = pc[v]
  BY <1>0, <1>2, Goes
<1>4. \A v \in Turn : v # t => pc[v] \notin Posting
  BY <1>1 DEF GraceInv, Posting, Unlogged
<1>5. Written(t)
  BY <1>1 DEF CacheInv, Unlogged
<1>6. ASSUME row.status = "pending" PROVE Running'
  <2>1. Logged \in State /\ Running
    BY <1>6 DEF CacheInv, GraceInv
  <2>2. ~Spent(Logged) /\ Counted(Logged, log)
    <3>1. \A v \in Turn : pc[v] \notin {"logged"} \cup Closing
      BY <1>1, <1>4 DEF Posting, Closing
    <3> QED BY <2>1, <3>1 DEF Running
  <2>3. ~EndIn(log)
    BY <1>0, <1>6 DEF EndedOnce, EndIn
  <2>4. u = ApplyDecision(ResolveState(Logged), d)
    BY <1>5, <1>6 DEF Written
  <2> HIDE DEF u, d
  <2>5. ReconstructState(log \o TurnEvents(t, d, u)) = u /\ Counted(u, log \o TurnEvents(t, d, u))
    <3> DEFINE s == Logged
    <3>1. s = ReconstructState(log) /\ s \in State /\ u = ApplyDecision(ResolveState(s), d)
      BY <2>1, <2>4 DEF Logged
    <3>2. Counted(s, log) /\ ~Spent(s)
      BY <2>2
    <3> HIDE DEF s
    <3> QED BY <1>0, <2>3, <3>1, <3>2, CountedTurn
  <2>6. Logged' = u /\ Counted(Logged, log)'
    BY <1>2, <2>5 DEF Logged
  <2>7. \A p \in Process : ~(pc'[p] \in Closing /\ signal'[p] = "close_decision")
    BY <1>2, <1>3, <2>1, <2>2 DEF Running, Closing
  <2> QED BY <1>0, <1>2, <1>3, <2>1, <2>6, <2>7 DEF Running
<1>7. ASSUME row.status # "pending" PROVE Bounded(log') /\ Given(log')
  <2>1. EndIn(log)
    <3>1. row.status = "completed"
      BY <1>0, <1>7 DEF TypeOK, Row
    <3> QED BY <1>0, <3>1 DEF EndedOnce, EndIn
  <2>2. Bounded(log) /\ Given(log)
    BY <1>7 DEF GraceInv
  <2> QED BY <1>0, <1>2, <2>1, <2>2, LateTurn
<1>8. \A v, x \in Turn : pc'[v] \in Posting /\ pc'[x] \in Posting => v = x
  BY <1>0, <1>3, <1>4
<1>9. pc'[Voice] \notin Closing
  BY <1>0, <1>3 DEF GraceInv
<1> QED BY <1>2, <1>6, <1>7, <1>8, <1>9 DEF GraceInv

(* The check finds out that the grace is used up. *)
LEMMA GraceCheck ==
  ASSUME IInv, CacheInv, GraceInv, NEW t \in Turn, CheckClosure(t)
  PROVE  GraceInv'
<1> DEFINE r == CheckCompletion(row.state, row.decisions, log, conditions)
<1>0. /\ TypeOK /\ t \in Process /\ t # Beat /\ t # Voice /\ Turn \subseteq Process
      /\ Voice \in Process /\ row.state \in State
  BY ProcessFacts, SessionAssumption DEF IInv, Core, TypeOK, Row
<1>1. pc[t] = "logged" /\ UNCHANGED <<row, log>>
  BY DEF CheckClosure
<1>2. \A v \in Turn : v # t => pc[v] \notin Posting
  BY <1>1 DEF GraceInv, Posting
<1>3. Agreed
  BY <1>1, <1>2 DEF CacheInv, Settled, Posting, Unlogged
<1>4. r = "close_decision" <=> CloseDecision(row.state, row.decisions)
  BY DEF CheckCompletion, NoReason
<1>5. row.status = "pending" =>
        /\ row.state = Logged
        /\ LastDecisionIsClose(row.decisions) => row.state.phase = "closing"
  BY <1>3 DEF GraceInv, Running, Agreed
<1>6. row.status = "pending" => (CloseDecision(row.state, row.decisions) <=> Spent(Logged))
  <2> DEFINE s == row.state
             last == LastDecisionIsClose(row.decisions)
  <2>1. s.rounds \in Nat
    BY <1>0, StateFields
  <2>2. CloseDecision(row.state, row.decisions)
          <=> \/ last /\ ~(s.phase = "closing" /\ s.rounds > 0)
              \/ s.phase = "closing" /\ s.rounds = 0
    BY DEF CloseDecision, InClosingGrace
  <2> HIDE DEF last
  <2>3. ASSUME row.status = "pending"
        PROVE  CloseDecision(row.state, row.decisions) <=> s.phase = "closing" /\ s.rounds = 0
    BY <1>5, <2>1, <2>2, <2>3 DEF last
  <2> QED BY <1>5, <2>3 DEF Spent
<1>7. /\ \A u \in Process : u # t => pc'[u] = pc[u] /\ signal'[u] = signal[u]
      /\ \/ pc'[t] = "done" /\ r = NoReason
         \/ pc'[t] = "completing" /\ signal'[t] = r
  <2>1. CASE r = NoReason
    <3>1. Finish(t, "done")
      BY <2>1 DEF CheckClosure
    <3> QED BY <1>0, <2>1, <3>1, Finishes
  <2>2. CASE r # NoReason
    <3>1. signal' = [signal EXCEPT ![t] = r] /\ Goto(t, "completing")
      BY <2>2 DEF CheckClosure
    <3> HIDE DEF r
    <3>2. pc'[t] = "completing" /\ \A u \in Process : u # t => pc'[u] = pc[u]
      BY <1>0, <3>1, Goes
    <3>3. signal'[t] = r /\ \A u \in Process : u # t => signal'[u] = signal[u]
      BY <1>0, <3>1 DEF TypeOK
    <3> QED BY <3>2, <3>3
  <2> QED BY <2>1, <2>2
<1> HIDE DEF r
<1>8. ASSUME row.status = "pending" PROVE Running'
  <2>1. Running
    BY <1>8 DEF GraceInv
  <2>2. pc'[t] = "done" => ~Spent(Logged)
    BY <1>4, <1>6, <1>7, <1>8 DEF NoReason
  <2>3. (\A v \in Turn : pc'[v] \notin {"logged"} \cup Closing) => ~Spent(Logged)
    BY <1>7, <2>2 DEF Closing
  <2>4. \A p \in Process : pc'[p] \in Closing /\ signal'[p] = "close_decision" => Spent(Logged)
    <3> SUFFICES ASSUME NEW p \in Process, pc'[p] \in Closing, signal'[p] = "close_decision"
                 PROVE  Spent(Logged)
      OBVIOUS
    <3>1. CASE p = t
      BY <1>4, <1>6, <1>7, <1>8, <3>1 DEF Closing
    <3>2. CASE p # t
      BY <1>7, <2>1, <3>2 DEF Running
    <3> QED BY <3>1, <3>2
  <2> QED BY <1>1, <2>1, <2>3, <2>4, RowAndLogKept DEF Running
<1>9. \A v, x \in Turn : pc'[v] \in Posting /\ pc'[x] \in Posting => v = x
  BY <1>0, <1>2, <1>7
<1>10. pc'[Voice] \notin Closing
  BY <1>0, <1>7 DEF GraceInv
<1> QED BY <1>1, <1>8, <1>9, <1>10, RowAndLogKept DEF GraceInv

-----------------------------------------------------------------------------
(* The other steps, and the theorems *)

(* complete_session up to its writes *)
LEMMA GraceLock ==
  ASSUME IInv, GraceInv, NEW p \in Turn \cup {Beat}, LockSession(p) \/ CompleteSession(p)
  PROVE  GraceInv'
<1>0. TypeOK /\ p \in Process /\ p # Voice /\ row.status \in {"pending", "completed"}
  BY ProcessFacts, SessionAssumption DEF IInv, Core, TypeOK, Row
<1>1. pc[p] \in Closing /\ UNCHANGED <<row, log>>
  BY DEF LockSession, CompleteSession, Closing
<1>2. CASE \E step \in {"locked", "written"} : Goto(p, step) /\ signal' = signal
  <2>1. /\ pc'[p] \in {"locked", "written"}
        /\ \A u \in Process : u # p => pc'[u] = pc[u] /\ signal'[u] = signal[u]
    BY <1>0, <1>2, Goes
  <2> QED BY <1>0, <1>1, <1>2, <2>1, GraceMoves DEF Posting, Closing
<1>3. CASE Finish(p, "done") /\ row.status = "completed"
  <2>1. /\ pc'[p] \in {"idle", "done"}
        /\ \A u \in Process : u # p => pc'[u] = pc[u] /\ signal'[u] = signal[u]
    BY <1>0, <1>3, Finishes
  <2> QED BY <1>0, <1>1, <1>3, <2>1, GraceMoves DEF Posting, Unlogged, Closing
<1>4. \/ Goto(p, "locked") /\ signal' = signal
      \/ Goto(p, "written") /\ signal' = signal
      \/ Finish(p, "done") /\ row.status = "completed"
  BY DEF LockSession, CompleteSession
<1> QED BY <1>2, <1>3, <1>4

(* The end of the session *)
LEMMA GraceEnd ==
  ASSUME IInv, CacheInv, GraceInv, NEW p \in Turn \cup {Beat}, CommitCompletion(p)
  PROVE  GraceInv'
<1>0. log \in Seq(Event) /\ EndedOnce /\ Voice \in Process
  BY ProcessFacts DEF IInv, Core, TypeOK
<1>1. /\ pc[p] = "written" /\ row.status = "pending" /\ signal[p] \in Reason
      /\ pc'[p] \in {"idle", "done"} /\ p \in Process /\ p # Voice /\ Turn \subseteq Process
      /\ \A u \in Process : u # p => pc'[u] = pc[u]
  BY CommitFacts
<1>2. Bounded(log') /\ Given(log')
  <2> DEFINE s == Logged
             r == signal[p]
  <2>1. s \in State /\ Counted(s, log) /\ (r = "close_decision" => Spent(s))
    BY <1>1 DEF CacheInv, GraceInv, Running, Closing
  <2>2. ~EndIn(log)
    BY <1>0, <1>1 DEF EndedOnce, EndIn
  <2>3. log' = Append(log, SessionEnded(r)) /\ r \in Reason
    BY CommitFacts
  <2> HIDE DEF s, r
  <2> QED BY <1>0, <2>1, <2>2, <2>3, TheEnd
<1>3. \A t \in Turn : pc'[t] \in Posting => pc[t] \in Posting
  BY <1>1 DEF Posting, Unlogged, Closing
<1>4. \A v, x \in Turn : pc'[v] \in Posting /\ pc'[x] \in Posting => v = x
  BY <1>3 DEF GraceInv
<1>5. pc'[Voice] \notin Closing
  BY <1>0, <1>1 DEF GraceInv
<1>6. row'.status # "pending"
  BY CommitFacts
<1> QED BY <1>2, <1>4, <1>5, <1>6 DEF GraceInv

(* Every step that is not a hurrying one keeps it. *)
LEMMA GraceNext ==
  ASSUME IInv, CacheInv, GraceInv, [Next]_vars, [~Hurrying]_vars
  PROVE  GraceInv'
<1>0. TypeOK /\ Beat \in Process /\ Voice \in Process /\ Turn \subseteq Process
      /\ Beat \notin Turn /\ Voice \notin Turn /\ Voice # Beat
  BY ProcessFacts, SessionAssumption DEF IInv, Core
<1>1. CASE UNCHANGED vars
  BY <1>1, GraceApart DEF vars, GraceInv
<1> SUFFICES ASSUME Next, ~Hurrying PROVE GraceInv'
  BY <1>1
<1>2. ASSUME NEW t \in Turn, Load(t) \/ TurnStep(t) \/ Interrupt(t) PROVE GraceInv'
  BY <1>2, GraceStart, GraceSave, GraceAppend, GraceCheck DEF TurnStep
<1>3. ASSUME NEW p \in Turn \cup {Beat}, CompletionStep(p) PROVE GraceInv'
  BY <1>3, GraceLock, GraceEnd DEF CompletionStep
<1>4. CASE FindStuck
  <2>1. UNCHANGED <<row, log>> /\ Goto(Beat, "completing")
    BY <1>4 DEF FindStuck
  <2>2. /\ signal'[Beat] = "max_duration"
        /\ \A u \in Process : u # Beat => pc'[u] = pc[u] /\ signal'[u] = signal[u]
    BY <1>0, <1>4, <2>1, Goes DEF FindStuck, TypeOK
  <2> QED BY <1>0, <2>1, <2>2, GraceMoves
<1>5. ASSUME NEW heard \in SUBSET Turn, ReadForPersist(heard) PROVE GraceInv'
  <2>1. UNCHANGED <<row, log, signal>> /\ Goto(Voice, "persisting")
    BY <1>5 DEF ReadForPersist
  <2>2. pc'[Voice] = "persisting" /\ \A u \in Process : u # Voice => pc'[u] = pc[u]
    BY <1>0, <2>1, Goes
  <2> QED BY <1>0, <2>1, <2>2, GraceMoves DEF Closing
<1>6. CASE WriteArtifacts
  <2>1. pc[Voice] = "persisting" /\ Finish(Voice, "done")
    BY <1>6 DEF WriteArtifacts
  <2>2. pc'[Voice] = "done"
    BY <1>0, <2>1, Finishes
  <2> QED BY <2>1, <2>2 DEF Hurrying, Parting, WritesBack
<1>7. ASSUME NEW c \in Conditions, Arise(c) PROVE GraceInv'
  BY <1>7, GraceApart DEF Arise, GraceInv
<1>8. ASSUME NEW p \in Process, Crash(p) PROVE GraceInv'
  <2>1. UNCHANGED <<row, log>> /\ Finish(p, "crashed")
    BY <1>8 DEF Crash
  <2>2. /\ pc'[p] = IF p = Beat THEN "idle" ELSE "crashed"
        /\ \A u \in Process : u # p => pc'[u] = pc[u] /\ signal'[u] = signal[u]
    BY <1>0, <2>1, Finishes
  <2>3. p \in Turn => pc[p] \notin Posting
    BY <1>0, <2>2 DEF Hurrying, Abandons
  <2> QED BY <1>0, <2>1, <2>2, <2>3, GraceMoves DEF Posting, Unlogged, Closing
<1> QED BY <1>2, <1>3, <1>4, <1>5, <1>6, <1>7, <1>8 DEF Next

(* It holds until the first hurrying step. *)
LEMMA GraceInvariance == Spec => [](CacheInv /\ GraceInv) \/ <><<Hurrying>>_vars
<1>1. Init => CacheInv /\ GraceInv
  BY CacheInit, GraceInit
<1>2. [~Hurrying]_vars => [~Parting]_vars
  BY DEF Hurrying
<1>3. IInv /\ (CacheInv /\ GraceInv) /\ [Next]_vars /\ [~Hurrying]_vars
        => (CacheInv /\ GraceInv)'
  BY <1>2, CacheNext, GraceNext
<1> QED BY <1>1, <1>3, Invariance, PTL DEF Spec

(* No more than GraceRounds exchanges follow the one that opened the grace,*)
(* or the LLM's last decision to close, before the session ends, unless a  *)
(* turn has saved past another one, or was broken off before its check.    *)
THEOREM GraceStaysBounded == Spec => []GraceIsBounded \/ <><<Hurrying>>_vars
<1>1. ASSUME IInv, CacheInv, GraceInv PROVE GraceIsBounded
  <2>1. log \in Seq(Event)
    BY <1>1 DEF IInv, Core, TypeOK
  <2>2. CASE row.status = "pending"
    <3> DEFINE s == Logged
    <3>1. s \in State /\ Counted(s, log)
      BY <1>1, <2>2 DEF CacheInv, GraceInv, Running
    <3> HIDE DEF s
    <3>2. Bounded(log)
      BY <2>1, <3>1, CountedBounds DEF Bounded
    <3> QED BY <3>2, TheProperties
  <2>3. CASE row.status # "pending"
    BY <1>1, <2>3, TheProperties DEF GraceInv
  <2> QED BY <2>2, <2>3
<1>2. IInv /\ CacheInv /\ GraceInv => GraceIsBounded
  BY <1>1
<1> QED BY <1>2, Invariance, GraceInvariance, PTL

(* A session that ends by close_decision has given the participant the     *)
(* whole grace, unless such a step has been taken.                         *)
THEOREM GraceIsAlwaysGiven == Spec => []GraceIsGiven \/ <><<Hurrying>>_vars
<1>1. ASSUME IInv, GraceInv PROVE GraceIsGiven
  <2>1. CASE row.status = "pending"
    BY <1>1, <2>1 DEF IInv, EndedOnce, GraceIsGiven
  <2>2. CASE row.status # "pending"
    BY <1>1, <2>2, TheProperties DEF GraceInv
  <2> QED BY <2>1, <2>2
<1>2. IInv /\ GraceInv => GraceIsGiven
  BY <1>1
<1> QED BY <1>2, Invariance, GraceInvariance, PTL

=============================================================================
