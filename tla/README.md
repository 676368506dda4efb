# Merism, specified in TLA+

Merism is a platform for AI-moderated interviews.  A researcher writes an
interview guide; participants enter through a link, give consent, answer a
screener and talk (by text or by voice) to a moderator driven by an LLM;
finished sessions go through a pipeline that cleans, tags and indexes them;
recruitment broadcasts invite people over e-mail and chat channels.  The
backend is Django with Channels, Celery and PostgreSQL (`src/merism`), the
frontend React with Kea (`src/frontend`).

This directory holds TLA+ modules of the parts whose behaviour depends on the
order in which things happen: several processes that read and write shared
rows on the server, and, in the browsers, callbacks, timers and answers that
come when they like.  TLC configurations check them on small instances, and
TLAPS proofs establish what they check of safety for every instance.  Paths below
are relative to the repository.

## 1. The system's parts

| Part | State | Operations | Interacts with |
|---|---|---|---|
| Guide cursor (`merism/conductor/guide_cursor.py`) | none; reads the guide's JSON | `find_question`, `next_question`, `first_question`, probe settings | moderator, validator |
| Decision validator (`conductor/decision_validator.py`, `prompts.py`) | none | `validate_decision`: rules 1a, 1b, 2, 3 may replace the LLM's decision | moderator |
| Conductor state (`conductor/state.py`) | phase, cursor, probe counters, closing rounds; stored in `InterviewSession.moderator_state` | the `mark_*` methods, `enter_closing`, `consume_closing_round` | moderator, event log, closure |
| Moderator turn runner (`conductor/moderator.py`) | a copy of the session row for the time of a turn | `stream_turn`: read, decide (LLM), generate (LLM, streamed), save the row, append the events, check closure | text view, voice processor, event log, closure |
| Event log (`conductor/event_log.py`, `models/session_event.py`) | `SessionEvent` rows, unique `(session, seq)` | `append_event(s)` under the row lock, `reconstruct_state` | moderator, closure, readers |
| Closure (`conductor/closure.py`, `signals.py`) | session and participation status | `check_completion`, `complete_session`, `abandon_stuck_sessions` (beat) | event log, post-session task |
| Voice connection (`realtime/voice.py`, `voice/`) | frame queues, buffers, metrics, recorder; merged into the session row at the end | connect, frames, barge-in, disconnect and `_write_session` | moderator, session row |
| Participant entry (`participant/views.py`) | Participation, Invitation, InterviewSession rows; a browser cookie | resolve, consent, screener, start | link tracking, conductor |
| Study lifecycle (`models/study.py`, `conductor/study_closure_signal.py`, `api/views.py`) | study status, links | launch, close, automatic closure when the target is reached | closure, participant entry |
| Recruitment (`recruitment/tasks.py`, `orchestrator.py`, `rate_limit.py`, `adapters/`) | Broadcast, Delivery, Invitation rows, a rate budget | launch, dispatch, finalise, retry, periodic pick-up, health check | channels, participant entry |
| Post-session pipeline (`conductor/tasks.py`, `post_session.py`, `cleaning/`) | session transcript, quotes, tags, insight, index | polish, extract and tag, index and insight, as a Celery chain with retries | closure, codebook, knowledge |
| Concept rotation (`conductor/concept_plan.py`, `concept/`) | one cursor per block | expand a guide, advance the cursor | moderator |
| Codebook (`codebook/`) | codes, versions, suggestions | propose, review, merge, publish | extraction |
| Guide authoring (`interview_guide/`) | guide revisions | generate, review, store | moderator |
| Participant's browser (`frontend/src/features/participant`, `features/interview`) | the step of the entry page; microphones, sockets, the playback queue; a typed draft | consent, screener, start; connect, press to talk, play, retry, leave | entry views, voice connection, text view |
| Study page (`frontend/src/features/studies`) | the URL, the loaded study, drafts of the mounted tab | switch study or tab, edit, save, launch | study API |
| Study editors (`studies/tabs/outline`, `screener`, `stimuli`) | sections and questions, pass marks, ranked concepts, a selection | add, duplicate, move, retype, remove, load | guide, screener and concept API |
| Result pages (`features/analysis`, `decisions`, `ask`, `sessions`, `inbox`) | what was loaded, what is generating, what streams, timers | open, poll, ask, mark, copy | their APIs |
| App shell (`frontend/src/app`, `layout`, `lib`, `authentication`, `settings`, `home`) | route, local storage shared by windows, forms, list positions | navigate, sign in, choose, save | all pages |
| Agents, analysis, reports, knowledge, ask on the server | finished data | LLM calls, clustering, rendering, search | post-session pipeline |
| Speech clients, gateways, admin, design system | none of their own | I/O and presentation | all |

What makes each hard, and what makes it correct:

* **Turns.**  A turn reads the row, awaits two LLM calls and writes three
  columns back from its old copy; the text view and the voice connection start
  turns without looking whether one is under way.  Wanted: probe caps hold in
  every saved state, the caches (`moderator_state`, `transcript`) say what the
  log says, the closing grace is given and is bounded.
* **Event log and closure.**  Turns, the beat task and a closing WebSocket
  write the same session.  Wanted: sequence numbers never collide, a session
  ends once and together with its participation, its post-session task is
  launched, and no lock is left behind.
* **Participant entry and study lifecycle.**  Requests check first and write
  later; two tabs send the same request.  Wanted: one open session per
  participation, unique interview numbers, a study that closes when its target
  is reached, statuses that do not go back.
* **Recruitment.**  Workers read pending deliveries, send, and then write;
  tasks are retried, repeated by beat and die.  Wanted: each delivery is sent
  once, counters add up, a broadcast ends, the rate budget is kept.
* **Post-session pipeline.**  Stages run more than once and beside a voice
  connection that still writes.  Wanted: idempotent stages, no lost update.
* **Voice pipeline.**  Frames are queued, cancelled and interrupted.  Wanted: no
  audio of an interrupted response, every started response ends.
* **Participant's browser.**  A microphone is granted, a socket opens and an
  answer arrives after the view that asked for it has gone.  Wanted: nothing
  listens outside a turn or outside the room, browser and server agree on who is
  talking, nobody who has not consented is interviewed.
* **Study page and editors.**  Loads and saves of several studies overlap while
  tabs mount and unmount; edits are positional.  Wanted: drafts belong to the
  study that is shown, texts do not end up in another study, identifiers stay
  unique, pass marks stay options.
* **Result pages.**  Timers poll, streams outlive their page, answers come out of
  order.  Wanted: a page that says "generating" polls, an answer stands under its
  question, nothing says "loading" for good.
* **App shell.**  Lists change while a key is on its way, windows share a storage.
  Wanted: Enter takes what is highlighted, nothing is dragged that is not there, a
  refresh brings back what some window showed (it does not: section 5).

`PROJECT.json` lists all components with what is modelled of each, and the
hazards at their lines with the properties that watch them.

## 2. Modules

| Module | Models |
|---|---|
| `InterviewGuide` | the guide as a sequence of questions in reading order; `find_question`, `first_question`, `next_question` |
| `DecisionValidator` | `ModeratorDecision` and `validate_decision`, one operator per rule |
| `ExecutionState` | `ExecutionState` and its methods, `_resolve_state`, `_apply_decision_to_state` |
| `SessionEvents` | the events of a turn, `reconstruct_state` as a fold over the log, `check_completion` |
| `SessionLifecycle` | abstract: a log that grows by whole turns, one ending in one step with the statuses |
| `ConductorSession` | one session and every process that writes it |
| `MCConductorSession` | a guide, decision sets and symmetry for TLC |
| `Lemmas` | what several proofs need to know of numbers, counting and sequences |
| `ConductorSession_proofs` | the conductor's theorems |
| `ParticipantEntry_proofs` | the participant entry's theorems |
| `ParticipantEntry` | a study's link, participations, invitations and interview numbers, and the closure of the study |
| `MCParticipantEntry` | which tab belongs to which browser |
| `Recruitment` | a broadcast, its deliveries, the workers that dispatch, retry and finalise it, the hourly budget |
| `Recruitment_rate` | the budget's theorems |
| `InterviewRoom` | the spoken interview in the participant's browser |
| `ParticipantBrowser`, `MCParticipantBrowser`, `ParticipantBrowser_proofs` | the entry page, `InterviewRoom` and the typed interview, composed; instances; theorems |
| `RoomStage` | what the room shows and attaches: camera, stimuli, files |
| `StudyPage`, `MCStudyPage`, `StudyPage_proofs` | the page of a study with the tabs that keep drafts; instances; theorems |
| `OutlineEditor`, `ScreenerEditor`, `ConceptBlocks` | the three tabs that edit what is asked |
| `StudyEditors` | the three in their page |
| `InsightsPage`, `ReportsPage`, `DecisionsPage`, `AskMerism` | insights, custom reports, the assistant's conversations, the chats |
| `ResearcherBrowser`, `MCResearcherBrowser`, `ResearcherBrowser_proofs` | `StudyEditors` and these four, composed; instances; theorems |
| `RecruitQuotas`, `ReportQuestions`, `StudySessions`, `Inbox` | quotas and their dialog; questions of a report; sessions, transcript, share link and broadcasts; the inbox |
| `SelectBox`, `CommandPalette`, `SettingsForms`, `AppSidebar`, `SignIn`, `StudiesHome` | the list box, the palette, the forms of the settings, the chrome of the app, login and logout, the home page |
| `BrowserParts`, `MCBrowserParts`, `BrowserParts_proofs` | these and `RoomStage`, one at a time; instances; theorems |

### Participant entry in detail

A **tab** runs one request at a time, and a browser's tabs share its cookie.
The requests of `participant/views.py` are not transactions, so each is split
where it queries again: `ResolveLink` (link, invitation, participation, quota)
then `CreateParticipation`, `BindInvitation`, `Answer`; `PostConsent` then
`SaveConsent`; `PostScreener` then `SaveGrade` and `Answer`; `StartSession` then
`AllocateNumber` and `InsertSession`.  `copy` is the row a request has read; a
`save(update_fields=...)` writes the named columns from it.

A **worker** runs `complete_session`: `LockSession`, `CountCompleted` (the
handler of `study_closure_signal.py`, in the same transaction) and
`CommitCompletion`.  How an ending is decided on is the matter of
`ConductorSession`; here any open session may end.  The **researcher** launches
and closes the study.

`studyLock` and `rowLock` are the row locks of PostgreSQL.  Inserting a row with
a foreign key needs a share of the row it refers to: a new participation waits
for who has the study locked, a new session for who has the participation
locked.  `Deadlock` is the database aborting one of two transactions that wait
for each other.

### Recruitment in detail

`dispatch_recruitment_delivery` is `Receive`, `ReadPending`, then for each
delivery `AddKey` / `Increment` / `AddAgain` (the cache operations of
`check_and_increment_rate`), `Send` and `SaveDelivery`, and at last
`CountFailed`, `CountSent`, `SaveStatus` (`_finalize_broadcast_status`).
`retry_failed_deliveries` is `ResetFailed` and `DispatchAgain`, the send request
`EnqueueSend` and `SaveSending`, the beat task `DispatchPending`.  Each is a
query or an update of its own in the code.  `allowed` is a history variable: the
messages let through since the cache key last expired.  A crashed worker loses
its task, as Celery acknowledges early here.

### The browsers in detail

Kea runs the reducers of an action before its listeners, so an action and the
synchronous part of its listener are one step in which the listener sees what
the reducers have left.  Everything after an `await`, a timer, a fade, or an
effect that runs after a render is a step of its own.  A request is a record
that is served by the server and then answered to the browser in two steps, in
any order among the requests in flight, and may fail.  A logic that unmounts
forgets its state; a listener of it that is still waiting runs on.

* `InterviewRoom`: `shown` is the view that is mounted and `uiPhase` what the
  logic wants next, apart because the one follows the other by a render.  `mics`
  and `sockets` are the browser's objects, alive until somebody stops them,
  `voice` and `check` what voiceStreamLogic and MicCheck hold of them.
  `connects` are calls of `connect()` that wait for their microphone.
* `ParticipantBrowser` extends it: `posts` are requests of the entry page,
  `server` is what the endpoints remember.
* `StudyPage`: `db` is the server's, `study` the loaded record, `draft` the
  drafts of the mounted tab.  A text is known by the study it was written for.
* `ResearcherBrowser` and `BrowserParts` compose parts that share nothing with one
  another: a variable `area` says which is open, and the slots (`x1`, `x2`, ...)
  are handed to that part by `INSTANCE ... WITH`.  So the parts' state spaces add
  up and do not multiply.  Parts that do share state are one module
  (`ReportsPage` keeps list and detail, `AskMerism` both chats, `AppSidebar` all
  windows).
* In the outline the guide is always loading: `loadGuide`'s listener looks at the
  flag its own reducer has set.  `Next` has therefore no network; `SyncSpec` has
  it, with the timer.

### The conductor in detail

`InterviewGuide` to `SessionEvents` are pure: each definition is one function of
the source, or one branch of it.  `ConductorSession` adds the processes.

* A **turn** is identified with the participant message that starts it.  It
  goes through `Load` (the row is read and `moderator_state` validated),
  `Decide` (coverage_steer and the validator), then either `Interrupt` or
  `Save` (decision applied, three columns written), `BeginAppend` /
  `CommitAppend` (the transaction of `append_events`) and `CheckClosure`.
  Between any two of them other processes run: these are the awaits of
  `stream_turn`.
* **Completion** (`LockSession`, `CompleteSession`, `CommitCompletion`) is
  the transaction of `complete_session`, run by a turn or by the **beat task**
  (`FindStuck`).
* The **voice connection** ends with `ReadForPersist` and `WriteArtifacts`,
  the read and the write of `_write_session`, which takes no lock between
  them.
* `Arise` lets a condition of the clock or of the rest of the product come
  true; `Crash` kills a worker and rolls its open transaction back.

`lock` is the PostgreSQL row lock; an `UPDATE` outside a transaction waits for it
and does not hold it.  A transaction's writes become visible at its last step;
`base` is what it read before.  A definition headed "Wrong variant" is not part
of the model: it is a plausible mistake in the definition after it, used to
show that the checked properties notice it.

Abstractions: texts are left out, messages are model values, a goodbye pattern
is membership in `Leaving`, time is a set of conditions (`goals`, `silent`,
`overtime`, `stale`); a write removes `stale` (it moves `updated_at`) and an
append removes `silent`.  One transcript entry stands for the two rows of an
exchange.  Questions have no entries of the "budget" numbers that only feed the
prompt.  Concept expansion happens before the model starts: `Guide` is the
effective list of questions.

## 3. Runs

The runs of the conductor use a guide of two questions: `q1` wants a probe
(`deep`, one preset probe), `q2` allows a preset and a dynamic probe; `qx` is
an id the guide does not have.

| Run | Question it answers | Bounds |
|---|---|---|
| `concurrent` | Do overlapping turns, the beat task and a crash keep types, caps, sequence numbers, the single ending and the post-session task, and implement `SessionLifecycle`? | 3 messages, 2 in flight, 1 crash |
| `serial` | One turn at a time: do cache and transcript agree with the log, is the closing grace given in full and bounded, for all ten kinds of decision? | 5 messages (one opens the grace, three use it up, one more), one of them a goodbye |
| `liveness` | Does every session end and every turn finish? | fair scheduling, 1 crash |
| `voice` | Does the ending survive a closing voice connection, leaving clients, a failing broker? | 2 messages, 2 in flight |

The runs of the participant entry have a tab in each of two browsers.

| Run | Question it answers | Bounds |
|---|---|---|
| `entry` | Are interview numbers sequential, does the study close at its target, and does nobody interview without consent? | 2 browsers, 1 invitation, 2 completions at a time, target 2, 2 participations, 3 sessions |
| `entry_draft` | Does an anonymous link that requires an invitation leave nobody unconsented, with launch and screener? | 2 browsers, 1 worker, 2 participations, 1 session |

| Run | Question it answers | Bounds |
|---|---|---|
| `recruitment` | Is the hourly budget kept, and does every broadcast end, with overlapping dispatches, retries and crashes? | 2 deliveries, 2 workers (`docker-compose.yml:84`, `--concurrency=2`), limit 2, 2 queued dispatches, 1 retry, 1 crash |
| `room` | The participant's browser: does nothing stray but by a failure, do turns agree, does the room have consent and the URL's session? | 2 microphones, 2 sockets, 2 sessions, 1 chunk, 2 posts, a patient participant |
| `researcher` | Editors and result pages: see the table below | 3 edits, 2 studies, 2 reports, 3 conversations, 2 questions in a chat, one request of the stimuli tab |
| `study` | Do drafts and saves belong to the study that is shown? | 2 studies, 1 edit, 2 requests, a researcher who does not wait |
| `parts` | The smaller parts of the browsers: see the table below | two or three of most things, see `parts.cfg` |
| `edits_unsaved` | violation: an edit of the outline is never saved | the starter outline, 1 edit |

| Property | Run | What could go wrong |
|---|---|---|
| `OutlineIsSound` | researcher | repeated identifiers, a selection that points at something removed, options of a question that is no choice |
| `PassMarksAreOptions` | researcher | pass marks that refer to removed options |
| `ShownIsStored` | researcher | a list that is not the server's after a partly refused reorder |
| `GenerationIsPolled` | researcher | a timer without its page, or a page without its timer |
| `ConversationsAreWhole` | researcher | an answer stored in another conversation |
| `AnswersFitQuestions` | researcher | an answer under another question, an input locked for good |
| `OnlyFailuresStray` | room | a microphone or socket that nobody can stop any more, other than one whose audio context failed |
| `EnterTakesHighlighted` | parts | a disabled or vanished option or command that is taken |
| `SegmentsAreWhole` | parts | segments without a name or a positive target in a plan; nothing about the dimension |
| `FormsAreSentWell` | parts | an entry created twice by one form, a login without its token |
| `DragHasItsHandle` | parts | a drag that goes on, and is stored, after its panel has gone |
| `OnlySizesOvershoot` | parts | an empty page that something else than a larger page size leads to |
| `HoldsWhatItShows` | parts | a camera that is on behind a stimulus, object URLs that leak other than from the error view |
| `AddedQuestionsShow` | parts | a question that goes to another report or is never seen |
| `NothingHangs` | parts | "loading" or "copied" for good |
| `MarksAreSeen` | parts | a list right after a mark that does not show it, a list that keeps loading; not an older list that comes later, nor a colleague's mark that is overwritten |

Why these bounds are enough: the interesting interleavings of the conductor need
two turns and one other writer, since the row lock and the old copy are pairwise
conflicts; two turns in flight out of three messages also cover a turn that
starts between two others.  One crash covers each step once; a second crash meets
the same states with fewer processes.  Five messages are what the grace needs.
Two questions with the three probe policies that matter reach each rule of the
validator.  All these bounds are for TLC alone: every safety property of every
passing run is also proved, for any value of its constants (section 4); where a run
leaves a step out, its theorem says "for ever, or until that step".  In the participant entry every race is between two processes
over one row or one lock; two tabs and two workers give each pair, and the third
session lets a completed participation start and end again.  In `recruitment` two dispatches on
two processes give each overlap of the hourly counter, of the counts and of the
deliveries; the limit of two has the counter at, below and past it.  In the
browsers a race needs two of a kind (an old and a new socket, request, chat or
window) and the step that makes the old one old; three edits are one to set up,
one to disturb and one to show.  `parts` has one window, since what is claimed of the
shell is about each window alone (the theorem is for any number; with two the run does
not end in five minutes), and one session of one of two studies.

The symmetry sets are of values nothing tells apart: messages
(`TurnSymmetry`), in `serial` those that do not say goodbye, workers, studies,
reports, option values; a run with a temporal property has none, but for
`concurrent` and `parts`, whose properties are safety properties.

**Patience.**  `Patient` says that a user lets what was asked for end before the
next try.  It is TRUE in `room` (tries to connect, starts, ways out of the error
view) and in `researcher` (one change of the stimuli at a time), since the code does
go wrong without it: section 5 says how.  `study` does without.  It is a choice of the
runs; no theorem assumes it.

**Fairness.**  `liveness` (`FairSpec` of `ConductorSession`): a turn under way goes on (the LLM
calls answer or raise: both clients have timeouts and `stream_turn` catches
their failures), completion and the voice write go on, Celery beat ticks every
interval (`settings/base.py`), and two hours pass (`Arise("stale")`).  Nothing
forces a participant to write, a client to leave or a worker to die.
`recruitment` (`FairSpec` of `Recruitment`): a worker that has a task goes on
(adapters have timeouts, or raise), a send request that has enqueued saves, beat
ticks every minute, and an hour passes.  Nothing forces a researcher to send or
retry, and nothing keeps an adapter from refusing every message.
`edits_unsaved` (`SyncSpec` of `OutlineEditor`): timers fire and requests are
answered.

`CHECK_DEADLOCK FALSE` is set where the system may really stop: all messages are
processed and the session is completed, a broadcast has ended, a page has nothing
left to do but stay, or the bounds on rows and clicks are used up.

## 4. Proofs

Every safety property that a passing run checks is the subject of a theorem.  An
invariant is seldom inductive as it is checked; for each component this section
says what has to be added and why.  The names ending in `_proofs` hold the
theorems of the module they are named after, `Lemmas` the facts they share.

### The conductor

`ConductorSession_proofs` first shows that every operator the model is built from
returns a value of its type, for every guide and any set of decisions.

It then proves `Spec => []IInv`.  `TypeOK` and
`EndedOnce` are not inductive: that a completion may log an ending depends on the
session still being pending when the transaction commits, hence on who holds the
lock since it was read.  `IInv` adds

* `LockInv`: a process at a step inside a transaction is the holder of the lock,
  and the lock has no holder outside one;
* `SignalInv`: who is completing has a closure signal;
* `Core`: while a completion holds the lock the row is pending and the log has
  no ending, what is read as max(seq) is still the length of the log, and what a
  turn or the voice connection keeps in memory is well typed.

From it follow `TypeCorrect`, `SessionEndsOnce` and `SeqNeverConflicts`.

What the code keeps only until a certain step is stated as that:
`Spec => []P \/ <><<Step>>_vars`, for ever or until somebody takes the step.  The proof is
that of an invariant, in which every step but the one named keeps it.  So the theorem
says of the whole program, with all its processes, which of its steps can break `P`,
and that nothing else does.

`CompletedSessionsAreProcessed` adds `Launched`: a row that says completed has its
task, or is being completed by the transaction that launches it.  The step that ends
it is `BrokerRefuses`: a completion whose task the broker does not take, which the
handler swallows; nothing launches the task afterwards.

For `CapsAreKept` the invariant speaks of the decision a turn has in hand: it is
*sound* for the copy of the state in the same turn (if it asks for a probe, the
counter in that copy is below the cap), and all copies, the row and the voice
connection's copy are within the caps.  Since a save writes the state of one copy with one sound decision applied, overlapping turns
cannot break it, whatever updates they lose.

`Refinement` shows that every step of `ConductorSession` is a step of
`SessionLifecycle` or leaves its variables alone.

`CacheAgrees`, `TranscriptAgrees`, `GraceStaysBounded` and `GraceIsAlwaysGiven` speak of
folds over the log.  What a fold yields for every log is induction over data, which
no prover here does; but `ReconstructState` is a recursive function over the log's
length, so a step needs only its value for one event more, and where a proof needs
a fact for all prefixes it takes a least counterexample (`LeastExists` in `Lemmas`)
and refutes it.  `CacheInv` says: a turn that decides or speaks works on the state it
read (`Fresh`); once it has saved, row and log differ by exactly its exchange
(`Written`); when nobody is between save and append, they agree (`Agreed`).
`GraceInv` adds that the number of closing rounds is the number of turns the log shows
since it was decided to close (`Counted`), used up only if a turn is about to find
that out (`Running`).  Any number of turns may be under way, workers crash, clients
leave.  What ends the first two is `Parting`: a turn saves while its copy is overtaken
or while another has yet to append, a turn is broken off between save and append, or
the closing voice connection writes the row back.  What ends the other two is
`Hurrying`: one of these, or a turn saves while another has yet to look whether the
session is to be closed, or is broken off before it has.  The run `serial` fixes
constants with which none of these steps exists; TLC refutes cache and transcript with
two messages in flight, and all four with one crash (section 5 has the causes).

The proofs assume `GuideAssumption`, `NoDecisionAssumption`, `TurnAssumption` and
`SessionAssumption`: types of the constants and distinctness of the processes.

### Participant entry, recruitment and study page

`ParticipantEntry_proofs` proves `TypeOK` and `NumbersAreSequential`.  Its invariant
`Shape` adds that what a process has in hand refers to rows that exist, that who
inserts a session holds the Study row and has the next number (so the maximum
that `NextNumber` takes is the number of sessions), and that a completion holds
its participation's row from beginning to end.  One lemma (`MoveShape`) shows
that an action which moves one process, loses no row and takes nobody's lock
keeps it; each action then only has to show that it does no more.

The other three properties rest on `ConsentInv` and `TargetInv`.  `ConsentInv` says
what a request may conclude from its old copy: the copy of an interviewed or
completed participation has consent, a consent that is about to be written was
missing in the copy.  Hence a late `SaveConsent` never writes "completed" back,
consent is never taken back, and only `CommitCompletion` completes anybody.
`TargetInv` then says what a worker that leaves the study open relies on: its
participation was counted already, or one more does not reach the target *and*
the worker still holds the Study row, so that nobody else counts.  The theorem
assumes a study that is live from the start and a target above zero: with a
launch under way, a study closed by hand becomes live again and its completions
meanwhile are not counted.  The assumption on constants is `EntryAssumption`.

`Recruitment_rate` proves `RateStaysKept`.  That `allowed` is at most the limit is
false, and that it exceeds it by no more than the other workers is not inductive:
a worker that met the counter gone (`"expired"`) is promised a message whatever
the counter says by the time it asks again.  `RateInv` counts the promises:
while there is a counter, what it has allowed and what is promised is at most
the counter (or the limit, when it is past it) and one per other worker.  An
expiry forgets what was allowed and keeps the promises; the first message of the
next hour makes one promise fewer to reckon with.  The assumption is
`RecruitmentAssumption`: finitely many workers and a limit above zero.

`StudyPage_proofs` proves `TypeOK`, `DraftIsOfStudy` and `BriefIsOwn`.  They are not
inductive without what is under way: `StudyIsWhole` (the loaded study has its own
brief) and `RequestsAreOwn` (an answer that waits has its study's brief, and a
save of a brief goes to the study it was written for).  It assumes
`StudyPageAssumption` and `NoneAssumption`.

### The participant's browser

`ParticipantBrowser_proofs` shows two things of any participant: `TypeOK` (with
`PlayersBounded`, without which what is decoded and played is not known to stay in
range) and `RoomHasConsent`.  The latter says nothing of requests, so
`ConsentInv` does: until the server has a consent, the entry page is before it, no
session is open and no request, in any stage, carries a session or an answer that lies beyond consent.

`OnlyFailuresStray`, `TurnAgreed` and `InterviewFitsUrl` are false of an impatient
participant, so they too are proved for ever or until a step.  `HastyInRoom` ends the
first two: a new microphone check while a socket is still closing, another try or the
way back while a `connect()` awaits its microphone, the way back from the error view.
`HastyStart` ends the third: a second start while one is under way, or the way back
with a request under way.  Section 5 says what happens then.  `RoomInv` says what
a call consists of at each moment: a `connect()` that waits is the only one, it keeps
the current capture and every socket is closed; a socket that connects or is open is
the one the logic holds, of a room that is live; before that nothing is left of an
earlier call; a microphone that is on, and was not lost to a failure, is the check's or the current
capture; a gate
that is open, the button and the server mean the same turn; and outside the room's
page there is none of it.  No part is inductive without the others.  `UrlInv` adds
that a start is asked for on the entry page, one at a time, after the context has
come; it uses `RoomInv`.

### The researcher's browser

In `ResearcherBrowser_proofs` each area has its own invariant, under the premise that
the area is open; a step of one area opens no other.

* `GeneratedIsPolled`: requests are typed by their kind and ask for what exists; a page
  that is closed keeps nothing.
* `AnswersStand`: a message that streams has its stream (which may outlive it, when
  the chat is closed), a chat that is sending has one, and a chat that is not mounted
  is empty.
* `ConversationsStayWhole`: what is stored, what a save will store and what a load has
  brought are each the messages of one conversation.
* `OutlineStaysSound`: `OutlineInv` adds to uniqueness that identifiers are positive
  (0 is "no selection"), that no two sections share a question, and a form of the
  agreement that does not choose a section.  The lemmas on sequences
  (`WithoutPlaces`, `WithPlaces`) say that what is removed, inserted or moved leaves every
  other element a place of its own.  That a new identifier exists at all is a counting
  argument: fewer are taken than the range has (`SomeFree`, `EnoughFree`).  The bounds on
  sections, questions and options are any numbers.
* `PassMarksStayOptions`: marks point at options in the edited and in the stored
  screener.
* `ShownStaysStored` (for ever or until `Overlaps`, two changes under way together):
  one request, whose result is what is stored when it is answered.

### The smaller parts of the browsers

`BrowserParts_proofs` has one invariant for each part, joined in `PartsInv` in the same way.
Typical of what they add: every request of the inbox fits what is stored in each of
its stages (`MarksStaySeen`); a width that is dragged belongs to a window whose panel
is on the screen, and each step is one window's (`DragsKeepTheirHandle`); the list, its
tabs and the pages agree on how many studies there are, so that a page can only be
overshot by a size (`OnlySizesLeadAstray`); options of a list have distinct values, and the
commands that match a query are a sub-list of the registered ones, hence distinct
(`EnterStaysOnHighlighted`, by a least counterexample over the recursive function in
`Matching`).  `OnlySizesOvershoot` and `HoldsWhatItShows` say what a step may not do;
they are proved from the invariants before and after it.

### What is only model-checked

`EventuallyCompleted`, `TurnsTerminate`, `BroadcastEnds`: liveness needs fairness and
ENABLED, which are out of this prover's reach.  The violation `EditsAreSaved` needs
no proof.  `TargetCloses` is proved for a study that is live from the start with a
target above zero, as it is checked; without that TLC finds the counterexample named
above.

## 5. Where the code and its documentation part

One is a run with a counterexample; `PROJECT.json` quotes the line.

1. `edits_unsaved`: `loadGuide` returns at the flag its own reducer has set
   (`outlineEditorLogic.ts:857`), so the stored guide is never loaded, and the flag
   stays; every edit returns at that flag (`:902`), so none is sent and no failure is
   shown.  This is where the trace ends.  `saveGuide`, if it were called, would do
   as `loadGuide` does (`:875`).

These are stated as properties of their modules, marked as violated there or
below, and have no run; TLC refutes each on the instance of the named run.

On the server:

* `NextTurnLoads` (`ConductorSession`, constants of `voice`): the end of a voice
  connection adds keys to `moderator_state` that `ExecutionState` forbids
  (`voice.py:354`), and a session that goes on fails at every turn.
* `CacheMatchesLog` with a crash (`concurrent`): the row is saved before the events,
  in two transactions (`moderator.py:224`).
* `TranscriptMatchesLog` with two turns in flight (`concurrent`): overlapping turns
  overwrite each other's transcript entry (`moderator.py:184`).
* `OneOpenSession` (`ParticipantEntry`, two tabs of one browser): two starts of one
  participation create two open sessions (`views.py:497`).
* `TargetAlwaysCloses` (`ParticipantEntry`, target 1): a start and a completion can
  deadlock; when the completion's closure check is the victim, the study stays
  open although its target is reached (`study_closure_signal.py:55`).
* `RestIsSent` (`recruitment`): "Remaining deliveries are left as `pending` for the
  next hour" (`tasks.py:41-43`), but two overlapping dispatches may count one delivery
  as failed and as sent (`tasks.py:181-186`); the broadcast then ends with a
  delivery pending.  They also send it twice (`tasks.py:55`).

In the participant's browser:

* `AnswersArePosted` (`room`): the reducer of `sendMessage` empties the draft before
  the listener reads it (`textInterviewLogic.ts:71-77`, `:105`): no typed answer is
  ever posted.
* A microphone that is granted stays on when the audio context, its resume or the
  worklet fails afterwards: `AudioCapture.create` throws on without stopping the tracks
  (`AudioCapture.ts:47-74`).  `OnlyFailuresStray` allows that, and nothing else.
* `OnlyFailuresStray`, `TurnAgreed` with an impatient participant: who leaves, or tries
  again from the error view, while `connect()` waits for its microphone leaves a
  microphone or a socket behind that no `clear()` reaches
  (`voiceStreamLogic.ts:170`).
* `InterviewFitsUrl` with an impatient participant: the second of two starts,
  answered after the way back from the first one's text interview and before the
  entry page has its context again, opens the spoken room of a typed study.
* Who walks out of the error view leaves object URLs behind: the logic is not cleared.
  `HoldsWhatItShows` allows that step, and no other.
* `SilentAfterInterrupt`: a chunk that is being decoded while the participant
  interrupts is played afterwards (`voiceStreamLogic.ts:247-248`).

In the researcher's browser:

* `StudyPage`: `TextsAreOwn` (`recruitPlanLogic.ts:14-15`; settings and plan are saved
  to the URL's study with the drafts of the one before), `LaunchesWhatIsShown`
  (`RecruitTab.tsx`: the launch is of the URL's study), `SavesTheSection`
  (`studySettingsLogic.ts:17-19`: a section closed by Cancel is saved with the next).
* `ConceptBlocks`: `ShownIsStored` with two changes in flight: the older list, when
  it is answered last, stays.
* `DecisionsPage`: `TitlesAreOwn`, `NothingIsLost`: a title goes to the conversation
  that is open when it comes; saves overtake each other.
* `ReportQuestions`: `NumbersAreOwn`, `TabIsSegment`: the number of a new question
  counts the questions that are shown; the segment outlives its tab.
* `StudySessions`: `SessionsAreOwn`, `CopiedIsShown`: the server ignores `?study=`
  (`api/base.py:42-47`), and "copied" stays up for another study's link.
* `SettingsForms`: `TextsAreOwn`: Edit of another row keeps the form's texts.
* `RecruitQuotas`: `QuotasAreValid`: "both dimension label and every segment label must
  be non-empty" (`QuotaDialog.tsx:24-25`), but `save` (lines 128-139) looks at no
  dimension label, and a quota without segments is kept.
* `AppSidebar`: `StorageIsSomeWindow`: "the pinned list survives refresh"
  (`sidebarLogic.ts:14-16`).  The reducers' defaults are read once, when the module is
  evaluated (lines 127, 140, 154).  A page outside the app (login, 404) and back, in one
  document, mounts the sidebar with these, and its next change writes them over what
  was stored since.  Several windows do the same to one another.
* `StudiesHome`: `PageIsNotEmpty`: a larger page size on a later page leaves the page
  past the end, and the bar that leads back is not shown when what is left fits on one
  page (`HomePage.tsx:144`).

Met while modelling, evident from one line, and stated nowhere:

* the broker's failure to take the post-session task is swallowed (`signals.py:44`);
* an older list of the inbox that comes after a mark shows it unread again, and of two
  readers of an item that are written at a time one is dropped (`api/views.py:646-650`);
* an old stream of a chat unlocks the input of the one opened since
  (`askLogic.ts:102`); a change of study stops the timer, and if its load fails
  nothing starts one, whatever the page still shows (`insightsLogic.ts:113-121`); a removed option shifts the pass marks behind it
  (`screenerLogic.ts:117`);
* the table of sessions colours statuses the server never sends (`types.ts:103`,
  `in_progress`): those of the server are pending, active, completed and failed;
* the settings page asks for LLM providers and routes
  (`LLMGatewaySection.tsx:64`), which the server no longer has (`api/urls.py:80`);
* a report that is deleted while its last LLM call runs is stored again by the task's
  `save()` (`insights_tasks.py`); this is not modelled;
* a panel that closes in the middle of a drag leaves the body's cursor and selection as
  they were for the drag (`SidePanel.tsx:133-144`);
* the sidebar does not hear of the first scene of a document, nor of a study entered
  from a page outside the app: neither counts as recent;

* `close` during the closing grace seeds the three rounds again (`state.py:118`),
  so the hard close can be put off without end;
* going back to a question starts its probe counter again (`moderator.py:536`);
* `move_on` without a target opens the closing grace from any question
  (`moderator.py:557`);
* a barge-in loses the participant's message as well as the reply
  (`voice/processors/moderator.py:107`);
* two browsers that open one invitation at the same time get a participation each
  (`views.py:135`);
* screener answers set the participation's status back, also after the interview
  (`views.py:412`), and an interview can start without them (`views.py:480`);
* a close during a launch is overwritten (`api/views.py:84`);
* the retry of a broadcast that has failed altogether is dispatched and skipped
  (`tasks.py:55-59`, `:219-228`), and so is the retry after a channel that could not be
  set up (`tasks.py:66-68`); a send request saves "sending" over an outcome
  (`api/views.py:491-493`), which the beat task makes good;
* the hourly "sliding window" is a fixed one (`rate_limit.py:45-52`);
* `askLogic.ts:135` reads `text` where the server sends `partial`: answers appear at
  once, at the end;
* the sidebar keeps three studies, its comment speaks of 30 opens
  (`sidebarLogic.ts:14-16`); a reorder of concepts that fails is not rolled back
  (`conceptBlocksLogic.ts:40-41`); the dialog of a quota with Edit stages a blank one
  (`recruitPlanLogic.ts:98-99`); the language falls back to Chinese where the
  comment says English (`i18n/index.ts`).

## 6. Plan

Done: the conductor with its abstract specification, the participant entry, the
recruitment broadcasts, the participant's and the researcher's browser, each with
proofs of the safety properties its runs check.  Left, in order:

1. `PostSession`: the Celery chain beside a voice connection that still writes.
2. `VoicePipeline`: queues, interruption, end of stream, against the browser's end
   of the same protocol in `InterviewRoom`.
3. `ConceptRotation`, `Codebook`.
4. `ClosureClock`: the timeouts of closure, with time.

Worth proving next: which of the hasty steps of the room loses a microphone and which a
socket; that a delivery is sent at most once per overlapping dispatch; that
`TargetInv` survives a launch when completions before it are counted; and the safety
half of what liveness rests on (a turn that is under way is never without a step to
take while its lock is free).

## 7. Not modelled

On the server: prompt texts and LLM calls, speech clients, wire formats of the
recruitment channels and their health checks (which nothing schedules), embedding
and clustering, report rendering, the admin and settings: they keep no shared
state whose order matters, or only render it.  The voice pipeline, the
post-session chain, concept rotation and the codebook are in the plan.

In the browser: what no route and no component reaches (the analysis tab with its
charts, but for the chat that `AskMerism` has; the review of the outline;
`StudiesPage.tsx`; `saveScreener`; the stream of a typed answer,
`textInterviewLogic.ts:145-180`), components without state of their own (cards, rows,
toasts, charts, the display half of the design system, stories), and what tools
generate (`generated/api.ts`, `*LogicType.ts`).

The components list in `PROJECT.json` gives the reason for each.
