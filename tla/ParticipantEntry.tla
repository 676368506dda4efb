-------------------------- MODULE ParticipantEntry --------------------------
(***************************************************************************)
(* Participants entering a study through its link (participant/views.py),  *)
(* and the study closing by itself when its target is reached              *)
(* (study_closure_signal.py, inside the transaction of complete_session).  *)
(*                                                                         *)
(* A browser may have several tabs, and each tab one request at a time.    *)
(* Requests are not transactions: each query commits by itself, a save     *)
(* writes the named columns from the copy the request has read.  Starting  *)
(* a session and completing one are transactions with row locks.           *)
(*                                                                         *)
(* Left out: names and contacts, the recording of clicks and shares, the   *)
(* guide that start_session creates when the study has none, links and     *)
(* invitations that expire or are revoked.                                 *)
(***************************************************************************)
EXTENDS Naturals, Sequences, FiniteSetsExt

CONSTANTS
  Browser,            \* participants' browsers; a cookie each
  Tab,                \* their tabs
  Owner,              \* Owner[t]: the browser of tab t
  Worker,             \* processes that run complete_session
  Researcher,         \* the process of a launch request
  Nobody,             \* holds a lock that is free
  Token,              \* the invitations of the link
  NoToken,
  Target,             \* target_completed_count
  HasScreener,        \* the study has a Screener
  Anonymous,          \* link_mode
  RequireInvitation,  \* require_invitation of the link
  InitialStatus,      \* status of the study at the start
  MaxParticipations,  \* bound
  MaxSessions         \* bound

ASSUME EntryAssumption ==
  /\ Owner \in [Tab -> Browser]
  /\ Tab \cap Worker = {}
  /\ Researcher \notin Tab \cup Worker
  /\ Nobody \notin Tab \cup Worker \cup {Researcher}
  /\ NoToken \notin Token
  /\ Target \in Nat
  /\ {HasScreener, Anonymous, RequireInvitation} \subseteq BOOLEAN
  /\ InitialStatus \in {"draft", "live"}
  /\ MaxParticipations \in Nat
  /\ MaxSessions \in Nat

VARIABLES
  study,         \* Study.status
  linkActive,    \* StudyLink.is_active
  parts,         \* Participation rows, in the order of their creation
  sessions,      \* InterviewSession rows of the study
  invitation,    \* the participation an Invitation is bound to, or 0
  cookie,        \* the participation a browser's cookie names, or 0
  pc,
  work,          \* what a process keeps in memory
  studyLock,     \* who holds the Study row
  rowLock,       \* who holds a Participation row
  closureFailed  \* a study.auto_close_failed was logged

vars == <<study, linkActive, parts, sessions, invitation, cookie, pc, work,
          studyLock, rowLock, closureFailed>>

-----------------------------------------------------------------------------

Process == Tab \cup Worker \cup {Researcher}

(* "started" exists too, and no code writes it. *)
Status == {"invited", "consented", "screened", "interviewing", "completed", "dropped"}

Participation ==
  [status: Status, consented: BOOLEAN, score: {"none", "passed", "failed"},
   preview: BOOLEAN]

Session == [part: Nat \ {0}, number: Nat, open: BOOLEAN]

Work ==
  [part: Nat, copy: Participation, token: Token \cup {NoToken}, passed: BOOLEAN,
   number: Nat, session: Nat, close: BOOLEAN]

NewParticipation(preview) ==
  [status |-> "invited", consented |-> FALSE, score |-> "none", preview |-> preview]

NoWork ==
  [part |-> 0, copy |-> NewParticipation(FALSE), token |-> NoToken, passed |-> FALSE,
   number |-> 0, session |-> 0, close |-> FALSE]

Step == {"idle", "creating", "binding", "answering", "consenting", "grading",
         "numbering", "inserting", "completing", "counted", "launching"}

Init ==
  /\ study = InitialStatus
  /\ linkActive = TRUE
  /\ parts = <<>>
  /\ sessions = <<>>
  /\ invitation = [k \in Token |-> 0]
  /\ cookie = [b \in Browser |-> 0]
  /\ pc = [p \in Process |-> "idle"]
  /\ work = [p \in Process |-> NoWork]
  /\ studyLock = Nobody
  /\ rowLock = [i \in 1 .. MaxParticipations |-> Nobody]
  /\ closureFailed = FALSE

Goto(p, step, w) ==
  /\ pc' = [pc EXCEPT ![p] = step]
  /\ work' = [work EXCEPT ![p] = w]

Finish(p) == Goto(p, "idle", NoWork)

(* _resolve_link without preview *)
LinkOpen == linkActive /\ study # "closed"

(* Non-preview participations with status completed. *)
Completed ==
  {i \in DOMAIN parts : parts[i].status = "completed" /\ ~parts[i].preview}

-----------------------------------------------------------------------------
(* GET /i/<slug>/ *)

(* The cookie's participation; without one, the invitation's. *)
Existing(b, k) ==
  IF cookie[b] = 0 /\ k # NoToken THEN invitation[k] ELSE cookie[b]

(* Link, invitation and participation are read, and the quota is checked   *)
(* when there is no participation yet.                                     *)
ResolveLink(t, preview, k) ==
  LET p == Existing(Owner[t], k)
      bound == k = NoToken \/ invitation[k] = p
  IN  /\ pc[t] = "idle"
      /\ preview \/ LinkOpen
      /\ k = NoToken => ~RequireInvitation
      /\ IF p # 0
           THEN Goto(t, IF bound THEN "answering" ELSE "binding",
                     [NoWork EXCEPT !.part = p, !.copy = parts[p], !.token = k])
           ELSE /\ preview \/ Cardinality(Completed) < Target
                /\ Goto(t, "creating",
                        [NoWork EXCEPT !.copy = NewParticipation(preview), !.token = k])
      /\ UNCHANGED <<study, linkActive, parts, sessions, invitation, cookie,
                     studyLock, rowLock, closureFailed>>

(* The insert refers to the Study row and waits for who has it locked. *)
CreateParticipation(t) ==
  /\ pc[t] = "creating"
  /\ studyLock = Nobody
  /\ Len(parts) < MaxParticipations
  /\ parts' = Append(parts, work[t].copy)
  /\ Goto(t, IF work[t].token = NoToken THEN "answering" ELSE "binding",
          [work[t] EXCEPT !.part = Len(parts')])
  /\ UNCHANGED <<study, linkActive, sessions, invitation, cookie, studyLock,
                 rowLock, closureFailed>>

(* _maybe_bind_invitation *)
BindInvitation(t) ==
  /\ pc[t] = "binding"
  /\ invitation' = [invitation EXCEPT ![work[t].token] = work[t].part]
  /\ Goto(t, "answering", work[t])
  /\ UNCHANGED <<study, linkActive, parts, sessions, cookie, studyLock, rowLock,
                 closureFailed>>

(* Wrong variant: consented_at is missing among the columns to save. *)
StatusOnly(row, copy) ==
  [row EXCEPT !.status = IF copy.status = "invited" THEN "consented" ELSE copy.status]

(* Writing consented_at and status from a copy. *)
Consented(row, copy) ==
  [row EXCEPT !.consented = TRUE,
              !.status = IF copy.status = "invited" THEN "consented" ELSE copy.status]

(* _compute_next_step and the response: anonymous links consent by         *)
(* themselves, the cookie is set.                                          *)
Answer(t) ==
  LET p == work[t].part
      copy == work[t].copy
      autoConsent == /\ Anonymous
                     /\ copy.status \notin {"completed", "dropped"}
                     /\ ~copy.consented
  IN  /\ pc[t] = "answering"
      /\ IF autoConsent
           THEN /\ rowLock[p] = Nobody
                /\ parts' = [parts EXCEPT ![p] = Consented(@, copy)]
           ELSE UNCHANGED parts
      /\ cookie' = [cookie EXCEPT ![Owner[t]] = p]
      /\ Finish(t)
      /\ UNCHANGED <<study, linkActive, sessions, invitation, studyLock, rowLock,
                     closureFailed>>

-----------------------------------------------------------------------------
(* POST consent/ and screener/ *)

(* _resolve_link and _participation_from_cookie *)
MayPost(t) == pc[t] = "idle" /\ LinkOpen /\ cookie[Owner[t]] # 0

ReadWork(t) ==
  LET p == cookie[Owner[t]] IN [NoWork EXCEPT !.part = p, !.copy = parts[p]]

PostConsent(t) ==
  /\ MayPost(t)
  /\ ~ReadWork(t).copy.consented
  /\ Goto(t, "consenting", ReadWork(t))
  /\ UNCHANGED <<study, linkActive, parts, sessions, invitation, cookie,
                 studyLock, rowLock, closureFailed>>

SaveConsent(t) ==
  LET p == work[t].part
  IN  /\ pc[t] = "consenting"
      /\ rowLock[p] = Nobody
      /\ parts' = [parts EXCEPT ![p] = Consented(@, work[t].copy)]
      /\ Finish(t)
      /\ UNCHANGED <<study, linkActive, sessions, invitation, cookie, studyLock,
                     rowLock, closureFailed>>

PostScreener(t, passed) ==
  /\ MayPost(t)
  /\ HasScreener
  /\ Goto(t, "grading", [ReadWork(t) EXCEPT !.passed = passed])
  /\ UNCHANGED <<study, linkActive, parts, sessions, invitation, cookie,
                 studyLock, rowLock, closureFailed>>

(* Wrong variant: a status that is none of the choices. *)
GradedAsFailed(row, passed) ==
  [row EXCEPT !.score = IF passed THEN "passed" ELSE "failed",
              !.status = IF passed THEN "screened" ELSE "failed"]

Graded(row, passed) ==
  [row EXCEPT !.score = IF passed THEN "passed" ELSE "failed",
              !.status = IF passed THEN "screened" ELSE "dropped"]

(* The answers decide the status, whatever it was. *)
SaveGrade(t) ==
  LET w == work[t]
  IN  /\ pc[t] = "grading"
      /\ rowLock[w.part] = Nobody
      /\ parts' = [parts EXCEPT ![w.part] = Graded(@, w.passed)]
      /\ Goto(t, "answering", [w EXCEPT !.copy = Graded(@, w.passed)])
      /\ UNCHANGED <<study, linkActive, sessions, invitation, cookie, studyLock,
                     rowLock, closureFailed>>

-----------------------------------------------------------------------------
(* POST start/ *)

Starting == {t \in Tab : pc[t] \in {"numbering", "inserting"}}

OpenSessions(p) == {s \in DOMAIN sessions : sessions[s].part = p /\ sessions[s].open}

(* Wrong variant: consent is not asked for. *)
StartWithoutConsent(t) ==
  LET p == cookie[Owner[t]]
  IN  /\ MayPost(t)
      /\ Len(sessions) + Cardinality(Starting) < MaxSessions
      /\ OpenSessions(p) = {}
      /\ Goto(t, "numbering", [NoWork EXCEPT !.part = p])
      /\ UNCHANGED <<study, linkActive, parts, sessions, invitation, cookie,
                     studyLock, rowLock, closureFailed>>

(* An open session is reused (nothing changes); otherwise a new one is     *)
(* going to be created.                                                    *)
StartSession(t) ==
  LET p == cookie[Owner[t]]
  IN  /\ MayPost(t)
      /\ Len(sessions) + Cardinality(Starting) < MaxSessions
      /\ parts[p].consented
      /\ OpenSessions(p) = {}
      /\ Goto(t, "numbering", [NoWork EXCEPT !.part = p])
      /\ UNCHANGED <<study, linkActive, parts, sessions, invitation, cookie,
                     studyLock, rowLock, closureFailed>>

NextNumber == Max({0} \cup {sessions[s].number : s \in DOMAIN sessions}) + 1

(* Wrong variant: the number is allocated without the lock. *)
AllocateUnlocked(t) ==
  /\ pc[t] = "numbering"
  /\ studyLock = Nobody
  /\ Goto(t, "inserting", [work[t] EXCEPT !.number = NextNumber])
  /\ UNCHANGED <<study, linkActive, parts, sessions, invitation, cookie,
                 studyLock, rowLock, closureFailed>>

(* The Study row is locked, the number taken ... *)
AllocateNumber(t) ==
  /\ pc[t] = "numbering"
  /\ studyLock = Nobody
  /\ studyLock' = t
  /\ Goto(t, "inserting", [work[t] EXCEPT !.number = NextNumber])
  /\ UNCHANGED <<study, linkActive, parts, sessions, invitation, cookie,
                 rowLock, closureFailed>>

(* ... and the session inserted; the insert refers to the Participation    *)
(* row and waits for who has it locked.                                    *)
InsertSession(t) ==
  LET w == work[t]
  IN  /\ pc[t] = "inserting"
      /\ rowLock[w.part] = Nobody
      /\ sessions' = Append(sessions, [part |-> w.part, number |-> w.number, open |-> TRUE])
      /\ parts' = [parts EXCEPT ![w.part].status = "interviewing"]
      /\ studyLock' = Nobody
      /\ Finish(t)
      /\ UNCHANGED <<study, linkActive, invitation, cookie, rowLock, closureFailed>>

-----------------------------------------------------------------------------
(* complete_session of the conductor, and the signal handler inside it *)

Release(p) ==
  /\ studyLock' = IF studyLock = p THEN Nobody ELSE studyLock
  /\ rowLock' = [i \in DOMAIN rowLock |-> IF rowLock[i] = p THEN Nobody ELSE rowLock[i]]

(* SELECT ... FOR UPDATE locks the session and, through select_related,    *)
(* its participation.  A participation that is completed already is not    *)
(* saved again, and the handler does not run.                              *)
LockSession(w, s) ==
  LET p == sessions[s].part
  IN  /\ pc[w] = "idle"
      /\ sessions[s].open
      /\ rowLock[p] = Nobody
      /\ rowLock' = [rowLock EXCEPT ![p] = w]
      /\ Goto(w, IF parts[p].status = "completed" THEN "counted" ELSE "completing",
              [NoWork EXCEPT !.part = p, !.session = s])
      /\ UNCHANGED <<study, linkActive, parts, sessions, invitation, cookie,
                     studyLock, closureFailed>>

(* The completed participations as the transaction sees them. *)
CompletedWith(p) == Completed \cup {i \in {p} : ~parts[i].preview}

(* Wrong variant: the count is taken before the Study row is locked. *)
CountUnlocked(w) ==
  /\ pc[w] = "completing"
  /\ Goto(w, "counted",
          [work[w] EXCEPT !.close = /\ study # "closed"
                                    /\ Cardinality(CompletedWith(work[w].part)) >= Target])
  /\ UNCHANGED <<study, linkActive, parts, sessions, invitation, cookie,
                 studyLock, rowLock, closureFailed>>

(* _close_study_when_target_reached: the Study row stays locked until the  *)
(* completing transaction ends.                                            *)
CountCompleted(w) ==
  /\ pc[w] = "completing"
  /\ studyLock = Nobody
  /\ studyLock' = w
  /\ Goto(w, "counted",
          [work[w] EXCEPT !.close = /\ study # "closed"
                                    /\ Cardinality(CompletedWith(work[w].part)) >= Target])
  /\ UNCHANGED <<study, linkActive, parts, sessions, invitation, cookie, rowLock,
                 closureFailed>>

CommitCompletion(w) ==
  LET k == work[w]
  IN  /\ pc[w] = "counted"
      /\ sessions' = [sessions EXCEPT ![k.session].open = FALSE]
      /\ parts' = [parts EXCEPT ![k.part].status = "completed"]
      /\ study' = IF k.close THEN "closed" ELSE study
      /\ linkActive' = (linkActive /\ ~k.close)
      /\ Release(w)
      /\ Finish(w)
      /\ UNCHANGED <<invitation, cookie, closureFailed>>

(* A start that holds the Study row and a completion that holds the        *)
(* participation's wait for each other: the database aborts one of them.   *)
(* The handler swallows the error, and the completion goes on without it.  *)
Deadlock(t, w) ==
  /\ pc[t] = "inserting"
  /\ rowLock[work[t].part] = w
  /\ pc[w] = "completing"
  /\ studyLock = t
  /\ \/ /\ studyLock' = Nobody
        /\ Finish(t)
        /\ UNCHANGED closureFailed
     \/ /\ closureFailed' = TRUE
        /\ Goto(w, "counted", work[w])
        /\ UNCHANGED studyLock
  /\ UNCHANGED <<study, linkActive, parts, sessions, invitation, cookie, rowLock>>

(* The process dies: what it has not committed is rolled back. *)
Abort(p) ==
  /\ pc[p] # "idle"
  /\ Release(p)
  /\ Finish(p)
  /\ UNCHANGED <<study, linkActive, parts, sessions, invitation, cookie, closureFailed>>

-----------------------------------------------------------------------------
(* The researcher: launch (read, then write) and close *)

Launch ==
  /\ pc[Researcher] = "idle"
  /\ study = "draft"
  /\ Goto(Researcher, "launching", NoWork)
  /\ UNCHANGED <<study, linkActive, parts, sessions, invitation, cookie,
                 studyLock, rowLock, closureFailed>>

SaveLaunch ==
  /\ pc[Researcher] = "launching"
  /\ studyLock = Nobody
  /\ study' = "live"
  /\ Finish(Researcher)
  /\ UNCHANGED <<linkActive, parts, sessions, invitation, cookie, studyLock,
                 rowLock, closureFailed>>

Close ==
  /\ study # "closed"
  /\ studyLock = Nobody
  /\ study' = "closed"
  /\ UNCHANGED <<linkActive, parts, sessions, invitation, cookie, pc, work,
                 studyLock, rowLock, closureFailed>>

-----------------------------------------------------------------------------

Request(t) ==
  \/ \E preview \in BOOLEAN, k \in Token \cup {NoToken} : ResolveLink(t, preview, k)
  \/ CreateParticipation(t)
  \/ BindInvitation(t)
  \/ Answer(t)
  \/ PostConsent(t)
  \/ SaveConsent(t)
  \/ \E passed \in BOOLEAN : PostScreener(t, passed)
  \/ SaveGrade(t)
  \/ StartSession(t)
  \/ AllocateNumber(t)
  \/ InsertSession(t)

Completion(w) ==
  \/ \E s \in DOMAIN sessions : LockSession(w, s)
  \/ CountCompleted(w)
  \/ CommitCompletion(w)

Next ==
  \/ \E t \in Tab : Request(t)
  \/ \E w \in Worker : Completion(w)
  \/ \E t \in Tab, w \in Worker : Deadlock(t, w)
  \/ \E p \in Process : Abort(p)
  \/ Launch
  \/ SaveLaunch
  \/ Close

Spec == Init /\ [][Next]_vars

-----------------------------------------------------------------------------
(* Properties *)

TypeOK ==
  /\ study \in {"draft", "live", "closed"}
  /\ linkActive \in BOOLEAN
  /\ parts \in Seq(Participation)
  /\ Len(parts) <= MaxParticipations
  /\ sessions \in Seq(Session)
  /\ invitation \in [Token -> 0 .. Len(parts)]
  /\ cookie \in [Browser -> 0 .. Len(parts)]
  /\ pc \in [Process -> Step]
  /\ work \in [Process -> Work]
  /\ studyLock \in Process \cup {Nobody}
  /\ rowLock \in [1 .. MaxParticipations -> Worker \cup {Nobody}]
  /\ closureFailed \in BOOLEAN

(* The sessions of a study are numbered 1, 2, 3, ... in the order of their *)
(* creation, whichever requests start at the same time (the Study row is   *)
(* locked from reading the maximum to inserting the session).              *)
NumbersAreSequential == \A s \in DOMAIN sessions : sessions[s].number = s

(* Once enough participations are completed, the link of a live study lets *)
(* nobody in: two completions at the same time cannot both count too few   *)
(* (the handler locks the Study row before it counts).  Failures that the  *)
(* handler swallows are excepted.                                          *)
TargetCloses ==
  Cardinality(Completed) >= Target /\ ~closureFailed => ~LinkOpen

(* Whoever is interviewed has consented, although consent is looked at     *)
(* before the session is created and requests write from old copies.       *)
InterviewsHaveConsent ==
  \A s \in DOMAIN sessions : parts[sessions[s].part].consented

(* Whoever an anonymous link has let in may start at once: consent is      *)
(* given on the way, also to a participation that a request which died has *)
(* created, or that comes back from another browser with the invitation.   *)
AnonymousMayStart ==
  Anonymous => \A b \in Browser : cookie[b] # 0 => parts[cookie[b]].consented

-----------------------------------------------------------------------------
(* What the documentation says and the code does not do *)

(* A participation that is being interviewed resumes the same session      *)
(* (design.md:43, views.py:496).                                           *)
OneOpenSession == \A p \in DOMAIN parts : Cardinality(OpenSessions(p)) <= 1

(* The study closes when its target is reached, whatever else happens      *)
(* (study_closure_signal.py:3).                                            *)
TargetAlwaysCloses == Cardinality(Completed) >= Target => ~LinkOpen

=============================================================================
