---------------------- MODULE ParticipantEntry_proofs -----------------------
(***************************************************************************)
(* Rows, locks and interview numbers of the participant entry, consent, and*)
(* the closure of a study at its target, proved for any number of browsers,*)
(* tabs, completions and invitations.                                      *)
(***************************************************************************)
EXTENDS ParticipantEntry, FiniteSetTheorems, TLAPS

-----------------------------------------------------------------------------
(* The invariant *)

TabSteps == {"creating", "binding", "answering", "consenting", "grading",
             "numbering", "inserting"}

CompletionSteps == {"completing", "counted"}

(* What a process holds in memory refers to rows that exist. *)
WorkInv ==
  \A p \in Process :
    /\ pc[p] \in TabSteps => p \in Tab
    /\ pc[p] \in CompletionSteps => p \in Worker
    /\ pc[p] \notin {"idle", "creating", "launching"} => work[p].part \in DOMAIN parts
    /\ pc[p] = "binding" => work[p].token \in Token
    /\ pc[p] \in CompletionSteps
         => /\ work[p].session \in DOMAIN sessions
            /\ sessions[work[p].session].part = work[p].part

(* Sessions are of participations that exist, and numbered in order. *)
SessionInv ==
  \A s \in DOMAIN sessions :
    /\ sessions[s].part \in DOMAIN parts
    /\ sessions[s].number = s

(* A start holds the Study row while it inserts, hence the number it has   *)
(* taken is still the next one; a completion holds the participation's row *)
(* from beginning to end.                                                  *)
LockInv ==
  \A p \in Process :
    /\ pc[p] = "inserting" => studyLock = p /\ work[p].number = Len(sessions) + 1
    /\ pc[p] \in CompletionSteps => rowLock[work[p].part] = p

Shape == TypeOK /\ WorkInv /\ SessionInv /\ LockInv

(* The rows alone are well typed. *)
RowsOK ==
  /\ study \in {"draft", "live", "closed"}
  /\ linkActive \in BOOLEAN
  /\ parts \in Seq(Participation)
  /\ Len(parts) <= MaxParticipations
  /\ sessions \in Seq(Session)
  /\ invitation \in [Token -> 0 .. Len(parts)]
  /\ cookie \in [Browser -> 0 .. Len(parts)]
  /\ studyLock \in Process \cup {Nobody}
  /\ rowLock \in [1 .. MaxParticipations -> Worker \cup {Nobody}]
  /\ closureFailed \in BOOLEAN

(* Process p may go to the given step with w in hand. *)
MayGo(p, step, w) ==
  /\ step \in TabSteps => p \in Tab
  /\ step \in CompletionSteps => p \in Worker
  /\ step \notin {"idle", "creating", "launching"} => w.part \in DOMAIN parts'
  /\ step = "binding" => w.token \in Token
  /\ step = "inserting" => studyLock' = p /\ w.number = Len(sessions') + 1
  /\ step \in CompletionSteps
       => /\ w.session \in DOMAIN sessions'
          /\ sessions'[w.session].part = w.part
          /\ rowLock'[w.part] = p

(* No row disappears, and p takes no lock away from another process. *)
Others(p) ==
  /\ Len(parts) <= Len(parts')
  /\ Len(sessions) <= Len(sessions')
  /\ \A s \in DOMAIN sessions : sessions'[s].part = sessions[s].part
  /\ \A q \in Process \ {p} :
       /\ studyLock = q => studyLock' = q /\ Len(sessions') = Len(sessions)
       /\ \A i \in 1 .. MaxParticipations : rowLock[i] = q => rowLock'[i] = q

-----------------------------------------------------------------------------
(* How a step keeps it *)

(* A worker without a request has the types. *)
LEMMA NoWorkType ==
  /\ NoWork \in Work
  /\ NoWork.part = 0
  /\ \A preview \in BOOLEAN : NewParticipation(preview) \in Participation
BY DEF NoWork, Work, NewParticipation, Participation, Status

(* The rows begin well shaped. *)
LEMMA InitShape == Init => Shape
<1> SUFFICES ASSUME Init PROVE Shape
  OBVIOUS
<1>1. TypeOK
  <2>1. parts \in Seq(Participation) /\ sessions \in Seq(Session) /\ Len(parts) = 0
    BY DEF Init
  <2>2. /\ invitation \in [Token -> 0 .. Len(parts)]
        /\ cookie \in [Browser -> 0 .. Len(parts)]
    BY <2>1 DEF Init
  <2>3. pc \in [Process -> Step] /\ work \in [Process -> Work]
    BY NoWorkType DEF Init, Step
  <2>4. /\ Len(parts) <= MaxParticipations
        /\ rowLock \in [1 .. MaxParticipations -> Worker \cup {Nobody}]
    BY <2>1, EntryAssumption DEF Init
  <2> QED
    BY <2>1, <2>2, <2>3, <2>4, EntryAssumption DEF Init, TypeOK
<1>2. \A p \in Process : pc[p] = "idle"
  BY DEF Init
<1>3. WorkInv /\ LockInv
  BY <1>2 DEF WorkInv, LockInv, TabSteps, CompletionSteps
<1>4. SessionInv
  BY DEF Init, SessionInv
<1> QED
  BY <1>1, <1>3, <1>4 DEF Shape

(* Moving a worker to another step changes nothing else of it. *)
LEMMA GotoLemma ==
  ASSUME Shape, NEW p \in Process, NEW step \in Step, NEW w \in Work, Goto(p, step, w)
  PROVE  /\ pc' \in [Process -> Step]
         /\ work' \in [Process -> Work]
         /\ pc'[p] = step
         /\ work'[p] = w
         /\ \A q \in Process \ {p} : pc'[q] = pc[q] /\ work'[q] = work[q]
BY DEF Shape, TypeOK, Goto

(* One lemma for every action: it moves one process and keeps the others'  *)
(* rows and locks.                                                         *)
LEMMA MoveShape ==
  ASSUME Shape, NEW p \in Process, NEW step \in Step, NEW w \in Work,
         Goto(p, step, w), RowsOK', SessionInv', MayGo(p, step, w), Others(p)
  PROVE  Shape'
<1>1. /\ pc' \in [Process -> Step]
      /\ work' \in [Process -> Work]
      /\ pc'[p] = step
      /\ work'[p] = w
      /\ \A q \in Process \ {p} : pc'[q] = pc[q] /\ work'[q] = work[q]
  BY GotoLemma
<1>2. TypeOK'
  BY <1>1 DEF RowsOK, TypeOK
<1>3. /\ DOMAIN parts = 1 .. Len(parts) /\ DOMAIN parts' = 1 .. Len(parts')
      /\ DOMAIN sessions = 1 .. Len(sessions) /\ DOMAIN sessions' = 1 .. Len(sessions')
      /\ {Len(parts), Len(parts'), Len(sessions), Len(sessions'), MaxParticipations} \subseteq Nat
      /\ Len(parts) <= MaxParticipations
  BY EntryAssumption DEF RowsOK, Shape, TypeOK
<1>4. DOMAIN parts \subseteq DOMAIN parts' /\ DOMAIN sessions \subseteq DOMAIN sessions'
  <2>1. Len(parts) <= Len(parts') /\ Len(sessions) <= Len(sessions')
    BY DEF Others
  <2> QED
    BY <1>3, <2>1
<1>5. WorkInv'
  <2> SUFFICES ASSUME NEW q \in Process
               PROVE  /\ pc'[q] \in TabSteps => q \in Tab
                      /\ pc'[q] \in CompletionSteps => q \in Worker
                      /\ pc'[q] \notin {"idle", "creating", "launching"}
                           => work'[q].part \in DOMAIN parts'
                      /\ pc'[q] = "binding" => work'[q].token \in Token
                      /\ pc'[q] \in CompletionSteps
                           => /\ work'[q].session \in DOMAIN sessions'
                              /\ sessions'[work'[q].session].part = work'[q].part
    BY DEF WorkInv
  <2>1. CASE q = p
    BY <1>1, <2>1 DEF MayGo
  <2>2. CASE q # p
    BY <1>1, <1>4, <2>2 DEF Shape, WorkInv, Others
  <2> QED
    BY <2>1, <2>2
<1>6. LockInv'
  <2> SUFFICES ASSUME NEW q \in Process
               PROVE  /\ pc'[q] = "inserting"
                           => studyLock' = q /\ work'[q].number = Len(sessions') + 1
                      /\ pc'[q] \in CompletionSteps => rowLock'[work'[q].part] = q
    BY DEF LockInv
  <2>1. CASE q = p
    BY <1>1, <2>1 DEF MayGo
  <2>2. CASE q # p
    <3>1. pc[q] \in CompletionSteps => work[q].part \in 1 .. MaxParticipations
      BY <1>3 DEF Shape, WorkInv, CompletionSteps
    <3> QED
      BY <1>1, <2>2, <3>1 DEF Shape, LockInv, Others
  <2> QED
    BY <2>1, <2>2
<1> QED
  BY <1>2, <1>5, <1>6 DEF Shape

(* What is in hand changes, and no row does. *)
LEMMA QuietShape ==
  ASSUME Shape, NEW p \in Process, NEW step \in Step, NEW w \in Work,
         Goto(p, step, w), MayGo(p, step, w),
         UNCHANGED <<study, linkActive, parts, sessions, invitation, cookie,
                     studyLock, rowLock, closureFailed>>
  PROVE  Shape'
<1>1. RowsOK' /\ SessionInv'
  BY DEF Shape, TypeOK, RowsOK, SessionInv
<1>2. Others(p)
  BY DEF Others, Shape, TypeOK
<1> QED
  BY <1>1, <1>2, MoveShape

(* A Participation row is written or added. *)
LEMMA PartsShape ==
  ASSUME Shape, NEW p \in Process, NEW step \in Step, NEW w \in Work,
         Goto(p, step, w), MayGo(p, step, w),
         parts' \in Seq(Participation),
         Len(parts) <= Len(parts'), Len(parts') <= MaxParticipations,
         cookie' \in [Browser -> 0 .. Len(parts')],
         UNCHANGED <<study, linkActive, sessions, invitation, studyLock, rowLock,
                     closureFailed>>
  PROVE  Shape'
<1>0. Len(parts) \in Nat /\ Len(parts') \in Nat /\ DOMAIN parts = 1 .. Len(parts)
      /\ DOMAIN parts' = 1 .. Len(parts')
  BY DEF Shape, TypeOK
<1>1. 0 .. Len(parts) \subseteq 0 .. Len(parts')
  BY <1>0
<1>2. invitation' \in [Token -> 0 .. Len(parts')]
  BY <1>1 DEF Shape, TypeOK
<1>3. RowsOK'
  BY <1>2 DEF Shape, TypeOK, RowsOK
<1>4. SessionInv'
  BY <1>0 DEF Shape, TypeOK, SessionInv
<1>5. Others(p)
  BY DEF Others, Shape, TypeOK
<1> QED
  BY <1>3, <1>4, <1>5, MoveShape

(* What the steps write into a row leaves it a row. *)
LEMMA RowTypes ==
  ASSUME NEW row \in Participation, NEW copy \in Participation, NEW passed \in BOOLEAN
  PROVE  /\ Consented(row, copy) \in Participation
         /\ Graded(row, passed) \in Participation
         /\ [row EXCEPT !.status = "interviewing"] \in Participation
         /\ [row EXCEPT !.status = "completed"] \in Participation
BY DEF Consented, Graded, Participation, Status

(* Writing a row leaves as many rows as there were. *)
LEMMA WriteRow ==
  ASSUME Shape, NEW i \in DOMAIN parts, NEW row \in Participation,
         parts' = [parts EXCEPT ![i] = row]
  PROVE  /\ parts' \in Seq(Participation)
         /\ Len(parts') = Len(parts)
         /\ DOMAIN parts' = DOMAIN parts
         /\ Len(parts) \in Nat
         /\ Len(parts) <= MaxParticipations
         /\ \A j \in DOMAIN parts : parts'[j] = IF j = i THEN row ELSE parts[j]
BY DEF Shape, TypeOK

(* Participations and sessions are numbered from 1. *)
LEMMA SeqFacts ==
  ASSUME Shape
  PROVE  /\ Len(parts) \in Nat /\ DOMAIN parts = 1 .. Len(parts)
         /\ Len(sessions) \in Nat /\ DOMAIN sessions = 1 .. Len(sessions)
         /\ \A i \in DOMAIN parts : parts[i] \in Participation
         /\ \A s \in DOMAIN sessions : sessions[s] \in Session
BY DEF Shape, TypeOK

-----------------------------------------------------------------------------
(* The requests *)

(* Resolving a link keeps the shape of the rows. *)
LEMMA ResolveShape ==
  ASSUME Shape, NEW t \in Tab, NEW preview \in BOOLEAN, NEW k \in Token \cup {NoToken},
         ResolveLink(t, preview, k)
  PROVE  Shape'
<1> DEFINE p == Existing(Owner[t], k)
           bound == k = NoToken \/ invitation[k] = p
           found == [NoWork EXCEPT !.part = p, !.copy = parts[p], !.token = k]
           made == [NoWork EXCEPT !.copy = NewParticipation(preview), !.token = k]
<1>1. t \in Process /\ Owner[t] \in Browser
  BY EntryAssumption DEF Process
<1>2. p \in 0 .. Len(parts)
  BY <1>1 DEF Existing, Shape, TypeOK
<1>3. CASE p # 0
  <2>1. p \in DOMAIN parts
    BY <1>2, <1>3, SeqFacts
  <2>2. found \in Work /\ found.part = p /\ found.token = k
    <3>1. p \in Nat /\ parts[p] \in Participation
      BY <1>2, <2>1, SeqFacts
    <3> HIDE DEF p
    <3> QED
      BY <3>1, NoWorkType DEF NoWork, Work
  <2>3. Goto(t, IF bound THEN "answering" ELSE "binding", found)
    BY <1>3 DEF ResolveLink
  <2>4. ~bound => k \in Token
    OBVIOUS
  <2>5. UNCHANGED <<study, linkActive, parts, sessions, invitation, cookie,
                    studyLock, rowLock, closureFailed>>
    BY DEF ResolveLink
  <2> HIDE DEF found, p, bound
  <2>6. CASE bound
    <3>1. MayGo(t, "answering", found)
      BY <2>1, <2>2, <2>5 DEF MayGo, CompletionSteps
    <3> QED
      BY <1>1, <2>2, <2>3, <2>5, <2>6, <3>1, QuietShape DEF Step
  <2>7. CASE ~bound
    <3>1. MayGo(t, "binding", found)
      BY <2>1, <2>2, <2>4, <2>5, <2>7 DEF MayGo, CompletionSteps
    <3> QED
      BY <1>1, <2>2, <2>3, <2>5, <2>7, <3>1, QuietShape DEF Step
  <2> QED
    BY <2>6, <2>7
<1>4. CASE p = 0
  <2>1. made \in Work
    BY NoWorkType DEF NoWork, Work
  <2>2. Goto(t, "creating", made)
    BY <1>4 DEF ResolveLink
  <2>3. MayGo(t, "creating", made)
    BY DEF MayGo, CompletionSteps
  <2> HIDE DEF made
  <2> QED
    BY <1>1, <2>1, <2>2, <2>3, QuietShape DEF Step, ResolveLink
<1> QED
  BY <1>3, <1>4

(* So does creating a participation, *)
LEMMA CreateShape ==
  ASSUME Shape, NEW t \in Tab, CreateParticipation(t)
  PROVE  Shape'
<1> DEFINE step == IF work[t].token = NoToken THEN "answering" ELSE "binding"
           w == [work[t] EXCEPT !.part = Len(parts')]
<1>1. t \in Process /\ work[t] \in Work /\ pc[t] = "creating"
  BY DEF Process, Shape, TypeOK, CreateParticipation
<1>2. /\ parts' \in Seq(Participation)
      /\ Len(parts') = Len(parts) + 1
      /\ Len(parts') <= MaxParticipations
      /\ Len(parts) \in Nat
      /\ DOMAIN parts' = 1 .. Len(parts')
  BY <1>1, EntryAssumption DEF CreateParticipation, Shape, TypeOK, Work
<1>3. w \in Work /\ w.part \in DOMAIN parts' /\ w.token = work[t].token
      /\ w.token \in Token \cup {NoToken}
  <2>1. Len(parts') \in Nat /\ Len(parts') \in DOMAIN parts'
    BY <1>2
  <2> QED
    BY <1>1, <2>1 DEF Work
<1>4. Goto(t, step, w)
  BY DEF CreateParticipation
<1>5. cookie' \in [Browser -> 0 .. Len(parts')]
  <2>1. 0 .. Len(parts) \subseteq 0 .. Len(parts')
    BY <1>2
  <2> QED
    BY <2>1 DEF CreateParticipation, Shape, TypeOK
<1>6. step \in Step /\ MayGo(t, step, w)
  BY <1>3 DEF MayGo, CompletionSteps, Step
<1> HIDE DEF step, w
<1> QED
  BY <1>1, <1>2, <1>3, <1>4, <1>5, <1>6, PartsShape DEF CreateParticipation

(* binding the invitation, *)
LEMMA BindShape ==
  ASSUME Shape, NEW t \in Tab, BindInvitation(t)
  PROVE  Shape'
<1>1. /\ t \in Process /\ work[t] \in Work /\ pc[t] = "binding"
      /\ work[t].part \in DOMAIN parts
  BY DEF Process, Shape, TypeOK, WorkInv, BindInvitation
<1>2. work[t].part \in 0 .. Len(parts)
  BY <1>1, SeqFacts
<1>3. RowsOK' /\ SessionInv'
  BY <1>2 DEF Shape, TypeOK, RowsOK, SessionInv, BindInvitation
<1>4. MayGo(t, "answering", work[t])
  BY <1>1 DEF MayGo, CompletionSteps, BindInvitation
<1>5. Others(t)
  BY SeqFacts DEF Others, BindInvitation
<1> QED
  BY <1>1, <1>3, <1>4, <1>5, MoveShape DEF BindInvitation, Step

(* answering with the participation, *)
LEMMA AnswerShape ==
  ASSUME Shape, NEW t \in Tab, Answer(t)
  PROVE  Shape'
<1> DEFINE p == work[t].part
           row == Consented(parts[p], work[t].copy)
<1>1. /\ t \in Process /\ work[t] \in Work /\ p \in DOMAIN parts
      /\ work[t].copy \in Participation /\ Owner[t] \in Browser
  BY EntryAssumption DEF Process, Shape, TypeOK, WorkInv, Answer, Work
<1>2. row \in Participation
  BY <1>1, SeqFacts, RowTypes
<1>3. parts' = parts \/ parts' = [parts EXCEPT ![p] = row]
  BY DEF Answer
<1> HIDE DEF row
<1>4. parts' \in Seq(Participation) /\ Len(parts') = Len(parts) /\ Len(parts) \in Nat
      /\ Len(parts) <= MaxParticipations
  BY <1>1, <1>2, <1>3, WriteRow DEF Shape, TypeOK
<1>5. cookie' \in [Browser -> 0 .. Len(parts')]
  BY <1>1, <1>4, SeqFacts DEF Answer, Shape, TypeOK
<1>6. MayGo(t, "idle", NoWork)
  BY DEF MayGo, TabSteps, CompletionSteps
<1> QED
  BY <1>1, <1>4, <1>5, <1>6, NoWorkType, PartsShape DEF Answer, Finish, Step

(* A tab that may post works on the row of its browser's cookie. *)
LEMMA ReadShape ==
  ASSUME Shape, NEW t \in Tab, MayPost(t)
  PROVE  /\ t \in Process
         /\ cookie[Owner[t]] \in DOMAIN parts
         /\ ReadWork(t) \in Work
         /\ ReadWork(t).part = cookie[Owner[t]]
         /\ ReadWork(t).copy = parts[cookie[Owner[t]]]
<1> DEFINE p == cookie[Owner[t]]
<1>1. t \in Process /\ Owner[t] \in Browser
  BY EntryAssumption DEF Process
<1>2. p \in DOMAIN parts /\ p \in Nat /\ parts[p] \in Participation
  BY <1>1, SeqFacts DEF MayPost, Shape, TypeOK
<1>3. ReadWork(t) = [NoWork EXCEPT !.part = p, !.copy = parts[p]]
  BY DEF ReadWork
<1> HIDE DEF p
<1>4. /\ ReadWork(t) \in Work /\ ReadWork(t).part = p /\ ReadWork(t).copy = parts[p]
  BY <1>2, <1>3, NoWorkType DEF NoWork, Work
<1> QED
  BY <1>1, <1>2, <1>4 DEF p

(* Posting the consent keeps the shape, *)
LEMMA PostConsentShape ==
  ASSUME Shape, NEW t \in Tab, PostConsent(t)
  PROVE  Shape'
<1>1. MayPost(t)
  BY DEF PostConsent
<1>2. MayGo(t, "consenting", ReadWork(t))
  BY <1>1, ReadShape DEF MayGo, CompletionSteps, PostConsent
<1> QED
  BY <1>1, <1>2, ReadShape, QuietShape DEF PostConsent, Step

(* and so does saving it, *)
LEMMA SaveConsentShape ==
  ASSUME Shape, NEW t \in Tab, SaveConsent(t)
  PROVE  Shape'
<1> DEFINE p == work[t].part
           row == Consented(parts[p], work[t].copy)
<1>1. /\ t \in Process /\ work[t] \in Work /\ p \in DOMAIN parts
      /\ work[t].copy \in Participation
  BY DEF Process, Shape, TypeOK, WorkInv, SaveConsent, Work
<1>2. row \in Participation
  BY <1>1, SeqFacts, RowTypes
<1>3. parts' = [parts EXCEPT ![p] = row]
  BY DEF SaveConsent
<1> HIDE DEF row
<1>4. MayGo(t, "idle", NoWork)
  BY DEF MayGo, TabSteps, CompletionSteps
<1> QED
  BY <1>1, <1>2, <1>3, <1>4, NoWorkType, WriteRow, PartsShape
     DEF SaveConsent, Finish, Step, Shape, TypeOK

(* posting the screener, *)
LEMMA PostScreenerShape ==
  ASSUME Shape, NEW t \in Tab, NEW passed \in BOOLEAN, PostScreener(t, passed)
  PROVE  Shape'
<1> DEFINE w == [ReadWork(t) EXCEPT !.passed = passed]
<1>1. MayPost(t)
  BY DEF PostScreener
<1>2. w \in Work /\ w.part = ReadWork(t).part
  BY <1>1, ReadShape DEF Work
<1>3. Goto(t, "grading", w)
  BY DEF PostScreener
<1> HIDE DEF w
<1>4. MayGo(t, "grading", w)
  BY <1>1, <1>2, ReadShape DEF MayGo, CompletionSteps, PostScreener
<1> QED
  BY <1>1, <1>2, <1>3, <1>4, ReadShape, QuietShape DEF PostScreener, Step

(* saving its grade, *)
LEMMA SaveGradeShape ==
  ASSUME Shape, NEW t \in Tab, SaveGrade(t)
  PROVE  Shape'
<1> DEFINE p == work[t].part
           row == Graded(parts[p], work[t].passed)
           w == [work[t] EXCEPT !.copy = Graded(@, work[t].passed)]
<1>1. /\ t \in Process /\ work[t] \in Work /\ p \in DOMAIN parts
      /\ work[t].copy \in Participation /\ work[t].passed \in BOOLEAN
  BY DEF Process, Shape, TypeOK, WorkInv, SaveGrade, Work
<1>2. /\ row \in Participation
      /\ Graded(work[t].copy, work[t].passed) \in Participation
  BY <1>1, SeqFacts, RowTypes
<1>3. w \in Work /\ w.part = p
  BY <1>1, <1>2 DEF Work
<1>4. parts' = [parts EXCEPT ![p] = row] /\ Goto(t, "answering", w)
  BY DEF SaveGrade
<1> HIDE DEF row, w
<1>5. MayGo(t, "answering", w)
  BY <1>1, <1>2, <1>3, <1>4, WriteRow DEF MayGo, CompletionSteps
<1> QED
  BY <1>1, <1>2, <1>3, <1>4, <1>5, WriteRow, PartsShape
     DEF SaveGrade, Step, Shape, TypeOK

(* asking for a session, *)
LEMMA StartShape ==
  ASSUME Shape, NEW t \in Tab, StartSession(t)
  PROVE  Shape'
<1> DEFINE p == cookie[Owner[t]]
           w == [NoWork EXCEPT !.part = p]
<1>1. t \in Process /\ p \in DOMAIN parts
  BY ReadShape DEF StartSession
<1>2. w \in Work /\ w.part = p
  <2>1. p \in Nat
    BY <1>1, SeqFacts
  <2> HIDE DEF p
  <2> QED
    BY <2>1, NoWorkType DEF NoWork, Work
<1>3. Goto(t, "numbering", w)
  BY DEF StartSession
<1> HIDE DEF w
<1>4. MayGo(t, "numbering", w)
  BY <1>1, <1>2 DEF MayGo, CompletionSteps, StartSession
<1> QED
  BY <1>1, <1>2, <1>3, <1>4, QuietShape DEF StartSession, Step

(* The maximum of the numbers in use is the number of sessions. *)
LEMMA NextNumberLemma ==
  ASSUME Shape
  PROVE  NextNumber = Len(sessions) + 1
<1> DEFINE used == {0} \cup {sessions[s].number : s \in DOMAIN sessions}
<1>1. Len(sessions) \in Nat /\ DOMAIN sessions = 1 .. Len(sessions)
  BY SeqFacts
<1>2. used = 0 .. Len(sessions)
  BY <1>1 DEF Shape, SessionInv
<1> HIDE DEF used
<1>3. Max(used) = Len(sessions)
  BY <1>1, <1>2 DEF Max
<1> QED
  BY <1>3 DEF used, NextNumber

(* allocating its number, *)
LEMMA AllocateShape ==
  ASSUME Shape, NEW t \in Tab, AllocateNumber(t)
  PROVE  Shape'
<1> DEFINE w == [work[t] EXCEPT !.number = NextNumber]
<1>1. /\ t \in Process /\ work[t] \in Work /\ pc[t] = "numbering"
      /\ work[t].part \in DOMAIN parts
  BY DEF Process, Shape, TypeOK, WorkInv, AllocateNumber
<1>2. NextNumber = Len(sessions) + 1 /\ NextNumber \in Nat
  BY NextNumberLemma, SeqFacts
<1>3. w \in Work /\ w.part = work[t].part /\ w.number = NextNumber
  BY <1>1, <1>2 DEF Work
<1>4. Goto(t, "inserting", w) /\ studyLock = Nobody /\ studyLock' = t
  BY DEF AllocateNumber
<1> HIDE DEF w
<1>5. RowsOK' /\ SessionInv'
  BY <1>1, <1>4 DEF Shape, TypeOK, RowsOK, SessionInv, AllocateNumber
<1>6. MayGo(t, "inserting", w)
  BY <1>1, <1>2, <1>3, <1>4 DEF MayGo, CompletionSteps, AllocateNumber
<1>7. Others(t)
  BY <1>4, SeqFacts, EntryAssumption DEF Others, Process, AllocateNumber
<1> QED
  BY <1>1, <1>3, <1>4, <1>5, <1>6, <1>7, MoveShape DEF Step

(* inserting it, *)
LEMMA InsertShape ==
  ASSUME Shape, NEW t \in Tab, InsertSession(t)
  PROVE  Shape'
<1> DEFINE i == work[t].part
           row == [parts[i] EXCEPT !.status = "interviewing"]
           new == [part |-> i, number |-> work[t].number, open |-> TRUE]
<1>1. /\ t \in Process /\ work[t] \in Work /\ pc[t] = "inserting"
      /\ i \in DOMAIN parts
      /\ studyLock = t
      /\ work[t].number = Len(sessions) + 1
  BY DEF Process, Shape, TypeOK, WorkInv, LockInv, InsertSession
<1>2. row \in Participation
  BY <1>1, SeqFacts, RowTypes
<1>3. new \in Session /\ new.part = i /\ new.number = Len(sessions) + 1
  <2>1. i \in Nat \ {0}
    BY <1>1, SeqFacts
  <2> HIDE DEF i
  <2> QED
    BY <1>1, <2>1, SeqFacts DEF Session
<1>4. /\ sessions' = Append(sessions, new)
      /\ parts' = [parts EXCEPT ![i] = row]
      /\ studyLock' = Nobody
      /\ Finish(t)
      /\ UNCHANGED <<study, linkActive, invitation, cookie, rowLock, closureFailed>>
  BY DEF InsertSession
<1> HIDE DEF row, new, i
<1>5. /\ parts' \in Seq(Participation)
      /\ Len(parts') = Len(parts)
      /\ DOMAIN parts' = DOMAIN parts
  BY <1>1, <1>2, <1>4, WriteRow
<1>6. /\ sessions' \in Seq(Session)
      /\ Len(sessions') = Len(sessions) + 1
      /\ DOMAIN sessions' = 1 .. Len(sessions) + 1
      /\ \A s \in DOMAIN sessions : sessions'[s] = sessions[s]
      /\ sessions'[Len(sessions) + 1] = new
  BY <1>3, <1>4, SeqFacts DEF Shape, TypeOK
<1>7. RowsOK'
  BY <1>4, <1>5, <1>6 DEF Shape, TypeOK, RowsOK
<1>8. SessionInv'
  <2> SUFFICES ASSUME NEW s \in DOMAIN sessions'
               PROVE  sessions'[s].part \in DOMAIN parts' /\ sessions'[s].number = s
    BY DEF SessionInv
  <2>1. CASE s \in DOMAIN sessions
    BY <1>5, <1>6, <2>1 DEF Shape, SessionInv
  <2>2. CASE s = Len(sessions) + 1
    BY <1>1, <1>3, <1>5, <1>6, <2>2
  <2> QED
    BY <1>6, <2>1, <2>2, SeqFacts
<1>9. MayGo(t, "idle", NoWork)
  BY DEF MayGo, TabSteps, CompletionSteps
<1>10. Others(t)
  <2>1. Len(parts) <= Len(parts') /\ Len(sessions) <= Len(sessions')
    BY <1>5, <1>6, SeqFacts
  <2>2. \A q \in Process \ {t} : studyLock # q
    BY <1>1
  <2> QED
    BY <1>4, <1>6, <2>1, <2>2 DEF Others
<1> QED
  BY <1>1, <1>4, <1>7, <1>8, <1>9, <1>10, NoWorkType, MoveShape DEF Finish, Step

(* and every request of a tab. *)
LEMMA RequestShape ==
  ASSUME Shape, NEW t \in Tab, Request(t)
  PROVE  Shape'
BY ResolveShape, CreateShape, BindShape, AnswerShape, PostConsentShape, SaveConsentShape,
   PostScreenerShape, SaveGradeShape, StartShape, AllocateShape, InsertShape
   DEF Request

-----------------------------------------------------------------------------
(* Completions, the researcher, failures *)

(* A completion's lock of the session keeps the shape, *)
LEMMA LockShape ==
  ASSUME Shape, NEW w \in Worker, NEW s \in DOMAIN sessions, LockSession(w, s)
  PROVE  Shape'
<1> DEFINE i == sessions[s].part
           step == IF parts[i].status = "completed" THEN "counted" ELSE "completing"
           k == [NoWork EXCEPT !.part = i, !.session = s]
<1>1. w \in Process /\ i \in DOMAIN parts /\ step \in Step /\ step \in CompletionSteps
  BY DEF Process, Step, CompletionSteps, Shape, SessionInv
<1>2. k \in Work /\ k.part = i /\ k.session = s
  <2>1. i \in Nat /\ s \in Nat
    BY <1>1, SeqFacts
  <2> HIDE DEF i
  <2> QED
    BY <2>1, NoWorkType DEF NoWork, Work
<1>3. Goto(w, step, k) /\ rowLock[i] = Nobody /\ rowLock' = [rowLock EXCEPT ![i] = w]
  BY DEF LockSession
<1>4. i \in 1 .. MaxParticipations
  BY <1>1, SeqFacts, EntryAssumption DEF Shape, TypeOK
<1>5. RowsOK' /\ SessionInv'
  BY <1>3 DEF Shape, TypeOK, RowsOK, SessionInv, LockSession
<1>6. rowLock'[i] = w /\ \A j \in 1 .. MaxParticipations : j # i => rowLock'[j] = rowLock[j]
  BY <1>3, <1>4 DEF Shape, TypeOK
<1>7. sessions' = sessions /\ parts' = parts /\ studyLock' = studyLock
  BY DEF LockSession
<1>8. MayGo(w, step, k)
  BY <1>1, <1>2, <1>6, <1>7 DEF MayGo, CompletionSteps, TabSteps
<1>9. Others(w)
  BY <1>3, <1>6, <1>7, SeqFacts, EntryAssumption DEF Others, Process
<1> HIDE DEF k, step
<1> QED
  BY <1>1, <1>2, <1>3, <1>5, <1>8, <1>9, MoveShape

(* and so does its count of the completed ones, *)
LEMMA CountShape ==
  ASSUME Shape, NEW w \in Worker, CountCompleted(w)
  PROVE  Shape'
<1> DEFINE verdict == /\ study # "closed"
                      /\ Cardinality(CompletedWith(work[w].part)) >= Target
           k == [work[w] EXCEPT !.close = verdict]
<1>1. /\ w \in Process /\ work[w] \in Work /\ pc[w] \in CompletionSteps
      /\ work[w].part \in DOMAIN parts
      /\ work[w].session \in DOMAIN sessions
      /\ sessions[work[w].session].part = work[w].part
      /\ rowLock[work[w].part] = w
  BY DEF Process, Shape, TypeOK, WorkInv, LockInv, CountCompleted, CompletionSteps
<1>2. verdict \in BOOLEAN
  OBVIOUS
<1> HIDE DEF verdict
<1>3. k \in Work /\ k.part = work[w].part /\ k.session = work[w].session
  BY <1>1, <1>2 DEF Work
<1>4. Goto(w, "counted", k)
  BY DEF CountCompleted, verdict
<1> HIDE DEF k
<1>5. /\ studyLock = Nobody /\ studyLock' = w
      /\ UNCHANGED <<study, linkActive, parts, sessions, invitation, cookie, rowLock,
                     closureFailed>>
  BY DEF CountCompleted
<1>6. RowsOK' /\ SessionInv'
  BY <1>1, <1>5 DEF Shape, TypeOK, RowsOK, SessionInv
<1>7. MayGo(w, "counted", k)
  BY <1>1, <1>3, <1>5 DEF MayGo, TabSteps
<1>8. Others(w)
  BY <1>5, SeqFacts, EntryAssumption DEF Others, Process
<1> QED
  BY <1>1, <1>3, <1>4, <1>6, <1>7, <1>8, MoveShape DEF Step

(* The end of a transaction: a process gives its locks back.               *)
LEMMA ReleaseLemma ==
  ASSUME Shape, NEW p \in Process, Release(p)
  PROVE  /\ studyLock' \in Process \cup {Nobody}
         /\ rowLock' \in [1 .. MaxParticipations -> Worker \cup {Nobody}]
         /\ \A q \in Process \ {p} :
              /\ studyLock = q => studyLock' = q
              /\ \A i \in 1 .. MaxParticipations : rowLock[i] = q => rowLock'[i] = q
BY DEF Release, Shape, TypeOK

(* its commit, *)
LEMMA CommitShape ==
  ASSUME Shape, NEW w \in Worker, CommitCompletion(w)
  PROVE  Shape'
<1> DEFINE i == work[w].part
           n == work[w].session
           row == [parts[i] EXCEPT !.status = "completed"]
           ended == [sessions[n] EXCEPT !.open = FALSE]
<1>1. /\ w \in Process /\ work[w] \in Work
      /\ i \in DOMAIN parts /\ n \in DOMAIN sessions
      /\ work[w].close \in BOOLEAN
  BY DEF Process, Shape, TypeOK, WorkInv, CommitCompletion, CompletionSteps, Work
<1>2. row \in Participation
  BY <1>1, SeqFacts, RowTypes
<1>3. ended \in Session /\ ended.part = sessions[n].part /\ ended.number = sessions[n].number
  BY <1>1, SeqFacts DEF Session
<1>4. /\ sessions' = [sessions EXCEPT ![n] = ended]
      /\ parts' = [parts EXCEPT ![i] = row]
      /\ study' = IF work[w].close THEN "closed" ELSE study
      /\ linkActive' = (linkActive /\ ~work[w].close)
      /\ Release(w)
      /\ Goto(w, "idle", NoWork)
      /\ UNCHANGED <<invitation, cookie, closureFailed>>
  BY DEF CommitCompletion, Finish
<1> HIDE DEF row, ended, i, n
<1>5. /\ parts' \in Seq(Participation)
      /\ Len(parts') = Len(parts)
      /\ DOMAIN parts' = DOMAIN parts
  BY <1>1, <1>2, <1>4, WriteRow
<1>6. /\ sessions' \in Seq(Session)
      /\ Len(sessions') = Len(sessions)
      /\ DOMAIN sessions' = DOMAIN sessions
      /\ \A s \in DOMAIN sessions : /\ sessions'[s].part = sessions[s].part
                                    /\ sessions'[s].number = sessions[s].number
  BY <1>1, <1>3, <1>4, SeqFacts DEF Shape, TypeOK
<1>7. RowsOK'
  <2>1. study' \in {"draft", "live", "closed"} /\ linkActive' \in BOOLEAN
    BY <1>4 DEF Shape, TypeOK
  <2> QED
    BY <1>1, <1>4, <1>5, <1>6, <2>1, ReleaseLemma DEF Shape, TypeOK, RowsOK
<1>8. SessionInv'
  BY <1>5, <1>6 DEF Shape, SessionInv
<1>9. MayGo(w, "idle", NoWork)
  BY DEF MayGo, TabSteps, CompletionSteps
<1>10. Others(w)
  BY <1>1, <1>4, <1>5, <1>6, SeqFacts, ReleaseLemma DEF Others
<1> QED
  BY <1>1, <1>4, <1>7, <1>8, <1>9, <1>10, NoWorkType, MoveShape DEF Step

(* all of a completion, *)
LEMMA CompletionShape ==
  ASSUME Shape, NEW w \in Worker, Completion(w)
  PROVE  Shape'
BY LockShape, CountShape, CommitShape DEF Completion

(* breaking a deadlock, *)
LEMMA DeadlockShape ==
  ASSUME Shape, NEW t \in Tab, NEW w \in Worker, Deadlock(t, w)
  PROVE  Shape'
<1>1. /\ t \in Process /\ w \in Process /\ t # w
      /\ studyLock = t /\ pc[w] = "completing" /\ work[w] \in Work
      /\ UNCHANGED <<study, linkActive, parts, sessions, invitation, cookie, rowLock>>
  BY EntryAssumption DEF Process, Deadlock, Shape, TypeOK
<1>2. CASE studyLock' = Nobody /\ Finish(t) /\ UNCHANGED closureFailed
  <2>1. RowsOK' /\ SessionInv'
    BY <1>1, <1>2 DEF Shape, TypeOK, RowsOK, SessionInv
  <2>2. MayGo(t, "idle", NoWork)
    BY DEF MayGo, TabSteps, CompletionSteps
  <2>3. \A q \in Process \ {t} : studyLock # q
    BY <1>1
  <2>4. Others(t)
    BY <1>1, <2>3, SeqFacts DEF Others
  <2> QED
    BY <1>1, <1>2, <2>1, <2>2, <2>4, NoWorkType, MoveShape DEF Finish, Step
<1>3. CASE closureFailed' = TRUE /\ Goto(w, "counted", work[w]) /\ UNCHANGED studyLock
  <2>1. RowsOK' /\ SessionInv'
    BY <1>1, <1>3 DEF Shape, TypeOK, RowsOK, SessionInv
  <2>2. MayGo(w, "counted", work[w])
    BY <1>1, <1>3 DEF MayGo, TabSteps, CompletionSteps, Shape, WorkInv, LockInv
  <2>3. Others(w)
    BY <1>1, <1>3, SeqFacts DEF Others
  <2> QED
    BY <1>1, <1>3, <2>1, <2>2, <2>3, MoveShape DEF Step
<1> QED
  BY <1>2, <1>3 DEF Deadlock

(* a request or a completion that is lost, *)
LEMMA AbortShape ==
  ASSUME Shape, NEW p \in Process, Abort(p)
  PROVE  Shape'
<1>1. /\ Release(p) /\ Goto(p, "idle", NoWork)
      /\ UNCHANGED <<study, linkActive, parts, sessions, invitation, cookie, closureFailed>>
  BY DEF Abort, Finish
<1>2. RowsOK' /\ SessionInv'
  BY <1>1, ReleaseLemma DEF Shape, TypeOK, RowsOK, SessionInv
<1>3. MayGo(p, "idle", NoWork)
  BY DEF MayGo, TabSteps, CompletionSteps
<1>4. Others(p)
  BY <1>1, SeqFacts, ReleaseLemma DEF Others
<1> QED
  BY <1>1, <1>2, <1>3, <1>4, NoWorkType, MoveShape DEF Step

(* and the researcher. *)
LEMMA ResearcherShape ==
  ASSUME Shape, Launch \/ SaveLaunch \/ Close
  PROVE  Shape'
<1>1. CASE Launch
  <2>1. MayGo(Researcher, "launching", NoWork)
    BY DEF MayGo, TabSteps, CompletionSteps
  <2> QED
    BY <1>1, <2>1, NoWorkType, QuietShape DEF Launch, Process, Step
<1>2. CASE SaveLaunch
  <2>1. MayGo(Researcher, "idle", NoWork)
    BY DEF MayGo, TabSteps, CompletionSteps
  <2>2. RowsOK' /\ SessionInv'
    BY <1>2 DEF SaveLaunch, Shape, TypeOK, RowsOK, SessionInv
  <2>3. Others(Researcher)
    BY <1>2, SeqFacts DEF Others, SaveLaunch
  <2> QED
    BY <1>2, <2>1, <2>2, <2>3, NoWorkType, MoveShape DEF SaveLaunch, Finish, Process, Step
<1>3. CASE Close
  BY <1>3 DEF Close, Shape, TypeOK, WorkInv, SessionInv, LockInv
<1> QED
  BY <1>1, <1>2, <1>3

-----------------------------------------------------------------------------

(* Every step keeps the shape of the rows. *)
LEMMA NextShape == Shape /\ [Next]_vars => Shape'
<1> SUFFICES ASSUME Shape, [Next]_vars PROVE Shape'
  OBVIOUS
<1>1. CASE Next
  BY <1>1, RequestShape, CompletionShape, DeadlockShape, AbortShape, ResearcherShape
     DEF Next
<1>2. CASE UNCHANGED vars
  BY <1>2 DEF vars, Shape, TypeOK, WorkInv, SessionInv, LockInv
<1> QED
  BY <1>1, <1>2

(* Types, references between rows, lock ownership and the numbering hold   *)
(* in every reachable state.                                               *)
THEOREM ShapeInvariant == Spec => []Shape
BY InitShape, NextShape, PTL DEF Spec

(* Every reachable state is well typed (the rows of participant/views.py   *)
(* and what its requests hold in memory).                                  *)
THEOREM TypeCorrect == Spec => []TypeOK
BY ShapeInvariant, PTL DEF Shape

(* The sessions of a study are numbered without gaps or repetitions,       *)
(* whichever requests start at the same time (start_session).              *)
THEOREM NumbersStaySequential == Spec => []NumbersAreSequential
<1>1. Shape => NumbersAreSequential
  BY DEF Shape, SessionInv, NumbersAreSequential
<1> QED
  BY <1>1, ShapeInvariant, PTL

-----------------------------------------------------------------------------
(* Consent: it is never taken back, and whoever relies on a copy has it    *)

RowConsent ==
  \A i \in DOMAIN parts :
    /\ parts[i].status \in {"interviewing", "completed"} => parts[i].consented
    /\ Anonymous /\ parts[i].status = "dropped" => parts[i].consented

(* What a process at the given step concludes from w about the rows. *)
Relies(step, w, rows) ==
  /\ w.copy.status \in {"interviewing", "completed"} => w.copy.consented
  /\ step = "creating" => w.copy.status = "invited" /\ ~w.copy.consented
  /\ step = "consenting" => ~w.copy.consented
  /\ step \in {"binding", "answering", "grading"} /\ w.copy.consented
       => rows[w.part].consented
  /\ Anonymous /\ step \in {"binding", "answering"} /\ w.copy.status = "dropped"
       => rows[w.part].consented
  /\ Anonymous /\ step = "grading" => rows[w.part].consented
  /\ step \in {"numbering", "inserting"} => rows[w.part].consented

ConsentInv ==
  /\ RowConsent
  /\ AnonymousMayStart
  /\ InterviewsHaveConsent
  /\ \A p \in Process : Relies(pc[p], work[p], parts)

(* What a step other than a commit may do to the rows: it completes none,  *)
(* takes no consent back, and leaves the locked ones alone.                *)
Gentle ==
  /\ \A i \in DOMAIN parts :
       /\ i \in DOMAIN parts'
       /\ parts'[i].preview = parts[i].preview
       /\ parts[i].consented => parts'[i].consented
       /\ parts'[i].status = "completed" => parts[i].status = "completed"
       /\ rowLock[i] # Nobody => parts'[i] = parts[i]
  /\ \A i \in DOMAIN parts' \ DOMAIN parts : parts'[i].status = "invited"

(* A worker without a request relies on nothing. *)
LEMMA NoWorkRelies ==
  ASSUME NEW rows
  PROVE  Relies("idle", NoWork, rows) /\ Relies("launching", NoWork, rows)
BY DEF Relies, NoWork, NewParticipation

(* There is no session to begin with. *)
LEMMA InitConsent == Init => ConsentInv
<1> SUFFICES ASSUME Init PROVE ConsentInv
  OBVIOUS
<1>1. \A p \in Process : Relies(pc[p], work[p], parts)
  BY NoWorkRelies DEF Init
<1>2. RowConsent /\ AnonymousMayStart /\ InterviewsHaveConsent
  BY DEF Init, RowConsent, AnonymousMayStart, InterviewsHaveConsent
<1> QED
  BY <1>1, <1>2 DEF ConsentInv

(* One lemma for every action.                                             *)
LEMMA MoveConsent ==
  ASSUME Shape, ConsentInv, NEW p \in Process, NEW step \in Step, NEW w \in Work,
         Goto(p, step, w),
         \A i \in DOMAIN parts : parts[i].consented => parts'[i].consented,
         RowConsent', AnonymousMayStart', InterviewsHaveConsent', Relies(step, w, parts')
  PROVE  ConsentInv'
<1>1. /\ pc'[p] = step /\ work'[p] = w
      /\ \A q \in Process \ {p} : pc'[q] = pc[q] /\ work'[q] = work[q]
  BY GotoLemma
<1>2. ASSUME NEW q \in Process PROVE Relies(pc'[q], work'[q], parts')
  <2>1. CASE q = p
    BY <1>1, <2>1 DEF Relies
  <2>2. CASE q # p
    <3>1. pc'[q] = pc[q] /\ work'[q] = work[q] /\ Relies(pc[q], work[q], parts)
      BY <1>1, <2>2 DEF ConsentInv
    <3>2. pc[q] \in {"binding", "answering", "grading", "numbering", "inserting"}
            => work[q].part \in DOMAIN parts
      BY DEF Shape, WorkInv
    <3> QED
      BY <3>1, <3>2 DEF Relies
  <2> QED
    BY <2>1, <2>2
<1> QED
  BY <1>2 DEF ConsentInv

(* Rows as they were, cookies as they were.                                *)
LEMMA QuietConsent ==
  ASSUME Shape, ConsentInv, NEW p \in Process, NEW step \in Step, NEW w \in Work,
         Goto(p, step, w), Relies(step, w, parts), UNCHANGED <<parts, sessions, cookie>>
  PROVE  ConsentInv'
<1>1. RowConsent' /\ AnonymousMayStart' /\ InterviewsHaveConsent' /\ Relies(step, w, parts')
  BY DEF ConsentInv, RowConsent, AnonymousMayStart, InterviewsHaveConsent, Relies
<1> QED
  BY <1>1, MoveConsent

(* A row that nobody has locked is written.                                *)
LEMMA WriteGentle ==
  ASSUME Shape, ConsentInv, NEW i \in DOMAIN parts, NEW row \in Participation,
         parts' = [parts EXCEPT ![i] = row],
         rowLock[i] = Nobody,
         row.preview = parts[i].preview,
         parts[i].consented => row.consented,
         row.status = "completed" => parts[i].status = "completed",
         row.status = "interviewing" => row.consented,
         Anonymous /\ row.status = "dropped" => row.consented
  PROVE  Gentle /\ RowConsent'
<1>1. /\ DOMAIN parts' = DOMAIN parts
      /\ \A j \in DOMAIN parts : parts'[j] = IF j = i THEN row ELSE parts[j]
  BY WriteRow
<1>2. Gentle
  BY <1>1 DEF Gentle
<1>3. RowConsent'
  BY <1>1 DEF RowConsent, ConsentInv
<1> QED
  BY <1>2, <1>3

(* Cookies and sessions refer to rows that exist.                          *)
LEMMA GentleKeeps ==
  ASSUME Shape, ConsentInv, Gentle
  PROVE  /\ \A i \in DOMAIN parts : parts[i].consented => parts'[i].consented
         /\ UNCHANGED cookie => AnonymousMayStart'
         /\ UNCHANGED sessions => InterviewsHaveConsent'
<1>1. \A i \in DOMAIN parts : parts[i].consented => parts'[i].consented
  BY DEF Gentle
<1>2. \A b \in Browser : cookie[b] # 0 => cookie[b] \in DOMAIN parts
  BY SeqFacts DEF Shape, TypeOK
<1>3. UNCHANGED cookie => AnonymousMayStart'
  BY <1>1, <1>2 DEF ConsentInv, AnonymousMayStart
<1>4. UNCHANGED sessions => InterviewsHaveConsent'
  BY <1>1 DEF ConsentInv, InterviewsHaveConsent, Shape, SessionInv
<1> QED
  BY <1>1, <1>3, <1>4

(* A step that writes no row is gentle. *)
LEMMA SameGentle == ASSUME Shape, parts' = parts PROVE Gentle
BY DEF Gentle

(* Resolving a link keeps the consent before the session. *)
LEMMA ResolveConsent ==
  ASSUME Shape, ConsentInv, NEW t \in Tab, NEW preview \in BOOLEAN,
         NEW k \in Token \cup {NoToken}, ResolveLink(t, preview, k)
  PROVE  ConsentInv' /\ Gentle
<1> DEFINE p == Existing(Owner[t], k)
           bound == k = NoToken \/ invitation[k] = p
           step == IF bound THEN "answering" ELSE "binding"
           found == [NoWork EXCEPT !.part = p, !.copy = parts[p], !.token = k]
           made == [NoWork EXCEPT !.copy = NewParticipation(preview), !.token = k]
<1>1. t \in Process /\ Owner[t] \in Browser
  BY EntryAssumption DEF Process
<1>2. p \in 0 .. Len(parts)
  BY <1>1 DEF Existing, Shape, TypeOK
<1>3. UNCHANGED <<parts, sessions, cookie>>
  BY DEF ResolveLink
<1>4. CASE p # 0
  <2>1. p \in DOMAIN parts /\ p \in Nat /\ parts[p] \in Participation
    BY <1>2, <1>4, SeqFacts
  <2>2. Goto(t, step, found) /\ step \in {"answering", "binding"}
    BY <1>4 DEF ResolveLink
  <2> HIDE DEF p, step
  <2>3. found \in Work /\ found.part = p /\ found.copy = parts[p]
    BY <2>1, NoWorkType DEF NoWork, Work
  <2>4. /\ parts[p].status \in {"interviewing", "completed"} => parts[p].consented
        /\ Anonymous /\ parts[p].status = "dropped" => parts[p].consented
    BY <2>1 DEF ConsentInv, RowConsent
  <2> HIDE DEF found
  <2>5. Relies(step, found, parts)
    BY <2>2, <2>3, <2>4 DEF Relies
  <2>6. step \in Step
    BY <2>2 DEF Step
  <2> QED
    BY <1>1, <1>3, <2>2, <2>3, <2>5, <2>6, QuietConsent, SameGentle
<1>5. CASE p = 0
  <2>1. made \in Work /\ made.copy = NewParticipation(preview)
    BY NoWorkType DEF NoWork, Work
  <2>2. Goto(t, "creating", made)
    BY <1>5 DEF ResolveLink
  <2> HIDE DEF made
  <2>3. Relies("creating", made, parts)
    BY <2>1 DEF Relies, NewParticipation
  <2> QED
    BY <1>1, <1>3, <2>1, <2>2, <2>3, QuietConsent, SameGentle DEF Step
<1> QED
  BY <1>4, <1>5

(* So does creating a participation, *)
LEMMA CreateConsent ==
  ASSUME Shape, ConsentInv, NEW t \in Tab, CreateParticipation(t)
  PROVE  ConsentInv' /\ Gentle
<1> DEFINE step == IF work[t].token = NoToken THEN "answering" ELSE "binding"
           w == [work[t] EXCEPT !.part = Len(parts')]
<1>1. /\ t \in Process /\ work[t] \in Work /\ work[t].copy \in Participation
      /\ work[t].copy.status = "invited" /\ ~work[t].copy.consented
  BY DEF Process, Shape, TypeOK, CreateParticipation, ConsentInv, Relies, Work
<1>2. /\ Len(parts') = Len(parts) + 1
      /\ DOMAIN parts' = 1 .. Len(parts) + 1
      /\ \A i \in DOMAIN parts : parts'[i] = parts[i]
      /\ parts'[Len(parts) + 1] = work[t].copy
  BY <1>1, SeqFacts DEF CreateParticipation, Shape, TypeOK
<1>3. Gentle
  <2>1. \A i \in DOMAIN parts : i \in DOMAIN parts'
    BY <1>2, SeqFacts
  <2>2. \A i \in DOMAIN parts' \ DOMAIN parts : i = Len(parts) + 1
    BY <1>2, SeqFacts
  <2> QED
    BY <1>1, <1>2, <2>1, <2>2 DEF Gentle
<1>4. RowConsent'
  <2>1. \A i \in DOMAIN parts' : i \in DOMAIN parts \/ i = Len(parts) + 1
    BY <1>2, SeqFacts
  <2> QED
    BY <1>1, <1>2, <2>1 DEF RowConsent, ConsentInv
<1>5. w \in Work /\ w.copy = work[t].copy
  BY <1>1, <1>2, SeqFacts DEF Work
<1>6. Goto(t, step, w) /\ step \in {"answering", "binding"}
      /\ UNCHANGED <<sessions, cookie>>
  BY DEF CreateParticipation
<1> HIDE DEF w, step
<1>7. Relies(step, w, parts')
  BY <1>1, <1>5, <1>6 DEF Relies
<1>8. step \in Step
  BY <1>6 DEF Step
<1> QED
  BY <1>1, <1>3, <1>4, <1>5, <1>6, <1>7, <1>8, GentleKeeps, MoveConsent

(* binding the invitation, *)
LEMMA BindConsent ==
  ASSUME Shape, ConsentInv, NEW t \in Tab, BindInvitation(t)
  PROVE  ConsentInv' /\ Gentle
<1>1. /\ t \in Process /\ work[t] \in Work /\ pc[t] = "binding"
      /\ Relies(pc[t], work[t], parts)
      /\ Goto(t, "answering", work[t])
      /\ UNCHANGED <<parts, sessions, cookie>>
  BY DEF Process, Shape, TypeOK, BindInvitation, ConsentInv
<1>2. Relies("answering", work[t], parts)
  BY <1>1 DEF Relies
<1> QED
  BY <1>1, <1>2, QuietConsent, SameGentle DEF Step

(* answering with the participation, *)
LEMMA AnswerConsent ==
  ASSUME Shape, ConsentInv, NEW t \in Tab, Answer(t)
  PROVE  ConsentInv' /\ Gentle
<1> DEFINE p == work[t].part
           copy == work[t].copy
           row == Consented(parts[p], copy)
           autoConsent == /\ Anonymous
                          /\ copy.status \notin {"completed", "dropped"}
                          /\ ~copy.consented
<1>1. /\ t \in Process /\ p \in DOMAIN parts /\ copy \in Participation
      /\ Owner[t] \in Browser /\ parts[p] \in Participation
  BY EntryAssumption, SeqFacts DEF Process, Shape, TypeOK, WorkInv, Answer, Work
<1>2. /\ Goto(t, "idle", NoWork) /\ UNCHANGED sessions
      /\ cookie' = [cookie EXCEPT ![Owner[t]] = p]
  BY DEF Answer, Finish
<1>3. Gentle /\ RowConsent' /\ (Anonymous => parts'[p].consented)
  <2>1. CASE autoConsent
    <3>1. parts' = [parts EXCEPT ![p] = row] /\ rowLock[p] = Nobody
      BY <2>1 DEF Answer
    <3>2. row \in Participation
      BY <1>1, RowTypes
    <3>3. copy.status \notin {"completed", "dropped"}
      BY <2>1
    <3> HIDE DEF copy
    <3>4. row.consented /\ row.preview = parts[p].preview /\ row.status # "completed"
      BY <1>1, <3>3 DEF Consented, Participation
    <3> HIDE DEF row
    <3> QED
      BY <1>1, <3>1, <3>2, <3>4, WriteGentle, WriteRow
  <2>2. CASE ~autoConsent
    <3>1. parts' = parts
      BY <2>2 DEF Answer
    <3>2. Anonymous => parts[p].consented
      BY <1>1, <2>2 DEF Answer, ConsentInv, Relies
    <3> QED
      BY <3>1, <3>2, SameGentle DEF ConsentInv, RowConsent
  <2> QED
    BY <2>1, <2>2
<1>4. AnonymousMayStart'
  <2> SUFFICES ASSUME Anonymous, NEW b \in Browser, cookie'[b] # 0
               PROVE  parts'[cookie'[b]].consented
    BY DEF AnonymousMayStart
  <2>1. cookie[b] # 0 => cookie[b] \in DOMAIN parts /\ parts[cookie[b]].consented
    BY SeqFacts DEF Shape, TypeOK, ConsentInv, AnonymousMayStart
  <2>2. cookie'[b] = IF b = Owner[t] THEN p ELSE cookie[b]
    BY <1>1, <1>2 DEF Shape, TypeOK
  <2> QED
    BY <1>3, <2>1, <2>2, GentleKeeps
<1>5. Relies("idle", NoWork, parts')
  BY NoWorkRelies
<1> QED
  BY <1>1, <1>2, <1>3, <1>4, <1>5, NoWorkType, GentleKeeps, MoveConsent DEF Step

(* posting the consent, *)
LEMMA PostConsentConsent ==
  ASSUME Shape, ConsentInv, NEW t \in Tab, PostConsent(t)
  PROVE  ConsentInv' /\ Gentle
<1> DEFINE w == ReadWork(t)
<1>1. /\ t \in Process /\ w \in Work /\ w.part \in DOMAIN parts
      /\ w.copy = parts[w.part] /\ ~w.copy.consented
      /\ Goto(t, "consenting", w)
      /\ UNCHANGED <<parts, sessions, cookie>>
  BY ReadShape DEF PostConsent
<1> HIDE DEF w
<1>2. Relies("consenting", w, parts)
  BY <1>1 DEF Relies, ConsentInv, RowConsent
<1> QED
  BY <1>1, <1>2, QuietConsent, SameGentle DEF Step

(* saving it, *)
LEMMA SaveConsentConsent ==
  ASSUME Shape, ConsentInv, NEW t \in Tab, SaveConsent(t)
  PROVE  ConsentInv' /\ Gentle
<1> DEFINE p == work[t].part
           copy == work[t].copy
           row == Consented(parts[p], copy)
<1>1. /\ t \in Process /\ p \in DOMAIN parts /\ copy \in Participation
      /\ parts[p] \in Participation
  BY SeqFacts DEF Process, Shape, TypeOK, WorkInv, SaveConsent, Work
<1>2. ~copy.consented /\ copy.status # "completed"
  BY <1>1 DEF SaveConsent, ConsentInv, Relies
<1>3. /\ parts' = [parts EXCEPT ![p] = row] /\ rowLock[p] = Nobody
      /\ Goto(t, "idle", NoWork) /\ UNCHANGED <<sessions, cookie>>
  BY DEF SaveConsent, Finish
<1>4. row \in Participation
  BY <1>1, RowTypes
<1> HIDE DEF copy
<1>5. row.consented /\ row.preview = parts[p].preview /\ row.status # "completed"
  BY <1>1, <1>2 DEF Consented, Participation
<1> HIDE DEF row
<1>6. Gentle /\ RowConsent'
  BY <1>1, <1>3, <1>4, <1>5, WriteGentle
<1> QED
  BY <1>1, <1>3, <1>6, NoWorkRelies, NoWorkType, GentleKeeps, MoveConsent DEF Step

(* posting the screener, *)
LEMMA PostScreenerConsent ==
  ASSUME Shape, ConsentInv, NEW t \in Tab, NEW passed \in BOOLEAN, PostScreener(t, passed)
  PROVE  ConsentInv' /\ Gentle
<1> DEFINE w == [ReadWork(t) EXCEPT !.passed = passed]
<1>1. /\ t \in Process /\ w \in Work /\ w.part = cookie[Owner[t]]
      /\ w.copy = parts[w.part] /\ w.part \in DOMAIN parts
  BY ReadShape DEF PostScreener, Work
<1>2. Owner[t] \in Browser /\ cookie[Owner[t]] # 0
  BY EntryAssumption DEF PostScreener, MayPost
<1>3. Goto(t, "grading", w) /\ UNCHANGED <<parts, sessions, cookie>>
  BY DEF PostScreener
<1> HIDE DEF w
<1>4. Relies("grading", w, parts)
  BY <1>1, <1>2 DEF Relies, ConsentInv, RowConsent, AnonymousMayStart
<1> QED
  BY <1>1, <1>3, <1>4, QuietConsent, SameGentle DEF Step

(* saving its grade, *)
LEMMA SaveGradeConsent ==
  ASSUME Shape, ConsentInv, NEW t \in Tab, SaveGrade(t)
  PROVE  ConsentInv' /\ Gentle
<1> DEFINE p == work[t].part
           row == Graded(parts[p], work[t].passed)
           copy == Graded(work[t].copy, work[t].passed)
           w == [work[t] EXCEPT !.copy = Graded(@, work[t].passed)]
<1>1. /\ t \in Process /\ work[t] \in Work /\ p \in DOMAIN parts
      /\ work[t].copy \in Participation /\ work[t].passed \in BOOLEAN
      /\ parts[p] \in Participation
  BY SeqFacts DEF Process, Shape, TypeOK, WorkInv, SaveGrade, Work
<1>2. /\ work[t].copy.consented => parts[p].consented
      /\ Anonymous => parts[p].consented
  BY <1>1 DEF SaveGrade, ConsentInv, Relies
<1>3. row \in Participation /\ copy \in Participation
  BY <1>1, RowTypes
<1>4. /\ row.consented = parts[p].consented /\ row.preview = parts[p].preview
      /\ row.status \in {"screened", "dropped"}
      /\ copy.consented = work[t].copy.consented
      /\ copy.status \in {"screened", "dropped"}
  BY <1>1 DEF Graded, Participation
<1>5. w \in Work /\ w.part = p /\ w.copy = copy
  BY <1>1, <1>3 DEF Work
<1>6. /\ parts' = [parts EXCEPT ![p] = row] /\ rowLock[p] = Nobody
      /\ Goto(t, "answering", w) /\ UNCHANGED <<sessions, cookie>>
  BY DEF SaveGrade
<1> HIDE DEF row, copy, w, p
<1>7. Gentle /\ RowConsent' /\ parts'[p] = row
  BY <1>1, <1>2, <1>3, <1>4, <1>6, WriteGentle, WriteRow
<1>8. Relies("answering", w, parts')
  BY <1>2, <1>4, <1>5, <1>7 DEF Relies
<1> QED
  BY <1>1, <1>5, <1>6, <1>7, <1>8, GentleKeeps, MoveConsent DEF Step

(* asking for a session, *)
LEMMA StartConsent ==
  ASSUME Shape, ConsentInv, NEW t \in Tab, StartSession(t)
  PROVE  ConsentInv' /\ Gentle
<1> DEFINE p == cookie[Owner[t]]
           w == [NoWork EXCEPT !.part = p]
<1>1. t \in Process /\ p \in DOMAIN parts
  BY ReadShape DEF StartSession
<1>2. w \in Work /\ w.part = p /\ w.copy = NewParticipation(FALSE)
  <2>1. p \in Nat
    BY <1>1, SeqFacts
  <2> HIDE DEF p
  <2> QED
    BY <2>1, NoWorkType DEF NoWork, Work
<1>3. /\ Goto(t, "numbering", w) /\ parts[p].consented
      /\ UNCHANGED <<parts, sessions, cookie>>
  BY DEF StartSession
<1> HIDE DEF w, p
<1>4. Relies("numbering", w, parts)
  BY <1>2, <1>3 DEF Relies, NewParticipation
<1> QED
  BY <1>1, <1>2, <1>3, <1>4, QuietConsent, SameGentle DEF Step

(* allocating its number, *)
LEMMA AllocateConsent ==
  ASSUME Shape, ConsentInv, NEW t \in Tab, AllocateNumber(t)
  PROVE  ConsentInv' /\ Gentle
<1> DEFINE w == [work[t] EXCEPT !.number = NextNumber]
<1>1. t \in Process /\ work[t] \in Work /\ NextNumber \in Nat
  BY NextNumberLemma, SeqFacts DEF Process, Shape, TypeOK
<1>2. w \in Work /\ w.part = work[t].part /\ w.copy = work[t].copy
  BY <1>1 DEF Work
<1>3. /\ Goto(t, "inserting", w) /\ UNCHANGED <<parts, sessions, cookie>>
  BY DEF AllocateNumber
<1> HIDE DEF w
<1>4. Relies("inserting", w, parts)
  BY <1>1, <1>2 DEF AllocateNumber, ConsentInv, Relies
<1> QED
  BY <1>1, <1>2, <1>3, <1>4, QuietConsent, SameGentle DEF Step

(* inserting it, *)
LEMMA InsertConsent ==
  ASSUME Shape, ConsentInv, NEW t \in Tab, InsertSession(t)
  PROVE  ConsentInv' /\ Gentle
<1> DEFINE i == work[t].part
           row == [parts[i] EXCEPT !.status = "interviewing"]
           new == [part |-> i, number |-> work[t].number, open |-> TRUE]
<1>1. /\ t \in Process /\ i \in DOMAIN parts /\ parts[i] \in Participation
  BY SeqFacts DEF Process, Shape, TypeOK, WorkInv, InsertSession
<1>2. parts[i].consented
  BY <1>1 DEF InsertSession, ConsentInv, Relies
<1>3. /\ row \in Participation /\ row.consented /\ row.status = "interviewing"
      /\ row.preview = parts[i].preview
  BY <1>1, <1>2, RowTypes DEF Participation
<1>4. /\ sessions' = Append(sessions, new)
      /\ parts' = [parts EXCEPT ![i] = row] /\ rowLock[i] = Nobody
      /\ Goto(t, "idle", NoWork)
      /\ UNCHANGED cookie
  BY DEF InsertSession, Finish
<1>5. new.part = i
  OBVIOUS
<1> HIDE DEF row, new, i
<1>6. Gentle /\ RowConsent' /\ parts'[i].consented
  BY <1>1, <1>2, <1>3, <1>4, WriteGentle, WriteRow
<1>7. /\ DOMAIN sessions' = 1 .. Len(sessions) + 1
      /\ \A s \in DOMAIN sessions : sessions'[s] = sessions[s]
      /\ sessions'[Len(sessions) + 1] = new
      /\ \A s \in DOMAIN sessions' : s \in DOMAIN sessions \/ s = Len(sessions) + 1
  BY <1>4, SeqFacts DEF Shape, TypeOK
<1>8. InterviewsHaveConsent'
  BY <1>5, <1>6, <1>7, GentleKeeps DEF InterviewsHaveConsent, ConsentInv, Shape, SessionInv
<1> QED
  BY <1>1, <1>4, <1>6, <1>8, NoWorkRelies, NoWorkType, GentleKeeps, MoveConsent DEF Step

(* and every request of a tab, which completes no participation. *)
LEMMA RequestConsent ==
  ASSUME Shape, ConsentInv, NEW t \in Tab, Request(t)
  PROVE  ConsentInv' /\ Gentle
BY ResolveConsent, CreateConsent, BindConsent, AnswerConsent, PostConsentConsent,
   SaveConsentConsent, PostScreenerConsent, SaveGradeConsent, StartConsent,
   AllocateConsent, InsertConsent
   DEF Request

(* A completion's lock of the session keeps the consent, *)
LEMMA LockConsent ==
  ASSUME Shape, ConsentInv, NEW w \in Worker, NEW s \in DOMAIN sessions, LockSession(w, s)
  PROVE  ConsentInv'
<1> DEFINE i == sessions[s].part
           step == IF parts[i].status = "completed" THEN "counted" ELSE "completing"
           k == [NoWork EXCEPT !.part = i, !.session = s]
<1>1. w \in Process /\ i \in Nat /\ s \in Nat
  BY SeqFacts DEF Process, Shape, SessionInv
<1>2. Goto(w, step, k) /\ step \in {"counted", "completing"}
      /\ UNCHANGED <<parts, sessions, cookie>>
  BY DEF LockSession
<1> HIDE DEF i, step
<1>3. k \in Work /\ k.copy = NewParticipation(FALSE)
  BY <1>1, NoWorkType DEF NoWork, Work
<1> HIDE DEF k
<1>4. Relies(step, k, parts) /\ step \in Step
  BY <1>2, <1>3 DEF Relies, NewParticipation, Step
<1> QED
  BY <1>1, <1>2, <1>3, <1>4, QuietConsent

(* and so does its count, *)
LEMMA CountConsent ==
  ASSUME Shape, ConsentInv, NEW w \in Worker, CountCompleted(w)
  PROVE  ConsentInv'
<1> DEFINE verdict == /\ study # "closed"
                      /\ Cardinality(CompletedWith(work[w].part)) >= Target
           k == [work[w] EXCEPT !.close = verdict]
<1>1. w \in Process /\ work[w] \in Work /\ pc[w] = "completing" /\ verdict \in BOOLEAN
  BY DEF Process, Shape, TypeOK, CountCompleted
<1>2. Goto(w, "counted", k) /\ UNCHANGED <<parts, sessions, cookie>>
  BY DEF CountCompleted
<1> HIDE DEF verdict
<1>3. k \in Work /\ k.copy = work[w].copy
  BY <1>1 DEF Work
<1> HIDE DEF k
<1>4. Relies("counted", k, parts)
  BY <1>1, <1>3 DEF ConsentInv, Relies
<1> QED
  BY <1>1, <1>2, <1>3, <1>4, QuietConsent DEF Step

(* A commit completes one row, which the worker has locked.                *)
LEMMA CommitRows ==
  ASSUME Shape, NEW w \in Worker, CommitCompletion(w)
  PROVE  /\ w \in Process
         /\ work[w].part \in DOMAIN parts
         /\ work[w].session \in DOMAIN sessions
         /\ sessions[work[w].session].part = work[w].part
         /\ rowLock[work[w].part] = w
         /\ DOMAIN parts' = DOMAIN parts
         /\ \A j \in DOMAIN parts :
              /\ parts'[j].consented = parts[j].consented
              /\ parts'[j].preview = parts[j].preview
              /\ j = work[w].part => parts'[j].status = "completed"
              /\ j # work[w].part => parts'[j] = parts[j]
         /\ DOMAIN sessions' = DOMAIN sessions
         /\ \A s \in DOMAIN sessions : sessions'[s].part = sessions[s].part
         /\ Goto(w, "idle", NoWork)
<1> DEFINE i == work[w].part
           n == work[w].session
           row == [parts[i] EXCEPT !.status = "completed"]
           ended == [sessions[n] EXCEPT !.open = FALSE]
<1>1. /\ w \in Process /\ i \in DOMAIN parts /\ n \in DOMAIN sessions
      /\ sessions[n].part = i /\ rowLock[i] = w
  BY DEF Process, Shape, WorkInv, LockInv, CommitCompletion, CompletionSteps
<1>2. /\ row \in Participation /\ row.consented = parts[i].consented
      /\ row.preview = parts[i].preview /\ row.status = "completed"
  BY <1>1, SeqFacts DEF Participation, Status
<1>3. ended.part = sessions[n].part
  BY <1>1, SeqFacts DEF Session
<1>4. /\ sessions' = [sessions EXCEPT ![n] = ended] /\ parts' = [parts EXCEPT ![i] = row]
      /\ Goto(w, "idle", NoWork)
  BY DEF CommitCompletion, Finish
<1> HIDE DEF row, ended
<1>5. /\ DOMAIN parts' = DOMAIN parts
      /\ \A j \in DOMAIN parts : parts'[j] = IF j = i THEN row ELSE parts[j]
  BY <1>1, <1>2, <1>4, WriteRow
<1>6. /\ DOMAIN sessions' = DOMAIN sessions
      /\ \A s \in DOMAIN sessions : sessions'[s].part = sessions[s].part
  BY <1>1, <1>3, <1>4, SeqFacts
<1> QED
  BY <1>1, <1>2, <1>4, <1>5, <1>6

(* its commit, *)
LEMMA CommitConsent ==
  ASSUME Shape, ConsentInv, NEW w \in Worker, CommitCompletion(w)
  PROVE  ConsentInv'
<1>1. parts[work[w].part].consented
  BY CommitRows DEF ConsentInv, InterviewsHaveConsent
<1>2. RowConsent'
  BY <1>1, CommitRows DEF ConsentInv, RowConsent
<1>3. \A b \in Browser : cookie[b] # 0 => cookie[b] \in DOMAIN parts
  BY SeqFacts DEF Shape, TypeOK
<1>4. AnonymousMayStart'
  BY <1>3, CommitRows DEF ConsentInv, AnonymousMayStart, CommitCompletion
<1>5. InterviewsHaveConsent'
  BY CommitRows DEF ConsentInv, InterviewsHaveConsent, Shape, SessionInv
<1>6. \A j \in DOMAIN parts : parts[j].consented => parts'[j].consented
  BY CommitRows
<1> QED
  BY <1>2, <1>4, <1>5, <1>6, CommitRows, NoWorkRelies, NoWorkType, MoveConsent DEF Step

(* and every other step. *)
LEMMA OtherConsent ==
  ASSUME Shape, ConsentInv,
         \/ \E t \in Tab, w \in Worker : Deadlock(t, w)
         \/ \E p \in Process : Abort(p)
         \/ Launch \/ SaveLaunch \/ Close
  PROVE  ConsentInv'
<1>1. ASSUME NEW t \in Tab, NEW w \in Worker, Deadlock(t, w) PROVE ConsentInv'
  <2>1. /\ t \in Process /\ w \in Process /\ work[w] \in Work
        /\ pc[w] = "completing" /\ UNCHANGED <<parts, sessions, cookie>>
    BY <1>1 DEF Deadlock, Process, Shape, TypeOK
  <2>2. Relies("counted", work[w], parts)
    BY <2>1 DEF ConsentInv, Relies
  <2>3. Goto(t, "idle", NoWork) \/ Goto(w, "counted", work[w])
    BY <1>1 DEF Deadlock, Finish
  <2> QED
    BY <2>1, <2>2, <2>3, NoWorkRelies, NoWorkType, QuietConsent DEF Step
<1>2. ASSUME NEW p \in Process, Abort(p) PROVE ConsentInv'
  BY <1>2, NoWorkRelies, NoWorkType, QuietConsent DEF Abort, Finish, Step
<1>3. CASE Launch
  BY <1>3, NoWorkRelies, NoWorkType, QuietConsent DEF Launch, Process, Step
<1>4. CASE SaveLaunch
  BY <1>4, NoWorkRelies, NoWorkType, QuietConsent DEF SaveLaunch, Finish, Process, Step
<1>5. CASE Close
  BY <1>5 DEF Close, ConsentInv, RowConsent, AnonymousMayStart, InterviewsHaveConsent
<1> QED
  BY <1>1, <1>2, <1>3, <1>4, <1>5

(* Every step keeps the consent before the session. *)
LEMMA NextConsent == Shape /\ ConsentInv /\ [Next]_vars => ConsentInv'
<1> SUFFICES ASSUME Shape, ConsentInv, [Next]_vars PROVE ConsentInv'
  OBVIOUS
<1>1. CASE Next
  BY <1>1, RequestConsent, LockConsent, CountConsent, CommitConsent, OtherConsent
     DEF Next, Completion
<1>2. CASE UNCHANGED vars
  BY <1>2 DEF vars, ConsentInv, RowConsent, AnonymousMayStart, InterviewsHaveConsent
<1> QED
  BY <1>1, <1>2

(* Consent is never taken back, and whoever relies on a copy of a row, or  *)
(* on having looked at it, relies on something that still holds.           *)
THEOREM ConsentInvariant == Spec => []ConsentInv
BY InitConsent, NextConsent, ShapeInvariant, PTL DEF Spec

(* Whoever is interviewed has consented, although consent is looked at     *)
(* before the session is created and requests write from old copies.       *)
THEOREM ConsentBeforeInterview == Spec => []InterviewsHaveConsent
BY ConsentInvariant, PTL DEF ConsentInv

(* Whoever an anonymous link has let in may start at once.                 *)
THEOREM AnonymousIsLetIn == Spec => []AnonymousMayStart
BY ConsentInvariant, PTL DEF ConsentInv

-----------------------------------------------------------------------------
(* The target, for a study that is live from the start                     *)

(* What a worker that leaves the study open relies on: its participation   *)
(* was counted before, or one more does not reach the target and nobody    *)
(* else can count meanwhile.                                               *)
Decided(w) ==
  \/ parts[work[w].part].status = "completed"
  \/ studyLock = w /\ Cardinality(CompletedWith(work[w].part)) < Target

TargetInv ==
  /\ study # "draft"
  /\ pc[Researcher] = "idle"
  /\ TargetCloses
  /\ \A w \in Worker :
       pc[w] = "counted" /\ ~work[w].close /\ LinkOpen /\ ~closureFailed => Decided(w)

(* There are finitely many completed sessions. *)
LEMMA CompletedFinite ==
  ASSUME Shape
  PROVE  /\ IsFiniteSet(Completed)
         /\ \A i \in DOMAIN parts : IsFiniteSet(CompletedWith(i))
<1>1. IsFiniteSet(DOMAIN parts)
  BY SeqFacts, FS_Interval
<1>2. /\ Completed \subseteq DOMAIN parts
      /\ \A i \in DOMAIN parts : CompletedWith(i) \subseteq DOMAIN parts
  BY DEF Completed, CompletedWith
<1> QED
  BY <1>1, <1>2, FS_Subset

(* A smaller set has no more elements.                                     *)
LEMMA Smaller ==
  ASSUME NEW S, NEW T, IsFiniteSet(T), S \subseteq T
  PROVE  /\ Cardinality(S) \in Nat /\ Cardinality(T) \in Nat
         /\ Cardinality(S) <= Cardinality(T)
BY FS_Subset, FS_CardinalityType

(* The study begins live and with nobody completed. *)
LEMMA InitTarget ==
  ASSUME InitialStatus = "live", Target > 0
  PROVE  Init => TargetInv
<1> SUFFICES ASSUME Init PROVE TargetInv
  OBVIOUS
<1>1. Completed = {}
  BY DEF Init, Completed
<1>2. Cardinality(Completed) = 0
  BY <1>1, FS_EmptySet
<1>3. TargetCloses
  BY <1>2, EntryAssumption DEF TargetCloses
<1> QED
  BY <1>3 DEF Init, TargetInv, Process

(* A step that completes nobody keeps what was decided.                    *)
LEMMA GentleTarget ==
  ASSUME Shape, TargetInv, Gentle,
         study' # "draft", pc'[Researcher] = "idle",
         LinkOpen' => LinkOpen,
         closureFailed => closureFailed',
         \A w \in Worker :
           pc'[w] = "counted" /\ ~work'[w].close /\ LinkOpen' /\ ~closureFailed'
             => \/ /\ pc[w] = "counted" /\ work'[w] = work[w]
                   /\ studyLock = w => studyLock' = w
                \/ /\ work'[w].part \in DOMAIN parts
                   /\ rowLock[work'[w].part] # Nobody \/ parts' = parts
                   /\ \/ parts[work'[w].part].status = "completed"
                      \/ /\ studyLock' = w
                         /\ Cardinality(CompletedWith(work'[w].part)) < Target
  PROVE  TargetInv'
<1>1. Completed' \subseteq Completed
  BY DEF Gentle, Completed
<1>2. ASSUME NEW i \in DOMAIN parts
      PROVE  CompletedWith(i)' \subseteq CompletedWith(i)
  BY <1>1 DEF CompletedWith, Gentle
<1>3. TargetCloses'
  <2>1. Cardinality(Completed') <= Cardinality(Completed)
        /\ Cardinality(Completed') \in Nat /\ Cardinality(Completed) \in Nat
    BY <1>1, CompletedFinite, Smaller
  <2> QED
    BY <2>1, EntryAssumption DEF TargetInv, TargetCloses
<1>4. ASSUME NEW w \in Worker, pc'[w] = "counted", ~work'[w].close, LinkOpen', ~closureFailed'
      PROVE  Decided(w)'
  <2> PICK i : i = work'[w].part
    OBVIOUS
  <2>1. /\ i \in DOMAIN parts
        /\ rowLock[i] # Nobody \/ parts' = parts
        /\ \/ parts[i].status = "completed"
           \/ studyLock' = w /\ Cardinality(CompletedWith(i)) < Target
    <3>1. CASE pc[w] = "counted" /\ work'[w] = work[w] /\ (studyLock = w => studyLock' = w)
      <4>1. w \in Process /\ i \in DOMAIN parts /\ rowLock[i] = w
        BY <3>1 DEF Process, Shape, WorkInv, LockInv, CompletionSteps
      <4>2. Decided(w)
        BY <1>4, <3>1 DEF TargetInv
      <4> QED
        BY <3>1, <4>1, <4>2, EntryAssumption DEF Decided
    <3> QED
      BY <1>4, <3>1
  <2>2. parts'[i] = parts[i]
    BY <2>1 DEF Gentle
  <2>3. /\ Cardinality(CompletedWith(i)') <= Cardinality(CompletedWith(i))
        /\ Cardinality(CompletedWith(i)') \in Nat /\ Cardinality(CompletedWith(i)) \in Nat
    BY <1>2, <2>1, CompletedFinite, Smaller
  <2>4. CompletedWith(i)' = CompletedWith(work[w].part)'
    BY DEF CompletedWith
  <2> QED
    BY <2>1, <2>2, <2>3, <2>4, EntryAssumption DEF Decided
<1> QED
  BY <1>3, <1>4 DEF TargetInv

(* A request moves its own tab, and changes neither the study nor a lock   *)
(* of a worker.                                                            *)
LEMMA RequestFrame ==
  ASSUME Shape, NEW t \in Tab, Request(t)
  PROVE  /\ UNCHANGED <<study, linkActive, closureFailed>>
         /\ \A q \in Process \ {t} : pc'[q] = pc[q] /\ work'[q] = work[q]
         /\ \A w \in Worker : studyLock = w => studyLock' = w
<1> USE DEF Goto, Finish
<1>0. pc \in [Process -> Step] /\ work \in [Process -> Work] /\ t \notin Worker
      /\ Nobody \notin Worker
  BY EntryAssumption DEF Shape, TypeOK
<1>1. CASE \E preview \in BOOLEAN, k \in Token \cup {NoToken} : ResolveLink(t, preview, k)
  BY <1>0, <1>1 DEF ResolveLink
<1>2. CASE CreateParticipation(t)
  BY <1>0, <1>2 DEF CreateParticipation
<1>3. CASE BindInvitation(t)
  BY <1>0, <1>3 DEF BindInvitation
<1>4. CASE Answer(t)
  BY <1>0, <1>4 DEF Answer
<1>5. CASE PostConsent(t)
  BY <1>0, <1>5 DEF PostConsent
<1>6. CASE SaveConsent(t)
  BY <1>0, <1>6 DEF SaveConsent
<1>7. CASE SaveGrade(t)
  BY <1>0, <1>7 DEF SaveGrade
<1>8. CASE StartSession(t)
  BY <1>0, <1>8 DEF StartSession
<1>9. CASE AllocateNumber(t)
  BY <1>0, <1>9 DEF AllocateNumber
<1>10. CASE InsertSession(t)
  BY <1>0, <1>10 DEF InsertSession, Shape, LockInv, Process
<1>11. CASE \E passed \in BOOLEAN : PostScreener(t, passed)
  BY <1>0, <1>11 DEF PostScreener
<1> QED
  BY <1>1, <1>2, <1>3, <1>4, <1>5, <1>6, <1>7, <1>8, <1>9, <1>10, <1>11 DEF Request

(* A request of a tab closes a study no later than it must. *)
LEMMA RequestTarget ==
  ASSUME Shape, ConsentInv, TargetInv, NEW t \in Tab, Request(t)
  PROVE  TargetInv'
<1>1. Researcher \in Process \ {t} /\ \A w \in Worker : w \in Process \ {t}
  BY EntryAssumption DEF Process
<1>2. study' # "draft" /\ pc'[Researcher] = "idle"
  BY <1>1, RequestFrame DEF TargetInv
<1>3. (LinkOpen' => LinkOpen) /\ (closureFailed => closureFailed')
  BY RequestFrame DEF LinkOpen
<1> QED
  BY <1>1, <1>2, <1>3, RequestFrame, RequestConsent, GentleTarget

(* So does a completion's lock of the session, *)
LEMMA LockTarget ==
  ASSUME Shape, TargetInv, NEW w \in Worker, NEW s \in DOMAIN sessions, LockSession(w, s)
  PROVE  TargetInv'
<1> DEFINE i == sessions[s].part
           step == IF parts[i].status = "completed" THEN "counted" ELSE "completing"
           k == [NoWork EXCEPT !.part = i, !.session = s]
<1>1. /\ w \in Process /\ Researcher \in Process \ {w} /\ Worker \subseteq Process
      /\ i \in DOMAIN parts
  BY EntryAssumption DEF Process, Shape, SessionInv
<1>2. k.part = i
  BY DEF NoWork
<1>3. /\ Goto(w, step, k)
      /\ UNCHANGED <<study, linkActive, parts, studyLock, closureFailed>>
  BY DEF LockSession
<1>4. step = "counted" => parts[i].status = "completed"
  OBVIOUS
<1> HIDE DEF i, step, k
<1>5. /\ pc'[w] = step /\ work'[w] = k
      /\ \A q \in Process \ {w} : pc'[q] = pc[q] /\ work'[q] = work[q]
  BY <1>1, <1>3 DEF Goto, Shape, TypeOK
<1>6. study' # "draft" /\ pc'[Researcher] = "idle" /\ (LinkOpen' => LinkOpen)
  BY <1>1, <1>3, <1>5 DEF TargetInv, LinkOpen
<1>7. Gentle
  BY <1>3, SameGentle
<1> QED
  BY <1>1, <1>2, <1>3, <1>4, <1>5, <1>6, <1>7, GentleTarget

(* its count, which decides whether to close, *)
LEMMA CountTarget ==
  ASSUME Shape, TargetInv, NEW w \in Worker, CountCompleted(w)
  PROVE  TargetInv'
<1> DEFINE i == work[w].part
           enough == Cardinality(CompletedWith(i)) >= Target
           k == [work[w] EXCEPT !.close = study # "closed" /\ enough]
<1>1. /\ w \in Process /\ Researcher \in Process \ {w} /\ Worker \subseteq Process
      /\ i \in DOMAIN parts /\ work[w] \in Work /\ Nobody \notin Worker
  BY EntryAssumption
     DEF Process, Shape, TypeOK, WorkInv, CountCompleted, CompletionSteps
<1>2. k.part = i /\ k.close = (study # "closed" /\ enough)
  BY <1>1 DEF Work
<1>3. /\ Goto(w, "counted", k) /\ studyLock = Nobody /\ studyLock' = w
      /\ UNCHANGED <<study, linkActive, parts, closureFailed>>
  BY DEF CountCompleted
<1>4. ~enough => Cardinality(CompletedWith(i)) < Target
  BY <1>1, CompletedFinite, FS_CardinalityType, EntryAssumption
<1> HIDE DEF i, enough, k
<1>5. /\ pc'[w] = "counted" /\ work'[w] = k
      /\ \A q \in Process \ {w} : pc'[q] = pc[q] /\ work'[q] = work[q]
  BY <1>1, <1>3 DEF Goto, Shape, TypeOK
<1>6. study' # "draft" /\ pc'[Researcher] = "idle" /\ (LinkOpen' => LinkOpen)
      /\ (LinkOpen' => study # "closed")
  BY <1>1, <1>3, <1>5 DEF TargetInv, LinkOpen
<1>7. Gentle
  BY <1>3, SameGentle
<1> QED
  BY <1>1, <1>2, <1>3, <1>4, <1>5, <1>6, <1>7, GentleTarget

(* its commit, *)
LEMMA CommitTarget ==
  ASSUME Shape, TargetInv, NEW w \in Worker, CommitCompletion(w)
  PROVE  TargetInv'
<1>1. PICK i : i = work[w].part
  OBVIOUS
<1>2. /\ w \in Process /\ Researcher \in Process \ {w} /\ Worker \subseteq Process
      /\ Nobody \notin Worker /\ i \in DOMAIN parts /\ rowLock[i] = w
  BY <1>1, CommitRows, EntryAssumption DEF Process
<1>3. /\ pc'[w] = "idle" /\ \A q \in Process \ {w} : pc'[q] = pc[q] /\ work'[q] = work[q]
  BY <1>2, CommitRows DEF Goto, Shape, TypeOK
<1>4. /\ study' = IF work[w].close THEN "closed" ELSE study
      /\ linkActive' = (linkActive /\ ~work[w].close)
      /\ closureFailed' = closureFailed /\ Release(w) /\ pc[w] = "counted"
  BY DEF CommitCompletion
<1>5. study' # "draft" /\ pc'[Researcher] = "idle"
  BY <1>2, <1>3, <1>4 DEF TargetInv
<1>6. Completed' \subseteq CompletedWith(i)
  BY <1>1, <1>2, CommitRows DEF Completed, CompletedWith
<1>7. CASE ~LinkOpen' \/ closureFailed'
  BY <1>5, <1>7 DEF TargetInv, TargetCloses
<1>8. CASE LinkOpen' /\ ~closureFailed'
  <2>1. ~work[w].close /\ LinkOpen /\ ~closureFailed
    BY <1>4, <1>8 DEF LinkOpen
  <2>2. Decided(w)
    BY <1>4, <2>1 DEF TargetInv
  <2>3. ~(Cardinality(Completed) >= Target)
    BY <2>1 DEF TargetInv, TargetCloses
  <2>4. parts[i].status = "completed" => Completed' \subseteq Completed
    BY <1>6, <1>2 DEF Completed, CompletedWith
  <2>5. ~(Cardinality(Completed') >= Target)
    <3>1. CASE parts[i].status = "completed"
      BY <2>3, <2>4, <3>1, CompletedFinite, Smaller, EntryAssumption
    <3>2. CASE Cardinality(CompletedWith(i)) < Target
      BY <1>2, <1>6, <3>2, CompletedFinite, Smaller, EntryAssumption
    <3> QED
      BY <1>1, <2>2, <3>1, <3>2 DEF Decided
  <2>6. ASSUME NEW v \in Worker, pc'[v] = "counted", ~work'[v].close
        PROVE  Decided(v)'
    <3>1. v \in Process \ {w} /\ pc[v] = "counted" /\ work'[v] = work[v]
      BY <1>2, <1>3, <2>6
    <3>2. PICK j : j = work[v].part
      OBVIOUS
    <3>3. j \in DOMAIN parts /\ rowLock[j] = v /\ j # i
      BY <1>2, <3>1, <3>2 DEF Shape, WorkInv, LockInv, CompletionSteps
    <3>4. Decided(v)
      BY <2>1, <2>6, <3>1 DEF TargetInv
    <3>5. parts'[j] = parts[j]
      BY <1>1, <3>3, CommitRows
    <3>6. CASE parts[j].status = "completed"
      BY <3>1, <3>2, <3>5, <3>6 DEF Decided
    <3>7. CASE studyLock = v /\ Cardinality(CompletedWith(j)) < Target
      <4>1. studyLock' = v
        BY <1>2, <1>4, <3>1, <3>7, ReleaseLemma
      <4>2. parts[i].status = "completed"
        BY <1>1, <2>2, <3>1, <3>7 DEF Decided
      <4>3. CompletedWith(j)' \subseteq CompletedWith(j)
        BY <2>4, <3>3, <3>5, <4>2 DEF CompletedWith
      <4>4. Cardinality(CompletedWith(j)') < Target
        BY <3>3, <3>7, <4>3, CompletedFinite, Smaller, EntryAssumption
      <4>5. CompletedWith(j)' = CompletedWith(work[v].part)'
        BY <3>1, <3>2 DEF CompletedWith
      <4> QED
        BY <4>1, <4>4, <4>5 DEF Decided
    <3> QED
      BY <3>2, <3>4, <3>6, <3>7 DEF Decided
  <2> QED
    BY <1>5, <2>5, <2>6 DEF TargetInv, TargetCloses
<1> QED
  BY <1>7, <1>8

(* and every other step. *)
LEMMA OtherTarget ==
  ASSUME Shape, TargetInv,
         \/ \E t \in Tab, w \in Worker : Deadlock(t, w)
         \/ \E p \in Process : Abort(p)
         \/ Launch \/ SaveLaunch \/ Close
  PROVE  TargetInv'
<1>0. /\ Researcher \in Process /\ Worker \subseteq Process /\ Tab \subseteq Process
      /\ Researcher \notin Worker \cup Tab /\ Nobody \notin Worker
      /\ Worker \cap Tab = {}
      /\ pc \in [Process -> Step] /\ work \in [Process -> Work]
  BY EntryAssumption DEF Process, Shape, TypeOK
<1>1. ASSUME NEW t \in Tab, NEW w \in Worker, Deadlock(t, w) PROVE TargetInv'
  <2>1. Gentle
    BY <1>1, SameGentle DEF Deadlock
  <2>2. study' = study /\ linkActive' = linkActive /\ studyLock = t
    BY <1>1 DEF Deadlock
  <2>3. CASE /\ Finish(t) /\ UNCHANGED closureFailed
    BY <1>0, <2>1, <2>2, <2>3, GentleTarget DEF Finish, Goto, TargetInv, LinkOpen
  <2>4. CASE closureFailed' = TRUE /\ Goto(w, "counted", work[w])
    BY <1>0, <2>1, <2>2, <2>4, GentleTarget DEF Goto, TargetInv, LinkOpen
  <2> QED
    BY <1>1, <2>3, <2>4 DEF Deadlock
<1>2. ASSUME NEW p \in Process, Abort(p) PROVE TargetInv'
  <2>1. Gentle
    BY <1>2, SameGentle DEF Abort
  <2>2. /\ Goto(p, "idle", NoWork) /\ Release(p)
        /\ UNCHANGED <<study, linkActive, closureFailed>>
    BY <1>2 DEF Abort, Finish
  <2>3. /\ pc'[p] = "idle"
        /\ \A q \in Process \ {p} : pc'[q] = pc[q] /\ work'[q] = work[q]
    BY <1>0, <2>2 DEF Goto
  <2>4. \A q \in Process \ {p} : studyLock = q => studyLock' = q
    BY <2>2, ReleaseLemma
  <2>5. study' # "draft" /\ pc'[Researcher] = "idle" /\ (LinkOpen' => LinkOpen)
    BY <1>0, <2>2, <2>3 DEF TargetInv, LinkOpen
  <2> QED
    BY <1>0, <2>1, <2>2, <2>3, <2>4, <2>5, GentleTarget
<1>3. CASE Launch
  BY <1>3 DEF Launch, TargetInv
<1>4. CASE SaveLaunch
  BY <1>4 DEF SaveLaunch, TargetInv
<1>5. CASE Close
  <2>1. Gentle
    BY <1>5, SameGentle DEF Close
  <2> QED
    BY <1>5, <2>1, GentleTarget DEF Close, TargetInv, LinkOpen
<1> QED
  BY <1>1, <1>2, <1>3, <1>4, <1>5

(* Every step leaves a study that has reached its target closed. *)
LEMMA NextTarget == Shape /\ ConsentInv /\ TargetInv /\ [Next]_vars => TargetInv'
<1> SUFFICES ASSUME Shape, ConsentInv, TargetInv, [Next]_vars PROVE TargetInv'
  OBVIOUS
<1>1. CASE Next
  BY <1>1, RequestTarget, LockTarget, CountTarget, CommitTarget, OtherTarget
     DEF Next, Completion
<1>2. CASE UNCHANGED vars
  BY <1>2 DEF vars, TargetInv, TargetCloses, LinkOpen, Completed, Decided, CompletedWith
<1> QED
  BY <1>1, <1>2

(* A study that is live from the start closes at its target: its link lets *)
(* nobody in, however completions, requests and failures interleave, short *)
(* of a failure that the closure handler swallows.                         *)
THEOREM StudyClosesAtTarget ==
  ASSUME InitialStatus = "live", Target > 0
  PROVE  Spec => []TargetCloses
<1>1. Init => TargetInv
  BY InitTarget
<1>2. TargetInv => TargetCloses
  BY DEF TargetInv
<1> QED
  BY <1>1, <1>2, NextTarget, ShapeInvariant, ConsentInvariant, PTL DEF Spec

=============================================================================
