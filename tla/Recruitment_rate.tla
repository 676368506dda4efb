--------------------------- MODULE Recruitment_rate ---------------------------
(***************************************************************************)
(* The sending budget of Recruitment, for every limit and any number of    *)
(* workers.                                                                *)
(***************************************************************************)
EXTENDS Recruitment, FiniteSetTheorems, TLAPS

(* Those who are promised a message whatever the counter says by then *)
Promised == {w \in Worker : pc[w] = "expired"}

Used == IF rate <= RATE_LIMIT THEN rate ELSE RATE_LIMIT

(* While there is a counter it accounts for what it has allowed, save for  *)
(* what the promised ones among all other workers have taken; when it goes *)
(* nothing has been allowed yet, however many are promised.                *)
RateInv ==
  /\ rate \in Nat /\ allowed \in Nat
  /\ pc \in [Worker -> Step]
  /\ rate = 0 => allowed = 0
  /\ rate > 0 => allowed + Cardinality(Promised) <= Used + Cardinality(Worker) - 1

USE DEF budget, row, queue, memory, bounds, vars

(* Promised ones are workers, one fewer without somebody who is not one. *)
LEMMA PromisedCount ==
  /\ IsFiniteSet(Promised)
  /\ Cardinality(Promised) \in Nat
  /\ Cardinality(Worker) \in Nat \ {0}
  /\ Cardinality(Promised) <= Cardinality(Worker)
<1>1. IsFiniteSet(Worker) /\ Worker # {}  BY RecruitmentAssumption
<1>2. Promised \subseteq Worker  BY DEF Promised
<1>3. IsFiniteSet(Promised) /\ Cardinality(Promised) <= Cardinality(Worker)
  BY <1>1, <1>2, FS_Subset
<1>4. Cardinality(Promised) \in Nat /\ Cardinality(Worker) \in Nat
  BY <1>1, <1>3, FS_CardinalityType
<1>5. Cardinality(Worker) # 0  BY <1>1, FS_EmptySet
<1> QED  BY <1>3, <1>4, <1>5

(* The other workers that are promised are fewer than all. *)
LEMMA OthersPromised ==
  ASSUME NEW w \in Worker
  PROVE  Cardinality(Promised \ {w}) \in Nat
         /\ Cardinality(Promised \ {w}) <= Cardinality(Worker) - 1
<1>1. IsFiniteSet(Worker)  BY RecruitmentAssumption
<1>2. IsFiniteSet(Worker \ {w}) /\ Cardinality(Worker \ {w}) = Cardinality(Worker) - 1
  BY <1>1, FS_RemoveElement
<1>3. Promised \ {w} \subseteq Worker \ {w}  BY DEF Promised
<1>4. IsFiniteSet(Promised \ {w}) /\ Cardinality(Promised \ {w}) <= Cardinality(Worker \ {w})
  BY <1>2, <1>3, FS_Subset
<1> QED  BY <1>2, <1>4, FS_CardinalityType

(* One who is promised a message is one less to promise it to. *)
LEMMA PromiseKept ==
  ASSUME NEW w \in Promised
  PROVE  Cardinality(Promised \ {w}) = Cardinality(Promised) - 1
  BY PromisedCount, FS_RemoveElement

(* A worker moves to a step that promises nothing. *)
LEMMA MoveOn ==
  ASSUME RateInv, NEW w \in Worker, NEW s \in Step \ {"expired"}, Goto(w, s)
  PROVE  Promised' = Promised \ {w} /\ pc' \in [Worker -> Step]
  BY DEF RateInv, Promised, Goto

(* Whoever moves on and leaves the counter alone keeps the invariant. *)
LEMMA MoveKeeps ==
  ASSUME RateInv, NEW w \in Worker, NEW s \in Step \ {"expired"}, Goto(w, s),
         UNCHANGED budget
  PROVE  RateInv'
<1>1. Promised' = Promised \ {w} /\ pc' \in [Worker -> Step]  BY MoveOn
<1>2. IsFiniteSet(Promised) /\ Cardinality(Promised) \in Nat  BY PromisedCount
<1>3. Cardinality(Promised \ {w}) \in Nat /\ Cardinality(Promised \ {w}) <= Cardinality(Promised)
  BY <1>2, FS_Subset, FS_CardinalityType, Promised \ {w} \subseteq Promised
<1>4. Cardinality(Worker) \in Nat  BY PromisedCount
<1>5. RATE_LIMIT \in Nat  BY RecruitmentAssumption
<1> QED  BY <1>1, <1>3, <1>4, <1>5, PromisedCount DEF RateInv, Used

(* The first message of a window leaves all other workers to be promised.  *)
LEMMA WindowKeeps ==
  ASSUME RateInv, NEW w \in Worker, Goto(w, "allowed"), NewWindow
  PROVE  RateInv'
<1>1. Promised' = Promised \ {w} /\ pc' \in [Worker -> Step]  BY MoveOn DEF Step
<1>2. /\ Cardinality(Promised \ {w}) \in Nat
      /\ Cardinality(Promised \ {w}) <= Cardinality(Worker) - 1
  BY OthersPromised
<1>3. RATE_LIMIT \in Nat \ {0}  BY RecruitmentAssumption
<1> QED  BY <1>1, <1>2, <1>3, PromisedCount DEF RateInv, Used, NewWindow

(* An increment keeps within what was promised. *)
LEMMA IncrementKeeps ==
  ASSUME RateInv, NEW w \in Worker, Increment(w)
  PROVE  RateInv'
<1>1. CASE rate = 0 /\ Goto(w, "expired") /\ UNCHANGED budget
  BY <1>1 DEF RateInv, Goto, Step
<1>2. CASE /\ rate \in 1 .. RATE_LIMIT - 1
           /\ rate' = rate + 1 /\ allowed' = allowed + 1
           /\ Goto(w, "allowed")
  <2>1. Promised' = Promised \ {w} /\ pc' \in [Worker -> Step]
    BY <1>2, MoveOn DEF Step
  <2>2. Promised \ {w} = Promised
    BY DEF Increment, Promised
  <2>3. RATE_LIMIT \in Nat  BY RecruitmentAssumption
  <2> QED  BY <1>2, <2>1, <2>2, <2>3, PromisedCount DEF RateInv, Used
<1>3. CASE rate >= RATE_LIMIT /\ rate' = RATE_LIMIT + 1 /\ UNCHANGED allowed /\ Goto(w, "next")
  <2>1. Promised' = Promised \ {w} /\ pc' \in [Worker -> Step]
    BY <1>3, MoveOn DEF Step
  <2>2. Promised \ {w} = Promised
    BY DEF Increment, Promised
  <2>3. RATE_LIMIT \in Nat \ {0}  BY RecruitmentAssumption
  <2> QED  BY <1>3, <2>1, <2>2, <2>3, PromisedCount DEF RateInv, Used
<1> QED  BY <1>1, <1>2, <1>3 DEF Increment

(* So does a counter that is added again. *)
LEMMA AddAgainKeeps ==
  ASSUME RateInv, NEW w \in Worker, AddAgain(w)
  PROVE  RateInv'
<1>1. CASE rate = 0  BY <1>1, WindowKeeps DEF AddAgain
<1>2. CASE rate # 0
  <2>1. Promised' = Promised \ {w} /\ pc' \in [Worker -> Step]
    BY MoveOn DEF AddAgain, Step
  <2>2. Cardinality(Promised \ {w}) = Cardinality(Promised) - 1
    BY PromiseKept DEF AddAgain, Promised
  <2>3. RATE_LIMIT \in Nat  BY RecruitmentAssumption
  <2> QED  BY <1>2, <2>1, <2>2, <2>3, PromisedCount DEF RateInv, Used, AddAgain
<1> QED  BY <1>1, <1>2

(* The budget's invariant holds in every reachable state. *)
THEOREM RateInvariance == Spec => []RateInv
<1>1. Init => RateInv
  BY DEF Init, RateInv, Step
<1>2. RateInv /\ [Next]_vars => RateInv'
  <2> SUFFICES ASSUME RateInv, [Next]_vars PROVE RateInv'
    OBVIOUS
  <2>1. ASSUME NEW w \in Worker, WorkerStep(w) PROVE RateInv'
    <3>1. CASE Receive(w)
      <4>1. PICK s \in {"idle", "received"} : Goto(w, s)  BY <3>1 DEF Receive
      <4> QED  BY <3>1, <4>1, MoveKeeps DEF Receive, Step
    <3>2. CASE ReadPending(w)  BY <3>2, MoveKeeps DEF ReadPending, Step
    <3>3. CASE AddKey(w)
      <4>1. CASE rate = 0  BY <3>3, <4>1, WindowKeeps DEF AddKey
      <4>2. CASE rate # 0  BY <3>3, <4>2, MoveKeeps DEF AddKey, Step
      <4> QED  BY <4>1, <4>2
    <3>4. CASE Increment(w)  BY <3>4, IncrementKeeps
    <3>5. CASE AddAgain(w)  BY <3>5, AddAgainKeeps
    <3>6. CASE Send(w)
      <4>1. PICK s \in {"sent", "refused"} : Goto(w, s)  BY <3>6 DEF Send
      <4> QED  BY <3>6, <4>1, MoveKeeps DEF Send, Step
    <3>7. CASE SaveDelivery(w)  BY <3>7, MoveKeeps DEF SaveDelivery, Step
    <3>8. CASE CountFailed(w)  BY <3>8, MoveKeeps DEF CountFailed, Step
    <3>9. CASE CountSent(w)  BY <3>9, MoveKeeps DEF CountSent, Step
    <3>10. CASE SaveStatus(w)  BY <3>10, MoveKeeps DEF SaveStatus, Step
    <3>11. CASE ResetFailed(w)
      <4>1. PICK s \in {"idle", "resetting"} : Goto(w, s)  BY <3>11 DEF ResetFailed
      <4> QED  BY <3>11, <4>1, MoveKeeps DEF ResetFailed, Step
    <3>12. CASE DispatchAgain(w)  BY <3>12, MoveKeeps DEF DispatchAgain, Step
    <3> QED  BY <2>1, <3>1, <3>2, <3>3, <3>4, <3>5, <3>6, <3>7, <3>8, <3>9,
                <3>10, <3>11, <3>12 DEF WorkerStep
  <2>2. ASSUME NEW w \in Worker, AdapterFails(w) PROVE RateInv'
    BY <2>2, MoveKeeps DEF AdapterFails, Step
  <2>3. ASSUME NEW w \in Worker, Crash(w) PROVE RateInv'
    BY <2>3, MoveKeeps DEF Crash, Step
  <2>4. CASE Expire
    BY <2>4 DEF Expire, RateInv
  <2>5. ASSUME UNCHANGED <<budget, pc>> PROVE RateInv'
    BY <2>5 DEF RateInv, Promised, Used
  <2>6. CASE EnqueueSend \/ SaveSending \/ Retry \/ DispatchPending \/ UNCHANGED vars
    BY <2>5, <2>6 DEF EnqueueSend, SaveSending, Retry, DispatchPending
  <2> QED  BY <2>1, <2>2, <2>3, <2>4, <2>6 DEF Next
<1> QED  BY <1>1, <1>2, PTL DEF Spec

(* However many workers meet the expiring counter, a window allows no more *)
(* than the limit and one message for each of the others.                  *)
THEOREM RateStaysKept == Spec => []RateIsKept
<1>1. RateInv => RateIsKept
  <2> SUFFICES ASSUME RateInv PROVE RateIsKept
    OBVIOUS
  <2>1. RATE_LIMIT \in Nat \ {0}  BY RecruitmentAssumption
  <2> QED  BY <2>1, PromisedCount DEF RateInv, RateIsKept, Used
<1> QED  BY <1>1, RateInvariance, PTL

=============================================================================
