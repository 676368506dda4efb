----------------------------- MODULE Recruitment -----------------------------
(***************************************************************************)
(* One recruitment broadcast and the Celery tasks that send it             *)
(* (recruitment/tasks.py), with the sending budget of its channel          *)
(* (recruitment/rate_limit.py) and the researcher's send and retry         *)
(* (api/views.py).  Two dispatches of a broadcast run side by side as a    *)
(* matter of course: the beat task enqueues one more every minute, however *)
(* many are queued or under way.                                           *)
(*                                                                         *)
(* Message texts, the recipients' invitations and the broadcast's counters *)
(* (written with its status, read by nobody here) are left out.            *)
(***************************************************************************)
EXTENDS Integers, FiniteSets

CONSTANTS
  Deliveries,     \* how many recipients the broadcast has
  Worker,         \* processes of the Celery worker
  RATE_LIMIT,     \* messages in an hour
  MaxDispatches,  \* bound: dispatches in the queue
  MaxRetries,     \* bound: retries the researcher asks for
  MaxCrashes      \* bound: workers that die between two steps

ASSUME RecruitmentAssumption ==
  /\ IsFiniteSet(Worker) /\ Worker # {}
  /\ RATE_LIMIT \in Nat \ {0}

VARIABLES
  broadcast,   \* its status
  delivery,    \* status of each delivery
  dispatches,  \* dispatch_recruitment_delivery, this often in the queue
  resets,      \* retry_failed_deliveries, this often in the queue
  sending,     \* a send request has enqueued and has not saved yet
  rate,        \* the channel's counter in the cache, 0 when there is no key
  allowed,     \* messages the counter has allowed since the key expired
  pc,          \* the step each worker is at
  todo,        \* deliveries it has read and not come to
  failures,    \* failed deliveries it has counted
  outcome,     \* status of the broadcast it has decided on
  retries, crashes

row == <<broadcast, delivery>>
queue == <<dispatches, resets>>
budget == <<rate, allowed>>
memory == <<todo, failures, outcome>>
bounds == <<retries, crashes>>
vars == <<row, queue, sending, budget, pc, memory, bounds>>

-----------------------------------------------------------------------------

(* "received"  the broadcast is read and not in the end                    *)
(* "next"      between two deliveries                                      *)
(* "full"      cache.add has found a counter                               *)
(* "expired"   cache.incr has found none                                   *)
(* "allowed"   the message may go out                                      *)
(* "sent", "refused"  what the channel has said, not saved yet             *)
(* "counting"  failed deliveries are counted, sent ones are not            *)
(* "saving"    the outcome is decided on, not saved                        *)
(* "resetting" failed deliveries are pending again, nothing enqueued       *)
Step == {"idle", "received", "next", "full", "expired", "allowed", "sent",
         "refused", "counting", "saving", "resetting"}

Delivery == 1 .. Deliveries

First(s) == CHOOSE d \in s : \A e \in s : d <= e

Having(status) == {d \in Delivery : delivery[d] = status}

(* The request that creates the broadcast may die before it enqueues. *)
Init ==
  /\ broadcast = "approved"
  /\ delivery = [d \in Delivery |-> "pending"]
  /\ dispatches \in {0, 1} /\ resets = 0
  /\ sending = FALSE
  /\ rate = 0 /\ allowed = 0
  /\ pc = [w \in Worker |-> "idle"]
  /\ todo = [w \in Worker |-> {}]
  /\ failures = [w \in Worker |-> 0]
  /\ outcome = [w \in Worker |-> "sending"]
  /\ retries = 0 /\ crashes = 0

Goto(w, step) == pc' = [pc EXCEPT ![w] = step]

Forget(w) ==
  /\ todo' = [todo EXCEPT ![w] = {}]
  /\ failures' = [failures EXCEPT ![w] = 0]
  /\ outcome' = [outcome EXCEPT ![w] = "sending"]

-----------------------------------------------------------------------------
(* dispatch_recruitment_delivery *)

Receive(w) ==
  /\ pc[w] = "idle" /\ dispatches > 0
  /\ dispatches' = dispatches - 1
  /\ Goto(w, IF broadcast \in {"completed", "failed"} THEN "idle" ELSE "received")
  /\ UNCHANGED <<row, resets, sending, budget, memory, bounds>>

(* The task asks to be run again, which then finds a failed broadcast. *)
AdapterFails(w) ==
  /\ pc[w] = "received" /\ dispatches < MaxDispatches
  /\ broadcast' = "failed"
  /\ dispatches' = dispatches + 1
  /\ Goto(w, "idle")
  /\ UNCHANGED <<delivery, resets, sending, budget, memory, bounds>>

ReadPending(w) ==
  /\ pc[w] = "received"
  /\ todo' = [todo EXCEPT ![w] = Having("pending")]
  /\ Goto(w, "next")
  /\ UNCHANGED <<row, queue, sending, budget, failures, outcome, bounds>>

Drop(w) == todo' = [todo EXCEPT ![w] = @ \ {First(@)}]

(* check_and_increment_rate: cache.add, then cache.incr when there is a    *)
(* key, then cache.add again when it has gone.  Counts above the limit are *)
(* not told apart.                                                         *)
NewWindow == rate' = 1 /\ allowed' = 1

AddKey(w) ==
  /\ pc[w] = "next" /\ todo[w] # {}
  /\ IF rate = 0
     THEN NewWindow /\ Goto(w, "allowed")
     ELSE UNCHANGED budget /\ Goto(w, "full")
  /\ UNCHANGED <<row, queue, sending, memory, bounds>>

(* Wrong variant: the limit is compared with the count before. *)
IncrementPast(w) ==
  /\ pc[w] = "full"
  /\ \/ rate = 0 /\ Goto(w, "expired") /\ UNCHANGED <<budget, todo>>
     \/ /\ rate \in 1 .. RATE_LIMIT
        /\ rate' = rate + 1 /\ allowed' = allowed + 1
        /\ Goto(w, "allowed") /\ UNCHANGED todo
     \/ /\ rate > RATE_LIMIT
        /\ UNCHANGED budget /\ Drop(w) /\ Goto(w, "next")
  /\ UNCHANGED <<row, queue, sending, failures, outcome, bounds>>

Increment(w) ==
  /\ pc[w] = "full"
  /\ \/ rate = 0 /\ Goto(w, "expired") /\ UNCHANGED <<budget, todo>>
     \/ /\ rate \in 1 .. RATE_LIMIT - 1
        /\ rate' = rate + 1 /\ allowed' = allowed + 1
        /\ Goto(w, "allowed") /\ UNCHANGED todo
     \/ /\ rate >= RATE_LIMIT
        /\ rate' = RATE_LIMIT + 1 /\ UNCHANGED allowed
        /\ Drop(w) /\ Goto(w, "next")
  /\ UNCHANGED <<row, queue, sending, failures, outcome, bounds>>

AddAgain(w) ==
  /\ pc[w] = "expired"
  /\ IF rate = 0 THEN NewWindow ELSE allowed' = allowed + 1 /\ UNCHANGED rate
  /\ Goto(w, "allowed")
  /\ UNCHANGED <<row, queue, sending, memory, bounds>>

(* The adapter answers, or raises. *)
Send(w) ==
  /\ pc[w] = "allowed"
  /\ \E answer \in {"sent", "refused"} : Goto(w, answer)
  /\ UNCHANGED <<row, queue, sending, budget, memory, bounds>>

SaveDelivery(w) ==
  /\ pc[w] \in {"sent", "refused"}
  /\ delivery' = [delivery EXCEPT ![First(todo[w])] =
                    IF pc[w] = "sent" THEN "sent" ELSE "failed"]
  /\ Drop(w) /\ Goto(w, "next")
  /\ UNCHANGED <<broadcast, queue, sending, budget, failures, outcome, bounds>>

(* _finalize_broadcast_status: two counts, and a write. *)
CountFailed(w) ==
  /\ pc[w] = "next" /\ todo[w] = {}
  /\ failures' = [failures EXCEPT ![w] = Cardinality(Having("failed"))]
  /\ Goto(w, "counting")
  /\ UNCHANGED <<row, queue, sending, budget, todo, outcome, bounds>>

Outcome(failed, sent) ==
  IF sent + failed < Deliveries THEN "sending"
  ELSE IF failed = 0 THEN "completed"
  ELSE IF sent = 0 THEN "failed"
  ELSE "partially_failed"

CountSent(w) ==
  /\ pc[w] = "counting"
  /\ outcome' = [outcome EXCEPT ![w] = Outcome(failures[w], Cardinality(Having("sent")))]
  /\ Goto(w, "saving")
  /\ UNCHANGED <<row, queue, sending, budget, todo, failures, bounds>>

SaveStatus(w) ==
  /\ pc[w] = "saving"
  /\ broadcast' = outcome[w]
  /\ Goto(w, "idle") /\ Forget(w)
  /\ UNCHANGED <<delivery, queue, sending, budget, bounds>>

-----------------------------------------------------------------------------
(* retry_failed_deliveries *)

ResetFailed(w) ==
  /\ pc[w] = "idle" /\ resets > 0
  /\ resets' = resets - 1
  /\ delivery' = [d \in Delivery |-> IF delivery[d] = "failed" THEN "pending" ELSE delivery[d]]
  /\ Goto(w, IF Having("failed") # {} THEN "resetting" ELSE "idle")
  /\ UNCHANGED <<broadcast, dispatches, sending, budget, memory, bounds>>

DispatchAgain(w) ==
  /\ pc[w] = "resetting" /\ dispatches < MaxDispatches
  /\ dispatches' = dispatches + 1
  /\ Goto(w, "idle")
  /\ UNCHANGED <<row, resets, sending, budget, memory, bounds>>

-----------------------------------------------------------------------------
(* The researcher, the beat task, time and death *)

(* RecruitmentBroadcastViewSet.send enqueues first and saves its old copy  *)
(* afterwards.                                                             *)
EnqueueSend ==
  /\ broadcast = "approved" /\ ~sending /\ dispatches < MaxDispatches
  /\ dispatches' = dispatches + 1 /\ sending' = TRUE
  /\ UNCHANGED <<row, resets, budget, pc, memory, bounds>>

SaveSending ==
  /\ sending
  /\ broadcast' = "sending" /\ sending' = FALSE
  /\ UNCHANGED <<delivery, queue, budget, pc, memory, bounds>>

(* RecruitmentBroadcastViewSet.retry *)
Retry ==
  /\ retries < MaxRetries
  /\ retries' = retries + 1 /\ resets' = resets + 1
  /\ UNCHANGED <<row, dispatches, sending, budget, pc, memory, crashes>>

(* Wrong variant: what is under way is left alone. *)
DispatchApproved ==
  /\ broadcast = "approved" /\ dispatches < MaxDispatches
  /\ dispatches' = dispatches + 1
  /\ UNCHANGED <<row, resets, sending, budget, pc, memory, bounds>>

(* dispatch_pending_broadcasts, every minute *)
DispatchPending ==
  /\ broadcast \in {"approved", "sending"} /\ dispatches < MaxDispatches
  /\ dispatches' = dispatches + 1
  /\ UNCHANGED <<row, resets, sending, budget, pc, memory, bounds>>

(* An hour after its first message the key is gone. *)
Expire ==
  /\ rate > 0
  /\ rate' = 0 /\ allowed' = 0
  /\ UNCHANGED <<row, queue, sending, pc, memory, bounds>>

(* A task is acknowledged when it is received: it dies with its worker. *)
Crash(w) ==
  /\ pc[w] # "idle" /\ crashes < MaxCrashes
  /\ crashes' = crashes + 1
  /\ Goto(w, "idle") /\ Forget(w)
  /\ UNCHANGED <<row, queue, sending, budget, retries>>

-----------------------------------------------------------------------------

WorkerStep(w) ==
  \/ Receive(w) \/ ReadPending(w)
  \/ AddKey(w) \/ Increment(w) \/ AddAgain(w) \/ Send(w) \/ SaveDelivery(w)
  \/ CountFailed(w) \/ CountSent(w) \/ SaveStatus(w)
  \/ ResetFailed(w) \/ DispatchAgain(w)

Next ==
  \/ \E w \in Worker : WorkerStep(w) \/ AdapterFails(w) \/ Crash(w)
  \/ EnqueueSend \/ SaveSending \/ Retry \/ DispatchPending \/ Expire

Spec == Init /\ [][Next]_vars

(* Workers go on (adapters have timeouts), a request that was begun is     *)
(* carried through, Celery beat ticks and hours pass.                      *)
Fairness ==
  /\ \A w \in Worker : WF_vars(WorkerStep(w))
  /\ WF_vars(SaveSending)
  /\ WF_vars(DispatchPending)
  /\ WF_vars(Expire)

FairSpec == Spec /\ Fairness

-----------------------------------------------------------------------------

(* Between two expirations of the counter a channel sends no more than its *)
(* limit, and the one message each other worker may have been promised     *)
(* when it met the counter just expiring (rate_limit.py:45-51).            *)
RateIsKept == allowed <= RATE_LIMIT + Cardinality(Worker) - 1

(* A broadcast comes to an end and stays there, whichever dispatches       *)
(* overlap, die, run into the limit, or are overwritten by the request     *)
(* that enqueued them (tasks.py:275-298, views.py:491-493).                *)
BroadcastEnds == <>[](broadcast \in {"completed", "partially_failed", "failed"})

(* Wanted, and not so: what waits for the next hour is sent then           *)
(* (tasks.py:41-43).  When one dispatch counts a failure, which another    *)
(* then sends after all, and counts it as sent too, the broadcast ends     *)
(* with a delivery pending.                                                *)
RestIsSent == <>(Having("pending") = {} \/ broadcast = "failed")

=============================================================================
