--------------------------- MODULE ConceptBlocks ---------------------------
(***************************************************************************)
(* The stimuli tab of a study: conceptBlocksLogic.ts and StimuliTab.tsx.   *)
(* Every change is a request; when it has succeeded the blocks are loaded  *)
(* again, when it has failed an error is shown.  A reorder is one request  *)
(* per concept whose rank changes, all at a time.                          *)
(*                                                                         *)
(* The server (views.py) refuses a rank that another concept of the block  *)
(* has (models/concept.py, unique_together), and lists the blocks of the   *)
(* whole team, whatever study is asked for (api/base.py, get_queryset).    *)
(*                                                                         *)
(* Left out: labels, notes, rotation's values, the list of stimuli.        *)
(***************************************************************************)
EXTENDS Naturals, FiniteSetsExt

CONSTANTS
  Block,        \* blocks that may exist
  Concept,      \* concepts that may exist
  MaxRequests,  \* bound on requests in flight
  Patient       \* the researcher waits for the answers before the next click

VARIABLES
  stored,    \* on the server: the blocks, and the rank of each concept in its block
  shown,     \* blocks of conceptBlocksLogic
  requests,
  stale      \* a request has failed, or nothing was loaded, since blocks was set

vars == <<stored, shown, requests, stale>>

-----------------------------------------------------------------------------

Rank == 0 .. Cardinality(Concept)

NoBlocks == [blocks |-> {}, concepts |-> {}]

(* concepts is a set of [block, id, rank] *)
In(b, study) == {c \in study.concepts : c.block = b}

(* The logic has no afterMount: nothing is loaded when the tab opens. *)
Init ==
  /\ stored = NoBlocks
  /\ shown = NoBlocks
  /\ requests = {}
  /\ stale = TRUE

NewRequest(rs) == Min((1 .. MaxRequests) \ {r.id : r \in rs})

(* steps are the changes the server is asked for. *)
Ask(steps) ==
  /\ Patient => requests = {}
  /\ Cardinality(requests) < MaxRequests
  /\ requests' = requests \cup
       {[id |-> NewRequest(requests), steps |-> steps, failed |-> FALSE, result |-> NoBlocks]}
  /\ UNCHANGED <<stored, shown, stale>>

-----------------------------------------------------------------------------
(* The researcher.  Only what is shown can be clicked. *)

CreateBlock ==
  \E b \in Block \ stored.blocks : Ask({[kind |-> "create", block |-> b]})

DeleteBlock(b) == b \in shown.blocks /\ Ask({[kind |-> "delete", block |-> b]})

SetRotation(b) == b \in shown.blocks /\ Ask({[kind |-> "rotate", block |-> b]})

(* The rank of a new concept is the number of those shown. *)
AddConcept(b) ==
  /\ b \in shown.blocks
  /\ Ask({[kind |-> "add", block |-> b, rank |-> Cardinality(In(b, shown))]})

RemoveConcept(c) ==
  c \in shown.concepts /\ Ask({[kind |-> "remove", id |-> c.id]})

(* Position of a concept in the list of its block, which is by rank *)
Position(c) == Cardinality({d \in In(c.block, shown) : d.rank < c.rank})

(* Position of d once the concept at from has been dropped at to *)
Moved(d, from, to) ==
  LET k == Position(d)
  IN  IF k = from THEN to
      ELSE IF from < k /\ k <= to THEN k - 1
      ELSE IF to <= k /\ k < from THEN k + 1 ELSE k

ReorderConcept(b, from, to) ==
  LET all == In(b, shown)
  IN  /\ from # to /\ {from, to} \subseteq 0 .. Cardinality(all) - 1
      /\ Ask({[kind |-> "rank", id |-> d.id, rank |-> Moved(d, from, to)] :
                d \in {e \in all : Moved(e, from, to) # e.rank}})

(* Leaving the tab and coming back: the logic starts anew. *)
Reopen ==
  /\ shown' = NoBlocks
  /\ stale' = TRUE
  /\ UNCHANGED <<stored, requests>>

-----------------------------------------------------------------------------
(* The server serves the steps of a request in any order. *)

Known(x) == \E c \in stored.concepts : c.id = x.id

Taken(b, rank) == \E c \in In(b, stored) : c.rank = rank

(* The concept that has the identifier of a step *)
TheConcept(x) == CHOOSE c \in stored.concepts : c.id = x.id

Accepted(x) ==
  \/ x.kind = "create"
  \/ x.kind \in {"delete", "rotate"} /\ x.block \in stored.blocks
  \/ x.kind = "add" /\ x.block \in stored.blocks /\ ~Taken(x.block, x.rank)
  \/ x.kind = "remove" /\ Known(x)
  \/ x.kind = "rank" /\ Known(x) /\ ~Taken(TheConcept(x).block, x.rank)

Applied(x) ==
  CASE x.kind = "create" -> {[stored EXCEPT !.blocks = @ \cup {x.block}]}
    [] x.kind = "delete" -> {[blocks |-> stored.blocks \ {x.block},
                              concepts |-> stored.concepts \ In(x.block, stored)]}
    [] x.kind = "rotate" -> {stored}
    [] x.kind = "add" ->
         {[stored EXCEPT !.concepts = @ \cup {[block |-> x.block, id |-> i, rank |-> x.rank]}] :
            i \in Concept \ {c.id : c \in stored.concepts}}
    [] x.kind = "remove" -> {[stored EXCEPT !.concepts = @ \ {TheConcept(x)}]}
    [] x.kind = "rank" ->
         {[stored EXCEPT !.concepts = (@ \ {TheConcept(x)})
                                        \cup {[TheConcept(x) EXCEPT !.rank = x.rank]}]}

ServeStep(r, x) ==
  /\ x \in r.steps /\ x.kind \notin {"load", "loaded"}
  /\ \E ok \in {Accepted(x), FALSE} :
       /\ requests' = (requests \ {r}) \cup
                        {[r EXCEPT !.steps = @ \ {x}, !.failed = @ \/ ~ok]}
       /\ IF ok THEN stored' \in Applied(x) ELSE UNCHANGED stored
  /\ UNCHANGED <<shown, stale>>

ServeLoad(r) ==
  /\ r.steps = {[kind |-> "load"]}
  /\ requests' = (requests \ {r}) \cup
                   {[r EXCEPT !.steps = {[kind |-> "loaded"]}, !.result = stored]}
  /\ UNCHANGED <<stored, shown, stale>>

(* A change that succeeded loads the blocks. *)
ChangeAnswered(r) ==
  /\ r.steps = {} /\ ~r.failed
  /\ requests' = (requests \ {r}) \cup {[r EXCEPT !.steps = {[kind |-> "load"]}]}
  /\ UNCHANGED <<stored, shown, stale>>

ChangeFailed(r) ==
  /\ r.steps = {} /\ r.failed
  /\ requests' = requests \ {r}
  /\ stale' = TRUE
  /\ UNCHANGED <<stored, shown>>

(* Wrong variant: what is loaded is added to what is shown. *)
LoadMerged(r) ==
  /\ r.steps = {[kind |-> "loaded"]}
  /\ requests' = requests \ {r}
  /\ stale' = FALSE
  /\ shown' = [blocks |-> shown.blocks \cup r.result.blocks,
               concepts |-> shown.concepts \cup r.result.concepts]
  /\ UNCHANGED stored

LoadAnswered(r) ==
  /\ r.steps = {[kind |-> "loaded"]}
  /\ requests' = requests \ {r}
  /\ \E failed \in BOOLEAN :
       /\ stale' = failed
       /\ shown' = IF failed THEN shown ELSE r.result
  /\ UNCHANGED stored

-----------------------------------------------------------------------------

(* The components and the clicks they offer *)

AddConceptForm(b) == AddConcept(b)

ConceptRowCard(c) == RemoveConcept(c)

BlockCard(b) ==
  \/ DeleteBlock(b) \/ SetRotation(b) \/ AddConceptForm(b)
  \/ \E from, to \in Rank : ReorderConcept(b, from, to)
  \/ \E c \in In(b, shown) : ConceptRowCard(c)

StimuliTab == CreateBlock \/ \E b \in Block : BlockCard(b)

Researcher == StimuliTab \/ Reopen

Network(r) ==
  \/ \E x \in r.steps : ServeStep(r, x)
  \/ ServeLoad(r) \/ ChangeAnswered(r) \/ ChangeFailed(r) \/ LoadAnswered(r)

Next == Researcher \/ \E r \in requests : Network(r)

Spec == Init /\ [][Next]_vars

-----------------------------------------------------------------------------

(* The list is the server's: once nothing is in flight, and unless         *)
(* something failed since it was loaded, the tab shows the blocks that are *)
(* stored, with the ranks they have there ("list + CRUD for the current    *)
(* study's ConceptBlocks").                                                *)
ShownIsStored == requests = {} /\ ~stale => shown = stored

=============================================================================
