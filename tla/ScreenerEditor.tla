--------------------------- MODULE ScreenerEditor ---------------------------
(***************************************************************************)
(* The screener tab of a study: screenerLogic.ts and ScreenerTab.tsx.      *)
(* Questions are edited in the browser only (saveScreener has no caller);  *)
(* the stored screener, when there is one, replaces them once it has come. *)
(*                                                                         *)
(* Left out: texts, labels, the required flag.  An option is its position; *)
(* identifiers are drawn at random in the code, here the next one nothing  *)
(* uses.                                                                   *)
(***************************************************************************)
EXTENDS Naturals, FiniteSets, Sequences, SequencesExt, FiniteSetsExt

CONSTANTS
  MaxScreener,  \* bound on questions
  MaxOptions,   \* bound on options of a question
  MaxLoads      \* bound on loads of the screener under way

VARIABLES
  questions,
  stored,   \* the questions on the server, or no screener
  loads     \* loads under way: the list of screeners, then the screener

vars == <<questions, stored, loads>>

-----------------------------------------------------------------------------

Choice == {"single_choice", "multi_choice"}

(* Positions of options start at 0. *)
Question(id, type, options, pass) ==
  [id |-> id, type |-> type, options |-> options, pass |-> pass]

DefaultQuestions ==
  << Question(1, "single_choice", 4, {0, 1, 2}), Question(2, "single_choice", 2, {0}) >>

NoScreener == <<>>

NewId == Min((1 .. MaxScreener + 1) \ {questions[i].id : i \in DOMAIN questions})

Init ==
  /\ questions = DefaultQuestions
  /\ stored \in {NoScreener, << Question(1, "multi_choice", 3, {2}) >>}
  /\ loads = << "list" >>

-----------------------------------------------------------------------------
(* Loading: loadScreener asks for the study's screeners and is given those *)
(* of the team, of whatever study (TeamScopedModelViewSet); its success    *)
(* fetches the first one.  Edits made meanwhile are replaced.              *)

ScreenerListed(i) ==
  /\ loads[i] = "list"
  /\ \E failed \in BOOLEAN :
       loads' = IF failed \/ stored = NoScreener THEN RemoveAt(loads, i)
                ELSE [loads EXCEPT ![i] = "full"]
  /\ UNCHANGED <<questions, stored>>

LoadQuestions(i) ==
  /\ loads[i] = "full"
  /\ loads' = RemoveAt(loads, i)
  /\ \E failed \in BOOLEAN : questions' = IF failed THEN questions ELSE stored
  /\ UNCHANGED stored

-----------------------------------------------------------------------------
(* Edits *)

Edits(new) == questions' = new /\ UNCHANGED <<stored, loads>>

AddQuestion ==
  /\ Len(questions) < MaxScreener
  /\ Edits(Append(questions, Question(NewId, "single_choice", 2, {})))

RemoveQuestion(i) == Edits(RemoveAt(questions, i))

MoveQuestion(i, j) == i # j /\ Edits(InsertAt(RemoveAt(questions, i), j, questions[i]))

(* The options go with a change to free text; a question that has none     *)
(* gets two with the change back.                                          *)
Retyped(question, type) ==
  [question EXCEPT !.type = type, !.pass = {},
                   !.options = IF type = "free_text" THEN 0 ELSE IF @ > 0 THEN @ ELSE 2]

SetType(i, type) == Edits([questions EXCEPT ![i] = Retyped(@, type)])

(* Wrong variant: the pass marks stay. *)
SetOptionsOnly(i, n) == Edits([questions EXCEPT ![i].options = n])

(* setOptions: pass marks out of range are dropped. *)
Resized(question, n) == [question EXCEPT !.options = n, !.pass = {k \in @ : k < n}]

SetOptions(i, n) == Edits([questions EXCEPT ![i] = Resized(@, n)])

(* The editor of the options is shown for choices. *)
AddOption(i) ==
  questions[i].type \in Choice /\ questions[i].options < MaxOptions
    /\ SetOptions(i, questions[i].options + 1)

RemoveOption(i) ==
  questions[i].type \in Choice /\ questions[i].options > 0
    /\ SetOptions(i, questions[i].options - 1)

TogglePassOption(i, k) ==
  /\ questions[i].type \in Choice /\ k < questions[i].options
  /\ Edits([questions EXCEPT ![i].pass = (@ \ {k}) \cup ({k} \ @)])

(* Leaving the tab and coming back: the logic starts anew. *)
Reopen ==
  /\ Len(loads) < MaxLoads
  /\ questions' = DefaultQuestions
  /\ loads' = Append(loads, "list")
  /\ UNCHANGED stored

-----------------------------------------------------------------------------

(* The components and the clicks they offer *)

OptionsList(i) ==
  \/ AddOption(i) \/ RemoveOption(i)
  \/ \E k \in 0 .. MaxOptions - 1 : TogglePassOption(i, k)

ScreenerCard(i) ==
  \/ RemoveQuestion(i) \/ OptionsList(i)
  \/ \E type \in Choice \cup {"free_text"} : SetType(i, type)

(* The summary counts the questions with pass logic, and warns of the      *)
(* others.                                                                 *)
HasPassLogic(question) == question.type = "free_text" \/ question.pass # {}
ScreenerSummary == Quantify(DOMAIN questions, LAMBDA i : HasPassLogic(questions[i]))

ScreenerTab ==
  \/ AddQuestion
  \/ \E i \in DOMAIN questions :
       ScreenerCard(i) \/ \E j \in DOMAIN questions : MoveQuestion(i, j)

Next ==
  \/ ScreenerTab \/ Reopen
  \/ \E i \in DOMAIN loads : ScreenerListed(i) \/ LoadQuestions(i)

Spec == Init /\ [][Next]_vars

-----------------------------------------------------------------------------

(* A question passes people on options it has, and free text passes nobody *)
(* on an option: what the server grades by (pass_option_indices) refers to *)
(* the options through every change of type and of options, also when the  *)
(* stored screener comes in between.  So the summary warns of every        *)
(* question that nobody passes.                                            *)
PassMarksAreOptions ==
  LET Passable(question) ==
        \/ question.type = "free_text"
        \/ \E k \in 0 .. question.options - 1 : k \in question.pass
  IN  /\ \A i \in DOMAIN questions :
           /\ \A k \in questions[i].pass : k < questions[i].options
           /\ questions[i].type = "free_text" => questions[i].options = 0
      /\ ScreenerSummary = Cardinality({i \in DOMAIN questions : Passable(questions[i])})

=============================================================================
