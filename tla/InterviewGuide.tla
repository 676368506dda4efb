--------------------------- MODULE InterviewGuide ---------------------------
(***************************************************************************)
(* The interview guide as the moderator walks it:                          *)
(* merism/conductor/guide_cursor.py over the JSON of InterviewGuide.       *)
(*                                                                         *)
(* The sections are kept flattened in reading order.  Section boundaries   *)
(* reach the control flow at one place only: the opening question is       *)
(* looked for in the first section, and a first section without questions  *)
(* gives none.  A question id may appear more than once (nothing in the    *)
(* code forbids it): every lookup stops at the first occurrence.           *)
(***************************************************************************)
EXTENDS Naturals, Sequences

CONSTANTS
  Question,           \* ids a decision may name, in the guide or not
  NoQuestion,         \* "" and None: the id that names nothing
  Guide,              \* the questions of all sections in reading order
  FirstSectionEmpty,  \* TRUE when sections[0] has no questions
  Policy,             \* probe_policy of a question
  MaxProbes,          \* max_probes of a question (or its legacy followup_depth)
  Dynamic,            \* dynamic_probe settings of a question
  Trigger,            \* dynamic_trigger values
  NoTrigger

ProbePolicy == {"none", "light", "deep"}

ProbeKind == {"preset", "dynamic", "unset"}

DynamicProbe == [enabled: BOOLEAN, max_extra_rounds: Nat, triggers: SUBSET Trigger]

ASSUME GuideAssumption ==
  /\ NoQuestion \notin Question
  /\ Guide \in Seq(Question)
  /\ FirstSectionEmpty \in BOOLEAN
  /\ Policy \in [Question -> ProbePolicy]
  /\ MaxProbes \in [Question -> Nat]
  /\ Dynamic \in [Question -> DynamicProbe]
  /\ NoTrigger \notin Trigger

-----------------------------------------------------------------------------

(* find_question(...) is not None *)
InGuide(q) == \E i \in DOMAIN Guide : Guide[i] = q

FirstQuestion ==
  IF FirstSectionEmpty \/ Guide = <<>> THEN NoQuestion ELSE Guide[1]

(* The positions right after the first occurrence of q: one or none. *)
After(q) ==
  {i \in DOMAIN Guide :
     /\ i > 1
     /\ Guide[i - 1] = q
     /\ \A j \in 1 .. (i - 2) : Guide[j] # q}

(* next_question: the successor in reading order, across sections; nothing *)
(* at the end of the guide and for an id the guide does not have.          *)
NextQuestion(q) ==
  IF q = NoQuestion
    THEN FirstQuestion
    ELSE IF After(q) = {}
           THEN NoQuestion
           ELSE Guide[CHOOSE i \in After(q) : TRUE]

=============================================================================
