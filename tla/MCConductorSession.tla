------------------------- MODULE MCConductorSession -------------------------
(***************************************************************************)
(* Instances of ConductorSession for TLC.  The guide has a question that   *)
(* wants a probe ("deep") and a last one with both kinds of probes; "qx"   *)
(* is an id the guide does not have.                                       *)
(***************************************************************************)
EXTENDS ConductorSession

MCQuestion == {"q1", "q2", "qx"}

MCGuide == <<"q1", "q2">>

MCPolicy == [q1 |-> "deep", q2 |-> "light", qx |-> "none"]

MCMaxProbes == [q1 |-> 1, q2 |-> 1, qx |-> 0]

NoDynamic == [enabled |-> FALSE, max_extra_rounds |-> 0, triggers |-> {}]

MCDynamic ==
  [q1 |-> NoDynamic,
   q2 |-> [enabled |-> TRUE, max_extra_rounds |-> 1, triggers |-> {"new_theme"}],
   qx |-> NoDynamic]

MCTrigger == {"new_theme", "contradiction"}

PresetProbe == [PresetFollowup EXCEPT !.kind = "unset"]

DynamicProbeOn(g) ==
  [action |-> "followup", next |-> NoQuestion, kind |-> "dynamic", trigger |-> g]

Clarify == [MoveOn(NoQuestion) EXCEPT !.action = "clarify"]

Close == [MoveOn(NoQuestion) EXCEPT !.action = "close"]

(* Everything that takes a different path through validator and state. *)
AllDecisions ==
  {PresetProbe, DynamicProbeOn("new_theme"), DynamicProbeOn(NoTrigger),
   MoveOn("q1"), MoveOn("q2"), MoveOn("qx"), MoveOn(NoQuestion),
   Clarify, Close, NoDecision}

ProbingDecisions == {PresetProbe, DynamicProbeOn("new_theme"), MoveOn("q2")}

FewDecisions == {Close, PresetProbe}

TurnSymmetry == Permutations(Turn)

(* Messages that say goodbye are not like the others. *)
MessageSymmetry == Permutations(Turn \ Leaving)

=============================================================================
