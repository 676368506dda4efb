---------------------------- MODULE RecruitQuotas ----------------------------
(***************************************************************************)
(* The quotas of a recruitment plan: the list in RecruitTab.tsx, the       *)
(* dialog that edits one of them (QuotaDialog.tsx) and their reducers in   *)
(* recruitPlanLogic.ts.  The dialog keeps a working copy of its own.       *)
(*                                                                         *)
(* A text is blank or not, and "padded" when it is to be trimmed.  How     *)
(* the plan is saved, and loaded again, is the matter of StudyPage: here   *)
(* it is one step.                                                         *)
(***************************************************************************)
EXTENDS Integers, Sequences, SequencesExt

CONSTANTS
  Dimension,     \* of the presets
  MaxSegments,   \* bound on segments of a quota
  MaxQuotas,     \* bound on quotas
  None

VARIABLES
  stored,        \* recruitment_quotas of the study
  draftQuotas,
  dialogOpen, editingIndex, stagedQuota,
  working        \* the dialog's copy

planVars == <<stored, draftQuotas>>
dialogVars == <<dialogOpen, editingIndex, stagedQuota>>
vars == <<planVars, dialogVars, working>>

-----------------------------------------------------------------------------

Text == {"blank", "text", "padded"}

(* What parseInt makes of the field, with 0 for what is not a number. *)
Typed == {-1, 0, 2}

AtLeastOne(n) == IF n >= 1 THEN n ELSE 1

Segment(label, target) == [label |-> label, target |-> target]

Quota(d, segments) == [dimension |-> d, label |-> "text", segments |-> segments]

AnyDimension == CHOOSE d \in Dimension : TRUE

BlankQuota == Quota(AnyDimension, <<>>)

(* Each has two or three segments with texts and targets of its own. *)
PresetDimension(d) == Quota(d, [i \in 1 .. MaxSegments |-> Segment("text", 2)])

Init ==
  /\ stored = <<>>
  /\ draftQuotas = <<>>
  /\ dialogOpen = FALSE /\ editingIndex = None /\ stagedQuota = None
  /\ working = BlankQuota

-----------------------------------------------------------------------------
(* recruitPlanLogic *)

(* Editing stages a blank quota too, and the effect of the dialog copies   *)
(* what is staged.                                                         *)
openQuotaDialog(index) ==
  /\ dialogOpen' = TRUE /\ editingIndex' = index
  /\ stagedQuota' = BlankQuota
  /\ working' = BlankQuota
  /\ UNCHANGED planVars

closeQuotaDialog ==
  /\ dialogOpen' = FALSE /\ editingIndex' = None /\ stagedQuota' = None
  /\ UNCHANGED <<planVars, working>>

removeQuota(i) ==
  /\ draftQuotas' = RemoveAt(draftQuotas, i)
  /\ UNCHANGED <<stored, dialogVars, working>>

(* An index the list does not have appends.  The index stays. *)
upsertQuota(index, quota) ==
  /\ draftQuotas' = IF index \in DOMAIN draftQuotas
                      THEN [draftQuotas EXCEPT ![index] = quota]
                      ELSE Append(draftQuotas, quota)
  /\ dialogOpen' = FALSE
  /\ UNCHANGED <<stored, editingIndex, stagedQuota, working>>

SavePlan ==
  /\ draftQuotas # stored
  /\ stored' = draftQuotas
  /\ UNCHANGED <<draftQuotas, dialogVars, working>>

(* Also under an open dialog *)
hydrateFromStudy ==
  /\ draftQuotas' = stored
  /\ UNCHANGED <<stored, dialogVars, working>>

-----------------------------------------------------------------------------
(* QuotaDialog *)

SetWorking(quota) == working' = quota /\ UNCHANGED <<planVars, dialogVars>>

applyPreset(d) ==
  /\ working' = PresetDimension(d)
  /\ stagedQuota' = PresetDimension(d)
  /\ UNCHANGED <<planVars, dialogOpen, editingIndex>>

updateLabel == \E label \in {"blank", "text"} : SetWorking([working EXCEPT !.label = label])

updateSegmentLabel(i) ==
  \E label \in Text : SetWorking([working EXCEPT !.segments[i].label = label])

updateSegmentTarget(i) ==
  \E n \in Typed : SetWorking([working EXCEPT !.segments[i].target = AtLeastOne(n)])

addSegment ==
  /\ Len(working.segments) < MaxSegments
  /\ SetWorking([working EXCEPT !.segments = Append(@, Segment("blank", 1))])

removeSegment(i) == SetWorking([working EXCEPT !.segments = RemoveAt(@, i)])

(* Wrong variant: drops the empty segments and does not trim the others. *)
CleanedOnce(quota) ==
  [quota EXCEPT !.segments = SelectSeq(@, LAMBDA s : s.label # "blank")]

Cleaned(quota) ==
  LET kept == SelectSeq(quota.segments, LAMBDA s : s.label # "blank")
  IN  [quota EXCEPT !.segments =
         [i \in DOMAIN kept |-> Segment("text", AtLeastOne(kept[i].target))]]

save ==
  /\ Len(draftQuotas) < MaxQuotas \/ editingIndex \in DOMAIN draftQuotas
  /\ upsertQuota(editingIndex, Cleaned(working))

QuotaDialog ==
  /\ dialogOpen
  /\ \/ closeQuotaDialog \/ save \/ updateLabel \/ addSegment
     \/ \E d \in Dimension : applyPreset(d)
     \/ \E i \in DOMAIN working.segments :
          updateSegmentLabel(i) \/ updateSegmentTarget(i) \/ removeSegment(i)

QuotaRow(i) == openQuotaDialog(i) \/ removeQuota(i)

(* The dialog is modal. *)
QuotaList ==
  /\ ~dialogOpen
  /\ openQuotaDialog(None) \/ \E i \in DOMAIN draftQuotas : QuotaRow(i)

Next == QuotaDialog \/ QuotaList \/ SavePlan \/ hydrateFromStudy

Spec == Init /\ [][Next]_vars

-----------------------------------------------------------------------------

(* Whatever is typed, applied, removed, cancelled or loaded meanwhile, the *)
(* segments of the quotas in the plan, saved or not, have a positive       *)
(* target and a trimmed name.  Save sees to that; it looks neither at the  *)
(* name of the dimension nor at whether a segment is left.                 *)
SegmentsAreWhole ==
  \A plan \in {stored, draftQuotas} : \A i \in DOMAIN plan :
    \A j \in DOMAIN plan[i].segments :
      plan[i].segments[j].target >= 1 /\ plan[i].segments[j].label = "text"

(* The rule of the dialog: "both dimension label and every segment label   *)
(* must be non-empty" (QuotaDialog.tsx:24-25), and a quota without a       *)
(* segment is none.  Saving a dialog whose label was cleared, or to which  *)
(* nothing was added, refutes it.                                          *)
QuotasAreValid ==
  \A plan \in {stored, draftQuotas} : \A i \in DOMAIN plan :
    plan[i].label # "blank" /\ plan[i].segments # <<>>

=============================================================================
