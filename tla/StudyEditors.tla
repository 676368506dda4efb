---------------------------- MODULE StudyEditors ----------------------------
(***************************************************************************)
(* The three tabs of a study that edit what is asked in an interview: the  *)
(* outline, the screener and the stimuli.  StudyPage mounts one of them at *)
(* a time, and they share nothing but the study: the one that is open      *)
(* takes all the steps.                                                    *)
(***************************************************************************)
EXTENDS Naturals

CONSTANTS
  MaxSections, MaxQuestions, MaxEdits,     \* OutlineEditor
  MaxOptions,                              \* OutlineEditor, ScreenerEditor
  MaxScreener, MaxLoads,                   \* ScreenerEditor
  Block, Concept, MaxRequests, Patient     \* ConceptBlocks

VARIABLES
  tab,
  sections, selectedSection, selectedQuestion, draftRevision, savedRevision, loading, saving,
  guideError, timer, loads, saves,
  questions, screener, screenerLoads,
  stored, shown, requests, stale

Outline == INSTANCE OutlineEditor

Screener == INSTANCE ScreenerEditor WITH stored <- screener, loads <- screenerLoads

Stimuli == INSTANCE ConceptBlocks

outlineVars == <<sections, selectedSection, selectedQuestion, draftRevision, savedRevision,
                 loading, saving, guideError, timer, loads, saves>>
screenerVars == <<questions, screener, screenerLoads>>
stimuliVars == <<stored, shown, requests, stale>>
vars == <<tab, outlineVars, screenerVars, stimuliVars>>

-----------------------------------------------------------------------------

Init ==
  /\ tab \in {"outline", "screener", "stimuli"}
  /\ Outline!Init /\ Screener!Init /\ Stimuli!Init

InOutline ==
  /\ tab = "outline" /\ Outline!Next
  /\ UNCHANGED <<tab, screenerVars, stimuliVars>>

InScreener ==
  /\ tab = "screener" /\ Screener!Next
  /\ UNCHANGED <<tab, outlineVars, stimuliVars>>

InStimuli ==
  /\ tab = "stimuli" /\ Stimuli!Next
  /\ UNCHANGED <<tab, outlineVars, screenerVars>>

Next == InOutline \/ InScreener \/ InStimuli

Spec == Init /\ [][Next]_vars

-----------------------------------------------------------------------------

(* The outline's identifiers are unique, its selection agrees, and only    *)
(* choices have options (OutlineEditor).                                   *)
OutlineIsSound == Outline!OutlineIsSound

(* Pass marks of the screener refer to options (ScreenerEditor). *)
PassMarksAreOptions == Screener!PassMarksAreOptions

(* The stimuli tab shows what is stored (ConceptBlocks). *)
ShownIsStored == Stimuli!ShownIsStored

=============================================================================
