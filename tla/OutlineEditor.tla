--------------------------- MODULE OutlineEditor ---------------------------
(***************************************************************************)
(* The outline tab of a study: outlineEditorLogic.ts and OutlineTab.tsx.   *)
(* Sections and questions are edited in the browser; edits are to be saved *)
(* by a timer, and the stored guide is to be loaded when the tab opens.    *)
(*                                                                         *)
(* Kea runs the reducers of an action before its listener, so a listener   *)
(* sees the state its own action has left.                                 *)
(*                                                                         *)
(* Left out: what a question says (texts, stimuli, labels, ranges); of its *)
(* fields the model keeps the type and the options.  Identifiers are drawn *)
(* at random in the code, here the next one nothing uses.                  *)
(***************************************************************************)
EXTENDS Naturals, Sequences, SequencesExt, FiniteSetsExt

CONSTANTS
  MaxSections,   \* bound
  MaxQuestions,  \* bound, per guide
  MaxOptions,    \* bound, per question
  MaxEdits       \* bound on draftRevision

VARIABLES
  sections,         \* the guide under edit
  selectedSection,
  selectedQuestion,
  draftRevision,
  savedRevision,
  loading,          \* isLoadingGuide
  saving,           \* isSavingGuide
  guideError,
  timer,            \* an autosave is scheduled
  loads,            \* GET /api/guides/ under way
  saves             \* guides on their way to the server, with their revision

guide == <<sections, selectedSection, selectedQuestion>>
sync == <<savedRevision, loading, saving, guideError, loads, saves>>
vars == <<guide, draftRevision, timer, sync>>

-----------------------------------------------------------------------------

NoId == 0

QuestionType == {"conversational", "task", "multiple_choice", "rating", "number_input"}

DefaultOptions(type) == IF type = "multiple_choice" THEN <<1, 2, 3>> ELSE <<>>

NewQuestion(id, type) == [id |-> id, type |-> type, options |-> DefaultOptions(type)]

(* buildStarterSections: what the editor shows before a guide is loaded. *)
Starter ==
  << [id |-> 1, questions |-> <<NewQuestion(1, "conversational"), NewQuestion(2, "task")>>],
     [id |-> 2, questions |-> <<NewQuestion(3, "multiple_choice"), NewQuestion(4, "rating")>>],
     [id |-> 3, questions |-> <<NewQuestion(5, "number_input")>>] >>

SectionIds(ss) == {ss[i].id : i \in DOMAIN ss}
IdsIn(section) == {q.id : q \in ToSet(section.questions)}
QuestionIds(ss) == UNION {IdsIn(ss[i]) : i \in DOMAIN ss}

NewSection == Min((1 .. MaxSections + 1) \ (SectionIds(sections) \cup {selectedSection}))

(* Wrong variant: identifiers are counted up from the number of questions. *)
NewQuestionsCounted(n) == [k \in 1 .. n |-> Cardinality(QuestionIds(sections)) + k]

NewQuestions(n) ==
  CHOOSE q \in [1 .. n -> (1 .. MaxQuestions + n + 1)
                             \ (QuestionIds(sections) \cup {selectedQuestion})] :
    IsInjective(q)

NumberOfQuestions == Cardinality(QuestionIds(sections))

(* cloneQuestion: the copy's options get identifiers of their own, too. *)
Clone(question, id) ==
  [question EXCEPT !.id = id, !.options = [o \in DOMAIN question.options |-> o]]

IndexOf(section) == CHOOSE i \in DOMAIN sections : sections[i].id = section

(* firstQuestionLocation: the first section that has a question. *)
FirstQuestion(ss) ==
  LET full == {i \in DOMAIN ss : ss[i].questions # <<>>}
      first == ss[Min(full)]
  IN  IF full = {} THEN [section |-> NoId, question |-> NoId]
                   ELSE [section |-> first.id, question |-> first.questions[1].id]

Select(section, question) ==
  selectedSection' = section /\ selectedQuestion' = question

(* isDirty *)
Dirty == draftRevision # savedRevision

(* afterMount calls loadGuide, whose reducer has set isLoadingGuide when   *)
(* its listener looks at it.                                               *)
Init ==
  /\ sections = Starter
  /\ selectedSection = 1
  /\ selectedQuestion = 1
  /\ draftRevision = 0
  /\ savedRevision = 0
  /\ loading = TRUE
  /\ saving = FALSE
  /\ guideError = FALSE
  /\ timer = FALSE
  /\ loads = 0
  /\ saves = {}

-----------------------------------------------------------------------------
(* Loading and saving *)

LoadGuide ==
  /\ loading' = TRUE
  /\ guideError' = FALSE
  /\ loads' = IF loading' THEN loads ELSE loads + 1
  /\ UNCHANGED <<guide, draftRevision, savedRevision, saving, timer, saves>>

(* The stored guide replaces the one under edit. *)
LoadAnswered ==
  /\ loads > 0
  /\ loads' = loads - 1
  /\ loading' = FALSE
  /\ \E failed \in BOOLEAN :
       /\ guideError' = failed
       /\ IF failed
            THEN UNCHANGED <<guide, draftRevision, savedRevision>>
            ELSE /\ sections' = Starter
                 /\ Select(1, 1)
                 /\ draftRevision' = 0 /\ savedRevision' = 0
  /\ UNCHANGED <<saving, timer, saves>>

(* The timer calls saveGuide, whose reducer has set isSavingGuide when its *)
(* listener looks at it.                                                   *)
AutosaveFires ==
  /\ timer
  /\ timer' = FALSE
  /\ saving' = TRUE
  /\ guideError' = FALSE
  /\ saves' = IF saving' THEN saves
              ELSE saves \cup {[sections |-> sections, revision |-> draftRevision]}
  /\ UNCHANGED <<guide, draftRevision, savedRevision, loading, loads>>

(* What was saved replaces what has been edited since. *)
SaveAnswered ==
  \E s \in saves :
    /\ saves' = saves \ {s}
    /\ saving' = FALSE
    /\ \E failed \in BOOLEAN :
         /\ guideError' = failed
         /\ IF failed
              THEN UNCHANGED <<guide, savedRevision, timer>>
              ELSE /\ sections' = s.sections
                   /\ Select(FirstQuestion(s.sections).section,
                             FirstQuestion(s.sections).question)
                   /\ savedRevision' = s.revision
                   /\ timer' = (timer \/ draftRevision > s.revision)
    /\ UNCHANGED <<draftRevision, loading, loads>>

-----------------------------------------------------------------------------
(* Edits.  Most schedule an autosave; nothing is scheduled while the guide *)
(* is loading.                                                             *)

AUTOSAVE_ACTIONS ==
  {"addSection", "updateSectionTitle", "duplicateSection", "removeSection", "moveSection",
   "addQuestion", "duplicateQuestion", "removeQuestion", "moveQuestion", "updateQuestion",
   "setQuestionType", "addStimulusToQuestion", "removeStimulusFromQuestion",
   "addQuestionOption", "updateQuestionOption", "removeQuestionOption", "moveQuestionOption",
   "setSectionRandomizationEnabled", "setSectionRandomizationMode"}

(* A listener of the action's own takes the place of the one that would    *)
(* schedule a save; those of the two removals schedule none.               *)
Listened(action) ==
  action \in AUTOSAVE_ACTIONS \ {"removeSection", "removeQuestion"} /\ ~loading

ScheduleAutosave(action) == timer' = (timer \/ Listened(action))

Edited(action) ==
  /\ draftRevision < MaxEdits
  /\ draftRevision' = draftRevision + 1
  /\ ScheduleAutosave(action)
  /\ UNCHANGED sync

AddSection ==
  /\ Edited("addSection")
  /\ Len(sections) < MaxSections /\ NumberOfQuestions < MaxQuestions
  /\ LET q == NewQuestions(1)
     IN  /\ sections' = Append(sections,
                           [id |-> NewSection,
                            questions |-> <<NewQuestion(q[1], "conversational")>>])
         /\ Select(NewSection, q[1])

(* The copy's first question gets the identifier that is selected; of an   *)
(* empty section there is no such question.                                *)
DuplicateSection(i) ==
  LET n == Len(sections[i].questions)
      q == NewQuestions(n + 1)
      copy == [id |-> NewSection,
               questions |-> [k \in 1 .. n |-> Clone(sections[i].questions[k], q[k])]]
  IN  /\ Edited("duplicateSection")
      /\ Len(sections) < MaxSections /\ NumberOfQuestions + n <= MaxQuestions
      /\ sections' = InsertAt(sections, i + 1, copy)
      /\ Select(NewSection, q[1])

WithoutSection(i) == RemoveAt(sections, i)

(* The selection moves to the first question that is left. *)
RemoveSection(i) ==
  LET rest == WithoutSection(i)
  IN  /\ Edited("removeSection")
      /\ sections' = rest
      /\ IF sections[i].id = selectedSection
           THEN Select(FirstQuestion(rest).section, FirstQuestion(rest).question)
           ELSE UNCHANGED <<selectedSection, selectedQuestion>>

AddQuestion(i, type) ==
  LET q == NewQuestions(1)
  IN  /\ Edited("addQuestion")
      /\ NumberOfQuestions < MaxQuestions
      /\ sections' = [sections EXCEPT ![i].questions = Append(@, NewQuestion(q[1], type))]
      /\ Select(sections[i].id, q[1])

(* selectedLocation: the editor shows the selected question.               *)
Selected(i, k) == sections[i].questions[k].id = selectedQuestion

(* The buttons of a row lie inside it: a click on one of them also selects *)
(* the row.                                                                *)
ClickRow(i, k) == Select(sections[i].id, sections[i].questions[k].id)

(* From the editor the copy is selected, from its row the original.        *)
DuplicateQuestion(i, k, inRow) ==
  LET q == NewQuestions(1)
      copy == Clone(sections[i].questions[k], q[1])
  IN  /\ Edited("duplicateQuestion")
      /\ NumberOfQuestions < MaxQuestions
      /\ sections' = [sections EXCEPT ![i].questions = InsertAt(@, k + 1, copy)]
      /\ IF inRow THEN ClickRow(i, k) ELSE Select(sections[i].id, q[1])

WithoutQuestion(i, k) == [sections EXCEPT ![i].questions = RemoveAt(@, k)]

(* The listener looks for the question after it was removed, finds none,   *)
(* and leaves the selection as it is; a click on the row selects what it   *)
(* has removed.                                                            *)
RemoveQuestion(i, k, inRow) ==
  /\ Edited("removeQuestion")
  /\ sections' = WithoutQuestion(i, k)
  /\ IF inRow THEN ClickRow(i, k) ELSE UNCHANGED <<selectedSection, selectedQuestion>>

(* Drag and drop within a section: arrayMove *)
MoveQuestion(i, k, l) ==
  /\ k # l
  /\ Edited("moveQuestion") /\ UNCHANGED <<selectedSection, selectedQuestion>>
  /\ sections' = [sections EXCEPT ![i].questions = InsertAt(RemoveAt(@, k), l, @[k])]

(* A section's title *)
EditTitle == Edited("updateSectionTitle") /\ UNCHANGED guide

(* Randomization: edits of what no save sends and no load brings back.     *)
(* (Its mode can be changed once it is on; on or off is not kept here.)    *)
SetSectionRandomizationEnabled ==
  Edited("setSectionRandomizationEnabled") /\ UNCHANGED guide

SetSectionRandomizationMode == Edited("setSectionRandomizationMode") /\ UNCHANGED guide

SelectQuestion(i, k) ==
  /\ ClickRow(i, k)
  /\ UNCHANGED <<sections, draftRevision, timer, sync>>

-----------------------------------------------------------------------------
(* The editor of the selected question *)

Updated(i, k, question, action) ==
  /\ Selected(i, k)
  /\ Edited(action) /\ UNCHANGED <<selectedSection, selectedQuestion>>
  /\ sections' = [sections EXCEPT ![i].questions[k] = question]

(* Its text, or a field of its type *)
UpdateQuestion(i, k) == Updated(i, k, sections[i].questions[k], "updateQuestion")

OfType(i, k, type) == sections[i].questions[k].type = type

ConversationalFields(i, k) == OfType(i, k, "conversational") /\ UpdateQuestion(i, k)

TaskFields(i, k) == OfType(i, k, "task") /\ UpdateQuestion(i, k)

RatingFields(i, k) == OfType(i, k, "rating") /\ UpdateQuestion(i, k)

NumberInputFields(i, k) == OfType(i, k, "number_input") /\ UpdateQuestion(i, k)

(* resetQuestionType: the fields of the type start anew. *)
SetQuestionType(i, k, type) ==
  Updated(i, k, [sections[i].questions[k] EXCEPT !.type = type, !.options = DefaultOptions(type)],
          "setQuestionType")

SetOptions(i, k, options, action) ==
  /\ OfType(i, k, "multiple_choice")
  /\ Updated(i, k, [sections[i].questions[k] EXCEPT !.options = options], action)

AddOption(i, k) ==
  LET options == sections[i].questions[k].options
  IN  /\ Len(options) < MaxOptions
      /\ SetOptions(i, k, Append(options, Min((1 .. MaxOptions) \ ToSet(options))),
                    "addQuestionOption")

RemoveOption(i, k, o) ==
  SetOptions(i, k, RemoveAt(sections[i].questions[k].options, o), "removeQuestionOption")

MoveOption(i, k, o, p) ==
  LET options == sections[i].questions[k].options
  IN  o # p /\ SetOptions(i, k, InsertAt(RemoveAt(options, o), p, options[o]),
                          "moveQuestionOption")

(* Leaving the tab and coming back: the logic is unmounted and starts      *)
(* anew; the timer belongs to the module and stays.                        *)
Reopen ==
  /\ sections' = Starter
  /\ Select(1, 1)
  /\ draftRevision' = 0 /\ savedRevision' = 0
  /\ loading' = TRUE /\ saving' = FALSE /\ guideError' = FALSE
  /\ UNCHANGED <<timer, loads, saves>>

-----------------------------------------------------------------------------

(* The components of OutlineTab.tsx and the clicks they offer *)

MultipleChoiceFields(i, k) ==
  \/ OfType(i, k, "multiple_choice") /\ UpdateQuestion(i, k)
  \/ AddOption(i, k)
  \/ \E o \in DOMAIN sections[i].questions[k].options :
       \/ RemoveOption(i, k, o)
       \/ \E p \in DOMAIN sections[i].questions[k].options : MoveOption(i, k, o, p)

(* The block of the question's type *)
QuestionFields(i, k) ==
  \/ ConversationalFields(i, k) \/ TaskFields(i, k) \/ MultipleChoiceFields(i, k)
  \/ RatingFields(i, k) \/ NumberInputFields(i, k)

(* It shows the selected question, also where no section is selected. *)
DynamicQuestionEditor(i, k) ==
  \/ UpdateQuestion(i, k)
  \/ \E type \in QuestionType : SetQuestionType(i, k, type)
  \/ QuestionFields(i, k)
  \/ Selected(i, k) /\ (DuplicateQuestion(i, k, FALSE) \/ RemoveQuestion(i, k, FALSE))

SortableQuestionRow(i, k) ==
  SelectQuestion(i, k) \/ DuplicateQuestion(i, k, TRUE) \/ RemoveQuestion(i, k, TRUE)

(* The items of its two menus.  Whether a menu is open is left out: it     *)
(* closes before the item it was clicked on acts.                          *)
SectionMenu(i) ==
  \/ DuplicateSection(i) \/ RemoveSection(i)
  \/ \E type \in QuestionType : AddQuestion(i, type)

SectionBlock(i) ==
  \/ EditTitle \/ SectionMenu(i)
  \/ \E k \in DOMAIN sections[i].questions :
       \/ SortableQuestionRow(i, k)
       \/ \E l \in DOMAIN sections[i].questions : MoveQuestion(i, k, l)

GuideOutlinePanel == AddSection \/ \E i \in DOMAIN sections : SectionBlock(i)

EditorPane ==
  \E i \in DOMAIN sections : \E k \in DOMAIN sections[i].questions :
    DynamicQuestionEditor(i, k)

SettingsAndSummaryPanel == SetSectionRandomizationEnabled \/ SetSectionRandomizationMode

OutlineTab == GuideOutlinePanel \/ EditorPane \/ SettingsAndSummaryPanel

(* The researcher's steps: the actions that have a caller (moveSection,    *)
(* clearSelection and markSaved have none).  The guide is always loading,  *)
(* so that no autosave is scheduled and no request made: the timer and the *)
(* network are in SyncSpec, which edits_unsaved checks.                    *)
Next == OutlineTab \/ LoadGuide \/ Reopen

Network == LoadAnswered \/ SaveAnswered

(* Timers fire and requests are answered. *)
SyncSpec ==
  /\ Init /\ [][Next \/ AutosaveFires \/ Network]_vars
  /\ WF_vars(AutosaveFires) /\ WF_vars(Network)

-----------------------------------------------------------------------------

(* Sections, questions and the options of a question keep distinct         *)
(* identifiers through every duplication, insertion and move;              *)
(* SortableContext, the React keys and questionIndexById take them to be   *)
(* unique.                                                                 *)
IdsAreUnique ==
  /\ \A i, j \in DOMAIN sections : sections[i].id = sections[j].id => i = j
  /\ \A i, j \in DOMAIN sections :
       \A k \in DOMAIN sections[i].questions, l \in DOMAIN sections[j].questions :
         sections[i].questions[k].id = sections[j].questions[l].id => i = j /\ k = l
  /\ \A i \in DOMAIN sections : \A k \in DOMAIN sections[i].questions :
       IsInjective(sections[i].questions[k].options)

(* The two halves of the selection agree: the selected section exists,     *)
(* unless none is selected, and a selected question that exists is one of  *)
(* its questions (the editor passes both identifiers to every update).     *)
SelectionAgrees ==
  /\ selectedSection # NoId => selectedSection \in SectionIds(sections)
  /\ selectedQuestion \in QuestionIds(sections) =>
       /\ selectedSection # NoId
       /\ selectedQuestion \in IdsIn(sections[IndexOf(selectedSection)])

(* Only a choice has options (resetQuestionType): whatever a question was  *)
(* before and whatever it was copied from, one of another type carries     *)
(* none to the server.                                                     *)
OptionsFollowType ==
  \A i \in DOMAIN sections : \A k \in DOMAIN sections[i].questions :
    sections[i].questions[k].options # <<>> => sections[i].questions[k].type = "multiple_choice"

(* The three together, through every sequence of edits. *)
OutlineIsSound == IdsAreUnique /\ SelectionAgrees /\ OptionsFollowType

(* An edit is saved, or the failure is shown (tasks.md F4.1: "kea logic    *)
(* manages the sections, saving POSTs them"; AUTOSAVE_ACTIONS).            *)
EditsAreSaved ==
  Dirty ~> ~Dirty \/ guideError

=============================================================================
