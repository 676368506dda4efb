------------------------------ MODULE SelectBox ------------------------------
(***************************************************************************)
(* The list box that the researcher's pages choose with (Select.tsx): a    *)
(* button and, while it is open, a list with an active option, both with   *)
(* keys of their own.  The options and the value are the page's, which may *)
(* render others while the list is open.                                   *)
(*                                                                         *)
(* Positions count from 1 and 0 is the source's -1.  Left out: labels,     *)
(* the focus, the fading of a list that is closed.                         *)
(***************************************************************************)
EXTENDS Integers, Sequences, FiniteSetsExt

CONSTANTS
  Value,       \* what an option stands for
  NoValue,     \* a value no option has
  MaxRenders   \* bound on changes of the options while a list is open

VARIABLES
  options,     \* rendered by the page: value and disabled
  value,
  disabled,    \* the button
  isOpen,
  activeIndex,
  renders,     \* changes since the list was opened
  chosen       \* what onValueChange was last called with, and among which options

selectVars == <<isOpen, activeIndex, renders>>
pageVars == <<options, value, disabled>>
vars == <<pageVars, selectVars, chosen>>

-----------------------------------------------------------------------------

OptionLists ==
  {os \in UNION {[1 .. n -> [value : Value, disabled : BOOLEAN]] : n \in 0 .. Cardinality(Value)} :
     \A i, j \in DOMAIN os : os[i].value = os[j].value => i = j}

Enabled(os) == {i \in DOMAIN os : ~os[i].disabled}

firstEnabledOptionIndex(os) == IF Enabled(os) = {} THEN 0 ELSE Min(Enabled(os))

lastEnabledOptionIndex(os) == IF Enabled(os) = {} THEN 0 ELSE Max(Enabled(os))

(* Around the end; n steps come back to the start. *)
Stepped(os, start, step, down) ==
  LET n == Len(os)
  IN  ((IF down THEN start - 1 + step ELSE start - 1 + n - step) % n) + 1

(* Wrong variant: stops at the neighbour, enabled or not. *)
neighbour(os, start, down) == IF os = <<>> THEN 0 ELSE Stepped(os, start, 1, down)

nextEnabledOptionIndex(os, start, down) ==
  LET steps == {k \in DOMAIN os : Stepped(os, start, k, down) \in Enabled(os)}
  IN  IF os = <<>> THEN 0
      ELSE IF steps = {} THEN start
      ELSE Stepped(os, start, Min(steps), down)

Selected(os, v) == {i \in DOMAIN os : os[i].value = v}

DefaultActiveIndex(os, v) ==
  IF Selected(os, v) \cap Enabled(os) # {} THEN Min(Selected(os, v))
  ELSE firstEnabledOptionIndex(os)

-----------------------------------------------------------------------------

Init ==
  /\ options \in OptionLists
  /\ value \in Value \cup {NoValue}
  /\ disabled = FALSE
  /\ isOpen = FALSE /\ activeIndex = 0 /\ renders = 0
  /\ chosen = [value |-> NoValue, offered |-> {NoValue}]

CloseMenu == isOpen' = FALSE /\ renders' = 0 /\ UNCHANGED activeIndex

(* The layout effect runs after the button's own choice of a position.     *)
OpenMenu ==
  /\ ~isOpen
  /\ isOpen' = TRUE
  /\ activeIndex' = DefaultActiveIndex(options, value)
  /\ UNCHANGED <<pageVars, renders, chosen>>

(* The page answers onValueChange with the value. *)
CommitSelection(v) ==
  /\ CloseMenu
  /\ IF v = value THEN UNCHANGED <<value, chosen>>
     ELSE /\ value' = v
          /\ chosen' = [value |-> v, offered |-> {options[i].value : i \in Enabled(options)}]
  /\ UNCHANGED <<options, disabled>>

Choose ==
  /\ activeIndex \in Enabled(options)
  /\ CommitSelection(options[activeIndex].value)

MoveActive(i) ==
  /\ activeIndex' = i
  /\ UNCHANGED <<pageVars, isOpen, renders, chosen>>

Arrow ==
  \E down \in BOOLEAN :
    MoveActive(nextEnabledOptionIndex(options,
      IF activeIndex = 0 THEN DefaultActiveIndex(options, value) ELSE activeIndex, down))

Dismiss == isOpen /\ CloseMenu /\ UNCHANGED <<pageVars, chosen>>

ClickTrigger == ~disabled /\ (OpenMenu \/ Dismiss)

(* Arrows, enter and space open a closed list. *)
TriggerKey ==
  /\ ~disabled
  /\ OpenMenu \/ (isOpen /\ (Arrow \/ Choose)) \/ Dismiss

(* Whether or not the button is disabled; Escape and Tab dismiss. *)
ListKey ==
  /\ isOpen
  /\ \/ Arrow \/ Choose \/ Dismiss
     \/ MoveActive(firstEnabledOptionIndex(options))
     \/ MoveActive(lastEnabledOptionIndex(options))

HandlePointerDown == Dismiss

Hover(i) == isOpen /\ i \in Enabled(options) /\ MoveActive(i)

ClickOption(i) == isOpen /\ i \in Enabled(options) /\ CommitSelection(options[i].value)

(* The page renders with other options, another value or disabled; the     *)
(* effect resets the position when the default one differs.                *)
Render ==
  /\ isOpen /\ renders < MaxRenders
  /\ renders' = renders + 1
  /\ options' \in OptionLists /\ value' \in Value \cup {NoValue} /\ disabled' \in BOOLEAN
  /\ activeIndex' = IF DefaultActiveIndex(options', value') # DefaultActiveIndex(options, value)
                      THEN DefaultActiveIndex(options', value') ELSE activeIndex
  /\ UNCHANGED <<isOpen, chosen>>

Next ==
  \/ ClickTrigger \/ TriggerKey \/ ListKey \/ HandlePointerDown
  \/ \E i \in DOMAIN options : Hover(i) \/ ClickOption(i)
  \/ Render

Spec == Init /\ [][Next]_vars

-----------------------------------------------------------------------------

(* The keyboard stays on what can be chosen: while the page does not       *)
(* render other options under an open list, the active option is an        *)
(* enabled one, if there is any; an arrow undoes the opposite arrow; and   *)
(* even on a list that has changed, what is chosen was enabled in it.      *)
KeyboardChoosesOffered ==
  /\ isOpen /\ renders = 0 /\ Enabled(options) # {} => activeIndex \in Enabled(options)
  /\ \A i \in Enabled(options), down \in BOOLEAN :
       nextEnabledOptionIndex(options, nextEnabledOptionIndex(options, i, down), ~down) = i
  /\ chosen.value \in chosen.offered

=============================================================================
