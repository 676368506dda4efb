--------------------------- MODULE CommandPalette ---------------------------
(***************************************************************************)
(* The command palette (CommandPalette.tsx) with the commands of the app   *)
(* (AppCommandPalette.tsx).  A command runs after the palette is closed,   *)
(* by a timer; the closed palette fades out, and what is fading shows, and *)
(* answers keys with, what was rendered last.                              *)
(*                                                                         *)
(* A query is the set of commands that match it; the empty query matches   *)
(* all.  focusIndex counts from 1, so that 0 is the source's -1.           *)
(***************************************************************************)
EXTENDS Integers, Sequences

CONSTANTS
  Query,      \* sets of commands that some text matches
  MaxRuns,    \* bound on commands waiting for their timer
  None

VARIABLES
  user,         \* none, member or superuser
  studies,      \* names of studies, once loaded
  open,
  query,
  focusIndex,
  fading,       \* what a closed palette still shows, or None
  waiting,      \* commands whose timers run
  entered       \* what Enter ran last and what was highlighted then

vars == <<user, studies, open, query, focusIndex, fading, waiting, entered>>

-----------------------------------------------------------------------------
(* AppCommandPalette *)

Command(id, section) == [id |-> id, section |-> section]

(* go-ask stands for the five other scenes, two studies for the first      *)
(* twenty.                                                                 *)
Commands ==
  <<Command("go-home", "go_to"), Command("go-ask", "go_to"),
    Command("new-study", "actions"), Command("refresh", "actions")>>
  \o (IF user = "superuser" THEN <<Command("open-admin", "actions")>> ELSE <<>>)
  \o [i \in DOMAIN studies |-> Command(studies[i], "studies")]

Ids == {"go-home", "go-ask", "new-study", "refresh", "open-admin", "study-1", "study-2"}

(* userLogic and studiesLogic answer while the palette may be open. *)
UserLoaded(u) ==
  /\ user = "none"
  /\ user' = u
  /\ UNCHANGED <<studies, open, query, focusIndex, fading, waiting, entered>>

StudiesLoaded(list) ==
  /\ studies = <<>>
  /\ studies' = list
  /\ UNCHANGED <<user, open, query, focusIndex, fading, waiting, entered>>

-----------------------------------------------------------------------------
(* CommandPalette *)

(* Those of some commands that match, in their order *)
Matching(commands, q) ==
  LET among[i \in 0 .. Len(commands)] ==
        IF i = 0 THEN <<>>
        ELSE IF commands[i].id \in q THEN Append(among[i - 1], commands[i])
        ELSE among[i - 1]
  IN  among[Len(commands)]

filtered == Matching(Commands, query)

Init ==
  /\ user = "none" /\ studies = <<>>
  /\ open = FALSE /\ query = Ids /\ focusIndex = 1 /\ fading = None
  /\ waiting = <<>> /\ entered = None

(* The effects after a render: an opened palette starts afresh, a focus    *)
(* past the end goes to the top.                                           *)
InBounds(index, list) == IF index > Len(list) THEN 1 ELSE index

(* Cmd+K *)
Toggle ==
  /\ open' = ~open
  /\ IF open
     THEN fading' = [list |-> filtered, focus |-> focusIndex] /\ UNCHANGED <<query, focusIndex>>
     ELSE fading' = None /\ query' = Ids /\ focusIndex' = 1
  /\ UNCHANGED <<user, studies, waiting, entered>>

(* The search button of the sidebar, under the open palette's overlay,     *)
(* sends the same key.                                                     *)
SearchTrigger == ~open /\ Toggle

(* Escape or a click outside *)
Dismiss ==
  /\ open
  /\ open' = FALSE
  /\ fading' = [list |-> filtered, focus |-> focusIndex]
  /\ UNCHANGED <<user, studies, query, focusIndex, waiting, entered>>

FadedOut ==
  /\ fading # None
  /\ fading' = None
  /\ UNCHANGED <<user, studies, open, query, focusIndex, waiting, entered>>

(* What is on the screen, which is also what the handlers know. *)
Visible == open \/ fading # None
ShownList == IF open THEN filtered ELSE fading.list
ShownFocus == IF open THEN focusIndex ELSE fading.focus

(* The position in all groups, which come in the order of the list. *)
AbsIndex(list, cmd) == CHOOSE i \in DOMAIN list : list[i] = cmd

Highlighted == {i \in DOMAIN ShownList : AbsIndex(ShownList, ShownList[i]) = ShownFocus}

TypeQuery(q) ==
  /\ Visible
  /\ query' = q
  /\ focusIndex' = 1
  /\ UNCHANGED <<user, studies, open, fading, waiting, entered>>

(* In an empty list the arrow leads before the start.  The bound is that   *)
(* of the list on the screen, and the effects see the current one.         *)
ArrowDown ==
  LET next == IF focusIndex + 1 > Len(ShownList) THEN Len(ShownList) ELSE focusIndex + 1
  IN  /\ Visible
      /\ focusIndex' = InBounds(next, filtered)
      /\ UNCHANGED <<user, studies, open, query, fading, waiting, entered>>

ArrowUp ==
  /\ Visible
  /\ focusIndex' = InBounds(IF focusIndex <= 1 THEN 1 ELSE focusIndex - 1, filtered)
  /\ UNCHANGED <<user, studies, open, query, fading, waiting, entered>>

MouseEnter(i) ==
  /\ Visible /\ i \in DOMAIN ShownList
  /\ focusIndex' = InBounds(AbsIndex(ShownList, ShownList[i]), filtered)
  /\ UNCHANGED <<user, studies, open, query, fading, waiting, entered>>

runCommand(cmd) ==
  /\ Len(waiting) < MaxRuns
  /\ open' = FALSE
  /\ fading' = [list |-> ShownList, focus |-> ShownFocus]
  /\ waiting' = Append(waiting, cmd.id)

Enter ==
  /\ Visible /\ ShownFocus \in DOMAIN ShownList
  /\ runCommand(ShownList[ShownFocus])
  /\ entered' = [ran |-> ShownFocus, highlighted |-> Highlighted]
  /\ UNCHANGED <<user, studies, query, focusIndex>>

Click(i) ==
  /\ Visible /\ i \in DOMAIN ShownList
  /\ runCommand(ShownList[i])
  /\ UNCHANGED <<user, studies, query, focusIndex, entered>>

(* The timer: a document is loaded, or it is not the matter here. *)
Run ==
  /\ waiting # <<>>
  /\ IF Head(waiting) = "refresh"
     THEN /\ user' = "none" /\ studies' = <<>> /\ open' = FALSE /\ query' = Ids
          /\ focusIndex' = 1 /\ fading' = None /\ waiting' = <<>> /\ entered' = None
     ELSE /\ waiting' = Tail(waiting)
          /\ UNCHANGED <<user, studies, open, query, focusIndex, fading, entered>>

Next ==
  \/ \E u \in {"member", "superuser"} : UserLoaded(u)
  \/ \E list \in {<<"study-1">>, <<"study-1", "study-2">>} : StudiesLoaded(list)
  \/ Toggle \/ SearchTrigger \/ Dismiss \/ FadedOut
  \/ \E q \in Query : TypeQuery(q)
  \/ ArrowDown \/ ArrowUp \/ Enter
  \/ \E i \in DOMAIN Commands : MouseEnter(i) \/ Click(i)
  \/ Run

Spec == Init /\ [][Next]_vars

-----------------------------------------------------------------------------

(* Enter has run the one command that was highlighted, also when commands  *)
(* came in after the palette was opened, or it was fading already          *)
(* (CommandPalette.tsx:140-143 and 221-222).                               *)
EnterRunsHighlighted == entered # None => entered.highlighted = {entered.ran}

=============================================================================
