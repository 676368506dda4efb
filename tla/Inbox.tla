------------------------------- MODULE Inbox -------------------------------
(***************************************************************************)
(* The researcher's inbox (InboxPage.tsx, inboxLogic.ts).  The list is     *)
(* loaded when the page opens, and again by markRead after it has told the *)
(* server, so two requests may answer with a list in any order.  Items are *)
(* written by signals of the server and read by the whole team: an item is *)
(* unread while nobody has read it.                                        *)
(*                                                                         *)
(* The server's mark_read reads the row's readers and writes them back in  *)
(* two steps.  Left out: the items' texts, and other teams' items.         *)
(***************************************************************************)
EXTENDS Naturals, FiniteSetsExt

CONSTANTS
  PageSize,      \* items of a list (50)
  MaxItems,      \* bound on items
  MaxRequests,   \* bound on requests in flight
  None

VARIABLES
  stored,      \* per item, in the order they were written: who has read it
  colleague,   \* another member's mark_read under way, or None
  page,        \* tab of InboxPage, None elsewhere
  items,       \* of inboxLogic
  loading,     \* itemsLoading
  requests     \* in flight

pageVars == <<page, items, loading>>
vars == <<stored, colleague, pageVars, requests>>

-----------------------------------------------------------------------------

Items == DOMAIN stored

(* The newest of them *)
FirstPage ==
  [i \in {j \in Items : j + PageSize > Cardinality(Items)} |-> stored[i]]

Unread(list) == {i \in DOMAIN list : list[i] = {}}

(* InboxRow: a new item has the button. *)
Buttons(list) == Unread(list)

Filtered == IF page = "unread" THEN Unread(items) ELSE DOMAIN items

Empty == [i \in {} |-> {}]

(* loading before there are items, or else the rows, or that there are none *)
Shown == IF loading /\ items = Empty THEN "loading" ELSE IF Filtered = {} THEN "empty" ELSE "rows"

Init ==
  /\ stored = Empty /\ colleague = None
  /\ page = None /\ items = Empty /\ loading = FALSE
  /\ requests = {}

-----------------------------------------------------------------------------
(* The page *)

Send(r) ==
  /\ Cardinality(requests) < MaxRequests
  /\ LET unused == {n \in 1 .. MaxRequests : \A q \in requests : q.id # n}
     IN  requests' = requests \cup {[r EXCEPT !.id = Min(unused)]}

List == [id |-> 0, item |-> None, stage |-> "list", answer |-> None]

Mark(i) == [id |-> 0, item |-> i, stage |-> "mark", answer |-> None]

(* The page opens: loadInbox. *)
LoadInbox ==
  /\ page = None
  /\ Send(List)
  /\ page' = "all" /\ items' = Empty /\ loading' = TRUE
  /\ UNCHANGED <<stored, colleague>>

Leave ==
  /\ page # None
  /\ page' = None /\ items' = Empty /\ loading' = FALSE
  /\ UNCHANGED <<stored, colleague, requests>>

SetTab(tab) ==
  /\ page # None /\ tab # page
  /\ page' = tab
  /\ UNCHANGED <<stored, colleague, items, loading, requests>>

(* The button stays while its item is marked. *)
MarkRead(i) ==
  /\ page # None /\ Shown = "rows" /\ i \in Filtered \cap Buttons(items)
  /\ Send(Mark(i))
  /\ loading' = TRUE
  /\ UNCHANGED <<stored, colleague, page, items>>

(* The last answer is shown; a page that is closed takes none. *)
Answered(r) ==
  /\ r \in requests /\ r.stage = "listed"
  /\ requests' = requests \ {r}
  /\ IF page = None THEN UNCHANGED pageVars
     ELSE items' = r.answer /\ loading' = FALSE /\ UNCHANGED page
  /\ UNCHANGED <<stored, colleague>>

-----------------------------------------------------------------------------
(* The server *)

Becomes(r, stage, answer) ==
  requests' = (requests \ {r}) \cup {[r EXCEPT !.stage = stage, !.answer = answer]}

(* The mark, or a list, is not answered: the request throws. *)
Failed(r) ==
  /\ r \in requests
  /\ requests' = requests \ {r}
  /\ loading' = FALSE
  /\ UNCHANGED <<stored, colleague, page, items>>

MarkReads(r) ==
  /\ r \in requests /\ r.stage = "mark"
  /\ Becomes(r, "marking", stored[r.item])
  /\ UNCHANGED <<stored, colleague, pageVars>>

(* Wrong variant: the readers are changed, and not saved. *)
MarkForgets(r) ==
  /\ r \in requests /\ r.stage = "marking"
  /\ Becomes(r, "list", None)
  /\ UNCHANGED <<stored, colleague, pageVars>>

(* Nothing is written for a reader that was found there.  The answer of    *)
(* the mark is the client's reason to ask for the list.                    *)
MarkSaves(r) ==
  /\ r \in requests /\ r.stage = "marking"
  /\ stored' = IF "me" \in r.answer THEN stored
               ELSE [stored EXCEPT ![r.item] = r.answer \cup {"me"}]
  /\ Becomes(r, "list", None)
  /\ UNCHANGED <<colleague, pageVars>>

ListAnswered(r) ==
  /\ r \in requests /\ r.stage = "list"
  /\ Becomes(r, "listed", FirstPage)
  /\ UNCHANGED <<stored, colleague, pageVars>>

(* inbox_signals: an interview or a study is over, an insight is ready. *)
Written ==
  /\ Cardinality(Items) < MaxItems
  /\ stored' = [i \in Items \cup {Cardinality(Items) + 1} |->
                  IF i \in Items THEN stored[i] ELSE {}]
  /\ UNCHANGED <<colleague, pageVars, requests>>

ColleagueReads(i) ==
  /\ colleague = None /\ "colleague" \notin stored[i]
  /\ colleague' = [item |-> i, readers |-> stored[i]]
  /\ UNCHANGED <<stored, pageVars, requests>>

ColleagueSaves ==
  /\ colleague # None
  /\ stored' = [stored EXCEPT ![colleague.item] = colleague.readers \cup {"colleague"}]
  /\ colleague' = None
  /\ UNCHANGED <<pageVars, requests>>

-----------------------------------------------------------------------------

Next ==
  \/ LoadInbox \/ Leave \/ \E tab \in {"all", "unread"} : SetTab(tab)
  \/ \E i \in DOMAIN items : MarkRead(i)
  \/ \E r \in requests : Answered(r) \/ Failed(r)
  \/ \E r \in requests : MarkReads(r) \/ MarkSaves(r) \/ ListAnswered(r)
  \/ Written \/ ColleagueSaves \/ \E i \in Items : ColleagueReads(i)

Spec == Init /\ [][Next]_vars

-----------------------------------------------------------------------------

(* A list that follows a mark shows its item read, or no longer shows it,  *)
(* whatever a colleague's mark of the same item overwrites meanwhile       *)
(* (mark_read, views.py); and the page does not stay at "Loading inbox".   *)
MarksAreSeen ==
  /\ \A r \in requests :
       r.stage = "listed" /\ r.item \in DOMAIN r.answer => r.item \notin Unread(r.answer)
  /\ page # None /\ Shown = "loading" => requests # {}

=============================================================================
