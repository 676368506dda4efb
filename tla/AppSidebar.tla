----------------------------- MODULE AppSidebar -----------------------------
(***************************************************************************)
(* The chrome of the researcher's app in some browser windows: the guard   *)
(* that asks for a login (App.tsx, userLogic), the left sidebar with its   *)
(* recent studies, the panel on the right (sidebarLogic) and the language  *)
(* (i18n).  They are read from the local storage of the browser once, when *)
(* the window loads, and written back at every change; the windows share   *)
(* the storage.  Outside the app there is no chrome: sidebarLogic is       *)
(* unmounted, and mounted again with what was read when the window loaded. *)
(*                                                                         *)
(* A place stands for a URL: a study, one of the other scenes of the app   *)
(* (Elsewhere), the login page, another page outside the app (Missing), or *)
(* for the message that something did not render, whatever the URL.        *)
(* Widths are in any unit.                                                 *)
(***************************************************************************)
EXTENDS Integers, Sequences

CONSTANTS
  Window, Study,
  Listed,                             \* studies the server lists, the newest
  MinWidth, DefaultWidth, MaxWidth,   \* of the panel
  DragTo,                             \* widths the mouse is dragged to
  Earlier,                            \* studies opened before
  MaxChanges,                         \* bound on changes of the sidebar
  None

VARIABLES
  session,         \* whether the server has a session for this browser
  user,            \* per window: loading, none or member
  place,           \* per window: the scene
  document,        \* per window: what its load read, and the place it began at
  recentStudyIds,  \* per window
  isCollapsed,     \* per window
  sidePanel,       \* per window: tab, isOpen, width
  drag,            \* per window: the width the handle was grabbed at
  language,        \* per window
  storage,         \* what the keys hold
  changes          \* number of changes of the sidebar

accountVars == <<session, user>>
sidebarVars == <<recentStudyIds, isCollapsed, sidePanel>>
vars == <<accountVars, place, document, sidebarVars, drag, language, storage, changes>>

-----------------------------------------------------------------------------

MAX_PINNED == 3
Login == "login"
Missing == "missing"
Plain == {Login, Missing}
Elsewhere == "elsewhere"
App == Study \cup {Elsewhere}
Crashed == "crashed"

(* Of the pages outside the app and of its scenes, which need a user *)
sceneConfigs(p) ==
  IF p \in Plain THEN [layout |-> "plain", allowUnauthenticated |-> TRUE]
                 ELSE [layout |-> "app", allowUnauthenticated |-> FALSE]

pickLayout(p) == sceneConfigs(p).layout

Guard(p, found) ==
  IF found \/ p = Crashed \/ sceneConfigs(p).allowUnauthenticated THEN p ELSE Login

(* A scene is rendered for a user, or to anybody; AppLayout mounts         *)
(* sidebarLogic.  The message is shown instead of either.                  *)
Rendered(w) ==
  place[w] # Crashed /\ (user[w] = "member" \/ sceneConfigs(place[w]).allowUnauthenticated)

Shown(w) == Rendered(w) /\ user[w] = "member" /\ pickLayout(place[w]) = "app"

Clamped(width) ==
  IF width < MinWidth THEN MinWidth ELSE IF width > MaxWidth THEN MaxWidth ELSE width

Count == changes < MaxChanges /\ changes' = changes + 1

Closed == [tab |-> None, isOpen |-> FALSE, width |-> DefaultWidth]

Locale == {"en", "zh-CN"}

(* detectInitialLocale: what is stored, else Chinese. *)
Detected(locale) == IF locale \in Locale THEN locale ELSE "zh-CN"

(* The storage is empty, which reads as the defaults, or holds the studies *)
(* of an earlier day.                                                      *)
Init ==
  /\ session \in BOOLEAN
  /\ user = [w \in Window |-> "loading"]
  /\ place \in [Window -> {Login, Missing, Elsewhere}]
  /\ storage \in [recent : {<<>>, Earlier}, collapsed : {FALSE}, panel : {Closed},
                locale : {None}]
  /\ document = [w \in Window |-> [recent |-> storage.recent, collapsed |-> FALSE,
                                  panel |-> Closed, began |-> place[w]]]
  /\ recentStudyIds = [w \in Window |-> storage.recent]
  /\ isCollapsed = [w \in Window |-> FALSE]
  /\ sidePanel = [w \in Window |-> Closed]
  /\ drag = [w \in Window |-> None]
  /\ language = [w \in Window |-> Detected(storage.locale)]
  /\ changes = 0

-----------------------------------------------------------------------------
(* sidebarLogic: the reducers write what they return. *)

FirstOf(seq, n) == SubSeq(seq, 1, IF Len(seq) < n THEN Len(seq) ELSE n)

touchStudy(w, study) ==
  LET others == SelectSeq(recentStudyIds[w], LAMBDA id : id # study)
      next   == FirstOf(<<study>> \o others, MAX_PINNED)
  IN  /\ recentStudyIds' = [recentStudyIds EXCEPT ![w] = next]
      /\ storage' = [storage EXCEPT !.recent = next]

(* The listener of setScene, when the sidebar is mounted. *)
SceneSet(w, p) ==
  IF p \in Study /\ (recentStudyIds[w] = <<>> \/ Head(recentStudyIds[w]) # p)
  THEN Count /\ touchStudy(w, p)
  ELSE UNCHANGED <<recentStudyIds, storage, changes>>

SetCollapsed(w, collapsed) ==
  /\ isCollapsed' = [isCollapsed EXCEPT ![w] = collapsed]
  /\ storage' = [storage EXCEPT !.collapsed = collapsed]

(* The button at the bottom *)
toggleCollapsed(w) ==
  /\ Shown(w) /\ Count
  /\ SetCollapsed(w, ~isCollapsed[w])
  /\ UNCHANGED <<accountVars, place, document, recentStudyIds, sidePanel, drag, language>>

SetPanel(w, panel) ==
  /\ sidePanel' = [sidePanel EXCEPT ![w] = panel]
  /\ storage' = [storage EXCEPT !.panel = panel]

IsAskOpen(w) == sidePanel[w].isOpen /\ sidePanel[w].tab = "ask"

(* Wrong variant: nothing removes the handle's listeners. *)
HandleStays(w) == UNCHANGED drag

(* The handle is unmounted, and its effect takes back the listeners that   *)
(* it gave the window: whatever was dragged is let go of.                  *)
HandleGone(w) == drag' = [drag EXCEPT ![w] = None]

(* The Ask button of the top bar *)
toggleSidePanel(w) ==
  LET next == IF IsAskOpen(w)
              THEN [sidePanel[w] EXCEPT !.isOpen = FALSE]
              ELSE [sidePanel[w] EXCEPT !.tab = "ask", !.isOpen = TRUE]
  IN  /\ Shown(w) /\ Count
      /\ SetPanel(w, next)
      /\ IF next.isOpen THEN UNCHANGED drag ELSE HandleGone(w)
      /\ UNCHANGED <<accountVars, place, document, recentStudyIds, isCollapsed, language>>

(* The X in the panel. *)
closeSidePanel(w) ==
  /\ Shown(w) /\ sidePanel[w].isOpen /\ Count
  /\ SetPanel(w, [sidePanel[w] EXCEPT !.isOpen = FALSE])
  /\ HandleGone(w)
  /\ UNCHANGED <<accountVars, place, document, recentStudyIds, isCollapsed, language>>

(* useLayoutShortcuts: with Cmd, outside of an input *)
OnKeyDown(w, key) ==
  \/ key = "/" /\ toggleCollapsed(w)
  \/ key = "." /\ toggleSidePanel(w)

-----------------------------------------------------------------------------
(* ResizeHandle *)

MouseDown(w) ==
  /\ Shown(w) /\ sidePanel[w].isOpen
  /\ drag' = [drag EXCEPT ![w] = sidePanel[w].width]
  /\ UNCHANGED <<accountVars, place, document, sidebarVars, language, storage, changes>>

(* setSidePanelWidth, with the width at the start and the distance. *)
MouseMove(w, width) ==
  /\ drag[w] # None /\ Count
  /\ SetPanel(w, [sidePanel[w] EXCEPT !.width = Clamped(width)])
  /\ UNCHANGED <<accountVars, place, document, recentStudyIds, isCollapsed, drag, language>>

MouseUp(w) ==
  /\ drag[w] # None
  /\ drag' = [drag EXCEPT ![w] = None]
  /\ UNCHANGED <<accountVars, place, document, sidebarVars, language, storage, changes>>

-----------------------------------------------------------------------------
(* App, sceneLogic, userLogic, loginLogic *)

(* The sidebar of a document, before anything is changed in it. *)
Fresh(w, loaded) ==
  /\ recentStudyIds' = [recentStudyIds EXCEPT ![w] = loaded.recent]
  /\ isCollapsed' = [isCollapsed EXCEPT ![w] = loaded.collapsed]
  /\ sidePanel' = [sidePanel EXCEPT ![w] = loaded.panel]

(* AppLayout is unmounted, and with it sidebarLogic: its reducers go back  *)
(* to the defaults, which were read when their module was evaluated.       *)
Unmounted(w) == Fresh(w, document[w]) /\ HandleGone(w)

(* The window loads a document: modules are evaluated, which reads the     *)
(* storage, and the scene is set before the sidebar is mounted, so that it *)
(* does not hear of it.                                                    *)
LoadDocument(w, p) ==
  LET loaded == [recent |-> storage.recent, collapsed |-> storage.collapsed,
                 panel |-> [storage.panel EXCEPT !.width = Clamped(@)], began |-> p]
  IN  /\ user' = [user EXCEPT ![w] = "loading"]
      /\ place' = [place EXCEPT ![w] = p]
      /\ document' = [document EXCEPT ![w] = loaded]
      /\ Fresh(w, loaded)
      /\ HandleGone(w)
      /\ language' = [language EXCEPT ![w] = Detected(storage.locale)]
      /\ UNCHANGED <<storage, changes>>

(* A refresh, or an address typed. *)
Visit(w, p) == LoadDocument(w, p) /\ UNCHANGED session

(* loadUser: any failure counts as no user.  App pushes the login page     *)
(* while it renders a scene that needs a user.                             *)
UserLoaded(w, answered) ==
  /\ user[w] = "loading"
  /\ LET found == answered /\ session
     IN  /\ user' = [user EXCEPT ![w] = IF found THEN "member" ELSE "none"]
         /\ place' = [place EXCEPT ![w] = Guard(@, found)]
  /\ UNCHANGED <<session, document, sidebarVars, drag, language, storage, changes>>

Goto(w, p) ==
  /\ Shown(w)
  /\ place' = [place EXCEPT ![w] = p]
  /\ SceneSet(w, p)
  /\ UNCHANGED <<accountVars, document, isCollapsed, sidePanel, drag, language>>

(* A row of the navigation *)
NavLink(w) == Goto(w, Elsewhere)

(* A study the store does not know has no row: its list is loading, or the *)
(* study is not in it.                                                     *)
pinnedStudies(w) == {recentStudyIds[w][i] : i \in DOMAIN recentStudyIds[w]} \cap Listed

(* Rows of the sidebar, which are out of sight while it is collapsed *)
PinnedStudyRow(w, study) ==
  /\ ~isCollapsed[w] /\ study \in pinnedStudies(w)
  /\ Goto(w, study)

(* A link of some scene, the palette, or going back *)
Navigate(w, p) == p \in App /\ Goto(w, p)

(* On a page outside the app: the palette is there too, and the button of  *)
(* the 404.  The scene is set before the sidebar is mounted.               *)
EnterApp(w, p) ==
  /\ place[w] \in Plain /\ p \in App
  /\ place' = [place EXCEPT ![w] = Guard(p, user[w] # "none")]
  /\ UNCHANGED <<accountVars, document, sidebarVars, drag, language, storage, changes>>

(* No link leads out of the app without loading a document, but going back *)
(* to a page that this document began with does.                           *)
BackOut(w) ==
  /\ place[w] \in App /\ document[w].began \in Plain
  /\ place' = [place EXCEPT ![w] = document[w].began]
  /\ Unmounted(w)
  /\ UNCHANGED <<accountVars, document, language, storage, changes>>

(* submitLogin loads /ask, wherever the researcher wanted to go. *)
submitLogin(w, accepted) ==
  /\ place[w] = Login
  /\ IF accepted THEN session' = TRUE /\ LoadDocument(w, Elsewhere)
     ELSE UNCHANGED vars

(* The login page is loaded whether or not the server ended the session:   *)
(* the request carries no CSRF token.                                      *)
handleSignOut(w, ended) ==
  /\ Shown(w) /\ place[w] = Elsewhere
  /\ session' = (session /\ ~ended)
  /\ LoadDocument(w, Login)

(* A scene throws while it renders.  Nothing takes the message back but    *)
(* loading a document: not a link, there is none, nor going back.          *)
SceneThrows(w) ==
  /\ Shown(w)
  /\ place' = [place EXCEPT ![w] = Crashed]
  /\ Unmounted(w)
  /\ UNCHANGED <<accountVars, document, language, storage, changes>>

(* The code of a scene is imported when the scene is first rendered.  An   *)
(* import that failed is kept like one that succeeded (sceneCache, lazy).  *)
lazyForScene(w) ==
  /\ Rendered(w)
  /\ place' = [place EXCEPT ![w] = Crashed]
  /\ Unmounted(w)
  /\ UNCHANGED <<accountVars, document, language, storage, changes>>

(* The button under the message: the address may be any the researcher has *)
(* gone back to.                                                           *)
Reload(w, p) ==
  /\ place[w] = Crashed
  /\ LoadDocument(w, p)
  /\ UNCHANGED session

setLocale(w, locale) ==
  /\ language' = [language EXCEPT ![w] = locale]
  /\ storage' = [storage EXCEPT !.locale = locale]

(* The languages, on the settings page. *)
LocaleSection(w, locale) ==
  /\ Shown(w) /\ place[w] = Elsewhere /\ Count
  /\ setLocale(w, locale)
  /\ UNCHANGED <<accountVars, place, document, sidebarVars, drag>>

Next ==
  \E w \in Window :
    \/ toggleCollapsed(w) \/ toggleSidePanel(w) \/ closeSidePanel(w)
    \/ \E key \in {"/", "."} : OnKeyDown(w, key)
    \/ NavLink(w) \/ \E study \in Listed : PinnedStudyRow(w, study)
    \/ MouseDown(w) \/ MouseUp(w)
    \/ \E locale \in Locale : LocaleSection(w, locale)
    \/ \E width \in DragTo : MouseMove(w, width)
    \/ \E p \in App \cup Plain : Visit(w, p) \/ Reload(w, p)
    \/ BackOut(w) \/ \E p \in App : Navigate(w, p) \/ EnterApp(w, p)
    \/ SceneThrows(w) \/ lazyForScene(w)
    \/ \E b \in BOOLEAN : UserLoaded(w, b) \/ submitLogin(w, b) \/ handleSignOut(w, b)

Spec == Init /\ [][Next]_vars

-----------------------------------------------------------------------------

(* What is dragged is the handle of a panel that is on the screen: however *)
(* the panel goes away in the middle of a drag (the shortcut, the X, a     *)
(* scene that throws, a page outside the app, another document), the mouse *)
(* that moves on changes and stores no width any more.                     *)
DragHasItsHandle == \A w \in Window : drag[w] # None => Shown(w) /\ sidePanel[w].isOpen

(* Each key of the storage holds what some window shows, so that a refresh *)
(* brings one of them back ("the pinned list survives refresh",            *)
(* sidebarLogic.ts:14-16).  One window refutes it: a page outside the app  *)
(* and back, and the sidebar is as it was when the document was loaded,    *)
(* while the storage holds what was changed since.                         *)
StorageIsSomeWindow ==
  /\ \E w \in Window : storage.recent = recentStudyIds[w]
  /\ \E w \in Window : storage.collapsed = isCollapsed[w]
  /\ \E w \in Window : storage.panel = sidePanel[w]
  /\ \E w \in Window : Detected(storage.locale) = language[w]

=============================================================================
