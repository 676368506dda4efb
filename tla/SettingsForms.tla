---------------------------- MODULE SettingsForms ----------------------------
(***************************************************************************)
(* The settings page and its lists with a form: providers and routes of    *)
(* the LLM gateway (LLMGatewaySection.tsx) and the glossary                *)
(* (GlossarySection.tsx).  A list is loaded when its section is shown and  *)
(* after each save; a form takes its texts from an entry when it appears,  *)
(* and only then.  The server of this repository keeps the glossary        *)
(* (cleaning_views.py); what the other two lists ask of is not in it.      *)
(*                                                                         *)
(* What an entry says is known by the entry its texts were taken from, 0   *)
(* when they were typed.  Left out: the fields, presets and budgets, which *)
(* are loaded and shown, the profile.                                      *)
(***************************************************************************)
EXTENDS Naturals, FiniteSetsExt

CONSTANTS
  MaxEntries,   \* bound on entries of a list
  MaxForms,     \* bound on forms shown
  MaxRequests,  \* bound on requests in flight
  None

VARIABLES
  db,        \* entries on the server
  section,   \* the section that is shown
  panels,    \* lists of that section, as loaded, with their form
  forms,     \* forms shown so far
  settings   \* requests in flight

vars == <<db, section, panels, forms, settings>>

-----------------------------------------------------------------------------

List == {"providers", "routes", "glossary"}

Section == {"profile", "workspace", "llm-gateway", "glossary"}

ListsOf(s) ==
  CASE s = "llm-gateway" -> {"providers", "routes"}
    [] s = "glossary" -> {"glossary"}
    [] OTHER -> {}

(* form is the form an entry was created with, primary of a route only.    *)
Entry(id, form, text, primary) ==
  [id |-> id, form |-> form, text |-> text, primary |-> primary]

NoPanel == [entries |-> {}, providers |-> {}, editId |-> None, form |-> None]

Init ==
  /\ db = [l \in List |-> IF l = "routes" THEN {} ELSE {Entry(1, 0, 1, None)}]
  /\ section = "profile"
  /\ panels = [l \in List |-> NoPanel]
  /\ forms = 0
  /\ settings = {}

Room(n) == Cardinality(settings) + n <= MaxRequests

Shown(l) == l \in ListsOf(section)

(* of: for a save, the entry it updates, or None; heard: the section is    *)
(* still the one that asked.                                               *)
Requested(rs, kind, l, of, form) ==
  rs \cup {[id |-> Min((1 .. MaxRequests) \ {r.id : r \in rs}), kind |-> kind, list |-> l,
            of |-> of, form |-> form, heard |-> TRUE, served |-> FALSE, answer |-> {}]}

(* RoutesPanel loads the providers too: one request here. *)
Load(rs, l) == Requested(rs, "load", l, None, None)

-----------------------------------------------------------------------------
(* The page *)

(* Sections that are not shown are unmounted. *)
Navigate(s) ==
  /\ s # section /\ Room(Cardinality(ListsOf(s)))
  /\ section' = s
  /\ panels' = [l \in List |-> NoPanel]
  /\ LET left == {[r EXCEPT !.heard = FALSE] : r \in settings}
     IN  settings' = IF s = "llm-gateway" THEN Load(Load(left, "providers"), "routes")
                     ELSE IF s = "glossary" THEN Load(left, "glossary")
                     ELSE left
  /\ UNCHANGED <<db, forms>>

Ids(es) == {e.id : e \in es}

(* useState of a form that appears: texts of an entry the list has, the    *)
(* first provider.                                                         *)
NewForm(l, of) ==
  LET existing == {e \in panels[l].entries : e.id = of}
  IN  [n |-> forms + 1,
       text |-> IF existing = {} THEN 0 ELSE of,
       filled |-> existing # {},
       primary |-> IF panels[l].providers = {} THEN None ELSE Min(panels[l].providers),
       saving |-> FALSE]

(* A form that is shown already stays as it is. *)
ShowForm(l, of) ==
  /\ IF panels[l].form = None
       THEN /\ forms < MaxForms
            /\ forms' = forms + 1
            /\ panels' = [panels EXCEPT ![l].editId = of, ![l].form = NewForm(l, of)]
       ELSE /\ panels' = [panels EXCEPT ![l].editId = of]
            /\ UNCHANGED forms
  /\ UNCHANGED <<db, section, settings>>

(* Routes cannot be edited. *)
Edit(l) == l # "routes" /\ \E id \in Ids(panels[l].entries) : ShowForm(l, id)

Add(l) == ShowForm(l, None)

-----------------------------------------------------------------------------
(* A form *)

Cancel(l) ==
  /\ panels' = [panels EXCEPT ![l].form = None]
  /\ UNCHANGED <<db, section, forms, settings>>

(* Texts, or a preset *)
Fill(l) ==
  /\ l # "routes"
  /\ panels' = [panels EXCEPT ![l].form.filled = ~@]
  /\ UNCHANGED <<db, section, forms, settings>>

(* Of those that are loaded by now *)
ChooseProvider(l) ==
  /\ \E p \in panels[l].providers : panels' = [panels EXCEPT ![l].form.primary = p]
  /\ UNCHANGED <<db, section, forms, settings>>

(* Wrong variant: the button is not disabled while a save is under way. *)
CanSaveAgain(l) ==
  IF l = "routes" THEN panels[l].form.primary # None ELSE panels[l].form.filled

CanSave(l) ==
  /\ ~panels[l].form.saving
  /\ IF l = "routes" THEN panels[l].form.primary # None ELSE panels[l].form.filled

Save(l) ==
  /\ CanSave(l) /\ Room(1)
  /\ panels' = [panels EXCEPT ![l].form.saving = TRUE]
  /\ settings' = Requested(settings, "save", l, panels[l].editId, panels[l].form)
  /\ UNCHANGED <<db, section, forms>>

Form(l) == panels[l].form # None /\ (Cancel(l) \/ Fill(l) \/ ChooseProvider(l) \/ Save(l))

-----------------------------------------------------------------------------
(* The server *)

Serve(r) ==
  /\ ~r.served
  /\ IF r.kind = "load"
       THEN UNCHANGED db
       ELSE /\ r.of # None \/ Cardinality(db[r.list]) < MaxEntries
            /\ db' = [db EXCEPT ![r.list] =
                 IF r.of # None
                   THEN {IF e.id = r.of THEN [e EXCEPT !.text = r.form.text] ELSE e : e \in @}
                   ELSE @ \cup {Entry(Cardinality(@) + 1, r.form.n, r.form.text,
                                      IF r.list = "routes" THEN r.form.primary ELSE None)}]
  /\ settings' = (settings \ {r}) \cup
       {[r EXCEPT !.served = TRUE,
                  !.answer = IF r.kind = "load" THEN [entries |-> db[r.list],
                                                      providers |-> Ids(db["providers"])]
                             ELSE {}]}
  /\ UNCHANGED <<section, panels, forms>>

(* The answer of a load *)
Loaded(r) ==
  /\ r.kind = "load" /\ r.served
  /\ panels' = IF ~r.heard THEN panels
               ELSE [panels EXCEPT
                 ![r.list].entries = r.answer.entries,
                 ![r.list].providers = IF r.list = "routes" THEN r.answer.providers ELSE {}]
  /\ settings' = settings \ {r}
  /\ UNCHANGED <<db, section, forms>>

(* onDone hides whichever form is shown by now, and loads. *)
Saved(r) ==
  /\ r.kind = "save" /\ r.served
  /\ panels' = IF r.heard THEN [panels EXCEPT ![r.list].form = None] ELSE panels
  /\ settings' = {[q EXCEPT !.heard = @ /\ (q \in settings \/ r.heard)] :
                    q \in Load(settings \ {r}, r.list)}
  /\ UNCHANGED <<db, section, forms>>

(* Nothing was done: the button of that form, if it is shown, is enabled.  *)
(* Left out: an answer that is lost although the save was done, which      *)
(* looks the same to the form and lets it create another entry.            *)
Failed(r) ==
  /\ ~r.served
  /\ LET form == panels[r.list].form
     IN  panels' = IF r.kind = "save" /\ form # None /\ form.n = r.form.n
                     THEN [panels EXCEPT ![r.list].form.saving = FALSE] ELSE panels
  /\ settings' = settings \ {r}
  /\ UNCHANGED <<db, section, forms>>

-----------------------------------------------------------------------------

Panel(l) == Shown(l) /\ (Edit(l) \/ Add(l) \/ Form(l))

Next ==
  \/ \E s \in Section : Navigate(s)
  \/ \E l \in List : Panel(l)
  \/ \E r \in settings : Serve(r) \/ Loaded(r) \/ Saved(r) \/ Failed(r)

Spec == Init /\ [][Next]_vars

-----------------------------------------------------------------------------

(* A form creates one entry at most, also when another row's Edit or Add   *)
(* is clicked, the form or the section left, or a save repeated that has   *)
(* failed; and the provider of a route exists, although the providers on   *)
(* the page may be older than the route.                                   *)
FormsCreateOnce ==
  /\ \A l \in List : \A e1, e2 \in db[l] : e1.form = e2.form /\ e1.form # 0 => e1 = e2
  /\ \A e \in db["routes"] : e.primary \in Ids(db["providers"])

(* The texts of an entry are its own (violated: Edit of another row while  *)
(* the form is shown moves the form's texts there).                        *)
TextsAreOwn == \A l \in List : \A e \in db[l] : e.text \in {0, e.id}

=============================================================================
