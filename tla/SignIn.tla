------------------------------- MODULE SignIn -------------------------------
(***************************************************************************)
(* Signing in and out in the browser: App.tsx's guard and userLogic.ts,    *)
(* LoginPage.tsx, loginLogic.ts and csrfFetch of useCSRFToken.ts, and the  *)
(* sign-out button of SettingsPage.tsx.                                    *)
(*                                                                         *)
(* A document is loaded by an address; everything in it is lost with it,   *)
(* the requests under way included.  The server's part is Django's, which  *)
(* refuses a POST without the token of the csrftoken cookie, and a login   *)
(* it accepts sets the session cookie.                                     *)
(***************************************************************************)
EXTENDS Naturals

CONSTANTS
  Pitches,   \* length of PITCHES
  None

VARIABLES
  session,   \* the browser's session cookie is that of a signed-in user
  cookie,    \* there is a csrftoken cookie
  scene,     \* "login" or "app"
  user,      \* userLogic: "loading", "known" or None
  form,      \* loginLogic: which fields are valid, which errors are shown
  login,     \* the submission under way, or None
  pitchIndex

pageVars == <<scene, user, form, login, pitchIndex>>
vars == <<session, cookie, pageVars>>

-----------------------------------------------------------------------------

(* The errors of a field are shown once a submission has found one. *)
NoForm == [email |-> FALSE, password |-> FALSE, showErrors |-> FALSE]

(* isLoginSubmitting *)
Submitting == login # None

(* A new document: its app loads the user, its login page is empty and     *)
(* starts with the pitch of the day.                                       *)
Document(address) ==
  /\ scene' = address
  /\ user' = "loading"
  /\ form' = NoForm
  /\ login' = None
  /\ pitchIndex' \in 0 .. Pitches - 1

Init ==
  /\ session \in BOOLEAN
  /\ cookie \in BOOLEAN
  /\ scene \in {"login", "app"}
  /\ user = "loading"
  /\ form = NoForm
  /\ login = None
  /\ pitchIndex \in 0 .. Pitches - 1

OpenDocument ==
  /\ \E address \in {"login", "app"} : Document(address)
  /\ UNCHANGED <<session, cookie>>

(* loadUser: no user for whatever goes wrong; an API request sets no token. *)
UserLoaded ==
  /\ user = "loading"
  /\ \E lost \in BOOLEAN : user' = IF session /\ ~lost THEN "known" ELSE None
  /\ UNCHANGED <<session, cookie, scene, form, login, pitchIndex>>

(* The guard of a scene that is not public: without a user it pushes the   *)
(* address of the login page.                                              *)
Guard ==
  /\ scene = "app" /\ user = None
  /\ scene' = "login"
  /\ form' = NoForm
  /\ login' = None
  /\ pitchIndex' \in 0 .. Pitches - 1
  /\ UNCHANGED <<session, cookie, user>>

-----------------------------------------------------------------------------
(* The login page *)

(* The interval is cleared while a login is submitted. *)
RotatePitch ==
  /\ scene = "login" /\ ~Submitting
  /\ pitchIndex' = (pitchIndex + 1) % Pitches
  /\ UNCHANGED <<session, cookie, scene, user, form, login>>

ShowPitch(i) ==
  /\ scene = "login"
  /\ pitchIndex' = i
  /\ UNCHANGED <<session, cookie, scene, user, form, login>>

(* The fields may be edited during a submission, too. *)
Edit ==
  /\ scene = "login"
  /\ \E field \in {"email", "password"}, valid \in BOOLEAN :
       form' = [form EXCEPT ![field] = valid]
  /\ UNCHANGED <<session, cookie, scene, user, login, pitchIndex>>

Errors == ~form.email \/ ~form.password

(* csrfFetch: with a token it posts; without one it asks for the cookie.   *)
CsrfFetch ==
  IF cookie THEN [stage |-> "posting", token |-> TRUE, primed |-> TRUE]
            ELSE [stage |-> "priming", token |-> FALSE, primed |-> FALSE]

(* The button is disabled while it loads. *)
SubmitLogin ==
  /\ scene = "login" /\ ~Submitting
  /\ IF Errors
       THEN form' = [form EXCEPT !.showErrors = TRUE] /\ UNCHANGED login
       ELSE login' = CsrfFetch /\ UNCHANGED form
  /\ UNCHANGED <<session, cookie, scene, user, pitchIndex>>

Posted(primed, token) == [stage |-> "posting", token |-> token, primed |-> primed]

(* primeToken gives up after five seconds; whether it came or not, the     *)
(* cookie is read again and the login is posted.                           *)
Primed ==
  /\ Submitting /\ login.stage = "priming"
  /\ \E came \in BOOLEAN :
       /\ cookie' = (cookie \/ came)
       /\ login' = Posted(came, cookie')
  /\ UNCHANGED <<session, scene, user, form, pitchIndex>>

(* A login that is accepted loads the app anew; any other ends with the    *)
(* submission and says nothing.                                            *)
LoginAnswered ==
  /\ Submitting /\ login.stage = "posting"
  /\ \/ /\ login.token
        /\ session' = TRUE
        /\ cookie' = TRUE
        /\ Document("app")
     \/ /\ login' = None
        /\ UNCHANGED <<session, cookie, scene, user, form, pitchIndex>>

-----------------------------------------------------------------------------

(* The post carries no token: Django refuses it.  The page is left for the *)
(* login page in any case.                                                 *)
HandleSignOut ==
  /\ scene = "app" /\ user = "known"
  /\ Document("login")
  /\ UNCHANGED <<session, cookie>>

(* The session runs out, or the cookies are deleted. *)
CookiesGo ==
  /\ session' = FALSE
  /\ cookie' \in {cookie, FALSE}
  /\ UNCHANGED pageVars

Next ==
  \/ OpenDocument \/ UserLoaded \/ Guard
  \/ RotatePitch \/ (\E i \in 0 .. Pitches - 1 : ShowPitch(i))
  \/ Edit \/ SubmitLogin \/ Primed \/ LoginAnswered
  \/ HandleSignOut \/ CookiesGo

Spec == Init /\ [][Next]_vars

-----------------------------------------------------------------------------

(* A login is posted with the token unless the browser could not get one   *)
(* (csrfFetch: "returns fetch init with CSRF + credentials already set"):  *)
(* it is refused for want of it only when asking for the cookie failed.    *)
LoginCarriesToken ==
  Submitting /\ login.stage = "posting" /\ login.primed => login.token

=============================================================================
