-------------------------------- MODULE Browser --------------------------------
(***************************************************************************)
(* One person's browser: the tabs, the cookie that holds the session and   *)
(* the cookie that remembers the firm, which the tabs share, and what the  *)
(* API knows of the person.  A tab signs in, enrolls or recovers, is       *)
(* redirected, mounts the shell, switches firms, reads, and signs out,     *)
(* while the session and the memberships end and answers are lost.         *)
(***************************************************************************)
EXTENDS Naturals, Authorization

CONSTANTS Tab, Firm,
          Roles,        \* the archetypes the person may have in a firm
          Beginnings,   \* the memberships there may be at first
          Remembered,   \* what an earlier visit may have left of a choice (bound)
          Reading,      \* the screen whose list is followed
          MaxSessions,  \* bound: sessions minted
          MaxTurns,     \* bound: firms chosen and memberships changed
          None

ASSUME BrowserAssumption ==
  /\ Roles \subseteq Archetypes /\ Beginnings \subseteq [Firm -> Roles \cup {None}]
  /\ Remembered \subseteq Firm \cup {None} /\ Reading \in Screens /\ MaxSessions \in Nat /\ MaxTurns \in Nat
  /\ None \notin Firm \cup Tab \cup Nat \cup Archetypes

VARIABLES live,       \* session: those the API would resolve
          minted,     \* the sessions there have been
          standing,   \* membership: the archetype of the person in each firm, or None
          factor,     \* identity_factor: "none", the tab whose secret it holds, or "confirmed"
          challenge,  \* the tab that was given the challenge that stands, or None
          cookie,     \* the session in the cookie, or None
          choice,     \* the firm in the other cookie, or None
          tab,        \* what each tab is at
          cache,      \* the list of Reading in each tab: the firm it is of, the firm a fetch asked for
          chooser,    \* history: the tab that switched firms last, if the list was on its screen, or None
          turns       \* firms chosen and memberships changed

Sessions == <<live, minted, factor, challenge>>
Api == <<Sessions, standing>>
Choosing == <<choice, chooser>>
browserVars == <<Api, cookie, Choosing, turns, tab, cache>>

Goes(t, r) == tab' = [tab EXCEPT ![t] = r]
At(t, where) == tab[t].at = where

\* A request of the browser for a page.
Going(path) == [at |-> "going", to |-> path]
Form(path) == [at |-> path]

\* Nothing read yet, nothing asked.
Unread == [shown |-> None, asked |-> None]

\* The firm of an earlier visit may be remembered: signing out forgets the session only.
BrowserInit ==
  /\ live = {} /\ minted = 0 /\ cookie = None /\ choice \in Remembered
  /\ standing \in Beginnings
  /\ factor \in {"none", "confirmed"} /\ challenge = None
  /\ tab = [t \in Tab |-> Form("ingresar")] /\ cache = [t \in Tab |-> Unread]
  /\ chooser = None /\ turns = 0

Memberships == {f \in Firm : standing[f] # None}
Authenticated == cookie \in live

-----------------------------------------------------------------------------
\* Signing in.  Each form calls the API directly; an answer that is lost leaves the form as
\* it is and the API as it has become.

\* A session is written and its tokens are the answer.
Mints == minted < MaxSessions /\ minted' = minted + 1 /\ live' = live \cup {minted + 1}

SubmitCredentials(t) ==
  /\ At(t, "ingresar")
  /\ IF factor = "confirmed"
     THEN challenge' = t /\ (Goes(t, Form("verificar")) \/ UNCHANGED tab)
     ELSE Goes(t, Form("enrolar")) /\ UNCHANGED challenge
  /\ UNCHANGED <<live, minted, standing, factor, cookie, Choosing, turns, cache>>

\* The server of the front end completes the challenge; the cookie comes with its answer.
SubmitCode(t) ==
  /\ At(t, "verificar") /\ challenge = t /\ factor = "confirmed"
  /\ Mints /\ challenge' = None
  /\ Goes(t, [at |-> "arriving", session |-> minted + 1]) \/ UNCHANGED tab
  /\ UNCHANGED <<standing, factor, cookie, Choosing, turns, cache>>

\* A backup code: the factor is to be enrolled again and every session ends.
SubmitRecovery(t) ==
  /\ At(t, "verificar") /\ challenge = t /\ factor = "confirmed"
  /\ challenge' = None /\ factor' = "none" /\ live' = {}
  /\ Goes(t, Form("enrolar")) \/ UNCHANGED tab
  /\ UNCHANGED <<minted, standing, cookie, Choosing, turns, cache>>

\* A new secret takes the place of another that was not confirmed.
BeginEnrollment(t) ==
  /\ At(t, "enrolar")
  /\ IF factor = "confirmed" THEN Goes(t, Form("failed")) /\ UNCHANGED factor
     ELSE factor' = t /\ (Goes(t, Form("register")) \/ Goes(t, Form("failed")))
  /\ UNCHANGED <<live, minted, standing, challenge, cookie, Choosing, turns, cache>>

\* The codes are shown and the session waits in the page until they are acknowledged.
ConfirmEnrollment(t) ==
  /\ At(t, "register") /\ factor = t
  /\ Mints /\ factor' = "confirmed"
  /\ Goes(t, [at |-> "codes", session |-> minted + 1]) \/ UNCHANGED tab
  /\ UNCHANGED <<standing, challenge, cookie, Choosing, turns, cache>>

\* The session of the page is kept only if the API resolves it.
Acknowledge(t) ==
  /\ At(t, "codes") /\ tab[t].session \in live
  /\ Goes(t, [at |-> "arriving", session |-> tab[t].session])
  /\ UNCHANGED <<Api, cookie, Choosing, turns, cache>>

\* The answer sets the cookie, and the form goes on to the shell.
Arrive(t) ==
  /\ At(t, "arriving")
  /\ cookie' = tab[t].session /\ Goes(t, Going("home"))
  /\ UNCHANGED <<Api, Choosing, turns, cache>>

-----------------------------------------------------------------------------
\* A request for a page: proxy.ts, and then the root layout.

Public == {"ingresar", "enrolar"}

\* Mutant: what the browser remembers is taken as it is.
ResolvedAsRemembered(remembered, held) ==
  IF remembered # None THEN remembered ELSE IF Cardinality(held) = 1 THEN CHOOSE f \in held : TRUE ELSE None

\* The firm remembered, if the person is in it; the only one, if there is one; or none.
Resolved(remembered, held) ==
  IF remembered \in held THEN remembered
  ELSE IF Cardinality(held) = 1 THEN CHOOSE f \in held : TRUE
  ELSE None

\* The role a page draws its controls for; None is an empty page.
PageOf(f, roles) == IF f = None THEN None ELSE roles[f]

\* A document is loaded: what its queries had is gone.
Forgotten(t) == [cache EXCEPT ![t] = Unread]

\* The shell's effect: the firm it resolved is written when it is not the one it had.  It
\* begins no query again.
Corrects(raw, held) ==
  LET firm == Resolved(raw, held)
  IN  IF firm \notin {None, raw} THEN choice' = firm /\ chooser' = None ELSE UNCHANGED Choosing

\* The shell is mounted on what the layout read, with the screen of the list or another.
Mounts(t) ==
  /\ \E open \in BOOLEAN :
       Goes(t, [at |-> "shell", roles |-> standing, raw |-> choice, stale |-> FALSE, open |-> open,
                page |-> PageOf(Resolved(choice, Memberships), standing)])
  /\ Corrects(choice, Memberships)
  /\ UNCHANGED <<cookie, cache>>

Redirects(t, path) == Goes(t, Going(path)) /\ UNCHANGED <<cookie, Choosing, cache>>

\* Mutant: a dead session is sent to sign in at once.
DeadSessionGoesStraight == "ingresar"

DeadSessionGoes == "expirada"

Request(t) ==
  /\ At(t, "going")
  /\ LET path == tab[t].to
     IN  IF cookie = None /\ path \notin Public THEN Redirects(t, "ingresar")
         ELSE IF cookie # None /\ path = "ingresar" THEN Redirects(t, "home")
         ELSE IF path \in Public THEN Goes(t, Form(path)) /\ UNCHANGED <<cookie, Choosing, cache>>
         ELSE IF path = "expirada"
              THEN cookie' = None /\ Goes(t, Going("ingresar")) /\ cache' = Forgotten(t) /\ UNCHANGED Choosing
         ELSE \/ Authenticated /\ Mounts(t)
              \/ ~Authenticated /\ Redirects(t, DeadSessionGoes)
  /\ UNCHANGED <<Api, turns>>

\* The API did not answer: nobody is signed in, as far as the layout can tell.
RequestUnanswered(t) ==
  /\ At(t, "going") /\ tab[t].to = "home" /\ cookie # None
  /\ Redirects(t, DeadSessionGoes)
  /\ UNCHANGED <<Api, turns>>

\* The person loads a page anew, or goes to an address.
Load(t) ==
  /\ tab[t].at \notin {"going", "arriving", "leaving"}
  /\ \E path \in {"home", "ingresar"} : Goes(t, Going(path))
  /\ cache' = Forgotten(t)
  /\ UNCHANGED <<Api, cookie, Choosing, turns>>

-----------------------------------------------------------------------------
\* The shell.

InShell(t) == At(t, "shell")
Held(t) == {f \in Firm : tab[t].roles[f] # None}
FirmShown(t) == Resolved(tab[t].raw, Held(t))
\* The list is on the screen: a page, and no picker instead of it.
Open(t) == InShell(t) /\ tab[t].open /\ tab[t].page # None /\ FirmShown(t) # None

Queries(t, data) == cache' = [cache EXCEPT ![t] = data]

\* Mutant: a fetch in flight is let go on.
InvalidatedInFlight(data, f) == IF data.asked # None THEN data ELSE [data EXCEPT !.asked = f]

\* A query that has nothing yet goes on with its first fetch; another is begun again.
Invalidated(data, f) ==
  IF data.asked # None /\ data.shown = None THEN data ELSE [data EXCEPT !.asked = f]

\* The picker or the switcher: the cookie, the state, the queries, and the page.  A list that
\* is not on the screen keeps what it has and what it asked.
Switch(t) ==
  /\ InShell(t) /\ Cardinality(Held(t)) > 1 /\ turns < MaxTurns
  /\ \E f \in Held(t) \ {FirmShown(t)} :
       /\ choice' = f
       /\ tab' = [tab EXCEPT ![t].raw = f, ![t].stale = TRUE]
       /\ Queries(t, IF Open(t) THEN Invalidated(cache[t], f) ELSE cache[t])
  /\ chooser' = (IF Open(t) THEN t ELSE None) /\ turns' = turns + 1
  /\ UNCHANGED <<Api, cookie>>

\* router.refresh(): the layout and the page again, the state of the shell as it was.
Refresh(t) ==
  /\ InShell(t) /\ tab[t].stale
  /\ IF Authenticated
     THEN /\ tab' = [tab EXCEPT ![t].stale = FALSE, ![t].roles = standing,
                                ![t].page = PageOf(Resolved(choice, Memberships), standing)]
          /\ Corrects(tab[t].raw, Memberships)
     ELSE Goes(t, Going(DeadSessionGoes)) /\ UNCHANGED Choosing
  /\ UNCHANGED <<Api, cookie, turns, cache>>

\* The shell is rendered anew, which runs the effect again while its firm is a corrected one.
Render(t) ==
  /\ InShell(t) /\ Corrects(tab[t].raw, Held(t))
  /\ UNCHANGED <<Api, cookie, turns, tab, cache>>

\* A link of the navigation: the page is new, the layout and the queries are kept.
Follow(t) ==
  /\ InShell(t)
  /\ LET firm == IF Authenticated THEN Resolved(choice, Memberships) ELSE None
     IN  \E open \in BOOLEAN : tab' = [tab EXCEPT ![t].page = PageOf(firm, standing), ![t].open = open]
  /\ UNCHANGED <<Api, cookie, Choosing, turns, cache>>

\* The list reads when its screen is mounted or the tab is come back to, unless it already does.
Ask(t) ==
  /\ Open(t) /\ cache[t].asked = None /\ choice # None
  /\ Queries(t, [cache[t] EXCEPT !.asked = choice])
  /\ UNCHANGED <<Api, cookie, Choosing, turns, tab>>

\* The answer of the API: whether the person is signed in and is in the firm the request names.
Admitted(f) ==
  live # {} /\ standing[f] # None /\ Decision(Reads[Reading], standing[f], TRUE) = "permitted"

\* It is taken wherever the tab has got to.
Answer(t) ==
  /\ cache[t].asked # None
  /\ \/ Admitted(cache[t].asked) /\ Queries(t, [shown |-> cache[t].asked, asked |-> None])
     \/ Queries(t, [cache[t] EXCEPT !.asked = None])
  /\ UNCHANGED <<Api, cookie, Choosing, turns, tab>>

\* What no screen shows is dropped after a while.
Forget(t) ==
  /\ ~Open(t) /\ cache[t].asked = None
  /\ cache' = Forgotten(t)
  /\ UNCHANGED <<Api, cookie, Choosing, turns, tab>>

\* Signing out: the token is read, the API is called, and the cookie is cleared whatever it
\* answered.
SignOut(t) ==
  /\ InShell(t)
  /\ Goes(t, [at |-> "leaving", session |-> cookie])
  /\ UNCHANGED <<Api, cookie, Choosing, turns, cache>>

CallSignOut(t) ==
  /\ At(t, "leaving")
  /\ live' = live \ {tab[t].session} \/ UNCHANGED live
  /\ cookie' = None /\ Goes(t, Going("ingresar"))
  /\ UNCHANGED <<minted, standing, factor, challenge, Choosing, turns, cache>>

-----------------------------------------------------------------------------
\* A session ends by its age or elsewhere; a membership begins, ends, or is another.
SessionEnds ==
  /\ \E s \in live : live' = live \ {s}
  /\ UNCHANGED <<minted, standing, factor, challenge, cookie, Choosing, turns, tab, cache>>

MembershipChanges ==
  /\ turns < MaxTurns /\ turns' = turns + 1
  /\ \E f \in Firm, r \in Roles \cup {None} : standing[f] # r /\ standing' = [standing EXCEPT ![f] = r]
  /\ UNCHANGED <<live, minted, factor, challenge, cookie, Choosing, tab, cache>>

Acts(t) ==
  \/ SubmitCredentials(t) \/ SubmitCode(t) \/ SubmitRecovery(t)
  \/ BeginEnrollment(t) \/ ConfirmEnrollment(t) \/ Acknowledge(t) \/ Arrive(t)
  \/ Request(t) \/ RequestUnanswered(t) \/ Load(t)
  \/ Switch(t) \/ Refresh(t) \/ Render(t) \/ Follow(t) \/ Ask(t) \/ Answer(t) \/ Forget(t)
  \/ SignOut(t) \/ CallSignOut(t)

BrowserNext == (\E t \in Tab : Acts(t)) \/ SessionEnds \/ MembershipChanges

\* A browser follows redirects.
FollowsRedirects == \A t \in Tab : WF_browserVars(Request(t))

BrowserSpec == BrowserInit /\ [][BrowserNext]_browserVars /\ FollowsRedirects

-----------------------------------------------------------------------------
\* Redirects end: no page sends the browser to another that sends it back.  (proxy.ts and the
\* root layout, of which one looks for a cookie and the other for a session.)
NavigationEnds == \A t \in Tab : At(t, "going") ~> ~At(t, "going")

\* Somebody who is in one firm is in it as soon as the shell is mounted, whatever the browser
\* remembers, and the firm shown is one of theirs.  (resolve-active-tenant.ts.)
OneFirmIsEntered ==
  \A t \in Tab : InShell(t) =>
    /\ FirmShown(t) \in Held(t) \cup {None}
    /\ Cardinality(Held(t)) = 1 => FirmShown(t) \in Held(t)

\* After a switch with the list on the screen, no answer for the firm that was left takes the
\* place of what the tab has, wherever it goes next, until the firm is written by a switch with
\* the list off the screen, by another tab or by the shell itself.  (Shell.tsx
\* handleSwitchTenant.)
NoLateAnswerOfTheFirmLeft ==
  [][\A t \in Tab :
       chooser = t /\ chooser' = t /\ cache[t].shown # None /\ cache'[t].shown \notin {None, cache[t].shown}
       => cache'[t].shown = choice]_browserVars

\* What a page draws for the role it was rendered with, the API permits that role; so does
\* it the reading that each screen of the navigation begins with.  (capability-matrix.ts,
\* navigation-items.ts and matrix.ts, which are kept in step by hand.)
DrawnIsAdmitted ==
  \A t \in Tab : InShell(t) /\ tab[t].page # None =>
    LET r == tab[t].page
    IN  /\ \A c \in Controls : Can(c, r) <=> Status(c, Decision(c, r, TRUE)) = "200"
        /\ \A s \in Screens : r \in Shown(s) => Decision(Reads[s], r, TRUE) = "permitted"

\* specs/016a FR-011: after a switch nothing of the previous firm stays on the screen.
NothingOfTheFirmLeft ==
  [][\A t \in Tab :
       chooser = t /\ Open(t)' /\ cache'[t].shown \notin {None, cache[t].shown}
       => cache'[t].shown = FirmShown(t)]_browserVars

\* The same of what a screen has already: an answer replaces it with the firm chosen.
WhatReplacesIsOfTheChoice ==
  [][\A t \in Tab :
       Open(t) /\ FirmShown(t) = choice /\ cache[t].shown # None /\ cache'[t].shown \notin {None, cache[t].shown}
       => cache'[t].shown = choice]_browserVars

\* specs/016a FR-008: the firm the header names is the one the requests are about.
HeaderNamesTheFirmAsked == \A t \in Tab : InShell(t) /\ FirmShown(t) # None => choice = FirmShown(t)

\* api/sesion/expirada says that it is reached only when the session is dead.
OnlyTheDeadAreExpired == \A t \in Tab : At(t, "going") /\ tab[t].to = "expirada" => ~Authenticated

\* proxy.ts says that the next navigation of a session that ended does not render the shell.
DeadSessionLeaves == [][\A t \in Tab : InShell(t) /\ tab'[t] # tab[t] /\ tab'[t].at = "shell"
                          /\ tab[t].page # None /\ tab'[t].page = None => Authenticated]_browserVars

\* The codes are shown to whoever enrolled.  (FR-024: they are shown once.)
EnrolledHasSeenCodes ==
  [][factor # "confirmed" /\ factor' = "confirmed" => \E t \in Tab : tab'[t].at = "codes"]_browserVars
=============================================================================
