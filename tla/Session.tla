------------------------------ MODULE Session ------------------------------
(***************************************************************************)
(* Signing in and out of the console (web/src/App.tsx, pages/Callback.tsx, *)
(* pkg/dashboard/handlers_auth.go and api.go) and the guard of its pages.  *)
(* The cookies belong to the browser and change under a tab: another tab   *)
(* signs in or out, a cookie expires after seven days.  The tab knows them *)
(* from answers it keeps, one for the guard and one for the buttons of the *)
(* header; the latter is polled, may be old all the same, and is left out. *)
(***************************************************************************)
CONSTANTS
    Hosts,     \* the GitHub hosts of auth.yaml; none means open access
    Loading,   \* the first answer is outstanding
    Unknown    \* the first request has failed

ASSUME SessionAssumption ==
    Loading # Unknown /\ \A S \in SUBSET Hosts : Loading # S /\ Unknown # S

VARIABLES
    cookies,   \* the hosts the browser is signed in to
    guard,     \* the entry "auth-guard", what RequireAuth decides on
    stale,     \* a mutate has marked it and no answer has renewed it yet
    leaving    \* history: this tab signed out of the last host, and nothing since

sessionVars == <<cookies, guard, stale, leaving>>

SessionTypeOK ==
    /\ cookies \subseteq Hosts
    /\ guard \notin {Loading, Unknown} => guard \subseteq Hosts
    /\ stale \in BOOLEAN
    /\ leaving \in BOOLEAN /\ (leaving => cookies = {})

\* A tab that has just been loaded; the guard asks when a guarded page mounts.
SessionInit ==
    /\ cookies = {}
    /\ guard = Loading /\ stale = FALSE /\ leaving = FALSE

-----------------------------------------------------------------------------
\* RequireAuth sends the operator home: it knows that he is signed in nowhere.
Shut(g) == Hosts # {} /\ g = {}

\* RequireAuth shows its page; also when it could not find out.
Open(g) == g # Loading /\ ~Shut(g)

\* AuthMiddleware.
SignedIn == Hosts = {} \/ cookies # {}

\* The guard asks when it mounts, on focus and when its key is mutated.
FetchGuard ==
    /\ guard' = cookies
    /\ stale' = FALSE
    /\ UNCHANGED <<cookies, leaving>>

\* Its first request fails; a repeated one is a first one again.
MissGuard ==
    /\ \/ guard = Loading /\ guard' = Unknown
       \/ guard = Unknown /\ guard' = Loading
    /\ UNCHANGED <<cookies, stale, leaving>>

\* Slip: the key of the guard is forgotten.
LogoutUnmarked(h) ==
    /\ cookies' = cookies \ {h} /\ leaving' = (cookies' = {})
    /\ UNCHANGED <<guard, stale>>

\* handleLogout: the cookie goes with the answer, then the entry is mutated.  An
\* answer of anybody else leaves the cookie, which the client does not notice;
\* a call that is rejected brings no answer, and nothing is mutated.
Logout(h) ==
    \/ /\ cookies' \in {cookies \ {h}, cookies} /\ leaving' = (cookies' = {})
       /\ stale' = TRUE
       /\ UNCHANGED guard
    \/ UNCHANGED sessionVars

\* The redirect to GitHub and back loads the tab anew: every answer is lost.
Reload ==
    /\ guard' = Loading /\ stale' = FALSE /\ leaving' = FALSE

\* Callback: the code is exchanged for the cookie, or it is not.
Exchange(h) ==
    /\ cookies' \in {cookies, cookies \cup {h}}
    /\ UNCHANGED <<guard, stale, leaving>>

\* Another tab, or the calendar.
CookiesChange ==
    /\ \E h \in Hosts : cookies' \in {cookies \cup {h}, cookies \ {h}} \ {cookies}
    /\ leaving' = FALSE
    /\ UNCHANGED <<guard, stale>>
=============================================================================
