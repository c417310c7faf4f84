-------------------------------- MODULE Pages ---------------------------------
(***************************************************************************)
(* The pages of the gateway in the tabs of one browser, on top of Session: *)
(* what the gateway answers to a navigation, and the scripts that every    *)
(* page starts with, which check the access token, refresh the tokens and  *)
(* send the browser on.                                                    *)
(*                                                                         *)
(* Of a template the model keeps the sort of the page and what its script  *)
(* does first.  The home page, a profile and a path start alike and are of *)
(* one sort, "page"; the gate is the empty page with a script that "/" and *)
(* "/user" answer with when the request carries no valid claims.           *)
(***************************************************************************)
EXTENDS Session

VARIABLES
    page,             \* what each tab shows, and where its script is
    solo              \* history: since the tab was opened no other tab had a request
                      \* under /auth under way and none of its own failed

pageVars == <<page, solo>>

Show(at, script) == [at |-> at, script |-> script]

Blank == Show("none", "rest")

\* A script is about to ask /authenticated ("load") or /auth/refresh ("refresh"),
\* waits for an answer, or has ended; after location.replace or reload the page is as
\* good as gone.
PageState == [at : {"none", "gate", "login", "page", "logout"},
              script : {"load", "refresh", "wait", "toHome", "toLogin", "rest"}]

PageInit ==
    /\ Init
    /\ page = [t \in Tabs |-> Blank]
    /\ solo = [t \in Tabs |-> FALSE]

Turn(t, p) == page' = [page EXCEPT ![t] = p]

Script(t, script) == Turn(t, [page[t] EXCEPT !.script = script])

Leave(t, script) == Turn(t, Show("none", script))

At(t, at, script) == page[t] = Show(at, script)

\* The tab is sent a request under /auth: the others are no longer alone.
Disturb(t) == solo' = [u \in Tabs |-> u = t /\ solo[u]]

-------------------------------------------------------------------------------
(* The gateway: its templates, and the handlers that choose among them.    *)

Home == Show("page", "load")
Profile == Show("page", "load")
Path == Show("page", "load")
Login == Show("login", "load")
RefreshOrLoginPage == Show("gate", "refresh")

HandleHome == IF HasClaims THEN Home ELSE RefreshOrLoginPage

\* "/user", which sends the browser on to "/user/{id}" of the claims.
HandleIDlessProfile == IF HasClaims THEN Profile ELSE RefreshOrLoginPage

LoginPageHandler == Login

\* "/path/{id}" and "/user/{id}" look at no claims.
HandlePath == Path
HandleProfile == Profile

HandleAuthenticated == HasClaims

-------------------------------------------------------------------------------
(* The user.                                                               *)

Open(t) ==
    /\ page[t].script = "rest"
    /\ \E p \in {HandleHome, HandleIDlessProfile, LoginPageHandler, HandlePath, HandleProfile} :
          Turn(t, p)
    /\ solo' = [solo EXCEPT ![t] = Alone(t)]
    /\ UNCHANGED vars

\* The tab is closed, or the page is stopped: its request is given up.
Close(t) ==
    /\ page[t] # Blank
    /\ IF tab[t] = Idle THEN UNCHANGED vars ELSE Fail(t)
    /\ Turn(t, Blank)
    /\ solo' = [solo EXCEPT ![t] = FALSE]

\* The one-time password is sent from the login page.
SendOtp(t) ==
    /\ At(t, "login", "rest")
    /\ StartLogin(t)
    /\ Script(t, "wait")
    /\ Disturb(t)

\* No page has a link to it: the address is typed.
VisitLogout(t) ==
    /\ page[t].script = "rest"
    /\ StartLogout(t)
    /\ Turn(t, Show("logout", "wait"))
    /\ Disturb(t)

\* A request of the page to /api was answered 401, and it calls refresh().
Unauthorized(t) ==
    /\ At(t, "page", "rest")
    /\ ~HasClaims
    /\ Script(t, "refresh")
    /\ UNCHANGED <<vars, solo>>

-------------------------------------------------------------------------------
(* The scripts.                                                            *)

\* The browser follows location.replace or reload; "/user" reloads as "/" does.
Follow(t) ==
    /\ \/ page[t].script = "toHome" /\ Turn(t, HandleHome)
       \/ page[t].script = "toLogin" /\ Turn(t, LoginPageHandler)
    /\ UNCHANGED <<vars, solo>>

\* checkAuthAndRefresh has found the browser signed in.
Authenticated(t) ==
    IF page[t].at = "login" THEN Leave(t, "toHome") ELSE Script(t, "rest")

\* Mutant: login.ts looks at authnd before there was a refresh.
CheckAuthOnly(t) ==
    /\ page[t].script = "load"
    /\ IF HandleAuthenticated THEN Authenticated(t) ELSE Script(t, "rest")
    /\ UNCHANGED <<vars, solo>>

\* GET /authenticated
CheckAuth(t) ==
    /\ page[t].script = "load"
    /\ IF HandleAuthenticated THEN Authenticated(t) ELSE Script(t, "refresh")
    /\ UNCHANGED <<vars, solo>>

\* Every status but 401 counts as signed in, also that of an answer that never
\* reached the handler.
CheckAuthFails(t) ==
    /\ page[t].script = "load"
    /\ Authenticated(t)
    /\ solo' = [solo EXCEPT ![t] = FALSE]
    /\ UNCHANGED vars

\* Mutant: the gate reloads whatever the status was.
ReloadAlways(t) ==
    IF page[t].at = "gate" THEN Leave(t, "toHome") ELSE Script(t, "rest")

\* The status was not 200.
NotRefreshed(t) ==
    IF page[t].at = "gate" THEN Leave(t, "toLogin") ELSE Script(t, "rest")

\* Mutant: checkAuthAndRefresh does not return the promise of its refresh.
RefreshedUnheard(t) ==
    IF page[t].at = "page" THEN UNCHANGED page ELSE Leave(t, "toHome")

\* The status was 200.
Refreshed(t) ==
    IF page[t].at = "page" THEN Script(t, "rest") ELSE Leave(t, "toHome")

\* GET /auth/refresh, which answers 204 or 401 without asking the user service.
Refresh(t) ==
    /\ page[t].script = "refresh"
    /\ \/ /\ HasClaims \/ jar.refresh = None
          /\ NotRefreshed(t)
          /\ UNCHANGED <<vars, solo>>
       \/ /\ StartRefresh(t)
          /\ Script(t, "wait")
          /\ Disturb(t)

-------------------------------------------------------------------------------
(* Requests under way.                                                     *)

Serve(t) ==
    /\ GetUUID(t) \/ DeleteUUID(t) \/ GenerateUUID(t) \/ Logout(t)
    /\ UNCHANGED pageVars

Answered(t) ==
    /\ \/ SetCookies(t) /\ Refreshed(t)
       \/ /\ RemoveCookies(t)
          /\ IF page[t].at = "logout" THEN Leave(t, "toHome") ELSE NotRefreshed(t)
    /\ UNCHANGED solo

\* An answer with a status other than these, or none: then fetch rejects, nobody
\* catches it, and the script is over, which leaves the gate the empty page it is.
Failed(t) ==
    /\ Fail(t)
    /\ \/ NotRefreshed(t) /\ page[t].at # "logout"
       \/ Turn(t, Blank) /\ page[t].at \in {"gate", "logout"}
    /\ solo' = [solo EXCEPT ![t] = FALSE]

TimePasses ==
    /\ (\E x \in live : Expire(x)) \/ AccessExpires \/ CookieExpires
    /\ UNCHANGED pageVars

CloseAll ==
    /\ CloseBrowser
    /\ page' = [t \in Tabs |-> Blank]
    /\ solo' = [t \in Tabs |-> FALSE]

-------------------------------------------------------------------------------

\* What goes on without the user.
Run(t) == Follow(t) \/ CheckAuth(t) \/ Refresh(t) \/ Serve(t) \/ Answered(t)

PageNext ==
    \/ \E t \in Tabs :
          \/ Open(t) \/ Close(t) \/ SendOtp(t) \/ VisitLogout(t) \/ Unauthorized(t)
          \/ Run(t)
          \/ CheckAuthFails(t) \/ Failed(t)
    \/ TimePasses
    \/ CloseAll

\* Browsers run their scripts, and the gateway answers every request within ten
\* seconds.
PageSpec ==
    /\ PageInit
    /\ [][PageNext]_<<vars, pageVars>>
    /\ \A t \in Tabs : WF_<<vars, pageVars>>(Run(t))

-------------------------------------------------------------------------------
(* Properties.                                                             *)

\* A script waits as long as its tab has a request under way: none is left waiting
\* for an answer that was given, and no answer comes to a page that was left.
PageTypeOK ==
    /\ page \in [Tabs -> PageState]
    /\ solo \in [Tabs -> BOOLEAN]
    /\ \A t \in Tabs : page[t].script = "wait" <=> tab[t] # Idle

\* login.ts:12: who has a refresh token is moved on.  When nothing else goes on and none
\* of its own requests fails, a tab ends at the login form only if the browser has no
\* refresh token left, in whatever state earlier overlaps and failures have left it.
SoloLogin ==
    [][\A t \in Tabs :
          ~At(t, "login", "rest") /\ At(t, "login", "rest")' /\ solo'[t] => jar'.refresh = None
      ]_<<vars, pageVars>>

\* The pages do not send the browser round for ever: every script ends, unless
\* /authenticated fails again and again (or the model has run out of tokens).
Settles ==
    \A t \in Tabs :
        \/ []<>(page[t].script = "rest")
        \/ []<><<CheckAuthFails(t)>>_<<vars, pageVars>>
        \/ <>[](nextNr \notin Numbers)
===============================================================================
