------------------------------- MODULE Session --------------------------------
(***************************************************************************)
(* A signed-in browser: the refresh tokens in Redis (services/user), the   *)
(* gateway's handlers under /auth, and the two cookies that all tabs of    *)
(* the browser share.                                                      *)
(*                                                                         *)
(* The access token is a signed statement that is good for ten minutes and *)
(* that no server remembers.  The refresh token is a key in Redis; it is   *)
(* exchanged for a new pair of tokens by three calls (GET, DEL, SET).      *)
(* Tabs send requests when they like; each carries the cookies as they are *)
(* when it leaves, and its answer changes them as they are when it         *)
(* arrives.                                                                *)
(*                                                                         *)
(* Another browser has other tokens and shares nothing with this one.      *)
(***************************************************************************)
EXTENDS Integers, FiniteSets

CONSTANTS
    Tabs,             \* each waits for one answer at a time
    None,             \* no cookie, or no user
    MaxToken          \* bound: how many refresh tokens are made

Numbers == 1 .. MaxToken

\* The value of a key is a user; here it is the sign-in that the token goes back
\* to, named after its first token.
Token == [nr : Numbers, login : Numbers]

Access == [login : Numbers, valid : BOOLEAN]

ASSUME SessionAssumption ==
    /\ MaxToken \in Nat
    /\ None \notin Token \cup Access

VARIABLES
    live,             \* the keys in Redis
    nextNr,           \* refresh tokens below have been made; no two are alike
    jar,              \* the cookies
    tab,              \* what the request of each tab is doing
    ended,            \* history: logins whose logout deleted their token
    calm              \* history: nothing has overlapped or failed so far

vars == <<live, nextNr, jar, tab, ended, calm>>

Idle == [pc |-> "idle"]

\* The sign-in that a request is about to make.
NewLogin == 0

TabState ==
    {Idle}
    \cup [pc : {"GetUUID"}, token : Token, access : BOOLEAN]
    \cup [pc : {"DeleteUUID"}, token : Token, login : Numbers]
    \cup [pc : {"GenerateUUID"}, login : Numbers \cup {NewLogin}]
    \cup [pc : {"setCookies"}, token : Token]
    \cup [pc : {"Logout"}, token : Token, access : BOOLEAN]
    \cup [pc : {"removeCookies"}, refresh : BOOLEAN, access : BOOLEAN]

Init ==
    /\ live = {}
    /\ nextNr = 1
    /\ jar = [refresh |-> None, access |-> None]
    /\ tab = [t \in Tabs |-> Idle]
    /\ ended = {}
    /\ calm = TRUE

Goto(t, state) == tab' = [tab EXCEPT ![t] = state]

\* No other request is under way.
Alone(t) == \A u \in Tabs \ {t} : tab[u] = Idle

\* The middleware finds valid claims in the cookie.
HasClaims == jar.access # None /\ jar.access.valid

-------------------------------------------------------------------------------
(* Requests leave.                                                         *)

\* POST /api/login/otp with a right code (SignIn).
StartLogin(t) ==
    /\ tab[t] = Idle
    /\ Goto(t, [pc |-> "GenerateUUID", login |-> NewLogin])
    /\ calm' = (calm /\ Alone(t) /\ jar.refresh = None)
    /\ UNCHANGED <<live, nextNr, jar, ended>>

\* GET /auth/refresh.  With valid claims the answer is 204, without a refresh
\* cookie it is 401, and neither changes anything.
StartRefresh(t) ==
    /\ tab[t] = Idle
    /\ ~HasClaims
    /\ jar.refresh # None
    /\ Goto(t, [pc |-> "GetUUID", token |-> jar.refresh, access |-> jar.access # None])
    /\ calm' = (calm /\ Alone(t))
    /\ UNCHANGED <<live, nextNr, jar, ended>>

\* GET /auth/logout.
StartLogout(t) ==
    /\ tab[t] = Idle
    /\ Goto(t, IF jar.refresh = None
               THEN [pc |-> "removeCookies", refresh |-> FALSE, access |-> jar.access # None]
               ELSE [pc |-> "Logout", token |-> jar.refresh, access |-> jar.access # None])
    /\ calm' = (calm /\ Alone(t))
    /\ UNCHANGED <<live, nextNr, jar, ended>>

-------------------------------------------------------------------------------
(* The user service.                                                       *)

\* Mutant: redis.Nil is not looked at, and the user is the empty one.
GetUUIDUnchecked(t) ==
    /\ tab[t].pc = "GetUUID"
    /\ Goto(t, [pc |-> "DeleteUUID", token |-> tab[t].token,
                login |-> IF tab[t].token \in live THEN tab[t].token.login ELSE None])
    /\ UNCHANGED <<live, nextNr, jar, ended, calm>>

\* The answer Unauthenticated makes the gateway remove the cookies.
GetUUID(t) ==
    /\ tab[t].pc = "GetUUID"
    /\ Goto(t, IF tab[t].token \in live
               THEN [pc |-> "DeleteUUID", token |-> tab[t].token, login |-> tab[t].token.login]
               ELSE [pc |-> "removeCookies", refresh |-> TRUE, access |-> tab[t].access])
    /\ UNCHANGED <<live, nextNr, jar, ended, calm>>

\* Mutant: the old key is written again instead of deleted.
DeleteUUIDKept(t) ==
    /\ tab[t].pc = "DeleteUUID"
    /\ live' = live \cup {tab[t].token}
    /\ Goto(t, [pc |-> "GenerateUUID", login |-> tab[t].login])
    /\ UNCHANGED <<nextNr, jar, ended, calm>>

\* DEL, whose answer does not say whether the key was still there.
DeleteUUID(t) ==
    /\ tab[t].pc = "DeleteUUID"
    /\ live' = live \ {tab[t].token}
    /\ Goto(t, [pc |-> "GenerateUUID", login |-> tab[t].login])
    /\ UNCHANGED <<nextNr, jar, ended, calm>>

GenerateUUID(t) ==
    /\ tab[t].pc = "GenerateUUID"
    /\ nextNr \in Numbers
    /\ nextNr' = nextNr + 1
    /\ LET token == [nr |-> nextNr,
                     login |-> IF tab[t].login = NewLogin THEN nextNr ELSE tab[t].login]
       IN  /\ live' = live \cup {token}
           /\ Goto(t, [pc |-> "setCookies", token |-> token])
    /\ UNCHANGED <<jar, ended, calm>>

\* The gateway does not look at the error of the call: the cookies go either way.
Logout(t) ==
    /\ tab[t].pc = "Logout"
    /\ \/ /\ live' = live \ {tab[t].token}
          /\ ended' = ended \cup {tab[t].token.login}
          /\ UNCHANGED calm
       \/ /\ calm' = FALSE
          /\ UNCHANGED <<live, ended>>
    /\ Goto(t, [pc |-> "removeCookies", refresh |-> TRUE, access |-> tab[t].access])
    /\ UNCHANGED <<nextNr, jar>>

\* Thirty days are over for the key.
Expire(x) ==
    /\ x \in live
    /\ live' = live \ {x}
    /\ calm' = FALSE
    /\ UNCHANGED <<nextNr, jar, tab, ended>>

-------------------------------------------------------------------------------
(* Answers arrive at the browser.                                          *)

\* Mutant: setAccessCookie is forgotten when the browser has one.
SetRefreshCookieOnly(t) ==
    /\ tab[t].pc = "setCookies"
    /\ jar' = [refresh |-> tab[t].token,
               access |-> IF jar.access = None
                          THEN [login |-> tab[t].token.login, valid |-> TRUE]
                          ELSE jar.access]
    /\ Goto(t, Idle)
    /\ UNCHANGED <<live, nextNr, ended, calm>>

\* Mutant: setRefreshCookie is forgotten when the browser has one.
SetAccessCookieOnly(t) ==
    /\ tab[t].pc = "setCookies"
    /\ jar' = [refresh |-> IF jar.refresh = None THEN tab[t].token ELSE jar.refresh,
               access |-> [login |-> tab[t].token.login, valid |-> TRUE]]
    /\ Goto(t, Idle)
    /\ UNCHANGED <<live, nextNr, ended, calm>>

SetCookies(t) ==
    /\ tab[t].pc = "setCookies"
    /\ jar' = [refresh |-> tab[t].token,
               access |-> [login |-> tab[t].token.login, valid |-> TRUE]]
    /\ Goto(t, Idle)
    /\ UNCHANGED <<live, nextNr, ended, calm>>

\* A cookie is removed if the request had one, whatever the jar holds by now.
RemoveCookies(t) ==
    /\ tab[t].pc = "removeCookies"
    /\ jar' = [refresh |-> IF tab[t].refresh THEN None ELSE jar.refresh,
               access |-> IF tab[t].access THEN None ELSE jar.access]
    /\ Goto(t, Idle)
    /\ UNCHANGED <<live, nextNr, ended, calm>>

\* A call fails, the ten seconds are over or the answer is lost.
Fail(t) ==
    /\ tab[t] # Idle
    /\ Goto(t, Idle)
    /\ calm' = FALSE
    /\ UNCHANGED <<live, nextNr, jar, ended>>

\* Ten minutes are over.
AccessExpires ==
    /\ HasClaims
    /\ jar' = [jar EXCEPT !.access.valid = FALSE]
    /\ UNCHANGED <<live, nextNr, tab, ended, calm>>

\* Thirty days are over for the cookie, a little later than for its key.
CookieExpires ==
    /\ jar.refresh # None
    /\ jar.refresh \notin live
    /\ jar' = [jar EXCEPT !.refresh = None]
    /\ calm' = FALSE
    /\ UNCHANGED <<live, nextNr, tab, ended>>

\* The browser is closed: the cookie with no expiry goes, and so does what was
\* under way.
CloseBrowser ==
    /\ jar' = [jar EXCEPT !.access = None]
    /\ tab' = [t \in Tabs |-> Idle]
    /\ calm' = (calm /\ \A t \in Tabs : tab[t] = Idle)
    /\ UNCHANGED <<live, nextNr, ended>>

Next ==
    \/ \E t \in Tabs :
          \/ StartLogin(t) \/ StartRefresh(t) \/ StartLogout(t)
          \/ GetUUID(t) \/ DeleteUUID(t) \/ GenerateUUID(t) \/ Logout(t)
          \/ SetCookies(t) \/ RemoveCookies(t)
          \/ Fail(t)
    \/ \E x \in live : Expire(x)
    \/ AccessExpires
    \/ CookieExpires
    \/ CloseBrowser

Spec == Init /\ [][Next]_vars

-------------------------------------------------------------------------------
(* Properties.                                                             *)

\* Keys, cookies and requests hold what the code puts there.
TypeOK ==
    /\ live \subseteq Token
    /\ nextNr \in 1 .. MaxToken + 1
    /\ jar \in [refresh : Token \cup {None}, access : Access \cup {None}]
    /\ tab \in [Tabs -> TabState]
    /\ ended \subseteq Numbers
    /\ calm \in BOOLEAN

\* A token that was exchanged, logged out or that expired is refused for good, also
\* with exchanges of the same token under way.
RefusedForGood ==
    [][\A k \in 1 .. nextNr - 1 :
          (\A x \in live : x.nr # k) => (\A x \in live' : x.nr # k)]_vars

\* The two cookies go back to one sign-in: no order of answers makes a browser act
\* as one user and refresh as another.
CookiesMatch ==
    jar.refresh # None /\ jar.access # None => jar.refresh.login = jar.access.login

\* While requests to /auth come one at a time and none of them fails, the browser
\* has the key of the one live token, or there is none: it is not signed out, and
\* no token outlives its exchange or its logout.
CalmSession ==
    calm /\ (\A t \in Tabs : tab[t] = Idle) =>
        live = {jar.refresh} \ {None}

\* services/user/test/test.go:121-132: after a logout, refreshing is refused.
LogoutEnds ==
    (\A t \in Tabs : tab[t] = Idle) => \A x \in live : x.login \notin ended
===============================================================================
