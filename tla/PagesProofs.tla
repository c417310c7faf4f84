------------------------------ MODULE PagesProofs -------------------------------
(***************************************************************************)
(* Theorems about Pages for any tabs and any number of tokens: the pages   *)
(* use the session as Session says, no script is left waiting, and a tab   *)
(* that is left alone and whose requests do not fail shows the login form  *)
(* only to who has no refresh token.                                       *)
(***************************************************************************)
EXTENDS Pages, SessionProofs

\* While a tab is solo, the other tabs have nothing under way.
SoloAlone == \A t \in Tabs : solo[t] => Alone(t)

\* So nobody but itself has changed the cookies since it saw that there are no claims.
SoloRefresh == \A t \in Tabs : solo[t] /\ page[t].script = "refresh" => ~HasClaims

\* Nor since its request saw that there is no refresh token.
SoloRemove ==
    \A t \in Tabs :
        solo[t] /\ tab[t].pc = "removeCookies" => tab[t].refresh \/ jar.refresh = None

PageInv == PageTypeOK /\ SoloAlone /\ SoloRefresh /\ SoloRemove

-------------------------------------------------------------------------------
(* Pages and Session.                                                      *)

\* Every step of a page is a step of Session, or none to it.
LEMMA StepOfSession == [PageNext]_<<vars, pageVars>> => [Next]_vars
<1> SUFFICES ASSUME PageNext, ~UNCHANGED vars
             PROVE  Next
  BY DEF vars, pageVars
<1>1. ASSUME NEW t \in Tabs,
             Open(t) \/ Close(t) \/ SendOtp(t) \/ VisitLogout(t) \/ Unauthorized(t)
      PROVE  Next
  BY <1>1 DEF Open, Close, SendOtp, VisitLogout, Unauthorized, Next
<1>2. ASSUME NEW t \in Tabs, Run(t)
      PROVE  Next
  BY <1>2 DEF Run, Follow, CheckAuth, Refresh, Serve, Answered, Next
<1>3. ASSUME NEW t \in Tabs, CheckAuthFails(t) \/ Failed(t)
      PROVE  Next
  BY <1>3 DEF CheckAuthFails, Failed, Next
<1>4. CASE TimePasses \/ CloseAll
  BY <1>4 DEF TimePasses, CloseAll, Next
<1> QED
  BY <1>1, <1>2, <1>3, <1>4 DEF PageNext

\* The pages and scripts of the gateway do nothing to tokens and cookies that Session
\* does not have: what is proved of Session holds under them.
THEOREM ImplementsSession == PageSpec => Spec
<1>1. PageInit => Init
  BY DEF PageInit
<1> QED
  BY <1>1, StepOfSession, PTL DEF PageSpec, Spec

-------------------------------------------------------------------------------
(* The invariant.                                                          *)

LEMMA PageInitOK == PageInit => PageInv
BY DEF PageInit, Init, Blank, Show, Idle, PageState, PageInv, PageTypeOK, SoloAlone,
       SoloRefresh, SoloRemove

LEMMA TurnTo ==
    ASSUME PageTypeOK, NEW t \in Tabs, NEW p \in PageState, Turn(t, p)
    PROVE  /\ page' \in [Tabs -> PageState]
           /\ page'[t] = p
           /\ \A u \in Tabs \ {t} : page'[u] = page[u]
BY DEF PageTypeOK, Turn

\* What is left to show of a step of one tab.  If it is at work, no other is solo; if
\* it is not, the cookies stay as they are.
LEMMA TabKeeps ==
    ASSUME PageInv, NEW t \in Tabs, NEW p \in PageState, Turn(t, p),
           \A u \in Tabs \ {t} : tab'[u] = tab[u],
           p.script = "wait" <=> tab'[t] # Idle,
           solo' \in [Tabs -> BOOLEAN],
           \A u \in Tabs \ {t} : solo'[u] => solo[u],
           tab[t] = Idle => jar' = jar,
           tab[t] = Idle => tab'[t] = Idle \/ \A u \in Tabs \ {t} : ~solo'[u],
           solo'[t] => Alone(t),
           solo'[t] /\ p.script = "refresh" => ~HasClaims',
           solo'[t] /\ tab'[t].pc = "removeCookies" => tab'[t].refresh \/ jar'.refresh = None
    PROVE  PageInv'
<1>1. /\ page' \in [Tabs -> PageState]
      /\ page'[t] = p
      /\ \A u \in Tabs \ {t} : page'[u] = page[u]
  BY TurnTo DEF PageInv
<1>2. PageTypeOK'
  BY <1>1 DEF PageTypeOK, PageInv
<1>3. ASSUME NEW u \in Tabs \ {t}, solo'[u]
      PROVE  /\ solo[u] /\ tab[t] = Idle /\ tab'[t] = Idle
             /\ UNCHANGED <<jar, page[u], tab[u]>>
  BY <1>1, <1>3 DEF PageInv, SoloAlone, Alone
<1>4. SoloAlone'
  BY <1>3 DEF PageInv, SoloAlone, Alone
<1>5. SoloRefresh'
  BY <1>1, <1>3 DEF PageInv, SoloRefresh, HasClaims
<1>6. SoloRemove'
  BY <1>3 DEF PageInv, SoloRemove
<1> QED
  BY <1>2, <1>4, <1>5, <1>6 DEF PageInv

\* The pages that the gateway answers with.
LEMMA PageOf ==
    ASSUME NEW p \in {HandleHome, HandleIDlessProfile, LoginPageHandler, HandlePath, HandleProfile}
    PROVE  /\ p \in PageState
           /\ p.script \in {"load", "refresh"}
           /\ p.script = "refresh" => ~HasClaims
BY DEF HandleHome, HandleIDlessProfile, LoginPageHandler, HandlePath, HandleProfile,
       Home, Profile, Path, Login, RefreshOrLoginPage, Show, PageState

LEMMA OpenKeeps ==
    ASSUME TypeOK, PageInv, NEW t \in Tabs, Open(t)
    PROVE  PageInv'
<1>1. PICK p \in {HandleHome, HandleIDlessProfile, LoginPageHandler, HandlePath, HandleProfile} :
         Turn(t, p)
  BY DEF Open
<1>2. /\ p \in PageState
      /\ p.script \in {"load", "refresh"}
      /\ p.script = "refresh" => ~HasClaims
  BY PageOf
<1>3. /\ tab[t] = Idle
      /\ UNCHANGED <<tab, jar>>
      /\ solo' = [solo EXCEPT ![t] = Alone(t)]
      /\ solo \in [Tabs -> BOOLEAN]
      /\ Alone(t) \in BOOLEAN
  BY DEF Open, vars, PageInv, PageTypeOK, Alone
<1>4. /\ solo' \in [Tabs -> BOOLEAN]
      /\ solo'[t] = Alone(t)
      /\ \A u \in Tabs \ {t} : solo'[u] = solo[u]
  BY <1>3, Zenon
<1>5. Idle.pc # "removeCookies"
  BY DEF Idle
<1>6. ~HasClaims => ~HasClaims'
  BY <1>3 DEF HasClaims
<1> QED
  BY <1>1, <1>2, <1>3, <1>4, <1>5, <1>6, TabKeeps

\* The tab is left alone by its own request.
LEMMA DisturbIt ==
    ASSUME PageInv, NEW t \in Tabs, Disturb(t)
    PROVE  /\ solo' \in [Tabs -> BOOLEAN]
           /\ \A u \in Tabs \ {t} : ~solo'[u]
           /\ solo'[t] = solo[t]
           /\ solo'[t] => Alone(t)
BY DEF Disturb, PageInv, PageTypeOK, SoloAlone

\* A request is sent.
LEMMA SendKeeps ==
    ASSUME TypeOK, PageInv, NEW t \in Tabs, NEW p \in PageState, Turn(t, p), p.script = "wait",
           StartLogin(t) \/ StartRefresh(t) \/ StartLogout(t),
           Disturb(t)
    PROVE  PageInv'
<1>1. ASSUME NEW s, Goto(t, s)
      PROVE  tab'[t] = s /\ \A u \in Tabs \ {t} : tab'[u] = tab[u]
  BY <1>1 DEF Goto, TypeOK
<1>2. /\ tab'[t] # Idle
      /\ tab'[t].pc = "removeCookies" => jar.refresh = None
      /\ \A u \in Tabs \ {t} : tab'[u] = tab[u]
      /\ tab[t] = Idle
      /\ jar' = jar
  BY <1>1 DEF Idle, StartLogin, StartRefresh, StartLogout
<1>3. /\ solo' \in [Tabs -> BOOLEAN]
      /\ \A u \in Tabs \ {t} : ~solo'[u]
      /\ solo'[t] => Alone(t)
  BY DisturbIt
<1> QED
  BY <1>2, <1>3, TabKeeps

LEMMA ScriptTo ==
    ASSUME PageTypeOK, NEW t \in Tabs,
           NEW script \in {"load", "refresh", "wait", "toHome", "toLogin", "rest"},
           Script(t, script)
    PROVE  \E p \in PageState : Turn(t, p) /\ p = [at |-> page[t].at, script |-> script]
BY DEF PageTypeOK, Script, PageState

LEMMA SoloEnds ==
    ASSUME PageTypeOK, NEW t \in Tabs, solo' = [solo EXCEPT ![t] = FALSE]
    PROVE  /\ solo' \in [Tabs -> BOOLEAN]
           /\ ~solo'[t]
           /\ \A u \in Tabs \ {t} : solo'[u] = solo[u]
<1>1. solo \in [Tabs -> BOOLEAN]
  BY DEF PageTypeOK
<1> QED
  BY <1>1, Zenon

LEMMA FailEnds ==
    ASSUME TypeOK, NEW t \in Tabs, Fail(t)
    PROVE  tab[t] # Idle /\ tab'[t] = Idle /\ \A u \in Tabs \ {t} : tab'[u] = tab[u]
BY DEF TypeOK, Fail, Goto

\* What the user does.
LEMMA UserKeeps ==
    ASSUME TypeOK, PageInv, NEW t \in Tabs,
           Close(t) \/ SendOtp(t) \/ VisitLogout(t) \/ Unauthorized(t)
    PROVE  PageInv'
<1>1. CASE Close(t)
  <2>1. /\ Blank \in PageState
        /\ Blank.script = "rest"
        /\ Turn(t, Blank)
    BY <1>1 DEF Close, Blank, Show, PageState
  <2>2. /\ tab'[t] = Idle
        /\ \A u \in Tabs \ {t} : tab'[u] = tab[u]
        /\ tab[t] = Idle => jar' = jar
    BY <1>1, FailEnds DEF Close, vars
  <2>3. /\ solo' \in [Tabs -> BOOLEAN]
        /\ ~solo'[t]
        /\ \A u \in Tabs \ {t} : solo'[u] = solo[u]
    BY <1>1, SoloEnds DEF Close, PageInv
  <2> QED
    BY <2>1, <2>2, <2>3, TabKeeps
<1>2. CASE SendOtp(t)
  <2>1. PICK p \in PageState : Turn(t, p) /\ p.script = "wait"
    BY <1>2, ScriptTo DEF SendOtp, PageInv
  <2> QED
    BY <1>2, <2>1, SendKeeps DEF SendOtp
<1>3. CASE VisitLogout(t)
  <2>1. Show("logout", "wait") \in PageState /\ Show("logout", "wait").script = "wait"
    BY DEF Show, PageState
  <2> QED
    BY <1>3, <2>1, SendKeeps DEF VisitLogout
<1>4. CASE Unauthorized(t)
  <2>1. PICK p \in PageState : Turn(t, p) /\ p.script = "refresh"
    BY <1>4, ScriptTo DEF Unauthorized, PageInv
  <2>2. UNCHANGED <<tab, jar, solo>> /\ ~HasClaims /\ tab[t] = Idle
    BY <1>4 DEF Unauthorized, vars, At, Show, PageInv, PageTypeOK
  <2>3. ~HasClaims' /\ Idle.pc # "removeCookies"
    BY <2>2 DEF HasClaims, Idle
  <2> QED
    BY <2>1, <2>2, <2>3, TabKeeps DEF PageInv, PageTypeOK, SoloAlone
<1> QED
  BY <1>1, <1>2, <1>3, <1>4

\* A script goes on with no request under way, for the better or to its end.
LEMMA IdleKeeps ==
    ASSUME PageInv, NEW t \in Tabs, NEW p \in PageState, Turn(t, p), p.script # "wait",
           page[t].script # "wait", UNCHANGED vars,
           p.script = "refresh" => ~HasClaims,
           solo' \in [Tabs -> BOOLEAN], \A u \in Tabs : solo'[u] => solo[u]
    PROVE  PageInv'
<1>1. tab[t] = Idle /\ UNCHANGED <<tab, jar>>
  BY DEF PageInv, PageTypeOK, vars
<1>2. (~HasClaims => ~HasClaims') /\ Idle.pc # "removeCookies"
  BY <1>1 DEF HasClaims, Idle
<1>3. solo'[t] => Alone(t)
  BY DEF PageInv, SoloAlone
<1> QED
  BY <1>1, <1>2, <1>3, TabKeeps

\* A script that has its answer ends, or leaves the page.
LEMMA Outcome ==
    ASSUME PageTypeOK, NEW t \in Tabs, Authenticated(t) \/ Refreshed(t) \/ NotRefreshed(t)
    PROVE  \E p \in PageState : Turn(t, p) /\ p.script \in {"rest", "toHome", "toLogin"}
<1>1. CASE Script(t, "rest")
  BY <1>1, ScriptTo
<1>2. ASSUME NEW script \in {"toHome", "toLogin"}, Leave(t, script)
      PROVE  \E p \in PageState : Turn(t, p) /\ p.script = script
  <2>1. Show("none", script) \in PageState /\ Show("none", script).script = script
    BY DEF Show, PageState
  <2> QED
    BY <1>2, <2>1 DEF Leave
<1> QED
  BY <1>1, <1>2 DEF Authenticated, Refreshed, NotRefreshed

\* What the scripts do.
LEMMA ScriptsKeep ==
    ASSUME TypeOK, PageInv, NEW t \in Tabs,
           Follow(t) \/ CheckAuth(t) \/ CheckAuthFails(t) \/ Refresh(t)
    PROVE  PageInv'
<1> USE DEF PageInv
<1>1. CASE Follow(t)
  <2>1. PICK p \in {HandleHome, HandleIDlessProfile, LoginPageHandler, HandlePath, HandleProfile} :
           Turn(t, p)
    BY <1>1 DEF Follow
  <2>2. /\ p \in PageState
        /\ p.script \in {"load", "refresh"}
        /\ p.script = "refresh" => ~HasClaims
    BY PageOf
  <2> QED
    BY <1>1, <2>1, <2>2, IdleKeeps DEF Follow, PageTypeOK
<1>2. CASE CheckAuth(t)
  <2>1. PICK p \in PageState : /\ Turn(t, p)
                               /\ p.script \in {"refresh", "rest", "toHome", "toLogin"}
                               /\ p.script = "refresh" => ~HasClaims
    <3>1. CASE HasClaims
      BY <1>2, <3>1, Outcome DEF CheckAuth, HandleAuthenticated
    <3>2. CASE ~HasClaims
      BY <1>2, <3>2, ScriptTo DEF CheckAuth, HandleAuthenticated
    <3> QED
      BY <3>1, <3>2
  <2> QED
    BY <1>2, <2>1, IdleKeeps DEF CheckAuth, PageTypeOK
<1>3. CASE CheckAuthFails(t)
  <2>1. PICK p \in PageState : Turn(t, p) /\ p.script \in {"rest", "toHome", "toLogin"}
    BY <1>3, Outcome DEF CheckAuthFails
  <2>2. solo' \in [Tabs -> BOOLEAN] /\ \A u \in Tabs : solo'[u] => solo[u]
    BY <1>3, SoloEnds DEF CheckAuthFails
  <2> QED
    BY <1>3, <2>1, <2>2, IdleKeeps DEF CheckAuthFails
<1>4. CASE Refresh(t)
  <2>1. CASE NotRefreshed(t) /\ UNCHANGED <<vars, solo>>
    <3>1. PICK p \in PageState : Turn(t, p) /\ p.script \in {"rest", "toHome", "toLogin"}
      BY <2>1, Outcome
    <3> QED
      BY <1>4, <2>1, <3>1, IdleKeeps DEF Refresh, PageTypeOK
  <2>2. CASE StartRefresh(t) /\ Script(t, "wait") /\ Disturb(t)
    <3>1. PICK p \in PageState : Turn(t, p) /\ p.script = "wait"
      BY <2>2, ScriptTo
    <3> QED
      BY <2>2, <3>1, SendKeeps
  <2> QED
    BY <1>4, <2>1, <2>2 DEF Refresh
<1> QED
  BY <1>1, <1>2, <1>3, <1>4

\* What the user service does for a request.
LEMMA ServeKeeps ==
    ASSUME TypeOK, PageInv, NEW t \in Tabs, Serve(t)
    PROVE  PageInv'
<1>1. ASSUME NEW s, Goto(t, s)
      PROVE  tab'[t] = s /\ \A u \in Tabs \ {t} : tab'[u] = tab[u]
  BY <1>1 DEF Goto, TypeOK
<1>2. /\ tab'[t] # Idle
      /\ tab'[t].pc = "removeCookies" => tab'[t].refresh
      /\ \A u \in Tabs \ {t} : tab'[u] = tab[u]
  BY <1>1 DEF Serve, Idle, GetUUID, DeleteUUID, GenerateUUID, Logout
<1>3. tab[t] # Idle
  BY DEF Serve, Idle, GetUUID, DeleteUUID, GenerateUUID, Logout
<1>4. /\ page[t] \in PageState
      /\ page[t].script = "wait"
      /\ Turn(t, page[t])
      /\ UNCHANGED solo
  BY <1>3 DEF Serve, pageVars, Turn, PageInv, PageTypeOK
<1> QED
  BY <1>2, <1>3, <1>4, TabKeeps DEF PageInv, PageTypeOK, SoloAlone

\* The answer of a request, or that there is none.
LEMMA AnswerKeeps ==
    ASSUME TypeOK, PageInv, NEW t \in Tabs, Answered(t) \/ Failed(t)
    PROVE  PageInv'
<1>1. /\ tab[t] # Idle
      /\ tab'[t] = Idle
      /\ \A u \in Tabs \ {t} : tab'[u] = tab[u]
      /\ Idle.pc # "removeCookies"
  <2>1. CASE Answered(t)
    BY <2>1 DEF Answered, SetCookies, RemoveCookies, Goto, TypeOK, Idle
  <2>2. CASE Failed(t)
    BY <2>2, FailEnds DEF Failed, Idle
  <2> QED
    BY <2>1, <2>2
<1>2. PICK p \in PageState : Turn(t, p) /\ p.script \in {"rest", "toHome", "toLogin"}
  <2>1. \A script \in {"rest", "toHome"} :
           Show("none", script) \in PageState /\ Show("none", script).script = script
    BY DEF Show, PageState
  <2> QED
    BY <2>1, Outcome DEF Answered, Failed, Leave, Blank, PageInv
<1>3. /\ solo' \in [Tabs -> BOOLEAN]
      /\ \A u \in Tabs : solo'[u] => solo[u]
  BY SoloEnds DEF Answered, Failed, PageInv, PageTypeOK
<1>4. solo'[t] => Alone(t)
  BY <1>3 DEF PageInv, SoloAlone
<1> QED
  BY <1>1, <1>2, <1>3, <1>4, TabKeeps

\* What happens to all tabs at once.
LEMMA OthersKeepPages ==
    ASSUME TypeOK, PageInv, TimePasses \/ CloseAll
    PROVE  PageInv'
<1>1. CASE TimePasses
  <2>1. UNCHANGED <<page, solo, tab>>
    BY <1>1 DEF TimePasses, pageVars, Expire, AccessExpires, CookieExpires
  <2>2. /\ HasClaims' => HasClaims
        /\ jar.refresh = None => jar'.refresh = None
    <3>1. CASE \E x \in live : Expire(x)
      BY <3>1 DEF Expire, HasClaims
    <3>2. CASE AccessExpires
      BY <3>2 DEF AccessExpires, TypeOK
    <3>3. CASE CookieExpires
      BY <3>3 DEF CookieExpires, HasClaims, TypeOK
    <3> QED
      BY <1>1, <3>1, <3>2, <3>3 DEF TimePasses
  <2> QED
    BY <2>1, <2>2 DEF PageInv, PageTypeOK, SoloAlone, SoloRefresh, SoloRemove, Alone
<1>2. CASE CloseAll
  <2>1. /\ page' = [t \in Tabs |-> Blank]
        /\ solo' = [t \in Tabs |-> FALSE]
        /\ tab' = [t \in Tabs |-> Idle]
        /\ Blank \in PageState /\ Blank.script = "rest"
    BY <1>2 DEF CloseAll, CloseBrowser, Blank, Show, PageState
  <2> QED
    BY <2>1 DEF PageInv, PageTypeOK, SoloAlone, SoloRefresh, SoloRemove
<1> QED
  BY <1>1, <1>2

LEMMA PagesInductive == TypeOK /\ PageInv /\ [PageNext]_<<vars, pageVars>> => PageInv'
<1> SUFFICES ASSUME TypeOK, PageInv, [PageNext]_<<vars, pageVars>>
             PROVE  PageInv'
  OBVIOUS
<1>1. CASE UNCHANGED <<vars, pageVars>>
  BY <1>1 DEF vars, pageVars, PageInv, PageTypeOK, SoloAlone, SoloRefresh, SoloRemove,
              Alone, HasClaims
<1>2. CASE PageNext
  BY <1>2, OpenKeeps, UserKeeps, ScriptsKeep, ServeKeeps, AnswerKeeps, OthersKeepPages
     DEF PageNext, Run
<1> QED
  BY <1>1, <1>2

-------------------------------------------------------------------------------
(* Theorems.                                                               *)

\* A script of refresh.ts waits exactly as long as its tab has a request under way,
\* whatever answers come, get lost or are given up.
THEOREM PageTypeCorrect == PageSpec => []PageTypeOK
<1>1. PageInv => PageTypeOK
  BY DEF PageInv
<1> QED
  BY <1>1, PageInitOK, PagesInductive, ImplementsSession, TypeCorrect, PTL DEF PageSpec

\* The login form is shown where a script of the login page has ended: after its
\* refresh was not even sent, or was answered 401.
LEMMA LoginShown ==
    ASSUME TypeOK, PageInv, NEW t \in Tabs, PageNext,
           ~At(t, "login", "rest"), At(t, "login", "rest")', solo'[t]
    PROVE  jar'.refresh = None
<1>1. /\ page[t] # page'[t]
      /\ page'[t].at = "login"
      /\ page'[t].script = "rest"
  BY DEF At, Show
<1>2. ASSUME NEW p \in PageState, Turn(t, p)
      PROVE  p.at = "login" /\ p.script = "rest"
  BY <1>1, <1>2, TurnTo DEF PageInv
<1>3. ASSUME NEW script, Script(t, script)
      PROVE  page[t].at = "login" /\ script = "rest"
  BY <1>1, <1>3 DEF Script, Turn, PageInv, PageTypeOK, PageState
<1>4. ASSUME NEW script \in {"toHome", "toLogin", "rest"}, Leave(t, script)
      PROVE  FALSE
  BY <1>2, <1>4 DEF Leave, Show, PageState
<1>5. ASSUME NEW u \in Tabs \ {t}, NEW p, Turn(u, p)
      PROVE  FALSE
  BY <1>1, <1>5 DEF Turn, PageInv, PageTypeOK
<1>6. ~Authenticated(t) /\ ~Refreshed(t)
  BY <1>3, <1>4 DEF Authenticated, Refreshed, PageInv, PageTypeOK, PageState
\* So only steps of the tab itself that end in NotRefreshed are left.
<1>7. Refresh(t) \/ Answered(t) \/ Failed(t)
  <2>1. ASSUME NEW u \in Tabs \ {t}
        PROVE  ~Open(u) /\ ~Close(u) /\ ~SendOtp(u) /\ ~VisitLogout(u) /\ ~Unauthorized(u)
    BY <1>5 DEF Open, Close, SendOtp, VisitLogout, Unauthorized, Script
  <2>2. ASSUME NEW u \in Tabs \ {t}
        PROVE  ~Authenticated(u) /\ ~Refreshed(u) /\ ~NotRefreshed(u)
    BY <1>5 DEF Authenticated, Refreshed, NotRefreshed, Script, Leave
  <2>3. ASSUME NEW u \in Tabs \ {t}
        PROVE  /\ ~Follow(u) /\ ~CheckAuth(u) /\ ~CheckAuthFails(u)
               /\ ~Refresh(u) /\ ~Answered(u) /\ ~Failed(u)
    BY <2>2, <1>5 DEF Follow, CheckAuth, CheckAuthFails, Refresh, Answered, Failed, Script, Leave
  <2>4. \A u \in Tabs : ~Serve(u)
    BY <1>1 DEF Serve, pageVars
  <2>5. ~TimePasses /\ ~CloseAll
    BY <1>1 DEF TimePasses, CloseAll, pageVars, Blank, Show
  <2>6. ~Open(t) /\ ~Follow(t)
    <3>1. \A p \in {HandleHome, HandleIDlessProfile, LoginPageHandler, HandlePath, HandleProfile} :
             ~Turn(t, p)
      BY <1>2, PageOf
    <3> QED
      BY <3>1 DEF Open, Follow
  <2>7. ~Close(t) /\ ~VisitLogout(t)
    <3>1. Blank \in PageState /\ Blank.at = "none"
      BY DEF Blank, Show, PageState
    <3>2. Show("logout", "wait") \in PageState /\ Show("logout", "wait").at = "logout"
      BY DEF Show, PageState
    <3> QED
      BY <1>2, <3>1, <3>2 DEF Close, VisitLogout
  <2>8. ~SendOtp(t) /\ ~Unauthorized(t)
    BY <1>3 DEF SendOtp, Unauthorized
  <2>9. ~CheckAuth(t) /\ ~CheckAuthFails(t)
    BY <1>3, <1>6 DEF CheckAuth, CheckAuthFails
  <2> QED
    BY <2>1, <2>3, <2>4, <2>5, <2>6, <2>7, <2>8, <2>9 DEF PageNext, Run
<1>8. CASE Refresh(t)
  <2>1. /\ page[t].script = "refresh"
        /\ HasClaims \/ jar.refresh = None
        /\ UNCHANGED <<vars, solo>>
    BY <1>3, <1>8 DEF Refresh
  <2>2. ~HasClaims
    BY <2>1 DEF PageInv, SoloRefresh
  <2> QED
    BY <2>1, <2>2 DEF vars
<1>9. CASE Answered(t)
  <2>1. RemoveCookies(t) /\ solo[t]
    BY <1>6, <1>9 DEF Answered
  <2>2. tab[t].refresh \/ jar.refresh = None
    BY <2>1 DEF RemoveCookies, PageInv, SoloRemove
  <2> QED
    BY <2>1, <2>2 DEF RemoveCookies
<1>10. CASE Failed(t)
  BY <1>10, SoloEnds DEF Failed, PageInv
<1> QED
  BY <1>7, <1>8, <1>9, <1>10

\* login.ts, the gate and HandleRefresh keep a browser with a refresh token away from
\* the login form, unless another tab or a failure of the tab's own request comes in
\* between.
THEOREM LoginFormEarned == PageSpec => SoloLogin
<1> DEFINE Step ==
       \A t \in Tabs :
          ~At(t, "login", "rest") /\ At(t, "login", "rest")' /\ solo'[t] => jar'.refresh = None
<1>1. TypeOK /\ PageInv /\ [PageNext]_<<vars, pageVars>> => [Step]_<<vars, pageVars>>
  BY LoginShown
<1> QED
  BY <1>1, PageInitOK, PagesInductive, ImplementsSession, TypeCorrect, PTL
     DEF PageSpec, SoloLogin

\* What holds of refreshes, logouts and logins that come as they like holds of those that
\* the pages send.
THEOREM SessionUnderPages ==
    PageSpec => []CookiesMatch /\ []CalmSession /\ RefusedForGood
BY ImplementsSession, OneUserPerBrowser, CalmIsOneToken, TokensEndOnce, PTL
===============================================================================
