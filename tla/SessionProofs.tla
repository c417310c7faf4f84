---------------------------- MODULE SessionProofs -----------------------------
(***************************************************************************)
(* Theorems about Session for any tabs and any number of tokens.           *)
(***************************************************************************)
EXTENDS Session, TLAPS

\* While nothing has overlapped or failed, one tab at most has a request under way.
OneAtATime ==
    calm => \A t, u \in Tabs : tab[t] # Idle /\ tab[u] # Idle => t = u

\* What Redis holds, known by how far that request is.
CalmStep ==
    calm => \A t \in Tabs :
        /\ tab[t].pc \in {"GetUUID", "DeleteUUID", "Logout"} =>
              tab[t].token = jar.refresh /\ live = {jar.refresh}
        /\ tab[t].pc = "GenerateUUID" => live = {}
        /\ tab[t].pc = "setCookies" => live = {tab[t].token}
        /\ tab[t].pc = "removeCookies" =>
              live = {} /\ (tab[t].refresh \/ jar.refresh = None)

IndInv ==
    /\ TypeOK
    /\ CookiesMatch
    /\ CalmSession
    /\ OneAtATime
    /\ CalmStep

-------------------------------------------------------------------------------

LEMMA InitOK == Init => IndInv
BY SessionAssumption
   DEF Init, IndInv, TypeOK, TabState, Idle, CookiesMatch, CalmSession, OneAtATime, CalmStep

\* A step of one tab is a step to a state that its request has, or to the end.
LEMMA GotoKeeps ==
    ASSUME TypeOK, NEW t \in Tabs, NEW s \in TabState, Goto(t, s)
    PROVE  /\ tab' \in [Tabs -> TabState]
           /\ tab'[t] = s
           /\ \A u \in Tabs \ {t} : tab'[u] = tab[u]
BY DEF TypeOK, Goto

\* A tab that is calm and at work is the only one at work.
LEMMA OthersIdle ==
    ASSUME IndInv, calm, NEW t \in Tabs, tab[t] # Idle
    PROVE  \A u \in Tabs \ {t} : tab[u] = Idle
BY DEF IndInv, OneAtATime

\* A request that leaves when no other is under way finds Redis in step with the jar.
LEMMA StartKeeps ==
    ASSUME IndInv, NEW t \in Tabs,
           StartLogin(t) \/ StartRefresh(t) \/ StartLogout(t)
    PROVE  IndInv'
<1>1. /\ TypeOK /\ tab[t] = Idle
      /\ jar \in [refresh : Token \cup {None}, access : Access \cup {None}]
      /\ UNCHANGED <<live, nextNr, jar, ended>>
      /\ calm' \in BOOLEAN
  BY DEF IndInv, TypeOK, StartLogin, StartRefresh, StartLogout
<1>2. calm' => /\ \A u \in Tabs : tab[u] = Idle
               /\ live = {jar.refresh} \ {None}
  BY <1>1 DEF IndInv, CalmSession, StartLogin, StartRefresh, StartLogout, Alone
<1>3. ASSUME NEW s \in TabState, Goto(t, s), s # Idle,
             calm' => /\ s.pc \in {"GetUUID", "DeleteUUID", "Logout"} =>
                            s.token = jar.refresh /\ live = {jar.refresh}
                      /\ s.pc = "GenerateUUID" => live = {}
                      /\ s.pc = "setCookies" => live = {s.token}
                      /\ s.pc = "removeCookies" =>
                            live = {} /\ (s.refresh \/ jar.refresh = None)
      PROVE  IndInv'
  <2>1. /\ tab' \in [Tabs -> TabState]
        /\ tab'[t] = s
        /\ \A u \in Tabs \ {t} : tab'[u] = tab[u]
    BY <1>1, <1>3, GotoKeeps
  <2>2. TypeOK' /\ CookiesMatch'
    BY <1>1, <2>1 DEF TypeOK, IndInv, CookiesMatch
  <2>3. calm' => \A u \in Tabs \ {t} : tab'[u] = Idle
    BY <1>2, <2>1
  <2>4. CalmSession' /\ OneAtATime'
    BY <1>3, <2>1, <2>3 DEF CalmSession, OneAtATime
  <2>5. CalmStep'
    BY <1>1, <1>3, <2>1, <2>3 DEF CalmStep, Idle
  <2> QED
    BY <2>2, <2>4, <2>5 DEF IndInv
<1>4. CASE StartLogin(t)
  <2> DEFINE s == [pc |-> "GenerateUUID", login |-> NewLogin]
  <2>1. s \in TabState /\ s # Idle
    BY DEF TabState, Idle
  <2>2. calm' => live = {}
    BY <1>2, <1>4 DEF StartLogin
  <2> QED
    BY <1>3, <1>4, <2>1, <2>2 DEF StartLogin
<1>5. CASE StartRefresh(t)
  <2> DEFINE s == [pc |-> "GetUUID", token |-> jar.refresh, access |-> jar.access # None]
  <2>1. s \in TabState /\ s # Idle
    BY <1>1, <1>5 DEF TabState, Idle, StartRefresh
  <2>2. calm' => live = {jar.refresh}
    BY <1>2, <1>5 DEF StartRefresh
  <2> QED
    BY <1>3, <1>5, <2>1, <2>2 DEF StartRefresh
<1>6. CASE StartLogout(t)
  <2>1. CASE jar.refresh = None
    <3> DEFINE s == [pc |-> "removeCookies", refresh |-> FALSE, access |-> jar.access # None]
    <3>1. s \in TabState /\ s # Idle /\ Goto(t, s)
      BY <1>6, <2>1 DEF TabState, Idle, StartLogout
    <3>2. calm' => live = {}
      BY <1>2, <2>1
    <3> QED
      BY <1>3, <2>1, <3>1, <3>2
  <2>2. CASE jar.refresh # None
    <3> DEFINE s == [pc |-> "Logout", token |-> jar.refresh, access |-> jar.access # None]
    <3>1. s \in TabState /\ s # Idle /\ Goto(t, s)
      BY <1>1, <1>6, <2>2 DEF TabState, Idle, StartLogout
    <3>2. calm' => live = {jar.refresh}
      BY <1>2, <2>2
    <3> QED
      BY <1>3, <3>1, <3>2
  <2> QED
    BY <2>1, <2>2
<1> QED
  BY <1>4, <1>5, <1>6

\* While a calm request is at work, the invariant is about it alone.
LEMMA AtWork ==
    ASSUME IndInv, NEW t \in Tabs, tab[t] # Idle,
           NEW s \in TabState, Goto(t, s), calm' => calm
    PROVE  /\ tab' \in [Tabs -> TabState]
           /\ tab'[t] = s
           /\ OneAtATime'
           /\ calm' => \A u \in Tabs \ {t} : tab'[u] = Idle
<1>1. /\ tab' \in [Tabs -> TabState]
      /\ tab'[t] = s
      /\ \A u \in Tabs \ {t} : tab'[u] = tab[u]
  BY GotoKeeps DEF IndInv
<1>2. calm' => \A u \in Tabs \ {t} : tab'[u] = Idle
  BY <1>1, OthersIdle
<1> QED
  BY <1>1, <1>2 DEF OneAtATime

\* What is left to show of a step of a request that goes on.
LEMMA GoesOn ==
    ASSUME IndInv, NEW t \in Tabs, tab[t] # Idle, calm' => calm,
           NEW s \in TabState, Goto(t, s), s # Idle, TypeOK', CookiesMatch',
           calm' => /\ s.pc \in {"GetUUID", "DeleteUUID", "Logout"} =>
                          s.token = jar'.refresh /\ live' = {jar'.refresh}
                    /\ s.pc = "GenerateUUID" => live' = {}
                    /\ s.pc = "setCookies" => live' = {s.token}
                    /\ s.pc = "removeCookies" =>
                          live' = {} /\ (s.refresh \/ jar'.refresh = None)
    PROVE  IndInv'
<1>1. /\ tab'[t] = s
      /\ OneAtATime'
      /\ calm' => \A u \in Tabs \ {t} : tab'[u] = Idle
  BY AtWork
<1>2. CalmSession'
  BY <1>1 DEF CalmSession
<1>3. CalmStep'
  BY <1>1 DEF CalmStep, Idle
<1> QED
  BY <1>1, <1>2, <1>3 DEF IndInv

\* What is left to show of the last step of a request.
LEMMA Ends ==
    ASSUME IndInv, NEW t \in Tabs, tab[t] # Idle, calm' => calm, Goto(t, Idle),
           TypeOK', CookiesMatch', calm' => live' = {jar'.refresh} \ {None}
    PROVE  IndInv'
<1>1. Idle \in TabState
  BY DEF TabState
<1>2. /\ tab'[t] = Idle
      /\ OneAtATime'
      /\ calm' => \A u \in Tabs \ {t} : tab'[u] = Idle
  BY <1>1, AtWork
<1>3. CalmSession' /\ CalmStep'
  BY <1>2 DEF CalmSession, CalmStep, Idle
<1> QED
  BY <1>2, <1>3 DEF IndInv

LEMMA GetUUIDKeeps ==
    ASSUME IndInv, NEW t \in Tabs, GetUUID(t)
    PROVE  IndInv'
<1>1. /\ tab[t] \in [pc : {"GetUUID"}, token : Token, access : BOOLEAN]
      /\ tab[t].pc = "GetUUID" /\ tab[t] # Idle
      /\ UNCHANGED <<live, nextNr, jar, ended, calm>>
  BY DEF GetUUID, IndInv, TypeOK, TabState, Idle
<1>2. calm => tab[t].token = jar.refresh /\ live = {jar.refresh}
  BY <1>1 DEF IndInv, CalmStep
<1>3. ASSUME NEW s \in TabState, Goto(t, s)
      PROVE  TypeOK' /\ CookiesMatch'
  BY <1>1, <1>3, GotoKeeps DEF IndInv, TypeOK, CookiesMatch
<1>4. CASE tab[t].token \in live
  <2> DEFINE s == [pc |-> "DeleteUUID", token |-> tab[t].token, login |-> tab[t].token.login]
  <2>1. s \in TabState /\ s # Idle /\ Goto(t, s)
    BY <1>1, <1>4 DEF GetUUID, TabState, Idle, Token
  <2> QED
    BY <1>1, <1>2, <1>3, <2>1, GoesOn
<1>5. CASE tab[t].token \notin live
  <2> DEFINE s == [pc |-> "removeCookies", refresh |-> TRUE, access |-> tab[t].access]
  <2>1. s \in TabState /\ s # Idle /\ Goto(t, s)
    BY <1>1, <1>5 DEF GetUUID, TabState, Idle
  <2>2. ~calm
    BY <1>2, <1>5
  <2> QED
    BY <1>1, <1>3, <2>1, <2>2, GoesOn
<1> QED
  BY <1>4, <1>5

LEMMA DeleteUUIDKeeps ==
    ASSUME IndInv, NEW t \in Tabs, DeleteUUID(t)
    PROVE  IndInv'
<1> DEFINE s == [pc |-> "GenerateUUID", login |-> tab[t].login]
<1>1. /\ tab[t] \in [pc : {"DeleteUUID"}, token : Token, login : Numbers]
      /\ tab[t].pc = "DeleteUUID" /\ tab[t] # Idle
      /\ live' = live \ {tab[t].token}
      /\ UNCHANGED <<nextNr, jar, ended, calm>>
      /\ Goto(t, s)
  BY DEF DeleteUUID, IndInv, TypeOK, TabState, Idle
<1>2. calm => tab[t].token = jar.refresh /\ live = {jar.refresh}
  BY <1>1 DEF IndInv, CalmStep
<1>3. s \in TabState /\ s # Idle
  BY <1>1 DEF TabState, Idle
<1>4. TypeOK' /\ CookiesMatch'
  BY <1>1, <1>3, GotoKeeps DEF IndInv, TypeOK, CookiesMatch
<1>5. calm' => live' = {}
  BY <1>1, <1>2
<1> QED
  BY <1>1, <1>3, <1>4, <1>5, GoesOn

LEMMA GenerateUUIDKeeps ==
    ASSUME IndInv, NEW t \in Tabs, GenerateUUID(t)
    PROVE  IndInv'
<1> DEFINE token == [nr |-> nextNr,
                     login |-> IF tab[t].login = NewLogin THEN nextNr ELSE tab[t].login]
           s == [pc |-> "setCookies", token |-> token]
<1>1. /\ tab[t] \in [pc : {"GenerateUUID"}, login : Numbers \cup {NewLogin}]
      /\ tab[t].pc = "GenerateUUID" /\ tab[t] # Idle
      /\ nextNr \in Numbers /\ nextNr' = nextNr + 1
      /\ live' = live \cup {token}
      /\ UNCHANGED <<jar, ended, calm>>
      /\ Goto(t, s)
  BY DEF GenerateUUID, IndInv, TypeOK, TabState, Idle
<1>2. calm => live = {}
  BY <1>1 DEF IndInv, CalmStep
<1>3. token \in Token
  BY <1>1 DEF Token
<1>4. s \in TabState /\ s # Idle
  BY <1>3 DEF TabState, Idle
<1>5. nextNr' \in 1 .. MaxToken + 1
  BY <1>1, SessionAssumption DEF Numbers
<1> HIDE DEF token
<1>6. TypeOK' /\ CookiesMatch'
  BY <1>1, <1>3, <1>4, <1>5, GotoKeeps DEF IndInv, TypeOK, CookiesMatch
<1>7. calm' => live' = {token}
  BY <1>1, <1>2
<1> QED
  BY <1>1, <1>4, <1>6, <1>7, GoesOn

LEMMA LogoutKeeps ==
    ASSUME IndInv, NEW t \in Tabs, Logout(t)
    PROVE  IndInv'
<1> DEFINE s == [pc |-> "removeCookies", refresh |-> TRUE, access |-> tab[t].access]
<1>1. /\ tab[t] \in [pc : {"Logout"}, token : Token, access : BOOLEAN]
      /\ tab[t].pc = "Logout" /\ tab[t] # Idle
      /\ \/ /\ live' = live \ {tab[t].token}
            /\ ended' = ended \cup {tab[t].token.login}
            /\ UNCHANGED calm
         \/ /\ calm' = FALSE
            /\ UNCHANGED <<live, ended>>
      /\ UNCHANGED <<nextNr, jar>>
      /\ Goto(t, s)
  BY DEF Logout, IndInv, TypeOK, TabState, Idle
<1>2. calm => tab[t].token = jar.refresh /\ live = {jar.refresh}
  BY <1>1 DEF IndInv, CalmStep
<1>3. s \in TabState /\ s # Idle
  BY <1>1 DEF TabState, Idle
<1>4. TypeOK' /\ CookiesMatch'
  BY <1>1, <1>3, GotoKeeps DEF IndInv, TypeOK, CookiesMatch, Token
<1>5. (calm' => calm) /\ (calm' => live' = {})
  BY <1>1, <1>2
<1> QED
  BY <1>1, <1>3, <1>4, <1>5, GoesOn

LEMMA SetCookiesKeeps ==
    ASSUME IndInv, NEW t \in Tabs, SetCookies(t)
    PROVE  IndInv'
<1>1. /\ tab[t] \in [pc : {"setCookies"}, token : Token]
      /\ tab[t].pc = "setCookies" /\ tab[t] # Idle
      /\ jar' = [refresh |-> tab[t].token,
                 access |-> [login |-> tab[t].token.login, valid |-> TRUE]]
      /\ UNCHANGED <<live, nextNr, ended, calm>>
      /\ Goto(t, Idle)
  BY DEF SetCookies, IndInv, TypeOK, TabState, Idle
<1>2. Idle \in TabState
  BY DEF TabState
<1>3. TypeOK'
  BY <1>1, <1>2, GotoKeeps DEF IndInv, TypeOK, Token, Access
<1>4. CookiesMatch'
  BY <1>1 DEF CookiesMatch
<1>5. calm' => live' = {jar'.refresh} \ {None}
  BY <1>1, SessionAssumption DEF IndInv, CalmStep
<1> QED
  BY <1>1, <1>3, <1>4, <1>5, Ends

LEMMA RemoveCookiesKeeps ==
    ASSUME IndInv, NEW t \in Tabs, RemoveCookies(t)
    PROVE  IndInv'
<1>1. /\ tab[t] \in [pc : {"removeCookies"}, refresh : BOOLEAN, access : BOOLEAN]
      /\ tab[t].pc = "removeCookies" /\ tab[t] # Idle
      /\ jar' = [refresh |-> IF tab[t].refresh THEN None ELSE jar.refresh,
                 access |-> IF tab[t].access THEN None ELSE jar.access]
      /\ UNCHANGED <<live, nextNr, ended, calm>>
      /\ Goto(t, Idle)
  BY DEF RemoveCookies, IndInv, TypeOK, TabState, Idle
<1>2. Idle \in TabState
  BY DEF TabState
<1>3. TypeOK'
  BY <1>1, <1>2, GotoKeeps DEF IndInv, TypeOK
<1>4. CookiesMatch'
  BY <1>1 DEF CookiesMatch, IndInv
<1>5. calm' => live' = {jar'.refresh} \ {None}
  BY <1>1 DEF IndInv, CalmStep
<1> QED
  BY <1>1, <1>3, <1>4, <1>5, Ends

\* What happens by itself only ends the calm, or leaves tokens alone.
LEMMA OthersKeep ==
    ASSUME IndInv,
           \/ \E t \in Tabs : Fail(t)
           \/ \E x \in live : Expire(x)
           \/ AccessExpires \/ CookieExpires \/ CloseBrowser
    PROVE  IndInv'
<1>1. ASSUME NEW t \in Tabs, Fail(t)
      PROVE  IndInv'
  <2>1. Idle \in TabState
    BY DEF TabState
  <2>2. TypeOK'
    BY <1>1, <2>1, GotoKeeps DEF Fail, IndInv, TypeOK
  <2> QED
    BY <1>1, <2>2, Ends DEF Fail, IndInv, CookiesMatch
<1>2. ASSUME NEW x \in live, Expire(x)
      PROVE  IndInv'
  BY <1>2 DEF Expire, IndInv, TypeOK, CookiesMatch, CalmSession, OneAtATime, CalmStep
<1>3. CASE AccessExpires
  <2>1. /\ jar' = [jar EXCEPT !.access.valid = FALSE]
        /\ jar.access \in Access
        /\ UNCHANGED <<live, nextNr, tab, ended, calm>>
    BY <1>3 DEF AccessExpires, HasClaims, IndInv, TypeOK
  <2>2. jar' \in [refresh : Token \cup {None}, access : Access \cup {None}]
    BY <2>1 DEF IndInv, TypeOK, Access
  <2>3. jar'.refresh = jar.refresh /\ jar'.access.login = jar.access.login
    BY <2>1 DEF IndInv, TypeOK, Access
  <2>4. jar.access # None
    BY <2>1, SessionAssumption
  <2> QED
    BY <2>1, <2>2, <2>3, <2>4
       DEF IndInv, TypeOK, CookiesMatch, CalmSession, OneAtATime, CalmStep
<1>4. CASE CookieExpires
  BY <1>4 DEF CookieExpires, IndInv, TypeOK, CookiesMatch, CalmSession, OneAtATime, CalmStep
<1>5. CASE CloseBrowser
  <2>1. /\ jar'.refresh = jar.refresh /\ jar'.access = None
        /\ jar' \in [refresh : Token \cup {None}, access : Access \cup {None}]
        /\ tab' = [t \in Tabs |-> Idle]
        /\ calm' = (calm /\ \A t \in Tabs : tab[t] = Idle)
        /\ UNCHANGED <<live, nextNr, ended>>
    BY <1>5 DEF CloseBrowser, IndInv, TypeOK
  <2>2. Idle \in TabState
    BY DEF TabState
  <2>3. TypeOK' /\ CookiesMatch'
    BY <2>1, <2>2 DEF IndInv, TypeOK, CookiesMatch
  <2>4. CalmSession' /\ OneAtATime' /\ CalmStep'
    BY <2>1 DEF IndInv, CalmSession, OneAtATime, CalmStep, Idle
  <2> QED
    BY <2>3, <2>4 DEF IndInv
<1> QED
  BY <1>1, <1>2, <1>3, <1>4, <1>5

LEMMA Inductive == IndInv /\ [Next]_vars => IndInv'
<1> SUFFICES ASSUME IndInv, [Next]_vars
             PROVE  IndInv'
  OBVIOUS
<1>1. CASE UNCHANGED vars
  BY <1>1 DEF vars, IndInv, TypeOK, CookiesMatch, CalmSession, OneAtATime, CalmStep
<1>2. CASE Next
  BY <1>2, StartKeeps, GetUUIDKeeps, DeleteUUIDKeeps, GenerateUUIDKeeps, LogoutKeeps,
     SetCookiesKeeps, RemoveCookiesKeeps, OthersKeep DEF Next
<1> QED
  BY <1>1, <1>2

-------------------------------------------------------------------------------

\* Keys, cookies and requests of the refresh, the logout and the login keep their types.
THEOREM TypeCorrect == Spec => []TypeOK
<1>1. IndInv => TypeOK
  BY DEF IndInv
<1> QED
  BY <1>1, InitOK, Inductive, PTL DEF Spec

\* The cookies that HandleLoginOtp and HandleRefresh set and HandleLogout removes go
\* back to one sign-in, in whatever order the answers arrive.
THEOREM OneUserPerBrowser == Spec => []CookiesMatch
<1>1. IndInv => CookiesMatch
  BY DEF IndInv
<1> QED
  BY <1>1, InitOK, Inductive, PTL DEF Spec

\* As long as the requests of a browser neither overlap nor fail, GetUserIDAndRefresh
\* and Logout leave it with the one live token, or none.
THEOREM CalmIsOneToken == Spec => []CalmSession
<1>1. IndInv => CalmSession
  BY DEF IndInv
<1> QED
  BY <1>1, InitOK, Inductive, PTL DEF Spec

\* No step of the rotation, the logout or a login makes a token that was made before.
THEOREM TokensEndOnce == Spec => RefusedForGood
<1> DEFINE Step == \A k \in 1 .. nextNr - 1 :
              (\A x \in live : x.nr # k) => (\A x \in live' : x.nr # k)
<1>1. TypeOK /\ [Next]_vars => [Step]_vars
  <2> SUFFICES ASSUME TypeOK, Next, NEW k \in 1 .. nextNr - 1, \A x \in live : x.nr # k
               PROVE  \A x \in live' : x.nr # k
    OBVIOUS
  <2>1. ASSUME NEW t \in Tabs, GenerateUUID(t)
        PROVE  \A x \in live' : x.nr # k
    BY <2>1 DEF GenerateUUID, TypeOK
  <2>2. ASSUME live' \subseteq live
        PROVE  \A x \in live' : x.nr # k
    BY <2>2
  <2> QED
    BY <2>1, <2>2
       DEF Next, StartLogin, StartRefresh, StartLogout, GetUUID, DeleteUUID, Logout,
           SetCookies, RemoveCookies, Fail, Expire, AccessExpires, CookieExpires, CloseBrowser
<1> QED
  BY <1>1, TypeCorrect, PTL DEF Spec, RefusedForGood
===============================================================================
