------------------------------- MODULE Profile --------------------------------
(***************************************************************************)
(* Names of users: the table users, the requests that read and change it   *)
(* through the gateway and the user service, and the profile pages that    *)
(* show and edit a name (typescript/profile/name.ts).                      *)
(*                                                                         *)
(* A request waits to be served, runs its one statement, and is answered.  *)
(* A page sends a name when its user says so, also while an earlier one is *)
(* under way.  A request with no valid claims is answered 401 and sent     *)
(* again after a refresh (Pages); here requests have claims.  What the     *)
(* page of somebody who is not signed in shows never changes; the pages    *)
(* here have a viewer who is.                                              *)
(***************************************************************************)
CONSTANTS
    Users,
    Names,            \* names that nameValid lets through
    None,
    Tabs,
    Requests          \* each is of one tab at a time

\* A status is no name.
ASSUME ProfileAssumption ==
    /\ None \notin Users \cup Tabs
    /\ {"ok", "AlreadyExists", "Internal"} \cap Names = {}

VARIABLES
    name,             \* users.name
    req,              \* requests under way
    tab,              \* the profile page in each tab
    sure              \* history: tabs that have seen every change of their user's name

vars == <<name, req, tab, sure>>

Idle == [pc |-> "idle"]

\* What a request is for: a profile to show, or a new name for its sender.
GetProfile(u) == [kind |-> "GetProfile", id |-> u]
ChangeUsername(u, n) == [kind |-> "ChangeUsername", id |-> u, newName |-> n]

Bodies == {GetProfile(u) : u \in Users} \cup {ChangeUsername(u, n) : u \in Users, n \in Names}

Answers == {"ok", "AlreadyExists", "Internal"} \cup Names

ReqState ==
    {Idle}
    \cup [pc : {"run"}, tab : Tabs \cup {None}, body : Bodies]
    \cup [pc : {"answer"}, tab : Tabs \cup {None}, body : Bodies, answer : Answers]

NoPage == [at |-> "none", of |-> None]

\* An error page edits nothing: to us, no page.
ErrorInternal == NoPage

Page(u, viewer, n) ==
    [at |-> "profile", of |-> u, viewer |-> viewer, shown |-> n, input |-> n]

TabState ==
    {NoPage}
    \cup [at : {"loading"}, of : Users]
    \cup [at : {"profile"}, of : Users, viewer : Users, shown : Names, input : Names]

Init ==
    /\ name \in {f \in [Users -> Names] : \A u, v \in Users : f[u] = f[v] => u = v}
    /\ req = [r \in Requests |-> Idle]
    /\ tab = [t \in Tabs |-> NoPage]
    /\ sure = {}

Send(r, t, body) == req' = [req EXCEPT ![r] = [pc |-> "run", tab |-> t, body |-> body]]

Answer(r, answer) ==
    req' = [req EXCEPT ![r] = [pc |-> "answer", tab |-> @.tab, body |-> @.body, answer |-> answer]]

Pending(t) == {r \in Requests : req[r] # Idle /\ req[r].tab = t}

\* The requests that may still change the name of the user.
Changes(u) ==
    {r \in Requests : /\ req[r].pc = "run"
                      /\ req[r].body.kind = "ChangeUsername"
                      /\ req[r].body.id = u}

-------------------------------------------------------------------------------
(* The browser.                                                            *)

\* The tab, in which nothing is under way, is sent to /user/{id}.
Open(t, r) ==
    /\ req[r] = Idle
    /\ Pending(t) = {}
    /\ \E u \in Users :
          /\ Send(r, t, GetProfile(u))
          /\ tab' = [tab EXCEPT ![t] = [at |-> "loading", of |-> u]]
          /\ sure' = IF Changes(u) = {} THEN sure \cup {t} ELSE sure \ {t}
    /\ UNCHANGED name

\* The tab is closed, or left for another page; its requests go on without it.
Close(t) ==
    /\ tab[t] # NoPage
    /\ tab' = [tab EXCEPT ![t] = NoPage]
    /\ req' = [r \in Requests |->
                  IF r \in Pending(t) THEN [req[r] EXCEPT !.tab = None] ELSE req[r]]
    /\ sure' = sure \ {t}
    /\ UNCHANGED name

\* Who is signed in can edit (profile/init.ts looks at nothing else).
Edits(t) == tab[t].at = "profile"

Input(t, n) ==
    /\ Edits(t)
    /\ tab' = [tab EXCEPT ![t].input = n]
    /\ UNCHANGED <<name, req, sure>>

\* save() and HandleChangeUsername, which takes the user from the claims.
Save(t, r) ==
    /\ req[r] = Idle
    /\ Edits(t)
    /\ tab[t].input # tab[t].shown
    /\ LET u == tab[t].viewer
       IN  /\ Send(r, t, ChangeUsername(u, tab[t].input))
           /\ sure' = {v \in sure : /\ tab[v].of = u => v = t /\ Changes(u) \cup Pending(t) = {}
                                    /\ v = t => tab[v].of = u}
    /\ UNCHANGED <<name, tab>>

-------------------------------------------------------------------------------
(* The user service.                                                       *)

\* A statement fails when there is no server or no open pool (PostgresClient).
Fails(r) ==
    /\ req[r].pc = "run"
    /\ Answer(r, "Internal")
    /\ UNCHANGED <<name, tab, sure>>

GetProfileById(r) ==
    /\ req[r].pc = "run"
    /\ req[r].body.kind = "GetProfile"
    /\ Answer(r, name[req[r].body.id])
    /\ UNCHANGED <<name, tab, sure>>

Taken(r) == \E u \in Users \ {req[r].body.id} : name[u] = req[r].body.newName

\* UPDATE users, with name UNIQUE (23505).
UpdateUser(r) ==
    /\ req[r].pc = "run"
    /\ req[r].body.kind = "ChangeUsername"
    /\ IF Taken(r)
       THEN /\ Answer(r, "AlreadyExists")
            /\ UNCHANGED name
       ELSE /\ Answer(r, "ok")
            /\ name' = [name EXCEPT ![req[r].body.id] = req[r].body.newName]
    /\ UNCHANGED <<tab, sure>>

\* The connection is lost after the statement was done and before it is known.
UpdateUserUnheard(r) ==
    /\ req[r].pc = "run"
    /\ req[r].body.kind = "ChangeUsername"
    /\ ~Taken(r)
    /\ Answer(r, "Internal")
    /\ name' = [name EXCEPT ![req[r].body.id] = req[r].body.newName]
    /\ sure' = {t \in sure : tab[t].of # req[r].body.id}
    /\ UNCHANGED tab

-------------------------------------------------------------------------------
(* Answers.                                                                *)

\* The page of the profile, or an error page.
ShowProfile(r) ==
    /\ req[r].pc = "answer"
    /\ req[r].body.kind = "GetProfile"
    /\ req[r].tab # None
    /\ \E viewer \in Users :
          tab' = [tab EXCEPT ![req[r].tab] =
                     IF req[r].answer \in Names
                     THEN Page(req[r].body.id, viewer, req[r].answer) ELSE ErrorInternal]
    /\ req' = [req EXCEPT ![r] = Idle]
    /\ UNCHANGED <<name, sure>>

\* Mutant: the page shows what is in the field by now.
ShowInput(r) ==
    /\ req[r].pc = "answer"
    /\ req[r].body.kind = "ChangeUsername"
    /\ req[r].tab # None
    /\ IF req[r].answer = "ok"
       THEN tab' = [tab EXCEPT ![req[r].tab].shown = tab[req[r].tab].input]
       ELSE UNCHANGED tab
    /\ req' = [req EXCEPT ![r] = Idle]
    /\ UNCHANGED <<name, sure>>

\* Mutant: the page shows what the answer was.
ShowAnswer(r) ==
    /\ req[r].pc = "answer"
    /\ req[r].body.kind = "ChangeUsername"
    /\ req[r].tab # None
    /\ IF req[r].answer = "ok"
       THEN tab' = [tab EXCEPT ![req[r].tab].shown = req[r].answer]
       ELSE UNCHANGED tab
    /\ req' = [req EXCEPT ![r] = Idle]
    /\ UNCHANGED <<name, sure>>

\* postNewName: the page shows the name that was sent, or an error.
ShowNewName(r) ==
    /\ req[r].pc = "answer"
    /\ req[r].body.kind = "ChangeUsername"
    /\ req[r].tab # None
    /\ IF req[r].answer = "ok"
       THEN tab' = [tab EXCEPT ![req[r].tab].shown = req[r].body.newName]
       ELSE UNCHANGED tab
    /\ req' = [req EXCEPT ![r] = Idle]
    /\ UNCHANGED <<name, sure>>

\* Nobody waits for the answer, or it is lost; the service may still be at work.
Lose(r) ==
    /\ req[r] # Idle
    /\ req[r].tab # None
    /\ req' = [req EXCEPT ![r] = IF @.pc = "answer" THEN Idle ELSE [@ EXCEPT !.tab = None]]
    /\ IF tab[req[r].tab].at = "loading"
       THEN tab' = [tab EXCEPT ![req[r].tab] = NoPage] ELSE UNCHANGED tab
    /\ sure' = sure \ {req[r].tab}
    /\ UNCHANGED name

Forget(r) ==
    /\ req[r].pc = "answer"
    /\ req[r].tab = None
    /\ req' = [req EXCEPT ![r] = Idle]
    /\ UNCHANGED <<name, tab, sure>>

Next ==
    \/ \E t \in Tabs :
          \/ \E r \in Requests : Open(t, r) \/ Save(t, r)
          \/ Close(t)
          \/ \E n \in Names : Input(t, n)
    \/ \E r \in Requests :
          \/ Fails(r) \/ GetProfileById(r) \/ UpdateUser(r) \/ UpdateUserUnheard(r)
          \/ ShowProfile(r) \/ ShowNewName(r) \/ Lose(r) \/ Forget(r)

Spec == Init /\ [][Next]_vars

-------------------------------------------------------------------------------
(* Properties.                                                             *)

\* Rows, requests and pages hold what the code puts there.
TypeOK ==
    /\ name \in [Users -> Names]
    /\ req \in [Requests -> ReqState]
    /\ tab \in [Tabs -> TabState]
    /\ sure \subseteq Tabs

\* A page of one's own shows the stored name, whatever its user has typed on, been
\* refused or saved since, unless two changes overlapped, one was made elsewhere or
\* the answer to one was lost.
SavedShown ==
    \A t \in sure :
        tab[t].at = "profile" /\ Pending(t) = {} => tab[t].shown = name[tab[t].of]
===============================================================================
