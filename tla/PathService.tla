----------------------------- MODULE PathService ------------------------------
(***************************************************************************)
(* The path service (services/path): paths, their stats and the quotas of  *)
(* the stats, in three PostgreSQL tables that many HTTP requests change at *)
(* once.                                                                   *)
(*                                                                         *)
(* A table is the set of its rows; one SQL statement is one step.  Most    *)
(* handlers issue one statement.  HandleCreateStat and HandleUpdateStat    *)
(* issue two with no transaction around them, so other requests run in     *)
(* between.  Any statement can fail (no connection, the request's ten      *)
(* seconds are over, the browser hung up), and a statement that did commit *)
(* can still be reported to the handler as an error.                       *)
(*                                                                         *)
(* A page of a path is read by two statements as well, the check of who    *)
(* may see it and the stats; of an answer with paths in it the model keeps *)
(* which ones.  That reading a page moves the streaks is in QuotaStreak.   *)
(*                                                                         *)
(* Left out because no property here depends on it: step_equivalent (it    *)
(* travels with the rename of a stat) and the sums of steps.               *)
(***************************************************************************)
EXTENDS Integers, FiniteSets

CONSTANTS
    Users,            \* the ids an access token can carry
    Nobody,           \* the asker of a request that has no valid access token
    PathNames,        \* path names that nameValid accepts
    StatNames,        \* stat names that nameValid accepts
    Counts,           \* values of stats.count
    Settings,         \* values of the pair (quotas.quota, quotas.duration_hours)
    DefaultSettings,  \* the pair that the columns' DEFAULTs make
    MaxPathId,        \* bound: how many ids the SERIAL hands out
    Requests          \* slots for the requests that are in flight together

ASSUME PathServiceAssumption ==
    /\ Nobody \notin Users
    /\ MaxPathId \in Nat
    /\ 0 \in Counts
    /\ DefaultSettings \in Settings
    /\ IsFiniteSet(Requests)

VARIABLES
    paths,            \* table paths
    stats,            \* table stats
    quotas,           \* table quotas
    nextId,           \* the sequence behind paths.id
    req               \* what each request is doing

db == <<paths, stats, quotas, nextId>>
vars == <<paths, stats, quotas, nextId, req>>

PathIds == 1 .. MaxPathId

PathRow == [id : PathIds, user_id : Users, name : PathNames, public : BOOLEAN]
StatRow == [path_id : PathIds, name : StatNames, count : Counts]
QuotaRow == [path_id : PathIds, stat_name : StatNames, settings : Settings]

Statuses == {"OK", "BadRequest", "Unauthorized", "NotFound", "Conflict", "Error"}

\* Whom the middleware takes a request to be from.
Askers == Users \cup {Nobody}

Idle == [pc |-> "idle"]

\* A request: not there yet, between its two statements, or answered.
RequestState ==
    {Idle}
    \cup [pc : {"CreateQuota"}, user : Users, path : PathIds, name : StatNames]
    \cup [pc : {"UpdateQuota"}, user : Users, path : PathIds, name : StatNames,
          settings : Settings]
    \cup [pc : {"GetStats"}, user : Askers, path : PathIds, owner : Users, public : BOOLEAN]
    \cup [pc : {"answered"}, user : Askers, status : Statuses, seen : SUBSET PathIds]

Init ==
    /\ paths = {}
    /\ stats = {}
    /\ quotas = {}
    /\ nextId = 1
    /\ req = [r \in Requests |-> Idle]

-------------------------------------------------------------------------------
(* What the WHERE clauses and the constraints of the statements ask.       *)

\* EXISTS (SELECT 1 FROM paths WHERE id = $p AND user_id = $u)
Owns(u, p) == \E x \in paths : x.id = p /\ x.user_id = u

\* The primary key of stats and the target of the foreign key of quotas.
StatExists(p, n) == \E s \in stats : s.path_id = p /\ s.name = n

QuotaExists(p, n) == \E q \in quotas : q.path_id = p /\ q.stat_name = n

\* public = true OR user_id = $u; the "0" of a request with no token is nobody's id.
Visible(u, x) == x.public \/ x.user_id = u

\* Mutant: the statement lost its AND (p.public OR p.user_id = $2).
GetPathsOfAnyone(u, v) == {x.id : x \in {y \in paths : y.user_id = v}}

\* The paths of v that u may see.
GetPaths(u, v) == {x.id : x \in {y \in paths : y.user_id = v /\ Visible(u, y)}}

\* The asker's own paths.
GetHomePaths(u) == {x.id : x \in {y \in paths : y.user_id = u}}

\* UNIQUE (user_id, name), for a row other than p.
PathNameTaken(u, n, p) == \E x \in paths : x.user_id = u /\ x.name = n /\ x.id # p

-------------------------------------------------------------------------------
(* What the statements do to the rows they may change.                     *)

\* Mutant: an id that was freed by a delete is handed out again.
InsertPathReusingIds(u, n) ==
    LET id == CHOOSE i \in PathIds : \A x \in paths : x.id # i
    IN  paths' = paths \cup {[id |-> id, user_id |-> u, name |-> n, public |-> FALSE]}

InsertPath(u, n) ==
    paths' = paths \cup {[id |-> nextId, user_id |-> u, name |-> n, public |-> FALSE]}

\* Both columns, also when the page meant to change one of them.
SetPath(p, n, public) ==
    paths' = {IF x.id = p THEN [x EXCEPT !.name = n, !.public = public] ELSE x : x \in paths}

\* The foreign keys take the stats and their quotas along.
RemovePath(p) ==
    /\ paths' = {x \in paths : x.id # p}
    /\ stats' = {s \in stats : s.path_id # p}
    /\ quotas' = {q \in quotas : q.path_id # p}

\* Mutant: the column count has no DEFAULT and is NULL (Nobody, for want of a value).
InsertStatCountless(p, n) ==
    stats' = stats \cup {[path_id |-> p, name |-> n, count |-> Nobody]}

InsertStat(p, n) == stats' = stats \cup {[path_id |-> p, name |-> n, count |-> 0]}

InsertQuota(p, n) ==
    quotas' = quotas \cup {[path_id |-> p, stat_name |-> n, settings |-> DefaultSettings]}

RemoveStat(p, n) ==
    /\ stats' = {s \in stats : ~(s.path_id = p /\ s.name = n)}
    /\ quotas' = {q \in quotas : ~(q.path_id = p /\ q.stat_name = n)}

\* Mutant: the foreign key of quotas has no ON UPDATE CASCADE.
SetStatNameWithoutCascade(p, old, new) ==
    /\ stats' = {IF s.path_id = p /\ s.name = old
                 THEN [s EXCEPT !.name = new] ELSE s : s \in stats}
    /\ UNCHANGED quotas

\* The rename cascades to the quota.
SetStatName(p, old, new) ==
    /\ stats' = {IF s.path_id = p /\ s.name = old
                 THEN [s EXCEPT !.name = new] ELSE s : s \in stats}
    /\ quotas' = {IF q.path_id = p /\ q.stat_name = old
                  THEN [q EXCEPT !.stat_name = new] ELSE q : q \in quotas}

\* Mutant: the statement lost its AND stat_name.
SetQuotaOfPath(p, n, settings) ==
    quotas' = {IF q.path_id = p THEN [q EXCEPT !.settings = settings] ELSE q : q \in quotas}

SetQuota(p, n, settings) ==
    quotas' = {IF q.path_id = p /\ q.stat_name = n
               THEN [q EXCEPT !.settings = settings] ELSE q : q \in quotas}

\* Mutant: the statement lost its AND EXISTS.
SetCountsOfAnyone(u, p, N, f) ==
    stats' = {IF s.path_id = p /\ s.name \in N
              THEN [s EXCEPT !.count = f[s.name]] ELSE s : s \in stats}

SetCounts(u, p, N, f) ==
    stats' = {IF s.path_id = p /\ s.name \in N /\ Owns(u, p)
              THEN [s EXCEPT !.count = f[s.name]] ELSE s : s \in stats}

-------------------------------------------------------------------------------
(* What the handler answers.                                               *)

Answer(r, u, s) ==
    req' = [req EXCEPT ![r] = [pc |-> "answered", user |-> u, status |-> s, seen |-> {}]]

\* An answer with paths in it.
AnswerWith(r, u, P) ==
    req' = [req EXCEPT ![r] = [pc |-> "answered", user |-> u, status |-> "OK", seen |-> P]]

\* The statement has committed: the handler learns that, or is told of an error.
AnswerCommitted(r, u) == \E s \in {"OK", "Error"} : Answer(r, u, s)

-------------------------------------------------------------------------------
(* Handlers of one statement.                                              *)

\* No access token, a body that is not JSON, or a name nameValid rejects.
Refuse(r, u) ==
    /\ req[r] = Idle
    /\ \/ u = Nobody /\ Answer(r, u, "Unauthorized")
       \/ Answer(r, u, "BadRequest")
    /\ UNCHANGED db

\* INSERT INTO paths; the sequence moves on even when the row is rejected.
CreatePath(r, u, n) ==
    /\ req[r] = Idle
    /\ nextId \in PathIds
    /\ nextId' = nextId + 1
    /\ \/ /\ PathNameTaken(u, n, nextId)
          /\ Answer(r, u, "Conflict")
          /\ UNCHANGED paths
       \/ /\ ~PathNameTaken(u, n, nextId)
          /\ InsertPath(u, n)
          /\ AnswerCommitted(r, u)
    /\ UNCHANGED <<stats, quotas>>

UpdatePath(r, u, p, n, public) ==
    /\ req[r] = Idle
    /\ \/ /\ ~Owns(u, p)
          /\ Answer(r, u, "NotFound")
          /\ UNCHANGED paths
       \/ /\ Owns(u, p)
          /\ PathNameTaken(u, n, p)
          /\ Answer(r, u, "Conflict")
          /\ UNCHANGED paths
       \/ /\ Owns(u, p)
          /\ ~PathNameTaken(u, n, p)
          /\ SetPath(p, n, public)
          /\ AnswerCommitted(r, u)
    /\ UNCHANGED <<stats, quotas, nextId>>

DeletePath(r, u, p) ==
    /\ req[r] = Idle
    /\ \/ /\ ~Owns(u, p)
          /\ Answer(r, u, "NotFound")
          /\ UNCHANGED <<paths, stats, quotas>>
       \/ /\ Owns(u, p)
          /\ RemovePath(p)
          /\ AnswerCommitted(r, u)
    /\ UNCHANGED nextId

DeleteStat(r, u, p, n) ==
    /\ req[r] = Idle
    /\ \/ /\ ~(Owns(u, p) /\ StatExists(p, n))
          /\ Answer(r, u, "NotFound")
          /\ UNCHANGED <<stats, quotas>>
       \/ /\ Owns(u, p) /\ StatExists(p, n)
          /\ RemoveStat(p, n)
          /\ AnswerCommitted(r, u)
    /\ UNCHANGED <<paths, nextId>>

\* One transaction over the stats that are named; it locks each row it changes
\* until it commits, so it is one step.  Nobody counts the rows it affects: the
\* answer is OK for a stat that is gone and for a path of somebody else.
UpdateStatsCounts(r, u, p, N, f) ==
    /\ req[r] = Idle
    /\ SetCounts(u, p, N, f)
    /\ AnswerCommitted(r, u)
    /\ UNCHANGED <<paths, quotas, nextId>>

-------------------------------------------------------------------------------
(* HandleCreateStat: INSERT INTO stats, then INSERT INTO quotas.           *)

CreateStat(r, u, p, n) ==
    /\ req[r] = Idle
    /\ \/ /\ ~Owns(u, p)
          /\ Answer(r, u, "NotFound")
          /\ UNCHANGED stats
       \/ /\ Owns(u, p) /\ StatExists(p, n)
          /\ Answer(r, u, "Conflict")
          /\ UNCHANGED stats
       \/ /\ Owns(u, p) /\ ~StatExists(p, n)
          /\ InsertStat(p, n)
          /\ \/ Answer(r, u, "Error")
             \/ req' = [req EXCEPT ![r] = [pc |-> "CreateQuota", user |-> u,
                                           path |-> p, name |-> n]]
    /\ UNCHANGED <<paths, quotas, nextId>>

\* Mutant: the error of the second statement is not looked at.
CreateQuotaUnchecked(r) ==
    /\ req[r].pc = "CreateQuota"
    /\ IF QuotaExists(req[r].path, req[r].name) \/ ~StatExists(req[r].path, req[r].name)
       THEN UNCHANGED quotas
       ELSE InsertQuota(req[r].path, req[r].name)
    /\ Answer(r, req[r].user, "OK")
    /\ UNCHANGED <<paths, stats, nextId>>

CreateQuota(r) ==
    /\ req[r].pc = "CreateQuota"
    /\ LET p == req[r].path
           n == req[r].name
       IN  \/ /\ QuotaExists(p, n) \/ ~StatExists(p, n)
              /\ Answer(r, req[r].user, "Error")
              /\ UNCHANGED quotas
           \/ /\ ~QuotaExists(p, n) /\ StatExists(p, n)
              /\ InsertQuota(p, n)
              /\ AnswerCommitted(r, req[r].user)
    /\ UNCHANGED <<paths, stats, nextId>>

-------------------------------------------------------------------------------
(* HandleUpdateStat: UPDATE stats (the rename cascades to the quota), then *)
(* UPDATE quotas under the new name, where nobody asks who owns the path.  *)

\* Mutant: the table stats has no primary key.
UpdateStatOntoAnother(r, u, p, old, new, settings) ==
    /\ req[r] = Idle
    /\ Owns(u, p) /\ StatExists(p, old)
    /\ SetStatName(p, old, new)
    /\ req' = [req EXCEPT ![r] = [pc |-> "UpdateQuota", user |-> u, path |-> p,
                                  name |-> new, settings |-> settings]]
    /\ UNCHANGED <<paths, nextId>>

UpdateStat(r, u, p, old, new, settings) ==
    /\ req[r] = Idle
    /\ \/ /\ ~(Owns(u, p) /\ StatExists(p, old))
          /\ Answer(r, u, "NotFound")
          /\ UNCHANGED <<stats, quotas>>
       \/ /\ Owns(u, p) /\ StatExists(p, old)
          /\ new # old /\ StatExists(p, new)
          /\ Answer(r, u, "Conflict")
          /\ UNCHANGED <<stats, quotas>>
       \/ /\ Owns(u, p) /\ StatExists(p, old)
          /\ new = old \/ ~StatExists(p, new)
          /\ SetStatName(p, old, new)
          /\ \/ Answer(r, u, "Error")
             \/ req' = [req EXCEPT ![r] = [pc |-> "UpdateQuota", user |-> u, path |-> p,
                                           name |-> new, settings |-> settings]]
    /\ UNCHANGED <<paths, nextId>>

UpdateQuota(r) ==
    /\ req[r].pc = "UpdateQuota"
    /\ SetQuota(req[r].path, req[r].name, req[r].settings)
    /\ AnswerCommitted(r, req[r].user)
    /\ UNCHANGED <<paths, stats, nextId>>

-------------------------------------------------------------------------------
(* Reading.                                                                *)

\* HandlePath: SELECT the path, if the asker may see it.
GetFullPath(r, u, p) ==
    /\ req[r] = Idle
    /\ \/ /\ \A x \in paths : x.id = p => ~Visible(u, x)
          /\ Answer(r, u, "NotFound")
       \/ \E x \in paths :
             /\ x.id = p /\ Visible(u, x)
             /\ req' = [req EXCEPT ![r] = [pc |-> "GetStats", user |-> u, path |-> p,
                                           owner |-> x.user_id, public |-> x.public]]
    /\ UNCHANGED db

\* Then the stats of that id, with no further check; the answer says whether the
\* asker may edit the path.
GetStats(r) ==
    /\ req[r].pc = "GetStats"
    /\ AnswerWith(r, req[r].user, {req[r].path})
    /\ UNCHANGED db

\* HandleUserPaths: the list of v's paths on his profile.
HandleUserPaths(r, u, v) ==
    /\ req[r] = Idle
    /\ AnswerWith(r, u, GetPaths(u, v))
    /\ UNCHANGED db

\* HandleHomePaths: the asker's own list.
HandleHomePaths(r, u) ==
    /\ req[r] = Idle
    /\ AnswerWith(r, u, GetHomePaths(u))
    /\ UNCHANGED db

-------------------------------------------------------------------------------

\* A statement fails and changes nothing.  In DeletePath and DeleteStat the
\* handler then dereferences a nil result, and Recoverer turns that into a 500.
StatementFails(r) ==
    /\ \/ req[r] = Idle /\ \E u \in Askers : Answer(r, u, "Error")
       \/ /\ req[r].pc \in {"CreateQuota", "UpdateQuota", "GetStats"}
          /\ Answer(r, req[r].user, "Error")
    /\ UNCHANGED db

\* The answer leaves, or its connection is gone; the slot takes a new request.
Leave(r) ==
    /\ req[r].pc = "answered"
    /\ req' = [req EXCEPT ![r] = Idle]
    /\ UNCHANGED db

Begin(r, u) ==
    \/ \E n \in PathNames : CreatePath(r, u, n)
    \/ \E p \in PathIds :
          \/ \E n \in PathNames, b \in BOOLEAN : UpdatePath(r, u, p, n, b)
          \/ DeletePath(r, u, p)
          \/ \E n \in StatNames : CreateStat(r, u, p, n) \/ DeleteStat(r, u, p, n)
          \/ \E old, new \in StatNames, s \in Settings : UpdateStat(r, u, p, old, new, s)
          \/ \E N \in SUBSET StatNames : \E f \in [N -> Counts] :
                UpdateStatsCounts(r, u, p, N, f)

Read(r, u) ==
    \/ \E p \in PathIds : GetFullPath(r, u, p)
    \/ \E v \in Users : HandleUserPaths(r, u, v)
    \/ HandleHomePaths(r, u)

Next ==
    \E r \in Requests :
        \/ \E u \in Askers : Refuse(r, u) \/ Read(r, u)
        \/ GetStats(r)
        \/ \E u \in Users : Begin(r, u)
        \/ CreateQuota(r)
        \/ UpdateQuota(r)
        \/ StatementFails(r)
        \/ Leave(r)

Spec == Init /\ [][Next]_vars
-------------------------------------------------------------------------------
(* Properties.                                                             *)

\* The tables hold rows of their columns' types and each request is in a state
\* that its handler has.
TypeOK ==
    /\ paths \subseteq PathRow
    /\ stats \subseteq StatRow
    /\ quotas \subseteq QuotaRow
    /\ nextId \in 1 .. MaxPathId + 1
    /\ req \in [Requests -> RequestState]

\* A quota belongs to a stat and a stat to a path, through every rename and
\* delete, and with a CreateQuota that comes after its stat has gone.
ForeignKeys ==
    /\ \A q \in quotas : StatExists(q.path_id, q.stat_name)
    /\ \A s \in stats : \E x \in paths : x.id = s.path_id
    /\ \A x \in paths : x.id < nextId

\* No two rows have the same key: a name leads to one path of its owner, to one
\* stat of its path and to one quota.
UniqueKeys ==
    /\ \A x, y \in paths :
          x.id = y.id \/ (x.user_id = y.user_id /\ x.name = y.name) => x = y
    /\ \A s, t \in stats : s.path_id = t.path_id /\ s.name = t.name => s = t
    /\ \A q, k \in quotas :
          q.path_id = k.path_id /\ q.stat_name = k.stat_name => q = k

\* CreateQuota and UpdateQuota do not ask who owns the path.  They need not: a
\* request that has its second statement to run runs it on a path that is its
\* user's or is deleted by now, and never becomes somebody else's.
PendingOwned ==
    \A r \in Requests : req[r].pc \in {"CreateQuota", "UpdateQuota"} =>
        /\ req[r].path < nextId
        /\ \A x \in paths : x.id = req[r].path => x.user_id = req[r].user

\* Between the check of who may see a path and its stats, the path may be hidden,
\* deleted or replaced.  What an answer shows is the asker's own, or public, or
\* was public when the request asked and still has the same owner: an id never
\* leads to the stats of somebody else's private path, and the right to edit that
\* the answer carries is the owner's.
SeenAllowed ==
    [][\A r \in Requests : req'[r] # req[r] /\ req'[r].pc = "answered" =>
          \A x \in paths : x.id \in req'[r].seen =>
             \/ Visible(req'[r].user, x)
             \/ /\ req[r].pc = "GetStats"
                /\ req[r].public
                /\ req[r].owner = x.user_id]_vars

RowsOf(p) == <<{x \in paths : x.id = p}, {s \in stats : s.path_id = p},
               {q \in quotas : q.path_id = p}>>

\* Whatever changes in a path, in its stats or in their quotas, changes in a step
\* of a request that the path's owner made (all the "AND user_id = $n" together).
EditsByOwner ==
    [][\A p \in PathIds : RowsOf(p)' # RowsOf(p) =>
          \E r \in Requests :
             /\ req'[r] # req[r]
             /\ \A x \in paths \cup paths' : x.id = p => x.user_id = req'[r].user]_vars

Quotaless == {s \in stats : ~QuotaExists(s.path_id, s.name)}
Creating == {r \in Requests : req[r].pc = "CreateQuota"}
Failing == {r \in Requests : req'[r] # req[r] /\ req'[r].pc = "answered"
                                             /\ req'[r].status = "Error"}

\* The stats without a quota are never more than the creations under way and the
\* creations that were answered 500: no step, a rename of a half-made stat
\* included, adds one to them in silence.
QuotalessPaid ==
    [][Cardinality(Quotaless') - Cardinality(Creating')
         <= Cardinality(Quotaless) - Cardinality(Creating) + Cardinality(Failing)]_vars

\* README.md:13, "Quota for each stat": when no request is under way, each stat
\* has its quota.
EveryStatHasQuota ==
    (\A r \in Requests : req[r] = Idle) => \A s \in stats : QuotaExists(s.path_id, s.name)

\* What a path page can show: GetStats reads stats JOIN quotas.
Shown ==
    {[path_id |-> z[1].path_id, name |-> z[1].name, count |-> z[1].count,
      settings |-> z[2].settings] :
        z \in {y \in stats \X quotas :
                 y[1].path_id = y[2].path_id /\ y[1].name = y[2].stat_name}}

Book == INSTANCE PathBook WITH book <- Shown

\* Through that JOIN the two statements of a creation look like one step, and the
\* service keeps the promise of PathBook, failures and races included.
BookKept == Book!BookSpec
===============================================================================
