-------------------------- MODULE PathServiceProofs --------------------------
(***************************************************************************)
(* Theorems about PathService for any users, names, ids and requests:      *)
(* what its tables keep, who changes and sees them, and that it implements *)
(* PathBook.                                                               *)
(***************************************************************************)
EXTENDS PathService, FiniteSetTheorems, TLAPS

USE DEF PathIds, db,
    InsertPath, SetPath, RemovePath, InsertStat, InsertQuota, RemoveStat, SetStatName,
    SetQuota, SetCounts

\* A request that has read who may see a path and whose it is still knows that, as
\* far as the path is there.
ReadingOwned ==
    \A r \in Requests : req[r].pc = "GetStats" =>
        /\ req[r].path < nextId
        /\ req[r].public \/ req[r].owner = req[r].user
        /\ \A x \in paths : x.id = req[r].path => x.user_id = req[r].owner

\* The five invariants together are inductive: a rename keeps the keys unique
\* only because the old keys were, and CreateQuota's row gets an owner only
\* because its path and its stat do.
IndInv == TypeOK /\ ForeignKeys /\ UniqueKeys /\ PendingOwned /\ ReadingOwned

-------------------------------------------------------------------------------

\* The tables are empty and nothing is in flight.
LEMMA InitOK == Init => IndInv
BY PathServiceAssumption
   DEF Init, IndInv, TypeOK, ForeignKeys, UniqueKeys, PendingOwned, ReadingOwned, RequestState,
       Idle

\* An answer leaves the other requests alone and is a state of its own request.
LEMMA AnswerKeeps ==
    ASSUME IndInv, NEW r \in Requests, NEW u \in Askers, NEW s \in Statuses,
           Answer(r, u, s)
    PROVE  /\ req' \in [Requests -> RequestState]
           /\ \A t \in Requests : t # r => req'[t] = req[t]
           /\ req'[r].pc = "answered"
BY DEF IndInv, TypeOK, Answer, RequestState, PathIds

LEMMA CreatePathKeeps ==
    ASSUME IndInv, NEW r \in Requests, NEW u \in Users, NEW n \in PathNames,
           CreatePath(r, u, n)
    PROVE  IndInv'
<1> DEFINE row == [id |-> nextId, user_id |-> u, name |-> n, public |-> FALSE]
<1>1. PICK s \in Statuses : Answer(r, u, s)
  BY DEF CreatePath, AnswerCommitted, Statuses
<1>2. /\ req' \in [Requests -> RequestState]
      /\ \A t \in Requests : t # r => req'[t] = req[t]
      /\ req'[r].pc = "answered"
  BY <1>1, AnswerKeeps DEF Askers
<1>3. /\ paths' = paths \/ (paths' = paths \cup {row} /\ ~PathNameTaken(u, n, nextId))
      /\ nextId' = nextId + 1 /\ nextId \in PathIds
      /\ UNCHANGED <<stats, quotas>>
  BY DEF CreatePath
<1>a. /\ row \in PathRow
      /\ row.id = nextId /\ row.user_id = u /\ row.name = n
  BY <1>3, Zenon DEF PathRow
<1> HIDE DEF row
<1>4. TypeOK'
  BY <1>2, <1>3, <1>a, PathServiceAssumption DEF IndInv, TypeOK
<1>5. ForeignKeys'
  BY <1>2, <1>3, <1>a, PathServiceAssumption
     DEF IndInv, TypeOK, PathRow, ForeignKeys, StatExists
<1>6. UniqueKeys'
  BY <1>2, <1>3, <1>a, PathServiceAssumption
     DEF IndInv, TypeOK, PathRow, ForeignKeys, UniqueKeys, PathNameTaken
<1>7. PendingOwned'
  BY <1>2, <1>3, <1>a, PathServiceAssumption
     DEF IndInv, TypeOK, PathRow, RequestState, Idle, ForeignKeys, PendingOwned
<1>8. ReadingOwned'
  BY <1>2, <1>3, <1>a, PathServiceAssumption
     DEF IndInv, TypeOK, PathRow, RequestState, Idle, ForeignKeys, ReadingOwned
<1> QED BY <1>4, <1>5, <1>6, <1>7, <1>8 DEF IndInv
LEMMA UpdatePathKeeps ==
    ASSUME IndInv, NEW r \in Requests, NEW u \in Users, NEW p \in PathIds, NEW n \in PathNames,
           NEW b \in BOOLEAN, UpdatePath(r, u, p, n, b)
    PROVE  IndInv'
<1>1. PICK s \in Statuses : Answer(r, u, s)
  BY DEF UpdatePath, AnswerCommitted, Statuses
<1>2. /\ req' \in [Requests -> RequestState]
      /\ \A t \in Requests : t # r => req'[t] = req[t]
      /\ req'[r].pc = "answered"
  BY <1>1, AnswerKeeps DEF Askers
<1> DEFINE upd(x) == IF x.id = p THEN [x EXCEPT !.name = n, !.public = b] ELSE x
<1>3. \/ UNCHANGED paths
      \/ paths' = {upd(x) : x \in paths} /\ Owns(u, p) /\ ~PathNameTaken(u, n, p)
  BY DEF UpdatePath
<1>a. ASSUME NEW x \in paths
      PROVE  /\ upd(x) \in PathRow /\ upd(x).id = x.id /\ upd(x).user_id = x.user_id
             /\ upd(x).name = IF x.id = p THEN n ELSE x.name
  <2>1. x \in PathRow
    BY DEF IndInv, TypeOK
  <2> QED BY <2>1, Zenon DEF PathRow
<1>b. UNCHANGED <<stats, quotas, nextId>>
  BY DEF UpdatePath
<1> HIDE DEF upd
<1>4. TypeOK'
  BY <1>2, <1>3, <1>a, <1>b DEF IndInv, TypeOK
<1>5. ForeignKeys'
  <2>1. CASE UNCHANGED paths
    BY <1>b, <2>1 DEF IndInv, ForeignKeys, StatExists
  <2>2. CASE paths' = {upd(x) : x \in paths}
    <3>1. \A t \in stats : \E y \in paths' : y.id = t.path_id
      BY <1>a, <2>2 DEF IndInv, ForeignKeys
    <3>2. \A y \in paths' : y.id < nextId
      BY <1>a, <2>2 DEF IndInv, ForeignKeys
    <3> QED BY <1>b, <3>1, <3>2 DEF IndInv, ForeignKeys, StatExists
  <2> QED BY <1>3, <2>1, <2>2
<1>6. UniqueKeys'
  <2>1. CASE UNCHANGED paths
    BY <1>b, <2>1 DEF IndInv, UniqueKeys
  <2>2. CASE paths' = {upd(x) : x \in paths} /\ Owns(u, p) /\ ~PathNameTaken(u, n, p)
    <3>1. ASSUME NEW x \in paths, NEW y \in paths,
                 \/ upd(x).id = upd(y).id
                 \/ upd(x).user_id = upd(y).user_id /\ upd(x).name = upd(y).name
          PROVE  x = y
      BY <1>a, <2>2, <3>1 DEF IndInv, UniqueKeys, Owns, PathNameTaken
    <3> QED BY <1>b, <2>2, <3>1 DEF IndInv, UniqueKeys
  <2> QED BY <1>3, <2>1, <2>2
<1>7. PendingOwned'
  BY <1>2, <1>3, <1>a, <1>b DEF IndInv, TypeOK, PendingOwned
<1>8. ReadingOwned'
  BY <1>2, <1>3, <1>a, <1>b DEF IndInv, TypeOK, ReadingOwned
<1> QED BY <1>4, <1>5, <1>6, <1>7, <1>8 DEF IndInv

LEMMA DeletePathKeeps ==
    ASSUME IndInv, NEW r \in Requests, NEW u \in Users, NEW p \in PathIds,
           DeletePath(r, u, p)
    PROVE  IndInv'
<1>1. PICK s \in Statuses : Answer(r, u, s)
  BY DEF DeletePath, AnswerCommitted, Statuses
<1>2. /\ req' \in [Requests -> RequestState]
      /\ \A t \in Requests : t # r => req'[t] = req[t]
      /\ req'[r].pc = "answered"
  BY <1>1, AnswerKeeps DEF Askers
<1>4. TypeOK'
  BY <1>2
     DEF IndInv, TypeOK, DeletePath, PathRow, StatRow, QuotaRow
<1>5. ForeignKeys'
  BY <1>2
     DEF IndInv, TypeOK, DeletePath, PathRow, StatRow, QuotaRow, ForeignKeys, StatExists, Owns
<1>6. UniqueKeys'
  BY <1>2
     DEF IndInv, TypeOK, DeletePath, PathRow, StatRow, QuotaRow, UniqueKeys, StatExists,
         QuotaExists, PathNameTaken, Owns
<1>7. PendingOwned'
  BY <1>2
     DEF IndInv, TypeOK, DeletePath, PathRow, RequestState, Idle, ForeignKeys, PendingOwned, Owns
<1>8. ReadingOwned'
  BY <1>2
     DEF IndInv, TypeOK, DeletePath, PathRow, RequestState, Idle, ForeignKeys, ReadingOwned
<1> QED BY <1>4, <1>5, <1>6, <1>7, <1>8 DEF IndInv

LEMMA DeleteStatKeeps ==
    ASSUME IndInv, NEW r \in Requests, NEW u \in Users, NEW p \in PathIds, NEW n \in StatNames,
           DeleteStat(r, u, p, n)
    PROVE  IndInv'
<1>1. PICK s \in Statuses : Answer(r, u, s)
  BY DEF DeleteStat, AnswerCommitted, Statuses
<1>2. /\ req' \in [Requests -> RequestState]
      /\ \A t \in Requests : t # r => req'[t] = req[t]
      /\ req'[r].pc = "answered"
  BY <1>1, AnswerKeeps DEF Askers
<1>4. TypeOK'
  BY <1>2
     DEF IndInv, TypeOK, DeleteStat, PathRow, StatRow, QuotaRow
<1>5. ForeignKeys'
  BY <1>2
     DEF IndInv, TypeOK, DeleteStat, PathRow, StatRow, QuotaRow, ForeignKeys, StatExists, Owns
<1>6. UniqueKeys'
  BY <1>2
     DEF IndInv, TypeOK, DeleteStat, PathRow, StatRow, QuotaRow, UniqueKeys, StatExists,
         QuotaExists, PathNameTaken, Owns
<1>7. PendingOwned'
  BY <1>2
     DEF IndInv, TypeOK, DeleteStat, PathRow, RequestState, Idle, ForeignKeys, PendingOwned, Owns
<1>8. ReadingOwned'
  BY <1>2
     DEF IndInv, TypeOK, DeleteStat, PathRow, RequestState, Idle, ForeignKeys, ReadingOwned
<1> QED BY <1>4, <1>5, <1>6, <1>7, <1>8 DEF IndInv

LEMMA UpdateStatsCountsKeeps ==
    ASSUME IndInv, NEW r \in Requests, NEW u \in Users, NEW p \in PathIds,
           NEW N \in SUBSET StatNames, NEW f \in [N -> Counts],
           UpdateStatsCounts(r, u, p, N, f)
    PROVE  IndInv'
<1>1. PICK s \in Statuses : Answer(r, u, s)
  BY DEF UpdateStatsCounts, AnswerCommitted, Statuses
<1>2. /\ req' \in [Requests -> RequestState]
      /\ \A t \in Requests : t # r => req'[t] = req[t]
      /\ req'[r].pc = "answered"
  BY <1>1, AnswerKeeps DEF Askers
<1>4. TypeOK'
  BY <1>2
     DEF IndInv, TypeOK, UpdateStatsCounts, PathRow, StatRow, QuotaRow
<1>5. ForeignKeys'
  <2> DEFINE upd(t) == IF t.path_id = p /\ t.name \in N /\ Owns(u, p)
                       THEN [t EXCEPT !.count = f[t.name]] ELSE t
  <2>1. stats' = {upd(t) : t \in stats}
    BY DEF UpdateStatsCounts
  <2>2. \A t \in stats : upd(t).path_id = t.path_id /\ upd(t).name = t.name
    BY DEF IndInv, TypeOK, StatRow
  <2> HIDE DEF upd
  <2>3. UNCHANGED <<paths, quotas, nextId>>
    BY DEF UpdateStatsCounts
  <2>4. \A q \in quotas : StatExists(q.path_id, q.stat_name)'
    <3> TAKE q \in quotas
    <3>1. PICK t \in stats : t.path_id = q.path_id /\ t.name = q.stat_name
      BY DEF IndInv, ForeignKeys, StatExists
    <3>2. upd(t) \in stats' /\ upd(t).path_id = q.path_id /\ upd(t).name = q.stat_name
      BY <2>1, <2>2, <3>1
    <3> QED BY <3>2 DEF StatExists
  <2>5. \A t \in stats' : \E x \in paths : x.id = t.path_id
    BY <2>1, <2>2 DEF IndInv, ForeignKeys
  <2> QED BY <2>3, <2>4, <2>5 DEF IndInv, ForeignKeys
<1>6. UniqueKeys'
  BY <1>2
     DEF IndInv, TypeOK, UpdateStatsCounts, PathRow, StatRow, QuotaRow, UniqueKeys, StatExists,
         QuotaExists, PathNameTaken, Owns
<1>7. PendingOwned'
  BY <1>2
     DEF IndInv, TypeOK, UpdateStatsCounts, PathRow, RequestState, Idle, ForeignKeys, PendingOwned, Owns
<1>8. ReadingOwned'
  BY <1>2
     DEF IndInv, TypeOK, UpdateStatsCounts, PathRow, RequestState, Idle, ForeignKeys, ReadingOwned
<1> QED BY <1>4, <1>5, <1>6, <1>7, <1>8 DEF IndInv

LEMMA CreateStatKeeps ==
    ASSUME IndInv, NEW r \in Requests, NEW u \in Users, NEW p \in PathIds, NEW n \in StatNames,
           CreateStat(r, u, p, n)
    PROVE  IndInv'
<1>2. \/ /\ req' \in [Requests -> RequestState]
         /\ \A t \in Requests : t # r => req'[t] = req[t]
         /\ req'[r].pc = "answered"
      \/ /\ req' \in [Requests -> RequestState]
         /\ \A t \in Requests : t # r => req'[t] = req[t]
         /\ req'[r].pc = "CreateQuota" /\ req'[r].user = u /\ req'[r].path = p /\ Owns(u, p)
  <2>1. CASE \E s \in Statuses : Answer(r, u, s)
    BY <2>1, AnswerKeeps DEF Askers
  <2>2. CASE ~\E s \in Statuses : Answer(r, u, s)
    BY <2>2 DEF CreateStat, Statuses, RequestState, IndInv, TypeOK
  <2> QED BY <2>1, <2>2
<1>4. TypeOK'
  BY <1>2, PathServiceAssumption
     DEF IndInv, TypeOK, CreateStat, PathRow, StatRow, QuotaRow
<1>5. ForeignKeys'
  BY <1>2, PathServiceAssumption
     DEF IndInv, TypeOK, CreateStat, PathRow, StatRow, QuotaRow, ForeignKeys, StatExists, Owns
<1>6. UniqueKeys'
  BY <1>2, PathServiceAssumption
     DEF IndInv, TypeOK, CreateStat, PathRow, StatRow, QuotaRow, UniqueKeys, StatExists,
         QuotaExists, PathNameTaken, Owns
<1>7. PendingOwned'
  BY <1>2, PathServiceAssumption
     DEF IndInv, TypeOK, CreateStat, PathRow, RequestState, Idle, ForeignKeys, UniqueKeys,
         PendingOwned, Owns
<1>8. ReadingOwned'
  BY <1>2
     DEF IndInv, TypeOK, CreateStat, PathRow, RequestState, Idle, ForeignKeys, ReadingOwned
<1> QED BY <1>4, <1>5, <1>6, <1>7, <1>8 DEF IndInv

LEMMA UpdateStatKeeps ==
    ASSUME IndInv, NEW r \in Requests, NEW u \in Users, NEW p \in PathIds,
           NEW old \in StatNames, NEW new \in StatNames, NEW settings \in Settings,
           UpdateStat(r, u, p, old, new, settings)
    PROVE  IndInv'
<1>2. \/ /\ req' \in [Requests -> RequestState]
         /\ \A t \in Requests : t # r => req'[t] = req[t]
         /\ req'[r].pc = "answered"
      \/ /\ req' \in [Requests -> RequestState]
         /\ \A t \in Requests : t # r => req'[t] = req[t]
         /\ req'[r].pc = "UpdateQuota" /\ req'[r].user = u /\ req'[r].path = p /\ Owns(u, p)
  <2>1. CASE \E s \in Statuses : Answer(r, u, s)
    BY <2>1, AnswerKeeps DEF Askers
  <2>2. CASE ~\E s \in Statuses : Answer(r, u, s)
    BY <2>2 DEF UpdateStat, Statuses, RequestState, IndInv, TypeOK
  <2> QED BY <2>1, <2>2
<1>4. TypeOK'
  BY <1>2
     DEF IndInv, TypeOK, UpdateStat, PathRow, StatRow, QuotaRow
<1>5. ForeignKeys'
  <2> DEFINE moved(q, n) == IF q = p /\ n = old THEN new ELSE n
  <2>1. CASE UNCHANGED <<stats, quotas>>
    BY <2>1 DEF IndInv, UpdateStat, ForeignKeys, StatExists
  <2>2. CASE ~UNCHANGED <<stats, quotas>>
    <3> DEFINE upd(t) == IF t.path_id = p /\ t.name = old
                         THEN [t EXCEPT !.name = new] ELSE t
    <3>1. \A t \in stats : upd(t) \in stats' /\ upd(t).path_id = t.path_id
                                             /\ upd(t).name = moved(t.path_id, t.name)
      BY <2>2 DEF IndInv, TypeOK, UpdateStat, StatRow
    <3>2. \A z \in stats' : \E t \in stats : z = upd(t)
      BY <2>2 DEF UpdateStat
    <3>3. \A k \in quotas' : \E q \in quotas : /\ k.path_id = q.path_id
                                               /\ k.stat_name = moved(q.path_id, q.stat_name)
      BY <2>2 DEF IndInv, TypeOK, UpdateStat, QuotaRow
    <3> HIDE DEF upd
    <3>4. \A k \in quotas' : StatExists(k.path_id, k.stat_name)'
      <4> TAKE k \in quotas'
      <4>1. PICK q \in quotas : /\ k.path_id = q.path_id
                                /\ k.stat_name = moved(q.path_id, q.stat_name)
        BY <3>3
      <4>2. PICK t \in stats : t.path_id = q.path_id /\ t.name = q.stat_name
        BY DEF IndInv, ForeignKeys, StatExists
      <4>3. upd(t) \in stats' /\ upd(t).path_id = k.path_id /\ upd(t).name = k.stat_name
        BY <3>1, <4>1, <4>2
      <4> QED BY <4>3 DEF StatExists
    <3>5. \A z \in stats' : \E x \in paths : x.id = z.path_id
      BY <3>1, <3>2 DEF IndInv, ForeignKeys
    <3> QED BY <3>4, <3>5 DEF IndInv, UpdateStat, ForeignKeys
  <2> QED BY <2>1, <2>2
<1>6. UniqueKeys'
  <2>1. CASE UNCHANGED <<stats, quotas>>
    BY <2>1 DEF IndInv, UpdateStat, UniqueKeys
  <2>2. CASE ~UNCHANGED <<stats, quotas>>
    <3>1. new = old \/ (~StatExists(p, new) /\ ~QuotaExists(p, new))
      BY <2>2 DEF IndInv, UpdateStat, ForeignKeys, StatExists, QuotaExists
    <3>2. \A s, t \in stats' : s.path_id = t.path_id /\ s.name = t.name => s = t
      BY <2>2, <3>1 DEF IndInv, TypeOK, UpdateStat, StatRow, UniqueKeys, StatExists
    <3>3. \A q, k \in quotas' :
             q.path_id = k.path_id /\ q.stat_name = k.stat_name => q = k
      BY <2>2, <3>1 DEF IndInv, TypeOK, UpdateStat, QuotaRow, UniqueKeys, QuotaExists
    <3> QED BY <3>2, <3>3 DEF IndInv, UpdateStat, UniqueKeys
  <2> QED BY <2>1, <2>2
<1>7. PendingOwned'
  BY <1>2
     DEF IndInv, TypeOK, UpdateStat, PathRow, RequestState, Idle, ForeignKeys, UniqueKeys,
         PendingOwned, Owns
<1>8. ReadingOwned'
  BY <1>2
     DEF IndInv, TypeOK, UpdateStat, PathRow, RequestState, Idle, ForeignKeys, ReadingOwned
<1> QED BY <1>4, <1>5, <1>6, <1>7, <1>8 DEF IndInv

LEMMA CreateQuotaKeeps ==
    ASSUME IndInv, NEW r \in Requests,
           CreateQuota(r)
    PROVE  IndInv'
<1>1. /\ req[r].user \in Users /\ req[r].path \in PathIds /\ req[r].name \in StatNames
      /\ \E s \in Statuses : Answer(r, req[r].user, s)
  BY DEF IndInv, TypeOK, RequestState, Idle, CreateQuota, AnswerCommitted, Statuses
<1>2. /\ req' \in [Requests -> RequestState]
      /\ \A t \in Requests : t # r => req'[t] = req[t]
      /\ req'[r].pc = "answered"
  BY <1>1, AnswerKeeps DEF Askers
<1>4. TypeOK'
  BY <1>1, <1>2, PathServiceAssumption
     DEF IndInv, TypeOK, CreateQuota, PathRow, StatRow, QuotaRow
<1>5. ForeignKeys'
  BY <1>1, <1>2, PathServiceAssumption
     DEF IndInv, TypeOK, CreateQuota, PathRow, StatRow, QuotaRow, ForeignKeys, StatExists, Owns
<1>6. UniqueKeys'
  BY <1>1, <1>2, PathServiceAssumption
     DEF IndInv, TypeOK, CreateQuota, PathRow, StatRow, QuotaRow, UniqueKeys, StatExists,
         QuotaExists, PathNameTaken, Owns
<1>7. PendingOwned'
  BY <1>1, <1>2, PathServiceAssumption
     DEF IndInv, TypeOK, CreateQuota, PathRow, RequestState, Idle, ForeignKeys, PendingOwned, Owns
<1>8. ReadingOwned'
  BY <1>1, <1>2
     DEF IndInv, TypeOK, CreateQuota, PathRow, RequestState, Idle, ForeignKeys, ReadingOwned
<1> QED BY <1>4, <1>5, <1>6, <1>7, <1>8 DEF IndInv

LEMMA UpdateQuotaKeeps ==
    ASSUME IndInv, NEW r \in Requests,
           UpdateQuota(r)
    PROVE  IndInv'
<1>1. /\ req[r].user \in Users /\ req[r].path \in PathIds /\ req[r].name \in StatNames
      /\ req[r].settings \in Settings
      /\ \E s \in Statuses : Answer(r, req[r].user, s)
  BY DEF IndInv, TypeOK, RequestState, Idle, UpdateQuota, AnswerCommitted, Statuses
<1>2. /\ req' \in [Requests -> RequestState]
      /\ \A t \in Requests : t # r => req'[t] = req[t]
      /\ req'[r].pc = "answered"
  BY <1>1, AnswerKeeps DEF Askers
<1>4. TypeOK'
  BY <1>1, <1>2
     DEF IndInv, TypeOK, UpdateQuota, PathRow, StatRow, QuotaRow
<1>5. ForeignKeys'
  BY <1>1, <1>2
     DEF IndInv, TypeOK, UpdateQuota, PathRow, StatRow, QuotaRow, ForeignKeys, StatExists, Owns
<1>6. UniqueKeys'
  BY <1>1, <1>2
     DEF IndInv, TypeOK, UpdateQuota, PathRow, StatRow, QuotaRow, UniqueKeys, StatExists,
         QuotaExists, PathNameTaken, Owns
<1>7. PendingOwned'
  BY <1>1, <1>2
     DEF IndInv, TypeOK, UpdateQuota, PathRow, RequestState, Idle, ForeignKeys, PendingOwned, Owns
<1>8. ReadingOwned'
  BY <1>1, <1>2
     DEF IndInv, TypeOK, UpdateQuota, PathRow, RequestState, Idle, ForeignKeys, ReadingOwned
<1> QED BY <1>4, <1>5, <1>6, <1>7, <1>8 DEF IndInv
\* What a handler that reads answers with, leaves the other requests alone as well.
LEMMA ReadKeeps ==
    ASSUME IndInv, NEW r \in Requests, \/ \E u \in Askers : Read(r, u)
                                       \/ GetStats(r)
    PROVE  IndInv'
<1>1. UNCHANGED db
  BY DEF Read, GetFullPath, HandleUserPaths, HandleHomePaths, GetStats
<1> DEFINE Known == /\ req'[r].pc = "GetStats"
                    /\ req'[r].public \/ req'[r].owner = req'[r].user
                    /\ \E x \in paths : x.id = req'[r].path /\ x.user_id = req'[r].owner
           Fine == /\ req' \in [Requests -> RequestState]
                   /\ \A t \in Requests : t # r => req'[t] = req[t]
                   /\ req'[r].pc = "answered" \/ Known
<1>2. Fine
  <2>1. CASE \E u \in Askers, P \in SUBSET PathIds : AnswerWith(r, u, P)
    BY <2>1 DEF AnswerWith, IndInv, TypeOK, RequestState, Statuses
  <2>2. CASE \E u \in Askers, s \in Statuses : Answer(r, u, s)
    BY <2>2, AnswerKeeps
  <2>3. CASE GetStats(r)
    <3>1. req[r].user \in Askers /\ {req[r].path} \in SUBSET PathIds
      BY <2>3 DEF GetStats, IndInv, TypeOK, RequestState, Idle
    <3> QED BY <2>1, <2>3, <3>1 DEF GetStats
  <2>4. ASSUME NEW u \in Askers, Read(r, u) PROVE Fine
    <3>1. CASE \E v \in Users : HandleUserPaths(r, u, v)
      BY <2>1, <3>1 DEF HandleUserPaths, GetPaths, IndInv, TypeOK, PathRow
    <3>2. CASE HandleHomePaths(r, u)
      BY <2>1, <3>2 DEF HandleHomePaths, GetHomePaths, IndInv, TypeOK, PathRow
    <3>3. CASE \E p \in PathIds : GetFullPath(r, u, p)
      <4>1. CASE \E s \in Statuses : Answer(r, u, s)
        BY <2>2, <4>1
      <4>2. PICK p \in PathIds : GetFullPath(r, u, p)
        BY <3>3
      <4>3. CASE ~\E s \in Statuses : Answer(r, u, s)
        <5>1. PICK x \in paths :
                 /\ x.id = p /\ Visible(u, x)
                 /\ req' = [req EXCEPT ![r] = [pc |-> "GetStats", user |-> u, path |-> p,
                                               owner |-> x.user_id, public |-> x.public]]
          BY <4>2, <4>3 DEF GetFullPath, Statuses
        <5> DEFINE q == [pc |-> "GetStats", user |-> u, path |-> p,
                         owner |-> x.user_id, public |-> x.public]
        <5>2. x.user_id \in Users /\ x.public \in BOOLEAN
          BY DEF IndInv, TypeOK, PathRow
        <5>3. q \in RequestState
          BY <5>2, Zenon DEF RequestState
        <5>4. /\ q.pc = "GetStats" /\ q.path = x.id /\ q.owner = x.user_id
              /\ q.public \/ q.owner = q.user
          BY <5>1, Zenon DEF Visible
        <5> HIDE DEF q
        <5>5. req' = [req EXCEPT ![r] = q]
          BY <5>1 DEF q
        <5>6. req'[r] = q /\ \A t \in Requests : t # r => req'[t] = req[t]
          BY <5>5 DEF IndInv, TypeOK
        <5>7. req' \in [Requests -> RequestState]
          BY <5>3, <5>5 DEF IndInv, TypeOK
        <5> QED BY <5>1, <5>4, <5>6, <5>7
      <4> QED BY <4>1, <4>3
    <3> QED BY <2>4, <3>1, <3>2, <3>3 DEF Read
  <2> QED BY <2>3, <2>4
<1>3. ReadingOwned'
  BY <1>1, <1>2 DEF IndInv, TypeOK, PathRow, ForeignKeys, UniqueKeys, ReadingOwned
<1> QED
  BY <1>1, <1>2, <1>3
     DEF IndInv, TypeOK, ForeignKeys, StatExists, UniqueKeys, PendingOwned

\* Refusing a request, a failed statement and the end of a request only touch req.
LEMMA QuietKeeps ==
    ASSUME IndInv, NEW r \in Requests,
           \/ \E u \in Askers : Refuse(r, u)
           \/ StatementFails(r)
           \/ Leave(r)
    PROVE  IndInv'
<1>1. UNCHANGED db
  BY DEF Refuse, StatementFails, Leave
<1>2. /\ req' \in [Requests -> RequestState]
      /\ \A t \in Requests : t # r => req'[t] = req[t]
      /\ req'[r].pc \in {"answered", "idle"}
  <2>1. CASE \E u \in Askers, s \in Statuses : Answer(r, u, s)
    BY <2>1, AnswerKeeps
  <2>2. CASE Leave(r)
    BY <2>2 DEF Leave, IndInv, TypeOK, RequestState, Idle
  <2>3. CASE \E u \in Askers : Refuse(r, u)
    BY <2>1, <2>3 DEF Refuse, Statuses
  <2>4. CASE StatementFails(r)
    BY <2>1, <2>4 DEF StatementFails, Statuses, IndInv, TypeOK, RequestState, Idle, Askers
  <2> QED BY <2>2, <2>3, <2>4
<1> QED
  BY <1>1, <1>2
     DEF IndInv, TypeOK, ForeignKeys, StatExists, UniqueKeys, PendingOwned, ReadingOwned

LEMMA NextKeeps == IndInv /\ [Next]_vars => IndInv'
<1> SUFFICES ASSUME IndInv, [Next]_vars PROVE IndInv'
  OBVIOUS
<1>1. CASE UNCHANGED vars
  BY <1>1 DEF vars, IndInv, TypeOK, ForeignKeys, StatExists, UniqueKeys, PendingOwned,
              ReadingOwned
<1>2. CASE Next
  <2>1. PICK r \in Requests :
           \/ \E u \in Askers : Refuse(r, u) \/ Read(r, u)
           \/ GetStats(r)
           \/ \E u \in Users : Begin(r, u)
           \/ CreateQuota(r)
           \/ UpdateQuota(r)
           \/ StatementFails(r)
           \/ Leave(r)
    BY <1>2 DEF Next
  <2>2. ASSUME NEW u \in Users, Begin(r, u)
        PROVE  IndInv'
    BY <2>2, CreatePathKeeps, UpdatePathKeeps, DeletePathKeeps, CreateStatKeeps,
       DeleteStatKeeps, UpdateStatKeeps, UpdateStatsCountsKeeps DEF Begin
  <2> QED BY <2>1, <2>2, CreateQuotaKeeps, UpdateQuotaKeeps, ReadKeeps, QuietKeeps
<1> QED BY <1>1, <1>2

\* The inductive invariant holds in every state of every behaviour.
THEOREM Invariance == Spec => []IndInv
<1> QED BY InitOK, NextKeeps, PTL DEF Spec

\* The tables keep their types, requests their states.
THEOREM TypeCorrect == Spec => []TypeOK
<1>1. IndInv => TypeOK
  BY DEF IndInv
<1> QED BY <1>1, Invariance, PTL

\* Every quota has its stat and every stat its path, whatever requests meet between
\* the statements of a creation or of a rename.
THEOREM ReferencesKept == Spec => []ForeignKeys
<1>1. IndInv => ForeignKeys
  BY DEF IndInv
<1> QED BY <1>1, Invariance, PTL

\* No two rows share a key, although a rename rewrites keys in two tables.
THEOREM KeysUnique == Spec => []UniqueKeys
<1>1. IndInv => UniqueKeys
  BY DEF IndInv
<1> QED BY <1>1, Invariance, PTL

\* The second statement of a request, which does not check the owner, never runs on
\* the path of another user.
THEOREM SecondStatementOwned == Spec => []PendingOwned
<1>1. IndInv => PendingOwned
  BY DEF IndInv
<1> QED BY <1>1, Invariance, PTL
-------------------------------------------------------------------------------

\* Request r, in this step, acts for the user who owns path p.
ActsForOwner(r, p) ==
    /\ req'[r] # req[r]
    /\ \A x \in paths \cup paths' : x.id = p => x.user_id = req'[r].user

\* What a handler's first statement changes belongs to the request's user.
LEMMA BeginOwned ==
    ASSUME IndInv, NEW r \in Requests, NEW u \in Users, Begin(r, u),
           NEW p \in PathIds, RowsOf(p)' # RowsOf(p)
    PROVE  ActsForOwner(r, p)
<1>1. req[r] = Idle /\ r \in DOMAIN req
  BY DEF Begin, CreatePath, UpdatePath, DeletePath, CreateStat, DeleteStat, UpdateStat,
         UpdateStatsCounts, IndInv, TypeOK
<1>2. ASSUME NEW n \in PathNames, CreatePath(r, u, n)
      PROVE  ActsForOwner(r, p)
  <2>1. /\ UNCHANGED <<stats, quotas>>
        /\ paths' = paths \/ paths' = paths \cup {[id |-> nextId, user_id |-> u, name |-> n, public |-> FALSE]}
        /\ req'[r].user = u /\ req'[r].pc = "answered"
    BY <1>1, <1>2 DEF CreatePath, AnswerCommitted, Answer
  <2>2. p = nextId
    BY <2>1 DEF RowsOf
  <2> QED BY <1>1, <2>1, <2>2 DEF ActsForOwner, IndInv, ForeignKeys, TypeOK, Idle
<1>3. ASSUME NEW z \in PathIds, NEW n \in PathNames, NEW b \in BOOLEAN,
             UpdatePath(r, u, z, n, b)
      PROVE  ActsForOwner(r, p)
  <2> DEFINE upd(x) == IF x.id = z THEN [x EXCEPT !.name = n, !.public = b] ELSE x
  <2>b. UNCHANGED <<stats, quotas>> /\ paths' # paths
    BY <1>3 DEF UpdatePath, RowsOf
  <2>1. /\ UNCHANGED <<stats, quotas>>
        /\ Owns(u, z)
        /\ paths' = {upd(x) : x \in paths}
        /\ \E s \in Statuses : Answer(r, u, s)
    BY <1>3, <2>b, Zenon DEF UpdatePath, AnswerCommitted, Statuses
  <2>c. PICK t \in Statuses : Answer(r, u, t)
    BY <2>1
  <2>a. req'[r].user = u /\ req'[r].pc = "answered"
    BY <1>1, <2>c DEF Answer
  <2>2. ASSUME NEW x \in paths
        PROVE  /\ upd(x).id = x.id /\ upd(x).user_id = x.user_id
               /\ x.id # z => upd(x) = x
    <3>1. x \in PathRow
      BY DEF IndInv, TypeOK
    <3> QED BY <3>1, Zenon DEF PathRow
  <2> HIDE DEF upd
  <2>3. p = z
    BY <2>1, <2>2 DEF RowsOf
  <2>4. \A x \in paths \cup paths' : x.id = p => x.user_id = u
    BY <2>1, <2>2, <2>3 DEF IndInv, UniqueKeys, Owns
  <2> QED BY <1>1, <2>a, <2>4 DEF ActsForOwner, Idle
<1>4. ASSUME NEW z \in PathIds, DeletePath(r, u, z)
      PROVE  ActsForOwner(r, p)
  BY <1>1, <1>4 DEF DeletePath, AnswerCommitted, Answer, RowsOf, Owns, ActsForOwner,
                    IndInv, UniqueKeys, Idle
<1>5. ASSUME NEW z \in PathIds, Owns(u, z), UNCHANGED paths,
             z # p => RowsOf(p)' = RowsOf(p),
             req'[r].user = u, req'[r].pc # "idle"
      PROVE  ActsForOwner(r, p)
  BY <1>1, <1>5 DEF Owns, ActsForOwner, IndInv, UniqueKeys, Idle
<1>6. ASSUME NEW z \in PathIds, NEW n \in StatNames, CreateStat(r, u, z, n)
      PROVE  ActsForOwner(r, p)
  BY <1>1, <1>5, <1>6 DEF CreateStat, Answer, RowsOf
<1>7. ASSUME NEW z \in PathIds, NEW n \in StatNames, DeleteStat(r, u, z, n)
      PROVE  ActsForOwner(r, p)
  BY <1>1, <1>5, <1>7 DEF DeleteStat, AnswerCommitted, Answer, RowsOf
<1>8. ASSUME NEW z \in PathIds, NEW old \in StatNames, NEW new \in StatNames,
             NEW t \in Settings, UpdateStat(r, u, z, old, new, t)
      PROVE  ActsForOwner(r, p)
  <2>1. /\ UNCHANGED paths /\ Owns(u, z)
        /\ stats' = {IF s.path_id = z /\ s.name = old
                     THEN [s EXCEPT !.name = new] ELSE s : s \in stats}
        /\ quotas' = {IF q.path_id = z /\ q.stat_name = old
                      THEN [q EXCEPT !.stat_name = new] ELSE q : q \in quotas}
        /\ req'[r].user = u /\ req'[r].pc # "idle"
    BY <1>1, <1>8 DEF UpdateStat, Answer, RowsOf
  <2>2. z # p => RowsOf(p)' = RowsOf(p)
    BY <2>1 DEF RowsOf, IndInv, TypeOK, StatRow, QuotaRow
  <2> QED BY <1>5, <2>1, <2>2
<1>9. ASSUME NEW z \in PathIds, NEW N \in SUBSET StatNames, NEW f \in [N -> Counts],
             UpdateStatsCounts(r, u, z, N, f)
      PROVE  ActsForOwner(r, p)
  <2>1. /\ UNCHANGED <<paths, quotas>>
        /\ stats' = {IF s.path_id = z /\ s.name \in N /\ Owns(u, z)
                     THEN [s EXCEPT !.count = f[s.name]] ELSE s : s \in stats}
        /\ req'[r].user = u /\ req'[r].pc # "idle"
    BY <1>1, <1>9 DEF UpdateStatsCounts, AnswerCommitted, Answer
  <2>2. Owns(u, z)
    BY <2>1 DEF RowsOf
  <2>3. z # p => RowsOf(p)' = RowsOf(p)
    BY <2>1 DEF RowsOf, IndInv, TypeOK, StatRow
  <2> QED BY <1>5, <2>1, <2>2, <2>3
<1> QED BY <1>2, <1>3, <1>4, <1>6, <1>7, <1>8, <1>9 DEF Begin

\* What a second statement changes belongs to the request's user: PendingOwned.
LEMMA SecondOwned ==
    ASSUME IndInv, NEW r \in Requests, CreateQuota(r) \/ UpdateQuota(r),
           NEW p \in PathIds, RowsOf(p)' # RowsOf(p)
    PROVE  ActsForOwner(r, p)
<1>1. /\ r \in DOMAIN req /\ UNCHANGED <<paths, stats>>
      /\ req[r].pc \in {"CreateQuota", "UpdateQuota"}
      /\ req'[r].user = req[r].user /\ req'[r].pc = "answered"
  BY DEF CreateQuota, UpdateQuota, AnswerCommitted, Answer, IndInv, TypeOK
<1>2. req[r].path = p
  <2>1. CASE CreateQuota(r)
    BY <1>1, <2>1 DEF CreateQuota, RowsOf
  <2>2. CASE UpdateQuota(r)
    <3>1. quotas' = {IF q.path_id = req[r].path /\ q.stat_name = req[r].name
                     THEN [q EXCEPT !.settings = req[r].settings] ELSE q : q \in quotas}
      BY <2>2 DEF UpdateQuota
    <3> QED BY <1>1, <3>1 DEF RowsOf, IndInv, TypeOK, QuotaRow
  <2> QED BY <2>1, <2>2
<1> QED BY <1>1, <1>2 DEF ActsForOwner, IndInv, PendingOwned

\* Nobody but its owner, through a request of his own, changes a path, its stats or
\* the settings of their quotas.
THEOREM OnlyOwnersEdit == Spec => EditsByOwner
<1> DEFINE Owned == \A p \in PathIds : RowsOf(p)' # RowsOf(p) =>
                       \E r \in Requests : ActsForOwner(r, p)
<1>1. IndInv /\ [Next]_vars => [Owned]_vars
  <2> SUFFICES ASSUME IndInv, Next, NEW p \in PathIds, RowsOf(p)' # RowsOf(p)
               PROVE  \E r \in Requests : ActsForOwner(r, p)
    OBVIOUS
  <2>1. PICK r \in Requests :
           \/ \E u \in Users : Begin(r, u)
           \/ CreateQuota(r) \/ UpdateQuota(r)
    BY DEF Next, Refuse, Read, GetFullPath, HandleUserPaths, HandleHomePaths, GetStats, StatementFails,
           Leave, RowsOf
  <2> QED BY <2>1, BeginOwned, SecondOwned
<1>2. [Owned]_vars => [\A p \in PathIds : RowsOf(p)' # RowsOf(p) =>
          \E r \in Requests :
             /\ req'[r] # req[r]
             /\ \A x \in paths \cup paths' : x.id = p => x.user_id = req'[r].user]_vars
  BY DEF ActsForOwner
<1> QED BY <1>1, <1>2, Invariance, PTL DEF Spec, EditsByOwner
-------------------------------------------------------------------------------

\* What a request shows when it is answered is what its asker may see.
Allowed ==
    \A r \in Requests : req'[r] # req[r] /\ req'[r].pc = "answered" =>
       \A x \in paths : x.id \in req'[r].seen =>
          \/ Visible(req'[r].user, x)
          \/ /\ req[r].pc = "GetStats"
             /\ req[r].public
             /\ req[r].owner = x.user_id

\* An answer without paths shows none.
LEMMA PlainAllowed ==
    ASSUME IndInv, NEW r \in Requests, NEW u \in Askers, NEW s \in Statuses, Answer(r, u, s)
    PROVE  Allowed
BY DEF IndInv, TypeOK, Answer, Allowed

\* A step that answers nothing shows nothing.
LEMMA SilentAllowed ==
    ASSUME IndInv, NEW r \in Requests, NEW q, q.pc # "answered", req' = [req EXCEPT ![r] = q]
    PROVE  Allowed
BY DEF IndInv, TypeOK, Allowed

LEMMA ReadAllowed ==
    ASSUME IndInv, NEW r \in Requests, NEW u \in Askers, Read(r, u)
    PROVE  Allowed
<1>1. ASSUME NEW P, AnswerWith(r, u, P), \A x \in paths : x.id \in P => Visible(u, x)
      PROVE  Allowed
  BY <1>1 DEF AnswerWith, Allowed, IndInv, TypeOK
<1>2. CASE \E v \in Users : HandleUserPaths(r, u, v)
  BY <1>1, <1>2 DEF HandleUserPaths, GetPaths, IndInv, UniqueKeys
<1>3. CASE HandleHomePaths(r, u)
  BY <1>1, <1>3 DEF HandleHomePaths, GetHomePaths, Visible, IndInv, UniqueKeys
<1>4. CASE \E p \in PathIds : GetFullPath(r, u, p)
  BY <1>4, PlainAllowed, SilentAllowed DEF GetFullPath, Statuses
<1> QED BY <1>2, <1>3, <1>4 DEF Read

\* The stats of a path: the check of the first statement still says whose they are.
LEMMA GetStatsAllowed ==
    ASSUME IndInv, NEW r \in Requests, GetStats(r)
    PROVE  Allowed
<1>1. /\ req' = [req EXCEPT ![r] = [pc |-> "answered", user |-> req[r].user,
                                    status |-> "OK", seen |-> {req[r].path}]]
      /\ req[r].pc = "GetStats"
      /\ req[r].public \/ req[r].owner = req[r].user
      /\ \A x \in paths : x.id = req[r].path => x.user_id = req[r].owner
  BY DEF GetStats, AnswerWith, IndInv, ReadingOwned
<1> QED BY <1>1 DEF Allowed, Visible, IndInv, TypeOK

LEMMA BeginAllowed ==
    ASSUME IndInv, NEW r \in Requests, NEW u \in Users, Begin(r, u)
    PROVE  Allowed
<1>1. ASSUME NEW q, q.pc \in {"CreateQuota", "UpdateQuota"}, req' = [req EXCEPT ![r] = q]
      PROVE  Allowed
  BY <1>1, SilentAllowed
<1>2. ASSUME NEW s \in Statuses, Answer(r, u, s)
      PROVE  Allowed
  BY <1>2, PlainAllowed DEF Askers
<1>3. ASSUME NEW p \in PathIds, NEW n \in StatNames, CreateStat(r, u, p, n)
      PROVE  Allowed
  <2> DEFINE q == [pc |-> "CreateQuota", user |-> u, path |-> p, name |-> n]
  <2>1. q.pc = "CreateQuota"
    OBVIOUS
  <2>2. (\E s \in Statuses : Answer(r, u, s)) \/ req' = [req EXCEPT ![r] = q]
    BY <1>3 DEF CreateStat, Statuses
  <2> HIDE DEF q
  <2> QED BY <1>1, <1>2, <2>1, <2>2
<1>4. ASSUME NEW p \in PathIds, NEW old \in StatNames, NEW new \in StatNames,
             NEW z \in Settings, UpdateStat(r, u, p, old, new, z)
      PROVE  Allowed
  <2> DEFINE q == [pc |-> "UpdateQuota", user |-> u, path |-> p, name |-> new,
                   settings |-> z]
  <2>1. q.pc = "UpdateQuota"
    OBVIOUS
  <2>2. (\E s \in Statuses : Answer(r, u, s)) \/ req' = [req EXCEPT ![r] = q]
    BY <1>4 DEF UpdateStat, Statuses
  <2> HIDE DEF q
  <2> QED BY <1>1, <1>2, <2>1, <2>2
<1> QED BY <1>2, <1>3, <1>4 DEF Begin, CreatePath, UpdatePath, DeletePath, DeleteStat,
                                UpdateStatsCounts, AnswerCommitted, Statuses

\* Nobody is shown what he may not see: neither a change of visibility nor the
\* deletion of a path between the two statements of a page leads from one user's
\* permission to another user's stats.
THEOREM ShowsAllowedOnly == Spec => SeenAllowed
<1>1. IndInv /\ [Next]_vars => [Allowed]_vars
  <2> SUFFICES ASSUME IndInv, Next PROVE Allowed
    OBVIOUS
  <2>1. PICK r \in Requests :
           \/ \E u \in Askers : Refuse(r, u) \/ Read(r, u)
           \/ GetStats(r)
           \/ \E u \in Users : Begin(r, u)
           \/ CreateQuota(r)
           \/ UpdateQuota(r)
           \/ StatementFails(r)
           \/ Leave(r)
    BY DEF Next
  <2>2. CASE CreateQuota(r) \/ UpdateQuota(r) \/ StatementFails(r)
    <3>1. req[r].pc # "idle" => req[r].user \in Askers
      BY DEF IndInv, TypeOK, RequestState, Idle, Askers
    <3> QED BY <2>2, <3>1, PlainAllowed
            DEF CreateQuota, UpdateQuota, StatementFails, AnswerCommitted, Statuses
  <2>3. CASE \E u \in Askers : Refuse(r, u)
    BY <2>3, PlainAllowed DEF Refuse, Statuses
  <2>4. CASE Leave(r)
    BY <2>4, SilentAllowed DEF Leave, Idle
  <2> QED BY <2>1, <2>2, <2>3, <2>4, ReadAllowed, GetStatsAllowed, BeginAllowed
<1> QED BY <1>1, Invariance, PTL DEF Spec, SeenAllowed, Allowed

-------------------------------------------------------------------------------
(* PathService implements PathBook: each of its steps is a step of the     *)
(* book, or changes neither the paths nor what a path page can show.       *)

HIDE DEF PathIds, db

ShownRow == [path_id : PathIds, name : StatNames, count : Counts, settings : Settings]

StatOf(b) == [path_id |-> b.path_id, name |-> b.name, count |-> b.count]
QuotaOf(b) == [path_id |-> b.path_id, stat_name |-> b.name, settings |-> b.settings]

\* The rows both halves of which are in the tables: the JOIN that defines Shown, said
\* in the other direction.
Pages == {b \in ShownRow : StatOf(b) \in stats /\ QuotaOf(b) \in quotas}

PBook == INSTANCE PathBook WITH book <- Pages

LEMMA ShownBy ==
    Pages = {b \in ShownRow : StatOf(b) \in stats /\ QuotaOf(b) \in quotas}
BY DEF Pages

LEMMA ShownUnchanged == UNCHANGED <<stats, quotas>> => UNCHANGED Pages
BY DEF Pages

BookStep == [PBook!BookNext]_(PBook!bookVars)

LEMMA CreatePathBook ==
    ASSUME IndInv, NEW r \in Requests, NEW u \in Users, NEW n \in PathNames,
           CreatePath(r, u, n)
    PROVE  BookStep
<1>1. UNCHANGED Pages
  BY ShownUnchanged DEF CreatePath
<1>2. CASE UNCHANGED paths
  BY <1>1, <1>2 DEF BookStep, PBook!bookVars
<1>3. CASE ~PathNameTaken(u, n, nextId)
           /\ paths' = paths \cup {[id |-> nextId, user_id |-> u, name |-> n, public |-> FALSE]}
  <2> DEFINE x == [id |-> nextId, user_id |-> u, name |-> n, public |-> FALSE]
  <2>1. /\ x \in PBook!PathRow /\ ~x.public
        /\ x.id = nextId /\ x.user_id = u /\ x.name = n
    BY Zenon DEF CreatePath, PBook!PathRow
  <2>a. paths' = paths \cup {x}
    BY <1>3
  <2> HIDE DEF x
  <2>2. /\ \A y \in paths : y.id # x.id
        /\ \A y \in paths : y.user_id = x.user_id => y.name # x.name
    BY <1>3, <2>1 DEF IndInv, TypeOK, PathRow, ForeignKeys, PathNameTaken
  <2> QED BY <1>1, <2>a, <2>1, <2>2 DEF BookStep, PBook!BookNext, PBook!OpenPath
<1> QED BY <1>2, <1>3 DEF CreatePath

LEMMA UpdatePathBook ==
    ASSUME IndInv, NEW r \in Requests, NEW u \in Users, NEW p \in PathIds,
           NEW n \in PathNames, NEW b \in BOOLEAN, UpdatePath(r, u, p, n, b)
    PROVE  BookStep
<1>1. UNCHANGED Pages
  BY ShownUnchanged DEF UpdatePath
<1>2. CASE UNCHANGED paths
  BY <1>1, <1>2 DEF BookStep, PBook!bookVars
<1>3. CASE /\ Owns(u, p) /\ ~PathNameTaken(u, n, p)
           /\ paths' = {IF x.id = p THEN [x EXCEPT !.name = n, !.public = b] ELSE x : x \in paths}
  <2>1. PICK x \in paths : x.id = p /\ x.user_id = u
    BY <1>3 DEF Owns
  <2> DEFINE y == [x EXCEPT !.name = n, !.public = b]
  <2>2. \A z \in paths : z.id = p <=> z = x
    BY <2>1 DEF IndInv, UniqueKeys
  <2>3. paths' = {IF z = x THEN y ELSE z : z \in paths}
    <3> HIDE DEF y
    <3>1. \A z \in paths : (IF z.id = p THEN [z EXCEPT !.name = n, !.public = b] ELSE z)
                               = (IF z = x THEN y ELSE z)
      BY <2>2, Zenon DEF y
    <3> QED BY <1>3, <3>1
  <2> HIDE DEF y
  <2>4. paths' = (paths \ {x}) \cup {y}
    BY <2>3
  <2>5. \A z \in paths \ {x} : z.user_id = x.user_id => z.name # n
    BY <1>3, <2>1, <2>2 DEF PathNameTaken
  <2>6. PBook!ChangePath
    BY <1>1, <2>4, <2>5, Zenon DEF y, PBook!ChangePath
  <2> QED BY <2>6 DEF BookStep, PBook!BookNext
<1> QED BY <1>2, <1>3 DEF UpdatePath

LEMMA DeletePathBook ==
    ASSUME IndInv, NEW r \in Requests, NEW u \in Users, NEW p \in PathIds,
           DeletePath(r, u, p)
    PROVE  BookStep
<1>1. CASE UNCHANGED <<paths, stats, quotas>>
  BY <1>1, ShownUnchanged DEF BookStep, PBook!bookVars
<1>2. CASE /\ Owns(u, p)
           /\ paths' = {x \in paths : x.id # p}
           /\ stats' = {s \in stats : s.path_id # p}
           /\ quotas' = {q \in quotas : q.path_id # p}
  <2>1. PICK x \in paths : x.id = p
    BY <1>2 DEF Owns
  <2>2. paths' = paths \ {x}
    BY <1>2, <2>1 DEF IndInv, UniqueKeys
  <2>3. Pages' = {b \in Pages : b.path_id # x.id}
    BY <1>2, <2>1 DEF Pages, ShownRow, StatOf, QuotaOf
  <2> QED BY <2>2, <2>3 DEF BookStep, PBook!BookNext, PBook!ClosePath
<1> QED BY <1>1, <1>2 DEF DeletePath

\* A new stat has no quota: it is not shown yet.
LEMMA CreateStatBook ==
    ASSUME IndInv, NEW r \in Requests, NEW u \in Users, NEW p \in PathIds,
           NEW n \in StatNames, CreateStat(r, u, p, n)
    PROVE  BookStep
<1>1. UNCHANGED <<paths, quotas>>
  BY DEF CreateStat
<1>2. CASE UNCHANGED stats
  BY <1>1, <1>2, ShownUnchanged DEF BookStep, PBook!bookVars
<1>3. CASE /\ ~StatExists(p, n)
           /\ stats' = stats \cup {[path_id |-> p, name |-> n, count |-> 0]}
  <2>1. ~QuotaExists(p, n)
    BY <1>3 DEF IndInv, ForeignKeys, StatExists, QuotaExists
  <2>2. UNCHANGED Pages
    BY <1>1, <1>3, <2>1 DEF Pages, ShownRow, StatOf, QuotaOf, QuotaExists
  <2> QED BY <1>1, <2>2 DEF BookStep, PBook!bookVars
<1> QED BY <1>2, <1>3 DEF CreateStat

\* The quota makes the stat appear, with whatever count it has by then.
LEMMA CreateQuotaBook ==
    ASSUME IndInv, NEW r \in Requests, CreateQuota(r)
    PROVE  BookStep
<1> DEFINE p == req[r].path
           n == req[r].name
<1>1. UNCHANGED <<paths, stats>>
  BY DEF CreateQuota
<1>2. CASE UNCHANGED quotas
  BY <1>1, <1>2, ShownUnchanged DEF BookStep, PBook!bookVars
<1>3. CASE /\ ~QuotaExists(p, n) /\ StatExists(p, n)
           /\ quotas' = quotas \cup {[path_id |-> p, stat_name |-> n,
                                      settings |-> DefaultSettings]}
  <2>1. PICK s \in stats : s.path_id = p /\ s.name = n
    BY <1>3 DEF StatExists
  <2>2. PICK x \in paths : x.id = p
    BY <2>1 DEF IndInv, ForeignKeys
  <2>3. s \in StatRow
    BY DEF IndInv, TypeOK
  <2> DEFINE b == [path_id |-> x.id, name |-> n, count |-> s.count,
                   settings |-> DefaultSettings]
  <2>4. b \in ShownRow /\ n \in StatNames /\ s.count \in Counts
    BY <2>1, <2>2, <2>3, PathServiceAssumption DEF ShownRow, StatRow
  <2>5. StatOf(b) = s
    BY <2>1, <2>2, <2>3 DEF StatOf, StatRow
  <2>6. ~PBook!InBook(x.id, n)
    BY <1>3, <2>2 DEF PBook!InBook, Pages, ShownRow, StatOf, QuotaOf, QuotaExists
  <2>7. \A c \in ShownRow : StatOf(c) \in stats /\ c.path_id = p /\ c.name = n
                              => c.count = s.count
    BY <2>1 DEF IndInv, UniqueKeys, StatOf
  <2>8. ASSUME NEW c \in ShownRow
        PROVE  c \in Pages' <=> c \in Pages \cup {b}
    <3>1. c \in Pages' <=> StatOf(c) \in stats /\ QuotaOf(c) \in quotas'
      BY <1>1 DEF Pages, ShownRow, StatOf, QuotaOf
    <3>2. c \in Pages <=> StatOf(c) \in stats /\ QuotaOf(c) \in quotas
      BY ShownBy
    <3>3. QuotaOf(c) \in quotas' <=>
             QuotaOf(c) \in quotas
             \/ (c.path_id = p /\ c.name = n /\ c.settings = DefaultSettings)
      BY <1>3 DEF QuotaOf
    <3>4. c = b <=> /\ c.path_id = p /\ c.name = n
                    /\ c.count = s.count /\ c.settings = DefaultSettings
      BY <2>2 DEF ShownRow
    <3>5. c = b => StatOf(c) \in stats
      BY <2>5
    <3> QED BY <3>1, <3>2, <3>3, <3>4, <3>5, <2>7
  <2>9. Pages' = Pages \cup {b}
    BY <2>4, <2>8 DEF Pages, ShownRow
  <2> QED BY <1>1, <2>2, <2>4, <2>6, <2>9 DEF BookStep, PBook!BookNext, PBook!ShowStat
<1> QED BY <1>2, <1>3 DEF CreateQuota
LEMMA DeleteStatBook ==
    ASSUME IndInv, NEW r \in Requests, NEW u \in Users, NEW p \in PathIds,
           NEW n \in StatNames, DeleteStat(r, u, p, n)
    PROVE  BookStep
<1>1. UNCHANGED paths
  BY DEF DeleteStat
<1>2. CASE UNCHANGED <<stats, quotas>>
  BY <1>1, <1>2, ShownUnchanged DEF BookStep, PBook!bookVars
<1>3. CASE /\ stats' = {s \in stats : ~(s.path_id = p /\ s.name = n)}
           /\ quotas' = {q \in quotas : ~(q.path_id = p /\ q.stat_name = n)}
  <2>1. Pages' = {b \in Pages : ~(b.path_id = p /\ b.name = n)}
    BY <1>3 DEF Pages, ShownRow, StatOf, QuotaOf
  <2>2. CASE \A b \in Pages : ~(b.path_id = p /\ b.name = n)
    BY <1>1, <2>1, <2>2 DEF BookStep, PBook!bookVars
  <2>3. CASE \E b \in Pages : b.path_id = p /\ b.name = n
    <3>1. PICK b \in Pages : b.path_id = p /\ b.name = n
      BY <2>3
    <3>2. \A c \in Pages : c.path_id = p /\ c.name = n => c = b
      BY <3>1 DEF Pages, ShownRow, StatOf, QuotaOf, IndInv, UniqueKeys
    <3>3. Pages' = Pages \ {b}
      BY <2>1, <3>1, <3>2
    <3> QED BY <1>1, <3>3 DEF BookStep, PBook!BookNext, PBook!HideStat
  <2> QED BY <2>2, <2>3
<1> QED BY <1>2, <1>3 DEF DeleteStat

\* The settings of at most one shown row change.
LEMMA UpdateQuotaBook ==
    ASSUME IndInv, NEW r \in Requests, UpdateQuota(r)
    PROVE  BookStep
<1> DEFINE p == req[r].path
           n == req[r].name
           z == req[r].settings
<1>1. /\ UNCHANGED <<paths, stats>>
      /\ quotas' = {IF q.path_id = p /\ q.stat_name = n
                    THEN [q EXCEPT !.settings = z] ELSE q : q \in quotas}
  BY DEF UpdateQuota
<1>2. z \in Settings
  BY DEF UpdateQuota, IndInv, TypeOK, RequestState, Idle
<1>3. \A c \in ShownRow : c \in Pages' <=> StatOf(c) \in stats /\ QuotaOf(c) \in quotas'
  BY <1>1 DEF Pages, ShownRow, StatOf, QuotaOf
<1>4. \A c \in ShownRow : c \in Pages <=> StatOf(c) \in stats /\ QuotaOf(c) \in quotas
  BY ShownBy
<1>5. ASSUME NEW c \in ShownRow, ~(c.path_id = p /\ c.name = n)
      PROVE  c \in Pages' <=> c \in Pages
  <2>1. QuotaOf(c) \in quotas' <=> QuotaOf(c) \in quotas
    BY <1>1, <1>5 DEF QuotaOf, IndInv, TypeOK, QuotaRow
  <2> QED BY <1>3, <1>4, <2>1
<1>6. Pages \subseteq ShownRow /\ Pages' \subseteq ShownRow
  BY DEF Pages, ShownRow
\* A quota at (p, n) after the step is one that was there, with the new settings.
<1>7. ASSUME NEW c \in ShownRow, c.path_id = p, c.name = n, QuotaOf(c) \in quotas'
      PROVE  /\ c.settings = z
             /\ \E q \in quotas : q.path_id = p /\ q.stat_name = n
  <2>1. PICK q \in quotas : QuotaOf(c) = IF q.path_id = p /\ q.stat_name = n
                                         THEN [q EXCEPT !.settings = z] ELSE q
    BY <1>1, <1>7
  <2>2. q \in QuotaRow
    BY DEF IndInv, TypeOK
  <2>3. /\ QuotaOf(c).path_id = p /\ QuotaOf(c).stat_name = n
        /\ QuotaOf(c).settings = c.settings
    BY <1>7 DEF QuotaOf
  <2>4. q.path_id = p /\ q.stat_name = n
    BY <2>1, <2>2, <2>3 DEF QuotaRow
  <2> QED BY <2>1, <2>2, <2>3, <2>4 DEF QuotaRow
<1>8. CASE \A b \in Pages : ~(b.path_id = p /\ b.name = n)
  <2>1. ASSUME NEW c \in ShownRow, c.path_id = p, c.name = n
        PROVE  c \notin Pages'
    <3>1. SUFFICES ASSUME StatOf(c) \in stats, QuotaOf(c) \in quotas' PROVE FALSE
      BY <1>3
    <3>2. PICK q \in quotas : q.path_id = p /\ q.stat_name = n
      BY <1>7, <2>1, <3>1
    <3> DEFINE d == [c EXCEPT !.settings = q.settings]
    <3>3. q \in QuotaRow
      BY DEF IndInv, TypeOK
    <3>4. d \in ShownRow /\ d.path_id = p /\ d.name = n
      BY <2>1, <3>3 DEF ShownRow, QuotaRow
    <3>5. StatOf(d) = StatOf(c) /\ QuotaOf(d) = q
      BY <2>1, <3>2, <3>3 DEF StatOf, QuotaOf, ShownRow, QuotaRow
    <3> QED BY <1>4, <1>8, <3>1, <3>4, <3>5
  <2>2. Pages' = Pages
    BY <1>5, <1>6, <1>8, <2>1
  <2> QED BY <1>1, <2>2 DEF BookStep, PBook!bookVars
<1>9. CASE \E b \in Pages : b.path_id = p /\ b.name = n
  <2>1. PICK b \in Pages : b.path_id = p /\ b.name = n
    BY <1>9
  <2> DEFINE d == [b EXCEPT !.settings = z]
  <2>2. b \in ShownRow /\ d \in ShownRow /\ d.path_id = p /\ d.name = n
    BY <1>2, <1>6, <2>1 DEF ShownRow
  <2>3. \A c \in Pages : c.path_id = p /\ c.name = n => c = b
    BY <2>1 DEF Pages, ShownRow, StatOf, QuotaOf, IndInv, UniqueKeys
  <2>4. StatOf(d) \in stats /\ QuotaOf(b) \in quotas
    BY <1>4, <2>1, <2>2 DEF StatOf, ShownRow
  <2>5. QuotaOf(d) \in quotas'
    <3>1. [QuotaOf(b) EXCEPT !.settings = z] \in quotas'
      BY <1>1, <2>1, <2>4 DEF QuotaOf
    <3>2. QuotaOf(d) = [QuotaOf(b) EXCEPT !.settings = z]
      BY <2>2 DEF QuotaOf, ShownRow
    <3> QED BY <3>1, <3>2
  <2>6. d \in Pages'
    BY <1>3, <2>2, <2>4, <2>5
  <2>7. ASSUME NEW c \in Pages', c.path_id = p, c.name = n
        PROVE  c = d
    <3>1. c \in ShownRow /\ StatOf(c) \in stats /\ QuotaOf(c) \in quotas'
      BY <1>3, <1>6
    <3>2. c.settings = z
      BY <1>7, <2>7, <3>1
    <3>3. StatOf(c) = StatOf(b)
      <4>1. StatOf(b) \in stats
        BY <1>4, <2>1, <2>2
      <4>2. /\ StatOf(b).path_id = p /\ StatOf(b).name = n
            /\ StatOf(c).path_id = p /\ StatOf(c).name = n
        BY <2>1, <2>7 DEF StatOf
      <4> QED BY <3>1, <4>1, <4>2 DEF IndInv, UniqueKeys
    <3>4. c.count = b.count
      BY <3>3 DEF StatOf
    <3> QED BY <2>1, <2>2, <2>7, <3>1, <3>2, <3>4 DEF ShownRow
  <2>8. Pages' = (Pages \ {b}) \cup {d}
    BY <1>5, <1>6, <2>1, <2>2, <2>3, <2>6, <2>7
  <2> QED BY <1>1, <1>2, <2>8 DEF BookStep, PBook!BookNext, PBook!Configure
<1> QED BY <1>8, <1>9
\* A rename moves at most one shown row.
LEMMA UpdateStatBook ==
    ASSUME IndInv, NEW r \in Requests, NEW u \in Users, NEW p \in PathIds,
           NEW old \in StatNames, NEW new \in StatNames, NEW settings \in Settings,
           UpdateStat(r, u, p, old, new, settings)
    PROVE  BookStep
<1>1. UNCHANGED paths
  BY DEF UpdateStat
<1>2. CASE UNCHANGED <<stats, quotas>>
  BY <1>1, <1>2, ShownUnchanged DEF BookStep, PBook!bookVars
<1>3. CASE /\ new = old \/ ~StatExists(p, new)
           /\ stats' = {IF s.path_id = p /\ s.name = old
                        THEN [s EXCEPT !.name = new] ELSE s : s \in stats}
           /\ quotas' = {IF q.path_id = p /\ q.stat_name = old
                         THEN [q EXCEPT !.stat_name = new] ELSE q : q \in quotas}
  <2>1. CASE new = old
    <3>1. stats' = stats /\ quotas' = quotas
      BY <1>3, <2>1 DEF IndInv, TypeOK, StatRow, QuotaRow
    <3> QED BY <1>2, <3>1
  <2>2. CASE new # old
    <3> DEFINE back(c) == [c EXCEPT !.name = old]
    <3>1. ~StatExists(p, new) /\ ~QuotaExists(p, new)
      BY <1>3, <2>2 DEF IndInv, ForeignKeys, StatExists, QuotaExists
    <3>2. ASSUME NEW s \in StatRow
          PROVE  /\ ~(s.path_id = p /\ s.name \in {old, new}) => (s \in stats' <=> s \in stats)
                 /\ s.path_id = p /\ s.name = old => s \notin stats'
                 /\ s.path_id = p /\ s.name = new =>
                       (s \in stats' <=> [s EXCEPT !.name = old] \in stats)
      BY <1>3, <2>2, <3>1 DEF IndInv, TypeOK, StatRow, StatExists
    <3>3. ASSUME NEW q \in QuotaRow
          PROVE  /\ ~(q.path_id = p /\ q.stat_name \in {old, new})
                       => (q \in quotas' <=> q \in quotas)
                 /\ q.path_id = p /\ q.stat_name = new =>
                       (q \in quotas' <=> [q EXCEPT !.stat_name = old] \in quotas)
      BY <1>3, <2>2, <3>1 DEF IndInv, TypeOK, QuotaRow, QuotaExists
    <3>4. ASSUME NEW c \in ShownRow
          PROVE  /\ ~(c.path_id = p /\ c.name \in {old, new}) => (c \in Pages' <=> c \in Pages)
                 /\ c.path_id = p /\ c.name = old => c \notin Pages'
                 /\ c.path_id = p /\ c.name = new =>
                       c \notin Pages /\ (c \in Pages' <=> back(c) \in Pages)
      <4>1. c \in Pages' <=> StatOf(c) \in stats' /\ QuotaOf(c) \in quotas'
        BY DEF Pages, ShownRow, StatOf, QuotaOf
      <4>2. c \in Pages <=> StatOf(c) \in stats /\ QuotaOf(c) \in quotas
        BY ShownBy
      <4>3. StatOf(c) \in StatRow /\ QuotaOf(c) \in QuotaRow
        BY DEF StatOf, QuotaOf, StatRow, QuotaRow, ShownRow
      <4>4. back(c) \in ShownRow
        BY DEF ShownRow
      <4>5. back(c) \in Pages <=> StatOf(back(c)) \in stats /\ QuotaOf(back(c)) \in quotas
        BY <4>4, ShownBy
      <4>6. /\ StatOf(back(c)) = [StatOf(c) EXCEPT !.name = old]
            /\ QuotaOf(back(c)) = [QuotaOf(c) EXCEPT !.stat_name = old]
        BY DEF StatOf, QuotaOf, ShownRow
      <4>7. /\ StatOf(c).path_id = c.path_id /\ StatOf(c).name = c.name
            /\ QuotaOf(c).path_id = c.path_id /\ QuotaOf(c).stat_name = c.name
        BY DEF StatOf, QuotaOf
      <4> QED BY <3>1, <3>2, <3>3, <4>1, <4>2, <4>3, <4>5, <4>6, <4>7 DEF StatExists
    <3>5. Pages \subseteq ShownRow /\ Pages' \subseteq ShownRow
      BY DEF Pages, ShownRow
    <3>6. ASSUME NEW c \in ShownRow, c.path_id = p, c.name = new
          PROVE  back(c) \in ShownRow /\ back(c).path_id = p /\ back(c).name = old
                 /\ c = [back(c) EXCEPT !.name = new]
      BY <3>6 DEF ShownRow
    <3>7. CASE \A b \in Pages : ~(b.path_id = p /\ b.name = old)
      <4>1. Pages' = Pages
        BY <3>4, <3>5, <3>6, <3>7
      <4> QED BY <1>1, <4>1 DEF BookStep, PBook!bookVars
    <3>8. CASE \E b \in Pages : b.path_id = p /\ b.name = old
      <4>1. PICK b \in Pages : b.path_id = p /\ b.name = old
        BY <3>8
      <4> DEFINE d == [b EXCEPT !.name = new]
      <4>2. d \in ShownRow /\ d.path_id = p /\ d.name = new /\ back(d) = b
        BY <3>5, <4>1 DEF ShownRow
      <4>3. \A c \in Pages : c.path_id = p /\ c.name = old => c = b
        BY <4>1 DEF Pages, ShownRow, StatOf, QuotaOf, IndInv, UniqueKeys
      <4>4. d \in Pages'
        BY <3>4, <4>1, <4>2
      <4>5. \A c \in Pages' : c.path_id = p /\ c.name = new => c = d
        BY <3>4, <3>5, <3>6, <4>3
      <4>6. Pages' = (Pages \ {b}) \cup {d}
        BY <3>4, <3>5, <4>1, <4>2, <4>3, <4>4, <4>5
      <4>7. ~PBook!InBook(b.path_id, new)
        BY <3>4, <3>5, <4>1 DEF PBook!InBook
      <4> QED BY <1>1, <4>6, <4>7 DEF BookStep, PBook!BookNext, PBook!RenameStat
    <3> QED BY <3>7, <3>8
  <2> QED BY <2>1, <2>2
<1> QED BY <1>2, <1>3 DEF UpdateStat

LEMMA UpdateStatsCountsBook ==
    ASSUME IndInv, NEW r \in Requests, NEW u \in Users, NEW p \in PathIds,
           NEW N \in SUBSET StatNames, NEW f \in [N -> Counts],
           UpdateStatsCounts(r, u, p, N, f)
    PROVE  BookStep
<1> DEFINE upd(s) == IF s.path_id = p /\ s.name \in N
                     THEN [s EXCEPT !.count = f[s.name]] ELSE s
<1>1. UNCHANGED <<paths, quotas>>
  BY DEF UpdateStatsCounts
<1>2. CASE ~Owns(u, p)
  <2>1. stats' = stats
    BY <1>2 DEF UpdateStatsCounts
  <2> QED BY <1>1, <2>1, ShownUnchanged DEF BookStep, PBook!bookVars
<1>3. CASE Owns(u, p)
  <2>1. PICK x \in paths : x.id = p
    BY <1>3 DEF Owns
  <2>2. stats' = {upd(s) : s \in stats}
    BY <1>3 DEF UpdateStatsCounts
  <2> DEFINE img(b) == IF b.path_id = x.id /\ b.name \in N
                       THEN [b EXCEPT !.count = f[b.name]] ELSE b
  <2>3. Pages \subseteq ShownRow /\ Pages' \subseteq ShownRow
    BY DEF Pages, ShownRow
  <2>4. \A c \in ShownRow : c \in Pages' <=> StatOf(c) \in stats' /\ QuotaOf(c) \in quotas
    BY <1>1 DEF Pages, ShownRow, StatOf, QuotaOf
  <2>5. \A c \in ShownRow : c \in Pages <=> StatOf(c) \in stats /\ QuotaOf(c) \in quotas
    BY ShownBy
  <2>6. ASSUME NEW b \in Pages
        PROVE  img(b) \in Pages'
    <3>1. b \in ShownRow /\ img(b) \in ShownRow
      BY <2>3 DEF ShownRow
    <3>2. StatOf(img(b)) = upd(StatOf(b)) /\ QuotaOf(img(b)) = QuotaOf(b)
      BY <2>1, <3>1 DEF StatOf, QuotaOf, ShownRow
    <3>3. StatOf(b) \in stats /\ QuotaOf(b) \in quotas
      BY <2>5, <3>1
    <3>4. upd(StatOf(b)) \in stats'
      BY <2>2, <3>3
    <3> QED BY <2>4, <3>1, <3>2, <3>3, <3>4
  <2>7. ASSUME NEW c \in Pages'
        PROVE  \E b \in Pages : c = img(b)
    <3>1. c \in ShownRow /\ StatOf(c) \in stats' /\ QuotaOf(c) \in quotas
      BY <2>3, <2>4
    <3>2. PICK s \in stats : StatOf(c) = upd(s)
      BY <2>2, <3>1
    <3>3. s \in StatRow
      BY DEF IndInv, TypeOK
    <3> DEFINE b == [c EXCEPT !.count = s.count]
    <3>4. /\ s.path_id = c.path_id /\ s.name = c.name
          /\ c.count = IF s.path_id = p /\ s.name \in N THEN f[s.name] ELSE s.count
      BY <3>2, <3>3 DEF StatOf, StatRow
    <3>5. b \in ShownRow
      BY <3>1, <3>3 DEF ShownRow, StatRow
    <3>6. StatOf(b) = s /\ QuotaOf(b) = QuotaOf(c)
      BY <3>1, <3>3, <3>4 DEF StatOf, QuotaOf, ShownRow, StatRow
    <3>7. b \in Pages
      BY <2>5, <3>1, <3>5, <3>6
    <3>8. c = img(b)
      BY <2>1, <3>1, <3>4 DEF ShownRow
    <3> QED BY <3>7, <3>8
  <2>8. Pages' = {img(b) : b \in Pages}
    BY <2>6, <2>7
  <2> QED BY <1>1, <2>1, <2>8 DEF BookStep, PBook!BookNext, PBook!Recount
<1> QED BY <1>2, <1>3

LEMMA NextBook == IndInv /\ [Next]_vars => BookStep
<1> SUFFICES ASSUME IndInv, [Next]_vars PROVE BookStep
  OBVIOUS
<1>1. CASE UNCHANGED <<paths, stats, quotas>>
  BY <1>1, ShownUnchanged DEF BookStep, PBook!bookVars
<1>2. CASE Next /\ ~UNCHANGED <<paths, stats, quotas>>
  <2>1. PICK r \in Requests :
           \/ \E u \in Users : Begin(r, u)
           \/ CreateQuota(r) \/ UpdateQuota(r)
    BY <1>2 DEF Next, Refuse, Read, GetFullPath, HandleUserPaths, HandleHomePaths, GetStats,
                StatementFails, Leave, db
  <2>2. ASSUME NEW u \in Users, Begin(r, u)
        PROVE  BookStep
    BY <2>2, CreatePathBook, UpdatePathBook, DeletePathBook, CreateStatBook, DeleteStatBook,
       UpdateStatBook, UpdateStatsCountsBook DEF Begin
  <2> QED BY <2>1, <2>2, CreateQuotaBook, UpdateQuotaBook
<1> QED BY <1>1, <1>2 DEF vars

\* The JOIN yields the rows whose halves are in the tables.
LEMMA ShownIsPages == TypeOK => Shown = Pages
<1> SUFFICES ASSUME TypeOK PROVE Shown = Pages
  OBVIOUS
<1> DEFINE row(z) == [path_id |-> z[1].path_id, name |-> z[1].name,
                      count |-> z[1].count, settings |-> z[2].settings]
           J == {y \in stats \X quotas :
                   y[1].path_id = y[2].path_id /\ y[1].name = y[2].stat_name}
<1>1. ASSUME NEW s \in stats, NEW q \in quotas, s.path_id = q.path_id, s.name = q.stat_name
      PROVE  row(<<s, q>>) \in Pages
  <2>1. s \in StatRow /\ q \in QuotaRow
    BY DEF TypeOK
  <2>2. row(<<s, q>>) \in ShownRow
    BY <2>1 DEF StatRow, QuotaRow, ShownRow
  <2>3. StatOf(row(<<s, q>>)) = s /\ QuotaOf(row(<<s, q>>)) = q
    BY <1>1, <2>1 DEF StatRow, QuotaRow, StatOf, QuotaOf
  <2> QED BY <2>2, <2>3 DEF Pages
<1>2. ASSUME NEW b \in Pages
      PROVE  \E z \in J : b = row(z)
  <2>1. b \in ShownRow /\ StatOf(b) \in stats /\ QuotaOf(b) \in quotas
    BY DEF Pages
  <2>2. <<StatOf(b), QuotaOf(b)>> \in J /\ row(<<StatOf(b), QuotaOf(b)>>) = b
    BY <2>1 DEF ShownRow, StatOf, QuotaOf
  <2> QED BY <2>2
<1>3. \A z \in J : row(z) \in Pages
  <2> TAKE z \in J
  <2>1. PICK s \in stats, q \in quotas : z = <<s, q>>
    OBVIOUS
  <2>2. s.path_id = q.path_id /\ s.name = q.stat_name
    BY <2>1
  <2> QED BY <1>1, <2>1, <2>2
<1>4. Shown = {row(z) : z \in J}
  BY DEF Shown
<1> HIDE DEF row, J
<1> QED BY <1>2, <1>3, <1>4

\* What is a step of the book of Pages is one of the book of Shown.
LEMMA SameBook ==
    ASSUME Shown = Pages, Shown' = Pages', BookStep
    PROVE  [Book!BookNext]_(Book!bookVars)
<1>1. CASE UNCHANGED PBook!bookVars
  BY <1>1 DEF PBook!bookVars, Book!bookVars
<1>2. CASE PBook!BookNext
  <2>1. Book!bookVars' # Book!bookVars
    BY <1>2 DEF PBook!BookNext, PBook!bookVars, Book!bookVars
  <2>2. \/ Book!OpenPath \/ Book!ChangePath \/ Book!ClosePath
        \/ Book!ShowStat \/ Book!RenameStat \/ Book!Configure \/ Book!HideStat
        \/ Book!Recount
    <3>1. PBook!OpenPath => Book!OpenPath
      BY Zenon DEF PBook!OpenPath, Book!OpenPath, PBook!PathRow, Book!PathRow
    <3>2. PBook!ChangePath => Book!ChangePath
      BY DEF PBook!ChangePath, Book!ChangePath
    <3>3. PBook!ClosePath => Book!ClosePath
      BY Zenon DEF PBook!ClosePath, Book!ClosePath
    <3>4. PBook!ShowStat => Book!ShowStat
      BY Zenon DEF PBook!ShowStat, Book!ShowStat, PBook!InBook, Book!InBook
    <3>5. PBook!RenameStat => Book!RenameStat
      BY Zenon DEF PBook!RenameStat, Book!RenameStat, PBook!InBook, Book!InBook
    <3>6. PBook!Configure => Book!Configure
      BY Zenon DEF PBook!Configure, Book!Configure
    <3>7. PBook!HideStat => Book!HideStat
      BY Zenon DEF PBook!HideStat, Book!HideStat
    <3>8. PBook!Recount => Book!Recount
      BY Zenon DEF PBook!Recount, Book!Recount
    <3> QED BY <1>2, <3>1, <3>2, <3>3, <3>4, <3>5, <3>6, <3>7, <3>8 DEF PBook!BookNext
  <2> QED BY <2>1, <2>2 DEF Book!BookNext
<1> QED BY <1>1, <1>2 DEF BookStep

\* Races, failed statements and lost answers included, what the path pages show
\* changes the way PathBook says: a stat comes with its default quota or not at all.
THEOREM ImplementsBook == Spec => BookKept
<1>a. (TypeOK => Shown = Pages)'
  BY ShownIsPages, PTL
<1>1. IndInv /\ IndInv' /\ [Next]_vars => [Book!BookNext]_(Book!bookVars)
  <2> SUFFICES ASSUME IndInv, IndInv', [Next]_vars
               PROVE  [Book!BookNext]_(Book!bookVars)
    OBVIOUS
  <2>1. Shown = Pages
    BY ShownIsPages DEF IndInv
  <2>2. Shown' = Pages'
    BY <1>a DEF IndInv
  <2> QED BY <2>1, <2>2, NextBook, SameBook
<1>2. Init => Book!BookInit
  BY DEF Init, Book!BookInit, Shown
<1> QED BY <1>1, <1>2, Invariance, PTL DEF Spec, BookKept, Book!BookSpec

-------------------------------------------------------------------------------
(* Stats without a quota: how many there are, and who answers for them.    *)

\* What one step may do to the three counts of QuotalessPaid.
Paid ==
    Cardinality(Quotaless') - Cardinality(Creating')
      <= Cardinality(Quotaless) - Cardinality(Creating) + Cardinality(Failing)

\* An image of a finite set, and what is in it, is no larger than the set.
LEMMA ImageBound ==
    ASSUME NEW S, IsFiniteSet(S), NEW f, NEW T, T \subseteq {f[x] : x \in S}
    PROVE  IsFiniteSet(T) /\ Cardinality(T) <= Cardinality(S)
<1> DEFINE I == {f[x] : x \in S}
           g == [x \in S |-> f[x]]
<1>1. g \in Surjection(S, I)
  BY DEF Surjection
<1>2. IsFiniteSet(I) /\ Cardinality(I) <= Cardinality(S)
  <2> HIDE DEF I, g
  <2> QED BY <1>1, FS_Surjection
<1>3. /\ IsFiniteSet(T) /\ Cardinality(T) <= Cardinality(I)
  <2>1. T \in SUBSET I
    OBVIOUS
  <2> HIDE DEF I
  <2> QED BY <1>2, <2>1, FS_Subset
<1>4. Cardinality(T) \in Nat /\ Cardinality(I) \in Nat /\ Cardinality(S) \in Nat
  BY <1>2, <1>3, FS_CardinalityType
<1> QED BY <1>2, <1>3, <1>4

\* The three sets are finite, before and after a step.
LEMMA CountsAreNat ==
    ASSUME IsFiniteSet(stats), IsFiniteSet(stats')
    PROVE  /\ IsFiniteSet(Quotaless) /\ Cardinality(Quotaless) \in Nat
           /\ IsFiniteSet(Quotaless') /\ Cardinality(Quotaless') \in Nat
           /\ IsFiniteSet(Creating) /\ Cardinality(Creating) \in Nat
           /\ IsFiniteSet(Creating') /\ Cardinality(Creating') \in Nat
           /\ IsFiniteSet(Failing) /\ Cardinality(Failing) \in Nat
<1>1. Quotaless \subseteq stats /\ Quotaless' \subseteq stats'
  BY DEF Quotaless
<1>2. Creating \subseteq Requests /\ Creating' \subseteq Requests /\ Failing \subseteq Requests
  BY DEF Creating, Failing
<1> QED
  BY <1>1, <1>2, FS_Subset, FS_CardinalityType, PathServiceAssumption

\* Rows go, or change, but none becomes a row without a quota that was not one before,
\* and no creation ends: nothing is to pay.
LEMMA NoneAdded ==
    ASSUME IsFiniteSet(stats), IsFiniteSet(stats'),
           NEW f, Quotaless' \subseteq {f[s] : s \in Quotaless},
           Creating \subseteq Creating'
    PROVE  Paid
<1>1. Cardinality(Quotaless') <= Cardinality(Quotaless)
  BY CountsAreNat, ImageBound
<1>2. Cardinality(Creating) <= Cardinality(Creating')
  BY CountsAreNat, FS_Subset
<1> QED BY <1>1, <1>2, CountsAreNat DEF Paid

\* The same for a step that leaves the rows it keeps as they are.
LEMMA NoneAddedBySubset ==
    ASSUME IsFiniteSet(stats), IsFiniteSet(stats'),
           Quotaless' \subseteq Quotaless, Creating \subseteq Creating'
    PROVE  Paid
<1> DEFINE f == [s \in Quotaless |-> s]
<1>1. Quotaless' \subseteq {f[s] : s \in Quotaless}
  OBVIOUS
<1> HIDE DEF f
<1> QED BY <1>1, NoneAdded

\* A creation that has its row in, or ends, is paid for by the answer 500.
LEMMA PaidByFailure ==
    ASSUME IsFiniteSet(stats), IsFiniteSet(stats'), NEW r \in Requests, r \in Failing,
           \/ \E s : Quotaless' \subseteq Quotaless \cup {s} /\ Creating \subseteq Creating'
           \/ Quotaless' \subseteq Quotaless /\ Creating \ {r} \subseteq Creating'
    PROVE  Paid
<1>1. Cardinality(Failing) >= 1
  <2>1. Cardinality({r}) <= Cardinality(Failing) /\ Cardinality({r}) = 1
    BY CountsAreNat, FS_Subset, FS_Singleton
  <2> QED BY <2>1, CountsAreNat
<1>2. ASSUME NEW s, Quotaless' \subseteq Quotaless \cup {s}, Creating \subseteq Creating'
      PROVE  Paid
  <2>1. /\ IsFiniteSet(Quotaless \cup {s})
        /\ Cardinality(Quotaless \cup {s}) \in {Cardinality(Quotaless), Cardinality(Quotaless) + 1}
    BY CountsAreNat, FS_AddElement
  <2>2. Cardinality(Quotaless') <= Cardinality(Quotaless \cup {s})
    BY <1>2, <2>1, FS_Subset
  <2>3. Cardinality(Creating) <= Cardinality(Creating')
    BY <1>2, CountsAreNat, FS_Subset
  <2> QED BY <1>1, <2>1, <2>2, <2>3, CountsAreNat DEF Paid
<1>3. ASSUME Quotaless' \subseteq Quotaless, Creating \ {r} \subseteq Creating'
      PROVE  Paid
  <2>1. /\ IsFiniteSet(Creating \ {r})
        /\ Cardinality(Creating \ {r}) \in {Cardinality(Creating), Cardinality(Creating) - 1}
    BY CountsAreNat, FS_RemoveElement
  <2>2. Cardinality(Creating \ {r}) <= Cardinality(Creating')
    BY <1>3, <2>1, CountsAreNat, FS_Subset
  <2>3. Cardinality(Quotaless') <= Cardinality(Quotaless)
    BY <1>3, CountsAreNat, FS_Subset
  <2> QED BY <1>1, <2>1, <2>2, <2>3, CountsAreNat DEF Paid
<1> QED BY <1>2, <1>3

\* An answer ends at most the creation of its own request, and an answer 500 counts.
LEMMA AnswerCounts ==
    ASSUME IndInv, NEW r \in Requests, NEW u \in Askers, NEW s \in Statuses,
           Answer(r, u, s), req[r].pc # "answered"
    PROVE  /\ Creating' = Creating \ {r}
           /\ s = "Error" => r \in Failing
BY DEF IndInv, TypeOK, Answer, Creating, Failing

\* The first statements.
LEMMA BeginPaid ==
    ASSUME IndInv, IsFiniteSet(stats), NEW r \in Requests, NEW u \in Users, Begin(r, u)
    PROVE  IsFiniteSet(stats') /\ Paid
<1>1. req[r] = Idle /\ r \notin Creating /\ u \in Askers
  <2>1. req[r] = Idle
    BY DEF Begin, CreatePath, UpdatePath, DeletePath, CreateStat, DeleteStat, UpdateStat,
           UpdateStatsCounts
  <2> QED BY <2>1 DEF Idle, Creating, Askers
<1>2. ASSUME NEW s \in Statuses, Answer(r, u, s)
      PROVE  Creating' = Creating /\ (s = "Error" => r \in Failing)
  BY <1>1, <1>2, AnswerCounts DEF Idle
<1>3. ASSUME NEW n \in PathNames, CreatePath(r, u, n)
      PROVE  IsFiniteSet(stats') /\ Paid
  <2>1. UNCHANGED <<stats, quotas>> /\ \E s \in Statuses : Answer(r, u, s)
    BY <1>3 DEF CreatePath, AnswerCommitted, Statuses
  <2>2. Quotaless' = Quotaless
    BY <2>1 DEF Quotaless, QuotaExists
  <2> QED BY <1>2, <2>1, <2>2, NoneAddedBySubset
<1>4. ASSUME NEW p \in PathIds, NEW n \in PathNames, NEW b \in BOOLEAN,
             UpdatePath(r, u, p, n, b)
      PROVE  IsFiniteSet(stats') /\ Paid
  <2> HIDE DEF SetPath
  <2>1. UNCHANGED <<stats, quotas>> /\ \E s \in Statuses : Answer(r, u, s)
    BY <1>4 DEF UpdatePath, AnswerCommitted, Statuses
  <2>2. Quotaless' = Quotaless
    BY <2>1 DEF Quotaless, QuotaExists
  <2> QED BY <1>2, <2>1, <2>2, NoneAddedBySubset
<1>5. ASSUME NEW p \in PathIds, DeletePath(r, u, p)
      PROVE  IsFiniteSet(stats') /\ Paid
  <2>1. /\ \/ UNCHANGED <<stats, quotas>>
           \/ /\ stats' = {t \in stats : t.path_id # p}
              /\ quotas' = {q \in quotas : q.path_id # p}
        /\ \E s \in Statuses : Answer(r, u, s)
    BY <1>5 DEF DeletePath, AnswerCommitted, Statuses
  <2>2. Quotaless' \subseteq Quotaless /\ stats' \subseteq stats
    BY <2>1 DEF Quotaless, QuotaExists
  <2> QED BY <1>2, <2>1, <2>2, NoneAddedBySubset, FS_Subset
<1>6. ASSUME NEW p \in PathIds, NEW n \in StatNames, DeleteStat(r, u, p, n)
      PROVE  IsFiniteSet(stats') /\ Paid
  <2>1. /\ \/ UNCHANGED <<stats, quotas>>
           \/ /\ stats' = {t \in stats : ~(t.path_id = p /\ t.name = n)}
              /\ quotas' = {q \in quotas : ~(q.path_id = p /\ q.stat_name = n)}
        /\ \E s \in Statuses : Answer(r, u, s)
    BY <1>6 DEF DeleteStat, AnswerCommitted, Statuses
  <2>2. Quotaless' \subseteq Quotaless /\ stats' \subseteq stats
    BY <2>1 DEF Quotaless, QuotaExists
  <2> QED BY <1>2, <2>1, <2>2, NoneAddedBySubset, FS_Subset
<1>7. ASSUME NEW p \in PathIds, NEW n \in StatNames, CreateStat(r, u, p, n)
      PROVE  IsFiniteSet(stats') /\ Paid
  <2>1. CASE UNCHANGED stats /\ \E s \in Statuses : Answer(r, u, s)
    <3>1. Quotaless' = Quotaless
      BY <1>7, <2>1 DEF CreateStat, Quotaless, QuotaExists
    <3> QED BY <1>2, <2>1, <3>1, NoneAddedBySubset
  <2>2. ASSUME NEW row, stats' = stats \cup {row}, UNCHANGED quotas,
               \/ Answer(r, u, "Error")
               \/ req' = [req EXCEPT ![r] = [pc |-> "CreateQuota", user |-> u,
                                             path |-> p, name |-> n]]
        PROVE  IsFiniteSet(stats') /\ Paid
    <3>1. IsFiniteSet(stats')
      BY <2>2, FS_AddElement
    <3>2. Quotaless' \subseteq Quotaless \cup {row}
      BY <2>2 DEF Quotaless, QuotaExists
    <3>3. CASE Answer(r, u, "Error")
      <4>1. Creating' = Creating /\ r \in Failing
        BY <1>2, <3>3 DEF Statuses
      <4> QED BY <3>1, <3>2, <4>1, PaidByFailure
    <3>4. CASE req' = [req EXCEPT ![r] = [pc |-> "CreateQuota", user |-> u,
                                          path |-> p, name |-> n]]
      <4>1. Creating' = Creating \cup {r}
        BY <3>4 DEF IndInv, TypeOK, Creating
      <4>2. Cardinality(Creating') = Cardinality(Creating) + 1
        BY <1>1, <3>1, <4>1, CountsAreNat, FS_AddElement
      <4>3. Cardinality(Quotaless') <= Cardinality(Quotaless) + 1
        <5>1. /\ IsFiniteSet(Quotaless \cup {row})
              /\ Cardinality(Quotaless \cup {row})
                   \in {Cardinality(Quotaless), Cardinality(Quotaless) + 1}
          BY <3>1, CountsAreNat, FS_AddElement
        <5>2. Cardinality(Quotaless') <= Cardinality(Quotaless \cup {row})
          BY <3>2, <5>1, FS_Subset
        <5> QED BY <3>1, <5>1, <5>2, CountsAreNat
      <4> QED BY <3>1, <4>2, <4>3, CountsAreNat DEF Paid
    <3> QED BY <2>2, <3>3, <3>4
  <2> QED BY <1>7, <2>1, <2>2 DEF CreateStat, Statuses
<1>8. ASSUME NEW p \in PathIds, NEW old \in StatNames, NEW new \in StatNames,
             NEW z \in Settings, UpdateStat(r, u, p, old, new, z)
      PROVE  IsFiniteSet(stats') /\ Paid
  <2>1. Creating' = Creating
    <3>1. \/ \E s \in Statuses : Answer(r, u, s)
          \/ req' = [req EXCEPT ![r] = [pc |-> "UpdateQuota", user |-> u, path |-> p,
                                        name |-> new, settings |-> z]]
      BY <1>8 DEF UpdateStat, Statuses
    <3>2. CASE req' = [req EXCEPT ![r] = [pc |-> "UpdateQuota", user |-> u, path |-> p,
                                          name |-> new, settings |-> z]]
      BY <1>1, <3>2 DEF IndInv, TypeOK, Creating
    <3> QED BY <1>2, <3>1, <3>2
  <2>2. CASE UNCHANGED <<stats, quotas>>
    <3>1. Quotaless' = Quotaless
      BY <2>2 DEF Quotaless, QuotaExists
    <3> QED BY <2>1, <2>2, <3>1, NoneAddedBySubset
  <2>3. CASE SetStatName(p, old, new)
    <3> DEFINE upd(s) == IF s.path_id = p /\ s.name = old THEN [s EXCEPT !.name = new] ELSE s
               updQ(q) == IF q.path_id = p /\ q.stat_name = old
                          THEN [q EXCEPT !.stat_name = new] ELSE q
               f == [s \in stats |-> upd(s)]
    <3>1. stats' = {upd(s) : s \in stats} /\ quotas' = {updQ(q) : q \in quotas}
      BY <2>3
    <3>2. ASSUME NEW s \in stats
          PROVE  /\ upd(s).path_id = s.path_id
                 /\ upd(s).name = IF s.path_id = p /\ s.name = old THEN new ELSE s.name
      BY DEF IndInv, TypeOK, StatRow
    <3>3. ASSUME NEW q \in quotas
          PROVE  /\ updQ(q).path_id = q.path_id
                 /\ updQ(q).stat_name = IF q.path_id = p /\ q.stat_name = old
                                        THEN new ELSE q.stat_name
      BY DEF IndInv, TypeOK, QuotaRow
    <3>4. \A s \in stats : f[s] = upd(s)
      OBVIOUS
    <3> HIDE DEF upd, updQ, f
    <3>5. stats' \subseteq {f[s] : s \in stats}
      BY <3>1, <3>4
    <3>6. Quotaless' \subseteq {f[s] : s \in Quotaless}
      <4> SUFFICES ASSUME NEW t \in Quotaless'
                   PROVE  \E s \in Quotaless : t = f[s]
        OBVIOUS
      <4>1. PICK s \in stats : t = upd(s)
        BY <3>1 DEF Quotaless
      <4>2. ~\E q \in quotas' : q.path_id = t.path_id /\ q.stat_name = t.name
        BY DEF Quotaless, QuotaExists
      <4>3. s \in Quotaless
        BY <3>1, <3>2, <3>3, <4>1, <4>2 DEF Quotaless, QuotaExists
      <4> QED BY <3>4, <4>1, <4>3
    <3>7. IsFiniteSet(stats')
      BY <3>5, ImageBound
    <3> QED BY <2>1, <3>6, <3>7, NoneAdded
  <2> QED BY <1>8, <2>2, <2>3 DEF UpdateStat
<1>9. ASSUME NEW p \in PathIds, NEW N \in SUBSET StatNames, NEW c \in [N -> Counts],
             UpdateStatsCounts(r, u, p, N, c)
      PROVE  IsFiniteSet(stats') /\ Paid
  <2> DEFINE upd(s) == IF s.path_id = p /\ s.name \in N /\ Owns(u, p)
                       THEN [s EXCEPT !.count = c[s.name]] ELSE s
             f == [s \in stats |-> upd(s)]
  <2>1. /\ stats' = {upd(s) : s \in stats} /\ UNCHANGED quotas
        /\ \E s \in Statuses : Answer(r, u, s)
    BY <1>9 DEF UpdateStatsCounts, AnswerCommitted, Statuses
  <2>2. \A s \in stats : upd(s).path_id = s.path_id /\ upd(s).name = s.name /\ f[s] = upd(s)
    BY DEF IndInv, TypeOK, StatRow
  <2> HIDE DEF upd, f
  <2>3. stats' \subseteq {f[s] : s \in stats}
    BY <2>1, <2>2
  <2>4. Quotaless' \subseteq {f[s] : s \in Quotaless}
    BY <2>1, <2>2 DEF Quotaless, QuotaExists
  <2>5. IsFiniteSet(stats')
    BY <2>3, ImageBound
  <2> QED BY <1>2, <2>1, <2>4, <2>5, NoneAdded
<1> QED BY <1>3, <1>4, <1>5, <1>6, <1>7, <1>8, <1>9 DEF Begin

\* The second statement of a creation: its stat gets the quota, or the answer is 500.
LEMMA CreateQuotaPaid ==
    ASSUME IndInv, IsFiniteSet(stats), NEW r \in Requests, CreateQuota(r)
    PROVE  IsFiniteSet(stats') /\ Paid
<1> DEFINE row == [path_id |-> req[r].path, stat_name |-> req[r].name,
                   settings |-> DefaultSettings]
<1>1. /\ req[r].pc = "CreateQuota" /\ req[r].user \in Askers
      /\ UNCHANGED stats /\ r \in Creating
  BY DEF CreateQuota, IndInv, TypeOK, RequestState, Idle, Askers, Creating
<1>2. PICK s \in Statuses : Answer(r, req[r].user, s)
  BY DEF CreateQuota, AnswerCommitted, Statuses
<1>3. Creating' = Creating \ {r} /\ (s = "Error" => r \in Failing)
  BY <1>1, <1>2, AnswerCounts
<1>4. CASE Answer(r, req[r].user, "Error")
  <2>1. r \in Failing
    BY <1>1, <1>4, AnswerCounts DEF Statuses
  <2>2. quotas \subseteq quotas'
    BY DEF CreateQuota
  <2>3. Quotaless' \subseteq Quotaless
    BY <1>1, <2>2 DEF Quotaless, QuotaExists
  <2> QED BY <1>1, <1>3, <2>1, <2>3, PaidByFailure
<1>5. CASE ~Answer(r, req[r].user, "Error")
  <2>1. /\ ~QuotaExists(req[r].path, req[r].name)
        /\ StatExists(req[r].path, req[r].name)
        /\ quotas' = quotas \cup {row}
    BY <1>5 DEF CreateQuota
  <2>2. PICK t \in stats : t.path_id = req[r].path /\ t.name = req[r].name
    BY <2>1 DEF StatExists
  <2>3. t \in Quotaless
    BY <2>1, <2>2 DEF Quotaless, QuotaExists
  <2>4. Quotaless' \subseteq Quotaless \ {t}
    <3>1. row.path_id = t.path_id /\ row.stat_name = t.name
      BY <2>2
    <3> HIDE DEF row
    <3> QED BY <1>1, <2>1, <3>1 DEF Quotaless, QuotaExists
  <2>5. /\ IsFiniteSet(Quotaless \ {t})
        /\ Cardinality(Quotaless \ {t}) = Cardinality(Quotaless) - 1
    BY <1>1, <2>3, CountsAreNat, FS_RemoveElement
  <2>6. Cardinality(Quotaless') <= Cardinality(Quotaless) - 1
    BY <2>4, <2>5, FS_Subset
  <2>7. Cardinality(Creating') = Cardinality(Creating) - 1
    BY <1>1, <1>3, CountsAreNat, FS_RemoveElement
  <2> QED BY <1>1, <2>6, <2>7, CountsAreNat DEF Paid
<1> QED BY <1>4, <1>5

\* The steps that change no stat: of reads, of refusals, of a change of a quota's
\* settings, and of requests that end.
LEMMA OthersPaid ==
    ASSUME IndInv, IsFiniteSet(stats), NEW r \in Requests,
           \/ \E u \in Askers : Refuse(r, u) \/ Read(r, u)
           \/ GetStats(r) \/ UpdateQuota(r) \/ StatementFails(r) \/ Leave(r)
    PROVE  IsFiniteSet(stats') /\ Paid
<1>1. UNCHANGED stats /\ (UNCHANGED quotas \/ UpdateQuota(r))
  <2>1. ASSUME NEW u \in Askers, Refuse(r, u) \/ Read(r, u)
        PROVE  UNCHANGED <<stats, quotas>>
    BY <2>1 DEF Refuse, Read, GetFullPath, HandleUserPaths, HandleHomePaths, db
  <2>2. CASE GetStats(r) \/ UpdateQuota(r) \/ StatementFails(r) \/ Leave(r)
    BY <2>2 DEF GetStats, UpdateQuota, StatementFails, Leave, db
  <2> QED BY <2>1, <2>2
<1>2. Quotaless' \subseteq Quotaless
  <2>1. CASE UNCHANGED quotas
    BY <1>1, <2>1 DEF Quotaless, QuotaExists
  <2>2. CASE UpdateQuota(r)
    <3> DEFINE upd(q) == IF q.path_id = req[r].path /\ q.stat_name = req[r].name
                         THEN [q EXCEPT !.settings = req[r].settings] ELSE q
    <3>1. quotas' = {upd(q) : q \in quotas}
      BY <2>2 DEF UpdateQuota
    <3>2. \A q \in quotas : upd(q).path_id = q.path_id /\ upd(q).stat_name = q.stat_name
      BY DEF IndInv, TypeOK, QuotaRow
    <3> HIDE DEF upd
    <3> QED BY <1>1, <3>1, <3>2 DEF Quotaless, QuotaExists
  <2> QED BY <1>1, <2>1, <2>2
<1>3. CASE /\ StatementFails(r)
           /\ req[r].pc = "CreateQuota"
  <2>1. /\ req[r].user \in Askers
        /\ Answer(r, req[r].user, "Error")
    BY <1>3 DEF StatementFails, IndInv, TypeOK, RequestState, Idle, Askers
  <2>2. Creating' = Creating \ {r} /\ r \in Failing
    BY <1>3, <2>1, AnswerCounts DEF Statuses
  <2> QED BY <1>1, <1>2, <2>2, PaidByFailure
<1>4. CASE ~(StatementFails(r) /\ req[r].pc = "CreateQuota")
  <2>1. req[r].pc # "CreateQuota" /\ \A t \in Requests : t # r => req'[t] = req[t]
    <3>1. CASE \E u \in Askers : Refuse(r, u)
      BY <3>1 DEF Refuse, Answer, IndInv, TypeOK, Idle
    <3>2. CASE \E u \in Askers : Read(r, u)
      BY <3>2 DEF Read, GetFullPath, HandleUserPaths, HandleHomePaths, Answer, AnswerWith,
                  IndInv, TypeOK, Idle
    <3>3. CASE GetStats(r) \/ Leave(r)
      BY <3>3 DEF GetStats, AnswerWith, Leave, IndInv, TypeOK
    <3>4. CASE UpdateQuota(r)
      BY <3>4 DEF UpdateQuota, AnswerCommitted, Answer, IndInv, TypeOK
    <3>5. CASE StatementFails(r)
      BY <1>4, <3>5 DEF StatementFails, Answer, IndInv, TypeOK, Idle
    <3> QED BY <3>1, <3>2, <3>3, <3>4, <3>5
  <2>2. Creating \subseteq Creating'
    BY <2>1 DEF Creating
  <2> QED BY <1>1, <1>2, <2>2, NoneAddedBySubset
<1> QED BY <1>3, <1>4

\* No step leaves more stats without a quota than creations under way and answers 500
\* account for: a half-made stat is never a silent one, whatever renames, deletes and
\* other creations run between its two statements.
THEOREM HalfMadeIsReported == Spec => QuotalessPaid
<1> DEFINE Finite == IsFiniteSet(stats)
<1>1. Init => Finite
  BY FS_EmptySet DEF Init
<1>2. IndInv /\ Finite /\ [Next]_vars => Finite' /\ [Paid]_vars
  <2> SUFFICES ASSUME IndInv, IsFiniteSet(stats), [Next]_vars
               PROVE  IsFiniteSet(stats') /\ [Paid]_vars
    OBVIOUS
  <2>1. CASE UNCHANGED vars
    BY <2>1 DEF vars
  <2>2. CASE Next
    BY <2>2, BeginPaid, CreateQuotaPaid, OthersPaid DEF Next
  <2> QED BY <2>1, <2>2
<1>3. [Paid]_vars => [Cardinality(Quotaless') - Cardinality(Creating')
         <= Cardinality(Quotaless) - Cardinality(Creating) + Cardinality(Failing)]_vars
  BY DEF Paid
<1> HIDE DEF Finite
<1> QED BY <1>1, <1>2, <1>3, Invariance, PTL DEF Spec, QuotalessPaid
=============================================================================
