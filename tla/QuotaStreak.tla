----------------------------- MODULE QuotaStreak ------------------------------
(***************************************************************************)
(* The streak of a quota.  No job of the server ends a quota's period:     *)
(* GetStats looks, each time a path page is read, whether the period of a  *)
(* stat has passed, and if so moves the streak on or back to zero.         *)
(*                                                                         *)
(* It decides on a snapshot of the rows and updates them one by one, each  *)
(* with a statement of its own and with the count of the snapshot.  In     *)
(* between other people read the page (anybody may, when it is public),    *)
(* the owner counts, renames and reconfigures the stats, and time goes on. *)
(*                                                                         *)
(* The module follows the stats of one path.  A row here is the JOIN of a  *)
(* row of stats with its row of quotas.  Time is counted in ticks, some to *)
(* an hour, so that FLOOR to whole hours has something to cut off.         *)
(***************************************************************************)
EXTENDS Integers, FiniteSets

CONSTANTS
    Names,            \* names of stats
    None,             \* no stat of that name
    Readers,          \* requests for the path page that are in flight together
    Counts,           \* values of stats.count
    Quotas,           \* values of quotas.quota
    Hours,            \* values of quotas.duration_hours
    DefaultHours,     \* the DEFAULT of the table
    TicksPerHour,
    MaxTime,          \* bound: the clock stops here
    MaxClimb          \* bound: what the owner counts up on one stat altogether

ASSUME QuotaStreakAssumption ==
    /\ Counts \subseteq Int /\ 0 \in Counts
    /\ Quotas \subseteq Int /\ 1 \in Quotas
    /\ Hours \subseteq Int /\ DefaultHours \in Hours
    /\ \E h \in Hours : h > 0 /\ \A k \in Hours : k > 0 => h <= k
    /\ IsFiniteSet(Readers)
    /\ TicksPerHour \in Nat \ {0}
    /\ MaxTime \in Nat
    /\ MaxClimb \in Nat

VARIABLES
    now,              \* the database's clock, in ticks
    row,              \* the stats of the path with their quotas, by name
    reader,           \* what each request for the page is doing
    alone,            \* history: no two requests for the page have overlapped
    steady            \* history: no stat has come under a name that one of them was
                      \* about to update

history == <<alone, steady>>

vars == <<now, row, reader, alone, steady>>

\* The field climbed is history: the sum of all increases of the stat's count.
Row == [count : Counts, quota : Quotas, hours : Hours,
        last_count : Counts, last_done : 0 .. MaxTime, streak : Nat,
        climbed : 0 .. MaxClimb]

\* What the query of GetStats returns for one stat.
Snapshot == [name : Names, count : Counts, quota : Quotas, hours : Hours,
             progress : Int, passed : Nat]

\* A request: when it read the rows, and those it still has to update.
Idle == [since |-> 0, left |-> {}]

Stored == {n \in Names : row[n] # None}

\* A stat that is made just now: count 0, quota 1, nothing done yet.
NewRow ==
    [count |-> 0, quota |-> 1, hours |-> DefaultHours, last_count |-> 0, last_done |-> now,
     streak |-> 0, climbed |-> 0]

Init ==
    /\ now = 0
    /\ \E S \in SUBSET Names : row = [n \in Names |-> IF n \in S THEN NewRow ELSE None]
    /\ reader = [r \in Readers |-> Idle]
    /\ alone = TRUE
    /\ steady = TRUE

-------------------------------------------------------------------------------
(* GetStats                                                                *)

\* Mutant: rounded up.
HoursPassedUp(n) == (now - row[n].last_done + TicksPerHour - 1) \div TicksPerHour

\* FLOOR.
HoursPassed(n) == (now - row[n].last_done) \div TicksPerHour

SnapshotOf(n) ==
    [name |-> n, count |-> row[n].count, quota |-> row[n].quota, hours |-> row[n].hours,
     progress |-> row[n].count - row[n].last_count, passed |-> HoursPassed(n)]

\* Mutant: due an hour early.
DueEarly(s) == s.passed + 1 >= s.hours /\ s.hours > 0 /\ s.quota > 0

\* The period of the quota is over (and the quota is not switched off).
Due(s) == s.passed >= s.hours /\ s.hours > 0 /\ s.quota > 0

\* The quota was reached and the page is read before a second period is over.
Kept(s) == s.progress >= s.quota /\ s.passed < s.hours * 2

DueRows == {s \in {SnapshotOf(n) : n \in Stored} : Due(s)}

\* The SELECT.  A row that is not due needs no statement.
Load(r) ==
    /\ reader[r] = Idle
    /\ DueRows # {}
    /\ reader' = [reader EXCEPT ![r] = [since |-> now, left |-> DueRows]]
    /\ alone' = (alone /\ \A q \in Readers : reader[q] = Idle)
    /\ UNCHANGED <<now, row, steady>>

\* Mutants: the statement sets last_count to the progress, or does not set it.
Rewrite(r, s, streak, count) ==
    /\ s \in reader[r].left
    /\ row' = IF row[s.name] = None THEN row
              ELSE [row EXCEPT ![s.name].streak = streak, ![s.name].last_done = now,
                               ![s.name].last_count = count]
    /\ reader' = [reader EXCEPT ![r] = IF @.left = {s} THEN Idle
                                       ELSE [reader[r] EXCEPT !.left = @ \ {s}]]
    /\ UNCHANGED <<now, history>>

StreakAfter(s) ==
    IF row[s.name] # None /\ Kept(s) THEN row[s.name].streak + 1 ELSE 0

UpdateQuotaStreakToProgress(r, s) == Rewrite(r, s, StreakAfter(s), s.progress)

UpdateQuotaStreakSameCount(r, s) ==
    row[s.name] # None /\ Rewrite(r, s, StreakAfter(s), row[s.name].last_count)

\* The UPDATE of one due row: the row that has the name now, if there is one.
UpdateQuotaStreak(r, s) ==
    /\ s \in reader[r].left
    /\ row' = IF row[s.name] = None THEN row
              ELSE [row EXCEPT ![s.name].streak = IF Kept(s) THEN @ + 1 ELSE 0,
                               ![s.name].last_done = now,
                               ![s.name].last_count = s.count]
    /\ reader' = [reader EXCEPT ![r] = IF @.left = {s} THEN Idle
                                       ELSE [reader[r] EXCEPT !.left = @ \ {s}]]
    /\ UNCHANGED <<now, history>>

\* An UPDATE fails, or the request's time is over: the rest of the rows is dropped.
Fail(r) ==
    /\ reader[r] # Idle
    /\ reader' = [reader EXCEPT ![r] = Idle]
    /\ UNCHANGED <<now, row, history>>

-------------------------------------------------------------------------------
(* The owner's requests, as far as they concern the rows (PathService).    *)

\* UpdateStatsCounts; the bound is on climbed.
UpdateCount(n, c) ==
    /\ n \in Stored
    /\ c # row[n].count
    /\ LET up == IF c > row[n].count THEN c - row[n].count ELSE 0
       IN  /\ row[n].climbed + up <= MaxClimb
           /\ row' = [row EXCEPT ![n].count = c, ![n].climbed = @ + up]
    /\ UNCHANGED <<now, reader, history>>

UpdateQuota(n, q, h) ==
    /\ n \in Stored
    /\ row' = [row EXCEPT ![n].quota = q, ![n].hours = h]
    /\ UNCHANGED <<now, reader, history>>

\* A name that is taken while an UPDATE for it is to come.
Take(n) == steady' = (steady /\ \A r \in Readers : \A s \in reader[r].left : s.name # n)

UpdateStat(old, new) ==
    /\ old \in Stored /\ new \notin Stored
    /\ row' = [row EXCEPT ![new] = row[old], ![old] = None]
    /\ Take(new)
    /\ UNCHANGED <<now, reader, alone>>

\* From here on the row is in the JOIN.  A count that was set between the two statements
\* of the creation is one that is set right after them.
CreateQuota(n) ==
    /\ n \notin Stored
    /\ row' = [row EXCEPT ![n] = NewRow]
    /\ Take(n)
    /\ UNCHANGED <<now, reader, alone>>

DeleteStat(n) ==
    /\ n \in Stored
    /\ row' = [row EXCEPT ![n] = None]
    /\ UNCHANGED <<now, reader, history>>

\* A request lives ten seconds at most (chimw.Timeout): it sees one tick, not two.
Tick ==
    /\ now < MaxTime
    /\ \A r \in Readers : reader[r] # Idle => reader[r].since = now
    /\ now' = now + 1
    /\ UNCHANGED <<row, reader, history>>

Next ==
    \/ \E r \in Readers :
          \/ Load(r) \/ Fail(r)
          \/ \E s \in reader[r].left : UpdateQuotaStreak(r, s)
    \/ \E n \in Names :
          \/ \E c \in Counts : UpdateCount(n, c)
          \/ \E q \in Quotas, h \in Hours : UpdateQuota(n, q, h)
          \/ \E new \in Names : UpdateStat(n, new)
          \/ CreateQuota(n) \/ DeleteStat(n)
    \/ Tick

Spec == Init /\ [][Next]_vars
-------------------------------------------------------------------------------
(* Properties.                                                             *)

\* Smallest quota and shortest period that are not switched off.
MinQuota == CHOOSE q \in Quotas : q > 0 /\ \A k \in Quotas : k > 0 => q <= k
MinTicks == TicksPerHour *
    (CHOOSE h \in Hours : h > 0 /\ \A k \in Hours : k > 0 => h <= k)

\* Each row has its columns' types, and a request only has due rows to update.
TypeOK ==
    /\ now \in 0 .. MaxTime
    /\ {alone, steady} \subseteq BOOLEAN
    /\ row \in [Names -> Row \cup {None}]
    /\ \A r \in Readers :
          /\ reader[r].since \in 0 .. MaxTime
          /\ reader[r].left \subseteq {s \in Snapshot : Due(s)}

\* doc/features.txt:14, "Daily quota with streak": the streak counts periods, so
\* between two steps of it there is at least one (the shortest there is).
OncePerPeriod ==
    [][\A n \in Names : row[n] # None /\ row'[n] # None =>
          (row'[n].streak > row[n].streak => now - row[n].last_done >= MinTicks)]_vars

\* The same while no two requests for the page overlap, whatever the owner does to
\* the stats while one of them works through its snapshot.
OncePerPeriodAlone ==
    [][\A n \in Names : alone /\ steady /\ row[n] # None /\ row'[n] # None =>
          (row'[n].streak > row[n].streak => now - row[n].last_done >= MinTicks)]_vars

\* While no two requests for the page overlap, every step of the streak is paid for
\* by counting of its own: what was counted towards one period is not credited again
\* to the next, though the counts go up and down and last_count is the count of an
\* older moment.
CreditBacked ==
    alone /\ steady => \A n \in Stored : row[n].streak * MinQuota <= row[n].climbed

\* However many requests meet, the streak runs ahead of the clock by no more than
\* one step per period for each request that can be in flight.
StreakBound ==
    steady => \A n \in Stored : row[n].streak * MinTicks <= Cardinality(Readers) * now
===============================================================================
