--------------------------- MODULE QuotaStreakProofs ---------------------------
(***************************************************************************)
(* Theorems about streaks, for any stats, requests for the page, periods   *)
(* and clocks.                                                             *)
(***************************************************************************)
EXTENDS QuotaStreak, FiniteSetTheorems, TLAPS

-------------------------------------------------------------------------------
(* Numbers.                                                                *)

LEMMA TimesMonotone ==
    ASSUME NEW k \in Nat, NEW a \in Int, NEW b \in Int, a <= b
    PROVE  k * a <= k * b
BY SMTT(30)

LEMMA DivFacts ==
    ASSUME NEW x \in Nat, NEW d \in Nat \ {0}
    PROVE  x \div d \in Nat /\ d * (x \div d) <= x
BY SMTT(30)

\* The default quota is the smallest there is, and MinTicks the shortest period.
LEMMA Least ==
    /\ MinQuota = 1
    /\ MinTicks \in Nat \ {0}
    /\ \A h \in Hours : h > 0 => MinTicks <= TicksPerHour * h
<1>1. MinQuota = 1
  <2>1. 1 \in Quotas /\ Quotas \subseteq Int
    BY QuotaStreakAssumption
  <2>2. \E q \in Quotas : q > 0 /\ \A k \in Quotas : k > 0 => q <= k
    BY <2>1
  <2>3. MinQuota \in Quotas /\ MinQuota > 0 /\ \A k \in Quotas : k > 0 => MinQuota <= k
    BY <2>2, Zenon DEF MinQuota
  <2> QED
    BY <2>1, <2>3
<1> DEFINE m == CHOOSE h \in Hours : h > 0 /\ \A k \in Hours : k > 0 => h <= k
<1>2. m \in Hours /\ m > 0 /\ \A k \in Hours : k > 0 => m <= k
  BY QuotaStreakAssumption, Zenon
<1>3. MinTicks = TicksPerHour * m
  BY Zenon DEF MinTicks
<1> HIDE DEF m
<1>4. m \in Nat \ {0} /\ TicksPerHour \in Nat \ {0} /\ Hours \subseteq Int
  BY <1>2, QuotaStreakAssumption
<1>5. TicksPerHour * m \in Nat \ {0}
  BY <1>4, SMTT(30)
<1>6. \A h \in Hours : h > 0 => TicksPerHour * m <= TicksPerHour * h
  BY <1>2, <1>4, TimesMonotone
<1> QED
  BY <1>1, <1>3, <1>5, <1>6

-------------------------------------------------------------------------------
(* Types.                                                                  *)

\* More than TypeOK: nothing is in the future, and a request has one snapshot of a name.
Types ==
    /\ TypeOK
    /\ reader \in [Readers -> [since : 0 .. MaxTime, left : SUBSET Snapshot]]
    /\ \A r \in Readers : reader[r].since <= now
    /\ \A n \in Stored : row[n].last_done <= now
    /\ \A r \in Readers : \A s, t \in reader[r].left : s.name = t.name => s = t

LEMMA RowFields ==
    ASSUME Types, NEW n \in Stored
    PROVE  /\ n \in Names
           /\ row[n] \in Row
           /\ row[n].count \in Int /\ row[n].quota \in Int /\ row[n].hours \in Int
           /\ row[n].last_count \in Int /\ row[n].streak \in Nat /\ row[n].climbed \in Nat
           /\ row[n].last_done \in Nat /\ row[n].last_done <= now
           /\ now \in Nat
<1>1. n \in Names /\ row[n] # None /\ row[n] \in Row
  BY DEF Types, TypeOK, Stored
<1>2. Counts \subseteq Int /\ Quotas \subseteq Int /\ Hours \subseteq Int /\ MaxTime \in Nat
      /\ MaxClimb \in Nat
  BY QuotaStreakAssumption
<1>3. now \in 0 .. MaxTime /\ row[n].last_done <= now
  BY DEF Types, TypeOK
<1>4. /\ row[n].count \in Counts /\ row[n].quota \in Quotas /\ row[n].hours \in Hours
      /\ row[n].last_count \in Counts /\ row[n].streak \in Nat
      /\ row[n].climbed \in 0 .. MaxClimb /\ row[n].last_done \in 0 .. MaxTime
  BY <1>1 DEF Row
<1>5. /\ row[n].count \in Int /\ row[n].quota \in Int
      /\ row[n].hours \in Int /\ row[n].last_count \in Int
  BY <1>2, <1>4
<1>6. row[n].climbed \in Nat /\ row[n].last_done \in Nat /\ now \in Nat
  BY <1>2, <1>3, <1>4
<1> QED
  BY <1>1, <1>3, <1>4, <1>5, <1>6, Zenon

LEMMA SnapshotFields ==
    ASSUME Types, NEW r \in Readers, NEW s \in reader[r].left
    PROVE  /\ s \in Snapshot
           /\ s.name \in Names
           /\ s.count \in Counts /\ s.count \in Int /\ s.quota \in Int /\ s.hours \in Int
           /\ s.progress \in Int /\ s.passed \in Nat
           /\ Due(s)
BY QuotaStreakAssumption DEF Types, TypeOK, Snapshot

\* A row that is due was last done a period ago.
LEMMA DueRow ==
    ASSUME Types, NEW n \in Stored
    PROVE  /\ SnapshotOf(n) \in Snapshot
           /\ SnapshotOf(n).name = n
           /\ SnapshotOf(n).count = row[n].count
           /\ SnapshotOf(n).progress = row[n].count - row[n].last_count
           /\ Due(SnapshotOf(n)) => now - row[n].last_done >= MinTicks
<1> DEFINE d == now - row[n].last_done
           p == d \div TicksPerHour
           h == row[n].hours
<1>1. d \in Nat /\ TicksPerHour \in Nat \ {0} /\ h \in Hours /\ h \in Int
  BY RowFields, QuotaStreakAssumption DEF Row
<1>2. p \in Nat /\ TicksPerHour * p <= d
  BY <1>1, DivFacts
<1>3. row[n].count - row[n].last_count \in Int /\ n \in Names /\ row[n] \in Row
  BY RowFields
<1>4. HoursPassed(n) = p
  BY DEF HoursPassed
<1> HIDE DEF d, p
<1>5. SnapshotOf(n) \in Snapshot
  BY <1>2, <1>3, <1>4 DEF SnapshotOf, Snapshot, Row
<1>6. ASSUME Due(SnapshotOf(n))
      PROVE  d >= MinTicks
  <2>1. p >= h /\ h > 0
    BY <1>4, <1>6 DEF Due, SnapshotOf
  <2>2. TicksPerHour * h <= TicksPerHour * p
    BY <1>1, <1>2, <2>1, TimesMonotone
  <2>3. MinTicks <= TicksPerHour * h
    BY <1>1, <2>1, Least
  <2>4. TicksPerHour * h \in Int /\ TicksPerHour * p \in Int /\ MinTicks \in Int
    BY <1>1, <1>2, Least
  <2> QED
    BY <1>1, <1>2, <2>2, <2>3, <2>4
<1> QED
  BY <1>5, <1>6 DEF SnapshotOf, d

-------------------------------------------------------------------------------
(* The invariant.                                                          *)

\* The requests that still have to update the row of that name.
Awaited(n) == {r \in Readers : \E s \in reader[r].left : s.name = n}

\* Those that read it before another one moved the streak on.
Stale(n) == {r \in Awaited(n) : reader[r].since - row[n].last_done < MinTicks}

\* Every step of the streak that was made or may still be made by a request that is too
\* late has had its time before last_done, for each request there can be.
Bounded(n) ==
    MinTicks * (row[n].streak + Cardinality(Stale(n))) <= Cardinality(Readers) * row[n].last_done

\* What was counted since last_count has not been credited.
Paid(n) ==
    /\ row[n].streak <= row[n].climbed
    /\ row[n].streak + (row[n].count - row[n].last_count) <= row[n].climbed

\* A snapshot that nobody else has overtaken: its period has passed, and its progress is
\* not credited yet, nor is what came after it.
InTime(r, s) ==
    LET x == row[s.name]
    IN  /\ reader[r].since - x.last_done >= MinTicks
        /\ x.streak + s.progress <= x.climbed
        /\ x.streak + (x.count - s.count) <= x.climbed
        /\ x.streak + s.progress + (x.count - s.count) <= x.climbed

OneReader == \A r, q \in Readers : reader[r].left # {} /\ reader[q].left # {} => r = q

StreakInv ==
    /\ Types
    /\ steady => \A n \in Stored : Bounded(n)
    /\ alone => OneReader
    /\ alone /\ steady =>
          /\ \A n \in Stored : Paid(n)
          /\ \A r \in Readers : \A s \in reader[r].left : s.name \in Stored => InTime(r, s)

\* The bound goes on holding when the clock has gone on and no step was added.
LEMMA BoundLater ==
    ASSUME NEW S \in SUBSET Readers, NEW T \in SUBSET Readers,
           NEW x \in Nat, NEW y \in Nat, NEW L \in Nat, NEW M \in Nat,
           MinTicks * (x + Cardinality(S)) <= Cardinality(Readers) * L,
           y + Cardinality(T) <= x + Cardinality(S), L <= M
    PROVE  MinTicks * (y + Cardinality(T)) <= Cardinality(Readers) * M
<1> DEFINE k == Cardinality(Readers)
           a == x + Cardinality(S)
           b == y + Cardinality(T)
<1>1. IsFiniteSet(Readers) /\ IsFiniteSet(S) /\ IsFiniteSet(T)
  BY QuotaStreakAssumption, FS_Subset
<1>2. k \in Nat /\ a \in Nat /\ b \in Nat /\ MinTicks \in Nat
  BY <1>1, FS_CardinalityType, Least
<1>3. MinTicks * a <= k * L /\ b <= a
  OBVIOUS
<1> HIDE DEF a, b, k
<1>4. MinTicks * b <= MinTicks * a /\ k * L <= k * M
  BY <1>2, <1>3, TimesMonotone
<1>5. MinTicks * a \in Int /\ MinTicks * b \in Int /\ k * L \in Int /\ k * M \in Int
  BY <1>2
<1>6. MinTicks * b <= k * M
  BY <1>3, <1>4, <1>5
<1> QED
  BY <1>6 DEF b, k

\* A step that was made in time pays for itself and for all requests it makes late.
LEMMA BoundPeriod ==
    ASSUME NEW S \in SUBSET Readers, NEW r \in Readers, NEW T \in SUBSET (Readers \ {r}),
           NEW x \in Nat, NEW y \in Nat, NEW L \in Nat, NEW M \in Nat,
           MinTicks * (x + Cardinality(S)) <= Cardinality(Readers) * L,
           y <= x + 1, L + MinTicks <= M
    PROVE  MinTicks * (y + Cardinality(T)) <= Cardinality(Readers) * M
<1> DEFINE k == Cardinality(Readers)
           c == Cardinality(S)
           b == y + Cardinality(T)
           t == MinTicks
<1>1. IsFiniteSet(Readers) /\ IsFiniteSet(S) /\ IsFiniteSet(Readers \ {r})
  BY QuotaStreakAssumption, FS_Subset
<1>2. IsFiniteSet(T) /\ Cardinality(T) <= Cardinality(Readers \ {r})
      /\ Cardinality(Readers \ {r}) = k - 1
  BY <1>1, FS_Subset, FS_RemoveElement
<1>3. k \in Nat /\ c \in Nat /\ Cardinality(T) \in Nat /\ t \in Nat
  BY <1>1, <1>2, FS_CardinalityType, Least
<1>4. b \in Nat /\ b <= x + k /\ x <= x + c
  BY <1>2, <1>3
<1>5. t * (x + c) <= k * L /\ L + t <= M
  OBVIOUS
<1> HIDE DEF k, c, b, t
<1>6. t * b <= t * (x + k)
  BY <1>3, <1>4, TimesMonotone
<1>7. t * x <= t * (x + c)
  BY <1>3, <1>4, TimesMonotone
<1>8. k * (L + t) <= k * M
  BY <1>3, <1>5, TimesMonotone
<1>9. t * (x + k) = t * x + t * k /\ k * (L + t) = k * L + t * k
  BY <1>3, SMTT(30)
<1>10. /\ t * b \in Int /\ t * x \in Int /\ t * k \in Int /\ k * L \in Int /\ k * M \in Int
       /\ t * (x + c) \in Int /\ t * (x + k) \in Int /\ k * (L + t) \in Int
  BY <1>3, <1>4
<1>11. t * b <= k * M
  BY <1>5, <1>6, <1>7, <1>8, <1>9, <1>10
<1> QED
  BY <1>11 DEF b, k, t

LEMMA StaleReaders == \A n : Stale(n) \in SUBSET Readers /\ Stale(n)' \in SUBSET Readers
BY DEF Stale, Awaited

\* The names whose rows and requests a step leaves alone, or only loses some of.
LEMMA BoundedKeeps ==
    ASSUME Types, Types', NEW n \in Stored, n \in Stored', Bounded(n),
           row'[n].streak = row[n].streak, row'[n].last_done = row[n].last_done,
           \A r \in Readers : \A s \in reader'[r].left :
               s.name = n => s \in reader[r].left /\ reader'[r].since = reader[r].since
    PROVE  Bounded(n)'
<1>1. Stale(n)' \subseteq Stale(n)
  BY DEF Stale, Awaited
<1>2. IsFiniteSet(Stale(n)) /\ Stale(n) \in SUBSET Readers /\ Stale(n)' \in SUBSET Readers
  BY QuotaStreakAssumption, StaleReaders, FS_Subset
<1>3. /\ Cardinality(Stale(n)') <= Cardinality(Stale(n))
      /\ Cardinality(Stale(n)') \in Nat /\ Cardinality(Stale(n)) \in Nat
  BY <1>1, <1>2, FS_Subset, FS_CardinalityType
<1>4. row[n].streak \in Nat /\ row[n].last_done \in Nat
  BY RowFields
<1> DEFINE S == Stale(n)
           T == Stale(n)'
           x == row[n].streak
           l == row[n].last_done
<1>5. /\ MinTicks * (x + Cardinality(S)) <= Cardinality(Readers) * l
      /\ x + Cardinality(T) <= x + Cardinality(S)
      /\ l <= l
  BY <1>3, <1>4 DEF Bounded
<1> HIDE DEF S, T, x, l
<1>6. MinTicks * (x + Cardinality(T)) <= Cardinality(Readers) * l
  BY <1>2, <1>4, <1>5, BoundLater DEF S, T, x, l
<1> QED
  BY <1>6 DEF Bounded, T, x, l

-------------------------------------------------------------------------------
(* The steps.                                                              *)

LEMMA LoadKeeps ==
    ASSUME StreakInv, NEW r \in Readers, Load(r)
    PROVE  StreakInv'
<1> USE DEF StreakInv
<1>1. /\ reader[r] = Idle
      /\ reader' = [reader EXCEPT ![r] = [since |-> now, left |-> DueRows]]
      /\ alone' = (alone /\ \A q \in Readers : reader[q] = Idle)
      /\ row' = row /\ now' = now /\ steady' = steady
  BY DEF Load
<1>2. \A s \in DueRows : \E n \in Stored : s = SnapshotOf(n) /\ Due(s)
  BY DEF DueRows
<1>3. \A s \in DueRows : /\ s \in Snapshot /\ Due(s) /\ s.name \in Stored /\ s = SnapshotOf(s.name)
  BY <1>2, DueRow
<1>4. reader[r].left = {} /\ now \in 0 .. MaxTime
  BY <1>1 DEF Idle, Types, TypeOK
<1>5. /\ reader' \in [Readers -> [since : 0 .. MaxTime, left : SUBSET Snapshot]]
      /\ reader'[r].since = now
      /\ reader'[r].left = DueRows
      /\ \A q \in Readers \ {r} : reader'[q] = reader[q]
  <2> DEFINE new == [since |-> now, left |-> DueRows]
  <2>1. DueRows \in SUBSET Snapshot
    BY <1>3
  <2>2. new \in [since : 0 .. MaxTime, left : SUBSET Snapshot] /\ new.since = now /\ new.left = DueRows
    BY <1>4, <2>1
  <2> HIDE DEF new
  <2> QED
    BY <1>1, <2>2 DEF Types, new
<1>6. Stored' = Stored
  BY <1>1 DEF Stored
<1>7. Types'
  <2>1. TypeOK'
    BY <1>1, <1>3, <1>5 DEF Types, TypeOK
  <2>2. \A q \in Readers : \A s, t \in reader'[q].left : s.name = t.name => s = t
    <3> SUFFICES ASSUME NEW q \in Readers, NEW s \in reader'[q].left, NEW t \in reader'[q].left,
                        s.name = t.name
                 PROVE  s = t
      OBVIOUS
    <3>1. CASE q = r
      BY <1>3, <1>5, <3>1
    <3>2. CASE q # r
      BY <1>5, <3>2 DEF Types
    <3> QED
      BY <3>1, <3>2
  <2>3. \A q \in Readers : reader'[q].since <= now'
    BY <1>1, <1>4, <1>5 DEF Types
  <2> QED
    BY <1>1, <1>5, <1>6, <2>1, <2>2, <2>3 DEF Types
\* What is read now is read in time.
<1>8. \A n \in Stored : Stale(n)' = Stale(n)
  <2> SUFFICES ASSUME NEW n \in Stored
               PROVE  Stale(n)' = Stale(n)
    OBVIOUS
  <2>1. r \notin Stale(n)
    BY <1>4 DEF Stale, Awaited
  <2>2. r \notin Stale(n)'
    <3> SUFFICES ASSUME NEW s \in DueRows, s.name = n, now - row[n].last_done < MinTicks
                 PROVE  FALSE
      BY <1>1, <1>5 DEF Stale, Awaited
    <3>1. now - row[n].last_done >= MinTicks
      BY <1>3, DueRow
    <3> QED
      BY <1>4, <3>1, Least, RowFields
  <2> QED
    BY <1>1, <1>5, <2>1, <2>2 DEF Stale, Awaited
<1>9. ASSUME steady', NEW n \in Stored'
      PROVE  Bounded(n)'
  <2>1. Bounded(n) /\ Stale(n)' = Stale(n)
    BY <1>1, <1>6, <1>8, <1>9
  <2> QED
    BY <1>1, <2>1 DEF Bounded
<1>10. ASSUME alone'
       PROVE  /\ alone
              /\ \A q \in Readers \ {r} : reader'[q].left = {}
              /\ OneReader'
  <2>1. alone /\ \A q \in Readers : reader[q] = Idle
    BY <1>1, <1>10, Zenon
  <2>2. \A q \in Readers \ {r} : reader'[q].left = {}
    BY <1>5, <2>1 DEF Idle
  <2> QED
    BY <2>1, <2>2 DEF OneReader
<1>11. ASSUME alone', steady'
       PROVE  /\ \A n \in Stored' : Paid(n)'
              /\ \A q \in Readers : \A s \in reader'[q].left : s.name \in Stored' => InTime(q, s)'
  <2>1. ASSUME NEW n \in Stored'
        PROVE  Paid(n)'
    BY <1>1, <1>6, <1>10, <1>11, <2>1 DEF Paid
  <2>2. ASSUME NEW s \in DueRows
        PROVE  InTime(r, s)'
    <3> DEFINE n == s.name
    <3>1. n \in Stored /\ s = SnapshotOf(n) /\ Due(s)
      BY <1>3
    <3>2. /\ s.count = row[n].count
          /\ s.progress = row[n].count - row[n].last_count
          /\ now - row[n].last_done >= MinTicks
      BY <3>1, DueRow
    <3>3. Paid(n)
      BY <1>1, <1>10, <1>11, <3>1
    <3>4. row[n].streak \in Int /\ row[n].climbed \in Int /\ row[n].count \in Int
          /\ row[n].last_count \in Int
      BY <3>1, RowFields
    <3> QED
      BY <1>1, <1>5, <3>2, <3>3, <3>4 DEF InTime, Paid
  <2> QED
    BY <1>5, <1>10, <1>11, <2>1, <2>2
<1> QED
  BY <1>7, <1>9, <1>10, <1>11

\* The UPDATE: it changes one row, and its request has no other snapshot of that name.
LEMMA UpdateFacts ==
    ASSUME Types, NEW r \in Readers, NEW s \in reader[r].left, UpdateQuotaStreak(r, s)
    PROVE  /\ Types'
           /\ UNCHANGED <<now, alone, steady>>
           /\ Stored' \subseteq Stored
           /\ \A n \in Stored' \ {s.name} : row'[n] = row[n]
           /\ s.name \in Stored' =>
                 /\ row'[s.name].streak = IF Kept(s) THEN row[s.name].streak + 1 ELSE 0
                 /\ row'[s.name].last_done = now
                 /\ row'[s.name].last_count = s.count
                 /\ row'[s.name].count = row[s.name].count
                 /\ row'[s.name].climbed = row[s.name].climbed
           /\ reader'[r].left = reader[r].left \ {s}
           /\ reader'[r].left # {} => reader'[r].since = reader[r].since
           /\ \A q \in Readers \ {r} : reader'[q] = reader[q]
<1> DEFINE n == s.name
           new == [row[n] EXCEPT !.streak = IF Kept(s) THEN @ + 1 ELSE 0,
                                 !.last_done = now, !.last_count = s.count]
           rnew == IF reader[r].left = {s} THEN Idle
                   ELSE [reader[r] EXCEPT !.left = @ \ {s}]
<1>2. n \in Names /\ s.count \in Counts
  BY SnapshotFields
<1>3. reader[r] \in [since : 0 .. MaxTime, left : SUBSET Snapshot] /\ 0 \in 0 .. MaxTime
  BY QuotaStreakAssumption DEF Types
<1>1. /\ row' = IF row[n] = None THEN row ELSE [row EXCEPT ![n] = new]
      /\ reader' = [reader EXCEPT ![r] = rnew]
      /\ UNCHANGED <<now, alone, steady>>
  <2>1. reader' = [reader EXCEPT ![r] = rnew] /\ UNCHANGED <<now, alone, steady>>
    <3>1. reader' = [reader EXCEPT ![r] = rnew]
      BY <1>3 DEF UpdateQuotaStreak, Types
    <3>2. UNCHANGED <<now, alone, steady>>
      BY DEF UpdateQuotaStreak, history
    <3> QED
      BY <3>1, <3>2, Zenon
  <2>2. CASE row[n] = None
    BY <2>1, <2>2 DEF UpdateQuotaStreak
  <2>3. CASE row[n] # None
    <3>1. row' = [row EXCEPT ![n].streak = IF Kept(s) THEN @ + 1 ELSE 0,
                             ![n].last_done = now, ![n].last_count = s.count]
      BY <2>3 DEF UpdateQuotaStreak
    <3>2. row' = [row EXCEPT ![n] = new]
      BY <1>2, <3>1 DEF Types, TypeOK
    <3> QED
      BY <2>1, <2>3, <3>2
  <2> QED
    BY <2>2, <2>3
<1>4. /\ rnew \in [since : 0 .. MaxTime, left : SUBSET Snapshot]
      /\ rnew.left = reader[r].left \ {s}
      /\ rnew.left # {} => rnew.since = reader[r].since
      /\ rnew.since = reader[r].since \/ rnew.since = 0
  BY <1>3 DEF Idle
<1>5. /\ reader' \in [Readers -> [since : 0 .. MaxTime, left : SUBSET Snapshot]]
      /\ reader'[r] = rnew
      /\ \A q \in Readers \ {r} : reader'[q] = reader[q]
  <2> HIDE DEF rnew
  <2> QED
    BY <1>1, <1>4 DEF Types
<1>6. ASSUME n \in Stored
      PROVE  /\ new \in Row
             /\ new.streak = IF Kept(s) THEN row[n].streak + 1 ELSE 0
             /\ new.last_done = now
             /\ new.last_count = s.count
             /\ new.count = row[n].count
             /\ new.climbed = row[n].climbed
  <2>1. row[n] \in Row /\ row[n].streak + 1 \in Nat /\ now \in 0 .. MaxTime
    BY <1>6, RowFields DEF Types, TypeOK
  <2> QED
    BY <1>2, <2>1 DEF Row
<1>7. /\ row' \in [Names -> Row \cup {None}]
      /\ \A m \in Names \ {n} : row'[m] = row[m]
      /\ n \in Stored => row'[n] = new
      /\ n \notin Stored => row'[n] = row[n]
  <2> HIDE DEF new
  <2>1. row \in [Names -> Row \cup {None}] /\ (n \in Stored <=> row[n] # None)
    BY <1>2 DEF Types, TypeOK, Stored
  <2> QED
    BY <1>1, <1>2, <1>6, <2>1
<1>8. Stored' \subseteq Stored
  BY <1>7 DEF Stored
<1>9. \A m \in Stored' : m # n => m \in Names /\ row'[m] = row[m]
  BY <1>7 DEF Stored
<1>10. n \in Stored' => n \in Stored /\ row'[n] = new
  BY <1>7, <1>8
<1>11. Types'
  <2>1. \A m \in Stored' : row'[m].last_done <= now'
    <3> SUFFICES ASSUME NEW m \in Stored'
                 PROVE  row'[m].last_done <= now'
      OBVIOUS
    <3>1. CASE m = n
      BY <1>1, <1>6, <1>10, <3>1 DEF Types, TypeOK
    <3>2. CASE m # n
      BY <1>1, <1>8, <1>9, <3>2 DEF Types
    <3> QED
      BY <3>1, <3>2
  <2>2. TypeOK'
    BY <1>1, <1>4, <1>5, <1>7 DEF Types, TypeOK
  <2>3. \A q \in Readers : reader'[q].since <= now'
    BY <1>1, <1>4, <1>5 DEF Types, TypeOK
  <2>4. \A q \in Readers : \A t, u \in reader'[q].left : t.name = u.name => t = u
    BY <1>4, <1>5 DEF Types
  <2> QED
    BY <1>5, <2>1, <2>2, <2>3, <2>4 DEF Types
<1> QED
  BY <1>1, <1>4, <1>5, <1>6, <1>8, <1>9, <1>10, <1>11

LEMMA UpdateKeeps ==
    ASSUME StreakInv, NEW r \in Readers, NEW s \in reader[r].left, UpdateQuotaStreak(r, s)
    PROVE  StreakInv'
<1> USE DEF StreakInv
<1> DEFINE n == s.name
<1>1. /\ Types'
      /\ UNCHANGED <<now, alone, steady>>
      /\ Stored' \subseteq Stored
      /\ \A m \in Stored' \ {n} : row'[m] = row[m]
      /\ n \in Stored' =>
            /\ row'[n].streak = IF Kept(s) THEN row[n].streak + 1 ELSE 0
            /\ row'[n].last_done = now
            /\ row'[n].last_count = s.count
            /\ row'[n].count = row[n].count
            /\ row'[n].climbed = row[n].climbed
      /\ reader'[r].left = reader[r].left \ {s}
      /\ reader'[r].left # {} => reader'[r].since = reader[r].since
      /\ \A q \in Readers \ {r} : reader'[q] = reader[q]
  BY UpdateFacts
<1>2. \A t \in reader'[r].left : t.name # n
  BY <1>1 DEF Types
<1>3. \A q \in Readers : \A t \in reader'[q].left :
         t \in reader[q].left /\ reader'[q].since = reader[q].since
  <2> SUFFICES ASSUME NEW q \in Readers, NEW t \in reader'[q].left
               PROVE  t \in reader[q].left /\ reader'[q].since = reader[q].since
    OBVIOUS
  <2>1. CASE q = r
    BY <1>1, <2>1
  <2>2. CASE q # r
    BY <1>1, <2>2
  <2> QED
    BY <2>1, <2>2
<1>4. s.count \in Int /\ s.progress \in Int /\ s.quota \in Int /\ Due(s)
  BY SnapshotFields
<1>5. ASSUME steady', NEW m \in Stored'
      PROVE  Bounded(m)'
  <2>1. m \in Stored /\ Bounded(m)
    BY <1>1, <1>5
  <2>2. CASE m # n
    BY <1>1, <1>3, <1>5, <2>1, <2>2, BoundedKeeps
  <2>3. CASE m = n
    <3> DEFINE S == Stale(m)
               T == Stale(m)'
               x == row[m].streak
               y == row'[m].streak
               L == row[m].last_done
    <3>1. /\ x \in Nat /\ y \in Nat /\ L \in Nat /\ now \in Nat
          /\ y <= x + 1 /\ L <= now /\ row'[m].last_done = now
      BY <1>1, <1>5, <2>1, <2>3, RowFields
    <3>2. r \in Awaited(m) /\ S \in SUBSET Readers /\ T \in SUBSET (Readers \ {r})
      BY <1>2, <2>3 DEF Awaited, Stale
    <3>3. Stale(m)' \subseteq Awaited(m) \ {r}
      BY <1>2, <1>3, <2>3 DEF Awaited, Stale
    <3>4. MinTicks * (x + Cardinality(S)) <= Cardinality(Readers) * L
      BY <2>1 DEF Bounded
\* Some request that awaits the row read it a period after the last step.
    <3>5. CASE \E q \in Awaited(m) : q \notin Stale(m)
      <4>1. PICK q \in Readers : ~(reader[q].since - L < MinTicks) /\ reader[q].since <= now
        BY <3>5 DEF Stale, Awaited, Types
      <4>2. L + MinTicks <= now
        <5>1. reader[q].since \in Int /\ MinTicks \in Int
          BY Least DEF Types
        <5> QED
          BY <3>1, <4>1, <5>1
      <4> HIDE DEF S, T, x, y, L
      <4>3. MinTicks * (y + Cardinality(T)) <= Cardinality(Readers) * now
        BY <3>1, <3>2, <3>4, <4>2, BoundPeriod
      <4> QED
        BY <3>1, <4>3 DEF Bounded, T, y
\* All are late, this one as well: what it adds was set aside.
    <3>6. CASE \A q \in Awaited(m) : q \in Stale(m)
      <4>1. T \subseteq S \ {r} /\ r \in S
        BY <3>2, <3>3, <3>6
      <4>2. IsFiniteSet(S) /\ IsFiniteSet(S \ {r}) /\ IsFiniteSet(T)
        BY <3>2, QuotaStreakAssumption, FS_Subset
      <4>3. /\ Cardinality(T) <= Cardinality(S \ {r})
            /\ Cardinality(S \ {r}) = Cardinality(S) - 1
            /\ Cardinality(T) \in Nat /\ Cardinality(S) \in Nat
        <5> HIDE DEF S, T
        <5> QED
          BY <4>1, <4>2, FS_Subset, FS_RemoveElement, FS_CardinalityType
      <4>4. y + Cardinality(T) <= x + Cardinality(S) /\ T \in SUBSET Readers
        BY <3>1, <3>2, <4>3
      <4> HIDE DEF S, T, x, y, L
      <4>5. MinTicks * (y + Cardinality(T)) <= Cardinality(Readers) * now
        BY <3>1, <3>2, <3>4, <4>4, BoundLater
      <4> QED
        BY <3>1, <4>5 DEF Bounded, T, y
    <3> QED
      BY <3>5, <3>6
  <2> QED
    BY <2>2, <2>3
<1>6. ASSUME alone'
      PROVE  OneReader'
  BY <1>1, <1>3, <1>6 DEF OneReader
<1>7. ASSUME alone', steady'
      PROVE  /\ \A m \in Stored' : Paid(m)'
             /\ \A q \in Readers : \A t \in reader'[q].left : t.name \in Stored' => InTime(q, t)'
  <2>1. alone /\ steady
    BY <1>1, <1>7
  <2>2. ASSUME NEW m \in Stored'
        PROVE  Paid(m)'
    <3>1. m \in Stored /\ Paid(m)
      BY <1>1, <2>1
    <3>2. CASE m # n
      BY <1>1, <3>1, <3>2 DEF Paid
    <3>3. CASE m = n
      <4>1. InTime(r, s)
        BY <2>1, <3>1, <3>3
      <4>2. /\ row[n].streak \in Nat /\ row[n].climbed \in Int /\ row[n].count \in Int
            /\ row[n].last_count \in Int
        BY <3>1, <3>3, RowFields
      <4>3. Kept(s) => s.progress >= 1
        BY <1>4 DEF Kept, Due
      <4>4. /\ row[n].streak + s.progress <= row[n].climbed
            /\ row[n].streak + (row[n].count - s.count) <= row[n].climbed
            /\ row[n].streak + s.progress + (row[n].count - s.count) <= row[n].climbed
            /\ row[n].streak <= row[n].climbed
        BY <3>1, <3>3, <4>1 DEF InTime, Paid
      <4>5. /\ row'[n].streak = IF Kept(s) THEN row[n].streak + 1 ELSE 0
            /\ row'[n].last_count = s.count
            /\ row'[n].count = row[n].count
            /\ row'[n].climbed = row[n].climbed
        BY <1>1, <2>2, <3>3
      <4>6. /\ row'[n].streak <= row'[n].climbed
            /\ row'[n].streak + (row'[n].count - row'[n].last_count) <= row'[n].climbed
        BY <1>4, <4>2, <4>3, <4>4, <4>5
      <4> QED
        BY <3>3, <4>6 DEF Paid
    <3> QED
      BY <3>2, <3>3
  <2>3. ASSUME NEW q \in Readers, NEW t \in reader'[q].left, t.name \in Stored'
        PROVE  InTime(q, t)'
    <3>1. q = r
      BY <1>3, <2>1, <2>3 DEF OneReader
    <3>2. t.name # n /\ InTime(q, t) /\ reader'[q].since = reader[q].since
      BY <1>1, <1>2, <1>3, <2>1, <2>3, <3>1
    <3> QED
      BY <1>1, <2>3, <3>2 DEF InTime
  <2> QED
    BY <2>2, <2>3
<1> QED
  BY <1>1, <1>5, <1>6, <1>7

\* A request that is over updates nothing more.
LEMMA FailKeeps ==
    ASSUME StreakInv, NEW r \in Readers, Fail(r)
    PROVE  StreakInv'
<1> USE DEF StreakInv
<1>1. /\ reader' = [reader EXCEPT ![r] = Idle]
      /\ row' = row /\ now' = now /\ alone' = alone /\ steady' = steady
  BY DEF Fail, history
<1>2. Idle \in [since : 0 .. MaxTime, left : SUBSET Snapshot] /\ Idle.left = {} /\ Idle.since = 0
  BY QuotaStreakAssumption DEF Idle
<1>3. /\ reader' \in [Readers -> [since : 0 .. MaxTime, left : SUBSET Snapshot]]
      /\ reader'[r].left = {} /\ reader'[r].since = 0
      /\ \A q \in Readers \ {r} : reader'[q] = reader[q]
  BY <1>1, <1>2, Zenon DEF Types
<1>4. Stored' = Stored
  BY <1>1 DEF Stored
<1>5. Types'
  <2>1. \A q \in Readers : reader'[q].since <= now'
    BY <1>1, <1>3 DEF Types, TypeOK
  <2>2. TypeOK'
    BY <1>1, <1>3 DEF Types, TypeOK
  <2>3. \A q \in Readers : \A s, t \in reader'[q].left : s.name = t.name => s = t
    BY <1>3 DEF Types
  <2> QED
    BY <1>1, <1>3, <1>4, <2>1, <2>2, <2>3 DEF Types
<1>6. \A q \in Readers : \A s \in reader'[q].left :
         s \in reader[q].left /\ reader'[q].since = reader[q].since
  BY <1>3
<1>7. \A n \in Stored' : steady' => Bounded(n)'
  BY <1>1, <1>4, <1>5, <1>6, BoundedKeeps
<1>8. alone' => OneReader'
  BY <1>1, <1>6 DEF OneReader
<1>9. alone' /\ steady' =>
         /\ \A n \in Stored' : Paid(n)'
         /\ \A q \in Readers : \A s \in reader'[q].left : s.name \in Stored' => InTime(q, s)'
  BY <1>1, <1>4, <1>6 DEF Paid, InTime
<1> QED
  BY <1>5, <1>7, <1>8, <1>9

\* The owner's steps leave the requests alone.
LEMMA OwnerTypes ==
    ASSUME Types, UNCHANGED <<now, reader>>,
           row' \in [Names -> Row \cup {None}],
           \A n \in Stored' : row'[n].last_done <= now,
           alone' \in BOOLEAN, steady' \in BOOLEAN
    PROVE  Types'
<1>1. TypeOK'
  BY DEF Types, TypeOK
<1> QED
  BY <1>1 DEF Types

LEMMA UpdateCountKeeps ==
    ASSUME StreakInv, NEW n \in Names, NEW c \in Counts, UpdateCount(n, c)
    PROVE  StreakInv'
<1> USE DEF StreakInv
<1> DEFINE up == IF c > row[n].count THEN c - row[n].count ELSE 0
           new == [row[n] EXCEPT !.count = c, !.climbed = @ + up]
<1>1. n \in Stored /\ UNCHANGED <<now, reader, alone, steady>>
  BY DEF UpdateCount, history
<1>2. /\ row[n] \in Row /\ row[n].count \in Int /\ row[n].climbed \in Nat
      /\ row[n].streak \in Nat /\ row[n].last_count \in Int
      /\ c \in Int
  BY <1>1, RowFields, QuotaStreakAssumption
<1>3. up \in Nat /\ up >= c - row[n].count /\ row[n].climbed + up <= MaxClimb
  BY <1>2 DEF UpdateCount
<1>4. row' = [row EXCEPT ![n] = new]
  BY <1>2 DEF UpdateCount, Types, TypeOK
<1>5. /\ new \in Row
      /\ new.count = c
      /\ new.climbed = row[n].climbed + up
      /\ new.last_count = row[n].last_count
      /\ new.last_done = row[n].last_done
      /\ new.streak = row[n].streak
  <2> HIDE DEF up
  <2>1. row[n].climbed + up \in 0 .. MaxClimb
    BY <1>2, <1>3, QuotaStreakAssumption
  <2> QED
    BY <1>2, <2>1 DEF Row
<1> HIDE DEF new, up
<1>6. /\ row' \in [Names -> Row \cup {None}]
      /\ row'[n] = new
      /\ \A m \in Names \ {n} : row'[m] = row[m]
  BY <1>4, <1>5 DEF Types, TypeOK
<1>7. Stored' \subseteq Stored /\ \A m \in Stored' \ {n} : row'[m] = row[m]
  BY <1>1, <1>6 DEF Stored
<1>8. Types'
  <2>1. \A m \in Stored' : row'[m].last_done <= now
    BY <1>1, <1>5, <1>6, <1>7 DEF Types
  <2>2. alone' \in BOOLEAN /\ steady' \in BOOLEAN
    BY <1>1, Zenon DEF Types, TypeOK
  <2> QED
    BY <1>1, <1>6, <2>1, <2>2, OwnerTypes
<1>9. ASSUME steady', NEW m \in Stored'
      PROVE  Bounded(m)'
  <2>1. row'[m].streak = row[m].streak /\ row'[m].last_done = row[m].last_done
    BY <1>5, <1>6, <1>7
  <2> QED
    BY <1>1, <1>7, <1>8, <1>9, <2>1, BoundedKeeps
<1>10. alone' => OneReader'
  BY <1>1 DEF OneReader
<1>11. ASSUME alone', steady'
       PROVE  /\ \A m \in Stored' : Paid(m)'
              /\ \A q \in Readers : \A s \in reader'[q].left : s.name \in Stored' => InTime(q, s)'
  <2>1. alone /\ steady
    BY <1>1, <1>11
  <2>2. ASSUME NEW m \in Stored'
        PROVE  Paid(m)'
    <3>1. Paid(m)
      BY <1>7, <2>1
    <3>2. CASE m # n
      BY <1>7, <3>1, <3>2 DEF Paid
    <3>3. CASE m = n
      <4>1. /\ row[n].streak <= row[n].climbed
            /\ row[n].streak + (row[n].count - row[n].last_count) <= row[n].climbed
        BY <3>1, <3>3 DEF Paid
      <4>2. /\ row[n].streak <= row[n].climbed + up
            /\ row[n].streak + (c - row[n].last_count) <= row[n].climbed + up
        BY <1>2, <1>3, <4>1
      <4> QED
        BY <1>5, <1>6, <3>3, <4>2 DEF Paid
    <3> QED
      BY <3>2, <3>3
  <2>3. ASSUME NEW q \in Readers, NEW s \in reader'[q].left, s.name \in Stored'
        PROVE  InTime(q, s)'
    <3>1. InTime(q, s) /\ s \in reader[q].left
      BY <1>1, <1>7, <2>1, <2>3
    <3>2. CASE s.name # n
      BY <1>1, <1>7, <2>3, <3>1, <3>2 DEF InTime
    <3>3. CASE s.name = n
      <4>1. s.count \in Int /\ s.progress \in Int
        BY <3>1, SnapshotFields
      <4>2. /\ reader[q].since - row[n].last_done >= MinTicks
            /\ row[n].streak + s.progress <= row[n].climbed
            /\ row[n].streak + (row[n].count - s.count) <= row[n].climbed
            /\ row[n].streak + s.progress + (row[n].count - s.count) <= row[n].climbed
        BY <3>1, <3>3 DEF InTime
      <4>3. /\ row[n].streak + s.progress <= row[n].climbed + up
            /\ row[n].streak + (c - s.count) <= row[n].climbed + up
            /\ row[n].streak + s.progress + (c - s.count) <= row[n].climbed + up
        BY <1>2, <1>3, <4>1, <4>2
      <4> QED
        BY <1>1, <1>5, <1>6, <3>3, <4>2, <4>3 DEF InTime
    <3> QED
      BY <3>2, <3>3
  <2> QED
    BY <2>2, <2>3
<1> QED
  BY <1>8, <1>9, <1>10, <1>11

\* Neither quota nor period of the row matters to what is under way.
LEMMA UpdateQuotaKeeps ==
    ASSUME StreakInv, NEW n \in Names, NEW k \in Quotas, NEW h \in Hours, UpdateQuota(n, k, h)
    PROVE  StreakInv'
<1> USE DEF StreakInv
<1> DEFINE new == [row[n] EXCEPT !.quota = k, !.hours = h]
<1>1. n \in Stored /\ UNCHANGED <<now, reader, alone, steady>>
  BY DEF UpdateQuota, history
<1>2. row[n] \in Row
  BY <1>1, RowFields
<1>3. row' = [row EXCEPT ![n] = new]
  BY <1>2 DEF UpdateQuota, Types, TypeOK
<1>4. /\ new \in Row
      /\ new.count = row[n].count
      /\ new.climbed = row[n].climbed
      /\ new.last_count = row[n].last_count
      /\ new.last_done = row[n].last_done
      /\ new.streak = row[n].streak
  BY <1>2 DEF Row
<1> HIDE DEF new
<1>5. /\ row' \in [Names -> Row \cup {None}]
      /\ row'[n] = new
      /\ \A m \in Names \ {n} : row'[m] = row[m]
  BY <1>3, <1>4 DEF Types, TypeOK
<1>6. /\ Stored' \subseteq Stored
      /\ \A m \in Stored' : /\ row'[m].count = row[m].count
                            /\ row'[m].climbed = row[m].climbed
                            /\ row'[m].last_count = row[m].last_count
                            /\ row'[m].last_done = row[m].last_done
                            /\ row'[m].streak = row[m].streak
  BY <1>1, <1>4, <1>5 DEF Stored
<1>7. Types'
  <2>1. \A m \in Stored' : row'[m].last_done <= now
    BY <1>6 DEF Types
  <2>2. alone' \in BOOLEAN /\ steady' \in BOOLEAN
    BY <1>1, Zenon DEF Types, TypeOK
  <2> QED
    BY <1>1, <1>5, <2>1, <2>2, OwnerTypes
<1>8. \A m \in Stored' : steady' => Bounded(m)'
  BY <1>1, <1>6, <1>7, BoundedKeeps
<1>9. alone' => OneReader'
  BY <1>1 DEF OneReader
<1>10. alone' /\ steady' =>
          /\ \A m \in Stored' : Paid(m)'
          /\ \A q \in Readers : \A s \in reader'[q].left : s.name \in Stored' => InTime(q, s)'
  BY <1>1, <1>6 DEF Paid, InTime
<1> QED
  BY <1>7, <1>8, <1>9, <1>10

\* A name that nobody awaits: its row, wherever from, has no late request.
LEMMA TakenName ==
    ASSUME Types, Types', NEW n \in Names, NEW x \in Nat, NEW l \in Nat,
           \A r \in Readers : \A s \in reader'[r].left : s.name # n,
           row'[n].streak = x, row'[n].last_done = l,
           MinTicks * x <= Cardinality(Readers) * l
    PROVE  Bounded(n)'
<1>1. Stale(n)' = {}
  BY DEF Stale, Awaited
<1>2. Cardinality(Stale(n)') = 0
  BY <1>1, FS_EmptySet
<1>3. x + 0 = x
  OBVIOUS
<1> QED
  BY <1>2, <1>3 DEF Bounded

\* What Bounded says without the late requests.
LEMMA BoundedRow ==
    ASSUME Types, NEW n \in Stored, Bounded(n)
    PROVE  MinTicks * row[n].streak <= Cardinality(Readers) * row[n].last_done
<1> DEFINE S == Stale(n)
           x == row[n].streak
           L == row[n].last_done
<1>1. S \in SUBSET Readers /\ {} \in SUBSET Readers
  BY StaleReaders
<1>2. IsFiniteSet(S) /\ Cardinality({}) = 0
  BY <1>1, QuotaStreakAssumption, FS_Subset, FS_EmptySet
<1>3. x \in Nat /\ L \in Nat
  BY RowFields
<1> HIDE DEF S, x, L
<1>4. x + Cardinality({}) <= x + Cardinality(S) /\ x + Cardinality({}) = x
  BY <1>2, <1>3, FS_CardinalityType
<1>5. MinTicks * (x + Cardinality(S)) <= Cardinality(Readers) * L
  BY DEF Bounded, S, x, L
<1>6. MinTicks * (x + Cardinality({})) <= Cardinality(Readers) * L
  BY <1>1, <1>3, <1>4, <1>5, BoundLater
<1> QED
  BY <1>4, <1>6 DEF x, L

LEMMA UpdateStatKeeps ==
    ASSUME StreakInv, NEW old \in Names, NEW new \in Names, UpdateStat(old, new)
    PROVE  StreakInv'
<1> USE DEF StreakInv
<1>1. /\ old \in Stored /\ new \notin Stored
      /\ row' = [row EXCEPT ![new] = row[old], ![old] = None]
      /\ Take(new)
      /\ UNCHANGED <<now, reader, alone>>
  BY DEF UpdateStat
<1>2. old # new /\ row[old] \in Row /\ row[old] # None
  BY <1>1, RowFields DEF Stored
<1>3. /\ row' \in [Names -> Row \cup {None}]
      /\ row'[new] = row[old] /\ row'[old] = None
      /\ \A m \in Names \ {old, new} : row'[m] = row[m]
  BY <1>1, <1>2 DEF Types, TypeOK
<1>4. /\ Stored' = (Stored \ {old}) \cup {new}
      /\ \A m \in Stored' \ {new} : m \in Stored /\ row'[m] = row[m]
  BY <1>1, <1>2, <1>3 DEF Stored
<1>5. Types'
  <2>1. \A m \in Stored' : row'[m].last_done <= now
    BY <1>1, <1>3, <1>4 DEF Types
  <2>2. alone' \in BOOLEAN /\ steady' \in BOOLEAN
    BY <1>1, Zenon DEF Types, TypeOK, Take
  <2> QED
    BY <1>1, <1>3, <2>1, <2>2, OwnerTypes
<1>6. ASSUME steady'
      PROVE  steady /\ \A r \in Readers : \A s \in reader[r].left : s.name # new
  BY <1>1, <1>6, Zenon DEF Take
<1>7. ASSUME steady', NEW m \in Stored'
      PROVE  Bounded(m)'
  <2>1. CASE m = new
    <3>1. Bounded(old)
      BY <1>1, <1>6, <1>7
    <3>2. MinTicks * row[old].streak <= Cardinality(Readers) * row[old].last_done
      BY <1>1, <3>1, BoundedRow
    <3>3. row[old].streak \in Nat /\ row[old].last_done \in Nat
      BY <1>1, RowFields
    <3> QED
      BY <1>1, <1>3, <1>5, <1>6, <1>7, <2>1, <3>2, <3>3, TakenName
  <2>2. CASE m # new
    BY <1>1, <1>4, <1>5, <1>6, <1>7, <2>2, BoundedKeeps
  <2> QED
    BY <2>1, <2>2
<1>8. alone' => OneReader'
  BY <1>1 DEF OneReader
<1>9. ASSUME alone', steady'
      PROVE  /\ \A m \in Stored' : Paid(m)'
             /\ \A q \in Readers : \A s \in reader'[q].left : s.name \in Stored' => InTime(q, s)'
  <2>1. alone /\ steady
    BY <1>1, <1>6, <1>9
  <2>2. ASSUME NEW m \in Stored'
        PROVE  Paid(m)'
    BY <1>1, <1>3, <1>4, <2>1, <2>2 DEF Paid
  <2>3. ASSUME NEW q \in Readers, NEW s \in reader'[q].left, s.name \in Stored'
        PROVE  InTime(q, s)'
    <3>1. s \in reader[q].left /\ s.name # new
      BY <1>1, <1>6, <1>9, <2>3
    <3> QED
      BY <1>1, <1>4, <2>1, <2>3, <3>1 DEF InTime
  <2> QED
    BY <2>2, <2>3
<1> QED
  BY <1>5, <1>7, <1>8, <1>9

LEMMA CreateQuotaKeeps ==
    ASSUME StreakInv, NEW n \in Names, CreateQuota(n)
    PROVE  StreakInv'
<1> USE DEF StreakInv
<1> DEFINE new == NewRow
<1>1. /\ n \notin Stored
      /\ row' = [row EXCEPT ![n] = new]
      /\ Take(n)
      /\ UNCHANGED <<now, reader, alone>>
  BY DEF CreateQuota
<1>2. now \in 0 .. MaxTime /\ now \in Nat
  BY QuotaStreakAssumption DEF Types, TypeOK
<1>3. /\ new \in Row
      /\ new.count = 0 /\ new.last_count = 0 /\ new.climbed = 0
      /\ new.streak = 0 /\ new.last_done = now
  BY <1>2, QuotaStreakAssumption DEF NewRow, Row
<1> HIDE DEF new
<1>4. /\ row' \in [Names -> Row \cup {None}]
      /\ row'[n] = new
      /\ \A m \in Names \ {n} : row'[m] = row[m]
  BY <1>1, <1>3 DEF Types, TypeOK
<1>5. \A m \in Stored' \ {n} : m \in Stored /\ row'[m] = row[m]
  BY <1>1, <1>4 DEF Stored
<1>6. Types'
  <2>1. \A m \in Stored' : row'[m].last_done <= now
    BY <1>2, <1>3, <1>4, <1>5 DEF Types
  <2>2. alone' \in BOOLEAN /\ steady' \in BOOLEAN
    BY <1>1, Zenon DEF Types, TypeOK, Take
  <2> QED
    BY <1>1, <1>4, <2>1, <2>2, OwnerTypes
<1>7. ASSUME steady'
      PROVE  steady /\ \A r \in Readers : \A s \in reader[r].left : s.name # n
  BY <1>1, <1>7, Zenon DEF Take
<1>8. ASSUME steady', NEW m \in Stored'
      PROVE  Bounded(m)'
  <2>1. CASE m = n
    <3>1. Cardinality(Readers) \in Nat /\ MinTicks \in Nat
      BY QuotaStreakAssumption, FS_CardinalityType, Least
    <3>2. MinTicks * 0 <= Cardinality(Readers) * now
      BY <1>2, <3>1
    <3> QED
      BY <1>1, <1>2, <1>3, <1>4, <1>6, <1>7, <1>8, <2>1, <3>2, TakenName
  <2>2. CASE m # n
    BY <1>1, <1>5, <1>6, <1>7, <1>8, <2>2, BoundedKeeps
  <2> QED
    BY <2>1, <2>2
<1>9. alone' => OneReader'
  BY <1>1 DEF OneReader
<1>10. ASSUME alone', steady'
       PROVE  /\ \A m \in Stored' : Paid(m)'
              /\ \A q \in Readers : \A s \in reader'[q].left : s.name \in Stored' => InTime(q, s)'
  <2>1. alone /\ steady
    BY <1>1, <1>7, <1>10
  <2>2. ASSUME NEW m \in Stored'
        PROVE  Paid(m)'
    <3>1. CASE m = n
      BY <1>3, <1>4, <3>1 DEF Paid
    <3>2. CASE m # n
      BY <1>5, <2>1, <3>2 DEF Paid
    <3> QED
      BY <3>1, <3>2
  <2>3. ASSUME NEW q \in Readers, NEW s \in reader'[q].left, s.name \in Stored'
        PROVE  InTime(q, s)'
    <3>1. s \in reader[q].left /\ s.name # n
      BY <1>1, <1>7, <1>10, <2>3
    <3> QED
      BY <1>1, <1>5, <2>1, <2>3, <3>1 DEF InTime
  <2> QED
    BY <2>2, <2>3
<1> QED
  BY <1>6, <1>8, <1>9, <1>10

LEMMA DeleteStatKeeps ==
    ASSUME StreakInv, NEW n \in Names, DeleteStat(n)
    PROVE  StreakInv'
<1> USE DEF StreakInv
<1>1. /\ row' = [row EXCEPT ![n] = None]
      /\ UNCHANGED <<now, reader, alone, steady>>
  BY DEF DeleteStat, history
<1>2. row' \in [Names -> Row \cup {None}]
  BY <1>1 DEF Types, TypeOK
<1>3. \A m \in Stored' : m \in Stored /\ row'[m] = row[m]
  BY <1>1 DEF Stored, Types, TypeOK
<1>4. Types'
  <2>1. \A m \in Stored' : row'[m].last_done <= now
    BY <1>3 DEF Types
  <2>2. alone' \in BOOLEAN /\ steady' \in BOOLEAN
    BY <1>1, Zenon DEF Types, TypeOK
  <2> QED
    BY <1>1, <1>2, <2>1, <2>2, OwnerTypes
<1>5. \A m \in Stored' : steady' => Bounded(m)'
  BY <1>1, <1>3, <1>4, BoundedKeeps
<1>6. alone' => OneReader'
  BY <1>1 DEF OneReader
<1>7. alone' /\ steady' =>
         /\ \A m \in Stored' : Paid(m)'
         /\ \A q \in Readers : \A s \in reader'[q].left : s.name \in Stored' => InTime(q, s)'
  BY <1>1, <1>3 DEF Paid, InTime
<1> QED
  BY <1>4, <1>5, <1>6, <1>7

\* Nothing of the invariant grows with the clock.
LEMMA TickKeeps ==
    ASSUME StreakInv, Tick
    PROVE  StreakInv'
<1> USE DEF StreakInv
<1>1. now < MaxTime /\ now' = now + 1 /\ UNCHANGED <<row, reader, alone, steady>>
  BY DEF Tick, history
<1>2. now \in 0 .. MaxTime /\ now + 1 \in 0 .. MaxTime
  BY <1>1, QuotaStreakAssumption DEF Types, TypeOK
<1>3. Stored' = Stored
  BY <1>1 DEF Stored
<1>4. Types'
  <2>1. \A m \in Stored' : row'[m].last_done <= now'
    BY <1>1, <1>2, <1>3, RowFields
  <2>2. \A r \in Readers : reader'[r].since <= now'
    BY <1>1, <1>2 DEF Types, TypeOK
  <2>3. TypeOK'
    BY <1>1, <1>2 DEF Types, TypeOK
  <2> QED
    BY <1>1, <2>1, <2>2, <2>3 DEF Types
<1>5. \A m \in Stored' : steady' => Bounded(m)'
  BY <1>1, <1>3, <1>4, BoundedKeeps
<1>6. alone' => OneReader'
  BY <1>1 DEF OneReader
<1>7. alone' /\ steady' =>
         /\ \A m \in Stored' : Paid(m)'
         /\ \A q \in Readers : \A s \in reader'[q].left : s.name \in Stored' => InTime(q, s)'
  BY <1>1, <1>3 DEF Paid, InTime
<1> QED
  BY <1>4, <1>5, <1>6, <1>7

LEMMA StreakInitOK == Init => StreakInv
<1> SUFFICES ASSUME Init
             PROVE  StreakInv
  OBVIOUS
<1>1. PICK S \in SUBSET Names : row = [n \in Names |-> IF n \in S THEN NewRow ELSE None]
  BY DEF Init
<1>2. now = 0 /\ 0 \in 0 .. MaxTime /\ alone = TRUE /\ steady = TRUE
  BY QuotaStreakAssumption DEF Init
<1> DEFINE new == NewRow
<1>3. /\ new \in Row
      /\ new.count = 0 /\ new.last_count = 0 /\ new.climbed = 0
      /\ new.streak = 0 /\ new.last_done = now
  BY <1>2, QuotaStreakAssumption DEF NewRow, Row
<1> HIDE DEF new
<1>4. /\ row \in [Names -> Row \cup {None}]
      /\ \A n \in Stored : n \in Names /\ row[n] = new
  BY <1>1, <1>3 DEF Stored, new
<1>5. Idle \in [since : 0 .. MaxTime, left : SUBSET Snapshot] /\ Idle.left = {} /\ Idle.since = 0
  BY <1>2 DEF Idle
<1>6. \A r \in Readers : reader[r] = Idle
  BY DEF Init
<1>7. reader \in [Readers -> [since : 0 .. MaxTime, left : SUBSET Snapshot]]
  BY <1>5, <1>6, Zenon DEF Init
<1>8. Types
  <2>1. TypeOK
    BY <1>2, <1>4, <1>5, <1>6 DEF TypeOK
  <2> QED
    BY <1>2, <1>3, <1>4, <1>5, <1>6, <1>7, <2>1 DEF Types
<1>9. ASSUME NEW n \in Stored
      PROVE  Bounded(n)
  <2>1. Stale(n) = {}
    BY <1>5, <1>6 DEF Stale, Awaited
  <2>2. Cardinality(Stale(n)) = 0 /\ row[n].streak = 0 /\ row[n].last_done = 0
    BY <1>2, <1>3, <1>4, <2>1, FS_EmptySet
  <2>3. Cardinality(Readers) \in Nat /\ MinTicks \in Nat
    BY QuotaStreakAssumption, FS_CardinalityType, Least
  <2> QED
    BY <2>2, <2>3 DEF Bounded
<1>10. OneReader
  BY <1>5, <1>6 DEF OneReader
<1>11. \A n \in Stored : Paid(n)
  BY <1>3, <1>4 DEF Paid
<1> QED
  BY <1>5, <1>6, <1>8, <1>9, <1>10, <1>11 DEF StreakInv

LEMMA StreakInductive == StreakInv /\ [Next]_vars => StreakInv'
<1>1. ASSUME StreakInv, UNCHANGED vars
      PROVE  StreakInv'
  <2>1. UNCHANGED <<now, row, reader, alone, steady>> /\ Stored' = Stored
    BY <1>1 DEF vars, Stored
  <2>2. Types'
    BY <1>1, <2>1 DEF StreakInv, Types, TypeOK
  <2>3. steady' => \A m \in Stored' : Bounded(m)'
    BY <1>1, <2>1, <2>2, BoundedKeeps DEF StreakInv
  <2> QED
    BY <1>1, <2>1, <2>2, <2>3 DEF StreakInv, OneReader, Paid, InTime
<1> QED
  BY <1>1, LoadKeeps, UpdateKeeps, FailKeeps, UpdateCountKeeps, UpdateQuotaKeeps,
     UpdateStatKeeps, CreateQuotaKeeps, DeleteStatKeeps, TickKeeps DEF Next

LEMMA StreakAlways == Spec => []StreakInv
BY StreakInitOK, StreakInductive, PTL DEF Spec

-------------------------------------------------------------------------------
(* Theorems.                                                               *)

\* GetStats only updates rows that it has seen due; rows and snapshots keep their types.
THEOREM TypeCorrect == Spec => []TypeOK
<1>1. StreakInv => TypeOK
  BY DEF StreakInv, Types
<1> QED
  BY <1>1, StreakAlways, PTL

\* Requests that do not overlap never credit the same counting twice, since the UPDATE
\* sets last_count to the count that its decision was made on.
THEOREM CreditIsBacked == Spec => []CreditBacked
<1>1. StreakInv => CreditBacked
  <2> SUFFICES ASSUME StreakInv, alone, steady, NEW n \in Stored
               PROVE  row[n].streak * MinQuota <= row[n].climbed
    BY DEF CreditBacked
  <2>1. Paid(n) /\ row[n].streak \in Nat
    BY RowFields DEF StreakInv
  <2> QED
    BY <2>1, Least DEF Paid
<1> QED
  BY <1>1, StreakAlways, PTL

\* However many requests have read a due quota before one of them updates it, the streak
\* has at most one step for each of them and each period.
THEOREM StreakIsBounded == Spec => []StreakBound
<1>1. StreakInv => StreakBound
  <2> SUFFICES ASSUME StreakInv, steady, NEW n \in Stored
               PROVE  row[n].streak * MinTicks <= Cardinality(Readers) * now
    BY DEF StreakBound
  <2> DEFINE k == Cardinality(Readers)
             x == row[n].streak
             L == row[n].last_done
  <2>1. MinTicks * x <= k * L
    BY BoundedRow DEF StreakInv
  <2>2. x \in Nat /\ L \in Nat /\ now \in Nat /\ L <= now
    BY RowFields DEF StreakInv
  <2>3. k \in Nat /\ MinTicks \in Nat
    BY QuotaStreakAssumption, FS_CardinalityType, Least
  <2> HIDE DEF k, x, L
  <2>4. k * L <= k * now
    BY <2>2, <2>3, TimesMonotone
  <2>5. /\ x * MinTicks = MinTicks * x
        /\ MinTicks * x \in Int /\ k * L \in Int /\ k * now \in Int
    BY <2>2, <2>3, SMTT(30)
  <2>6. x * MinTicks <= k * now
    BY <2>1, <2>4, <2>5
  <2> QED
    BY <2>6 DEF k, x
<1> QED
  BY <1>1, StreakAlways, PTL

\* Requests that do not overlap move a streak on once in a period: the row they update is
\* the one they have seen, and nobody has done it since.
THEOREM OnceAPeriod == Spec => OncePerPeriodAlone
<1> DEFINE Step == \A n \in Names : alone /\ steady /\ row[n] # None /\ row'[n] # None =>
                       (row'[n].streak > row[n].streak => now - row[n].last_done >= MinTicks)
<1>1. StreakInv /\ [Next]_vars => [Step]_vars
  <2> SUFFICES ASSUME StreakInv, Next, alone, steady, NEW n \in Stored, n \in Stored',
                      row'[n].streak > row[n].streak
               PROVE  now - row[n].last_done >= MinTicks
    BY DEF Stored
  <2>1. /\ Types
        /\ row[n].streak \in Nat /\ row[n].last_done \in Nat /\ now \in Nat
    BY RowFields DEF StreakInv
  <2>2. CASE \E r \in Readers : \E s \in reader[r].left : UpdateQuotaStreak(r, s)
    <3>1. PICK r \in Readers : \E s \in reader[r].left : UpdateQuotaStreak(r, s)
      BY <2>2
    <3>2. PICK s \in reader[r].left : UpdateQuotaStreak(r, s)
      BY <3>1
    <3>3. s.name = n
      <4> SUFFICES ASSUME s.name # n
                   PROVE  FALSE
        OBVIOUS
      <4>1. row'[n] = row[n]
        <5>1. \A m \in Stored' \ {s.name} : row'[m] = row[m]
          BY <2>1, <3>2, UpdateFacts
        <5> QED
          BY <5>1
      <4> QED
        BY <2>1, <4>1
    <3>4. reader[r].since - row[n].last_done >= MinTicks
      BY <3>3 DEF StreakInv, InTime
    <3>5. reader[r].since <= now /\ reader[r].since \in Int /\ MinTicks \in Int
      BY <2>1, Least DEF Types
    <3> QED
      BY <2>1, <3>4, <3>5
  <2>3. CASE \/ \E r \in Readers : Load(r) \/ Fail(r)
             \/ \E m \in Names, k \in Quotas, h \in Hours : UpdateQuota(m, k, h)
             \/ \E m \in Names, c \in Counts : UpdateCount(m, c)
             \/ \E m \in Names : DeleteStat(m)
             \/ Tick
    <3>1. row'[n].streak = row[n].streak
      <4>1. ASSUME NEW m \in Names, NEW k \in Quotas, NEW h \in Hours, UpdateQuota(m, k, h)
            PROVE  row'[n].streak = row[n].streak
        BY <2>1, <4>1, RowFields DEF UpdateQuota, Row, Types, TypeOK
      <4>2. ASSUME NEW m \in Names, NEW c \in Counts, UpdateCount(m, c)
            PROVE  row'[n].streak = row[n].streak
        BY <2>1, <4>2, RowFields DEF UpdateCount, Row, Types, TypeOK
      <4>3. ASSUME NEW m \in Names, DeleteStat(m)
            PROVE  row'[n].streak = row[n].streak
        BY <2>1, <4>3 DEF DeleteStat, Types, TypeOK, Stored
      <4>4. ASSUME row' = row
            PROVE  row'[n].streak = row[n].streak
        BY <4>4
      <4> QED
        BY <2>3, <4>1, <4>2, <4>3, <4>4 DEF Load, Fail, Tick
    <3> QED
      BY <2>1, <3>1
  <2>4. CASE \E m, new \in Names : UpdateStat(m, new)
    BY <2>1, <2>4 DEF UpdateStat, Types, TypeOK, Stored
  <2>5. CASE \E m \in Names : CreateQuota(m)
    BY <2>1, <2>5 DEF CreateQuota, Types, TypeOK, Stored
  <2> QED
    BY <2>2, <2>3, <2>4, <2>5 DEF Next
<1> QED
  BY <1>1, StreakAlways, PTL DEF Spec, OncePerPeriodAlone
===============================================================================
