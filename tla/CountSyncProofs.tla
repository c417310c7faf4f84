--------------------------- MODULE CountSyncProofs ----------------------------
(***************************************************************************)
(* Theorems about CountSync for any names, counts, requests and bounds.    *)
(***************************************************************************)
EXTENDS CountSync, TLAPS

\* The field of a stat shows what calculatePresentQuotaProgress computes.
FieldInStep == \A s \in OnPage : page[s].input = Shown(page[s])

\* When the page is closed, nothing of it is left but requests nobody waits for.
ClosedIsEmpty ==
    ~open => /\ page = NoPage
             /\ editor = NoEditor
             /\ \A q \in Slots : req[q] # Idle => req[q].at = "sent" /\ ~req[q].paged

Creating(q) == req[q] # Idle /\ req[q].what.kind = "create"

\* A stat that is being created is on no page, and in the database it is at most
\* when the answer is on its way; no other request creates it.
NewStats ==
    /\ \A s \in OnPage : s <= asked
    /\ \A n \in Stored : row[n].stat <= asked
    /\ \A q \in Slots : Creating(q) =>
          /\ req[q].what.stat <= asked
          /\ req[q].what.stat \notin OnPage
          /\ req[q].at # "answered" => \A n \in Stored : row[n].stat # req[q].what.stat
          /\ \A p \in Slots \ {q} : Creating(p) => req[p].what.stat # req[q].what.stat

IndInv ==
    /\ TypeOK
    /\ FieldInStep
    /\ ClosedIsEmpty
    /\ NewStats

-------------------------------------------------------------------------------
(* Types.                                                                  *)

LEMMA CountsAreInts == Counts \subseteq Int
BY CountSyncAssumption

LEMMA RequestKinds ==
    ASSUME NEW w \in Request
    PROVE  /\ w.kind \in {"counts", "save", "delete", "create"}
           /\ w.kind = "counts" => w.body \in UNION {[N -> Counts] : N \in SUBSET Names}
           /\ w.kind = "save" => w.editor \in Editors /\ w.old \in Names /\ w.new \in Names
           /\ w.kind = "delete" => w.editor \in Editors /\ w.name \in Names
           /\ w.kind = "create" => w.name \in Names /\ w.stat \in Stats
BY DEF Request

LEMMA ReqStates ==
    ASSUME NEW r \in ReqState
    PROVE  /\ r.at \in {"idle", "sent", "refresh", "answered"}
           /\ r.at = "idle" <=> r = Idle
           /\ r # Idle => r.what \in Request
           /\ r.at = "sent" => r.paged \in BOOLEAN
           /\ WithoutPage(r) \in ReqState
           /\ r # Idle => \A b \in BOOLEAN : [at |-> "sent", what |-> r.what, paged |-> b] \in ReqState
           /\ r # Idle => [at |-> "refresh", what |-> r.what] \in ReqState
           /\ r # Idle => [at |-> "answered", what |-> r.what] \in ReqState
<1>1. CASE r = Idle
  BY <1>1 DEF ReqState, Idle, WithoutPage
<1>2. CASE r \in [at : {"sent"}, what : Request, paged : BOOLEAN]
  <2>1. /\ r = [at |-> "sent", what |-> r.what, paged |-> r.paged]
        /\ r.what \in Request /\ r.paged \in BOOLEAN
    BY <1>2
  <2>2. r # Idle
    BY <2>1 DEF Idle
  <2>3. \A b \in BOOLEAN : [at |-> "sent", what |-> r.what, paged |-> b] \in ReqState
    BY <2>1 DEF ReqState
  <2>4. QED
    BY <2>1, <2>2, <2>3 DEF ReqState, WithoutPage
<1>3. CASE r \in [at : {"refresh"}, what : Request]
  BY <1>3 DEF ReqState, Idle, WithoutPage
<1>4. CASE r \in [at : {"answered"}, what : Request]
  BY <1>4 DEF ReqState, Idle, WithoutPage
<1>5. QED
  BY <1>1, <1>2, <1>3, <1>4 DEF ReqState

LEMMA BodiesAreRequests ==
    ASSUME TypeOK, NEW f \in Bodies
    PROVE  [kind |-> "counts", body |-> f] \in Request
<1>1. {page[s].name : s \in Changed} \in SUBSET Names
  BY CountSyncAssumption DEF TypeOK, Changed, OnPage, PageStat
<1>2. f \in UNION {[N -> Counts] : N \in SUBSET Names}
  BY <1>1 DEF Bodies
<1>3. QED
  BY <1>2 DEF Request

LEMMA SavedOK ==
    ASSUME TypeOK
    PROVE  Saved \in [Stats -> PageStat \cup {None}]
<1>1. ASSUME NEW s \in Changed
      PROVE  [page[s] EXCEPT !.progress = @ + page[s].present - page[s].count,
                             !.count = page[s].present] \in PageStat
  <2>1. page[s] \in PageStat
    BY <1>1 DEF TypeOK, Changed, OnPage
  <2>2. page[s].progress \in Int /\ page[s].present \in Int /\ page[s].count \in Int
    BY <2>1, CountsAreInts DEF PageStat
  <2>3. page[s].progress + page[s].present - page[s].count \in Int
    BY <2>2
  <2>4. QED
    BY <2>1, <2>3 DEF PageStat
<1>2. QED
  BY <1>1 DEF Saved, TypeOK

LEMMA FetchedOK ==
    ASSUME TypeOK, HandleFetchedData
    PROVE  /\ page' \in [Stats -> PageStat \cup {None}]
           /\ editor' \in [Editors -> Editor \cup {None}]
<1>1. \A s \in Stats, n \in Stored : row[n] \in Row /\ n \in Names
  BY DEF TypeOK, Stored
<1>2. PICK last \in [Stored -> Counts] :
         page' = [s \in Stats |->
                     IF \E n \in Stored : row[n].stat = s
                     THEN LET n == CHOOSE n \in Stored : row[n].stat = s
                          IN  NewPageStat(n, row[n].count, row[n].count - last[n])
                     ELSE None]
  BY DEF HandleFetchedData
<1>3. ASSUME NEW s \in Stats, NEW n \in Stored
      PROVE  NewPageStat(n, row[n].count, row[n].count - last[n]) \in PageStat
  <2>1. row[n].count \in Counts /\ last[n] \in Counts /\ n \in Names
    BY <1>1, <1>2 DEF Row
  <2>2. row[n].count \in Int /\ last[n] \in Int
    BY <2>1, CountsAreInts
  <2>3. row[n].count - last[n] \in Int
    BY <2>2
  <2>4. QED
    BY <2>1, <2>3 DEF NewPageStat, PageStat
<1>4. \A s \in Stats : page'[s] \in PageStat \cup {None}
  BY <1>2, <1>3
<1>5. \A n \in Stored : [updater |-> n, deleter |-> n] \in Editor
  BY <1>1 DEF Editor, Stored
<1>6. QED
  BY <1>2, <1>4, <1>5 DEF HandleFetchedData

-------------------------------------------------------------------------------
(* The invariant.                                                          *)

LEMMA InitOK == Init => IndInv
<1>1. SUFFICES ASSUME Init PROVE IndInv
  OBVIOUS
<1>2. TypeOK
  <2>1. asked \in 0 .. MaxStats /\ edits \in 0 .. MaxEdits
    BY <1>1, CountSyncAssumption DEF Init
  <2>2. req \in [Slots -> ReqState]
    BY <1>1 DEF Init, ReqState
  <2>3. counted \in [Stats -> Counts]
    BY <1>1, CountSyncAssumption DEF Init
  <2>4. QED
    BY <1>1, <2>1, <2>2, <2>3 DEF Init, TypeOK, NoPage, NoEditor
<1>3. OnPage = {} /\ Stored = {} /\ \A q \in Slots : req[q] = Idle
  BY <1>1 DEF Init, OnPage, Stored, NoPage
<1>4. QED
  BY <1>1, <1>2, <1>3 DEF IndInv, FieldInStep, ClosedIsEmpty, NewStats, Creating, Init

\* A request that moves on, is forgotten or sent, and is not new to the stat it creates.
LEMMA MoveKeepsNewStats ==
    ASSUME IndInv, NEW q \in Slots, NEW r \in ReqState,
           req' = [req EXCEPT ![q] = r],
           asked' = asked,
           OnPage' \subseteq OnPage,
           \A n \in Stored' : \E m \in Stored : row'[n].stat = row[m].stat,
           r # Idle /\ r.what.kind = "create" =>
               /\ Creating(q)
               /\ r.what.stat = req[q].what.stat
               /\ req[q].at = "answered" => r.at = "answered"
    PROVE  NewStats'
<1>1. req' \in [Slots -> ReqState] /\ req'[q] = r /\ \A p \in Slots \ {q} : req'[p] = req[p]
  BY DEF IndInv, TypeOK
<1>2. \A p \in Slots : Creating(p)' =>
         /\ Creating(p)
         /\ req'[p].what.stat = req[p].what.stat
         /\ req[p].at = "answered" => req'[p].at = "answered"
  BY <1>1 DEF Creating
<1>3. NewStats
  BY DEF IndInv
<1>4. \A s \in OnPage' : s <= asked'
  BY <1>3 DEF NewStats
<1>5. \A n \in Stored' : row'[n].stat <= asked'
  BY <1>3 DEF NewStats
<1>6. ASSUME NEW p \in Slots, Creating(p)'
      PROVE  /\ req'[p].what.stat <= asked'
             /\ req'[p].what.stat \notin OnPage'
             /\ req'[p].at # "answered" => \A n \in Stored' : row'[n].stat # req'[p].what.stat
             /\ \A o \in Slots \ {p} : Creating(o)' => req'[o].what.stat # req'[p].what.stat
  BY <1>2, <1>3, <1>6 DEF NewStats
<1>7. QED
  BY <1>4, <1>5, <1>6 DEF NewStats

LEMMA FetchedKeeps ==
    ASSUME IndInv, HandleFetchedData
    PROVE  IndInv'
<1>1. TypeOK /\ ~open /\ open' /\ UNCHANGED <<row, asked, edits, req, counted>>
  BY DEF IndInv, HandleFetchedData
<1>2. TypeOK'
  BY <1>1, FetchedOK DEF TypeOK, HandleFetchedData
<1>3. PICK last \in [Stored -> Counts] :
         page' = [s \in Stats |->
                     IF \E n \in Stored : row[n].stat = s
                     THEN LET n == CHOOSE n \in Stored : row[n].stat = s
                          IN  NewPageStat(n, row[n].count, row[n].count - last[n])
                     ELSE None]
  BY DEF HandleFetchedData
<1>4. ASSUME NEW s \in OnPage'
      PROVE  \E n \in Stored : /\ row[n].stat = s
                               /\ page'[s] = NewPageStat(n, row[n].count, row[n].count - last[n])
  BY <1>3 DEF OnPage
<1>5. FieldInStep'
  <2>1. SUFFICES ASSUME NEW s \in OnPage' PROVE page'[s].input = Shown(page'[s])
    BY DEF FieldInStep, Shown
  <2>2. PICK n \in Stored : page'[s] = NewPageStat(n, row[n].count, row[n].count - last[n])
    BY <1>4
  <2>3. row[n].count \in Int /\ last[n] \in Int
    BY <1>1, CountsAreInts DEF TypeOK, Stored, Row
  <2>4. QED
    BY <2>2, <2>3 DEF NewPageStat, Shown
<1>6. ClosedIsEmpty'
  BY <1>1 DEF ClosedIsEmpty
<1>7. NewStats'
  <2>1. NewStats /\ \A q \in Slots : req[q] # Idle => req[q].at = "sent"
    BY <1>1 DEF IndInv, ClosedIsEmpty
  <2>2. Stored' = Stored /\ \A s \in OnPage' : \E n \in Stored : row[n].stat = s
    BY <1>1, <1>4 DEF Stored
  <2>3. \A q \in Slots : Creating(q) => req[q].what.stat \notin OnPage'
    BY <2>1, <2>2 DEF NewStats, Creating
  <2>4. \A s \in OnPage' : s <= asked
    BY <2>1, <2>2 DEF NewStats
  <2>5. QED
    BY <1>1, <2>1, <2>2, <2>3, <2>4 DEF NewStats, Creating
<1>8. QED
  BY <1>2, <1>5, <1>6, <1>7 DEF IndInv

LEMMA UpdateCountKeeps ==
    ASSUME IndInv, NEW s \in Stats, NEW x \in Progress, UpdateCount(s, x)
    PROVE  IndInv'
<1>1. /\ TypeOK /\ page[s] \in PageStat /\ s \in OnPage
      /\ UNCHANGED <<row, asked, edits, open, editor, req, calm>>
  BY DEF IndInv, TypeOK, UpdateCount, OnPage
<1>2. x \in Int
  BY CountsAreInts DEF Progress
<1>3. PICK present \in Counts :
         /\ present = x - page[s].progress + page[s].count
         /\ page' = [page EXCEPT ![s].input = x, ![s].present = present]
         /\ counted' = [counted EXCEPT ![s] = present]
  BY DEF UpdateCount
<1>4. /\ page'[s] = [page[s] EXCEPT !.input = x, !.present = present]
      /\ \A t \in Stats \ {s} : page'[t] = page[t]
  BY <1>1, <1>3 DEF TypeOK
<1>5. page'[s] \in PageStat
  BY <1>1, <1>2, <1>4 DEF PageStat
<1>6. page' \in [Stats -> PageStat \cup {None}]
  BY <1>1, <1>3, <1>5 DEF TypeOK
<1>7. TypeOK'
  BY <1>1, <1>3, <1>6 DEF TypeOK
<1>8. OnPage' = OnPage
  BY <1>1, <1>4, <1>5, CountSyncAssumption DEF OnPage
<1>9. FieldInStep'
  <2>1. page[s].progress \in Int /\ page[s].count \in Int /\ present \in Int
    BY <1>1, CountsAreInts DEF PageStat
  <2>2. /\ page'[s].input = x /\ page'[s].present = present
        /\ page'[s].progress = page[s].progress /\ page'[s].count = page[s].count
    BY <1>1, <1>4 DEF PageStat
  <2>3. page'[s].input = Shown(page'[s])
    BY <1>2, <1>3, <2>1, <2>2 DEF Shown
  <2>4. QED
    BY <1>4, <1>8, <2>3 DEF FieldInStep, IndInv, OnPage, Shown
<1>10. ClosedIsEmpty'
  BY <1>1 DEF ClosedIsEmpty, IndInv, NoPage, OnPage
<1>11. NewStats'
  BY <1>1, <1>8 DEF IndInv, NewStats, Creating, Stored
<1>12. QED
  BY <1>7, <1>9, <1>10, <1>11 DEF IndInv

\* The counts are taken for saved: a field shows the same before and after.
LEMMA SavedInStep ==
    ASSUME IndInv, page' = Saved
    PROVE  /\ page' \in [Stats -> PageStat \cup {None}]
           /\ OnPage' = OnPage
           /\ FieldInStep'
           /\ \A s \in OnPage : page'[s].present = page[s].present /\ page'[s].input = page[s].input
<1>1. TypeOK /\ FieldInStep /\ page' \in [Stats -> PageStat \cup {None}]
  BY SavedOK DEF IndInv
<1>2. \A s \in OnPage : page[s] \in PageStat /\ s \in Stats
  BY <1>1 DEF TypeOK, OnPage
<1>3. \A s \in OnPage : page'[s] \in PageStat
  <2>1. SUFFICES ASSUME NEW s \in OnPage, s \in Changed PROVE page'[s] \in PageStat
    BY <1>2 DEF Saved
  <2>2. page'[s] = [page[s] EXCEPT !.progress = @ + page[s].present - page[s].count,
                                   !.count = page[s].present]
    BY <1>2, <2>1 DEF Saved
  <2>3. page[s].progress \in Int /\ page[s].present \in Int /\ page[s].count \in Int
    BY <1>2, CountsAreInts DEF PageStat
  <2>4. page[s].progress + page[s].present - page[s].count \in Int
    BY <2>3
  <2>5. QED
    BY <1>2, <2>2, <2>4 DEF PageStat
<1>4. OnPage' = OnPage
  <2>1. \A s \in Stats \ OnPage : page'[s] = None
    BY DEF Saved, Changed, OnPage
  <2>2. QED
    BY <1>2, <1>3, <2>1, CountSyncAssumption DEF OnPage
<1>5. ASSUME NEW s \in OnPage
      PROVE  /\ page'[s].input = Shown(page'[s])
             /\ page'[s].present = page[s].present
             /\ page'[s].input = page[s].input
  <2>1. page[s].progress \in Int /\ page[s].present \in Int /\ page[s].count \in Int
    BY <1>2, CountsAreInts DEF PageStat
  <2>2. page[s].input = Shown(page[s])
    BY <1>1 DEF FieldInStep
  <2>3. CASE s \in Changed
    <3>1. page'[s] = [page[s] EXCEPT !.progress = @ + page[s].present - page[s].count,
                                     !.count = page[s].present]
      BY <1>2, <2>3 DEF Saved
    <3>2. /\ page'[s].input = page[s].input
          /\ page'[s].present = page[s].present
          /\ page'[s].progress = page[s].progress + page[s].present - page[s].count
          /\ page'[s].count = page[s].present
      BY <1>2, <3>1 DEF PageStat
    <3>3. QED
      BY <2>1, <2>2, <3>2 DEF Shown
  <2>4. CASE s \notin Changed
    BY <1>2, <2>2, <2>4 DEF Saved, Shown
  <2>5. QED
    BY <2>3, <2>4
<1>6. QED
  BY <1>1, <1>4, <1>5 DEF FieldInStep, Shown

LEMMA TickKeeps ==
    ASSUME IndInv, NEW q \in Slots, Tick(q)
    PROVE  IndInv'
<1>1. PICK f \in Bodies :
         /\ req' = [req EXCEPT ![q] = [at |-> "sent", what |-> [kind |-> "counts", body |-> f],
                                       paged |-> TRUE]]
         /\ calm' = (calm /\ ~Clash([kind |-> "counts", body |-> f]))
  BY DEF Tick, Send
<1>2. /\ TypeOK /\ page' = Saved /\ Changed # {} /\ req[q] = Idle
      /\ UNCHANGED <<row, asked, edits, open, editor, counted>>
  BY DEF Tick, IndInv
<1>3. [at |-> "sent", what |-> [kind |-> "counts", body |-> f], paged |-> TRUE] \in ReqState
  BY <1>2, BodiesAreRequests DEF ReqState
<1>4. TypeOK'
  <2>1. req' \in [Slots -> ReqState]
    BY <1>1, <1>2, <1>3 DEF TypeOK
  <2>2. calm' \in BOOLEAN
    BY <1>1, <1>2 DEF TypeOK
  <2>3. QED
    BY <1>2, <2>1, <2>2, SavedInStep DEF TypeOK
<1>5. FieldInStep'
  BY <1>2, SavedInStep
<1>6. open
  BY <1>2 DEF IndInv, ClosedIsEmpty, NoPage, Changed, OnPage
<1>7. ClosedIsEmpty'
  BY <1>2, <1>6 DEF ClosedIsEmpty
<1>8. NewStats'
  BY <1>1, <1>2, <1>3, SavedInStep, MoveKeepsNewStats DEF Stored
<1>9. QED
  BY <1>4, <1>5, <1>7, <1>8 DEF IndInv

\* What is left of the requests when the page goes.
LEMMA ClosedKeeps ==
    ASSUME IndInv, ClosePage, calm' \in BOOLEAN,
           req' \in [Slots -> ReqState],
           \A p \in Slots : req'[p] # Idle =>
               /\ req'[p].at = "sent" /\ ~req'[p].paged
               /\ \/ req'[p].what.kind = "counts"
                  \/ req[p] # Idle /\ req[p].at = "sent" /\ req'[p].what = req[p].what
    PROVE  IndInv'
<1>1. /\ TypeOK /\ NewStats /\ open' = FALSE /\ page' = NoPage /\ editor' = NoEditor
      /\ UNCHANGED <<row, asked, edits, counted>>
  BY DEF ClosePage, IndInv
<1>2. OnPage' = {} /\ Stored' = Stored
  BY <1>1 DEF OnPage, NoPage, Stored
<1>3. TypeOK'
  BY <1>1 DEF TypeOK, NoPage, NoEditor
<1>4. FieldInStep' /\ ClosedIsEmpty'
  BY <1>1, <1>2 DEF FieldInStep, ClosedIsEmpty
<1>5. \A p \in Slots : Creating(p)' =>
         Creating(p) /\ req'[p].what.stat = req[p].what.stat /\ req[p].at # "answered"
  BY DEF Creating
<1>6. NewStats'
  BY <1>1, <1>2, <1>5 DEF NewStats
<1>7. QED
  BY <1>3, <1>4, <1>6 DEF IndInv

LEMMA LeaveKeeps ==
    ASSUME IndInv, Leave \/ Killed
    PROVE  IndInv'
<1>1. TypeOK /\ ClosePage /\ calm' \in BOOLEAN
  BY DEF IndInv, TypeOK, Leave, Killed
<1>2. \A p \in Slots : /\ req[p] \in ReqState /\ WithoutPage(req[p]) \in ReqState
                       /\ req[p].at = "sent" => req[p] # Idle
  BY <1>1, ReqStates DEF TypeOK, Idle
<1>3. \A p \in Slots : WithoutPage(req[p]) # Idle =>
         /\ WithoutPage(req[p]).at = "sent" /\ ~WithoutPage(req[p]).paged
         /\ req[p] # Idle /\ req[p].at = "sent" /\ WithoutPage(req[p]).what = req[p].what
  BY <1>2 DEF WithoutPage
<1>4. CASE req' = [p \in Slots |-> WithoutPage(req[p])]
  BY <1>1, <1>2, <1>3, <1>4, ClosedKeeps
<1>5. ASSUME NEW q \in Slots, NEW f \in Bodies,
             req' = [[p \in Slots |-> WithoutPage(req[p])] EXCEPT ![q] =
                       [at |-> "sent", what |-> [kind |-> "counts", body |-> f],
                        paged |-> FALSE]]
      PROVE  IndInv'
  <2>1. [at |-> "sent", what |-> [kind |-> "counts", body |-> f], paged |-> FALSE] \in ReqState
    BY <1>1, BodiesAreRequests DEF ReqState
  <2>2. /\ req'[q] = [at |-> "sent", what |-> [kind |-> "counts", body |-> f], paged |-> FALSE]
        /\ \A p \in Slots \ {q} : req'[p] = WithoutPage(req[p])
        /\ req' \in [Slots -> ReqState]
    BY <1>2, <1>5, <2>1
  <2>3. QED
    BY <1>1, <1>3, <2>2, ClosedKeeps
<1>6. QED
  BY <1>4, <1>5 DEF Leave, Killed

\* A step that changes nothing of the page.
LEMMA PageKept ==
    ASSUME IndInv, UNCHANGED <<open, page, editor>>
    PROVE  FieldInStep' /\ OnPage' = OnPage /\ (~open' => page' = NoPage /\ editor' = NoEditor)
BY DEF IndInv, FieldInStep, ClosedIsEmpty, Shown, OnPage

\* An edit needs an editor, or the button of a page that is there.
LEMMA EditOpen ==
    ASSUME IndInv, NEW q \in Slots, NEW n \in Names, NEW e \in Editors,
           StartCreate(q, n) \/ StartSave(q, e, n) \/ StartDelete(q, e)
    PROVE  open
BY DEF IndInv, ClosedIsEmpty, NoEditor, StartCreate, StartSave, StartDelete

LEMMA StartCreateKeeps ==
    ASSUME IndInv, NEW q \in Slots, NEW n \in Names, StartCreate(q, n)
    PROVE  IndInv'
<1> DEFINE r == [at |-> "sent", what |-> [kind |-> "create", name |-> n, stat |-> asked + 1],
                 paged |-> TRUE]
<1>1. /\ TypeOK /\ NewStats /\ open /\ asked' = asked + 1 /\ asked < MaxStats /\ edits < MaxEdits
      /\ edits' = edits + 1 /\ req' = [req EXCEPT ![q] = r] /\ calm' \in BOOLEAN
      /\ UNCHANGED <<row, open, page, editor, counted>>
  BY DEF IndInv, TypeOK, StartCreate, Send
<1>2. /\ asked \in Int /\ asked' \in 0 .. MaxStats /\ edits' \in 0 .. MaxEdits
      /\ asked + 1 \in Stats
  BY <1>1, CountSyncAssumption DEF TypeOK, Stats
<1>3. r \in ReqState /\ r # Idle
  BY <1>2 DEF ReqState, Request, Idle
<1>4. req' \in [Slots -> ReqState] /\ req'[q] = r /\ \A p \in Slots \ {q} : req'[p] = req[p]
  BY <1>1, <1>3 DEF TypeOK
<1>5. TypeOK'
  BY <1>1, <1>2, <1>4 DEF TypeOK
<1>6. FieldInStep' /\ OnPage' = OnPage /\ ClosedIsEmpty'
  BY <1>1, PageKept DEF ClosedIsEmpty
<1>7. /\ \A s \in OnPage : s \in Int /\ s <= asked
      /\ \A m \in Stored : row[m].stat \in Int /\ row[m].stat <= asked
      /\ \A p \in Slots : Creating(p) => req[p].what.stat \in Int /\ req[p].what.stat <= asked
  <2>1. \A p \in Slots : Creating(p) => req[p].what.stat \in Stats
    BY <1>1, ReqStates, RequestKinds DEF TypeOK, Creating
  <2>2. QED
    BY <1>1, <2>1 DEF NewStats, TypeOK, Stored, Row, OnPage, Stats
<1>8. /\ Stored' = Stored
      /\ \A p \in Slots \ {q} : Creating(p)' <=> Creating(p)
      /\ req'[q].what.stat = asked + 1
  BY <1>1, <1>4 DEF Stored, Creating
<1>9. NewStats'
  <2>1. \A s \in OnPage' : s <= asked'
    BY <1>1, <1>2, <1>6, <1>7
  <2>2. \A m \in Stored' : row'[m].stat <= asked'
    BY <1>1, <1>2, <1>7, <1>8
  <2>3. ASSUME NEW p \in Slots, Creating(p)'
        PROVE  /\ req'[p].what.stat <= asked'
               /\ req'[p].what.stat \notin OnPage'
               /\ req'[p].at # "answered" =>
                     \A m \in Stored' : row'[m].stat # req'[p].what.stat
               /\ \A o \in Slots \ {p} : Creating(o)' => req'[o].what.stat # req'[p].what.stat
    <3>1. CASE p = q
      BY <1>1, <1>2, <1>4, <1>6, <1>7, <1>8, <3>1
    <3>2. CASE p # q
      <4>1. Creating(p) /\ req'[p] = req[p]
        BY <1>4, <1>8, <2>3, <3>2
      <4>2. req'[p].what.stat <= asked' /\ req'[p].what.stat # asked + 1
        BY <1>1, <1>2, <1>7, <4>1
      <4>3. /\ req'[p].what.stat \notin OnPage'
            /\ req'[p].at # "answered" => \A m \in Stored' : row'[m].stat # req'[p].what.stat
        BY <1>1, <1>6, <1>8, <4>1 DEF NewStats
      <4>4. \A o \in Slots \ {p} : Creating(o)' => req'[o].what.stat # req'[p].what.stat
        BY <1>1, <1>4, <1>8, <4>1, <4>2 DEF NewStats
      <4>5. QED
        BY <4>2, <4>3, <4>4
    <3>3. QED
      BY <3>1, <3>2
  <2>4. QED
    BY <2>1, <2>2, <2>3 DEF NewStats
<1>10. QED
  BY <1>5, <1>6, <1>9 DEF IndInv

LEMMA StartEditKeeps ==
    ASSUME IndInv, NEW q \in Slots, NEW e \in Editors, NEW new \in Names,
           StartSave(q, e, new) \/ StartDelete(q, e)
    PROVE  IndInv'
<1>1. /\ TypeOK /\ open /\ editor[e] \in Editor
      /\ edits < MaxEdits /\ edits' = edits + 1 /\ calm' \in BOOLEAN
      /\ UNCHANGED <<row, asked, open, page, editor, counted>>
  BY EditOpen DEF IndInv, TypeOK, StartSave, StartDelete
<1>2. PICK w \in Request :
         /\ req' = [req EXCEPT ![q] = [at |-> "sent", what |-> w, paged |-> TRUE]]
         /\ w.kind # "create"
  <2>1. CASE StartSave(q, e, new)
    <3>1. [kind |-> "save", editor |-> e, old |-> editor[e].updater, new |-> new] \in Request
      BY <1>1 DEF Request, Editor
    <3>2. QED
      BY <2>1, <3>1 DEF StartSave, Send
  <2>2. CASE StartDelete(q, e)
    <3>1. [kind |-> "delete", editor |-> e, name |-> editor[e].deleter] \in Request
      BY <1>1 DEF Request, Editor
    <3>2. QED
      BY <2>2, <3>1 DEF StartDelete, Send
  <2>3. QED
    BY <2>1, <2>2
<1>3. [at |-> "sent", what |-> w, paged |-> TRUE] \in ReqState
  BY DEF ReqState
<1>4. edits' \in 0 .. MaxEdits
  BY <1>1, CountSyncAssumption DEF TypeOK
<1>5. TypeOK'
  BY <1>1, <1>2, <1>3, <1>4 DEF TypeOK
<1>6. FieldInStep' /\ OnPage' = OnPage /\ ClosedIsEmpty'
  BY <1>1, PageKept DEF ClosedIsEmpty
<1>7. NewStats'
  BY <1>1, <1>2, <1>3, <1>6, MoveKeepsNewStats DEF Stored
<1>8. QED
  BY <1>5, <1>6, <1>7 DEF IndInv

\* A request moves on, and with it perhaps the rows.
LEMMA RequestKeeps ==
    ASSUME IndInv, NEW q \in Slots, req[q] # Idle, NEW r \in ReqState,
           req' = [req EXCEPT ![q] = r],
           UNCHANGED <<asked, edits, open, page, editor, counted>>,
           calm' \in BOOLEAN,
           row' \in [Names -> Row \cup {None}],
           r # Idle => /\ r.what.kind = "create" =>
                             /\ Creating(q) /\ r.what.stat = req[q].what.stat
                             /\ req[q].at = "answered" => r.at = "answered"
                       /\ open \/ (r.at = "sent" /\ ~r.paged)
    PROVE  /\ TypeOK' /\ FieldInStep' /\ ClosedIsEmpty'
           /\ (\A n \in Stored' : \E m \in Stored : row'[n].stat = row[m].stat) => NewStats'
<1>1. TypeOK
  BY DEF IndInv
<1>2. TypeOK'
  BY <1>1 DEF TypeOK
<1>3. FieldInStep' /\ OnPage' = OnPage /\ (~open' => page' = NoPage /\ editor' = NoEditor)
  BY PageKept
<1>4. req'[q] = r /\ \A p \in Slots \ {q} : req'[p] = req[p]
  BY <1>1 DEF TypeOK
<1>5. ClosedIsEmpty'
  BY <1>3, <1>4 DEF ClosedIsEmpty, IndInv
<1>6. QED
  BY <1>2, <1>3, <1>5, MoveKeepsNewStats

\* What happens to a request when it has been dealt with.
LEMMA AnswerIs ==
    ASSUME IndInv, NEW q \in Slots, req[q].at = "sent", Answer(q)
    PROVE  \E r \in ReqState :
              /\ req' = [req EXCEPT ![q] = r]
              /\ r # Idle => r.at = "answered" /\ r.what = req[q].what /\ open
<1>1. req[q] \in ReqState /\ req[q] # Idle
  BY DEF IndInv, TypeOK, Idle
<1>2. Idle \in ReqState /\ [at |-> "answered", what |-> req[q].what] \in ReqState
  BY <1>1, ReqStates DEF ReqState
<1>3. req[q].paged => open
  BY <1>1 DEF IndInv, ClosedIsEmpty
<1>4. CASE req[q].paged
  <2>1. req' = [req EXCEPT ![q] = [at |-> "answered", what |-> req[q].what]]
    BY <1>4 DEF Answer
  <2>2. QED
    BY <1>2, <1>3, <1>4, <2>1
<1>5. CASE ~req[q].paged
  <2>1. req' = [req EXCEPT ![q] = Idle]
    BY <1>5 DEF Answer
  <2>2. QED
    BY <1>2, <2>1
<1>6. QED
  BY <1>4, <1>5

\* The counts and names of rows change, and rows go; none is new.
LEMMA ServeRowsKeeps ==
    ASSUME IndInv, NEW q \in Slots, ServeCounts(q) \/ ServeSave(q) \/ ServeDelete(q)
    PROVE  IndInv'
<1>1. /\ TypeOK /\ req[q] \in ReqState /\ req[q].at = "sent" /\ req[q] # Idle
      /\ UNCHANGED <<asked, edits, open, page, editor, counted, calm>>
  BY DEF IndInv, TypeOK, ServeCounts, ServeSave, ServeDelete, Sent, Idle
<1>2. req[q].what \in Request
  BY <1>1, ReqStates
<1>3. /\ row' \in [Names -> Row \cup {None}]
      /\ \A n \in Stored' : \E m \in Stored : row'[n].stat = row[m].stat
  <2>1. CASE ServeCounts(q)
    <3>1. req[q].what.body \in UNION {[N -> Counts] : N \in SUBSET Names}
      BY <1>2, <2>1, RequestKinds DEF ServeCounts, Sent
    <3>2. PICK b : /\ b \in UNION {[N -> Counts] : N \in SUBSET Names}
                   /\ row' = [n \in Names |-> IF n \in Stored \cap DOMAIN b
                                             THEN [row[n] EXCEPT !.count = b[n]]
                                             ELSE row[n]]
      BY <2>1, <3>1 DEF ServeCounts
    <3>3. \A n \in Stored \cap DOMAIN b :
             /\ row[n] \in Row
             /\ [row[n] EXCEPT !.count = b[n]] \in Row
             /\ [row[n] EXCEPT !.count = b[n]].stat = row[n].stat
      BY <1>1, <3>2 DEF TypeOK, Stored, Row
    <3>4. row' \in [Names -> Row \cup {None}]
      BY <1>1, <3>2, <3>3 DEF TypeOK
    <3>5. \A n \in Stored' : n \in Stored /\ row'[n].stat = row[n].stat
      BY <3>2, <3>3 DEF Stored
    <3>6. QED
      BY <3>4, <3>5
  <2>2. CASE ServeSave(q)
    <3>1. req[q].what.old \in Names /\ req[q].what.new \in Names
      BY <1>2, <2>2, RequestKinds DEF ServeSave, Sent
    <3>2. \/ row' = row
          \/ /\ req[q].what.old \in Stored
             /\ row' = [[row EXCEPT ![req[q].what.old] = None]
                           EXCEPT ![req[q].what.new] = row[req[q].what.old]]
      BY <2>2 DEF ServeSave, Refused
    <3>3. QED
      BY <1>1, <3>1, <3>2 DEF TypeOK, Stored
  <2>3. CASE ServeDelete(q)
    <3>1. \/ row' = row
          \/ row' = [row EXCEPT ![req[q].what.name] = None]
      BY <2>3 DEF ServeDelete, Refused
    <3>2. QED
      BY <1>1, <3>1 DEF TypeOK, Stored
  <2>4. QED
    BY <2>1, <2>2, <2>3
<1>4. Idle \in ReqState
  BY DEF ReqState
<1>5. PICK r \in ReqState :
         /\ req' = [req EXCEPT ![q] = r]
         /\ r # Idle => r.at = "answered" /\ r.what = req[q].what /\ open
  BY <1>1, <1>4, AnswerIs DEF ServeCounts, ServeSave, ServeDelete, Refused
<1>6. /\ TypeOK' /\ FieldInStep' /\ ClosedIsEmpty'
      /\ (\A n \in Stored' : \E m \in Stored : row'[n].stat = row[m].stat) => NewStats'
  <2>1. calm' \in BOOLEAN
    BY <1>1 DEF TypeOK
  <2>2. r # Idle => /\ r.what.kind = "create" =>
                          /\ Creating(q) /\ r.what.stat = req[q].what.stat
                          /\ req[q].at = "answered" => r.at = "answered"
                    /\ open \/ (r.at = "sent" /\ ~r.paged)
    BY <1>1, <1>5 DEF Creating
  <2>3. QED
    BY <1>1, <1>3, <1>5, <2>1, <2>2, RequestKeeps
<1>7. QED
  BY <1>3, <1>6 DEF IndInv

LEMMA ServeCreateKeeps ==
    ASSUME IndInv, NEW q \in Slots, ServeCreate(q)
    PROVE  IndInv'
<1> DEFINE n == req[q].what.name
<1> DEFINE s == req[q].what.stat
<1>1. /\ TypeOK /\ NewStats /\ req[q] \in ReqState /\ req[q].at = "sent" /\ req[q] # Idle
      /\ req[q].what.kind = "create"
      /\ UNCHANGED <<asked, edits, open, page, editor, counted, calm>>
  BY DEF IndInv, TypeOK, ServeCreate, Sent, Idle
<1>2. req[q].what \in Request /\ n \in Names /\ s \in Stats /\ Creating(q)
  BY <1>1, ReqStates, RequestKinds DEF Creating
<1>3. Idle \in ReqState
  BY DEF ReqState
<1>4. PICK r \in ReqState :
         /\ req' = [req EXCEPT ![q] = r]
         /\ r # Idle => r.at = "answered" /\ r.what = req[q].what /\ open
         /\ row' = row \/ (row' = [row EXCEPT ![n] = [stat |-> s, count |-> 0]])
  BY <1>1, <1>3, AnswerIs DEF ServeCreate, Refused
<1>5. row' \in [Names -> Row \cup {None}]
  BY <1>1, <1>2, <1>4, CountSyncAssumption DEF TypeOK, Row
<1>6. /\ TypeOK' /\ FieldInStep' /\ ClosedIsEmpty'
      /\ (\A m \in Stored' : \E o \in Stored : row'[m].stat = row[o].stat) => NewStats'
  <2>1. calm' \in BOOLEAN
    BY <1>1 DEF TypeOK
  <2>2. r # Idle => /\ r.what.kind = "create" =>
                          /\ Creating(q) /\ r.what.stat = req[q].what.stat
                          /\ req[q].at = "answered" => r.at = "answered"
                    /\ open \/ (r.at = "sent" /\ ~r.paged)
    BY <1>1, <1>2, <1>4
  <2>3. QED
    BY <1>1, <1>4, <1>5, <2>1, <2>2, RequestKeeps
<1>7. NewStats'
  <2>1. \A m \in Stored' : row'[m].stat = s \/ (m \in Stored /\ row'[m].stat = row[m].stat)
    BY <1>1, <1>2, <1>4 DEF TypeOK, Stored
  <2>2. /\ req'[q] = r /\ \A p \in Slots \ {q} : req'[p] = req[p]
        /\ OnPage' = OnPage
    BY <1>1, <1>4 DEF TypeOK, OnPage
  <2>3. \A p \in Slots : Creating(p)' => Creating(p) /\ req'[p].what = req[p].what
    BY <1>2, <1>4, <2>2 DEF Creating
  <2>4. \A t \in OnPage' : t <= asked'
    BY <1>1, <2>2 DEF NewStats
  <2>5. \A m \in Stored' : row'[m].stat <= asked'
    BY <1>1, <1>2, <2>1 DEF NewStats
  <2>6. ASSUME NEW p \in Slots, Creating(p)'
        PROVE  /\ req'[p].what.stat <= asked'
               /\ req'[p].what.stat \notin OnPage'
               /\ req'[p].at # "answered" =>
                     \A m \in Stored' : row'[m].stat # req'[p].what.stat
               /\ \A o \in Slots \ {p} : Creating(o)' => req'[o].what.stat # req'[p].what.stat
    <3>1. Creating(p) /\ req'[p].what = req[p].what
      BY <2>3, <2>6
    <3>2. /\ req'[p].what.stat <= asked'
          /\ req'[p].what.stat \notin OnPage'
          /\ \A o \in Slots \ {p} : Creating(o)' => req'[o].what.stat # req'[p].what.stat
      BY <1>1, <2>2, <2>3, <3>1 DEF NewStats
    <3>3. CASE p = q
      BY <1>4, <2>2, <2>6, <3>2, <3>3 DEF Creating
    <3>4. CASE p # q
      <4>1. req'[p].what.stat # s
        BY <1>1, <1>2, <3>1, <3>4 DEF NewStats
      <4>2. req'[p].at # "answered" => \A m \in Stored : row[m].stat # req'[p].what.stat
        BY <1>1, <2>2, <3>1, <3>4 DEF NewStats
      <4>3. QED
        BY <2>1, <3>2, <4>1, <4>2
    <3>5. QED
      BY <3>3, <3>4
  <2>7. QED
    BY <2>4, <2>5, <2>6 DEF NewStats
<1>8. QED
  BY <1>6, <1>7 DEF IndInv

\* 401, the refresh, the second attempt, and every way to fail.
LEMMA RefreshKeeps ==
    ASSUME IndInv, NEW q \in Slots, Unauthorized(q) \/ Retry(q) \/ Fail(q)
    PROVE  IndInv'
<1>1. /\ TypeOK /\ req[q] \in ReqState /\ req[q] # Idle
      /\ UNCHANGED <<row, asked, edits, open, page, editor, counted>>
  BY DEF IndInv, TypeOK, Unauthorized, Retry, Fail, Idle
<1>2. req[q].what \in Request /\ Idle \in ReqState
  BY <1>1, ReqStates DEF ReqState
<1>3. calm' \in BOOLEAN
  BY <1>1, ReqStates DEF TypeOK, Unauthorized, Retry, Fail
<1>4. \E r \in ReqState :
         /\ req' = [req EXCEPT ![q] = r]
         /\ r # Idle => /\ open
                        /\ r.what.kind = "create" => Creating(q) /\ r.what.stat = req[q].what.stat
                        /\ req[q].at # "answered"
  <2>1. CASE Unauthorized(q) /\ req[q].paged
    <3>1. open /\ req[q].at = "sent"
      BY <1>1, <2>1 DEF IndInv, ClosedIsEmpty, Unauthorized
    <3>2. [at |-> "refresh", what |-> req[q].what] \in ReqState
      BY <1>2 DEF ReqState
    <3>3. req' = [req EXCEPT ![q] = [at |-> "refresh", what |-> req[q].what]]
      BY <2>1 DEF Unauthorized
    <3>4. QED
      BY <1>1, <3>1, <3>2, <3>3 DEF Creating
  <2>2. CASE Unauthorized(q) /\ ~req[q].paged
    <3>1. req' = [req EXCEPT ![q] = Idle]
      BY <2>2 DEF Unauthorized
    <3>2. QED
      BY <1>2, <3>1
  <2>3. CASE Retry(q)
    <3>1. open /\ req[q].at = "refresh"
      BY <1>1, <2>3 DEF IndInv, ClosedIsEmpty, Retry
    <3>2. PICK w : /\ req' = [req EXCEPT ![q] = [at |-> "sent", what |-> w, paged |-> TRUE]]
                   /\ w = IF req[q].what.kind = "save" /\ editor[req[q].what.editor] # None
                          THEN [req[q].what EXCEPT !.old = editor[req[q].what.editor].updater]
                          ELSE req[q].what
      BY <2>3 DEF Retry, Send
    <3>3. w \in Request /\ (w.kind = "create" => w = req[q].what)
      <4>1. CASE req[q].what.kind = "save" /\ editor[req[q].what.editor] # None
        <5>1. req[q].what \in [kind : {"save"}, editor : Editors, old : Names, new : Names]
          BY <1>2, <4>1 DEF Request
        <5>2. editor[req[q].what.editor].updater \in Names
          BY <1>1, <4>1, <5>1 DEF TypeOK, Editor
        <5>3. w = [req[q].what EXCEPT !.old = editor[req[q].what.editor].updater]
          BY <3>2, <4>1
        <5>4. w \in [kind : {"save"}, editor : Editors, old : Names, new : Names]
          BY <5>1, <5>2, <5>3
        <5>5. QED
          BY <4>1, <5>4 DEF Request
      <4>2. CASE ~(req[q].what.kind = "save" /\ editor[req[q].what.editor] # None)
        <5>1. w = req[q].what
          BY <3>2, <4>2
        <5>2. QED
          BY <1>2, <5>1
      <4>3. QED
        BY <4>1, <4>2
    <3>4. [at |-> "sent", what |-> w, paged |-> TRUE] \in ReqState
      BY <3>3 DEF ReqState
    <3>5. QED
      BY <1>1, <3>1, <3>2, <3>3, <3>4 DEF Creating
  <2>4. CASE Fail(q)
    <3>1. req' = [req EXCEPT ![q] = Idle]
      BY <2>4 DEF Fail
    <3>2. QED
      BY <1>2, <3>1
  <2>5. QED
    BY <2>1, <2>2, <2>3, <2>4
<1>5. PICK r \in ReqState :
         /\ req' = [req EXCEPT ![q] = r]
         /\ r # Idle => /\ open
                        /\ r.what.kind = "create" => Creating(q) /\ r.what.stat = req[q].what.stat
                        /\ req[q].at # "answered"
  BY <1>4
<1>6. row' \in [Names -> Row \cup {None}]
  BY <1>1 DEF TypeOK
<1>7. /\ TypeOK' /\ FieldInStep' /\ ClosedIsEmpty'
      /\ (\A m \in Stored' : \E o \in Stored : row'[m].stat = row[o].stat) => NewStats'
  <2>1. r # Idle => /\ r.what.kind = "create" =>
                          /\ Creating(q) /\ r.what.stat = req[q].what.stat
                          /\ req[q].at = "answered" => r.at = "answered"
                    /\ open \/ (r.at = "sent" /\ ~r.paged)
    BY <1>5
  <2>2. QED
    BY <1>1, <1>3, <1>5, <1>6, <2>1, RequestKeeps
<1>8. Stored' = Stored /\ row' = row
  BY <1>1 DEF Stored
<1>9. QED
  BY <1>7, <1>8 DEF IndInv

\* A name is taken over; the field shows the progress again.
LEMMA FinishSaveKeeps ==
    ASSUME IndInv, NEW q \in Slots, FinishSave(q)
    PROVE  /\ IndInv'
           /\ OnPage' = OnPage
           /\ \A s \in OnPage : page'[s].present = page[s].present /\ page'[s].input = page[s].input
<1> DEFINE e == req[q].what.editor
<1>1. /\ TypeOK /\ FieldInStep /\ req[q] \in ReqState /\ req[q] # Idle
      /\ req[q].at = "answered" /\ req[q].what.kind = "save"
      /\ req' = [req EXCEPT ![q] = Idle] /\ Idle \in ReqState
      /\ UNCHANGED <<row, asked, edits, open, counted>>
  BY DEF IndInv, TypeOK, FinishSave, Answered, Idle, ReqState
<1>2. /\ req[q].what \in Request /\ e \in Editors /\ e[1] \in Stats
      /\ req[q].what.new \in Names
  BY <1>1, ReqStates, RequestKinds DEF Editors
<1>3. PICK typed \in Names :
         /\ page' = [page EXCEPT ![e[1]] =
                       IF @ = None THEN @
                       ELSE [@ EXCEPT !.name = typed, !.input = Shown(page[e[1]])]]
         /\ calm' = (calm /\ typed = req[q].what.new)
  BY DEF FinishSave
<1>4. editor' \in [Editors -> Editor \cup {None}]
  BY <1>1, <1>2 DEF FinishSave, TypeOK, Editor
<1>5. open
  BY <1>1 DEF IndInv, ClosedIsEmpty
<1>6. CASE page[e[1]] = None
  <2>1. page' = page
    BY <1>1, <1>2, <1>3, <1>6 DEF TypeOK
  <2>2. TypeOK'
    <3>1. calm' \in BOOLEAN /\ req' \in [Slots -> ReqState]
      BY <1>1, <1>3 DEF TypeOK
    <3>2. QED
      BY <1>1, <1>4, <2>1, <3>1 DEF TypeOK
  <2>3. OnPage' = OnPage /\ FieldInStep' /\ ClosedIsEmpty'
    BY <1>1, <1>5, <2>1 DEF OnPage, FieldInStep, ClosedIsEmpty, Shown
  <2>4. NewStats'
    BY <1>1, <2>3, MoveKeepsNewStats DEF Stored
  <2>5. QED
    BY <2>1, <2>2, <2>3, <2>4 DEF IndInv
<1>7. CASE page[e[1]] # None
  <2>1. page[e[1]] \in PageStat /\ e[1] \in OnPage
    BY <1>1, <1>2, <1>7 DEF TypeOK, OnPage
  <2>2. /\ page'[e[1]] = [page[e[1]] EXCEPT !.name = typed, !.input = Shown(page[e[1]])]
        /\ \A s \in Stats \ {e[1]} : page'[s] = page[s]
    BY <1>1, <1>2, <1>3, <1>7 DEF TypeOK
  <2>3. Shown(page[e[1]]) = page[e[1]].input
    BY <1>1, <2>1 DEF FieldInStep
  <2>4. page'[e[1]] \in PageStat
    BY <2>1, <2>2, <2>3 DEF PageStat
  <2>5. /\ page'[e[1]].present = page[e[1]].present /\ page'[e[1]].input = page[e[1]].input
        /\ page'[e[1]].progress = page[e[1]].progress /\ page'[e[1]].count = page[e[1]].count
    BY <2>1, <2>2, <2>3 DEF PageStat
  <2>6. OnPage' = OnPage
    BY <2>1, <2>2, <2>4, CountSyncAssumption DEF OnPage
  <2>7. FieldInStep' /\ \A s \in OnPage : page'[s].present = page[s].present
                                         /\ page'[s].input = page[s].input
    <3>1. page'[e[1]].input = Shown(page'[e[1]])
      BY <2>3, <2>5 DEF Shown
    <3>2. \A s \in OnPage \ {e[1]} : page'[s] = page[s] /\ page[s].input = Shown(page[s])
      BY <1>1, <2>2 DEF FieldInStep, OnPage
    <3>3. QED
      BY <2>5, <2>6, <3>1, <3>2 DEF FieldInStep, Shown
  <2>8. TypeOK'
    <3>1. calm' \in BOOLEAN /\ req' \in [Slots -> ReqState]
      BY <1>1, <1>3 DEF TypeOK
    <3>2. page' \in [Stats -> PageStat \cup {None}]
      BY <1>1, <1>2, <1>3, <2>2, <2>4 DEF TypeOK
    <3>3. QED
      BY <1>1, <1>4, <3>1, <3>2 DEF TypeOK
  <2>9. ClosedIsEmpty'
    BY <1>1, <1>5 DEF ClosedIsEmpty
  <2>10. NewStats'
    BY <1>1, <2>6, MoveKeepsNewStats DEF Stored
  <2>11. QED
    BY <2>6, <2>7, <2>8, <2>9, <2>10 DEF IndInv
<1>8. QED
  BY <1>6, <1>7

\* The stat leaves the page, or another one does.
LEMMA FinishDeleteKeeps ==
    ASSUME IndInv, NEW q \in Slots, FinishDelete(q)
    PROVE  /\ IndInv'
           /\ \A s \in OnPage : page'[s] = page[s] \/ page'[s] = None
<1> DEFINE e == req[q].what.editor
<1>1. /\ TypeOK /\ FieldInStep /\ req[q] \in ReqState /\ req[q] # Idle
      /\ req[q].at = "answered" /\ req[q].what.kind = "delete"
      /\ req' = [req EXCEPT ![q] = Idle] /\ Idle \in ReqState
      /\ editor' = [editor EXCEPT ![e] = None] /\ page' \in Spliced(e[1])
      /\ UNCHANGED <<row, asked, edits, open, counted, calm>>
  BY DEF IndInv, TypeOK, FinishDelete, Answered, Idle, ReqState
<1>2. open
  BY <1>1 DEF IndInv, ClosedIsEmpty
<1>3. /\ page' \in [Stats -> PageStat \cup {None}]
      /\ \A s \in Stats : page'[s] = page[s] \/ page'[s] = None
  BY <1>1 DEF TypeOK, Spliced, OnPage
<1>4. /\ OnPage' \subseteq OnPage
      /\ \A s \in OnPage' : page'[s] = page[s]
  BY <1>3 DEF OnPage
<1>5. TypeOK'
  BY <1>1, <1>3 DEF TypeOK
<1>6. FieldInStep'
  BY <1>1, <1>4 DEF FieldInStep, Shown
<1>7. ClosedIsEmpty'
  BY <1>1, <1>2 DEF ClosedIsEmpty
<1>8. NewStats'
  BY <1>1, <1>4, MoveKeepsNewStats DEF Stored
<1>9. QED
  BY <1>3, <1>5, <1>6, <1>7, <1>8 DEF IndInv, OnPage

\* A stat that has been created comes onto the page, where it has not been.
LEMMA FinishCreateKeeps ==
    ASSUME IndInv, NEW q \in Slots, FinishCreate(q)
    PROVE  /\ IndInv'
           /\ \A s \in OnPage : page'[s] = page[s]
<1> DEFINE s == req[q].what.stat
<1> DEFINE n == req[q].what.name
<1>1. /\ TypeOK /\ FieldInStep /\ NewStats /\ req[q] \in ReqState /\ req[q] # Idle
      /\ req[q].at = "answered" /\ req[q].what.kind = "create"
      /\ req' = [req EXCEPT ![q] = Idle] /\ Idle \in ReqState
      /\ page' = [page EXCEPT ![s] = NewPageStat(n, 0, 0)]
      /\ UNCHANGED <<row, asked, edits, open, counted, calm>>
  BY DEF IndInv, TypeOK, FinishCreate, Answered, Idle, ReqState
<1>2. /\ req[q].what \in Request /\ s \in Stats /\ n \in Names /\ Creating(q)
  BY <1>1, ReqStates, RequestKinds DEF Creating
<1>3. open /\ s \notin OnPage /\ s <= asked
  BY <1>1, <1>2 DEF IndInv, ClosedIsEmpty, NewStats
<1>4. NewPageStat(n, 0, 0) \in PageStat
  BY <1>2, CountSyncAssumption DEF NewPageStat, PageStat
<1>5. page'[s] = NewPageStat(n, 0, 0) /\ \A t \in Stats \ {s} : page'[t] = page[t]
  BY <1>1, <1>2 DEF TypeOK
<1>6. OnPage' = OnPage \cup {s}
  BY <1>2, <1>4, <1>5, CountSyncAssumption DEF OnPage
<1>7. TypeOK'
  <2>1. page' \in [Stats -> PageStat \cup {None}]
    BY <1>1, <1>2, <1>4 DEF TypeOK
  <2>2. [updater |-> n, deleter |-> n] \in Editor
    BY <1>2 DEF Editor
  <2>3. editor' \in [Editors -> Editor \cup {None}]
    BY <1>1, <2>2 DEF FinishCreate, TypeOK
  <2>4. QED
    BY <1>1, <2>1, <2>3 DEF TypeOK
<1>8. FieldInStep'
  <2>1. page'[s].input = Shown(page'[s])
    BY <1>5 DEF NewPageStat, Shown
  <2>2. \A t \in OnPage : page'[t] = page[t] /\ page[t].input = Shown(page[t])
    BY <1>1, <1>3, <1>5 DEF FieldInStep, OnPage
  <2>3. QED
    BY <1>6, <2>1, <2>2 DEF FieldInStep, Shown
<1>9. ClosedIsEmpty'
  BY <1>1, <1>3 DEF ClosedIsEmpty
<1>10. NewStats'
  <2>1. \A p \in Slots : Creating(p)' => p # q /\ Creating(p) /\ req'[p] = req[p]
    BY <1>1 DEF TypeOK, Creating
  <2>2. Stored' = Stored
    BY <1>1 DEF Stored
  <2>3. ASSUME NEW p \in Slots, Creating(p)'
        PROVE  /\ req'[p].what.stat <= asked'
               /\ req'[p].what.stat \notin OnPage'
               /\ req'[p].at # "answered" =>
                     \A m \in Stored' : row'[m].stat # req'[p].what.stat
               /\ \A o \in Slots \ {p} : Creating(o)' => req'[o].what.stat # req'[p].what.stat
    <3>1. p # q /\ Creating(p) /\ req'[p] = req[p]
      BY <2>1, <2>3
    <3>2. req[p].what.stat # s /\ req[p].what.stat \notin OnPage /\ req[p].what.stat <= asked
      BY <1>1, <1>2, <3>1 DEF NewStats
    <3>3. /\ req[p].at # "answered" => \A m \in Stored : row[m].stat # req[p].what.stat
          /\ \A o \in Slots \ {p} : Creating(o) => req[o].what.stat # req[p].what.stat
      BY <1>1, <3>1 DEF NewStats
    <3>4. QED
      BY <1>1, <1>6, <2>1, <2>2, <3>1, <3>2, <3>3
  <2>4. \A t \in OnPage' : t <= asked'
    BY <1>1, <1>3, <1>6 DEF NewStats
  <2>5. \A m \in Stored' : row'[m].stat <= asked'
    BY <1>1, <2>2 DEF NewStats
  <2>6. QED
    BY <2>3, <2>4, <2>5 DEF NewStats
<1>11. QED
  BY <1>3, <1>5, <1>7, <1>8, <1>9, <1>10 DEF IndInv, OnPage

LEMMA StutterKeeps ==
    ASSUME IndInv, UNCHANGED vars
    PROVE  IndInv'
<1>1. TypeOK'
  BY DEF IndInv, TypeOK, vars
<1>2. FieldInStep' /\ ClosedIsEmpty'
  BY DEF IndInv, FieldInStep, ClosedIsEmpty, OnPage, Shown, vars
<1>3. NewStats'
  BY DEF IndInv, NewStats, Creating, OnPage, Stored, vars
<1>4. QED
  BY <1>1, <1>2, <1>3 DEF IndInv

LEMMA NextKeeps ==
    ASSUME IndInv, [Next]_vars
    PROVE  IndInv'
<1>1. CASE HandleFetchedData
  BY <1>1, FetchedKeeps
<1>2. ASSUME NEW s \in Stats, NEW x \in Progress, UpdateCount(s, x) PROVE IndInv'
  BY <1>2, UpdateCountKeeps
<1>3. CASE Leave \/ Killed
  BY <1>3, LeaveKeeps
<1>4. ASSUME NEW q \in Slots, Tick(q) PROVE IndInv'
  BY <1>4, TickKeeps
<1>5. ASSUME NEW q \in Slots, NEW n \in Names, StartCreate(q, n) PROVE IndInv'
  BY <1>5, StartCreateKeeps
<1>6. ASSUME NEW q \in Slots, NEW e \in Editors, StartDelete(q, e) PROVE IndInv'
  <2>1. PICK new \in Names : new = editor[e].updater
    BY <1>6 DEF IndInv, TypeOK, Editor, StartDelete
  <2>2. QED
    BY <1>6, StartEditKeeps
<1>7. ASSUME NEW q \in Slots, NEW e \in Editors, NEW new \in Names, StartSave(q, e, new)
      PROVE  IndInv'
  BY <1>7, StartEditKeeps
<1>8. ASSUME NEW q \in Slots, Serve(q) PROVE IndInv'
  BY <1>8, ServeRowsKeeps, ServeCreateKeeps DEF Serve
<1>9. ASSUME NEW q \in Slots, Unauthorized(q) \/ Retry(q) \/ Fail(q) PROVE IndInv'
  BY <1>9, RefreshKeeps
<1>10. ASSUME NEW q \in Slots, Finish(q) PROVE IndInv'
  BY <1>10, FinishSaveKeeps, FinishDeleteKeeps, FinishCreateKeeps DEF Finish
<1>11. CASE UNCHANGED vars
  BY <1>11, StutterKeeps
<1>12. QED
  BY <1>1, <1>2, <1>3, <1>4, <1>5, <1>6, <1>7, <1>8, <1>9, <1>10, <1>11 DEF Next

-------------------------------------------------------------------------------
(* What a number in the field means.                                       *)

LEMMA FieldStep ==
    ASSUME IndInv, [Next]_vars
    PROVE  \A s \in OnPage : page'[s] # None =>
              page'[s].present - page'[s].input = page[s].present - page[s].input
<1> DEFINE Same == \A s \in OnPage : page'[s] # None =>
                      page'[s].present - page'[s].input = page[s].present - page[s].input
<1> SUFFICES Same
  OBVIOUS
<1>1. CASE HandleFetchedData
  <2>1. OnPage = {}
    BY <1>1 DEF HandleFetchedData, IndInv, ClosedIsEmpty, OnPage, NoPage
  <2>2. QED
    BY <2>1
<1>2. ASSUME NEW s \in Stats, NEW x \in Progress, UpdateCount(s, x) PROVE Same
  <2>1. /\ TypeOK /\ FieldInStep /\ s \in OnPage /\ page[s] \in PageStat
    BY <1>2 DEF UpdateCount, IndInv, TypeOK, OnPage
  <2>2. PICK present \in Counts :
           /\ present = x - page[s].progress + page[s].count
           /\ page' = [page EXCEPT ![s].input = x, ![s].present = present]
    BY <1>2 DEF UpdateCount
  <2>3. /\ page'[s] = [page[s] EXCEPT !.input = x, !.present = present]
        /\ \A t \in Stats \ {s} : page'[t] = page[t]
    BY <2>1, <2>2 DEF TypeOK
  <2>4. page'[s].input = x /\ page'[s].present = present
    BY <2>1, <2>3 DEF PageStat
  <2>5. /\ page[s].progress \in Int /\ page[s].count \in Int /\ page[s].present \in Int
        /\ x \in Int /\ present \in Int
    <3>1. x \in Int
      BY CountsAreInts DEF Progress
    <3>2. QED
      BY <2>1, <3>1, CountsAreInts DEF PageStat
  <2>6. page[s].input = page[s].progress + page[s].present - page[s].count
    BY <2>1 DEF FieldInStep, Shown
  <2>7. page'[s].present - page'[s].input = page[s].present - page[s].input
    BY <2>2, <2>4, <2>5, <2>6
  <2>8. QED
    BY <2>3, <2>7 DEF OnPage
<1>3. CASE Leave \/ Killed
  <2>1. page' = NoPage
    BY <1>3 DEF Leave, Killed, ClosePage
  <2>2. QED
    BY <2>1 DEF NoPage, OnPage
<1>4. ASSUME NEW q \in Slots, Tick(q) PROVE Same
  <2>1. page' = Saved
    BY <1>4 DEF Tick
  <2>2. QED
    BY <2>1, SavedInStep
<1>5. CASE UNCHANGED page
  BY <1>5
<1>6. ASSUME NEW q \in Slots, Finish(q) PROVE Same
  BY <1>6, FinishSaveKeeps, FinishDeleteKeeps, FinishCreateKeeps DEF Finish
<1>7. ASSUME NEW q \in Slots, Unauthorized(q) \/ Retry(q) \/ Fail(q) \/ Serve(q)
      PROVE  UNCHANGED page
  BY <1>7 DEF Unauthorized, Retry, Fail, Serve, ServeCounts, ServeSave, ServeDelete, ServeCreate
<1>8. ASSUME NEW q \in Slots, NEW n \in Names, StartCreate(q, n) PROVE UNCHANGED page
  BY <1>8 DEF StartCreate
<1>9. ASSUME NEW q \in Slots, NEW e \in Editors,
             StartDelete(q, e) \/ \E new \in Names : StartSave(q, e, new)
      PROVE  UNCHANGED page
  BY <1>9 DEF StartDelete, StartSave
<1>10. CASE UNCHANGED vars
  BY <1>5, <1>10 DEF vars
<1>11. QED
  BY <1>1, <1>2, <1>3, <1>4, <1>5, <1>6, <1>7, <1>8, <1>9, <1>10 DEF Next

-------------------------------------------------------------------------------
(* The theorems.                                                           *)

LEMMA Invariance == Spec => []IndInv
<1>1. Init => IndInv
  BY InitOK
<1>2. IndInv /\ [Next]_vars => IndInv'
  BY NextKeeps
<1>3. QED
  BY <1>1, <1>2, PTL DEF Spec

\* Whatever is sent, lost, answered late or typed meanwhile, page, editors, requests and
\* rows are of their types: no answer leaves half a stat on the page.
THEOREM TypeCorrect == Spec => []TypeOK
<1>1. IndInv => TypeOK
  BY DEF IndInv
<1>2. QED
  BY <1>1, Invariance, PTL

\* What calculatePresentQuotaProgress puts into the field after a save or a rename is what
\* is there already, and the next number typed there is counted from the same last_count:
\* no ticker, answer, failure or second editor ever shifts it.
THEOREM FieldMeansTheSame == Spec => FieldKeepsItsMeaning
<1>1. IndInv /\ [Next]_vars =>
         [\A s \in OnPage : page'[s] # None =>
             page'[s].present - page'[s].input = page[s].present - page[s].input]_vars
  BY FieldStep
<1>2. QED
  BY <1>1, Invariance, PTL DEF Spec, FieldKeepsItsMeaning

\* A stat that is being created is nowhere on the page, and no two requests create the
\* same one: an answer to a create adds a stat, it never replaces the counts of another.
THEOREM CreatedOnce == Spec => []NewStats
<1>1. IndInv => NewStats
  BY DEF IndInv
<1>2. QED
  BY <1>1, Invariance, PTL

-------------------------------------------------------------------------------
(* Rows and creations, whatever the browser does.                          *)

\* A stat has one row.
OneRow == \A m, n \in Stored : row[m].stat = row[n].stat => m = n

\* A stat that has not been on the page has not been counted.
NeverCounted ==
    /\ \A s \in Stats : s > asked => counted[s] = 0
    /\ \A q \in Slots : Creating(q) => counted[req[q].what.stat] = 0

\* Only the button of StatCreator makes a creation.
LEMMA CreationsKept ==
    ASSUME IndInv, [Next]_vars, \A q \in Slots, n \in Names : ~StartCreate(q, n)
    PROVE  \A p \in Slots : Creating(p)' => Creating(p) /\ req'[p].what.stat = req[p].what.stat
<1> DEFINE Kept == \A p \in Slots :
                      Creating(p)' => Creating(p) /\ req'[p].what.stat = req[p].what.stat
<1>0. req \in [Slots -> ReqState]
  BY DEF IndInv, TypeOK
<1>1. CASE UNCHANGED req
  BY <1>1 DEF Creating
<1>2. ASSUME NEW q \in Slots, NEW r, req' = [req EXCEPT ![q] = r],
             r # Idle /\ r.what.kind = "create" => Creating(q) /\ r.what.stat = req[q].what.stat
      PROVE  Kept
  BY <1>0, <1>2 DEF Creating
<1>3. ASSUME NEW q \in Slots, Tick(q) PROVE Kept
  BY <1>2, <1>3 DEF Tick, Send
<1>4. ASSUME NEW q \in Slots, NEW e \in Editors,
             StartDelete(q, e) \/ \E new \in Names : StartSave(q, e, new)
      PROVE  Kept
  BY <1>2, <1>4 DEF StartDelete, StartSave, Send
<1>5. ASSUME NEW q \in Slots, Serve(q) PROVE Kept
  <2>1. req[q].at = "sent" /\ req[q] # Idle /\ (Answer(q) \/ req' = [req EXCEPT ![q] = Idle])
    BY <1>5 DEF Serve, ServeCounts, ServeSave, ServeDelete, ServeCreate, Refused, Sent, Idle
  <2>2. CASE Answer(q)
    BY <1>2, <2>1, <2>2, AnswerIs DEF Creating
  <2>3. CASE req' = [req EXCEPT ![q] = Idle]
    BY <1>2, <2>3
  <2> QED BY <2>1, <2>2, <2>3
<1>6. ASSUME NEW q \in Slots, Finish(q) \/ Fail(q) PROVE Kept
  BY <1>2, <1>6 DEF Finish, FinishSave, FinishDelete, FinishCreate, Fail
<1>7. ASSUME NEW q \in Slots, Unauthorized(q) PROVE Kept
  <2>1. req[q] # Idle
    BY <1>7 DEF Unauthorized, Idle
  <2>2. CASE req[q].paged
    <3>1. req' = [req EXCEPT ![q] = [at |-> "refresh", what |-> req[q].what]]
      BY <1>7, <2>2 DEF Unauthorized
    <3> QED BY <1>2, <2>1, <3>1 DEF Creating
  <2>3. CASE ~req[q].paged
    <3>1. req' = [req EXCEPT ![q] = Idle]
      BY <1>7, <2>3 DEF Unauthorized
    <3> QED BY <1>2, <3>1
  <2> QED BY <2>2, <2>3
<1>8. ASSUME NEW q \in Slots, Retry(q) PROVE Kept
  <2>1. req[q] # Idle /\ req[q].what \in Request
    BY <1>0, <1>8, ReqStates DEF Retry, Idle
  <2>2. CASE req[q].what.kind = "save" /\ editor[req[q].what.editor] # None
    <3> DEFINE w == [req[q].what EXCEPT !.old = editor[req[q].what.editor].updater]
    <3>1. req' = [req EXCEPT ![q] = [at |-> "sent", what |-> w, paged |-> TRUE]]
      BY <1>8, <2>2 DEF Retry, Send
    <3>2. req[q].what \in [kind : {"save"}, editor : Editors, old : Names, new : Names]
      BY <2>1, <2>2 DEF Request
    <3>3. w.kind = "save"
      BY <3>2
    <3> HIDE DEF w
    <3> QED BY <1>2, <3>1, <3>3
  <2>3. CASE ~(req[q].what.kind = "save" /\ editor[req[q].what.editor] # None)
    <3>1. req' = [req EXCEPT ![q] = [at |-> "sent", what |-> req[q].what, paged |-> TRUE]]
      BY <1>8, <2>3 DEF Retry, Send
    <3> QED BY <1>2, <2>1, <3>1 DEF Creating
  <2> QED BY <2>2, <2>3
<1>9. CASE Leave \/ Killed
  <2>1. \A p \in Slots : WithoutPage(req[p]) # Idle =>
           req[p] # Idle /\ WithoutPage(req[p]).what = req[p].what
    BY <1>0, ReqStates DEF WithoutPage, Idle
  <2>2. \A p \in Slots : \/ req'[p] = WithoutPage(req[p])
                         \/ req'[p].what.kind = "counts"
    <3>1. ASSUME NEW q \in Slots, NEW f,
                 req' = [[p \in Slots |-> WithoutPage(req[p])] EXCEPT ![q] =
                           [at |-> "sent", what |-> [kind |-> "counts", body |-> f],
                            paged |-> FALSE]]
          PROVE  \A p \in Slots : req'[p] = WithoutPage(req[p]) \/ req'[p].what.kind = "counts"
      BY <3>1
    <3>2. CASE req' = [p \in Slots |-> WithoutPage(req[p])]
      BY <3>2
    <3>3. \/ req' = [p \in Slots |-> WithoutPage(req[p])]
          \/ \E q \in Slots, f \in Bodies :
                req' = [[p \in Slots |-> WithoutPage(req[p])] EXCEPT ![q] =
                          [at |-> "sent", what |-> [kind |-> "counts", body |-> f],
                           paged |-> FALSE]]
      BY <1>9 DEF Leave, Killed
    <3> QED BY <3>1, <3>2, <3>3
  <2> QED BY <2>1, <2>2 DEF Creating
<1>10. CASE HandleFetchedData \/ (\E s \in Stats, x \in Progress : UpdateCount(s, x))
            \/ UNCHANGED vars
  BY <1>1, <1>10 DEF HandleFetchedData, UpdateCount, vars
<1> QED
  BY <1>3, <1>4, <1>5, <1>6, <1>7, <1>8, <1>9, <1>10 DEF Next

LEMMA NeverCountedKept ==
    ASSUME IndInv, NeverCounted, [Next]_vars
    PROVE  NeverCounted'
<1>0. TypeOK /\ NewStats
  BY DEF IndInv
<1>1. ASSUME NEW q \in Slots, NEW n \in Names, StartCreate(q, n)
      PROVE  NeverCounted'
  <2> DEFINE r == [at |-> "sent", what |-> [kind |-> "create", name |-> n, stat |-> asked + 1],
                   paged |-> TRUE]
  <2>1. /\ asked' = asked + 1 /\ asked < MaxStats /\ UNCHANGED counted
        /\ req' = [req EXCEPT ![q] = r]
    BY <1>1 DEF StartCreate, Send
  <2>2. asked \in Nat /\ asked + 1 \in Stats
    BY <1>0, <2>1, CountSyncAssumption DEF TypeOK, Stats
  <2>3. counted[asked + 1] = 0
    BY <2>2 DEF NeverCounted
  <2>4. req'[q] = r /\ \A p \in Slots \ {q} : req'[p] = req[p]
    BY <1>0, <2>1 DEF TypeOK
  <2>5. \A s \in Stats : s > asked' => counted'[s] = 0
    BY <2>1, <2>2 DEF NeverCounted, Stats
  <2>6. \A p \in Slots : Creating(p)' => counted'[req'[p].what.stat] = 0
    BY <2>1, <2>3, <2>4 DEF NeverCounted, Creating
  <2> QED BY <2>5, <2>6 DEF NeverCounted
<1>2. CASE \A q \in Slots, n \in Names : ~StartCreate(q, n)
  <2>1. \A p \in Slots : Creating(p)' => Creating(p) /\ req'[p].what.stat = req[p].what.stat
    BY <1>2, CreationsKept
  <2>2. asked' = asked
    BY <1>2 DEF Next, vars, HandleFetchedData, UpdateCount, Leave, Killed, ClosePage, Tick,
                StartDelete, StartSave, Serve, ServeCounts, ServeSave, ServeDelete, ServeCreate,
                Unauthorized, Retry, Fail, Finish, FinishSave, FinishDelete, FinishCreate
  <2>3. CASE UNCHANGED counted
    BY <2>1, <2>2, <2>3 DEF NeverCounted
  <2>4. ASSUME NEW s \in Stats, NEW x \in Progress, UpdateCount(s, x)
        PROVE  NeverCounted'
    <3>1. /\ s \in OnPage /\ \A t \in Stats \ {s} : counted'[t] = counted[t]
      BY <1>0, <2>4 DEF UpdateCount, TypeOK
    <3>2. s <= asked /\ \A p \in Slots : Creating(p) => req[p].what.stat # s
      BY <1>0, <3>1 DEF NewStats
    <3>3. \A p \in Slots : Creating(p) => req[p].what.stat \in Stats
      BY <1>0, ReqStates, RequestKinds DEF TypeOK, Creating
    <3>4. s \in Int /\ asked \in Int
      BY <1>0 DEF TypeOK, Stats
    <3>5. \A t \in Stats : t > asked' => counted'[t] = 0
      BY <2>2, <3>1, <3>2, <3>4 DEF NeverCounted, Stats
    <3>6. \A p \in Slots : Creating(p)' => counted'[req'[p].what.stat] = 0
      BY <2>1, <3>1, <3>2, <3>3 DEF NeverCounted
    <3> QED BY <3>5, <3>6 DEF NeverCounted
  <2>5. UNCHANGED counted \/ \E s \in Stats, x \in Progress : UpdateCount(s, x)
    BY <1>2 DEF Next, vars, HandleFetchedData, Leave, Killed, ClosePage, Tick,
                StartDelete, StartSave, Serve, ServeCounts, ServeSave, ServeDelete, ServeCreate,
                Unauthorized, Retry, Fail, Finish, FinishSave, FinishDelete, FinishCreate
  <2> QED BY <2>3, <2>4, <2>5
<1> QED BY <1>1, <1>2

\* What each handler of the server does to the rows.
LEMMA ServeCountsIs ==
    ASSUME IndInv, NEW q \in Slots, ServeCounts(q)
    PROVE  /\ Stored' = Stored
           /\ \A n \in Stored : row'[n].stat = row[n].stat
           /\ \A n \in Stored : row'[n].count = IF n \in DOMAIN req[q].what.body
                                               THEN req[q].what.body[n] ELSE row[n].count
<1>1. /\ TypeOK /\ req[q] \in ReqState /\ req[q] # Idle /\ req[q].what.kind = "counts"
  BY DEF IndInv, TypeOK, ServeCounts, Sent, Idle
<1>2. PICK b : /\ b = req[q].what.body
               /\ b \in UNION {[N -> Counts] : N \in SUBSET Names}
               /\ row' = [n \in Names |-> IF n \in Stored \cap DOMAIN b
                                         THEN [row[n] EXCEPT !.count = b[n]]
                                         ELSE row[n]]
  BY <1>1, ReqStates, RequestKinds DEF ServeCounts
<1>3. \A n \in Stored : row[n] \in Row
  BY <1>1 DEF TypeOK, Stored
<1>4. \A n \in Stored \cap DOMAIN b :
         /\ [row[n] EXCEPT !.count = b[n]] \in Row
         /\ [row[n] EXCEPT !.count = b[n]].stat = row[n].stat
         /\ [row[n] EXCEPT !.count = b[n]].count = b[n]
  BY <1>2, <1>3 DEF Row
<1>5. Stored' = Stored
  BY <1>2, <1>3, <1>4, CountSyncAssumption DEF Stored
<1> QED BY <1>2, <1>4, <1>5 DEF Stored

LEMMA ServeSaveIs ==
    ASSUME IndInv, NEW q \in Slots, ServeSave(q), NEW old, old = req[q].what.old,
           NEW new, new = req[q].what.new
    PROVE  /\ old \in Names /\ new \in Names
           /\ \/ row' = row /\ req' = [req EXCEPT ![q] = Idle]
              \/ /\ old \in Stored /\ (new = old \/ new \notin Stored)
                 /\ Stored' = (Stored \ {old}) \cup {new}
                 /\ row'[new] = row[old]
                 /\ \A n \in Names \ {old, new} : row'[n] = row[n]
                 /\ Answer(q)
<1>1. /\ TypeOK /\ req[q] \in ReqState /\ req[q] # Idle /\ req[q].what.kind = "save"
  BY DEF IndInv, TypeOK, ServeSave, Sent, Idle
<1>2. old \in Names /\ new \in Names
  BY <1>1, ReqStates, RequestKinds
<1>3. CASE row' = row /\ req' = [req EXCEPT ![q] = Idle]
  BY <1>2, <1>3
<1>4. CASE /\ old \in Stored /\ (new = old \/ new \notin Stored)
           /\ row' = [[row EXCEPT ![old] = None] EXCEPT ![new] = row[old]]
           /\ Answer(q)
  <2>1. /\ row'[new] = row[old]
        /\ old # new => row'[old] = None
        /\ \A n \in Names \ {old, new} : row'[n] = row[n]
    BY <1>1, <1>2, <1>4 DEF TypeOK
  <2>2. Stored' = (Stored \ {old}) \cup {new}
    BY <1>2, <1>4, <2>1 DEF Stored
  <2> QED BY <1>2, <1>4, <2>1, <2>2
<1> QED BY <1>3, <1>4 DEF ServeSave, Refused

LEMMA ServeDeleteIs ==
    ASSUME IndInv, NEW q \in Slots, ServeDelete(q), NEW n, n = req[q].what.name
    PROVE  /\ n \in Names
           /\ \/ row' = row /\ req' = [req EXCEPT ![q] = Idle]
              \/ /\ n \in Stored
                 /\ Stored' = Stored \ {n}
                 /\ \A m \in Names \ {n} : row'[m] = row[m]
                 /\ Answer(q)
<1>1. /\ TypeOK /\ req[q] \in ReqState /\ req[q] # Idle /\ req[q].what.kind = "delete"
  BY DEF IndInv, TypeOK, ServeDelete, Sent, Idle
<1>2. n \in Names
  BY <1>1, ReqStates, RequestKinds
<1>3. CASE n \in Stored /\ row' = [row EXCEPT ![n] = None] /\ Answer(q)
  BY <1>1, <1>2, <1>3 DEF TypeOK, Stored
<1> QED BY <1>2, <1>3 DEF ServeDelete, Refused

LEMMA ServeCreateIs ==
    ASSUME IndInv, NEW q \in Slots, ServeCreate(q), NEW n, n = req[q].what.name
    PROVE  /\ n \in Names /\ Creating(q) /\ req[q].at = "sent"
           /\ \/ row' = row /\ req' = [req EXCEPT ![q] = Idle]
              \/ /\ n \notin Stored
                 /\ Stored' = Stored \cup {n}
                 /\ row'[n].stat = req[q].what.stat /\ row'[n].count = 0
                 /\ \A m \in Names \ {n} : row'[m] = row[m]
                 /\ Answer(q)
<1>1. /\ TypeOK /\ req[q] \in ReqState /\ req[q] # Idle /\ req[q].what.kind = "create"
      /\ req[q].at = "sent"
  BY DEF IndInv, TypeOK, ServeCreate, Sent, Idle
<1>2. n \in Names /\ req[q].what.stat \in Stats
  BY <1>1, ReqStates, RequestKinds
<1>3. CASE /\ n \notin Stored /\ Answer(q)
           /\ row' = [row EXCEPT ![n] = [stat |-> req[q].what.stat, count |-> 0]]
  <2>1. [stat |-> req[q].what.stat, count |-> 0] \in Row
    BY <1>2, CountSyncAssumption DEF Row
  <2>2. /\ row'[n] = [stat |-> req[q].what.stat, count |-> 0]
        /\ \A m \in Names \ {n} : row'[m] = row[m]
    BY <1>1, <1>2, <1>3 DEF TypeOK
  <2>3. row'[n] # None
    BY <2>1, <2>2, CountSyncAssumption
  <2>4. Stored' = Stored \cup {n}
    BY <1>2, <2>2, <2>3 DEF Stored
  <2> QED BY <1>1, <1>2, <1>3, <2>2, <2>4 DEF Creating
<1> QED BY <1>1, <1>2, <1>3 DEF ServeCreate, Refused, Creating

LEMMA OneRowKept ==
    ASSUME IndInv, OneRow, [Next]_vars
    PROVE  OneRow'
<1>1. CASE UNCHANGED row
  BY <1>1 DEF OneRow, Stored
<1>2. ASSUME NEW q \in Slots, ServeCounts(q) PROVE OneRow'
  BY <1>2, ServeCountsIs DEF OneRow
<1>3. ASSUME NEW q \in Slots, ServeSave(q) PROVE OneRow'
  <2>1. PICK old, new : old = req[q].what.old /\ new = req[q].what.new
    OBVIOUS
  <2>2. \/ row' = row
        \/ /\ old \in Stored /\ (new = old \/ new \notin Stored)
           /\ Stored' = (Stored \ {old}) \cup {new}
           /\ row'[new] = row[old]
           /\ \A n \in Names \ {old, new} : row'[n] = row[n]
    BY <1>3, <2>1, ServeSaveIs
  <2> QED BY <1>1, <2>2 DEF OneRow, Stored
<1>4. ASSUME NEW q \in Slots, ServeDelete(q) PROVE OneRow'
  <2>1. PICK n : n = req[q].what.name
    OBVIOUS
  <2>2. \/ row' = row
        \/ /\ Stored' = Stored \ {n}
           /\ \A m \in Names \ {n} : row'[m] = row[m]
    BY <1>4, <2>1, ServeDeleteIs
  <2> QED BY <1>1, <2>2 DEF OneRow, Stored
<1>5. ASSUME NEW q \in Slots, ServeCreate(q) PROVE OneRow'
  <2>1. PICK n : n = req[q].what.name
    OBVIOUS
  <2>2. /\ Creating(q) /\ req[q].at = "sent"
        /\ \/ row' = row
           \/ /\ Stored' = Stored \cup {n}
              /\ row'[n].stat = req[q].what.stat
              /\ \A m \in Names \ {n} : row'[m] = row[m]
    BY <1>5, <2>1, ServeCreateIs
  <2>3. \A m \in Stored : row[m].stat # req[q].what.stat
    BY <2>2 DEF IndInv, NewStats
  <2> QED BY <1>1, <2>2, <2>3 DEF OneRow, Stored
<1>6. UNCHANGED row \/ \E q \in Slots : Serve(q)
  BY DEF Next, vars, HandleFetchedData, UpdateCount, Leave, Killed, ClosePage, Tick, StartCreate,
         StartDelete, StartSave, Unauthorized, Retry, Fail, Finish, FinishSave, FinishDelete,
         FinishCreate
<1> QED BY <1>1, <1>2, <1>3, <1>4, <1>5, <1>6 DEF Serve

-------------------------------------------------------------------------------
(* What a calm page and the database have in common.                       *)
(*                                                                         *)
(* PageMatches and NothingLost speak of a moment when nothing is under     *)
(* way.  While requests are, page and rows differ by just what has been    *)
(* answered but not heard yet, and counts by just what was sent.           *)

Is(q, kind) == req[q] # Idle /\ req[q].what.kind = kind

\* No two requests under way are about the same name.
Apart ==
    \A p, q \in Slots : p # q /\ req[p] # Idle /\ req[q] # Idle =>
        NamesIn(req[p].what) \cap NamesIn(req[q].what) = {}

\* The page, as long as it is there, has the stat a request is about under its old name.
Known ==
    \A q \in Slots :
        /\ Is(q, "save") =>
              /\ open => NameKnown(req[q].what.editor, req[q].what.old)
              /\ editor[req[q].what.editor] # None =>
                    editor[req[q].what.editor].updater = req[q].what.old
        /\ Is(q, "delete") /\ open => NameKnown(req[q].what.editor, req[q].what.name)
        /\ req[q].at = "sent" /\ open => req[q].paged

Unanswered(n) == \A q \in Slots : req[q].at = "answered" => n \notin NamesIn(req[q].what)

\* Of a name that no answer on its way is about, page and database have the same stat.
Matches ==
    open => \A n \in Names : Unanswered(n) =>
        /\ \A s \in OnPage : page[s].name = n => n \in Stored /\ row[n].stat = s
        /\ n \in Stored => row[n].stat \in OnPage /\ page[row[n].stat].name = n

NamesApart == \A s, t \in OnPage : page[s].name = page[t].name => s = t

\* What the rows are like while the answer is on its way.
DoneSave(w) ==
    /\ w.new \in Stored /\ row[w.new].stat = w.editor[1]
    /\ w.new # w.old => w.old \notin Stored /\ \A t \in OnPage : page[t].name # w.new

DoneCreate(w) ==
    /\ w.name \in Stored /\ row[w.name].stat = w.stat
    /\ \A t \in OnPage : page[t].name # w.name

Done ==
    \A q \in Slots : req[q].at = "answered" =>
        /\ req[q].what.kind # "counts"
        /\ req[q].what.kind = "save" => DoneSave(req[q].what)
        /\ req[q].what.kind = "delete" => req[q].what.name \notin Stored
        /\ req[q].what.kind = "create" => DoneCreate(req[q].what)

ShowsCounted == \A s \in OnPage : counted[s] = page[s].present

Counting(q, n) == Is(q, "counts") /\ n \in DOMAIN req[q].what.body

\* The count that the page takes for saved; when it is gone, the last one counted there.
Expected(s) == IF s \in OnPage THEN page[s].count ELSE counted[s]

\* That count is on its way, or is in the row.
Arrives ==
    \A n \in Stored :
        /\ \A q \in Slots : Counting(q, n) => req[q].what.body[n] = Expected(row[n].stat)
        /\ (\A q \in Slots : ~Counting(q, n)) => row[n].count = Expected(row[n].stat)

Agreed ==
    /\ Apart
    /\ Known
    /\ Matches
    /\ NamesApart
    /\ Done
    /\ ShowsCounted
    /\ Arrives

LEMMA NamesOf ==
    ASSUME NEW w \in Request
    PROVE  /\ w.kind = "counts" => NamesIn(w) = DOMAIN w.body
           /\ w.kind = "save" => NamesIn(w) = {w.old, w.new}
           /\ w.kind \in {"delete", "create"} => NamesIn(w) = {w.name}
           /\ NamesIn(w) \subseteq Names
<1>1. w.kind = "counts" => DOMAIN w.body \subseteq Names
  BY RequestKinds
<1> QED BY <1>1, RequestKinds DEF NamesIn

\* A request that is under way, and what it is like.
LEMMA UnderWay ==
    ASSUME IndInv, NEW q \in Slots
    PROVE  /\ req[q] \in ReqState
           /\ req[q].at \in {"sent", "refresh", "answered"} <=> req[q] # Idle
           /\ req[q] # Idle => /\ req[q].what \in Request
                               /\ NamesIn(req[q].what) \subseteq Names
                               /\ req[q].at # "sent" => open
           /\ Is(q, "counts") => NamesIn(req[q].what) = DOMAIN req[q].what.body
           /\ Is(q, "save") => /\ req[q].what.editor \in Editors
                               /\ req[q].what.editor[1] \in Stats
                               /\ NamesIn(req[q].what) = {req[q].what.old, req[q].what.new}
           /\ Is(q, "delete") => /\ req[q].what.editor \in Editors
                                 /\ req[q].what.editor[1] \in Stats
                                 /\ NamesIn(req[q].what) = {req[q].what.name}
           /\ Creating(q) => /\ NamesIn(req[q].what) = {req[q].what.name}
                              /\ req[q].what.stat \in Stats
<1>1. req[q] \in ReqState /\ TypeOK
  BY DEF IndInv, TypeOK
<1>2. req[q].at \in {"sent", "refresh", "answered"} <=> req[q] # Idle
  BY <1>1, ReqStates
<1>3. req[q] # Idle => req[q].what \in Request /\ NamesIn(req[q].what) \subseteq Names
  BY <1>1, ReqStates, NamesOf
<1>4. req[q] # Idle /\ req[q].at # "sent" => open
  BY DEF IndInv, ClosedIsEmpty
<1>5. \A e \in Editors : e[1] \in Stats
  BY DEF Editors
<1> QED BY <1>1, <1>2, <1>3, <1>4, <1>5, NamesOf, RequestKinds DEF Is, Creating

\* The same requests, fewer of them, or one that has moved on without being answered.
LEMMA RequestMoves ==
    ASSUME IndInv, Agreed, NEW q \in Slots, NEW r \in ReqState,
           req' = [req EXCEPT ![q] = r],
           UNCHANGED <<row, open, page, editor, counted>>,
           req[q] # Idle, req[q].at # "answered", r.at # "answered",
           r # Idle => r.what = req[q].what,
           r = Idle => ~Is(q, "counts"),
           r.at = "sent" /\ open => r.paged
    PROVE  Agreed'
<1>1. /\ TypeOK /\ Apart /\ Known /\ Matches /\ NamesApart /\ Done /\ ShowsCounted /\ Arrives
  BY DEF IndInv, Agreed
<1>2. req'[q] = r /\ \A p \in Slots \ {q} : req'[p] = req[p]
  BY <1>1 DEF TypeOK
<1>3. \A p \in Slots : /\ req'[p] # Idle => req[p] # Idle /\ req'[p].what = req[p].what
                       /\ req'[p].at = "answered" <=> req[p].at = "answered"
                       /\ req'[p].at = "answered" => req'[p] = req[p]
  BY <1>2
<1>4. OnPage' = OnPage /\ Stored' = Stored
  BY DEF OnPage, Stored
<1>5. Apart'
  BY <1>1, <1>3 DEF Apart
<1>6. Known'
  BY <1>1, <1>2, <1>3, <1>4 DEF Known, Is, NameKnown
<1>7. Matches'
  BY <1>1, <1>3, <1>4 DEF Matches, Unanswered
<1>8. NamesApart' /\ ShowsCounted'
  BY <1>1, <1>4 DEF NamesApart, ShowsCounted
<1>9. Done'
  BY <1>1, <1>3, <1>4 DEF Done, DoneSave, DoneCreate
<1>10. Arrives'
  <2>1. \A p \in Slots, n \in Names : Counting(p, n)' <=> Counting(p, n)
    BY <1>2, <1>3 DEF Counting, Is
  <2>2. \A s \in Stats : Expected(s)' = Expected(s)
    BY <1>4 DEF Expected
  <2>3. \A n \in Stored : n \in Names /\ row[n].stat \in Stats
    BY <1>1 DEF TypeOK, Stored, Row
  <2>4. \A p \in Slots, n \in Stored : Counting(p, n)' => req'[p].what = req[p].what
    BY <1>3 DEF Counting, Is
  <2> QED BY <1>1, <1>4, <2>1, <2>2, <2>3, <2>4 DEF Arrives
<1> QED BY <1>5, <1>6, <1>7, <1>8, <1>9, <1>10 DEF Agreed

\* Sending a request about names that are nobody else's.
LEMMA RequestSent ==
    ASSUME IndInv, Agreed, NEW q \in Slots, NEW w \in Request,
           req[q] = Idle, ~Clash(w), w.kind # "counts",
           req' = [req EXCEPT ![q] = [at |-> "sent", what |-> w, paged |-> TRUE]],
           UNCHANGED <<row, open, page, editor, counted>>,
           w.kind = "save" => NameKnown(w.editor, w.old) /\ editor[w.editor].updater = w.old,
           w.kind = "delete" => NameKnown(w.editor, w.name)
    PROVE  Agreed'
<1>1. /\ TypeOK /\ Apart /\ Known /\ Matches /\ NamesApart /\ Done /\ ShowsCounted /\ Arrives
  BY DEF IndInv, Agreed
<1>2. /\ req'[q].at = "sent" /\ req'[q].what = w /\ req'[q].paged /\ req'[q] # Idle
      /\ \A p \in Slots \ {q} : req'[p] = req[p]
  BY <1>1 DEF TypeOK, Idle
<1>3. OnPage' = OnPage /\ Stored' = Stored
  BY DEF OnPage, Stored
<1>4. Apart'
  BY <1>1, <1>2 DEF Apart, Clash
<1>5. Known'
  BY <1>1, <1>2, <1>3 DEF Known, Is, NameKnown
<1>6. \A p \in Slots : /\ req'[p].at = "answered" <=> req[p].at = "answered"
                       /\ req'[p].at = "answered" => req'[p] = req[p]
  BY <1>2 DEF Idle
<1>7. Matches'
  BY <1>1, <1>3, <1>6 DEF Matches, Unanswered
<1>8. NamesApart' /\ ShowsCounted'
  BY <1>1, <1>3 DEF NamesApart, ShowsCounted
<1>9. Done'
  BY <1>1, <1>3, <1>6 DEF Done, DoneSave, DoneCreate
<1>10. Arrives'
  <2>1. \A p \in Slots, n \in Names : Counting(p, n)' <=> Counting(p, n)
    BY <1>2 DEF Counting, Is
  <2>2. \A s \in Stats : Expected(s)' = Expected(s)
    BY <1>3 DEF Expected
  <2>3. \A n \in Stored : n \in Names /\ row[n].stat \in Stats
    BY <1>1 DEF TypeOK, Stored, Row
  <2>4. \A p \in Slots, n \in Stored : Counting(p, n)' => req'[p].what = req[p].what
    BY <1>2 DEF Counting, Is
  <2> QED BY <1>1, <1>3, <2>1, <2>2, <2>3, <2>4 DEF Arrives
<1> QED BY <1>4, <1>5, <1>7, <1>8, <1>9, <1>10 DEF Agreed

LEMMA StartAgreed ==
    ASSUME IndInv, Agreed, NEW q \in Slots, NEW n \in Names, NEW e \in Editors,
           StartCreate(q, n) \/ StartSave(q, e, n) \/ StartDelete(q, e),
           calm'
    PROVE  Agreed'
<1>1. TypeOK /\ req[q] = Idle /\ UNCHANGED <<row, open, page, editor, counted>>
  BY DEF IndInv, StartCreate, StartSave, StartDelete
<1>2. CASE StartCreate(q, n)
  <2>1. asked + 1 \in Stats
    BY <1>1, <1>2, CountSyncAssumption DEF StartCreate, TypeOK, Stats
  <2>2. PICK w : w = [kind |-> "create", name |-> n, stat |-> asked + 1]
    OBVIOUS
  <2>3. w \in Request /\ w.kind = "create"
    BY <2>1, <2>2 DEF Request
  <2>4. /\ req' = [req EXCEPT ![q] = [at |-> "sent", what |-> w, paged |-> TRUE]]
        /\ ~Clash(w)
    BY <1>2, <2>2 DEF StartCreate, Send
  <2> QED BY <1>1, <2>3, <2>4, RequestSent
<1>3. CASE StartSave(q, e, n)
  <2>1. editor[e] \in Editor
    BY <1>1, <1>3 DEF StartSave, TypeOK
  <2>2. PICK w : w = [kind |-> "save", editor |-> e, old |-> editor[e].updater, new |-> n]
    OBVIOUS
  <2>3. /\ w \in Request /\ w.kind = "save" /\ w.editor = e /\ w.old = editor[e].updater
    BY <2>1, <2>2 DEF Request, Editor
  <2>4. /\ req' = [req EXCEPT ![q] = [at |-> "sent", what |-> w, paged |-> TRUE]]
        /\ ~Clash(w) /\ NameKnown(e, w.old)
    BY <1>3, <2>2 DEF StartSave, Send
  <2> QED BY <1>1, <2>3, <2>4, RequestSent
<1>4. CASE StartDelete(q, e)
  <2>1. editor[e] \in Editor
    BY <1>1, <1>4 DEF StartDelete, TypeOK
  <2>2. PICK w : w = [kind |-> "delete", editor |-> e, name |-> editor[e].deleter]
    OBVIOUS
  <2>3. /\ w \in Request /\ w.kind = "delete" /\ w.editor = e /\ w.name = editor[e].deleter
    BY <2>1, <2>2 DEF Request, Editor
  <2>4. /\ req' = [req EXCEPT ![q] = [at |-> "sent", what |-> w, paged |-> TRUE]]
        /\ ~Clash(w) /\ NameKnown(e, w.name)
    BY <1>4, <2>2 DEF StartDelete, Send
  <2> QED BY <1>1, <2>3, <2>4, RequestSent
<1> QED BY <1>2, <1>3, <1>4

\* updateCounts sends what was counted, under the names that the rows have.
LEMMA SavedArrives ==
    ASSUME IndInv, OneRow, Agreed, open, NEW f \in Bodies,
           ~Clash([kind |-> "counts", body |-> f]), NEW n \in Stored
    PROVE  /\ n \in DOMAIN f => /\ \A p \in Slots : ~Counting(p, n)
                                /\ f[n] = counted[row[n].stat]
           /\ n \notin DOMAIN f => Expected(row[n].stat) = counted[row[n].stat]
<1>1. /\ TypeOK /\ Matches /\ ShowsCounted /\ n \in Names /\ row[n].stat \in Stats
  BY DEF IndInv, Agreed, TypeOK, Stored, Row
<1>2. PICK w : /\ w = [kind |-> "counts", body |-> f]
               /\ w \in Request /\ NamesIn(w) = DOMAIN f /\ ~Clash(w)
  <2>1. [kind |-> "counts", body |-> f] \in Request
    BY <1>1, BodiesAreRequests
  <2> QED BY <2>1, NamesOf
<1>3. \A m \in DOMAIN f, p \in Slots : req[p] # Idle => m \notin NamesIn(req[p].what)
  BY <1>2 DEF Clash
<1>4. \A m \in DOMAIN f : Unanswered(m)
  BY <1>3, UnderWay DEF Unanswered
<1>5. /\ \A s \in Changed : s \in OnPage /\ page[s].name \in DOMAIN f
      /\ \A m \in DOMAIN f : \E s \in Changed : page[s].name = m /\ page[s].present = f[m]
      /\ \A s \in OnPage : page[s].name \in Names
  <2>1. \A s \in OnPage : page[s].name \in Names
    BY <1>1 DEF TypeOK, OnPage, PageStat
  <2> QED BY <2>1 DEF Bodies, Changed
<1>6. ASSUME n \in DOMAIN f
      PROVE  (\A p \in Slots : ~Counting(p, n)) /\ f[n] = counted[row[n].stat]
  <2>1. \A p \in Slots : ~Counting(p, n)
    BY <1>3, <1>6, UnderWay DEF Counting, Is
  <2>2. PICK s \in Changed : page[s].name = n /\ page[s].present = f[n]
    BY <1>5, <1>6
  <2>3. row[n].stat = s /\ s \in OnPage
    BY <1>1, <1>4, <1>5, <1>6, <2>2 DEF Matches
  <2> QED BY <1>1, <2>1, <2>2, <2>3 DEF ShowsCounted
<1>7. ASSUME n \notin DOMAIN f PROVE Expected(row[n].stat) = counted[row[n].stat]
  <2>1. row[n].stat \notin Changed
    <3>1. SUFFICES ASSUME row[n].stat \in Changed PROVE FALSE
      OBVIOUS
    <3>2. PICK m : m = page[row[n].stat].name
      OBVIOUS
    <3>3. m \in DOMAIN f /\ m \in Names /\ row[n].stat \in OnPage
      BY <1>5, <3>1, <3>2
    <3>4. m \in Stored /\ row[m].stat = row[n].stat
      BY <1>1, <1>4, <3>2, <3>3 DEF Matches
    <3> QED BY <1>7, <3>3, <3>4 DEF OneRow
  <2> QED BY <1>1, <2>1 DEF Expected, ShowsCounted, Changed
<1> QED BY <1>6, <1>7

LEMMA TickAgreed ==
    ASSUME IndInv, OneRow, Agreed, NEW q \in Slots, Tick(q), calm'
    PROVE  Agreed'
<1>1. PICK f \in Bodies :
         /\ req' = [req EXCEPT ![q] = [at |-> "sent", what |-> [kind |-> "counts", body |-> f],
                                       paged |-> TRUE]]
         /\ ~Clash([kind |-> "counts", body |-> f])
  BY DEF Tick, Send
<1>2. /\ TypeOK /\ Apart /\ Known /\ Matches /\ NamesApart /\ Done /\ ShowsCounted /\ Arrives
      /\ page' = Saved /\ Changed # {} /\ req[q] = Idle
      /\ UNCHANGED <<row, open, editor, counted>>
  BY DEF Tick, IndInv, Agreed
<1>3. PICK w : /\ w = [kind |-> "counts", body |-> f]
               /\ w \in Request /\ NamesIn(w) = DOMAIN f /\ ~Clash(w)
               /\ w.kind = "counts" /\ w.body = f
  BY <1>1, <1>2, BodiesAreRequests, NamesOf
<1>4. /\ req'[q].at = "sent" /\ req'[q].what = w /\ req'[q].paged /\ req'[q] # Idle
      /\ \A p \in Slots \ {q} : req'[p] = req[p]
  BY <1>1, <1>2, <1>3 DEF TypeOK, Idle
<1>5. open
  BY <1>2 DEF IndInv, ClosedIsEmpty, NoPage, Changed, OnPage
<1>6. /\ OnPage' = OnPage /\ Stored' = Stored
      /\ \A s \in OnPage : /\ page'[s].name = page[s].name
                           /\ page'[s].present = page[s].present
                           /\ page'[s].count = page[s].present
  <2>1. OnPage' = OnPage /\ Stored' = Stored
    BY <1>2, SavedInStep DEF Stored
  <2>2. ASSUME NEW s \in OnPage
        PROVE  /\ page'[s].name = page[s].name
               /\ page'[s].present = page[s].present
               /\ page'[s].count = page[s].present
    <3>1. page[s] \in PageStat /\ s \in Stats
      BY <1>2, <2>2 DEF TypeOK, OnPage
    <3>2. CASE s \in Changed
      <4>1. page'[s] = [page[s] EXCEPT !.progress = @ + page[s].present - page[s].count,
                                       !.count = page[s].present]
        BY <1>2, <3>1, <3>2 DEF Saved
      <4> QED BY <3>1, <4>1 DEF PageStat
    <3>3. CASE s \notin Changed
      BY <1>2, <3>1, <3>3, <2>2 DEF Saved, Changed
    <3> QED BY <3>2, <3>3
  <2> QED BY <2>1, <2>2
<1>7. Apart'
  BY <1>2, <1>3, <1>4 DEF Apart, Clash
<1>8. Known'
  BY <1>2, <1>3, <1>4, <1>6 DEF Known, Is, NameKnown
<1>9. \A p \in Slots : /\ req'[p].at = "answered" <=> req[p].at = "answered"
                       /\ req'[p].at = "answered" => req'[p] = req[p]
  BY <1>2, <1>4 DEF Idle
<1>10. Matches'
  BY <1>2, <1>6, <1>9 DEF Matches, Unanswered
<1>11. NamesApart' /\ ShowsCounted'
  BY <1>2, <1>6 DEF NamesApart, ShowsCounted
<1>12. Done'
  BY <1>2, <1>6, <1>9 DEF Done, DoneSave, DoneCreate
<1>13. Arrives'
  <2>1. ASSUME NEW n \in Stored
        PROVE  /\ \A p \in Slots : Counting(p, n)' => req'[p].what.body[n] = Expected(row[n].stat)'
               /\ (\A p \in Slots : ~Counting(p, n)') => row[n].count = Expected(row[n].stat)'
    <3>1. /\ n \in DOMAIN f => /\ \A p \in Slots : ~Counting(p, n)
                               /\ f[n] = counted[row[n].stat]
          /\ n \notin DOMAIN f => Expected(row[n].stat) = counted[row[n].stat]
      BY <1>1, <1>2, <1>5, SavedArrives
    <3>2. Expected(row[n].stat)' = counted[row[n].stat]
      BY <1>2, <1>6 DEF Expected, ShowsCounted
    <3>3. Counting(q, n)' <=> n \in DOMAIN f
      BY <1>3, <1>4 DEF Counting, Is
    <3>4. \A p \in Slots \ {q} : Counting(p, n)' <=> Counting(p, n)
      BY <1>4 DEF Counting, Is
    <3>5. ~Counting(q, n)
      BY <1>2 DEF Counting, Is
    <3> QED BY <1>2, <1>3, <1>4, <3>1, <3>2, <3>3, <3>4, <3>5 DEF Arrives
  <2> QED BY <1>2, <1>6, <2>1 DEF Arrives
<1> QED BY <1>7, <1>8, <1>10, <1>11, <1>12, <1>13 DEF Agreed

LEMMA UpdateCountAgreed ==
    ASSUME IndInv, Agreed, NEW s \in Stats, NEW x \in Progress, UpdateCount(s, x)
    PROVE  Agreed'
<1>1. /\ TypeOK /\ Apart /\ Known /\ Matches /\ NamesApart /\ Done /\ ShowsCounted /\ Arrives
      /\ page[s] \in PageStat /\ s \in OnPage
      /\ UNCHANGED <<row, open, editor, req>>
  BY DEF IndInv, Agreed, TypeOK, UpdateCount, OnPage
<1>2. PICK present \in Counts :
         /\ page' = [page EXCEPT ![s].input = x, ![s].present = present]
         /\ counted' = [counted EXCEPT ![s] = present]
  BY DEF UpdateCount
<1>3. /\ page'[s] = [page[s] EXCEPT !.input = x, !.present = present]
      /\ \A t \in Stats \ {s} : page'[t] = page[t] /\ counted'[t] = counted[t]
      /\ counted'[s] = present
  BY <1>1, <1>2 DEF TypeOK
<1>4. /\ page'[s].name = page[s].name /\ page'[s].present = present
      /\ page'[s].count = page[s].count /\ page'[s] # None
  <2>1. x \in Int
    BY CountsAreInts DEF Progress
  <2>2. page'[s] \in PageStat
    BY <1>1, <1>3, <2>1 DEF PageStat
  <2> QED BY <1>1, <1>3, <2>2, CountSyncAssumption DEF PageStat
<1>5. /\ OnPage' = OnPage /\ Stored' = Stored
      /\ \A t \in OnPage : page'[t].name = page[t].name /\ page'[t].count = page[t].count
  BY <1>1, <1>3, <1>4 DEF OnPage, Stored
<1>6. Apart' /\ Known'
  BY <1>1, <1>5 DEF Apart, Known, Is, NameKnown
<1>7. Matches' /\ NamesApart'
  BY <1>1, <1>5 DEF Matches, Unanswered, NamesApart
<1>8. Done'
  BY <1>1, <1>5 DEF Done, DoneSave, DoneCreate
<1>9. ShowsCounted'
  BY <1>1, <1>3, <1>4, <1>5 DEF ShowsCounted, OnPage
<1>10. Arrives'
  <2>1. \A t \in Stats : Expected(t)' = Expected(t)
    BY <1>1, <1>3, <1>5 DEF Expected
  <2>2. \A n \in Stored : row[n].stat \in Stats
    BY <1>1 DEF TypeOK, Stored, Row
  <2>3. \A p \in Slots, n \in Stored : Counting(p, n)' <=> Counting(p, n)
    BY <1>1 DEF Counting, Is
  <2> QED BY <1>1, <1>5, <2>1, <2>2, <2>3 DEF Arrives
<1> QED BY <1>6, <1>7, <1>8, <1>9, <1>10 DEF Agreed

\* A page that comes while nothing is under way.
LEMMA FetchedAgreed ==
    ASSUME IndInv, OneRow, Agreed, HandleFetchedData, calm'
    PROVE  Agreed'
<1>1. /\ TypeOK /\ Arrives /\ OnPage = {}
      /\ \A q \in Slots : req[q] = Idle /\ req'[q] = Idle
      /\ UNCHANGED <<row, req, counted>>
  <2>1. ~open /\ Quiet /\ UNCHANGED <<row, req, counted>>
    BY DEF HandleFetchedData
  <2>2. TypeOK /\ Arrives /\ page = NoPage
    BY <2>1 DEF IndInv, Agreed, ClosedIsEmpty
  <2>3. OnPage = {}
    BY <2>2 DEF OnPage, NoPage
  <2> QED BY <2>1, <2>2, <2>3 DEF Quiet
<1>2. PICK last \in [Stored -> Counts] :
         page' = [s \in Stats |->
                     IF \E n \in Stored : row[n].stat = s
                     THEN LET n == CHOOSE n \in Stored : row[n].stat = s
                          IN  NewPageStat(n, row[n].count, row[n].count - last[n])
                     ELSE None]
  BY DEF HandleFetchedData
<1>3. \A n \in Stored : row[n].stat \in Stats /\ row[n].count = counted[row[n].stat]
  BY <1>1 DEF TypeOK, Stored, Row, Arrives, Counting, Is, Expected
<1>4. ASSUME NEW n \in Stored
      PROVE  /\ row[n].stat \in OnPage'
             /\ page'[row[n].stat].name = n
             /\ page'[row[n].stat].count = row[n].count
             /\ page'[row[n].stat].present = row[n].count
  <2>1. PICK s \in Stats : s = row[n].stat
    BY <1>3
  <2>2. (CHOOSE m \in Stored : row[m].stat = s) = n
    BY <2>1 DEF OneRow
  <2>3. page'[s] = NewPageStat(n, row[n].count, row[n].count - last[n])
    BY <1>2, <2>1, <2>2
  <2>4. page'[s] \in PageStat
    <3>1. row[n].count \in Int /\ last[n] \in Int /\ row[n].count \in Counts /\ n \in Names
      BY <1>1, CountsAreInts DEF TypeOK, Stored, Row
    <3>2. row[n].count - last[n] \in Int
      BY <3>1
    <3> QED BY <2>3, <3>1, <3>2 DEF NewPageStat, PageStat
  <2> QED BY <2>1, <2>3, <2>4, CountSyncAssumption DEF NewPageStat, OnPage
<1>5. \A s \in OnPage' : \E n \in Stored : row[n].stat = s
  BY <1>2 DEF OnPage
<1>6. Stored' = Stored
  BY <1>1 DEF Stored
<1>7. Apart' /\ Known' /\ Done'
  <2>1. \A q \in Slots : req'[q].at = "idle"
    BY <1>1 DEF Idle
  <2> QED BY <1>1, <2>1 DEF Apart, Known, Done, Is
<1>8. Matches' /\ NamesApart'
  <2>1. \A n \in Stored : row'[n].stat \in OnPage' /\ page'[row'[n].stat].name = n
    BY <1>1, <1>4
  <2>2. ASSUME NEW s \in OnPage'
        PROVE  page'[s].name \in Stored /\ row'[page'[s].name].stat = s
    <3>1. PICK n \in Stored : row[n].stat = s
      BY <1>5
    <3> QED BY <1>1, <1>4, <3>1
  <2>3. NamesApart'
    BY <2>2 DEF NamesApart
  <2>4. \A s \in OnPage', n \in Names : page'[s].name = n => n \in Stored /\ row'[n].stat = s
    BY <2>2
  <2> QED BY <1>6, <2>1, <2>3, <2>4 DEF Matches
<1>9. ShowsCounted'
  BY <1>1, <1>3, <1>4, <1>5 DEF ShowsCounted
<1>10. Arrives'
  BY <1>1, <1>3, <1>4, <1>6 DEF Arrives, Counting, Is, Expected
<1> QED BY <1>7, <1>8, <1>9, <1>10 DEF Agreed

\* Leaving the page while nobody waits for a refresh or an answer: the requests go on.
LEMMA CloseAgreed ==
    ASSUME IndInv, OneRow, Agreed, calm', Leave \/ Killed
    PROVE  Agreed'
<1>1. /\ TypeOK /\ Apart /\ ShowsCounted /\ Arrives /\ open
      /\ ~open' /\ OnPage' = {} /\ editor' = NoEditor
      /\ UNCHANGED <<row, counted>> /\ Stored' = Stored
      /\ \A p \in Slots : req[p].at \in {"idle", "sent"}
  <2>1. ClosePage /\ \A p \in Slots : req[p].at \in {"idle", "sent"}
    BY DEF Leave, Killed
  <2> QED BY <2>1 DEF IndInv, Agreed, ClosePage, OnPage, NoPage, Stored
<1>2. \A p \in Slots : LET r == WithoutPage(req[p])
                       IN  /\ r.at \in {"idle", "sent"}
                           /\ r # Idle <=> req[p] # Idle
                           /\ r # Idle => r.what = req[p].what
  BY <1>1, UnderWay DEF WithoutPage, Idle
<1>3. \A s \in Stats : Expected(s)' = counted[s]
  BY <1>1 DEF Expected
<1>4. \A n \in Stored : row[n].stat \in Stats /\ n \in Names
  BY <1>1 DEF TypeOK, Stored, Row
<1>5. CASE Changed = {} /\ req' = [p \in Slots |-> WithoutPage(req[p])]
  <2>1. \A p \in Slots : /\ req'[p].at \in {"idle", "sent"}
                         /\ req'[p] # Idle <=> req[p] # Idle
                         /\ req'[p] # Idle => req'[p].what = req[p].what
    BY <1>2, <1>5
  <2>2. \A p \in Slots, n \in Names : Counting(p, n)' <=> Counting(p, n)
    BY <2>1 DEF Counting, Is
  <2>3. \A s \in Stats : Expected(s) = counted[s]
    BY <1>1, <1>5 DEF Expected, ShowsCounted, Changed
  <2>4. Arrives'
    BY <1>1, <1>3, <1>4, <2>1, <2>2, <2>3 DEF Arrives, Counting, Is
  <2>5. Apart' /\ Done'
    BY <1>1, <2>1 DEF Apart, Done
  <2>6. Known'
    BY <1>1, <2>1, UnderWay DEF Known, Is, NoEditor
  <2> QED
    BY <1>1, <2>4, <2>5, <2>6 DEF Agreed, Matches, NamesApart, ShowsCounted
<1>6. ASSUME NEW q \in Slots, NEW f \in Bodies, req[q] = Idle,
             ~Clash([kind |-> "counts", body |-> f]),
             req' = [[p \in Slots |-> WithoutPage(req[p])] EXCEPT ![q] =
                       [at |-> "sent", what |-> [kind |-> "counts", body |-> f],
                        paged |-> FALSE]]
      PROVE  Agreed'
  <2>1. PICK w : /\ w = [kind |-> "counts", body |-> f]
                 /\ w \in Request /\ NamesIn(w) = DOMAIN f /\ ~Clash(w)
                 /\ w.kind = "counts" /\ w.body = f
    BY <1>1, <1>6, BodiesAreRequests, NamesOf
  <2>2. /\ req'[q].at = "sent" /\ req'[q].what = w /\ req'[q] # Idle
        /\ \A p \in Slots \ {q} : req'[p] = WithoutPage(req[p])
    BY <1>6, <2>1 DEF Idle
  <2>3. \A p \in Slots \ {q} : /\ req'[p].at \in {"idle", "sent"}
                               /\ req'[p] # Idle <=> req[p] # Idle
                               /\ req'[p] # Idle => req'[p].what = req[p].what
    BY <1>2, <2>2
  <2>4. Apart'
    BY <1>1, <2>1, <2>2, <2>3 DEF Apart, Clash
  <2>5. Done'
    BY <2>2, <2>3 DEF Done
  <2>6. Known'
    BY <1>1, <2>1, <2>2, <2>3, UnderWay DEF Known, Is, NoEditor
  <2>7. ASSUME NEW n \in Stored
        PROVE  /\ \A p \in Slots : Counting(p, n)' => req'[p].what.body[n] = Expected(row[n].stat)'
               /\ (\A p \in Slots : ~Counting(p, n)') => row[n].count = Expected(row[n].stat)'
    <3>1. /\ n \in DOMAIN f => /\ \A p \in Slots : ~Counting(p, n)
                               /\ f[n] = counted[row[n].stat]
          /\ n \notin DOMAIN f => Expected(row[n].stat) = counted[row[n].stat]
      BY <1>1, <1>6, SavedArrives
    <3>2. Expected(row[n].stat)' = counted[row[n].stat]
      BY <1>1, <1>3, <1>4
    <3>3. Counting(q, n)' <=> n \in DOMAIN f
      BY <2>1, <2>2 DEF Counting, Is
    <3>4. \A p \in Slots \ {q} : Counting(p, n)' <=> Counting(p, n)
      BY <2>3 DEF Counting, Is
    <3>5. ~Counting(q, n)
      BY <1>6 DEF Counting, Is
    <3>6. \A p \in Slots \ {q} : Counting(p, n) => req'[p].what = req[p].what
      BY <2>3 DEF Counting, Is
    <3> QED BY <1>1, <2>1, <2>2, <3>1, <3>2, <3>3, <3>4, <3>5, <3>6 DEF Arrives
  <2>8. Arrives'
    BY <1>1, <2>7 DEF Arrives
  <2> QED
    BY <1>1, <2>4, <2>5, <2>6, <2>8 DEF Agreed, Matches, NamesApart, ShowsCounted
<1> QED BY <1>5, <1>6 DEF Leave, Killed

\* The counts are in the database.
LEMMA ServeCountsAgreed ==
    ASSUME IndInv, Agreed, NEW q \in Slots, ServeCounts(q)
    PROVE  Agreed'
<1>1. /\ TypeOK /\ Apart /\ Known /\ Matches /\ NamesApart /\ Done /\ ShowsCounted /\ Arrives
      /\ UNCHANGED <<open, page, editor, counted>> /\ Is(q, "counts")
      /\ req' = [req EXCEPT ![q] = Idle]
  BY DEF IndInv, Agreed, ServeCounts, Sent, Is, Idle
<1>2. req'[q] = Idle /\ Idle.at = "idle" /\ \A p \in Slots \ {q} : req'[p] = req[p]
  BY <1>1 DEF TypeOK, Idle
<1>3. PICK b : b = req[q].what.body
  OBVIOUS
<1>4. /\ Stored' = Stored /\ OnPage' = OnPage
      /\ \A n \in Stored : row'[n].stat = row[n].stat
      /\ \A n \in Stored : row'[n].count = IF n \in DOMAIN b THEN b[n] ELSE row[n].count
  BY <1>1, <1>3, ServeCountsIs DEF OnPage
<1>5. Apart' /\ Known'
  <2>1. \A p \in Slots : req'[p] # Idle => req'[p] = req[p]
    BY <1>2
  <2>2. Apart'
    BY <1>1, <2>1 DEF Apart
  <2>3. \A p \in Slots : req'[p].at = "sent" => req'[p] = req[p]
    BY <1>2
  <2>4. Known'
    BY <1>1, <1>4, <2>1, <2>3 DEF Known, Is, NameKnown
  <2> QED BY <2>2, <2>4
<1>6. \A p \in Slots : req[p].at = "answered" => req'[p] = req[p] /\ req[p] # Idle
  <2>1. \A p \in Slots : req[p].at = "answered" => req[p].what.kind # "counts" /\ req[p] # Idle
    BY <1>1 DEF Done, Idle
  <2> QED BY <1>1, <1>2, <2>1 DEF Is
<1>7. Matches'
  BY <1>1, <1>2, <1>4, <1>6 DEF Matches, Unanswered
<1>8. NamesApart' /\ ShowsCounted'
  BY <1>1, <1>4 DEF NamesApart, ShowsCounted
<1>9. Done'
  BY <1>1, <1>2, <1>4 DEF Done, DoneSave, DoneCreate
<1>10. Arrives'
  <2>1. ASSUME NEW n \in Stored
        PROVE  /\ \A p \in Slots : Counting(p, n)' =>
                     req'[p].what.body[n] = Expected(row[n].stat)'
               /\ (\A p \in Slots : ~Counting(p, n)') => row'[n].count = Expected(row[n].stat)'
    <3>1. Expected(row[n].stat)' = Expected(row[n].stat)
      BY <1>1, <1>4 DEF Expected
    <3>2. ~Counting(q, n)' /\ \A p \in Slots \ {q} : Counting(p, n)' <=> Counting(p, n)
      BY <1>2 DEF Counting, Is
    <3>3. Counting(q, n) <=> n \in DOMAIN b
      BY <1>1, <1>3 DEF Counting
    <3> QED BY <1>1, <1>2, <1>3, <1>4, <3>1, <3>2, <3>3 DEF Arrives
  <2> QED BY <1>4, <2>1 DEF Arrives
<1> QED BY <1>5, <1>7, <1>8, <1>9, <1>10 DEF Agreed

\* The server has done what was asked for and answers, if somebody is there to hear it.
LEMMA AnswerAgreed ==
    ASSUME IndInv, Agreed, NEW q \in Slots, NEW w, w = req[q].what,
           req[q].at = "sent", ~Is(q, "counts"), Answer(q),
           UNCHANGED <<open, page, editor, counted>>,
           \A n \in Names \ NamesIn(w) : row'[n] = row[n],
           \A n \in Stored' \cap NamesIn(w) : row'[n].count = Expected(row'[n].stat),
           open => /\ w.kind = "save" => DoneSave(w)'
                   /\ w.kind = "delete" => w.name \notin Stored'
                   /\ w.kind = "create" => DoneCreate(w)'
    PROVE  Agreed'
<1>1. /\ TypeOK /\ Apart /\ Known /\ Matches /\ NamesApart /\ Done /\ ShowsCounted /\ Arrives
      /\ req[q] # Idle /\ OnPage' = OnPage
  BY DEF IndInv, Agreed, OnPage, Idle
<1>2. /\ \A p \in Slots \ {q} : req'[p] = req[p]
      /\ req'[q] # Idle => req'[q].at = "answered" /\ req'[q].what = w
      /\ open <=> req'[q] # Idle
      /\ req'[q].at # "sent"
  <2>1. req[q].paged <=> open
    BY <1>1, UnderWay DEF Known, IndInv, ClosedIsEmpty, ReqState
  <2>2. CASE open
    <3>1. req' = [req EXCEPT ![q] = [at |-> "answered", what |-> w]]
      BY <2>1, <2>2 DEF Answer
    <3> QED BY <1>1, <2>2, <3>1 DEF TypeOK, Idle
  <2>3. CASE ~open
    <3>1. req' = [req EXCEPT ![q] = Idle]
      BY <2>1, <2>3 DEF Answer
    <3> QED BY <1>1, <2>3, <3>1 DEF TypeOK, Idle
  <2> QED BY <2>2, <2>3
<1>3. \A p \in Slots : /\ req'[p] # Idle => req[p] # Idle /\ req'[p].what = req[p].what
                       /\ req'[p].at = "sent" => req'[p] = req[p]
  BY <1>1, <1>2
<1>4. \A p \in Slots \ {q} : req[p] # Idle => /\ NamesIn(req[p].what) \cap NamesIn(w) = {}
                                             /\ NamesIn(req[p].what) \subseteq Names
  BY <1>1, UnderWay DEF Apart
<1>5. Apart'
  BY <1>1, <1>3 DEF Apart
<1>6. Known'
  BY <1>1, <1>3 DEF Known, Is, NameKnown
<1>7. NamesApart' /\ ShowsCounted'
  BY <1>1 DEF NamesApart, ShowsCounted
<1>8. \A n \in Names \ NamesIn(w) : n \in Stored' <=> n \in Stored
  BY DEF Stored
<1>9. Matches'
  <2>1. SUFFICES ASSUME open, NEW n \in Names, Unanswered(n)'
                 PROVE  /\ \A s \in OnPage : page[s].name = n => n \in Stored' /\ row'[n].stat = s
                        /\ n \in Stored' => row'[n].stat \in OnPage /\ page[row'[n].stat].name = n
    BY <1>1 DEF Matches
  <2>2. n \notin NamesIn(w)
    BY <1>2, <2>1 DEF Unanswered
  <2>3. Unanswered(n)
    BY <1>2, <2>1, <2>2 DEF Unanswered
  <2> QED BY <1>1, <1>8, <2>1, <2>2, <2>3 DEF Matches
<1>10. Done'
  <2>1. ASSUME NEW p \in Slots \ {q}, req'[p].at = "answered"
        PROVE  /\ req'[p].what.kind # "counts"
               /\ req'[p].what.kind = "save" => DoneSave(req[p].what)'
               /\ req'[p].what.kind = "delete" => req'[p].what.name \notin Stored'
               /\ req'[p].what.kind = "create" => DoneCreate(req[p].what)'
    <3>1. PICK v : v = req[p].what
      OBVIOUS
    <3>2. /\ req'[p] = req[p] /\ req[p] # Idle /\ req[p].at = "answered"
          /\ v.kind # "counts"
          /\ v.kind = "save" => DoneSave(v)
          /\ v.kind = "delete" => v.name \notin Stored
          /\ v.kind = "create" => DoneCreate(v)
      BY <1>1, <1>2, <2>1, <3>1 DEF Done, Idle
    <3>3. /\ v.kind = "save" => {v.old, v.new} \subseteq Names \ NamesIn(w)
          /\ v.kind = "delete" => v.name \in Names \ NamesIn(w)
          /\ v.kind = "create" => v.name \in Names \ NamesIn(w)
      <4>1. /\ v.kind = "save" => NamesIn(v) = {v.old, v.new}
            /\ v.kind \in {"delete", "create"} => NamesIn(v) = {v.name}
        BY <3>1, <3>2, UnderWay, NamesOf
      <4>2. NamesIn(v) \subseteq Names \ NamesIn(w)
        BY <1>4, <3>1, <3>2
      <4> QED BY <4>1, <4>2
    <3>4. v.kind = "save" => DoneSave(v)'
      BY <1>1, <1>8, <3>2, <3>3 DEF DoneSave
    <3>5. v.kind = "delete" => v.name \notin Stored'
      BY <1>8, <3>2, <3>3
    <3>6. v.kind = "create" => DoneCreate(v)'
      BY <1>1, <1>8, <3>2, <3>3 DEF DoneCreate
    <3>7. req'[p].what = v
      BY <3>1, <3>2
    <3>8. DoneSave(req[p].what)' <=> DoneSave(v)'
      BY <3>7 DEF DoneSave
    <3>9. DoneCreate(req[p].what)' <=> DoneCreate(v)'
      BY <3>7 DEF DoneCreate
    <3> QED BY <3>2, <3>4, <3>5, <3>6, <3>7, <3>8, <3>9
  <2>2. req'[q].at = "answered" => req'[q] # Idle
    BY DEF Idle
  <2>3. ASSUME req'[q].at = "answered"
        PROVE  /\ req'[q].what.kind # "counts"
               /\ req'[q].what.kind = "save" => DoneSave(req[q].what)'
               /\ req'[q].what.kind = "delete" => req'[q].what.name \notin Stored'
               /\ req'[q].what.kind = "create" => DoneCreate(req[q].what)'
    <3>1. open
      BY <1>2, <2>2, <2>3
    <3>2. req'[q].what = w
      BY <1>2, <2>2, <2>3
    <3>3. /\ w.kind # "counts"
          /\ w.kind = "save" => DoneSave(w)'
          /\ w.kind = "delete" => w.name \notin Stored'
          /\ w.kind = "create" => DoneCreate(w)'
      BY <1>1, <3>1 DEF Is
    <3>4. DoneSave(req[q].what)' <=> DoneSave(w)'
      BY <3>2 DEF DoneSave
    <3>5. DoneCreate(req[q].what)' <=> DoneCreate(w)'
      BY <3>2 DEF DoneCreate
    <3> QED BY <3>2, <3>3, <3>4, <3>5
  <2> QED BY <2>1, <2>3 DEF Done
<1>11. Arrives'
  <2>1. ASSUME NEW n \in Stored'
        PROVE  /\ \A p \in Slots : Counting(p, n)' =>
                     req'[p].what.body[n] = Expected(row[n].stat)'
               /\ (\A p \in Slots : ~Counting(p, n)') => row'[n].count = Expected(row[n].stat)'
    <3>1. Expected(row[n].stat)' = Expected(row'[n].stat)
      BY <1>1 DEF Expected
    <3>2. \A p \in Slots : /\ Counting(p, n)' <=> Counting(p, n)
                           /\ Counting(p, n) => p # q /\ req'[p] = req[p]
      BY <1>2, <1>1 DEF Counting, Is
    <3>3. CASE n \in NamesIn(w)
      <4>1. \A p \in Slots : ~Counting(p, n)
        BY <1>4, <3>2, <3>3, UnderWay DEF Counting, Is
      <4> QED BY <2>1, <3>1, <3>2, <3>3, <4>1
    <3>4. CASE n \notin NamesIn(w)
      <4>1. n \in Stored /\ row'[n] = row[n]
        BY <1>8, <2>1, <3>4 DEF Stored
      <4> QED BY <1>1, <3>1, <3>2, <4>1 DEF Arrives
    <3> QED BY <3>3, <3>4
  <2> QED BY <2>1 DEF Arrives
<1> QED BY <1>5, <1>6, <1>7, <1>9, <1>10, <1>11 DEF Agreed

\* A request that is being served is alone with its names: page and rows agree on them.
LEMMA ServedNames ==
    ASSUME IndInv, Agreed, NEW q \in Slots, req[q].at = "sent", NEW n \in NamesIn(req[q].what)
    PROVE  /\ n \in Names
           /\ \A p \in Slots \ {q} : req[p] # Idle => n \notin NamesIn(req[p].what)
           /\ ~Is(q, "counts") => \A p \in Slots : ~Counting(p, n)
           /\ open => /\ \A s \in OnPage : page[s].name = n => n \in Stored /\ row[n].stat = s
                      /\ n \in Stored => row[n].stat \in OnPage /\ page[row[n].stat].name = n
<1>1. req[q] # Idle /\ Apart /\ Matches
  BY DEF Agreed, Idle
<1>2. n \in Names
  BY <1>1, UnderWay
<1>3. \A p \in Slots \ {q} : req[p] # Idle => n \notin NamesIn(req[p].what)
  BY <1>1 DEF Apart
<1>4. ~Is(q, "counts") => \A p \in Slots : ~Counting(p, n)
  BY <1>3, UnderWay DEF Counting, Is
<1>5. Unanswered(n)
  BY <1>3 DEF Unanswered, Idle
<1> QED BY <1>1, <1>2, <1>3, <1>4, <1>5 DEF Matches

LEMMA RefusedAgreed ==
    ASSUME IndInv, Agreed, NEW q \in Slots, req[q].at = "sent", ~Is(q, "counts"),
           row' = row, req' = [req EXCEPT ![q] = Idle],
           UNCHANGED <<open, page, editor, counted>>
    PROVE  Agreed'
<1>1. Idle \in ReqState /\ Idle.at = "idle" /\ req[q] # Idle
  BY DEF ReqState, Idle
<1> QED BY <1>1, RequestMoves

LEMMA ServeSaveAgreed ==
    ASSUME IndInv, OneRow, Agreed, NEW q \in Slots, ServeSave(q)
    PROVE  Agreed'
<1>1. /\ TypeOK /\ Known /\ NamesApart /\ Arrives
      /\ req[q].at = "sent" /\ Is(q, "save") /\ ~Is(q, "counts")
      /\ UNCHANGED <<open, page, editor, counted>>
  BY DEF IndInv, Agreed, ServeSave, Sent, Is, Idle
<1>2. PICK w : w = req[q].what
  OBVIOUS
<1>3. NamesIn(w) = {w.old, w.new}
  BY <1>1, <1>2, UnderWay
<1>4. CASE row' = row /\ req' = [req EXCEPT ![q] = Idle]
  BY <1>1, <1>4, RefusedAgreed
<1>5. CASE /\ w.old \in Stored /\ (w.new = w.old \/ w.new \notin Stored)
           /\ Stored' = (Stored \ {w.old}) \cup {w.new}
           /\ row'[w.new] = row[w.old]
           /\ \A n \in Names \ {w.old, w.new} : row'[n] = row[n]
           /\ Answer(q)
  <2>1. \A n \in Stored' \cap NamesIn(w) : row'[n].count = Expected(row'[n].stat)
    <3>1. \A p \in Slots : ~Counting(p, w.old)
      BY <1>1, <1>2, <1>3, ServedNames
    <3>2. row[w.old].count = Expected(row[w.old].stat)
      BY <1>1, <1>5, <3>1 DEF Arrives
    <3>3. \A n \in Stored' \cap NamesIn(w) : n = w.new
      BY <1>3, <1>5 DEF Stored
    <3> QED BY <1>5, <3>2, <3>3
  <2>2. ASSUME open PROVE DoneSave(w)'
    <3>1. NameKnown(w.editor, w.old)
      BY <1>1, <1>2, <2>2 DEF Known
    <3>2. row[w.old].stat = w.editor[1]
      BY <1>1, <1>2, <1>3, <2>2, <3>1, ServedNames DEF NameKnown
    <3>3. w.new # w.old => \A t \in OnPage : page[t].name # w.new
      BY <1>1, <1>2, <1>3, <1>5, <2>2, ServedNames
    <3>4. OnPage' = OnPage /\ page' = page
      BY <1>1 DEF OnPage
    <3> QED BY <1>5, <3>2, <3>3, <3>4 DEF DoneSave
  <2>3. w.kind = "save"
    BY <1>1, <1>2 DEF Is
  <2> QED BY <1>1, <1>2, <1>3, <1>5, <2>1, <2>2, <2>3, AnswerAgreed
<1> QED BY <1>2, <1>4, <1>5, ServeSaveIs

LEMMA ServeDeleteAgreed ==
    ASSUME IndInv, Agreed, NEW q \in Slots, ServeDelete(q)
    PROVE  Agreed'
<1>1. /\ req[q].at = "sent" /\ Is(q, "delete") /\ ~Is(q, "counts")
      /\ UNCHANGED <<open, page, editor, counted>>
  BY DEF ServeDelete, Sent, Is, Idle
<1>2. PICK w : w = req[q].what
  OBVIOUS
<1>3. NamesIn(w) = {w.name} /\ w.kind = "delete"
  BY <1>1, <1>2, UnderWay DEF Is
<1>4. CASE row' = row /\ req' = [req EXCEPT ![q] = Idle]
  BY <1>1, <1>4, RefusedAgreed
<1>5. CASE /\ Stored' = Stored \ {w.name}
           /\ \A n \in Names \ {w.name} : row'[n] = row[n]
           /\ Answer(q)
  BY <1>1, <1>2, <1>3, <1>5, AnswerAgreed
<1> QED BY <1>2, <1>4, <1>5, ServeDeleteIs

LEMMA ServeCreateAgreed ==
    ASSUME IndInv, NeverCounted, Agreed, NEW q \in Slots, ServeCreate(q)
    PROVE  Agreed'
<1>1. /\ TypeOK /\ NewStats
      /\ req[q].at = "sent" /\ Creating(q) /\ ~Is(q, "counts")
      /\ UNCHANGED <<open, page, editor, counted>>
  BY DEF IndInv, ServeCreate, Sent, Is, Creating, Idle
<1>2. PICK w : w = req[q].what
  OBVIOUS
<1>3. NamesIn(w) = {w.name} /\ w.kind = "create"
  BY <1>1, <1>2, UnderWay DEF Creating
<1>4. CASE row' = row /\ req' = [req EXCEPT ![q] = Idle]
  BY <1>1, <1>4, RefusedAgreed
<1>5. CASE /\ w.name \notin Stored
           /\ Stored' = Stored \cup {w.name}
           /\ row'[w.name].stat = w.stat /\ row'[w.name].count = 0
           /\ \A n \in Names \ {w.name} : row'[n] = row[n]
           /\ Answer(q)
  <2>1. Expected(w.stat) = 0
    BY <1>1, <1>2 DEF NewStats, NeverCounted, Expected
  <2>2. \A n \in Stored' \cap NamesIn(w) : row'[n].count = Expected(row'[n].stat)
    BY <1>3, <1>5, <2>1
  <2>3. ASSUME open PROVE DoneCreate(w)'
    <3>1. \A t \in OnPage : page[t].name # w.name
      BY <1>1, <1>2, <1>3, <1>5, <2>3, ServedNames
    <3>2. OnPage' = OnPage /\ page' = page
      BY <1>1 DEF OnPage
    <3> QED BY <1>5, <3>1, <3>2 DEF DoneCreate
  <2> QED BY <1>1, <1>2, <1>3, <1>5, <2>2, <2>3, AnswerAgreed
<1> QED BY <1>2, <1>4, <1>5, ServeCreateIs

\* 401 and the second attempt: in a calm browser it asks for just the same.
LEMMA RefreshAgreed ==
    ASSUME IndInv, Agreed, NEW q \in Slots, Unauthorized(q) \/ Retry(q), calm'
    PROVE  Agreed'
<1>1. /\ TypeOK /\ Known /\ req[q] \in ReqState /\ req[q] # Idle /\ req[q].at # "answered"
      /\ UNCHANGED <<row, open, page, editor, counted>>
  <2>1. req[q].at \in {"sent", "refresh"} /\ UNCHANGED <<row, open, page, editor, counted>>
    BY DEF Unauthorized, Retry
  <2> QED BY <2>1, UnderWay DEF IndInv, Agreed
<1>2. PICK w : w = req[q].what /\ w \in Request
  BY <1>1, UnderWay
<1>3. CASE Unauthorized(q)
  <2>1. req' = [req EXCEPT ![q] = [at |-> "refresh", what |-> w]]
    BY <1>2, <1>3 DEF Unauthorized
  <2>2. PICK r : r = [at |-> "refresh", what |-> w]
    OBVIOUS
  <2>3. r \in ReqState /\ r # Idle /\ r.at = "refresh" /\ r.what = w
    BY <1>2, <2>2 DEF ReqState, Idle
  <2> QED BY <1>1, <1>2, <2>1, <2>2, <2>3, RequestMoves
<1>4. CASE Retry(q)
  <2>1. req' = [req EXCEPT ![q] = [at |-> "sent", what |-> w, paged |-> TRUE]]
    <3>1. CASE w.kind = "save" /\ editor[w.editor] # None
      <4>1. w.old = editor[w.editor].updater
        BY <1>1, <1>2, <3>1 DEF Known, Is
      <4>2. w \in [kind : {"save"}, editor : Editors, old : Names, new : Names]
        BY <1>2, <3>1 DEF Request
      <4>3. [w EXCEPT !.old = w.old] = w
        BY <4>2
      <4> QED BY <1>2, <1>4, <3>1, <4>1, <4>3 DEF Retry, Send
    <3>2. CASE ~(w.kind = "save" /\ editor[w.editor] # None)
      BY <1>2, <1>4, <3>2 DEF Retry, Send
    <3> QED BY <3>1, <3>2
  <2>2. PICK r : r = [at |-> "sent", what |-> w, paged |-> TRUE]
    OBVIOUS
  <2>3. r \in ReqState /\ r # Idle /\ r.at = "sent" /\ r.what = w /\ r.paged
    BY <1>2, <2>2 DEF ReqState, Idle
  <2> QED BY <1>1, <1>2, <2>1, <2>2, <2>3, RequestMoves
<1> QED BY <1>3, <1>4

\* The page learns of the new name.
LEMMA FinishSaveAgreed ==
    ASSUME IndInv, Agreed, NEW q \in Slots, FinishSave(q), calm'
    PROVE  Agreed'
<1>1. /\ TypeOK /\ Apart /\ Known /\ Matches /\ NamesApart /\ Done /\ ShowsCounted /\ Arrives
      /\ req[q].at = "answered" /\ Is(q, "save") /\ req' = [req EXCEPT ![q] = Idle]
      /\ UNCHANGED <<row, open, counted>>
  BY DEF IndInv, Agreed, FinishSave, Answered, Is, Idle
<1>2. PICK w, e, s : /\ w = req[q].what /\ e = w.editor /\ s = e[1] /\ w.new \in Names
                     /\ NamesIn(w) = {w.old, w.new} /\ e \in Editors /\ s \in Stats
  BY <1>1, UnderWay
<1>3. /\ open /\ s \in OnPage /\ page[s].name = w.old
      /\ DoneSave(w)
  BY <1>1, <1>2, UnderWay DEF Known, NameKnown, Done, Is
<1>4. /\ editor' = [editor EXCEPT ![e] = IF @ = None THEN @ ELSE [@ EXCEPT !.updater = w.new]]
      /\ page' = [page EXCEPT ![s] = [@ EXCEPT !.name = w.new, !.input = Shown(page[s])]]
  BY <1>2, <1>3 DEF FinishSave, OnPage
<1>5. /\ page'[s].name = w.new /\ page'[s].count = page[s].count
      /\ page'[s].present = page[s].present
      /\ \A t \in Stats \ {s} : page'[t] = page[t]
  BY <1>1, <1>2, <1>3, <1>4 DEF TypeOK, OnPage, PageStat
<1>6. OnPage' = OnPage /\ Stored' = Stored
  BY <1>1, FinishSaveKeeps DEF Stored
<1>7. /\ req'[q] = Idle /\ Idle.at = "idle"
      /\ \A p \in Slots \ {q} : req'[p] = req[p]
  BY <1>1 DEF TypeOK, Idle
<1>8. \A p \in Slots \ {q} : req[p] # Idle => NamesIn(req[p].what) \cap {w.old, w.new} = {}
  BY <1>1, <1>2 DEF Apart, Is
<1>9. Apart'
  BY <1>1, <1>7 DEF Apart
<1>10. Known'
  <2>1. ASSUME NEW p \in Slots, Is(p, "save")'
        PROVE  /\ NameKnown(req[p].what.editor, req[p].what.old)'
               /\ (editor[req[p].what.editor] # None)' =>
                     editor'[req'[p].what.editor].updater = req'[p].what.old
    <3>1. PICK v : v = req[p].what
      OBVIOUS
    <3>2. p # q /\ req'[p] = req[p] /\ Is(p, "save")
      BY <1>7, <2>1 DEF Is
    <3>3. /\ NameKnown(v.editor, v.old) /\ v.old \notin {w.old, w.new}
          /\ editor[v.editor] # None => editor[v.editor].updater = v.old
          /\ v.editor \in Editors
      BY <1>1, <1>3, <1>8, <3>1, <3>2, UnderWay DEF Known, Is
    <3>4. v.editor # e /\ v.editor[1] # s
      BY <1>2, <1>3, <3>3 DEF NameKnown
    <3>5. editor'[v.editor] = editor[v.editor]
      BY <1>1, <1>4, <3>3, <3>4 DEF TypeOK
    <3>6. NameKnown(v.editor, v.old)'
      BY <1>5, <1>6, <3>3, <3>4 DEF NameKnown, OnPage
    <3>7. req'[p].what = v
      BY <3>1, <3>2
    <3>8. NameKnown(req[p].what.editor, req[p].what.old)' <=> NameKnown(v.editor, v.old)'
      BY <3>7 DEF NameKnown
    <3> QED BY <3>3, <3>5, <3>6, <3>7, <3>8
  <2>2. ASSUME NEW p \in Slots, Is(p, "delete")'
        PROVE  NameKnown(req[p].what.editor, req[p].what.name)'
    <3>1. PICK v : v = req[p].what
      OBVIOUS
    <3>2. p # q /\ req'[p] = req[p] /\ Is(p, "delete")
      BY <1>7, <2>2 DEF Is
    <3>3. NameKnown(v.editor, v.name) /\ v.name \notin {w.old, w.new} /\ v.editor \in Editors
      BY <1>1, <1>3, <1>8, <3>1, <3>2, UnderWay DEF Known, Is
    <3>4. v.editor[1] # s
      BY <1>3, <3>3 DEF NameKnown
    <3>5. NameKnown(v.editor, v.name)'
      BY <1>5, <1>6, <3>3, <3>4 DEF NameKnown, OnPage
    <3>6. req'[p].what = v
      BY <3>1, <3>2
    <3> QED BY <3>5, <3>6 DEF NameKnown
  <2>3. \A p \in Slots : req'[p].at = "sent" => req'[p].paged
    BY <1>1, <1>3, <1>7 DEF Known
  <2> QED BY <2>1, <2>2, <2>3 DEF Known
<1>11. Matches'
  <2>1. SUFFICES ASSUME NEW n \in Names, Unanswered(n)'
                 PROVE  /\ \A t \in OnPage : page'[t].name = n => n \in Stored /\ row[n].stat = t
                        /\ n \in Stored => row[n].stat \in OnPage /\ page'[row[n].stat].name = n
    BY <1>1, <1>6 DEF Matches
  <2>2. CASE n \notin {w.old, w.new}
    <3>1. Unanswered(n)
      BY <1>2, <1>7, <2>1, <2>2 DEF Unanswered
    <3>2. /\ \A t \in OnPage : page[t].name = n => n \in Stored /\ row[n].stat = t
          /\ n \in Stored => row[n].stat \in OnPage /\ page[row[n].stat].name = n
      BY <1>1, <1>3, <3>1 DEF Matches
    <3> QED BY <1>3, <1>5, <2>2, <3>2 DEF OnPage
  <2>3. CASE n = w.new
    BY <1>1, <1>2, <1>3, <1>5, <2>3 DEF DoneSave, NamesApart, OnPage
  <2>4. CASE n = w.old /\ w.old # w.new
    BY <1>1, <1>2, <1>3, <1>5, <2>4 DEF DoneSave, NamesApart, OnPage
  <2> QED BY <2>2, <2>3, <2>4
<1>12. NamesApart'
  BY <1>1, <1>2, <1>3, <1>5, <1>6 DEF DoneSave, NamesApart, OnPage
<1>13. Done'
  <2>1. SUFFICES ASSUME NEW p \in Slots, req'[p].at = "answered"
                 PROVE  /\ req'[p].what.kind # "counts"
                        /\ req'[p].what.kind = "save" => DoneSave(req[p].what)'
                        /\ req'[p].what.kind = "delete" => req'[p].what.name \notin Stored'
                        /\ req'[p].what.kind = "create" => DoneCreate(req[p].what)'
    BY DEF Done
  <2>2. PICK v : v = req[p].what
    OBVIOUS
  <2>3. p # q /\ req'[p] = req[p] /\ req[p] # Idle /\ req'[p].what = v
    BY <1>7, <2>1, <2>2 DEF Idle
  <2>4. /\ v.kind # "counts"
        /\ v.kind = "save" => DoneSave(v)
        /\ v.kind = "delete" => v.name \notin Stored
        /\ v.kind = "create" => DoneCreate(v)
    BY <1>1, <2>1, <2>2, <2>3 DEF Done
  <2>5. /\ v.kind = "save" => v.new # w.new
        /\ v.kind = "create" => v.name # w.new
    BY <1>8, <2>2, <2>3, UnderWay DEF Is, Creating
  <2>6. v.kind = "save" => DoneSave(v)'
    BY <1>1, <1>5, <1>6, <2>4, <2>5 DEF DoneSave, OnPage
  <2>7. v.kind = "create" => DoneCreate(v)'
    BY <1>1, <1>5, <1>6, <2>4, <2>5 DEF DoneCreate, OnPage
  <2>8. DoneSave(req[p].what)' <=> DoneSave(v)'
    BY <2>3 DEF DoneSave
  <2>9. DoneCreate(req[p].what)' <=> DoneCreate(v)'
    BY <2>3 DEF DoneCreate
  <2> QED BY <1>6, <2>3, <2>4, <2>6, <2>7, <2>8, <2>9
<1>14. ShowsCounted'
  BY <1>1, <1>5, <1>6 DEF ShowsCounted, OnPage
<1>15. Arrives'
  <2>1. \A t \in Stats : Expected(t)' = Expected(t)
    BY <1>1, <1>5, <1>6 DEF Expected
  <2>2. \A n \in Stored : row[n].stat \in Stats
    BY <1>1 DEF TypeOK, Stored, Row
  <2>3. \A p \in Slots, n \in Stored : /\ Counting(p, n)' <=> Counting(p, n)
                                       /\ Counting(p, n) => req'[p] = req[p]
    BY <1>1, <1>7 DEF Counting, Is
  <2> QED BY <1>1, <1>6, <2>1, <2>2, <2>3 DEF Arrives
<1> QED BY <1>9, <1>10, <1>11, <1>12, <1>13, <1>14, <1>15 DEF Agreed

\* A request that is about the name of a stat on the page, is about the stat's row too:
\* what was answered about the row before was about the same name.
LEMMA RowOnPage ==
    ASSUME IndInv, Agreed, open, NEW q \in Slots, req[q] # Idle,
           NEW s \in OnPage, page[s].name \in NamesIn(req[q].what),
           NEW n \in Stored, row[n].stat = s
    PROVE  n \in NamesIn(req[q].what)
<1>1. /\ Apart /\ Known /\ Matches /\ Done /\ NewStats /\ n \in Names
  BY DEF IndInv, Agreed, Stored
<1>2. CASE Unanswered(n)
  BY <1>1, <1>2 DEF Matches
<1>3. ASSUME NEW p \in Slots, req[p].at = "answered", n \in NamesIn(req[p].what)
      PROVE  n \in NamesIn(req[q].what)
  <2>1. PICK v : v = req[p].what
    OBVIOUS
  <2>2. /\ req[p] # Idle /\ v.kind \in {"counts", "save", "delete", "create"}
        /\ v.kind # "counts" /\ (v.kind = "delete" => v.name \notin Stored)
        /\ v.kind = "save" => DoneSave(v)
        /\ v.kind = "create" => DoneCreate(v)
    BY <1>1, <1>3, <2>1, UnderWay, RequestKinds DEF Done, Idle
  <2>3. v.kind # "delete"
    BY <1>3, <2>1, <2>2, UnderWay DEF Is
  <2>4. v.kind # "create"
    <3>1. SUFFICES ASSUME v.kind = "create" PROVE FALSE
      OBVIOUS
    <3>2. Creating(p) /\ n = v.name /\ row[n].stat = v.stat
      BY <1>3, <2>1, <2>2, <3>1, UnderWay DEF Creating, DoneCreate
    <3> QED BY <1>1, <2>1, <3>2 DEF NewStats
  <2>5. CASE v.kind = "save"
    <3>1. Is(p, "save") /\ NamesIn(v) = {v.old, v.new} /\ DoneSave(v)
      BY <2>1, <2>2, <2>5, UnderWay DEF Is
    <3>2. n = v.new /\ row[n].stat = v.editor[1]
      BY <1>3, <2>1, <3>1 DEF DoneSave
    <3>3. page[s].name = v.old
      BY <1>1, <2>1, <3>1, <3>2 DEF Known, NameKnown
    <3>4. p = q
      BY <1>1, <2>1, <2>2, <3>1, <3>3 DEF Apart
    <3> QED BY <1>3, <3>4
  <2> QED BY <2>2, <2>3, <2>4, <2>5
<1> QED BY <1>2, <1>3 DEF Unanswered

\* The stat goes from the page; its row has gone before.
LEMMA FinishDeleteAgreed ==
    ASSUME IndInv, Agreed, NEW q \in Slots, FinishDelete(q)
    PROVE  Agreed'
<1>1. /\ TypeOK /\ Apart /\ Known /\ Matches /\ NamesApart /\ Done /\ ShowsCounted /\ Arrives
      /\ req[q].at = "answered" /\ Is(q, "delete") /\ req' = [req EXCEPT ![q] = Idle]
      /\ UNCHANGED <<row, open, counted>>
  BY DEF IndInv, Agreed, FinishDelete, Answered, Is, Idle
<1>2. PICK w, e, s : /\ w = req[q].what /\ e = w.editor /\ s = e[1]
                     /\ NamesIn(w) = {w.name} /\ e \in Editors /\ s \in Stats
  BY <1>1, UnderWay
<1>3. /\ open /\ s \in OnPage /\ page[s].name = w.name /\ w.name \notin Stored
  BY <1>1, <1>2, UnderWay DEF Known, NameKnown, Done, Is
<1>4. /\ editor' = [editor EXCEPT ![e] = None]
      /\ page' = [page EXCEPT ![s] = None]
  BY <1>2, <1>3 DEF FinishDelete, Spliced
<1>5. /\ OnPage' = OnPage \ {s} /\ Stored' = Stored
      /\ \A t \in OnPage' : page'[t] = page[t]
  BY <1>1, <1>2, <1>4 DEF TypeOK, OnPage, Stored
<1>6. /\ req'[q] = Idle /\ Idle.at = "idle"
      /\ \A p \in Slots \ {q} : req'[p] = req[p]
  BY <1>1 DEF TypeOK, Idle
<1>7. \A p \in Slots \ {q} : req[p] # Idle => w.name \notin NamesIn(req[p].what)
  BY <1>1, <1>2 DEF Apart, Is
<1>8. Apart'
  BY <1>1, <1>6 DEF Apart
<1>9. Known'
  <2>1. ASSUME NEW p \in Slots, Is(p, "save")'
        PROVE  /\ NameKnown(req[p].what.editor, req[p].what.old)'
               /\ (editor[req[p].what.editor] # None)' =>
                     editor'[req'[p].what.editor].updater = req'[p].what.old
    <3>1. PICK v : v = req[p].what
      OBVIOUS
    <3>2. p # q /\ req'[p] = req[p] /\ Is(p, "save") /\ req'[p].what = v
      BY <1>6, <2>1, <3>1 DEF Is
    <3>3. /\ NameKnown(v.editor, v.old) /\ v.old # w.name
          /\ editor[v.editor] # None => editor[v.editor].updater = v.old
          /\ v.editor \in Editors
      BY <1>1, <1>3, <1>7, <3>1, <3>2, UnderWay DEF Known, Is
    <3>4. v.editor # e /\ v.editor[1] # s
      BY <1>2, <1>3, <3>3 DEF NameKnown
    <3>5. editor'[v.editor] = editor[v.editor]
      BY <1>1, <1>4, <3>3, <3>4 DEF TypeOK
    <3>6. NameKnown(v.editor, v.old)'
      BY <1>5, <3>3, <3>4 DEF NameKnown
    <3>7. NameKnown(req[p].what.editor, req[p].what.old)' <=> NameKnown(v.editor, v.old)'
      BY <3>2 DEF NameKnown
    <3> QED BY <3>2, <3>3, <3>5, <3>6, <3>7
  <2>2. ASSUME NEW p \in Slots, Is(p, "delete")'
        PROVE  NameKnown(req[p].what.editor, req[p].what.name)'
    <3>1. PICK v : v = req[p].what
      OBVIOUS
    <3>2. p # q /\ req'[p] = req[p] /\ Is(p, "delete") /\ req'[p].what = v
      BY <1>6, <2>2, <3>1 DEF Is
    <3>3. NameKnown(v.editor, v.name) /\ v.name # w.name
      <4>1. NameKnown(v.editor, v.name)
        BY <1>1, <1>3, <3>1, <3>2 DEF Known
      <4>2. NamesIn(v) = {v.name} /\ w.name \notin NamesIn(v)
        BY <1>7, <3>1, <3>2, UnderWay DEF Is
      <4> QED BY <4>1, <4>2
    <3>4. NameKnown(v.editor, v.name)'
      BY <1>3, <1>5, <3>3 DEF NameKnown
    <3> QED BY <3>2, <3>4 DEF NameKnown
  <2>3. \A p \in Slots : req'[p].at = "sent" => req'[p].paged
    BY <1>1, <1>3, <1>6 DEF Known
  <2> QED BY <2>1, <2>2, <2>3 DEF Known
<1>10. \A n \in Stored : row[n].stat # s
  BY <1>1, <1>2, <1>3, RowOnPage DEF Is
<1>11. Matches'
  <2>1. SUFFICES ASSUME NEW n \in Names, Unanswered(n)'
                 PROVE  /\ \A t \in OnPage' : page'[t].name = n => n \in Stored /\ row[n].stat = t
                        /\ n \in Stored => row[n].stat \in OnPage' /\ page'[row[n].stat].name = n
    BY <1>1, <1>5 DEF Matches
  <2>2. CASE n # w.name
    <3>1. Unanswered(n)
      BY <1>2, <1>6, <2>1, <2>2 DEF Unanswered
    <3>2. /\ \A t \in OnPage : page[t].name = n => n \in Stored /\ row[n].stat = t
          /\ n \in Stored => row[n].stat \in OnPage /\ page[row[n].stat].name = n
      BY <1>1, <1>3, <3>1 DEF Matches
    <3>3. \A t \in OnPage' : t \in OnPage /\ page'[t].name = page[t].name
      BY <1>5
    <3>4. n \in Stored => row[n].stat \in OnPage'
      BY <1>5, <1>10, <3>2
    <3> QED BY <3>2, <3>3, <3>4
  <2>3. CASE n = w.name
    BY <1>1, <1>3, <1>5, <2>3 DEF NamesApart
  <2> QED BY <2>2, <2>3
<1>12. NamesApart' /\ ShowsCounted'
  BY <1>1, <1>5 DEF NamesApart, ShowsCounted
<1>13. Done'
  <2>1. \A p \in Slots : req'[p].at = "answered" => req'[p] = req[p]
    BY <1>6
  <2> QED BY <1>1, <1>5, <2>1 DEF Done, DoneSave, DoneCreate
<1>14. Arrives'
  <2>1. \A n \in Stored : Expected(row[n].stat)' = Expected(row[n].stat)
    BY <1>1, <1>5, <1>10 DEF Expected
  <2>2. \A p \in Slots, n \in Stored : /\ Counting(p, n)' <=> Counting(p, n)
                                       /\ Counting(p, n) => req'[p] = req[p]
    BY <1>1, <1>6 DEF Counting, Is
  <2> QED BY <1>1, <1>5, <2>1, <2>2 DEF Arrives
<1> QED BY <1>8, <1>9, <1>11, <1>12, <1>13, <1>14 DEF Agreed

\* The stat comes onto the page; its row has been there before.
LEMMA FinishCreateAgreed ==
    ASSUME IndInv, OneRow, NeverCounted, Agreed, NEW q \in Slots, FinishCreate(q)
    PROVE  Agreed'
<1>1. /\ TypeOK /\ Apart /\ Known /\ Matches /\ NamesApart /\ Done /\ ShowsCounted /\ Arrives
      /\ req[q].at = "answered" /\ Creating(q) /\ req' = [req EXCEPT ![q] = Idle]
      /\ UNCHANGED <<row, open, counted>>
  BY DEF IndInv, Agreed, FinishCreate, Answered, Creating, Idle
<1>2. PICK w, s, m : /\ w = req[q].what /\ s = w.stat /\ m = w.name
                     /\ NamesIn(w) = {m} /\ s \in Stats /\ m \in Names
  BY <1>1, UnderWay
<1>3. /\ open /\ s \notin OnPage /\ counted[s] = 0
      /\ m \in Stored /\ row[m].stat = s /\ \A t \in OnPage : page[t].name # m
  BY <1>1, <1>2, UnderWay DEF IndInv, NewStats, NeverCounted, Done, DoneCreate, Creating
<1>4. /\ page' = [page EXCEPT ![s] = NewPageStat(m, 0, 0)]
      /\ editor' = [d \in Editors |-> IF d[1] = s THEN [updater |-> m, deleter |-> m]
                                      ELSE editor[d]]
  BY <1>2 DEF FinishCreate
<1>5. /\ page'[s].name = m /\ page'[s].count = 0 /\ page'[s].present = 0
      /\ OnPage' = OnPage \cup {s} /\ Stored' = Stored
      /\ \A t \in OnPage : page'[t] = page[t]
  <2>1. NewPageStat(m, 0, 0) \in PageStat
    BY <1>2, CountSyncAssumption DEF NewPageStat, PageStat
  <2>2. page'[s] = NewPageStat(m, 0, 0) /\ \A t \in Stats \ {s} : page'[t] = page[t]
    BY <1>1, <1>2, <1>4 DEF TypeOK
  <2> QED BY <1>1, <1>2, <1>3, <2>1, <2>2, CountSyncAssumption DEF OnPage, Stored, NewPageStat
<1>6. /\ req'[q] = Idle /\ Idle.at = "idle"
      /\ \A p \in Slots \ {q} : req'[p] = req[p]
  BY <1>1 DEF TypeOK, Idle
<1>7. \A p \in Slots \ {q} : req[p] # Idle => m \notin NamesIn(req[p].what)
  BY <1>1, <1>2 DEF Apart, Creating
<1>8. Apart'
  BY <1>1, <1>6 DEF Apart
<1>9. Known'
  <2>1. ASSUME NEW p \in Slots, Is(p, "save")'
        PROVE  /\ NameKnown(req[p].what.editor, req[p].what.old)'
               /\ (editor[req[p].what.editor] # None)' =>
                     editor'[req'[p].what.editor].updater = req'[p].what.old
    <3>1. PICK v : v = req[p].what
      OBVIOUS
    <3>2. p # q /\ req'[p] = req[p] /\ Is(p, "save") /\ req'[p].what = v
      BY <1>6, <2>1, <3>1 DEF Is
    <3>3. /\ NameKnown(v.editor, v.old)
          /\ editor[v.editor] # None => editor[v.editor].updater = v.old
          /\ v.editor \in Editors
      BY <1>1, <1>3, <3>1, <3>2, UnderWay DEF Known
    <3>4. v.editor[1] # s
      BY <1>3, <3>3 DEF NameKnown
    <3>5. editor'[v.editor] = editor[v.editor]
      BY <1>4, <3>3, <3>4
    <3>6. NameKnown(v.editor, v.old)'
      BY <1>5, <3>3 DEF NameKnown
    <3>7. NameKnown(req[p].what.editor, req[p].what.old)' <=> NameKnown(v.editor, v.old)'
      BY <3>2 DEF NameKnown
    <3> QED BY <3>2, <3>3, <3>5, <3>6, <3>7
  <2>2. ASSUME NEW p \in Slots, Is(p, "delete")'
        PROVE  NameKnown(req[p].what.editor, req[p].what.name)'
    <3>1. PICK v : v = req[p].what
      OBVIOUS
    <3>2. p # q /\ req'[p] = req[p] /\ Is(p, "delete") /\ req'[p].what = v
      BY <1>6, <2>2, <3>1 DEF Is
    <3>3. NameKnown(v.editor, v.name)
      BY <1>1, <1>3, <3>1, <3>2 DEF Known
    <3>4. NameKnown(v.editor, v.name)'
      BY <1>5, <3>3 DEF NameKnown
    <3> QED BY <3>2, <3>4 DEF NameKnown
  <2>3. \A p \in Slots : req'[p].at = "sent" => req'[p].paged
    BY <1>1, <1>3, <1>6 DEF Known
  <2> QED BY <2>1, <2>2, <2>3 DEF Known
<1>10. Matches'
  <2>1. SUFFICES ASSUME NEW n \in Names, Unanswered(n)'
                 PROVE  /\ \A t \in OnPage' : page'[t].name = n => n \in Stored /\ row[n].stat = t
                        /\ n \in Stored => row[n].stat \in OnPage' /\ page'[row[n].stat].name = n
    BY <1>1, <1>5 DEF Matches
  <2>2. CASE n # m
    <3>1. Unanswered(n)
      BY <1>2, <1>6, <2>1, <2>2 DEF Unanswered
    <3>2. /\ \A t \in OnPage : page[t].name = n => n \in Stored /\ row[n].stat = t
          /\ n \in Stored => row[n].stat \in OnPage /\ page[row[n].stat].name = n
      BY <1>1, <1>3, <3>1 DEF Matches
    <3> QED BY <1>5, <2>2, <3>2
  <2>3. CASE n = m
    BY <1>3, <1>5, <2>3
  <2> QED BY <2>2, <2>3
<1>11. NamesApart' /\ ShowsCounted'
  BY <1>1, <1>3, <1>5 DEF NamesApart, ShowsCounted
<1>12. Done'
  <2>1. SUFFICES ASSUME NEW p \in Slots, req'[p].at = "answered"
                 PROVE  /\ req'[p].what.kind # "counts"
                        /\ req'[p].what.kind = "save" => DoneSave(req[p].what)'
                        /\ req'[p].what.kind = "delete" => req'[p].what.name \notin Stored'
                        /\ req'[p].what.kind = "create" => DoneCreate(req[p].what)'
    BY DEF Done
  <2>2. PICK v : v = req[p].what
    OBVIOUS
  <2>3. p # q /\ req'[p] = req[p] /\ req[p] # Idle /\ req'[p].what = v
    BY <1>6, <2>1, <2>2 DEF Idle
  <2>4. /\ v.kind # "counts"
        /\ v.kind = "save" => DoneSave(v)
        /\ v.kind = "delete" => v.name \notin Stored
        /\ v.kind = "create" => DoneCreate(v)
    BY <1>1, <2>1, <2>2, <2>3 DEF Done
  <2>5. /\ v.kind = "save" => v.new # m
        /\ v.kind = "create" => v.name # m
    BY <1>7, <2>2, <2>3, UnderWay DEF Is, Creating
  <2>6. v.kind = "save" => DoneSave(v)'
    BY <1>1, <1>5, <2>4, <2>5 DEF DoneSave
  <2>7. v.kind = "create" => DoneCreate(v)'
    BY <1>1, <1>5, <2>4, <2>5 DEF DoneCreate
  <2>8. DoneSave(req[p].what)' <=> DoneSave(v)'
    BY <2>3 DEF DoneSave
  <2>9. DoneCreate(req[p].what)' <=> DoneCreate(v)'
    BY <2>3 DEF DoneCreate
  <2> QED BY <1>5, <2>3, <2>4, <2>6, <2>7, <2>8, <2>9
<1>13. Arrives'
  <2>1. \A t \in Stats : Expected(t)' = Expected(t)
    BY <1>1, <1>3, <1>5 DEF Expected
  <2>2. \A n \in Stored : row[n].stat \in Stats
    BY <1>1 DEF TypeOK, Stored, Row
  <2>3. \A p \in Slots, n \in Stored : /\ Counting(p, n)' <=> Counting(p, n)
                                       /\ Counting(p, n) => req'[p] = req[p]
    BY <1>1, <1>6 DEF Counting, Is, Creating
  <2> QED BY <1>1, <1>5, <2>1, <2>2, <2>3 DEF Arrives
<1> QED BY <1>8, <1>9, <1>10, <1>11, <1>12, <1>13 DEF Agreed

LEMMA NextAgreed ==
    ASSUME IndInv, OneRow, NeverCounted, Agreed, Next, calm'
    PROVE  Agreed'
<1>1. CASE HandleFetchedData
  BY <1>1, FetchedAgreed
<1>2. ASSUME NEW s \in Stats, NEW x \in Progress, UpdateCount(s, x) PROVE Agreed'
  BY <1>2, UpdateCountAgreed
<1>3. CASE Leave \/ Killed
  BY <1>3, CloseAgreed
<1>4. ASSUME NEW q \in Slots, Tick(q) PROVE Agreed'
  BY <1>4, TickAgreed
<1>5. ASSUME NEW q \in Slots, NEW n \in Names, StartCreate(q, n) PROVE Agreed'
  <2>1. <<1, 1>> \in Editors
    <3>1. 1 \in Stats
      BY <1>5, CountSyncAssumption DEF IndInv, TypeOK, StartCreate, Stats
    <3> QED BY <3>1 DEF Editors
  <2> QED BY <1>5, <2>1, StartAgreed
<1>6. ASSUME NEW q \in Slots, NEW e \in Editors, StartDelete(q, e) PROVE Agreed'
  <2>1. PICK n \in Names : n = editor[e].deleter
    BY <1>6 DEF IndInv, TypeOK, Editor, StartDelete
  <2> QED BY <1>6, StartAgreed
<1>7. ASSUME NEW q \in Slots, NEW e \in Editors, NEW new \in Names, StartSave(q, e, new)
      PROVE  Agreed'
  BY <1>7, StartAgreed
<1>8. ASSUME NEW q \in Slots, Serve(q) PROVE Agreed'
  BY <1>8, ServeCountsAgreed, ServeSaveAgreed, ServeDeleteAgreed, ServeCreateAgreed DEF Serve
<1>9. ASSUME NEW q \in Slots, Unauthorized(q) \/ Retry(q) PROVE Agreed'
  BY <1>9, RefreshAgreed
<1>10. ASSUME NEW q \in Slots, Fail(q) PROVE FALSE
  BY <1>10 DEF Fail
<1>11. ASSUME NEW q \in Slots, Finish(q) PROVE Agreed'
  BY <1>11, FinishSaveAgreed, FinishDeleteAgreed, FinishCreateAgreed DEF Finish
<1> QED
  BY <1>1, <1>2, <1>3, <1>4, <1>5, <1>6, <1>7, <1>8, <1>9, <1>10, <1>11 DEF Next

\* Nothing makes a browser calm again.
LEMMA NeverCalmAgain ==
    ASSUME IndInv, [Next]_vars, calm'
    PROVE  calm
BY DEF IndInv, TypeOK, Next, vars, HandleFetchedData, UpdateCount, Leave, Killed, Tick,
       StartCreate, StartDelete, StartSave, Serve, ServeCounts, ServeSave, ServeDelete,
       ServeCreate, Unauthorized, Retry, Fail, Finish, FinishSave, FinishDelete, FinishCreate

CalmInv ==
    /\ OneRow
    /\ NeverCounted
    /\ calm => Agreed

LEMMA InitCalm == Init => CalmInv
<1> SUFFICES ASSUME Init PROVE CalmInv
  OBVIOUS
<1>1. /\ OnPage = {} /\ Stored = {} /\ ~open
      /\ \A q \in Slots : req[q] = Idle /\ req[q].at = "idle"
      /\ \A s \in Stats : counted[s] = 0
  BY DEF Init, OnPage, Stored, NoPage, Idle
<1>2. OneRow /\ NeverCounted
  BY <1>1 DEF OneRow, NeverCounted, Creating
<1>3. Apart /\ Known /\ Matches /\ NamesApart
  BY <1>1 DEF Apart, Known, Matches, NamesApart, Is
<1>4. Done /\ ShowsCounted /\ Arrives
  BY <1>1 DEF Done, ShowsCounted, Arrives
<1> QED BY <1>2, <1>3, <1>4 DEF CalmInv, Agreed

LEMMA CalmKept ==
    ASSUME IndInv, CalmInv, [Next]_vars
    PROVE  CalmInv'
<1>1. OneRow' /\ NeverCounted'
  BY OneRowKept, NeverCountedKept DEF CalmInv
<1>2. ASSUME calm' PROVE Agreed'
  <2>1. OneRow /\ NeverCounted /\ Agreed
    BY <1>2, NeverCalmAgain DEF CalmInv
  <2>2. CASE Next
    BY <1>2, <2>1, <2>2, NextAgreed
  <2>3. CASE UNCHANGED vars
    BY <2>1, <2>3 DEF vars, Agreed, Apart, Known, Matches, NamesApart, Done, ShowsCounted, Arrives,
              Is, NameKnown, Unanswered, DoneSave, DoneCreate, Counting, Expected, OnPage, Stored
  <2> QED BY <2>2, <2>3
<1> QED BY <1>1, <1>2 DEF CalmInv

\* At every moment, a stat has one row; and as long as the browser is calm, each name is
\* the business of one request of statsmanager.ts and the editors at most, each row is
\* what the page shows or is about to show, and each count is in its row or in the one
\* request that brings it there.
THEOREM CalmAgreement == Spec => []CalmInv
<1>1. IndInv /\ CalmInv /\ [Next]_vars => CalmInv'
  BY CalmKept
<1> QED BY <1>1, InitCalm, Invariance, PTL DEF Spec

\* Between the answers, a calm page shows the stats that the database has, each under its
\* own name: no rename, deletion or creation is forgotten or put to another stat, however
\* many of them overtake each other, are answered 401 or outlive their page.
THEOREM PageIsTheDatabase == Spec => []PageMatches
<1>1. IndInv /\ CalmInv => PageMatches
  <2>1. SUFFICES ASSUME IndInv, CalmInv, calm, open, Quiet
                 PROVE  /\ {row[n].stat : n \in Stored} = OnPage
                        /\ \A s \in OnPage : page[s].name \in Stored /\ row[page[s].name].stat = s
    BY DEF PageMatches
  <2>2. \A n \in Names : /\ \A s \in OnPage : page[s].name = n => n \in Stored /\ row[n].stat = s
                         /\ n \in Stored => row[n].stat \in OnPage
    BY <2>1 DEF CalmInv, Agreed, Matches, Unanswered, Quiet, Idle
  <2>3. \A s \in OnPage : page[s].name \in Names
    BY <2>1 DEF IndInv, TypeOK, OnPage, PageStat
  <2>4. \A s \in OnPage : page[s].name \in Stored /\ row[page[s].name].stat = s
    BY <2>2, <2>3
  <2>5. \A n \in Stored : row[n].stat \in OnPage
    BY <2>2 DEF Stored
  <2> QED BY <2>4, <2>5
<1> QED BY <1>1, Invariance, CalmAgreement, PTL

\* What the owner counted is what the database has, once it was sent and answered: no
\* count is lost, overwritten by an older one or put to another stat, however the sends
\* of the ticker, of the page that is left, the renames and the creations interleave.
THEOREM CountsAreKept == Spec => []NothingLost
<1>1. IndInv /\ CalmInv => NothingLost
  <2>1. SUFFICES ASSUME IndInv, CalmInv, calm, Quiet, Changed = {}, NEW n \in Stored
                 PROVE  row[n].count = counted[row[n].stat]
    BY DEF NothingLost
  <2>2. row[n].count = Expected(row[n].stat)
    BY <2>1 DEF CalmInv, Agreed, Arrives, Counting, Is, Quiet
  <2>3. ShowsCounted
    BY <2>1 DEF CalmInv, Agreed
  <2> QED BY <2>1, <2>2, <2>3 DEF Expected, ShowsCounted, Changed
<1> QED BY <1>1, Invariance, CalmAgreement, PTL
===============================================================================
