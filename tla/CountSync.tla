------------------------------ MODULE CountSync -------------------------------
(***************************************************************************)
(* A path page in its owner's browser (typescript/path) and the stats of   *)
(* the path in the database.                                               *)
(*                                                                         *)
(* The page has a copy of each stat.  The owner counts in an input field   *)
(* that shows the progress of the quota's period.  Every three seconds,    *)
(* and when the page is left, the counts that changed are sent; from then  *)
(* on the page takes them for saved.  Creating, renaming and deleting are  *)
(* requests of their own, whose answers change the copy.  What is answered *)
(* 401 is sent again after /auth/refresh.                                  *)
(*                                                                         *)
(* Requests of one page overtake each other: each is a fetch of its own.   *)
(* On the server each takes effect in one step (PathService), by name.     *)
(***************************************************************************)
EXTENDS Integers, FiniteSets

CONSTANTS
    Names,            \* names of stats
    None,             \* no stat, no editor
    Slots,            \* requests that are under way together
    Counts,           \* values of stats.count
    MaxStats,         \* bound: how many stats are asked for
    MaxEdits          \* bound: how often the owner creates, saves and deletes

\* A stat, whatever its name, since its owner asked for it: he knows which one he counts.
Stats == 1 .. MaxStats

\* The callback of StatCreator makes two editors for one stat, the page makes one.
Editors == Stats \X {1, 2}

\* Progress is counted from last_count, which is the count of some earlier moment.
Progress == {c - last : c, last \in Counts}

VARIABLES
    row,              \* the stats in the database, by name
    asked,            \* how many have been asked for
    edits,            \* how often the owner has edited
    open,             \* the page is loaded
    page,             \* this.pageStats
    editor,           \* the editors that can be clicked
    req,              \* what each request is doing
    counted,          \* history: what the owner last counted on each stat
    calm              \* history: see the section on properties

vars == <<row, asked, edits, open, page, editor, req, counted, calm>>

Row == [stat : Stats, count : Counts]

\* stat.name, stat.count, quota.countProgress, presentCount and the input field.
PageStat == [name : Names, count : Counts, progress : Int, present : Counts, input : Int]

\* The names that StatUpdater and StatDeleter keep for themselves.
Editor == [updater : Names, deleter : Names]

ASSUME CountSyncAssumption ==
    /\ MaxStats \in Nat
    /\ MaxEdits \in Nat
    /\ Counts \subseteq Int /\ 0 \in Counts
    /\ None \notin Row \cup PageStat \cup Editor

Idle == [at |-> "idle"]

Request ==
    [kind : {"counts"}, body : UNION {[N -> Counts] : N \in SUBSET Names}]
    \cup [kind : {"save"}, editor : Editors, old : Names, new : Names]
    \cup [kind : {"delete"}, editor : Editors, name : Names]
    \cup [kind : {"create"}, name : Names, stat : Stats]

\* On its way to the server, waiting for /auth/refresh, or with an answer OK on its
\* way back.  A request without a page is one whose page has been left.
ReqState ==
    {Idle}
    \cup [at : {"sent"}, what : Request, paged : BOOLEAN]
    \cup [at : {"refresh"}, what : Request]
    \cup [at : {"answered"}, what : Request]

NoPage == [s \in Stats |-> None]
NoEditor == [e \in Editors |-> None]

\* A path that was made just now.
Init ==
    /\ row = [n \in Names |-> None]
    /\ asked = 0
    /\ edits = 0
    /\ open = FALSE
    /\ page = NoPage
    /\ editor = NoEditor
    /\ req = [q \in Slots |-> Idle]
    /\ counted = [s \in Stats |-> 0]
    /\ calm = TRUE

Stored == {n \in Names : row[n] # None}
OnPage == {s \in Stats : page[s] # None}

Quiet == \A q \in Slots : req[q] = Idle

NamesIn(what) ==
    CASE what.kind = "counts" -> DOMAIN what.body
      [] what.kind = "save"   -> {what.old, what.new}
      [] OTHER                -> {what.name}

\* A request under way is about one of the names.
Clash(what) ==
    \E q \in Slots : req[q] # Idle /\ NamesIn(req[q].what) \cap NamesIn(what) # {}

Send(q, what) ==
    req' = [req EXCEPT ![q] = [at |-> "sent", what |-> what, paged |-> TRUE]]

\* What the field shows: calculatePresentQuotaProgress.
Shown(p) == p.progress + p.present - p.count

NewPageStat(n, count, progress) ==
    [name |-> n, count |-> count, progress |-> progress, present |-> count,
     input |-> progress]

-------------------------------------------------------------------------------
(* The page.                                                               *)

\* The answer to GET /api/path/{id}.  The rows have not been rolled on, or at some
\* count they have, by this GET or before (QuotaStreak).
HandleFetchedData ==
    /\ ~open
    /\ open' = TRUE
    /\ \E last \in [Stored -> Counts] :
          page' = [s \in Stats |->
                     IF \E n \in Stored : row[n].stat = s
                     THEN LET n == CHOOSE n \in Stored : row[n].stat = s
                          IN  NewPageStat(n, row[n].count, row[n].count - last[n])
                     ELSE None]
    /\ editor' = [e \in Editors |->
                    IF e[2] = 1 /\ \E n \in Stored : row[n].stat = e[1]
                    THEN LET n == CHOOSE n \in Stored : row[n].stat = e[1]
                         IN  [updater |-> n, deleter |-> n]
                    ELSE None]
    /\ calm' = (calm /\ Quiet)
    /\ UNCHANGED <<row, asked, edits, req, counted>>

\* The owner types into the field, or presses plus or minus.
UpdateCount(s, x) ==
    /\ s \in OnPage
    /\ LET present == x - page[s].progress + page[s].count
       IN  /\ present \in Counts
           /\ page' = [page EXCEPT ![s].input = x, ![s].present = present]
           /\ counted' = [counted EXCEPT ![s] = present]
    /\ UNCHANGED <<row, asked, edits, open, editor, req, calm>>

Changed == {s \in OnPage : page[s].present # page[s].count}

\* Mutant: only stat.count is set.
SavedProgressKept ==
    [s \in Stats |->
        IF s \in Changed THEN [page[s] EXCEPT !.count = page[s].present] ELSE page[s]]

\* The page with all counts taken for saved.
Saved ==
    [s \in Stats |->
        IF s \in Changed
        THEN [page[s] EXCEPT !.progress = @ + page[s].present - page[s].count,
                             !.count = page[s].present]
        ELSE page[s]]

\* Of two entries of one name the server keeps one.
Bodies ==
    {f \in [{page[s].name : s \in Changed} -> Counts] :
        \A n \in DOMAIN f : \E s \in Changed : page[s].name = n /\ page[s].present = f[n]}

\* updateCounts, by the ticker.
Tick(q) ==
    /\ Changed # {}
    /\ req[q] = Idle
    /\ \E f \in Bodies :
          LET what == [kind |-> "counts", body |-> f]
          IN  Send(q, what) /\ calm' = (calm /\ ~Clash(what))
    /\ page' = Saved
    /\ UNCHANGED <<row, asked, edits, open, editor, counted>>

\* What becomes of a request when its page goes.
WithoutPage(r) ==
    IF r.at = "sent" THEN [at |-> "sent", what |-> r.what, paged |-> FALSE] ELSE Idle

ClosePage ==
    /\ open
    /\ open' = FALSE
    /\ page' = NoPage
    /\ editor' = NoEditor
    /\ UNCHANGED <<row, asked, edits, counted>>

\* Mutant: there is no listener for beforeunload.
LeaveUnsaved ==
    /\ ClosePage
    /\ req' = [q \in Slots |-> WithoutPage(req[q])]
    /\ calm' = (calm /\ \A q \in Slots : req[q].at \in {"idle", "sent"})

\* updateCounts, in beforeunload; the request outlives the page (keepalive), but
\* nobody is left to send it again.
Leave ==
    /\ ClosePage
    /\ \/ /\ Changed = {}
          /\ req' = [q \in Slots |-> WithoutPage(req[q])]
          /\ calm' = (calm /\ \A q \in Slots : req[q].at \in {"idle", "sent"})
       \/ \E q \in Slots, f \in Bodies :
             /\ Changed # {}
             /\ req[q] = Idle
             /\ LET what == [kind |-> "counts", body |-> f]
                IN  /\ req' = [[p \in Slots |-> WithoutPage(req[p])] EXCEPT ![q] =
                                 [at |-> "sent", what |-> what, paged |-> FALSE]]
                    /\ calm' = (calm /\ ~Clash(what)
                                     /\ \A p \in Slots : req[p].at \in {"idle", "sent"})

\* The browser ends the page without beforeunload.
Killed ==
    /\ ClosePage
    /\ req' = [q \in Slots |-> WithoutPage(req[q])]
    /\ calm' = (calm /\ Changed = {} /\ \A q \in Slots : req[q].at \in {"idle", "sent"})

-------------------------------------------------------------------------------
(* The owner edits.                                                        *)

\* The button of StatCreator.
StartCreate(q, n) ==
    /\ open
    /\ req[q] = Idle
    /\ edits < MaxEdits
    /\ edits' = edits + 1
    /\ asked < MaxStats
    /\ asked' = asked + 1
    /\ LET what == [kind |-> "create", name |-> n, stat |-> asked + 1]
       IN  Send(q, what) /\ calm' = (calm /\ ~Clash(what))
    /\ UNCHANGED <<row, open, page, editor, counted>>

NameKnown(e, n) == e[1] \in OnPage /\ page[e[1]].name = n

StartSave(q, e, new) ==
    /\ editor[e] # None
    /\ req[q] = Idle
    /\ edits < MaxEdits
    /\ edits' = edits + 1
    /\ LET what == [kind |-> "save", editor |-> e, old |-> editor[e].updater, new |-> new]
       IN  Send(q, what) /\ calm' = (calm /\ ~Clash(what) /\ NameKnown(e, what.old))
    /\ UNCHANGED <<row, asked, open, page, editor, counted>>

\* The second click ("sure?").
StartDelete(q, e) ==
    /\ editor[e] # None
    /\ req[q] = Idle
    /\ edits < MaxEdits
    /\ edits' = edits + 1
    /\ LET what == [kind |-> "delete", editor |-> e, name |-> editor[e].deleter]
       IN  Send(q, what) /\ calm' = (calm /\ ~Clash(what) /\ NameKnown(e, what.name))
    /\ UNCHANGED <<row, asked, open, page, editor, counted>>

-------------------------------------------------------------------------------
(* The server.                                                             *)

Sent(q, kind) == req[q].at = "sent" /\ req[q].what.kind = kind

\* An answer other than OK and 401 changes a label; so does any answer nobody waits for.
Answer(q) ==
    req' = [req EXCEPT ![q] = IF @.paged THEN [at |-> "answered", what |-> @.what] ELSE Idle]

Refused(q) ==
    /\ req' = [req EXCEPT ![q] = Idle]
    /\ UNCHANGED row

\* UpdateStatsCounts; a name without a row is passed over.
ServeCounts(q) ==
    /\ Sent(q, "counts")
    /\ LET body == req[q].what.body
       IN  row' = [n \in Names |-> IF n \in Stored \cap DOMAIN body
                                   THEN [row[n] EXCEPT !.count = body[n]]
                                   ELSE row[n]]
    /\ req' = [req EXCEPT ![q] = Idle]
    /\ UNCHANGED <<asked, edits, open, page, editor, counted, calm>>

ServeSave(q) ==
    /\ Sent(q, "save")
    /\ LET old == req[q].what.old
           new == req[q].what.new
       IN  \/ /\ old \notin Stored \/ (new # old /\ new \in Stored)
              /\ Refused(q)
           \/ /\ old \in Stored
              /\ new = old \/ new \notin Stored
              /\ row' = [[row EXCEPT ![old] = None] EXCEPT ![new] = row[old]]
              /\ Answer(q)
    /\ UNCHANGED <<asked, edits, open, page, editor, counted, calm>>

ServeDelete(q) ==
    /\ Sent(q, "delete")
    /\ LET n == req[q].what.name
       IN  \/ /\ n \notin Stored
              /\ Refused(q)
           \/ /\ n \in Stored
              /\ row' = [row EXCEPT ![n] = None]
              /\ Answer(q)
    /\ UNCHANGED <<asked, edits, open, page, editor, counted, calm>>

ServeCreate(q) ==
    /\ Sent(q, "create")
    /\ LET n == req[q].what.name
       IN  \/ /\ n \in Stored
              /\ Refused(q)
           \/ /\ n \notin Stored
              /\ row' = [row EXCEPT ![n] = [stat |-> req[q].what.stat, count |-> 0]]
              /\ Answer(q)
    /\ UNCHANGED <<asked, edits, open, page, editor, counted, calm>>

Serve(q) == ServeCounts(q) \/ ServeSave(q) \/ ServeDelete(q) \/ ServeCreate(q)

-------------------------------------------------------------------------------
(* Answers.                                                                *)

\* 401: the page refreshes its tokens, if there still is a page.
Unauthorized(q) ==
    /\ req[q].at = "sent"
    /\ req' = [req EXCEPT ![q] = IF @.paged THEN [at |-> "refresh", what |-> @.what] ELSE Idle]
    /\ calm' = (calm /\ req[q].paged)
    /\ UNCHANGED <<row, asked, edits, open, page, editor, counted>>

\* Mutant: nobody sends the request again.
RetryNever(q) ==
    /\ req[q].at = "refresh"
    /\ req' = [req EXCEPT ![q] = Idle]
    /\ UNCHANGED <<row, asked, edits, open, page, editor, counted, calm>>

\* The refresh has succeeded.  StatUpdater asks again for its own name; that an editor
\* which is gone may have been given another one by a second save is left out.
Retry(q) ==
    /\ req[q].at = "refresh"
    /\ Send(q, IF req[q].what.kind = "save" /\ editor[req[q].what.editor] # None
               THEN [req[q].what EXCEPT !.old = editor[req[q].what.editor].updater]
               ELSE req[q].what)
    /\ UNCHANGED <<row, asked, edits, open, page, editor, counted, calm>>

\* A request or its answer is lost, the server fails, or the refresh is not answered
\* 200 (it is 204 when another tab has just refreshed): the page only shows an error.
Fail(q) ==
    /\ req[q] # Idle
    /\ req' = [req EXCEPT ![q] = Idle]
    /\ calm' = FALSE
    /\ UNCHANGED <<row, asked, edits, open, page, editor, counted>>

Answered(q, kind) == req[q].at = "answered" /\ req[q].what.kind = kind

\* Mutant: the page goes on under the old name.
FinishSaveOldName(q) ==
    /\ Answered(q, "save")
    /\ req' = [req EXCEPT ![q] = Idle]
    /\ LET e == req[q].what.editor
       IN  editor' = [editor EXCEPT ![e] =
                        IF @ = None THEN @ ELSE [@ EXCEPT !.updater = req[q].what.new]]
    /\ UNCHANGED <<row, asked, edits, open, page, counted, calm>>

\* The updater takes the name that was sent, the page the one in the field by now.
FinishSave(q) ==
    /\ Answered(q, "save")
    /\ req' = [req EXCEPT ![q] = Idle]
    /\ LET e == req[q].what.editor
           s == e[1]
       IN  /\ editor' = [editor EXCEPT ![e] =
                           IF @ = None THEN @ ELSE [@ EXCEPT !.updater = req[q].what.new]]
           /\ \E typed \in Names :
                 /\ page' = [page EXCEPT ![s] =
                               IF @ = None THEN @
                               ELSE [@ EXCEPT !.name = typed, !.input = Shown(page[s])]]
                 /\ calm' = (calm /\ typed = req[q].what.new)
    /\ UNCHANGED <<row, asked, edits, open, counted>>

\* indexOf of a stat that is gone is -1, and splice then removes the last one; which one
\* that is, is left open.  It can still be seen, but its counts are not sent any more.
Spliced(s) ==
    IF OnPage = {} THEN {page}
    ELSE {[page EXCEPT ![t] = None] : t \in IF s \in OnPage THEN {s} ELSE OnPage}

FinishDelete(q) ==
    /\ Answered(q, "delete")
    /\ req' = [req EXCEPT ![q] = Idle]
    /\ LET e == req[q].what.editor
       IN  /\ editor' = [editor EXCEPT ![e] = None]
           /\ page' \in Spliced(e[1])
    /\ UNCHANGED <<row, asked, edits, open, counted, calm>>

\* Mutant: the name is read from the input field after that was emptied.
FinishCreateUnnamed(q) ==
    /\ Answered(q, "create")
    /\ req' = [req EXCEPT ![q] = Idle]
    /\ LET s == req[q].what.stat
       IN  /\ page' = [page EXCEPT ![s] = NewPageStat(None, 0, 0)]
           /\ editor' = [e \in Editors |-> IF e[1] = s
                                           THEN [updater |-> None, deleter |-> None]
                                           ELSE editor[e]]
    /\ UNCHANGED <<row, asked, edits, open, counted, calm>>

FinishCreate(q) ==
    /\ Answered(q, "create")
    /\ req' = [req EXCEPT ![q] = Idle]
    /\ LET s == req[q].what.stat
           n == req[q].what.name
       IN  /\ page' = [page EXCEPT ![s] = NewPageStat(n, 0, 0)]
           /\ editor' = [e \in Editors |-> IF e[1] = s THEN [updater |-> n, deleter |-> n]
                                           ELSE editor[e]]
    /\ UNCHANGED <<row, asked, edits, open, counted, calm>>

Finish(q) == FinishSave(q) \/ FinishDelete(q) \/ FinishCreate(q)

Next ==
    \/ HandleFetchedData
    \/ \E s \in Stats, x \in Progress : UpdateCount(s, x)
    \/ Leave
    \/ Killed
    \/ \E q \in Slots :
          \/ Tick(q)
          \/ \E n \in Names : StartCreate(q, n)
          \/ \E e \in Editors : StartDelete(q, e) \/ \E new \in Names : StartSave(q, e, new)
          \/ Serve(q)
          \/ Unauthorized(q) \/ Retry(q) \/ Fail(q)
          \/ Finish(q)

Spec == Init /\ [][Next]_vars

\* The ticker ticks; answers arrive, also that of a refresh; and a request that is sent
\* again after each refresh is answered something else than 401 at last.
Fairness ==
    /\ WF_vars(\E q \in Slots : Tick(q))
    /\ \A q \in Slots : WF_vars(Retry(q)) /\ WF_vars(Finish(q)) /\ SF_vars(Serve(q))

FairSpec == Spec /\ Fairness

-------------------------------------------------------------------------------
(* Properties.                                                             *)
(*                                                                         *)
(* The code has no answer to requests that fail or overtake each other.    *)
(* calm is TRUE while none has failed, none was sent (and the page was not *)
(* loaded) while one about the same names was under way, no page was       *)
(* killed with unsaved counts, nobody typed another name while a name was  *)
(* being saved, and each save and delete was sent under the name that the  *)
(* page shows: an editor does not see what the other editor of its stat    *)
(* has saved, and a deleter does not see any new name.                     *)

\* Whatever answers arrive in whatever order, what is on the page is a whole stat with a
\* name and counts, or nothing.
TypeOK ==
    /\ row \in [Names -> Row \cup {None}]
    /\ asked \in 0 .. MaxStats
    /\ edits \in 0 .. MaxEdits
    /\ open \in BOOLEAN
    /\ page \in [Stats -> PageStat \cup {None}]
    /\ editor \in [Editors -> Editor \cup {None}]
    /\ req \in [Slots -> ReqState]
    /\ counted \in [Stats -> Counts]
    /\ calm \in BOOLEAN

\* A number in the field means the same count before and after a save, a rename and
\* every other request: as long as a stat is on the page, count and field differ by
\* the last_count it was loaded with.
FieldKeepsItsMeaning ==
    [][\A s \in OnPage : page'[s] # None =>
          page'[s].present - page'[s].input = page[s].present - page[s].input]_vars

\* A calm page and the database have the same stats under the same names.
PageMatches ==
    calm /\ open /\ Quiet =>
        /\ {row[n].stat : n \in Stored} = OnPage
        /\ \A s \in OnPage : page[s].name \in Stored /\ row[page[s].name].stat = s

\* In a calm browser no count is lost and none goes to another stat: once everything
\* is saved and answered, the database has what the owner counted last on each stat,
\* also if the page was left and loaded again.
NothingLost ==
    calm /\ Quiet /\ Changed = {} =>
        \A n \in Stored : row[n].count = counted[row[n].stat]

\* What is counted on a stat arrives, unless the owner counts on, deletes the stat, or
\* the browser is not calm.
CountArrives ==
    \A s \in Stats, c \in Counts :
        counted[s] = c ~>
            \/ \E n \in Stored : row[n] = [stat |-> s, count |-> c]
            \/ counted[s] # c
            \/ \A n \in Stored : row[n].stat # s
            \/ ~calm
===============================================================================
