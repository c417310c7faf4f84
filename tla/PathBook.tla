------------------------------- MODULE PathBook -------------------------------
(***************************************************************************)
(* What the path service promises to the people who use it, with no        *)
(* database tables and no requests: a set of paths, and the book of stats  *)
(* that a path page can show.  A stat is in the book together with its     *)
(* quota or not at all, it enters with the default quota, and one step     *)
(* changes the book for one path only.                                     *)
(***************************************************************************)
EXTENDS Integers

CONSTANTS
    Users,            \* the people who may own a path
    PathIds,          \* the ids a path can get
    PathNames,        \* the names of paths
    StatNames,        \* the names of stats
    Counts,           \* the counter values
    Settings,         \* the (quota, hoursLimit) pairs
    DefaultSettings   \* the pair a new quota gets

VARIABLES
    paths,            \* the set of paths: rows [id, user_id, name, public]
    book              \* the set of shown stats: rows [path_id, name, count, settings]

bookVars == <<paths, book>>

PathRow == [id : PathIds, user_id : Users, name : PathNames, public : BOOLEAN]

BookRow == [path_id : PathIds, name : StatNames, count : Counts, settings : Settings]

InBook(p, n) == \E b \in book : b.path_id = p /\ b.name = n

BookInit == paths = {} /\ book = {}

-------------------------------------------------------------------------------

OpenPath ==
    \E x \in PathRow :
        /\ \A y \in paths : y.id # x.id
        /\ \A y \in paths : y.user_id = x.user_id => y.name # x.name
        /\ ~x.public
        /\ paths' = paths \cup {x}
        /\ UNCHANGED book

\* A path gets another name, is shown to everybody or hidden.
ChangePath ==
    \E x \in paths, n \in PathNames, public \in BOOLEAN :
        /\ \A y \in paths \ {x} : y.user_id = x.user_id => y.name # n
        /\ paths' = (paths \ {x}) \cup {[x EXCEPT !.name = n, !.public = public]}
        /\ UNCHANGED book

ClosePath ==
    \E x \in paths :
        /\ paths' = paths \ {x}
        /\ book' = {b \in book : b.path_id # x.id}

\* A stat that was made a moment ago shows up, and it has the default quota.
ShowStat ==
    \E x \in paths, n \in StatNames, c \in Counts :
        /\ ~InBook(x.id, n)
        /\ book' = book \cup {[path_id |-> x.id, name |-> n, count |-> c,
                               settings |-> DefaultSettings]}
        /\ UNCHANGED paths

RenameStat ==
    \E b \in book, n \in StatNames :
        /\ ~InBook(b.path_id, n)
        /\ book' = (book \ {b}) \cup {[b EXCEPT !.name = n]}
        /\ UNCHANGED paths

Configure ==
    \E b \in book, s \in Settings :
        /\ book' = (book \ {b}) \cup {[b EXCEPT !.settings = s]}
        /\ UNCHANGED paths

HideStat ==
    \E b \in book :
        /\ book' = book \ {b}
        /\ UNCHANGED paths

\* The counters of any of a path's stats change in one step.
Recount ==
    \E x \in paths, N \in SUBSET StatNames : \E f \in [N -> Counts] :
        /\ book' = {IF b.path_id = x.id /\ b.name \in N
                    THEN [b EXCEPT !.count = f[b.name]] ELSE b : b \in book}
        /\ UNCHANGED paths

BookNext ==
    /\ bookVars' # bookVars
    /\ \/ OpenPath \/ ChangePath \/ ClosePath
       \/ ShowStat \/ RenameStat \/ Configure \/ HideStat \/ Recount

BookSpec == BookInit /\ [][BookNext]_bookVars
===============================================================================
