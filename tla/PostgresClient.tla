---------------------------- MODULE PostgresClient -----------------------------
(***************************************************************************)
(* The PostgreSQL client of the user service and of the path service: the  *)
(* field db of Client, the goroutine that replaces the pool it points to,  *)
(* the statements of the handlers, and a server that goes away and comes   *)
(* back.                                                                   *)
(*                                                                         *)
(* sql.Open checks the connection string and connects to nothing; the      *)
(* string is the same each time, so a pool is made at the first attempt.   *)
(* A pool that is open dials by itself: a statement on it succeeds as soon *)
(* as the server is back.  On a closed one every statement fails.          *)
(*                                                                         *)
(* monitorConnection ends by calling Connect, which starts the next one:   *)
(* there is one thread of control, handed on from goroutine to goroutine.  *)
(***************************************************************************)
CONSTANTS
    Pools,            \* names for pools, given again when nobody uses them
    Statements,       \* handlers, each with one statement at a time
    NoPool            \* nil

VARIABLES
    db,               \* the field db
    open,             \* the pools that are not closed
    monitor,          \* where the goroutine is
    statement,        \* the pool each statement was given
    up                \* the server answers

clientVars == <<db, open, monitor, statement, up>>

ClientInit ==
    /\ db = NoPool
    /\ open = {}
    /\ monitor = "Connect"
    /\ statement = [s \in Statements |-> NoPool]
    /\ up \in BOOLEAN

\* A new pool is none of these.
InUse == open \cup {db} \cup {statement[s] : s \in Statements}

\* Mutant: the error of sql.Open is not looked at.
ConnectUnchecked ==
    /\ monitor = "Connect"
    /\ db' \in {NoPool} \cup (Pools \ InUse)
    /\ open' = (open \cup {db'}) \ {NoPool}
    /\ monitor' = "sleep"
    /\ UNCHANGED <<statement, up>>

Connect ==
    /\ monitor = "Connect"
    /\ Pools \ InUse # {}
    /\ db' = CHOOSE p \in Pools \ InUse : TRUE
    /\ open' = open \cup {db'}
    /\ monitor' = "sleep"
    /\ UNCHANGED <<statement, up>>

\* A statement on the pool gets an answer from the server.
Works(pool) == pool \in open /\ up

\* Ten seconds are over and Ping fails; when it does not, nothing happens.
Ping ==
    /\ monitor = "sleep"
    /\ ~Works(db)
    /\ monitor' = "Close"
    /\ UNCHANGED <<db, open, statement, up>>

\* Mutant: c.db.Close is forgotten.
LoseDb ==
    /\ monitor = "Close"
    /\ monitor' = "Connect"
    /\ UNCHANGED <<db, open, statement, up>>

\* Mutant: the loop goes on instead of connecting.
CloseDbOnly ==
    /\ monitor = "Close"
    /\ open' = open \ {db}
    /\ monitor' = "sleep"
    /\ UNCHANGED <<db, statement, up>>

CloseDb ==
    /\ monitor = "Close"
    /\ open' = open \ {db}
    /\ monitor' = "Connect"
    /\ UNCHANGED <<db, statement, up>>

\* QueryRowContext and the others look at c.db twice: at first for nil, which it is
\* not again once it was set, then for the pool to use.
Begin(s) ==
    /\ statement[s] = NoPool
    /\ db # NoPool
    /\ statement' = [statement EXCEPT ![s] = db]
    /\ UNCHANGED <<db, open, monitor, up>>

\* The statement is done, or refused.
End(s) ==
    /\ statement[s] # NoPool
    /\ statement' = [statement EXCEPT ![s] = NoPool]
    /\ UNCHANGED <<db, open, monitor, up>>

\* External: the server stops or is cut off, and comes back.
Server ==
    /\ up' = ~up
    /\ UNCHANGED <<db, open, monitor, statement>>

Monitor == Connect \/ Ping \/ CloseDb

ClientNext == Monitor \/ (\E s \in Statements : Begin(s) \/ End(s)) \/ Server

\* The goroutine wakes up every ten seconds, and a statement takes no longer.
ClientFairness ==
    /\ WF_clientVars(Monitor)
    /\ \A s \in Statements : WF_clientVars(End(s))

ClientSpec == ClientInit /\ [][ClientNext]_clientVars /\ ClientFairness

\* The goroutine waits only for a pool that it has, and every pool is known.
ClientTypeOK ==
    /\ db \in Pools \cup {NoPool}
    /\ open \subseteq Pools
    /\ monitor \in {"Connect", "sleep", "Close"}
    /\ monitor # "Connect" => db \in Pools
    /\ statement \in [Statements -> Pools \cup {NoPool}]
    /\ up \in BOOLEAN

\* However often the server goes away, the service keeps no pool but the one it
\* uses: none is left open behind its back, with its connections and its goroutine.
OnePool == open \subseteq {db} /\ (monitor = "Connect" => open = {})

\* Once the server is back for good, the service ends up with an open pool, and so
\* does every statement: only so many requests are refused.
ServesAgain ==
    <>[]up => <>[](/\ db \in open
                   /\ \A s \in Statements : statement[s] \in open \cup {NoPool})
===============================================================================
