-------------------------------- MODULE Mysql --------------------------------
(***************************************************************************)
(* The sql handler, MysqlDatabaseHandler of database/mysql.go.  A handler  *)
(* has a gorm.DB, and each method of a query replaces it by the one that   *)
(* gorm's method returns: conditions and an error stay with the handler.   *)
(* The handler of a name is shared by the goroutines that ask for it; New  *)
(* and Begin return a handler of their own.                                *)
(*                                                                         *)
(* gorm is external: a DB is its conditions and its error, its methods     *)
(* return copies of it, and a statement on a DB with an error is not run.  *)
(***************************************************************************)
EXTENDS FiniteSets

CONSTANTS
    Queriers,  \* goroutines with the shared handler
    Conditions \* conditions, models and orders of a query

VARIABLES
    shared,   \* the DB of the shared handler
    queriers, \* the DB of the handler that New or Begin gave, and the query so far
    direct,   \* a statement was run or a condition set on the shared handler itself
    ran       \* the last statement: its conditions, those it should have, whether it
              \* was skipped, and whether Begin or one on its handler had failed before

mysqlVars == <<shared, queriers, direct, ran>>

Clean == [conditions |-> {}, error |-> FALSE]
NoQuery == [handler |-> "shared", db |-> Clean, read |-> Clean, reading |-> FALSE, wants |-> {},
            failed |-> FALSE]
NoStatement == [handler |-> "shared", conditions |-> {}, wants |-> {}, skipped |-> FALSE,
                failed |-> FALSE]

\* NewHandler has opened the database.
MysqlInit ==
    /\ shared = Clean
    /\ queriers = [g \in Queriers |-> NoQuery]
    /\ direct = FALSE
    /\ ran = NoStatement

\* A wrong New for QueryIsOwn: the conditions are copied as well.
NewCopies(g) ==
    /\ ~queriers[g].reading
    /\ queriers' = [queriers EXCEPT ![g] = [NoQuery EXCEPT !.handler = "own", !.db = shared]]
    /\ UNCHANGED <<shared, direct, ran>>

\* New: gorm's New drops the conditions and keeps the error.
New(g) ==
    /\ ~queriers[g].reading
    /\ queriers' = [queriers EXCEPT ![g] =
                       [NoQuery EXCEPT !.handler = "own", !.db.error = shared.error]]
    /\ UNCHANGED <<shared, direct, ran>>

\* Begin: a handler of the transaction with a copy of the DB.  If the transaction cannot
\* be begun the error is in that DB, and nothing else tells of it.
Begin(g) ==
    /\ ~queriers[g].reading
    /\ \E failed \in BOOLEAN :
           queriers' = [queriers EXCEPT ![g] =
               [NoQuery EXCEPT !.handler = "transaction",
                               !.db = [shared EXCEPT !.error = @ \/ failed],
                               !.wants = shared.conditions, !.failed = failed]]
    /\ UNCHANGED <<shared, direct, ran>>

\* this.Db = this.Db.Where(...), and the other methods up to the one that runs the
\* statement, on a handler of its own.
Chain(g, c) ==
    /\ queriers[g].handler # "shared"
    /\ queriers' = [queriers EXCEPT ![g].db.conditions = @ \cup {c}, ![g].wants = @ \cup {c}]
    /\ UNCHANGED <<shared, direct, ran>>

\* On the shared handler the DB is read in one step and written in another.
ChainReads(g) ==
    /\ queriers[g].handler = "shared"
    /\ ~queriers[g].reading
    /\ queriers' = [queriers EXCEPT ![g].read = shared, ![g].reading = TRUE]
    /\ UNCHANGED <<shared, direct, ran>>

ChainWrites(g, c) ==
    /\ queriers[g].reading
    /\ shared' = [queriers[g].read EXCEPT !.conditions = @ \cup {c}]
    /\ queriers' = [queriers EXCEPT ![g].read = Clean, ![g].reading = FALSE,
                                    ![g].wants = @ \cup {c}]
    /\ direct' = TRUE
    /\ UNCHANGED ran

Ran(g, db) ==
    [handler |-> queriers[g].handler, conditions |-> db.conditions, wants |-> queriers[g].wants,
     skipped |-> db.error, failed |-> queriers[g].failed]

\* Find, Count, Update, Save, Delete and the others that run the statement, on a
\* handler of its own.
Statement(g) ==
    /\ queriers[g].handler # "shared"
    /\ ran' = Ran(g, queriers[g].db)
    /\ \E failed \in BOOLEAN :
           queriers' = [queriers EXCEPT ![g].db.error = @ \/ failed, ![g].failed = @ \/ failed]
    /\ UNCHANGED <<shared, direct>>

\* Commit and Rollback, or the end of the use of the handler.
Commit(g) ==
    /\ queriers[g].handler # "shared"
    /\ queriers' = [queriers EXCEPT ![g] = NoQuery]
    /\ UNCHANGED <<shared, direct, ran>>

\* On the shared handler conditions and error remain, for all.
SharedStatement(g) ==
    /\ queriers[g].reading
    /\ ran' = Ran(g, queriers[g].read)
    /\ \E failed \in BOOLEAN : shared' = [queriers[g].read EXCEPT !.error = @ \/ failed]
    /\ queriers' = [queriers EXCEPT ![g] = NoQuery]
    /\ direct' = TRUE

MysqlNext ==
    \E g \in Queriers :
        \/ New(g) \/ Begin(g) \/ Statement(g) \/ Commit(g) \/ ChainReads(g) \/ SharedStatement(g)
        \/ \E c \in Conditions : Chain(g, c) \/ ChainWrites(g, c)

-----------------------------------------------------------------------------
\* A statement on a handler that New or Begin gave is its goroutine's own, whatever
\* others do with the shared handler at the time: after New it has the conditions that
\* were set, no more and no fewer, and it is run unless Begin or an earlier one on its
\* handler failed, as long as nobody uses the shared handler itself.  On the shared
\* handler a statement has the conditions of earlier ones, or has lost some to another
\* goroutine, and an error is never cleared.
QueryIsOwn ==
    /\ ran.handler = "own" => ran.conditions = ran.wants
    /\ ran.skipped /\ ran.handler # "shared" => ran.failed \/ direct
=============================================================================
