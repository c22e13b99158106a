---------------------------- MODULE MCComponents ----------------------------
(***************************************************************************)
(* Components that share no state, checked in one run: a behaviour is one  *)
(* of one part, the others stay as they begin.                             *)
(***************************************************************************)
EXTENDS Handlers, Hbase, Redis, Mysql, ConfigReload, SortComponent, MergedContext

CONSTANTS u1, u2, u3, log, database, kvstore, session

VARIABLE part

MCKeyPrefixes == {<<"a">>, <<"b">>}
MCRedisKeys == {<<"k">>}

\* Four components with every acyclic dependency relation, also on Config, which is
\* not among them.
FourComponents == <<session, database, log, kvstore>>

vars == <<part, handlersVars, hbaseVars, redisVars, mysqlVars, configVars, sortVars, mergedVars>>

\* A part that is not the one chosen starts in some one of its initial states.
Init ==
    /\ part \in {"handlers", "hbase", "redis", "mysql", "config", "sort", "merged"}
    /\ HandlersInit /\ HbaseInit /\ RedisInit /\ MysqlInit /\ MergedInit
    /\ IF part = "config" THEN ConfigInit ELSE ConfigInit /\ configFile.exists /\ dotenvFile.value = 0
    /\ IF part = "sort" THEN SortInit ELSE fields = << >> /\ sortings = 0 /\ sorted = << >>

Step(p) ==
    /\ part = p
    /\ UNCHANGED part
    /\ p # "handlers" => UNCHANGED handlersVars
    /\ p # "hbase" => UNCHANGED hbaseVars
    /\ p # "redis" => UNCHANGED redisVars
    /\ p # "mysql" => UNCHANGED mysqlVars
    /\ p # "config" => UNCHANGED configVars
    /\ p # "sort" => UNCHANGED sortVars
    /\ p # "merged" => UNCHANGED mergedVars

Next ==
    \/ Step("handlers") /\ HandlersNext
    \/ Step("hbase") /\ HbaseNext
    \/ Step("redis") /\ RedisNext
    \/ Step("mysql") /\ MysqlNext
    \/ Step("config") /\ ConfigNext
    \/ Step("sort") /\ Sort
    \/ Step("merged") /\ MergedNext

\* The goroutines of the hbase handler are scheduled, and its server answers or
\* fails.  The goroutine that reloads the configuration is scheduled, and its Sleep
\* returns.  The goroutine of a merged context is scheduled.
FairSpec ==
    /\ Init
    /\ [][Next]_vars
    /\ \A p \in Callers : WF_vars(Step("hbase") /\ CallerStep(p))
    /\ WF_vars(Step("config") /\ LoaderStep)
    /\ WF_vars(Step("merged") /\ Run)
=============================================================================
