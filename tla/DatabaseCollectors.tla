------------------------- MODULE DatabaseCollectors -------------------------
(***************************************************************************)
(* The programs of the collectors that query database servers.             *)
(***************************************************************************)
EXTENDS CollectorProgram

-----------------------------------------------------------------------------
\* postgres.  Every failure ends the round; nothing is caught for good.
PostgresConnect ==
    Try(Ask("connect", {"Io"}), [e \in Every |-> LogException \o Raise(e)])

PostgresDatabaseNames ==
    PostgresConnect \o Ask("names of databases", {"Io"}) \o Many(Parse({"Key"}))

PostgresFetch == Ask("statistics", {"Io"}) \o Parse({"Value"})

Postgres ==
    When(LogError \o Return)                                \* no psycopg2
    \o PostgresDatabaseNames
    \o Many(                                                \* metrics
        When(LogError \o Continue)                          \* not in the registry
        \o Many(                                            \* databases
            PostgresConnect \o PostgresFetch \o Many(When(Publish))
            \o When(Break)))                                \* not multi_db

-----------------------------------------------------------------------------
\* mysqlstat.  self.db is None until the first connection, and a closed
\* connection afterwards.
MySQLConnect ==
    Drop("up")
    \o Try(Ask("connect", {"Io"}) \o Keep("db") \o Note("open") \o Note("up"),
           Catch({"Io"}, LogException))

MySQLQuery == Try(Ask("query", {"Io"}), Catch({"Io"}, LogException))

MySQLDisconnect == IfKnown("db", IfKnown("open", Drop("open"), Raise("Io")), Raise("Key"))

\* A section of get_stats that is configured: whatever it raises is logged.
MySQLSection(body) == When(Try(body, Catch(Every, LogException)))

MySQLFloats == Many(Try(Parse({"Value"}), Catch(Every, <<>>)))

MySQLGetStats ==
    Call(MySQLConnect \o IfKnown("up", <<>>, Return)
        \o MySQLQuery \o MySQLFloats
        \o MySQLSection(MySQLQuery \o MySQLFloats)                          \* master
        \o MySQLSection(MySQLQuery \o MySQLFloats)                          \* slave
        \o MySQLSection(MySQLQuery \o Many(Parse({"Value", "Key"})))        \* innodb_rseg
        \o MySQLSection(MySQLQuery \o Many(Parse({"Value", "Key"})))        \* processlist
        \o MySQLSection(Either(LogError, Ask("tmpdir", {"Io"}) \o Many(Ask("stat", {"Io"}))))
        \o MySQLSection(MySQLQuery \o Parse({"Key"}))                       \* innodb
        \o MySQLDisconnect)

\* Metrics are named by the nickname of the host, which may be missing.
MySQLPublishStats ==
    Many(Either(Dims \o PublishOwn, When(Derivative("nickname")) \o When(Publish)))

MySQL ==
    When(LogError \o Return)                                \* no MySQLdb
    \o EachInstance(
        When(LogError \o Continue)                          \* not a connection string
        \o Try(MySQLGetStats,
               Catch(Every, Try(MySQLDisconnect, Catch({"Io"}, LogException))
                            \o LogException \o Continue))
        \o When(LogError)                                   \* no such key to publish
        \o MySQLPublishStats)

-----------------------------------------------------------------------------
\* mysql55.  What was read last is kept by thread, whatever the host.
MySQLPerfConnect ==
    Call(When(LogError \o Return)                           \* no MySQLdb
        \o Try(Ask("connect", {"Io"}) \o Keep("db") \o Note("open"),
               Catch({"Io"}, LogException)))

MySQLPerfQuery ==
    IfKnown("db", IfKnown("open", Ask("query", {"Io"}), Raise("Io")), Raise("Key"))

MySQLPerfSlaveLoad(thread) ==
    Call(MySQLPerfQuery
        \o IfKnown(thread, <<>>, Keep(thread) \o Return)
        \o Use(thread) \o When(Return)                      \* no time has passed
        \o Many(Publish) \o Publish \o Keep(thread))

MySQLPerf ==
    EachInstance(
        When(Continue)
        \o MySQLPerfConnect
        \o When(MySQLPerfSlaveLoad("slave_io") \o MySQLPerfSlaveLoad("slave_sql"))
        \o MySQLDisconnect)

-----------------------------------------------------------------------------
\* proxysql.  A connection that fails leaves the statistics empty.
ProxySQLIsNumber == Parse({"Value"})                        \* float(None)

ProxySQLGetStats ==
    Call(MySQLConnect \o IfKnown("up", <<>>, Return)
        \o MySQLQuery \o Many(ProxySQLIsNumber)
        \o MySQLQuery \o Many(ProxySQLIsNumber)
        \o Note("statistics") \o MySQLDisconnect)

\* Metrics are named the same for all hosts.
ProxySQLPublishStats ==
    IfKnown("statistics", Many(When(Derivative("none")) \o Dims \o PublishOwn), Raise("Key"))

ProxySQL ==
    When(LogError \o Return)                                \* no MySQLdb
    \o EachInstance(
        Drop("statistics")
        \o Try(Parse({"Value"}) \o ProxySQLGetStats,        \* parse_host_config
               Catch(Every, Try(MySQLDisconnect, Catch({"Io"}, <<>>))
                            \o LogException \o Continue))
        \o ProxySQLPublishStats)

-----------------------------------------------------------------------------
\* mongodb and tokumx.  A host that refuses the password ends the round.
MongoConnect ==
    Try(Ask("connect", {"Io"}), Catch(Every, LogException \o Continue))
    \o When(Try(Ask("authenticate", {"Io"}), Catch(Every, LogException \o Return)))

\* Mutant of MongoInterval: one total for all hosts.
MongoIntervalOfAll == Use("totals") \o Keep("totals")

\* compute_interval: totals have an entry for each host.
MongoInterval == UseBy("instance", "totals") \o KeepBy("instance", "totals")

\* A host is named by its alias, or by its address with the port.
MongoCounter == PublishCounter("instance")

MongoPublishTransformed ==
    Many(Either(Publish, MongoCounter)) \o MongoInterval \o MongoCounter \o When(Many(MongoCounter))

\* The databases that are wanted, and their collections that are.
MongoDatabases ==
    Ask("database_names", {"Io"})
    \o Many(When(Continue)
        \o Ask("dbStats", {"Io"}) \o Many(Publish)
        \o Ask("collection_names", {"Io"})
        \o Many(When(Continue) \o Ask("collstats", {"Io"}) \o Many(Publish)))

MongoDB ==
    When(LogError \o Return)                                \* no pymongo
    \o EachInstance(
        MongoConnect
        \o Ask("serverStatus", {"Io"})
        \o MongoPublishTransformed \o Many(Publish)
        \o MongoDatabases)

TokuMX ==
    When(LogError \o Return)                                \* no pymongo
    \o EachInstance(
        MongoConnect
        \o Ask("serverStatus", {"Io"}) \o Ask("engineStatus", {"Io"})
        \o MongoPublishTransformed \o Many(Publish)
        \o MongoDatabases)

-----------------------------------------------------------------------------
\* redisstat.
RedisClient ==
    Drop("client")
    \o Try(Ask("ping", {"Io"}) \o Note("client"), Catch(Every, LogException))

RedisInstance ==
    Call(RedisClient \o IfKnown("client", <<>>, Return)
        \o Ask("info", {"Io"}) \o Many(Publish))

Redis ==
    When(LogError \o Return)                                \* no redis
    \o EachInstance(RedisInstance)

-----------------------------------------------------------------------------
\* slony, pgbouncer and pgq.  Nothing is caught: an instance that is away ends the
\* round of all, and so does a value that is text or None.
SlonyStatsByDatabase == Ask("connect", {"Io"}) \o Ask("query", {"Io"})

Slony ==
    When(LogError \o Return)                                \* no psycopg2
    \o EachInstance(Parse({"Key"}) \o SlonyStatsByDatabase \o Many(PublishText))

PgbouncerStatsByDatabase ==
    Ask("connect", {"Io"}) \o Many(Ask("show", {"Io"}) \o Many(Parse({"Key"})))

Pgbouncer ==
    When(LogError \o Return)                                \* no psycopg2
    \o EachInstance(Parse({"Key"}) \o PgbouncerStatsByDatabase \o Many(PublishText))

PgQForInstance ==
    Ask("get_queue_info", {"Io"}) \o Many(PublishText)
    \o Ask("get_consumer_info", {"Io"}) \o Many(PublishText)

PgQ ==
    When(LogError \o Return)                                \* no psycopg2
    \o EachInstance(Parse({"Key"}) \o Ask("connect", {"Io"}) \o PgQForInstance)
=============================================================================
