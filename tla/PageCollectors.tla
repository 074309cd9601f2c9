--------------------------- MODULE PageCollectors ---------------------------
(***************************************************************************)
(* The programs of the collectors that read a status page, most of them    *)
(* one, with urllib2: "Away" is URLError, of a server that cannot be       *)
(* reached, and "Io" HTTPError, of one that refuses.                       *)
(***************************************************************************)
EXTENDS CollectorProgram

Urlopen == Ask("urlopen", {"Away", "Io"})

\* Whatever urlopen raises is logged, and ends the round.
UrlopenOrReturn == Try(Urlopen, Catch(Every, LogException \o Return))

\* Reading what was opened.
ReadPage == Ask("page", {"Io"})

-----------------------------------------------------------------------------
\* aurora, mesos, hacheck: a server that is away ends the round, one that refuses
\* or makes no sense answers no metrics.
Aurora ==
    Urlopen \o ReadPage
    \o Many(Try(When(Parse({"Value"}) \o Publish), Catch({"Value"}, Continue)))

MesosMetrics ==
    Drop("metrics")
    \o Try(Urlopen \o ReadPage \o Parse({"Value"}) \o Note("metrics"), Catch({"Io", "Value"}, LogException))

Mesos == MesosMetrics \o IfKnown("metrics", Many(PublishText), <<>>)

HacheckMetrics ==
    Drop("metrics")
    \o Call(Try(Urlopen, Catch({"Io"}, LogException \o Return))
        \o Try(ReadPage \o Parse({"Value"}), Catch({"Value"}, LogException \o Return))
        \o Note("metrics"))

Hacheck == HacheckMetrics \o IfKnown("metrics", Many(When(Continue) \o PublishText), <<>>)

\* synapse reads a file; if that is not there the name f is not bound.
Synapse ==
    Try(Ask("synapse.conf", {"Io"}) \o Try(Parse({"Value"}), Catch({"Value"}, Return)),
        Catch({"Io"}, Raise("Key")))
    \o Parse({"Key"}) \o Many(When(Continue)) \o Publish \o Publish

\* httpjson: what is no number is published as None, which is refused.
JsonToFlatMetrics == Try(Parse({"Value"}), Catch({"Value"}, <<>>))

HTTPJSON ==
    Call(Try(Urlopen, Catch({"Away", "Io"}, LogException \o Return))
        \o ReadPage
        \o Try(Parse({"Value"}), Catch({"Value"}, LogException \o Return))
        \o Many(JsonToFlatMetrics \o PublishText))

-----------------------------------------------------------------------------
\* puppetdb: of a page that did not come the values are looked up in {}.
PuppetDBFetch ==
    Call(Try(Urlopen, Catch(Every, LogException \o Note("{}") \o Return))
        \o ReadPage \o Parse({"Value"}))

PuppetDB ==
    Many(PuppetDBFetch)
    \o IfKnown("{}", When(Publish) \o Raise("Key"), Many(Parse({"Key", "Value"}) \o Either(Publish, PublishCounter("none"))))

PuppetDashboard ==
    UrlopenOrReturn \o ReadPage
    \o Many(When(Continue) \o Try(When(PublishText), Catch(Every, LogException)))

ResqueWeb ==
    UrlopenOrReturn \o ReadPage
    \o Many(When(Continue) \o Parse({"Value"})
        \o Try(Parse({"Value"}) \o Publish, Catch(Every, LogException)))

SidekiqWeb ==
    UrlopenOrReturn
    \o Try(ReadPage \o Parse({"Value"}), Catch(Every, LogException \o Return))
    \o Many(Parse({"Key"}) \o Many(Either(Parse({"Value"}) \o Many(Publish), PublishText)))

PhpFpm ==
    UrlopenOrReturn
    \o Try(ReadPage \o Parse({"Value"}), Catch(Every, LogException \o Return))
    \o Many(When(PublishText))

\* s3 asks for the keys of a bucket one listing at a time; lookup answers None of
\* a bucket that is not there.
S3BucketSize == When(Raise("Value")) \o Many(Ask("keys", {"Io"}))

S3Bucket ==
    When(LogError \o Return)
    \o EachInstance(
        Parse({"Key"})
        \o Many(Ask("bucket", {"Io"}) \o S3BucketSize \o Many(Publish)))

\* websitemonitor: a server that is away has no code.
WebsiteMonitor ==
    Try(Urlopen \o Publish,
        Catch({"Away"}, Raise("Key"))
        @@ Catch({"Io"}, Either(When(Publish), LogException))
        @@ Catch(Every, LogException))

\* Mutant of Http: the except clause is around the loop.
HttpAllAtOnce ==
    Try(EachInstance(Urlopen \o ReadPage \o Publish \o Publish),
        Catch(Every, LogException))

Http ==
    EachInstance(
        Try(Urlopen \o ReadPage \o Publish \o Publish, Catch(Every, LogException)))

\* Mutant of Nginx: the except clause passes.
NginxSilent ==
    Try(Urlopen \o ReadPage
        \o Many(When(Either(Publish, Parse({"Value"}) \o Publish \o Publish \o Publish \o Publish))),
        Catch(Every, <<>>))

Nginx ==
    Try(Urlopen \o ReadPage
        \o Many(When(Either(Publish, Parse({"Value"}) \o Publish \o Publish \o Publish \o Publish))),
        Catch(Every, LogException))

-----------------------------------------------------------------------------
\* celerymon asks for what happened since the round before that went well.
Celerymon ==
    IfKnown("LastCollectTime", Use("LastCollectTime"), Keep("LastCollectTime"))
    \o Urlopen \o ReadPage \o Parse({"Value"})
    \o Many(Parse({"Key"})) \o Publish \o Many(Publish)
    \o Keep("LastCollectTime")

\* dseopscenter: the time is moved on before the answer is known; the names of
\* column families are asked for only when there are some already.
OpsCenterSchema ==
    Call(IfKnown("column_families", When(Return), Return)
        \o Try(Urlopen, Catch(Every, LogException \o Return))
        \o Try(ReadPage \o Parse({"Value", "Key"}) \o Keep("column_families"),
               Catch({"Value"}, LogException)))

OpsCenterGet ==
    Drop("result") \o OpsCenterSchema
    \o Call(Try(Urlopen, Catch(Every, LogException \o Return))
        \o Try(ReadPage \o Parse({"Value"}) \o Note("result"), Catch({"Value"}, LogException)))

DseOpsCenter ==
    When(LogError \o Return)
    \o IfKnown("last_run_time", <<>>, Keep("last_run_time"))
    \o When(Return)                                         \* once in a minute
    \o OpsCenterGet \o Keep("last_run_time")
    \o IfKnown("result", <<>>, Return)
    \o Many(Parse({"Key"})) \o Many(PublishText)

-----------------------------------------------------------------------------
\* dropwizard, flume.
DropwizardMetrics == Parse({"Key"})

Dropwizard ==
    When(LogError \o Return)
    \o Try(Urlopen, Catch({"Io"}, LogException \o Return))
    \o Try(ReadPage \o Parse({"Value"}), Catch({"Value"}, LogException \o Return))
    \o DropwizardMetrics \o Many(PublishText)

Flume ==
    Try(Urlopen \o Try(ReadPage \o Parse({"Value"}), Catch(Every, LogException \o Return)),
        Catch(Every, LogException \o Return))
    \o Many(Parse({"Key"})
        \o Many(Parse({"Key", "Value"}) \o Either(Publish, PublishCounter("none"))))

\* hadoop and hbase: what was published is truncated away at the end, with what
\* was written meanwhile.
HadoopFrom ==
    Call(When(LogError \o Return)
        \o Ask("log", {"Io"})
        \o Many(When(Continue)
            \o Many(Try(Parse({"Key", "Value"}) \o When(Continue) \o Publish, Catch({"Value"}, <<>>))))
        \o When(Ask("truncate", {"Io"})))

Hadoop == EachInstance(HadoopFrom)

HBaseFrom ==
    Call(When(LogError \o Return)
        \o Ask("log", {"Io"})
        \o Many(When(Continue)
            \o Many(Try(Parse({"Key", "Value"}) \o When(Continue) \o Publish, Catch({"Value"}, <<>>))))
        \o Ask("truncate", {"Io"}))

HBase == EachInstance(HBaseFrom)

-----------------------------------------------------------------------------
\* monit, endecadgraph.
Monit ==
    Try(Urlopen, Catch({"Io"}, LogException \o Return))
    \o Try(ReadPage \o Parse({"Value"}), Catch(Every, LogException \o Return))
    \o Many(Parse({"Key", "Value"}) \o When(Try(Parse({"Key", "Value"}), Catch(Every, <<>>))))
    \o Many(PublishText)

EndecaDgraph ==
    Try(Urlopen \o ReadPage, Catch(Every, LogException \o Return))
    \o Try(Many(Parse({"Value"}) \o When(Continue) \o When(Many(PublishText))),
           Catch(Every, LogException))

\* kafkastat: what was not answered is None, and no set is updated with that.
KafkaGet ==
    Drop("beans")
    \o Call(Try(Urlopen, Catch({"Away", "Io"}, LogException \o Return))
        \o Try(ReadPage \o Parse({"Value"}), Catch({"Value"}, LogException \o Return))
        \o Note("beans"))

KafkaMbeans == KafkaGet \o IfKnown("beans", <<>>, Raise("Value"))

KafkaQueryMbean == KafkaGet \o IfKnown("beans", Parse({"Key"}) \o Many(Parse({"Value"})), Raise("Value"))

KafkaStat ==
    When(LogError \o Return)
    \o Many(KafkaMbeans) \o Many(KafkaQueryMbean) \o Many(Publish)

-----------------------------------------------------------------------------
\* postfix, squid: documents over a socket, up to its end.
PostfixJson ==
    Try(Ask("connect", {"Io"}) \o Forever(Ask("chunk", {"Io"}) \o When(Break)),
        Catch({"Io"}, LogException))

PostfixData ==
    Drop("data") \o PostfixJson \o Try(Parse({"Value"}) \o Note("data"), Catch({"Value"}, LogException))

Postfix ==
    PostfixData \o IfKnown("data", When(Return), Return)
    \o When(Many(Dims \o PublishTextOwn))                   \* clients
    \o Many(When(Continue) \o Many(When(Continue) \o Many(Dims \o PublishTextOwn)))
    \o When(Many(Dims \o PublishTextOwn))                   \* local

SquidData ==
    Drop("data")
    \o Try(Ask("connect", {"Io"}) \o Forever(Ask("chunk", {"Io"}) \o When(Break)) \o Note("data"),
           Catch(Every, LogException))

\* Hosts are in a dictionary by their nicknames, or ports: no two have the same.
Squid ==
    EachInstance(
        SquidData
        \o IfKnown("data", Many(When(Parse({"Value"}) \o PublishCounter("instance"))), <<>>))
=============================================================================
