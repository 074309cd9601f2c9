---------------------------- MODULE WebCollectors ----------------------------
(***************************************************************************)
(* The programs of the collectors that read documents over HTTP.           *)
(***************************************************************************)
EXTENDS CollectorProgram

-----------------------------------------------------------------------------
\* elasticsearch and solr: _get answers a document or False.  Reading it may
\* fail like the request, and only what parsing raises is caught.
GetDocument ==
    Drop("document")
    \o Call(Try(Ask("request", {"Io"}), Catch(Every, LogException \o Return))
        \o Try(Ask("document", {"Io", "Value"}), Catch({"Value"}, LogException \o Return))
        \o Note("document"))

\* The same with assert_key: a document without the key counts as none.
GetDocumentWithKey == GetDocument \o When(LogError \o Drop("document"))

IndexMetrics == Parse({"Key"})

ElasticClusterStats == Call(GetDocument \o IfKnown("document", <<>>, Return))

ElasticIndexStats ==
    Call(GetDocumentWithKey
        \o IfKnown("document", <<>>, GetDocumentWithKey)    \* the older way to ask
        \o IfKnown("document", <<>>, Return)
        \o IndexMetrics \o When(Return)                     \* no indices
        \o GetDocument                                      \* _alias, if it answers
        \o Many(IndexMetrics))

ElasticInstance ==
    Call(GetDocumentWithKey
        \o IfKnown("document", Parse({"Key"}), Raise("Value"))      \* False['version']
        \o GetDocumentWithKey \o IfKnown("document", <<>>, Return)
        \o Parse({"Key", "Value"})
        \o When(ElasticClusterStats) \o When(ElasticIndexStats)
        \o Many(Publish))

ElasticSearch ==
    When(LogError \o Return)                                \* no json
    \o EachInstance(ElasticInstance)

\* The cores are configured or asked for; all metrics are published at the end.
Solr ==
    When(LogError \o Return)                                \* no json
    \o When(GetDocument \o IfKnown("document", Parse({"Key"}), Return))
    \o EachInstance(
        When(GetDocument \o IfKnown("document", Parse({"Key"}), Continue))     \* ping
        \o GetDocument \o IfKnown("document", Parse({"Key"}), Continue)        \* mbeans
        \o When(GetDocument \o IfKnown("document", Parse({"Key"}), Continue))) \* system
    \o Many(Publish)

-----------------------------------------------------------------------------
\* jolokia and its subclasses.  A request that fails answers an empty document.
JolokiaRequest ==
    Drop("document")
    \o Try(Ask("request", {"Io"}) \o Ask("document", {"Io", "Value"}) \o Note("document"),
           Catch(Every, LogException \o LogException))

JolokiaStatus == IfKnown("document", Parse({"Key"}), Raise("Key"))

\* The listing of domains is asked for if modified since the last one, whichever
\* host gave that.
JolokiaListRequest == IfKnown("listing", Use("listing"), <<>>) \o JolokiaRequest

JolokiaReadMetricPath(bean) == JolokiaRequest \o JolokiaStatus \o bean

JolokiaReadExceptBlacklist(bean) ==
    JolokiaRequest
    \o Try(JolokiaStatus \o Many(When(JolokiaReadMetricPath(bean))), Catch({"Key"}, LogException))

JolokiaPublishDomain(bean) ==
    Call(When(JolokiaReadExceptBlacklist(bean) \o Return)
        \o JolokiaRequest \o JolokiaStatus \o Many(When(bean)))

JolokiaHostList ==
    Try(Ask("nerve.conf.json", {"Io", "Value", "Key"}), Catch(Every, LogException \o Return))

\* Several hosts; of the listing the domains are kept when it was modified.
Jolokia(bean) ==
    JolokiaHostList
    \o EachInstance(
        JolokiaListRequest
        \o Try(JolokiaStatus \o When(Keep("listing"))
               \o IfKnown("listing", Use("listing") \o Many(When(JolokiaPublishDomain(bean))), <<>>),
               Catch({"Key"}, LogException)))

JolokiaBean == Many(Publish)

\* The subclasses divide the name of a bean into dimensions.
ParseDimensionBean ==
    Try(Parse({"Value", "Key"}) \o Dims \o Either(NoDims, PublishOwn), Catch(Every, LogException))

CassandraHistogram == Many(Parse({"Value", "Key"}) \o Publish)

CassandraBean == Many(Either(ParseDimensionBean, When(CassandraHistogram)))

KafkaBean == Many(ParseDimensionBean)

CassandraJolokia == Jolokia(CassandraBean)
KafkaJolokia == Jolokia(KafkaBean)

-----------------------------------------------------------------------------
\* rabbitmq.  Names of queues have two forms; which of them were published is kept.
RabbitCall == Ask("api", {"Io"}) \o Ask("document", {"Io", "Value"})

RabbitHealth ==
    Try(RabbitCall \o Parse({"Key"}) \o RabbitCall
        \o Many(Parse({"Key"}) \o Publish)
        \o When(Parse({"Key"}) \o Publish \o RabbitCall \o Publish),
        Catch(Every, LogException))

RabbitQueue(names) == When(Continue) \o Parse({"Key"}) \o Keep(names) \o Many(Publish)

\* Without vhosts in the configuration the names are the old ones; but then
\* vhosts are put into the configuration.
RabbitMQ ==
    RabbitHealth
    \o Try(Drop("legacy")
           \o IfKnown("vhosts", RabbitCall, Note("legacy") \o Keep("vhosts"))
           \o Many(RabbitCall
                   \o IfKnown("legacy", Many(RabbitQueue("queues")),
                                        Many(RabbitQueue("vhosts.queues"))))
           \o RabbitCall \o Many(Publish),
           Catch(Every, LogException \o Return))

-----------------------------------------------------------------------------
\* haproxy.  Whether the server is protected is up to it; no request carries
\* the header that was added, as the address is opened and not the request.
HAProxyOpen == IfKnown("protected", Raise("Io"), Ask("stats", {"Io"}))

HAProxyCsv ==
    Drop("csv") \o Drop("scheme is basic")
    \o When(LogError \o Raise("Key"))                       \* no such section
    \o Call(Try(HAProxyOpen \o Note("csv") \o Return,
                Catch({Alarm}, LogException \o Return)
                @@ Catch(Errors, IfKnown("protected", <<>>, LogException \o Return)))
        \o Parse({"Value"}) \o When(LogException \o Return) \* no header, or not basic
        \o Note("scheme is basic")
        \o Try(HAProxyOpen \o Note("csv") \o Return, Catch({"Io"}, LogException \o Return)))

HAProxy ==
    EachInstance(
        Either(Note("protected"), Drop("protected"))
        \o HAProxyCsv \o IfKnown("csv", Parse({"Key"}), Raise("Key"))    \* data[0]
        \o Many(When(Continue) \o Parse({"Key"})                        \* rows
            \o Many(Either(Continue, Dims \o PublishOwn))))

-----------------------------------------------------------------------------
\* httpd.  Redirections are followed for as long as there are any.
HttpdPage == Forever(Parse({"Value"}) \o Ask("page", {"Io"}) \o When(Break))

HttpdProcesses ==
    Try(Ask("ps", {"Io"})
        \o Either(LogError, Many(Parse({"Value"})) \o Many(Publish \o Publish)),
        Catch(Every, LogException))

Httpd ==
    EachInstance(
        Try(HttpdPage, Catch(Every, LogException \o Continue))
        \o Many(When(Parse({"Value"}) \o Publish)))
    \o HttpdProcesses

-----------------------------------------------------------------------------
\* jbossapi.  A curl that fails leaves no output.
JbossData ==
    Drop("output")
    \o Try(Ask("curl", {"Io", "Value"}) \o Note("output"), Catch(Every, LogException))

JbossStats ==
    When(LogError)                                          \* no curl
    \o When(Parse({"Key"}))                                 \* interface_regex
    \o Many(JbossData                                       \* app, web, jvm
        \o When(IfKnown("output", Many(Parse({"Key", "Value"}) \o Publish), <<>>)))

JbossApi == EachInstance(When(Continue) \o Parse({"Value"}) \o JbossStats)
=============================================================================
