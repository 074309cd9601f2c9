-------------------------- MODULE ServiceCollectors --------------------------
(***************************************************************************)
(* The programs of the collectors that talk to a service over a socket, in *)
(* the protocol of the service or of a client library for it.              *)
(***************************************************************************)
EXTENDS CollectorProgram

\* A host of the configuration: alias@hostname:port.
ParseHost == Parse({"Key"})

\* A request over a socket; an answer that does not come is an empty one.
AskSocket == Try(Ask("connect", {"Io"}) \o Ask("answer", {"Io"}), Catch({"Io"}, LogException))

-----------------------------------------------------------------------------
\* memcached.  The limit of connections is read from the command line of the
\* process, if it runs on this host.
MemcachedRawStats == AskSocket

MemcachedStats ==
    MemcachedRawStats
    \o Many(When(Continue) \o Parse({"Key", "Value"}))
    \o Try(Ask("cmdline", {"Io"}), Catch(Every, <<>>))

Memcached ==
    EachInstance(ParseHost \o MemcachedStats \o Many(Either(LogError, Dims \o PublishOwn)))

MemcachedDetailedRawStats == AskSocket

MemcachedDetailedStats == MemcachedDetailedRawStats \o Many(When(Parse({})))

MemcachedDetailed ==
    EachInstance(ParseHost \o MemcachedDetailedStats \o Many(Many(Dims \o PublishOwn)))

-----------------------------------------------------------------------------
\* twemproxy.  If the connection fails there is no name stats_data, and after an
\* answer that cannot be parsed False is iterated over.
TwemproxyRawStats ==
    Drop("stats_data")
    \o Try(Ask("connect", {"Io"}) \o Note("stats_data") \o Forever(Ask("answer", {"Io"}) \o When(Break)),
           Catch({"Io"}, LogException))
    \o IfKnown("stats_data", <<>>, Raise("Key"))
    \o Try(Parse({"Value"}), Catch({"Value"}, LogException \o Raise("Key")))

TwemproxyStats == TwemproxyRawStats \o Many(Parse({"Value"}))

\* A host without an alias is named by its hostname, whatever the port.
HostMetric == Either(Publish, PublishCounter("hostname"))

Twemproxy ==
    EachInstance(ParseHost \o TwemproxyStats \o Many(HostMetric) \o Many(Many(HostMetric)))

-----------------------------------------------------------------------------
\* darner, zookeeper.
DarnerRawStats == AskSocket

DarnerStats == DarnerRawStats \o Many(When(Continue) \o Parse({"Key", "Value"}))

Darner ==
    EachInstance(
        ParseHost \o DarnerStats \o When(Many(Publish)) \o Many(Either(LogError, HostMetric)))

ZookeeperRequest == AskSocket

ZookeeperReset == Try(ZookeeperRequest, Catch(Every, LogException))

ZookeeperStats == ZookeeperRequest \o Many(Parse({"Key"}) \o When(Continue) \o Parse({"Key"}))

Zookeeper ==
    EachInstance(
        ParseHost \o ZookeeperStats
        \o Many(Either(LogError, Dims \o PublishTextOwn))
        \o When(ZookeeperReset))

-----------------------------------------------------------------------------
\* beanstalkd: without a connection there is no 'instance' to read.
BeanstalkdStats ==
    Drop("stats")
    \o Call(Try(Ask("connect", {"Io"}), Catch({"Io"}, LogException \o Return))
        \o Ask("stats", {"Io"}) \o Ask("tubes", {"Io"}) \o Many(Ask("stats_tube", {"Io"}))
        \o Note("stats"))

Beanstalkd ==
    When(LogError \o Return)
    \o BeanstalkdStats \o IfKnown("stats", <<>>, Raise("Key"))
    \o Many(When(Publish)) \o Many(Parse({"Key"}) \o Many(When(PublishText)))

\* openldap.
OpenLDAPDatapoints ==
    Ask("bind", {"Io"})
    \o Try(Many(Ask("search", {"Io"}) \o Parse({"Key", "Value"})), [e \in Every |-> Raise(e)])

OpenLDAP ==
    When(LogError \o Return)
    \o Try(OpenLDAPDatapoints, Catch(Every, LogException \o Return))
    \o Many(Publish)

-----------------------------------------------------------------------------
\* gearman.  A task without 'queued' leaves its dimensions behind.
GearmanFds == Ask("pid file", {"Io"}) \o Ask("ls", {"Io"}) \o When(Raise("Io"))

GearmanServerStats ==
    Ask("status", {"Io"})
    \o Many(Parse({"Key"}) \o Dims \o Parse({"Key"}) \o PublishOwn \o Dims \o PublishOwn \o Dims \o PublishOwn)

Gearman ==
    Try(When(LogError \o Return)
        \o Ask("ping", {"Io"}) \o Publish
        \o GearmanFds \o Publish \o GearmanServerStats,
        Catch(Every, LogException))

\* supervisord: of a protocol that is not known there are None processes.
SupervisordProcesses == When(Raise("Value")) \o Ask("xmlrpc", {"Io"})

Supervisord == SupervisordProcesses \o Many(Parse({"Key"}) \o Publish \o Publish)

\* apcupsd.
ApcupsdData == Ask("connect", {"Io"}) \o Ask("status", {"Io"})

Apcupsd ==
    ApcupsdData
    \o Many(When(When(Continue) \o Try(Parse({"Value"}), Catch({"Value"}, Continue))))
    \o Many(When(Continue) \o Parse({"Key"}) \o Either(Publish, PublishCounter("none")))

-----------------------------------------------------------------------------
\* bind.
CleanCounter == Parse({"Key", "Value"}) \o PublishCounter("none")

Bind ==
    Try(Ask("statistics", {"Io"}), Catch(Every, LogException \o Return))
    \o Ask("document", {"Io", "Value"}) \o When(Raise("Value"))
    \o When(Many(Parse({"Key"}) \o When(Continue) \o Publish \o Many(CleanCounter)))  \* resolver
    \o When(Many(CleanCounter))                                                     \* server
    \o When(Many(CleanCounter))                                                     \* zonemgmt
    \o When(Many(CleanCounter))                                                     \* sockets
    \o When(Parse({"Key"}) \o Many(Parse({"Value"}) \o Publish))                    \* memory

-----------------------------------------------------------------------------
\* uwsgi.  The port that the error message names is the one of the url before, if
\* this url has none that can be read; log_error is no method.
UwsgiPureTcp ==
    Try(Ask("connect", {"Io"}) \o Forever(Ask("chunk", {"Io"}) \o When(Break)),
        Catch({"Io"}, Raise("Key")))

Uwsgi ==
    EachInstance(
        Try(Parse({"Value"}) \o Note("service_port")
            \o Either(Ask("http", {"Io"}), Either(UwsgiPureTcp, Raise("Value")))
            \o Parse({"Value"}),
            Catch(Every, IfKnown("service_port", LogException \o Continue, Raise("Key"))))
        \o Many(Parse({"Key"})) \o Many(Publish))

-----------------------------------------------------------------------------
\* openvpn.  A server that closes the connection before END is read from for ever.
OpenVPNPublishNumber == Call(Try(Parse({"Value"}), Catch({"Value"}, LogException \o Return)) \o Publish)

OpenVPNParse ==
    Ask("half a second", {})
    \o Many(When(Break) \o When(Continue) \o Parse({"Key"}) \o OpenVPNPublishNumber)
    \o Publish

OpenVPNFile == Call(When(LogError \o Return) \o Ask("status file", {"Io"}) \o OpenVPNParse)

OpenVPNTcp ==
    Call(Try(Parse({"Value"}), Catch({"Value"}, LogException \o Return))
        \o Try(Ask("connect", {"Io"}) \o Ask("greeting", {"Io"}) \o When(LogError \o Return)
               \o Forever(Ask("line", {"Io"}) \o When(Break))
               \o OpenVPNParse,
               Catch({"Io"}, LogException \o Return)))

OpenVPN == EachInstance(Either(OpenVPNFile, Either(OpenVPNTcp, LogError)))
=============================================================================
