-------------------------- MODULE CommandCollectors --------------------------
(***************************************************************************)
(* The programs of the collectors that run a command, or use a library of  *)
(* the host, and read what it answers.  A command that is not there raises *)
(* OSError: "Io", or "Away" where an exit code raises as well.             *)
(***************************************************************************)
EXTENDS CollectorProgram

Command == Ask("command", {"Io"})

\* ProcessCollector.run_command: None of a command that is not there.
RunCommand ==
    Drop("output")
    \o When(Raise("Io"))                                    \* no bin, or not executable
    \o Try(Command \o Note("output"), Catch({"Io"}, LogException))

-----------------------------------------------------------------------------
\* gridengine.
QueueStats == Parse({"Value", "Key"}) \o Many(Parse({"Value", "Key"}))

GridEngine == Command \o QueueStats \o Many(Many(Publish))

-----------------------------------------------------------------------------
\* ceph and cephstats.  A socket that answers with an error code is passed over,
\* a ceph that is not installed ends the round.
CheckOutput == Ask("check_output", {"Away", "Io"})

CephStatsFromSocket ==
    Call(Try(CheckOutput, Catch({"Io"}, LogException \o Return))
        \o Try(Parse({"Value"}), Catch(Every, LogException \o Return))
        \o Note("stats"))

CephPublish == Many(PublishText)

Ceph ==
    EachInstance(
        Drop("stats") \o CephStatsFromSocket
        \o IfKnown("stats", CephPublish, <<>>))

CephClientIo ==
    Call(Try(CheckOutput, Catch({"Io"}, LogException \o Return))
        \o Parse({"Key"}) \o Note("stats"))                 \* no clients, no line

CephStats == CephClientIo \o IfKnown("stats", Many(Publish), <<>>)

-----------------------------------------------------------------------------
\* traceroute.  A hop without an answer has no time.
TracerouteLine ==
    Ask("line", {}) \o When(Break) \o When(Continue)
    \o Try(Parse({"Value", "Key"}), Catch({"Value"}, Parse({"Value"})))
    \o When(Continue) \o Parse({"Value"})
    \o Dims \o PublishOwn

Traceroute ==
    When(LogError \o Return)                                \* no protocol
    \o EachInstance(
        When(LogError \o Return)                            \* no binary
        \o Try(Command \o Ask("errors", {}) \o When(LogError \o Continue)
               \o Forever(TracerouteLine),
               Catch(Every, LogException \o Continue)))

-----------------------------------------------------------------------------
\* ntpd and ntp.  A command that fails leaves no lines to read.
NtpdCommand == Try(Command, Catch({"Io"}, LogException))

NtpqStats == NtpdCommand \o Many(When(Parse({"Key"}))) \o Parse({"Value"})

NtpdcStats == NtpdCommand \o Many(Parse({"Value", "Key"}))

Ntpd == NtpqStats \o Many(PublishText) \o NtpdcStats \o Many(Publish)

NtpdateStats ==
    RunCommand \o IfKnown("output", <<>>, Raise("Value"))   \* None[0]
    \o Many(When(Continue) \o When(LogError \o Continue) \o Parse({"Value"}))

Ntp == NtpdateStats \o Many(Publish)

-----------------------------------------------------------------------------
\* vmsdoms.  A domain may end between the two loops; its control then raises.
VMSDoms ==
    When(LogError \o Return)                                \* no vms
    \o Ask("hypervisor", {"Io"})
    \o Many(When(Continue)
        \o Try(Ask("control", {"Io"}) \o When(Continue), Catch({"Io"}, Continue)))
    \o Publish
    \o Many(Many(Try(Ask("control", {"Io"}) \o Parse({"Value"}), Catch({"Io"}, Continue))
                 \o Publish)
            \o Publish)

-----------------------------------------------------------------------------
\* smart.  Without its header line the attributes are taken from where it would be.
FindAttrStartLine == <<>>

Smart ==
    Ask("listdir", {"Io"})
    \o EachInstance(
        When(Continue)                                      \* not one of the devices
        \o Command \o FindAttrStartLine
        \o Many(Parse({"Key"})) \o Many(PublishText))

-----------------------------------------------------------------------------
\* userscripts.  Popen raises OSError, which is not what is caught.
UserScripts ==
    When(Return)
    \o Ask("listdir", {"Io"})
    \o EachInstance(
        When(Continue)                                      \* not executable, not a file
        \o Try(Ask("script", {"Away"}), Catch({"Io"}, LogException \o Continue))
        \o When(LogError)                                   \* exit code
        \o When(Continue) \o When(LogError)                 \* no output; errors
        \o Many(Try(Parse({"Value"}), Catch({"Value"}, LogException \o Continue))
                \o Publish))

-----------------------------------------------------------------------------
\* disktemp.  All commands are started, then waited for.
MatchDevice == When(Command)

DiskTemperature ==
    Ask("listdir", {"Io"}) \o Many(MatchDevice)
    \o Ask("listdir", {"Io"}) \o Many(MatchDevice)
    \o Many(Ask("output", {}) \o Try(Parse({"Value"}), Catch(Every, <<>>)))
    \o Many(Publish)

\* amavis, nfacct, ups.
Amavis ==
    Try(Command \o Many(When(Many(Publish))), Catch({"Io"}, LogException \o Return))

NetfilterAccounting == Command \o Many(When(Parse({"Value"}) \o Publish \o Publish))

UPS ==
    When(LogError \o Return) \o Command
    \o Many(Try(Parse({"Value", "Key"}), Catch(Every, Continue)) \o Publish)

\* lmsensors: a feature that raises has the value zero, or none.
LMSensors ==
    When(LogError \o Return)
    \o Ask("sensors", {"Io"})
    \o Many(Many(Try(Ask("feature", {"Io"}), Catch(Every, When(Continue))) \o Publish))

\* exim: with sudo the command is what list.extend returns, None.
Exim == When(Return) \o When(Raise("Value")) \o Command \o When(Return) \o PublishText

\* postqueue: no answer counts as an empty queue.
PostqueueOutput == Try(Command, Catch({"Io"}, <<>>))
Postqueue == PostqueueOutput \o Try(Parse({"Value", "Key"}), Catch(Every, <<>>)) \o Publish

Numa == Command \o Many(Try(When(Publish), Catch(Every, Continue)))

-----------------------------------------------------------------------------
\* passenger.
PassengerMemory ==
    Drop("memory")
    \o Call(Try(Command, Catch({"Io"}, Return)) \o When(Return)
        \o Many(When(Parse({"Value", "Key"}))) \o Note("memory"))

PassengerCpu ==
    Drop("cpu")
    \o Call(Try(Ask("top", {"Io"}), Catch({"Io"}, Return))
        \o Many(When(Continue) \o Parse({"Value", "Key"})) \o Note("cpu"))

Passenger ==
    When(LogError \o Return)                                \* no binary
    \o PassengerMemory \o IfKnown("memory", <<>>, Return)
    \o PassengerCpu \o IfKnown("cpu", Publish, <<>>)
    \o Publish \o Publish \o Publish

-----------------------------------------------------------------------------
\* libvirtkvm and xen.  A domain that ends while it is asked ends the round.
Libvirt == Ask("libvirt", {"Io"})

LibvirtDevices == Libvirt \o Parse({"Value"})

\* The path of a metric has the name of the domain.
ReportCpuMetric == Either(Publish, PublishCounter("instance"))

LibvirtKVM ==
    When(LogError \o Return)
    \o Libvirt
    \o EachInstance(                                        \* domains
        Libvirt \o Many(ReportCpuMetric) \o ReportCpuMetric
        \o LibvirtDevices \o Many(Libvirt \o Many(Publish)) \o Many(Publish)
        \o LibvirtDevices \o Many(Libvirt \o Many(Publish)) \o Many(Publish)
        \o Libvirt \o Publish \o Publish)

Xen ==
    When(LogError \o Return)
    \o Libvirt \o Ask("statvfs", {"Io"})
    \o Many(When(Continue) \o Libvirt) \o Many(Publish)

-----------------------------------------------------------------------------
\* nagios, unbound, chronyd, sqs.
NagiosStats == When(Return) \o Command \o Many(Parse({"Key", "Value"}) \o Publish)

MassagedHistogram == Many(Parse({}))

Unbound ==
    RunCommand \o IfKnown("output", <<>>, Return)
    \o Many(Parse({"Value"}) \o When(Either(PublishText, Parse({"Value", "Key"}))))
    \o When(MassagedHistogram \o Many(Publish))

ChronydOutput == Try(Command, Catch({"Io"}, <<>>))

Chronyd ==
    ChronydOutput
    \o Many(When(Continue) \o Parse({"Value"}) \o When(LogException \o Continue) \o Publish)

Sqs ==
    When(LogError \o Return)
    \o EachInstance(                                        \* regions
        Parse({"Value"}) \o Many(Ask("queue", {"Io"}) \o Many(Ask("attribute", {"Io"}) \o Parse({"Key"}) \o PublishText)))

-----------------------------------------------------------------------------
\* nvidia_gpu, ossec, ping.
NvidiaSmi ==
    Call(RunCommand \o IfKnown("output", <<>>, Return)
        \o Many(Parse({"Value"}) \o Many(PublishText)))

NvidiaGPU == NvidiaSmi

Ossec ==
    Try(Command, Catch(Every, LogException \o Return))
    \o When(LogError \o Return)                            \* no output
    \o Many(Continue) \o Many(Publish)

\* A ping that says nothing of a time took ten seconds.
Ping ==
    EachInstance(
        RunCommand \o IfKnown("output", <<>>, Raise("Value"))
        \o When(Parse({"Key", "Value"})) \o Publish)

-----------------------------------------------------------------------------
\* swift.
Dispersion == Command \o Publish \o Parse({"Value"}) \o Many(Parse({"Key"}) \o Many(PublishText))

OpenstackSwift ==
    When(Dispersion)
    \o When(EachInstance(                                   \* containers
        Command \o Many(When(Parse({"Key"}))) \o Many(Parse({"Key"}) \o PublishText)))

\* A file that cannot be opened raises again where it should be closed, unless one
\* before it could.
OpenstackSwiftRecon ==
    Many(When(Continue)
        \o Try(Ask("cache", {"Io"}) \o Note("f")
               \o Try(Parse({"Value", "Key"}) \o Many(When(Publish)), Catch({"Value", "Key"}, Continue)),
               Catch({"Io"}, IfKnown("f", Raise("Io"), Raise("Key")))))

-----------------------------------------------------------------------------
\* powerdns: text stays text, until it is subtracted from.
PowerDNS ==
    When(LogError \o Return) \o Command
    \o Many(When(Continue) \o Parse({"Value"})
        \o Try(Parse({"Value"}), Catch(Every, <<>>))
        \o Either(PublishText, Parse({"Value"}) \o Derivative("none") \o When(Continue) \o Publish))

PortStats == Ask("net_connections", {"Io"}) \o Many(When(Continue))

PortStat ==
    When(LogError \o Return)                                \* no psutil
    \o EachInstance(Parse({"Value"}) \o PortStats \o Many(Publish))

\* puppetagent reads what the last run of puppet left.
PuppetSummary == Ask("yaml", {"Io", "Value"})

PuppetAgent == When(LogError \o Return) \o PuppetSummary \o Many(Many(When(Continue) \o Publish))

-----------------------------------------------------------------------------
\* scribe.
ScribeCtrl ==
    Drop("counters")
    \o Call(Try(Ask("scribe_ctrl", {"Io"}), Catch({"Io"}, LogException \o Return))
        \o Ask("output", {}) \o Note("counters"))

ScribeStats ==
    When(ScribeCtrl \o Many(Parse({"Value"})))
    \o When(Try(Command \o Either(LogError, Parse({"Value"})), Catch({"Io"}, LogException)))

Scribe == ScribeStats \o Many(Dims \o PublishOwn)

-----------------------------------------------------------------------------
\* ipvs.  When the option is not known the command is changed, for good.
IPVSStatistics ==
    Command \o When(Keep("statcommand")) \o Command
    \o Many(When(Continue) \o Parse({"Key"}) \o When(Continue) \o Many(Parse({"Key", "Value"}) \o Publish))

IPVSConnections ==
    Command
    \o Many(When(Continue) \o Parse({"Key"})
        \o When(When(Many(Publish)) \o Continue)            \* TCP or UDP: the totals so far
        \o When(Continue)
        \o Many(Parse({"Key", "Value"}) \o Publish))
    \o When(Many(Publish))

IPVS ==
    When(LogError \o Return) \o When(LogError \o Return)    \* no binary, no sudo
    \o IPVSStatistics \o IPVSConnections

\* ipmisensor.
SensorValue == Call(When(Return) \o Try(Parse({"Value"}) \o Return, Catch(Every, <<>>))
                    \o Try(Parse({"Value"}) \o Return, Catch(Every, <<>>)))

IPMISensor ==
    When(Return) \o Command
    \o Many(Try(Many(Parse({"Key"}) \o SensorValue) \o Many(Publish), Catch({"Value", "Key"}, Continue)))

\* varnish.
VarnishPoll == Try(Command, Catch({"Io"}, <<>>))

Varnish == VarnishPoll \o When(Return) \o Many(Parse({"Value"}) \o Publish)
=============================================================================
