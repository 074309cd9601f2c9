--------------------------- MODULE KernelCollectors ---------------------------
(***************************************************************************)
(* The programs of the collectors that read files of the kernel: /proc,    *)
(* /sys and file systems mounted for the purpose.                          *)
(***************************************************************************)
EXTENDS CollectorProgram

ReadFile == Ask("file", {"Io"})
Psutil == Ask("psutil", {"Io"})

\* Where there is no /proc psutil is asked, and if there is none either the
\* round is over.
NeedPsutil == When(LogError \o LogError \o Return) \o Psutil

-----------------------------------------------------------------------------
\* cpu.  The counters of a core have its dimension, the totals have none.
CPUSimple == ReadFile \o ReadFile \o Parse({"Key", "Value"}) \o Publish

CPUPublish == Many(Either(Dims \o PublishOwn, When(Publish)))

CPUByProc == ReadFile \o Many(When(Parse({"Key", "Value"}))) \o Parse({"Value"}) \o CPUPublish

CPUByPsutil == NeedPsutil \o Many(Dims \o PublishOwn \o When(Publish)) \o Many(Publish)

CPU == Either(Either(CPUSimple, CPUByProc), CPUByPsutil)

-----------------------------------------------------------------------------
\* tcp, ip and udp read lines of names and of values; a file without them is
\* passed over.
NetFile ==
    Call(When(LogError \o Return)                           \* no access
        \o ReadFile \o When(LogError \o Return)             \* no such line
        \o Parse({"Key"}))

\* What is published of a name that is allowed.
PublishAllowed(metric) == Many(When(Continue) \o Parse({"Value"}) \o metric)

TCP == NetFile \o NetFile \o PublishAllowed(Publish)
IP == NetFile \o PublishAllowed(Either(Publish, PublishCounter("none")))
UDP == NetFile \o PublishAllowed(PublishCounter("none"))

-----------------------------------------------------------------------------
\* nfs and nfsd.  Of version 4 what newer kernels added may be missing.
NfsVersion4 == Parse({"Key"}) \o Many(Try(Parse({"Key"}), Catch({"Key"}, <<>>)))

NfsLines == Many(When(Either(Parse({"Key"}), NfsVersion4)))

Nfs == When(ReadFile \o NfsLines \o Many(Parse({"Value"}) \o PublishCounter("none")))

NfsdLines == Many(When(Parse({"Key"})))

Nfsd == When(ReadFile \o NfsdLines \o Many(Parse({"Value"}) \o PublishCounter("none")))

-----------------------------------------------------------------------------
\* diskusage.  A device counts if its name matches, and if anything was read or
\* written, or zeroes are wanted.
DiskStatistics ==
    Either(ReadFile \o Many(Try(When(Continue) \o Parse({"Value"}), Catch({"Value"}, Continue))),
           When(LogError \o LogError \o Return) \o Psutil)

DiskUsage ==
    DiskStatistics
    \o When(LogError \o Return)                             \* no results
    \o Many(When(Continue)
        \o Many(Derivative("none")) \o Parse({"Value", "Key"})     \* averages
        \o When(Many(Dims \o PublishOwn)))

-----------------------------------------------------------------------------
\* diskspace.  A file system that is not mounted is passed over.
DiskLabels == When(Ask("listdir", {"Io"}))

FileSystems ==
    Either(ReadFile \o Many(
               Try(Parse({"Key"}), Catch({"Key", "Value"}, Continue))
               \o When(Continue)                            \* not wanted
               \o When(Try(Ask("stat", {"Io"}), Catch({"Io"}, Continue)))),
           When(LogError \o LogError \o Return) \o Psutil)

DiskSpace ==
    DiskLabels \o FileSystems
    \o When(LogError \o Return)                             \* no results
    \o Many(Try(Ask("statvfs", {"Io"}), Catch({"Io"}, LogException \o Continue))
        \o Many(Parse({"Value"}) \o Publish)                \* units; no blocks at all
        \o Publish)

-----------------------------------------------------------------------------
\* filestat.  The commands of the shell only ever answer text.
Popen == Ask("shell", {"Io"})

UserList ==
    Popen
    \o When(Many(Popen)) \o When(Many(Popen))               \* groups wanted, unwanted
    \o Many(When(Popen \o Parse({"Value"})))                \* int of no answer

TypeList == When(Popen) \o When(Parse({"Value"}))           \* len(None)

ProcessLsof == Many(Popen)

Filestat ==
    When(Return)
    \o ReadFile \o Many(When(Publish))
    \o When(UserList \o TypeList \o ProcessLsof \o Many(Publish))

-----------------------------------------------------------------------------
\* processresources.  A process counts in every group of the configuration that it
\* matches.  The sums of a group are an attribute, emptied after they were published,
\* one group after the other: a round that is cut off leaves those of the others.
SaveProcessInfo ==
    IfKnownBy("instance", "sums", UseBy("instance", "sums"), <<>>) \o KeepBy("instance", "sums")

\* The process may be gone ("Io") or not ours ("Value").
AskProcess == Ask("process", {"Io", "Value"})

CollectProcessInfo ==
    Try(AskProcess \o Try(AskProcess, Catch({"Value"}, <<>>))   \* exe
        \o EachInstance(When(AskProcess \o SaveProcessInfo)),
        Catch({"Io"}, <<>>))

ProcessResources ==
    When(LogError \o LogError \o Return)                    \* no psutil
    \o Psutil \o Many(CollectProcessInfo)
    \o EachInstance(UseBy("instance", "sums") \o Many(Publish) \o ForgetBy("instance", "sums"))

-----------------------------------------------------------------------------
\* mountstats.
MountStatsLines ==
    Either(When(LogError \o Return) \o Ask("sudo cat", {"Io"}),
           When(LogError \o Return) \o ReadFile)

MountStats ==
    MountStatsLines
    \o Many(When(Continue)                                  \* empty, or of a path to skip
        \o Parse({"Key", "Value"})
        \o When(LogError \o Continue)                       \* unknown protocol
        \o Many(PublishCounter("none")))

-----------------------------------------------------------------------------
\* network.
NetworkByProc == ReadFile \o Try(ReadFile, Catch(Every, LogException))

Network ==
    Either(NetworkByProc, NeedPsutil)
    \o Many(Parse({"Value"}) \o Dims \o PublishOwn)

\* memory.  A line that is not of three words, with a number, is passed over.
Memory ==
    Either(ReadFile \o Many(Try(Parse({"Value"}) \o When(Continue) \o When(Publish),
                                Catch({"Value"}, Continue))),
           NeedPsutil \o Many(Publish))

MemoryCgroup ==
    Many(When(Ask("walk", {})))
    \o Many(ReadFile \o Many(Parse({"Value"})))
    \o Many(Parse({"Value"}) \o Publish)

\* memory_docker: memory_cgroup with the names of containers.
MemoryDocker ==
    When(LogError \o Return) \o Ask("docker", {"Io"}) \o Parse({"Key"}) \o MemoryCgroup

MemoryLxc ==
    When(Return)
    \o Ask("listdir", {"Io"})
    \o Many(When(Continue) \o Many(Try(ReadFile \o Parse({"Value"}), Catch(Every, <<>>))))
    \o Many(When(Continue) \o Publish)

CpuAcctCgroup ==
    Many(When(Ask("walk", {}))) \o Many(ReadFile \o Many(Parse({"Key"})))
    \o Many(Parse({"Value"}) \o Publish)

-----------------------------------------------------------------------------
\* interrupt, soft interrupts, proc, slabinfo, vmstat, sockstat: lines of a file
\* that is passed over without access.
Interrupt ==
    When(Return) \o ReadFile
    \o Many(Parse({"Key", "Value"}) \o Many(PublishCounter("none")) \o When(Publish))

SoftInterrupt ==
    When(Return) \o ReadFile
    \o Many(When(Continue) \o Parse({"Key", "Value"}) \o Many(PublishCounter("none")))

ProcessStat ==
    When(Return) \o ReadFile
    \o Many(When(Parse({"Key", "Value"}) \o Either(Publish, PublishCounter("none"))))

SlabInfo == When(Return) \o ReadFile \o Many(When(Continue) \o Many(Parse({"Key", "Value"}) \o Publish))

VMStat == When(Return) \o ReadFile \o Many(When(Derivative("none"))) \o Many(Publish)

SockstatFile == Call(When(Return) \o ReadFile)
Sockstat == SockstatFile \o SockstatFile \o Many(Publish)

LoadAverage == Many(Publish) \o When(ReadFile \o When(Publish \o Publish))

Entropy == When(LogError \o Return) \o ReadFile \o PublishText

UptimeRead == Try(ReadFile \o Parse({"Value", "Key"}) \o Note("uptime"), Catch(Every, LogException))
Uptime == When(LogError \o Return) \o UptimeRead \o IfKnown("uptime", Publish, <<>>)

-----------------------------------------------------------------------------
\* conntrack, files, ksm, kvm, vmsfs, numa, drbd, onewire: directories of files.
\* What fails in one of conntrack and files does not keep the others from it.
ConnTrack ==
    Many(When(LogError \o Continue) \o When(Continue)
        \o Try(ReadFile \o Parse({"Value"}), Catch(Every, LogException)))
    \o Many(Publish)

Files ==
    When(Ask("listdir", {"Io"})
        \o Many(When(Try(ReadFile \o Many(When(Parse({"Value"}) \o Publish))
                         \o When(Ask("unlink", {"Io"})),
                         Catch(Every, <<>>)))))

KSM == Many(When(ReadFile \o Try(Parse({"Value"}) \o Publish, Catch({"Value"}, <<>>))))

KVM ==
    When(LogError \o Return) \o Ask("listdir", {"Io"})
    \o Many(ReadFile \o Parse({"Value"}) \o PublishCounter("none"))

VMSFS ==
    When(Return)
    \o Try(ReadFile \o Many(Parse({"Key", "Value"})), Catch(Every, <<>>)) \o Many(Publish)

Numastat ==
    When(LogError \o Return)
    \o Ask("listdir", {"Io"})
    \o Many(ReadFile \o Parse({"Value"}) \o Many(Dims \o Parse({"Value"}) \o PublishOwn))

NUMAZoneInfo ==
    Try(ReadFile \o Many(When(Parse({"Key", "Value"}) \o Dims \o PublishTextOwn)),
        Catch(Every, LogException \o Return))

DRBD ==
    Try(ReadFile \o Many(Parse({"Key", "Value"})), Catch({"Io"}, LogException \o Return))
    \o Many(When(Publish))

OneWireRead ==
    Many(When(Try(ReadFile, [e \in Every |-> LogException \o Raise(e)])
              \o Try(Parse({"Value"}), [e \in Every |-> LogException \o Raise(e)])))

OneWire == When(Ask("listdir", {"Io"}) \o Many(When(OneWireRead))) \o Many(When(OneWireRead)) \o Many(Publish)

ProcPid ==
    EachInstance(
        ReadFile \o Ask("sudo ls", {"Io"}) \o When(Raise("Io"))     \* errors of ls
        \o Try(Dims \o PublishOwn, Catch(Every, LogException)))

Users ==
    When(LogError \o Return) \o When(Ask("utmp", {"Io"})) \o When(Ask("utmp", {"Io"})) \o Many(Publish)

OSDistro ==
    Try(Ask("lsb_release", {"Io"}) \o When(LogError \o Return) \o Dims \o PublishOwn,
        Catch(Every, LogException))
=============================================================================
