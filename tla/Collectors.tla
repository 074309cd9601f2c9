----------------------------- MODULE Collectors -----------------------------
(***************************************************************************)
(* All collectors that are modelled, each in a process of its own, and     *)
(* what their rounds must keep to.                                         *)
(***************************************************************************)
EXTENDS CollectorRounds,
        DatabaseCollectors, WebCollectors, PageCollectors, ServiceCollectors,
        CommandCollectors, KernelCollectors, MonitorCollectors

Databases ==
    [postgres |-> Postgres, mysqlstat |-> MySQL, mysql55 |-> MySQLPerf,
     proxysql |-> ProxySQL, mongodb |-> MongoDB, tokumx |-> TokuMX,
     redisstat |-> Redis, slony |-> Slony, pgbouncer |-> Pgbouncer, pgq |-> PgQ]

WebServices ==
    [elasticsearch |-> ElasticSearch, solr |-> Solr, jolokia |-> Jolokia(JolokiaBean),
     cassandra_jolokia |-> CassandraJolokia, kafka_jolokia |-> KafkaJolokia,
     rabbitmq |-> RabbitMQ, haproxy |-> HAProxy, httpd |-> Httpd, jbossapi |-> JbossApi]

Pages ==
    [aurora |-> Aurora, mesos |-> Mesos, hacheck |-> Hacheck, synapse |-> Synapse,
     httpjson |-> HTTPJSON, puppetdb |-> PuppetDB, puppetdashboard |-> PuppetDashboard,
     resqueweb |-> ResqueWeb, sidekiqweb |-> SidekiqWeb, phpfpm |-> PhpFpm,
     s3 |-> S3Bucket, websitemonitor |-> WebsiteMonitor, http |-> Http, nginx |-> Nginx,
     celerymon |-> Celerymon, dseopscenter |-> DseOpsCenter, dropwizard |-> Dropwizard,
     flume |-> Flume, hadoop |-> Hadoop, hbase |-> HBase, monit |-> Monit,
     endecadgraph |-> EndecaDgraph, kafkastat |-> KafkaStat, postfix |-> Postfix,
     squid |-> Squid]

Services ==
    [memcached |-> Memcached, memcached_detailed |-> MemcachedDetailed,
     twemproxy |-> Twemproxy, darner |-> Darner, zookeeper |-> Zookeeper,
     beanstalkd |-> Beanstalkd, openldap |-> OpenLDAP, gearman_stats |-> Gearman,
     supervisord |-> Supervisord, apcupsd |-> Apcupsd, bind |-> Bind, uwsgi |-> Uwsgi,
     openvpn |-> OpenVPN]

Commands ==
    [gridengine |-> GridEngine, ceph |-> Ceph, cephstats |-> CephStats,
     traceroute |-> Traceroute, ntpd |-> Ntpd, ntp |-> Ntp, vmsdoms |-> VMSDoms,
     smart |-> Smart, userscripts |-> UserScripts, disktemp |-> DiskTemperature,
     amavis |-> Amavis, nfacct |-> NetfilterAccounting, ups |-> UPS,
     lmsensors |-> LMSensors, exim |-> Exim, postqueue |-> Postqueue, numa |-> Numa,
     passenger_stats |-> Passenger, libvirtkvm |-> LibvirtKVM, xen_collector |-> Xen,
     nagios |-> NagiosStats, unbound |-> Unbound, chronyd |-> Chronyd, sqs |-> Sqs,
     nvidia_gpu |-> NvidiaGPU, ossec |-> Ossec, ping |-> Ping,
     openstackswift |-> OpenstackSwift, openstackswiftrecon |-> OpenstackSwiftRecon,
     powerdns |-> PowerDNS, portstat |-> PortStat, puppetagent |-> PuppetAgent,
     scribe |-> Scribe, ipvs |-> IPVS, ipmisensor |-> IPMISensor, varnish |-> Varnish]

Kernel ==
    [cpu |-> CPU, tcp |-> TCP, ip |-> IP, udp |-> UDP, nfs |-> Nfs, nfsd |-> Nfsd,
     diskusage |-> DiskUsage, diskspace |-> DiskSpace, filestat |-> Filestat,
     processresources |-> ProcessResources, mountstats |-> MountStats,
     network |-> Network, memory |-> Memory, memory_cgroup |-> MemoryCgroup,
     memory_docker |-> MemoryDocker, memory_lxc |-> MemoryLxc,
     cpuacct_cgroup |-> CpuAcctCgroup, interrupt |-> Interrupt, soft |-> SoftInterrupt,
     proc |-> ProcessStat, slabinfo |-> SlabInfo, vmstat |-> VMStat,
     sockstat |-> Sockstat, loadavg |-> LoadAverage, entropy |-> Entropy,
     uptime |-> Uptime, conntrack |-> ConnTrack, files |-> Files, ksm |-> KSM,
     kvm |-> KVM, vmsfs |-> VMSFS, numastat |-> Numastat,
     numazoneinfo |-> NUMAZoneInfo, drbd |-> DRBD, onewire |-> OneWire,
     proc_pid |-> ProcPid, users |-> Users, osdistro |-> OSDistro]

Monitors ==
    [icinga_stats |-> Icinga, nagiosperfdata |-> NagiosPerfdata, jcollectd |-> JCollectd]

Programs ==
    Databases @@ WebServices @@ Pages @@ Services @@ Commands @@ Kernel @@ Monitors

-----------------------------------------------------------------------------
\* Two instances that are on the same host and have no nickname.
Sameness == [none |-> {0, 1, 2}, nickname |-> {0, 1, 2}, hostname |-> {1, 2}, instance |-> {}]
KeysOfInstances ==
    [by \in Keys |-> [i \in 0 .. Instances |-> IF i \in Sameness[by] THEN 0 ELSE i]]

\* The blocks of a program and of what it calls, with the loops they are in.
RECURSIVE Code(_, _)
Code(program, inLoop) ==
    {<<program, inLoop>>}
    \cup UNION { LET s == program[i]
                 IN  UNION {Code(b, inLoop) : b \in Blocks(s)}
                     \cup IF s.op \in {"call", "loop"} THEN Code(s.body, s.op = "loop") ELSE {}
               : i \in DOMAIN program }
CodeBlocks == [c \in DOMAIN Programs |-> Code(Call(Programs[c]), FALSE)]
CodeOfAll == [c \in DOMAIN Programs |-> {b[1] : b \in CodeBlocks[c]}]
CodeIn(inLoop) ==
    UNION {Members(b[1]) : b \in {d \in UNION {CodeBlocks[c] : c \in DOMAIN Programs} : d[2] = inLoop}}
StraightCode == CodeIn(FALSE)
LoopedCode == CodeIn(TRUE)

\* The ways a block may be left other than at its end.
RECURSIVE ExitsOf(_)
ExitsOf(block) ==
    UNION { LET s == block[i]
                within == Blocks(s) \cup IF s.op \in {"call", "loop"} THEN {s.body} ELSE {}
            IN  WaysOut(s, [b \in within |-> ExitsOf(b)])
          : i \in DOMAIN block }
ExitsOfAll == [block \in UNION {CodeOfAll[c] : c \in DOMAIN Programs} |-> ExitsOf(block)]

-----------------------------------------------------------------------------
(***************************************************************************)
(* Liveness: the window of a round.                                        *)
(***************************************************************************)
\* Collectors with an except clause that takes SIGALRM for a failure of what they
\* ask, and goes on asking, now without an alarm.
Swallowing ==
    {"cassandra_jolokia", "ceph", "conntrack", "disktemp", "elasticsearch", "files",
     "haproxy", "http", "httpd", "jbossapi", "jolokia", "kafka_jolokia", "lmsensors",
     "memcached", "memory_lxc", "mongodb", "mysqlstat", "proc_pid", "proxysql",
     "puppetdb", "rabbitmq", "redisstat", "solr", "squid", "tokumx", "traceroute",
     "uwsgi", "zookeeper"}

\* A round of any other collector ends, whatever what it asks does: the alarm
\* cuts off a wait that lasts, and no other wait begins after it.
RoundsEnd == (Running /\ collector \notin Swallowing) ~> ~Running


(***************************************************************************)
(* Safety: failures.                                                       *)
(***************************************************************************)
\* Collectors that hide failures of a source, and those that hide an alarm.
FailureHiders ==
    {"chronyd", "diskspace", "files", "icinga_stats", "lmsensors", "memcached",
     "memory_lxc", "passenger_stats", "postqueue", "processresources", "varnish",
     "vmsdoms", "vmsfs", "websitemonitor"}

AlarmHiders ==
    {"disktemp", "files", "icinga_stats", "ipmisensor", "lmsensors", "memcached",
     "memory_lxc", "monit", "mysqlstat", "numa", "postqueue", "powerdns", "ups",
     "vmsfs"}

\* Collectors of which one instance that fails, or answers nonsense, does not
\* take their turn from the others.
Isolators == {"mysqlstat", "jolokia", "kafka_jolokia", "http"}

(***************************************************************************)
(* Safety: what one metric, instance or round leaves to another.           *)
(***************************************************************************)
\* Collectors that use for one host what they keep of another: mysql55 by thread and
\* jolokia and its subclasses by nothing; in last_values proxysql by the metric, and
\* mysqlstat, darner and twemproxy if the names of the hosts are no different.
Sharers ==
    {"mysql55", "jolokia", "cassandra_jolokia", "kafka_jolokia", "proxysql", "mysqlstat",
     "darner", "twemproxy"}

-----------------------------------------------------------------------------
\* Most programs are of the kinds that theorems are about: of 134 programs all but
\* 25, 7 and 8.  Of those that isolate their instances all but mysqlstat show it.
ASSUME KindsAssumption ==
    /\ Cardinality(DOMAIN Program \ LogsFirst) <= 30
    /\ Cardinality(DOMAIN Program \ DimsAtOnce) <= 10
    /\ Cardinality(DOMAIN Program \ KeepsApart) <= 10
    /\ Cardinality((DOMAIN Program \cap Isolating) \ Isolates) <= 2
    /\ LogsFirst \cap (HidingFailures \cup HidingAlarms) = {}
=============================================================================
