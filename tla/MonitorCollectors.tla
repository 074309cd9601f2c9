-------------------------- MODULE MonitorCollectors --------------------------
(***************************************************************************)
(* The programs of the collectors that relay what another monitoring       *)
(* system has written down or sends.                                       *)
(***************************************************************************)
EXTENDS CollectorProgram

-----------------------------------------------------------------------------
\* icinga_stats.  Whatever goes wrong with the file, an alarm included, is logged
\* as information, and what was read until then is used.
IcingaStatsFile == Try(Ask("status file", {"Io"}) \o Many(Parse({})), Catch(Every, <<>>))

ConvertTripplet == Call(When(Return) \o Try(Parse({"Value"}), Catch(Every, <<>>)))

\* The slots in use are those in total.
ExternalCommandStats ==
    When(Parse({"Value"})) \o When(Parse({"Key", "Value"})) \o When(ConvertTripplet)

IcingaStats == Many(When(Continue) \o ConvertTripplet) \o ExternalCommandStats

\* What is no number is None, which the sums do not take.
SanitizeEntity == Many(Try(Parse({"Value"}), Catch(Every, <<>>)))

EntityStats == Many(When(Continue) \o SanitizeEntity \o Parse({"Value"}))

Icinga ==
    IcingaStatsFile \o When(Return)                         \* a section is missing
    \o IcingaStats \o When(EntityStats) \o When(EntityStats)
    \o Many(Publish)

-----------------------------------------------------------------------------
\* nagiosperfdata.  A file is removed after all its lines were published; of a
\* line that is not valid that is only said.  What open and reading raise is
\* caught ("Io"), what remove does is not ("Away").
ParsePerfdata == Many(Try(Parse({"Value"}), Catch({"Value"}, <<>>)))

ProcessLine == Parse({"Key", "Value"}) \o ParsePerfdata \o Many(Publish)

ProcessFile ==
    Try(Ask("open", {"Io"}) \o Many(ProcessLine) \o Ask("remove", {"Away"}),
        Catch({"Io"}, LogException))

NagiosPerfdata ==
    Try(Ask("listdir", {"Away"}), Catch({"Away"}, LogException \o Return))
    \o EachInstance(ProcessFile)

-----------------------------------------------------------------------------
\* jcollectd.  A thread of its own receives what collect takes off the queue.
MakeMetric == Parse({"Value", "Metric"})

JCollectd ==
    IfKnown("listener", <<>>, Keep("listener"))
    \o Many(MakeMetric \o Publish)
=============================================================================
