------------------------ MODULE MCCollectorPipeline ------------------------
(***************************************************************************)
(* Small instances of CollectorPipeline for TLC.                           *)
(***************************************************************************)
EXTENDS CollectorPipeline

CONSTANTS nerve, diamond, httpd, cpu, load

Plain(n) == [kind |-> "plain", name |-> n]
Unwanted(n) == [kind |-> "unwanted", name |-> n]

MCCanonicalName == [c \in Collectors |-> IF c = nerve THEN httpd ELSE cpu]

\* nerve leaves a goroutine behind that sends a metric; diamond brings metrics
\* of two python collectors, one of them blacklisted.
MCScripts ==
    [c \in Collectors |->
        IF c = nerve THEN {<<Plain(httpd)>>}
                     ELSE {<<Unwanted(load), Plain(cpu)>>}]

TwoRounds == [c \in Collectors |-> IF c = nerve THEN 2 ELSE 1]

\* The first handler has both lists, which name cpu; the second takes all.
MCWhiteList == [h \in Handlers |-> IF h = 1 THEN {httpd, cpu} ELSE {}]
MCBlackList == [h \in Handlers |-> IF h = 1 THEN {cpu} ELSE {}]
=============================================================================
