\* Two rounds of nerve, whose goroutines and late timers may overlap and whose
\* blacklist matches the incidents they report, one of the Diamond listener, and
\* an error; the first handler has lists, or is of an unknown name.
SPECIFICATION FairSpec
CONSTANTS
    nerve = nerve
    diamond = diamond
    httpd = httpd
    cpu = cpu
    load = load
    Collectors = {nerve, diamond}
    Listeners = {diamond}
    Spawners = {nerve}
    Silent = {nerve}
    Names = {httpd, cpu, load}
    CanonicalName <- MCCanonicalName
    Configured = {httpd, cpu, load}
    Scripts <- MCScripts
    HandlerCount = 2
    Unknown = {1}
    WhiteList <- MCWhiteList
    BlackList <- MCBlackList
    None = none
    MaxRounds <- TwoRounds
    MaxErrors = 1
CHECK_DEADLOCK FALSE
INVARIANTS TypeOK CountsMatchDeliveries OnlyWantedDelivered InOrderToEach
PROPERTIES CountsNeverGoBack LateRoundsReportedOnce PipelineDrains
