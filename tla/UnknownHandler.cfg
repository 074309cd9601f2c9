\* The second handler of the list could not be created; incidents are not blacklisted.
SPECIFICATION Spec
CONSTANTS
    nerve = nerve
    diamond = diamond
    httpd = httpd
    cpu = cpu
    load = load
    Collectors = {nerve, diamond}
    Listeners = {diamond}
    Spawners = {nerve}
    Silent = {}
    Names = {httpd, cpu, load}
    CanonicalName <- MCCanonicalName
    Configured = {httpd, cpu, load}
    Scripts <- MCScripts
    HandlerCount = 2
    Unknown = {2}
    WhiteList <- MCWhiteList
    BlackList <- MCBlackList
    None = none
    MaxRounds <- TwoRounds
    MaxErrors = 1
CHECK_DEADLOCK FALSE
INVARIANTS UnknownHandlerHarmless
