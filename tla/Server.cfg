\* Four processes, two edits and two SIGHUPs at any moment; one configured
\* name has neither a class nor a file, or has a class and no file.
SPECIFICATION FairSpec
CONSTANTS
    cpu = cpu
    disk = disk
    odd = odd
    Names = {cpu, disk, odd}
    Startable = {cpu, disk}
    WithoutConf = {odd}
    FirstConfig = {cpu, odd}
    Processes <- FourProcesses
    None = none
    MaxEdits = 2
    MaxHups = 2
CHECK_DEADLOCK FALSE
INVARIANTS TypeOK OneProcessPerCollector
PROPERTIES StopsOnlyUnwanted  UnwantedEnds
