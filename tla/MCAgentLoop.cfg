SPECIFICATION Spec
CONSTANTS
    s1 = s1
    k1 = k1
    w1 = w1
    Width = 3
    MaxHosts = 2
    Links <- MCLinks
    Retries = 2
    Scans = {s1}
    Checks = {k1}
    Wakes = {w1}
    Asked <- MCAsked
    Subnets <- MCSubnets
    Hosts = {1}
    Slots = 1
    Free = Free
    Copies = 1
    Broadcasts = {3}
    MinBackoff = 1
    MaxBackoff = 2
    MaxLoad = 2
CHECK_DEADLOCK FALSE
PROPERTIES
    AgentReturns
    CommandsEnd
INVARIANTS
    TypeOK
    OneSweeper
    ScanHonest
    DownMeansSilent
    WakeHonest
