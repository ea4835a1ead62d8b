SPECIFICATION CertificatesSpec
CONSTANTS
    a1 = a1
    a2 = a2
    a3 = a3
    c1 = c1
    c2 = c2
    Admins = {a1}
    RouteImages <- MCImages
    MaxRouteCalls = 0
    Changers = {a1}
    MaxChanges = 1
    MaxEdits = 0
    MaxTriggers = 0
    MaxConfigMishaps = 0
    MaxMishaps = 0
    Pushes = {a1}
    MaxMutexes = 1
    UdpWorkers = {a1, a2}
    UdpClients = {c1, c2}
    MaxSessions = 1
    MaxDials = 3
    Appliers = {a1}
    Graphs <- MCGraphs
    Runtimes = {1, 2}
    MaxApplies = 0
    Savers = {a1}
    Commands = {a2}
    Certificates = {c1}
    MaxDirs = 2
    MaxFailures = 0
    ServiceCount = 1
    ServiceOptions <- MCServiceOptions
    MaxConfigs = 0
    MaxBoxes = 1
    MaxFaults = 0
INVARIANT CommittedIsWhole
CHECK_DEADLOCK FALSE
