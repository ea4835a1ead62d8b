SPECIFICATION ControlSpec
CONSTANTS
    a1 = a1
    a2 = a2
    a3 = a3
    c1 = c1
    c2 = c2
    Admins = {a1, a2}
    RouteImages <- MCImages
    MaxRouteCalls = 5
    Changers = {a1, a2}
    MaxChanges = 1
    MaxEdits = 1
    MaxTriggers = 1
    MaxConfigMishaps = 1
    MaxMishaps = 0
    Pushes = {a1, a2, a3}
    MaxMutexes = 2
    UdpWorkers = {a1, a2}
    UdpClients = {c1, c2}
    MaxSessions = 1
    MaxDials = 2
    Appliers = {a1, a2}
    Graphs <- MCGraphs
    Runtimes = {1, 2, 3, 4}
    MaxApplies = 3
    Savers = {a1, a2}
    Commands = {}
    Certificates = {c1, c2}
    MaxDirs = 3
    MaxFailures = 3
    ServiceCount = 2
    ServiceOptions <- MCServiceOptions
    MaxConfigs = 1
    MaxBoxes = 2
    MaxFaults = 1
SYMMETRY Symmetry
INVARIANTS
    ControlTypeOK
    ReloadConverges
    
    CreationsAlone
    SessionsAreOwned
    GraphIsServed
PROPERTIES
    StartFindsStored
    ReconcileSettles
CHECK_DEADLOCK FALSE
