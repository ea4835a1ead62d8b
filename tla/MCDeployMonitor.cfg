SPECIFICATION FairSpec
CONSTANTS
    d1 = d1
    d2 = d2
    r1 = r1
    o1 = o1
    v1 = v1
    v2 = v2
    Deployers = {d1}
    Reconcilers = {r1}
    Operators = {o1}
    Calls = {"sync", "restart"}
    Monitoring = TRUE
    Images = {v1}
    Faults = {"external", "unhealthy", "list", "cancel"}
    MaxContainers = 2
    MaxCrashes = 0
PROPERTY MonitorRevives
PROPERTY RemovedIsDown
