SPECIFICATION FairSpec
CONSTANTS
    d1 = d1
    d2 = d2
    r1 = r1
    o1 = o1
    v1 = v1
    v2 = v2
    Deployers = {d1, d2}
    Reconcilers = {}
    Operators = {}
    Calls = {}
    Monitoring = TRUE
    Images = {v1, v2}
    Faults = {"prepare", "ready", "remove", "flaky"}
    MaxContainers = 3
    MaxCrashes = 0
PROPERTY MonitorRespectsStop
PROPERTY Converges
