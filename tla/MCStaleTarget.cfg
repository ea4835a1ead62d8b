SPECIFICATION ZSpec
CONSTANTS
    d1 = d1
    r1 = r1
    o1 = o1
    v1 = v1
    v2 = v2
    q1 = q1
    q2 = q2
    Deployers = {d1}
    Reconcilers = {}
    Operators = {}
    Calls = {}
    Monitoring = FALSE
    Images = {v1, v2}
    Faults = {}
    MaxContainers = 2
    MaxCrashes = 0
    Requests = {q1}
SYMMETRY SymmetryRequests
INVARIANT CachedIsUp
