SPECIFICATION Spec
CONSTANTS
    d1 = d1
    d2 = d2
    r1 = r1
    o1 = o1
    v1 = v1
    v2 = v2
    Deployers = {d1, d2}
    Reconcilers = {}
    Operators = {}
    Calls = {}
    Monitoring = FALSE
    Images = {v1, v2}
    Faults = {"prepare", "create", "start", "ready", "cancel"}
    MaxContainers = 5
    MaxCrashes = 2
SYMMETRY SymmetryDeployers
INVARIANT TypeOK
INVARIANT LockedSections
INVARIANT ExistingIsCurrent
INVARIANT CleanupSparesTracked
INVARIANT TrackedIsUp
 
 
