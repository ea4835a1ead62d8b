SPECIFICATION KeepSpec
CONSTANTS
    s1 = s1
    s2 = s2
    d1 = d1
    d2 = d2
    r1 = r1
    h1 = h1
    c1 = c1
    Hosts = {1, 2, 3}
    TargetCount = 3
    TargetOf <- MCTargetOf
    BatchSize = 1
    MaxUpsets = 1
    AttachmentCount = 2
    AttachmentImages = {1, 2}
    MaxReconfigs = 1
    MaxIds = 6
    MaxFailing = 1
    SecretCallers = {s1, s2}
    KeyCount = 2
    ValueCount = 1
    Scopes = {"domain", "attachment", "file"}
    MaxLosses = 1
    DeployCalls = {d1, d2}
    ReloadCalls = {r1}
    MaxStarts = 2
    MaxKills = 1
    CaCommands = {c1}
    Handshakes = {h1}
    InterLife = 2
    LeafLife = 1
    RenewalWindow = 2
    MaxClock = 2
    MaxKeys = 4
    MaxErrors = 1
SYMMETRY Symmetry
INVARIANTS
    KeepTypeOK
    
    SignalIsHeard
    TrustSurvives
PROPERTIES
    HostIsServedOrTried
    AttachmentsSettle
CHECK_DEADLOCK FALSE
