SPECIFICATION AttachmentsSpec
CONSTANTS
    s1 = s1
    s2 = s2
    d1 = d1
    d2 = d2
    r1 = r1
    h1 = h1
    c1 = c1
    Hosts = {1}
    TargetCount = 1
    TargetOf <- MCTargetOf
    BatchSize = 1
    MaxUpsets = 0
    AttachmentCount = 2
    AttachmentImages = {1, 2}
    MaxReconfigs = 1
    MaxIds = 3
    MaxFailing = 1
    SecretCallers = {s1}
    KeyCount = 1
    ValueCount = 1
    Scopes = {"domain"}
    MaxLosses = 0
    DeployCalls = {d1}
    ReloadCalls = {r1}
    MaxStarts = 1
    MaxKills = 0
    CaCommands = {c1}
    Handshakes = {h1}
    InterLife = 2
    LeafLife = 1
    RenewalWindow = 2
    MaxClock = 2
    MaxKeys = 4
    MaxErrors = 1
PROPERTY AttachmentsPersist
CHECK_DEADLOCK FALSE
