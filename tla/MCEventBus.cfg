SPECIFICATION EventsSpec
CONSTANTS
    Publishers = {p1, p2}
    Handlers = {deploy, both}
    Kinds = {imagePushed, configReload}
    Accepts <- MCAccepts
    BufferSize = 1
    MaxEvents = 2
    deploy = deploy
    both = both
    imagePushed = imagePushed
    configReload = configReload
    MaxChanges = 3
    Pushes = {p1, p2}
    MaxMutexes = 2
    MaxMishaps = 1
    TcpClients = {p1, p2}
    Limits = {1}
    QueueSize = 1
    MaxServers = 2
INVARIANTS
    EventsTypeOK
PROPERTIES
    HandlersTakeTurns
    ImplementsEventQueue
    NobodyWaits
    ChangeIsDeployed
    PreviewIsCollected
    StopDrains
CHECK_DEADLOCK FALSE
