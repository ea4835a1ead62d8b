SPECIFICATION RegistrySpec
CONSTANTS
    p1 = p1
    p2 = p2
    q1 = q1
    q2 = q2
    t0 = t0
    t1 = t1
    t2 = t2
    t3 = t3
    b1 = b1
    b2 = b2
    Pushers = {p1, p2}
    Pruners = {q1}
    Tags = {t0, t1, t2, t3}
    Latest = t0
    Blobs = {b1, b2}
    Contents <- Images
    Uploads = {"FinishUpload"}
    KeepLast = 1
    Faults = {}
    MaxPushes = 2
    MaxAccidents = 0
    u1 = u1
    small = small
    UploadRequests = {}
    UploadIds = {u1}
    Bytes = {small}
    Bodies <- MCBodies
    Digests <- MCDigests
    MaxChunkSize = 2
    MaxBlobSize = 2
    MaxMutexes = 1
    MaxRestarts = 0
    Clients = {}
    MaxAttempts = 1
    Server = Server
SYMMETRY Symmetry
PROPERTY NewestAreKept
CHECK_DEADLOCK FALSE
