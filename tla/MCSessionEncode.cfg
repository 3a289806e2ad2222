SPECIFICATION FairSpec
CONSTANTS
    MaxSessions = 1
    MaxOutputs = 1
    MaxRegistered = 2
    MaxInflight = 2
    SessionIdSpace = 3
    OutputIdBound = 1
    MaxBufferId = 3
    Tokens = {t1}
    Fds = {f1, f2, f3, f4, f5}
    Transports = {"DMABUF", "SURFACE"}
INVARIANTS
    InflightAwaitsCompletion
    NothingLeftBehind
PROPERTIES
    HandshakeEnds
    ImplementsLending
