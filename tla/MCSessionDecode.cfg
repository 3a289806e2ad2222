SPECIFICATION Spec
CONSTANTS
    MaxSessions = 2
    MaxOutputs = 2
    MaxRegistered = 1
    MaxInflight = 1
    SessionIdSpace = 4
    OutputIdBound = 3
    MaxBufferId = 0
    Tokens = {t1, t2}
    Fds = {f1, f2}
    Transports = {"BYTES", "AHB"}
SYMMETRY Interchangeable
INVARIANTS
    DescriptorsOwned
    ImagesOwned
    NoMisuse
    IdsNameOneThing
    NativeBufferSentOnce
