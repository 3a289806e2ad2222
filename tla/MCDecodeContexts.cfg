SPECIFICATION Spec
CONSTANTS
    c1 = c1
    c2 = c2
    Contexts = {c1, c2}
    SurfaceCount = 2
    t1 = t1
    Threads = {t1}
    SessionIds = {1}
    MaxPts = 2
    Window = 1
    Async = {c1, c2}
SYMMETRY Interchangeable
INVARIANTS
    NoLeaseLost
    PictureHeld
    PendingAwaited
PROPERTIES
    NothingAfterEos
