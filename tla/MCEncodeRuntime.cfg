SPECIFICATION Spec
CONSTANTS
    None = None
    Contexts = {c1}
    Surfaces = {s1, s2}
    Buffers = {b1, b2}
    FrameModes = {TRUE, FALSE}
    MaxInflight = 2
    Routes = {"linear", "repack"}
    Rates = {"r1"}
    Faults = {"open", "prepare", "export", "register", "submit", "complete",
              "signal", "receive", "fence", "size", "unregister"}
    Polls = {TRUE, FALSE}
    MaxFrames = 2
SYMMETRY Symmetry
INVARIANTS
    PendingCounted
    BufferAwaitsItsSurface
    RegistrationLive
    ReleasedBeforeReuse
PROPERTIES
    OutputsInOrder
CHECK_DEADLOCK FALSE
