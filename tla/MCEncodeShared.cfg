SPECIFICATION FairSpec
CONSTANTS
    None = None
    Contexts = {c1, c2}
    Surfaces = {s1}
    Buffers = {b1}
    FrameModes = {FALSE}
    MaxInflight = 2
    Routes = {"direct"}
    Rates = {"r1", "r2"}
    Faults = {"submit", "receive", "unregister", "hang"}
    Polls = {FALSE}
    MaxFrames = 2
INVARIANTS
    RegistrationLive
PROPERTIES
    EveryCallReturns
CHECK_DEADLOCK FALSE
