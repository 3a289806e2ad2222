SPECIFICATION Spec
CONSTANTS
    Sessions = {s1, s2}
    MaxSlots = 2
    MaxPts = 1
    MaxId = 2
    ResvIds = 3
    TokenLimit = 4
    Modes = {"auto", "linear", "qcom"}
    GiveBack = TRUE
SYMMETRY Symmetry
INVARIANTS
    LeasesHeld
    NothingStuckUpstream
    GivenResolves
