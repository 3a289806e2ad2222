SPECIFICATION Spec
CONSTANTS
    Sessions = {1}
    MaxSlots = 2
    MaxPts = 2
    MaxId = 2
    ResvIds = 3
    TokenLimit = 4
    Modes = {"auto", "linear", "qcom"}
    GiveBack = TRUE
INVARIANTS
    NoTornPicture
