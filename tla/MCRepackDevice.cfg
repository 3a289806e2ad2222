SPECIFICATION Spec
CONSTANTS
    None = None
    Workers = {w1, w2}
    MaxClients = 2
    MaxSlots = 2
    Inodes = {i1, i2, i3}
    MaxReuse = 1
    Sizes = {24, 48}
    Align = 16
    Faults = {"device", "image", "export", "hang", "import", "fence", "pool"}
    MaxFaults = 1
    MaxCalls = 3
SYMMETRY Symmetry
INVARIANTS
    CopiesWhatWasSent
    DeviceSpansPools
    CopiesKeepDestination
