SPECIFICATION Spec
CONSTANTS
    None = None
    Ids = {i1, i2, i3}
    Storages = {m1, m2}
    Nv12 = {m2}
    CacheSize = 2
    AhbCacheSize = 1
    FrameSlots = 2
    Transports = {"bytes_decode", "bytes_encode", "ahb_decode", "egl", "ahb",
                  "dmabuf_egl", "dmabuf_vulkan"}
    Supports = {"async", "sync", "missing"}
    Apis = {30, 36}
    MaxInflight = 2
    MaxOutputs = 2
    InputBuffers = 2
    Faults = {"configure", "surface", "display", "producer", "start", "size",
              "queue", "current", "acquire", "import", "fence", "quiesce",
              "draw", "sync", "request", "signal", "render", "range", "format",
              "flush", "descriptor", "ycbcr", "mapper"}
    MaxFaults = 1
    MaxFrames = 3
    MaxSessions = 1
SYMMETRY Symmetry
INVARIANTS
    DrawsReadLiveImports
    RefsCountFrames
    FramesAccounted
    ImageMatchesInfo
    ResourcesBalanced
    EosOnItsWay
