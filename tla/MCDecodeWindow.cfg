SPECIFICATION StagingSpec
CONSTANTS
    c1 = c1
    Contexts = {c1}
    SurfaceCount = 2
    t1 = t1
    Threads = {t1}
    SessionIds = {1}
    MaxPts = 3
    Window = 1
    Async = {}
    Codecs = {"H264", "HEVC", "VP9"}
    ParamSets <- Streams
    Inband = TRUE
PROPERTIES
    EosDrains
    UnitMeetsItsConfig
