SPECIFICATION FairSpec
CONSTANTS
    Programs = {"active", "guarded", "manual", "broker"}
    Planes = {p1, p2}
    Hint = p1
    Extras = {p2}
    Passing = {p1, p2}
    Slots = {1}
    Faults = {"master", "query", "ambiguous", "state", "force", "clear", "display", "test",
              "create", "verify", "fork", "exec", "revoke", "socket", "peer"}
    MaxEvents = 2
    MaxRuns = 2
    Polls = 3
    Settle = 1
    Steady = 2
    Reprobe = 1
    Absent = 2
    Patience = 2
CHECK_DEADLOCK FALSE
INVARIANTS
    QuietWhileLeased
    LeaseEndsWithHandoff
    AndroidPutBack
PROPERTIES
    UnplugEndsLease
