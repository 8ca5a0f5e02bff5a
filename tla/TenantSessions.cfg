CONSTANTS
    Req = {r1, r2}
    s1 = s1
    Session = {s1, s2}
    d1 = d1
    Sid = {d1}
    SidOf <- MCSidOf
    MaxGen = 1
    MaxAttempts = 1
    Arrivals = {"login", "callback", "api", "session", "logout", "backchannel"}
    Faults = {"abort", "lapse", "lost", "skew", "time", "preAuth"}
    MaxFaults = 1
    MaxCalls = 3
    Initial = s1
    NoSession = NoSession
    Absent = Absent
SPECIFICATION FairSpec
INVARIANTS
    EndedIsFinal
    ListedWhileStored
    ReuseNeedsFault
    CodeSentOnce
PROPERTIES
    TokensNeverRollBack
    EveryRequestEnds
\* The instance ends with its last request.
CHECK_DEADLOCK FALSE
