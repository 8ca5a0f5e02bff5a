CONSTANTS
    Req = {r1, r2}
    ann = ann
    bob = bob
    Person = {ann, bob}
    Email = {"lower", "mixed"}
    EmailOf <- MCEmailOf
    Lower <- MCLower
    u1 = u1
    UserId = {u1, u2}
    p1 = p1
    p2 = p2
    Pending = {p1, p2}
    q1 = q1
    Rid = {q1}
    MaxAttempts = 2
    MaxSecrets = 2
    MaxCalls = 3
    MaxFaults = 1
    Starts <- MCStarts
    NoSub = NoSub
    NoRid = NoRid
    NoUser = NoUser
    NoLogin = NoLogin
    Absent = Absent
    Tabs = {r1, r2}
    Asks = {r1, r2}
    SetupTtl = 2
    PendingTtl = 3
    Skews <- MCSkews
    LastMinute = 3
    MostSecrets = 2
SPECIFICATION MCSpec
SYMMETRY MCSymmetry
INVARIANTS
    TypeOK
    SessionsAreEarned
    GuessesAreCounted
    OneRowPerMailbox
    AnsweredOnce
    ShownQrWorks
PROPERTIES
    LinkIsForever
\* The instance ends with its last request.
CHECK_DEADLOCK FALSE
