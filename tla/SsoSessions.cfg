CONSTANTS
    Req = {r1, r2}
    Sid = {s1}
    User = {alice}
    Client = {crm}
    Place = {tanaka}
    Code = {k1}
    s1 = s1
    alice = alice
    crm = crm
    k1 = k1
    tanaka = tanaka
    suzuki = suzuki
    UserOf <- MCUserOf
    ClientOf <- MCClientOf
    PlaceOf <- MCPlaceOf
    SidOf <- MCSidOf
    Scopes <- MCLogout
    NoSid = NoSid
    NoCode = NoCode
    NoMember = NoMember
SPECIFICATION FairSpec
INVARIANTS
    TypeOK
    RevokedRowMeansGone
    QuietLogoutIsFinal
PROPERTIES
    EveryRequestEnds
\* The instance ends when its session has.
CHECK_DEADLOCK FALSE
