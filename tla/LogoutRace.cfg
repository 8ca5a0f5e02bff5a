CONSTANTS
    Req = {r1, r2}
    Sid = {s1}
    User = {alice}
    Client = {crm}
    Place = {tanaka}
    Code = {k1}
    s1 = s1
    alice = alice
    crm = crm
    k1 = k1
    tanaka = tanaka
    suzuki = suzuki
    UserOf <- MCUserOf
    ClientOf <- MCClientOf
    PlaceOf <- MCPlaceOf
    SidOf <- MCSidOf
    Scopes <- MCLogoutRace
    NoSid = NoSid
    NoCode = NoCode
    NoMember = NoMember
SPECIFICATION Spec
INVARIANTS
    LogoutIsFinal
CHECK_DEADLOCK FALSE
